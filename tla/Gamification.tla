----------------------------- MODULE Gamification -----------------------------
(***************************************************************************)
(* Unlocking achievements.  Every event post.* of a profile makes          *)
(* SocialGamificationAsyncController run AchievementEngine under a lock of *)
(* the profile with a lease of a second.  The engine lists the             *)
(* achievements the profile does not have, then reads the profile's        *)
(* counters (which the metrics pipeline moves), and inserts those whose    *)
(* criteria hold, one by one: the repository ignores the transaction it is *)
(* called in, so every insert stays.  The module is about one profile.     *)
(***************************************************************************)
EXTENDS Integers, FiniteSets

CONSTANTS
    Achievements,
    Offers,     \* criteria an administrator may send: sets of [type, operator, value]
    Types,      \* of criteria: the profile's counters
    MaxCount,   \* bound of a counter
    Runs,       \* events of the profile, each with its run of the handler
    FreeLock

Operators == {">=", ">", "<=", "<", "==", "!="}

ASSUME OffersAssumption ==
    /\ MaxCount \in Nat /\ FreeLock \notin Runs
    /\ Offers \subseteq SUBSET [type : Types, operator : Operators, value : Int]

VARIABLES
    criteria,   \* [Achievements -> criteria column of the row, as JSON], {} without a row
    counter,    \* [Types -> the counter stored on the profile]
    unlocked,   \* [Achievements -> rows of profile_achievements]
    engine,     \* per run: step, achievements there were, counters read, still to do, at
    lease,      \* who holds the lock
    earned      \* history: achievements whose criteria held at some time

gamificationVars == <<criteria, counter, unlocked, engine, lease, earned>>

-----------------------------------------------------------------------------
(***************************************************************************)
(* Criteria.                                                               *)
(***************************************************************************)

\* AchievementCriterion.matches
Compare(value, operator, bound) ==
    CASE operator = ">=" -> value >= bound
      [] operator = ">"  -> value > bound
      [] operator = "<=" -> value <= bound
      [] operator = "<"  -> value < bound
      [] operator = "==" -> value = bound
      [] operator = "!=" -> value # bound

Required == {"type", "operator", "value", "description"}

\* toJSON: more attributes than fromJSON requires.
ToJSON(c) == [criterion |-> c, keys |-> Required \union {"metadata", "version"}]

\* Mutant of Rejected: a criterion needs the required attributes and no other.
RejectedOther(json) == ~(json.keys \subseteq Required)

\* fromJSON throws when it meets no attribute but the required ones.
Rejected(json) == json.keys \subseteq Required

\* PrismaAchievementAssembler.fromPrisma drops criteria it cannot read.
Parsed(a) == {json.criterion : json \in {j \in criteria[a] : ~Rejected(j)}}

\* new Achievement() throws without a criterion; such a row is not listed.
Readable(a) == Parsed(a) # {}

\* Mutant of Eligible: one criterion is enough.
EligibleSome(cs, counts) == \E c \in cs : Compare(counts[c.type], c.operator, c.value)

\* criteria.every(...)
Eligible(cs, counts) == \A c \in cs : Compare(counts[c.type], c.operator, c.value)

\* The constructors of AchievementCriterion and Achievement.
Valid(offer) == offer # {} /\ \A c \in offer : c.value >= 0

Exists(a) == criteria[a] # {}

\* Achievements whose criteria, as they were sent, hold of the counters.
Due(cs, counts) ==
    {a \in Achievements : cs[a] # {} /\ \A j \in cs[a] :
        Compare(counts[j.criterion.type], j.criterion.operator, j.criterion.value)}

-----------------------------------------------------------------------------
\* CreateAchievementUseCase.execute; an invalid offer, or one whose media is
\* not there, changes nothing.
CreateAchievement(a) ==
    /\ ~Exists(a)
    /\ \E offer \in Offers :
          /\ Valid(offer)
          /\ criteria' = [criteria EXCEPT ![a] = {ToJSON(c) : c \in offer}]
          /\ earned' = earned \union Due(criteria', counter)
    /\ UNCHANGED <<counter, unlocked, engine, lease>>

\* A flush of the profile queue stores a counter.
RefreshCounter(t) ==
    /\ \E n \in 0 .. MaxCount : counter' = [counter EXCEPT ![t] = n]
    /\ counter' # counter
    /\ earned' = earned \union Due(criteria, counter')
    /\ UNCHANGED <<criteria, unlocked, engine, lease>>

\* The handler gets the lock, or after its retries does not and skips the event.
AcquireLease(r) ==
    /\ engine[r].step = "none"
    /\ lease = FreeLock
    /\ lease' = r
    /\ engine' = [engine EXCEPT ![r].step = "list"]
    /\ UNCHANGED <<criteria, counter, unlocked, earned>>

SkipEvent(r) ==
    /\ engine[r].step = "none"
    /\ lease # FreeLock
    /\ engine' = [engine EXCEPT ![r].step = "skipped"]
    /\ UNCHANGED <<criteria, counter, unlocked, lease, earned>>

\* listAll({ notInProfile }): active, readable, not yet unlocked.
ListMissing(r) ==
    /\ engine[r].step = "list"
    /\ engine' = [engine EXCEPT ![r].step = "read", ![r].seen = criteria,
                    ![r].left = {a \in Achievements : Exists(a) /\ Readable(a) /\ unlocked[a] = 0}]
    /\ UNCHANGED <<criteria, counter, unlocked, lease, earned>>

\* profileRepository.findById and the filter.
FilterEligible(r) ==
    /\ engine[r].step = "read"
    /\ engine' = [engine EXCEPT ![r].step = "check", ![r].counts = counter,
                    ![r].left = {a \in @ : Eligible(Parsed(a), counter)}]
    /\ UNCHANGED <<criteria, counter, unlocked, lease, earned>>

\* "Check again to prevent duplicates (just in case)"
CheckExists(r, a) ==
    /\ engine[r].step = "check" /\ a \in engine[r].left
    /\ engine' = [engine EXCEPT ![r].step = IF unlocked[a] > 0 THEN "check" ELSE "insert",
                                ![r].left = @ \ {a}, ![r].at = {a}]
    /\ UNCHANGED <<criteria, counter, unlocked, lease, earned>>

Release(r) == lease' = IF lease = r THEN FreeLock ELSE lease

\* @@unique([profileId, achievementId])
Refused(a) == unlocked[a] > 0

InsertUnlocked(r) ==
    /\ engine[r].step = "insert"
    /\ \E a \in engine[r].at :
          /\ ~Refused(a)
          /\ unlocked' = [unlocked EXCEPT ![a] = @ + 1]
          /\ engine' = [engine EXCEPT ![r].step = "check", ![r].at = {}]
    /\ UNCHANGED <<criteria, counter, lease, earned>>

FinishRun(r) ==
    /\ engine[r].step = "check" /\ engine[r].left = {}
    /\ engine' = [engine EXCEPT ![r].step = "finished", ![r].at = {}]
    /\ Release(r)
    /\ UNCHANGED <<criteria, counter, unlocked, earned>>

\* The insert is refused, or a query fails: the rest of the list is left, and
\* what was inserted stays.
FailRun(r) ==
    /\ engine[r].step \in {"list", "read", "check", "insert"}
    /\ engine' = [engine EXCEPT ![r].step = "failed", ![r].left = {}, ![r].at = {}]
    /\ Release(r) \/ UNCHANGED lease     \* releaseLock may fail as well
    /\ UNCHANGED <<criteria, counter, unlocked, earned>>

LeaseExpires ==
    /\ lease # FreeLock
    /\ lease' = FreeLock
    /\ UNCHANGED <<criteria, counter, unlocked, engine, earned>>

GamificationInit ==
    /\ criteria = [a \in Achievements |-> {}]
    /\ counter = [t \in Types |-> 0]
    /\ unlocked = [a \in Achievements |-> 0]
    /\ engine = [r \in Runs |-> [step |-> "none", seen |-> criteria, counts |-> counter,
                                 left |-> {}, at |-> {}]]
    /\ lease = FreeLock
    /\ earned = {}

GamificationNext ==
    \/ \E a \in Achievements : CreateAchievement(a)
    \/ \E t \in Types : RefreshCounter(t)
    \/ \E r \in Runs :
          \/ AcquireLease(r) \/ SkipEvent(r) \/ ListMissing(r) \/ FilterEligible(r)
          \/ InsertUnlocked(r) \/ FinishRun(r) \/ FailRun(r)
          \/ \E a \in Achievements : CheckExists(r, a)
    \/ LeaseExpires

GamificationSpec == GamificationInit /\ [][GamificationNext]_gamificationVars

-----------------------------------------------------------------------------
GamificationTypeOK ==
    /\ DOMAIN criteria = Achievements /\ earned \subseteq Achievements
    /\ counter \in [Types -> 0 .. MaxCount]
    /\ unlocked \in [Achievements -> Nat]
    /\ lease \in Runs \union {FreeLock}
    /\ \A r \in Runs :
          /\ engine[r].step \in {"none", "skipped", "list", "read", "check", "insert",
                                 "finished", "failed"}
          /\ engine[r].left \subseteq Achievements /\ engine[r].at \subseteq Achievements

(***************************************************************************)
(* An achievement is unlocked at most once, also when the lease of a run   *)
(* expires in the middle of it and another event's run inserts too.        *)
(***************************************************************************)
UnlockedOnce == \A a \in Achievements : unlocked[a] <= 1

(***************************************************************************)
(* What is unlocked was earned: at some one moment every criterion its     *)
(* administrator gave held of the profile's counters, which move between   *)
(* the engine's reads and its inserts.                                     *)
(***************************************************************************)
UnlockedWasEarned == \A a \in Achievements : unlocked[a] > 0 => a \in earned

(***************************************************************************)
(* A run that finishes leaves nothing out: every achievement there was     *)
(* when it began, and whose criteria the counters it read meet, is         *)
(* unlocked, by this run or by another.                                    *)
(***************************************************************************)
FinishedRunUnlocksAll ==
    \A r \in Runs : engine[r].step = "finished" =>
        \A a \in Due(engine[r].seen, engine[r].counts) : unlocked[a] > 0
=============================================================================
