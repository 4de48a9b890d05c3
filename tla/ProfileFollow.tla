----------------------------- MODULE ProfileFollow -----------------------------
(***************************************************************************)
(* Following a profile, with the rows themselves: ProfileService checks    *)
(* the follow row, creates or deletes it, and publishes an event; later    *)
(* refreshFollowersCounts counts the rows of both ends and stores the two  *)
(* counters.  The road from the event to the refresh is MetricsPipeline;   *)
(* here it is the set pending, which loses nothing.                        *)
(***************************************************************************)
EXTENDS Integers, FiniteSets

CONSTANTS
    Profiles,
    Requests    \* follow and unfollow requests in progress at the same time

VARIABLES
    follows,    \* rows of profile_follows: <<followerId, followingId>>
    request,    \* per request: what it is about to do
    pending,    \* profiles whose counters an event asked to refresh
    refresh,    \* per profile: the refresh in progress, with the counts made
    counters,   \* per profile: the stored counters
    balance     \* history: follows minus unfollows reported as successful

vars == <<follows, request, pending, refresh, counters, balance>>

\* Mutant of Pairs: nothing stops a profile from following itself.
PairsWithSelf == Profiles \X Profiles

\* Who may follow whom: "You cannot follow yourself."
Pairs == {pair \in Profiles \X Profiles : pair[1] # pair[2]}

Idle == [step |-> "idle"]
NotCounted == -1
NoRefresh == [running |-> FALSE, followers |-> NotCounted, following |-> NotCounted]

\* The columns of a follow row.
FollowersOf(p) == Cardinality({row \in follows : row[2] = p})     \* countFollowersByProfileId
FollowingOf(p) == Cardinality({row \in follows : row[1] = p})     \* countFollowingByProfileId

\* The where clauses of refreshFollowersCounts: followersCount counts the rows
\* whose followerId is the profile, followingCount those whose followingId is.
RefreshedFollowers(p) == Cardinality({row \in follows : row[1] = p})
RefreshedFollowing(p) == Cardinality({row \in follows : row[2] = p})

\* fromPrisma, which every reader of a profile goes through, swaps the columns back.
Shown(p) == [followersCount |-> counters[p].followingCount,
             followingCount |-> counters[p].followersCount]

-----------------------------------------------------------------------------
\* isFollowing said no; nobody can follow themselves.
CheckFollow(r, pair) ==
    /\ request[r] = Idle
    /\ pair \notin follows
    /\ request' = [request EXCEPT ![r] = [step |-> "create", pair |-> pair]]
    /\ UNCHANGED <<follows, pending, refresh, counters, balance>>

\* isFollowing said yes.
CheckUnfollow(r, pair) ==
    /\ request[r] = Idle
    /\ pair \in follows
    /\ request' = [request EXCEPT ![r] = [step |-> "delete", pair |-> pair]]
    /\ UNCHANGED <<follows, pending, refresh, counters, balance>>

\* Mutant of Create: no primary key on the pair, every create succeeds.
CreateUnkeyed(r) ==
    /\ request[r].step = "create"
    /\ follows' = follows \union {request[r].pair}
    /\ balance' = [balance EXCEPT ![request[r].pair] = @ + 1]
    /\ request' = [request EXCEPT ![r] = [step |-> "publish", pair |-> @.pair]]
    /\ UNCHANGED <<pending, refresh, counters>>

\* The primary key refuses a second row: that request fails and changes nothing.
Create(r) ==
    /\ request[r].step = "create"
    /\ IF request[r].pair \in follows
       THEN /\ request' = [request EXCEPT ![r] = Idle]
            /\ UNCHANGED <<follows, balance>>
       ELSE /\ follows' = follows \union {request[r].pair}
            /\ balance' = [balance EXCEPT ![request[r].pair] = @ + 1]
            /\ request' = [request EXCEPT ![r] = [step |-> "publish", pair |-> @.pair]]
    /\ UNCHANGED <<pending, refresh, counters>>

\* Deleting a row that is gone fails and changes nothing.
Delete(r) ==
    /\ request[r].step = "delete"
    /\ IF request[r].pair \in follows
       THEN /\ follows' = follows \ {request[r].pair}
            /\ balance' = [balance EXCEPT ![request[r].pair] = @ - 1]
            /\ request' = [request EXCEPT ![r] = [step |-> "publish", pair |-> @.pair]]
       ELSE /\ request' = [request EXCEPT ![r] = Idle]
            /\ UNCHANGED <<follows, balance>>
    /\ UNCHANGED <<pending, refresh, counters>>

\* profile.followed or profile.unfollowed, for the profile and its target.
Publish(r) ==
    /\ request[r].step = "publish"
    /\ pending' = pending \union {request[r].pair[1], request[r].pair[2]}
    /\ request' = [request EXCEPT ![r] = Idle]
    /\ UNCHANGED <<follows, refresh, counters, balance>>

-----------------------------------------------------------------------------
\* A flush takes the lock of p and starts refreshFollowersCounts.
StartRefresh(p) ==
    /\ p \in pending
    /\ ~refresh[p].running
    /\ pending' = pending \ {p}
    /\ refresh' = [refresh EXCEPT ![p].running = TRUE]
    /\ UNCHANGED <<follows, request, counters, balance>>

\* The two counts of Promise.all, in either order.
CountFollowers(p) ==
    /\ refresh[p].running /\ refresh[p].followers = NotCounted
    /\ refresh' = [refresh EXCEPT ![p].followers = RefreshedFollowers(p)]
    /\ UNCHANGED <<follows, request, pending, counters, balance>>

CountFollowing(p) ==
    /\ refresh[p].running /\ refresh[p].following = NotCounted
    /\ refresh' = [refresh EXCEPT ![p].following = RefreshedFollowing(p)]
    /\ UNCHANGED <<follows, request, pending, counters, balance>>

\* Mutant of Update: what was asked for during the refresh counts as done.
UpdateAbsorbing(p) ==
    /\ refresh[p].followers # NotCounted /\ refresh[p].following # NotCounted
    /\ counters' = [counters EXCEPT ![p] = [followersCount |-> refresh[p].followers,
                                            followingCount |-> refresh[p].following]]
    /\ refresh' = [refresh EXCEPT ![p] = NoRefresh]
    /\ pending' = pending \ {p}
    /\ UNCHANGED <<follows, request, balance>>

Update(p) ==
    /\ refresh[p].followers # NotCounted /\ refresh[p].following # NotCounted
    /\ counters' = [counters EXCEPT ![p] = [followersCount |-> refresh[p].followers,
                                            followingCount |-> refresh[p].following]]
    /\ refresh' = [refresh EXCEPT ![p] = NoRefresh]
    /\ UNCHANGED <<follows, request, pending, balance>>

-----------------------------------------------------------------------------
Init ==
    /\ follows = {}
    /\ request = [r \in Requests |-> Idle]
    /\ pending = {}
    /\ refresh = [p \in Profiles |-> NoRefresh]
    /\ counters = [p \in Profiles |-> [followersCount |-> 0, followingCount |-> 0]]
    /\ balance = [pair \in Pairs |-> 0]

Next ==
    \/ \E r \in Requests :
          \/ \E pair \in Pairs : CheckFollow(r, pair) \/ CheckUnfollow(r, pair)
          \/ Create(r) \/ Delete(r) \/ Publish(r)
    \/ \E p \in Profiles : StartRefresh(p) \/ CountFollowers(p) \/ CountFollowing(p) \/ Update(p)

Spec == Init /\ [][Next]_vars

-----------------------------------------------------------------------------
(***************************************************************************)
(* Whatever requests race for a pair, the answers they got agree with the  *)
(* row: successful follows and unfollows of it alternate.                  *)
(***************************************************************************)
AnswersMatchRows ==
    \A pair \in Pairs : balance[pair] = IF pair \in follows THEN 1 ELSE 0

\* No request has an event of p to publish, and no refresh of p is due or running.
Settled(p) ==
    /\ \A r \in Requests :
          request[r].step = "publish" => p \notin {request[r].pair[1], request[r].pair[2]}
    /\ p \notin pending
    /\ ~refresh[p].running

(***************************************************************************)
(* What is shown of a settled profile is what its followers and following  *)
(* lists hold now, although refresh and assembler both swap the columns:   *)
(* rows committed while a refresh was counting are counted by another one. *)
(***************************************************************************)
ShownCountsAreRight ==
    \A p \in Profiles : Settled(p) =>
        Shown(p) = [followersCount |-> FollowersOf(p), followingCount |-> FollowingOf(p)]

TypeOK ==
    /\ follows \subseteq Profiles \X Profiles /\ \A row \in follows : row[1] # row[2]
    /\ request \in [Requests -> {Idle} \union
                       [step : {"create", "delete", "publish"}, pair : Pairs]]
    /\ pending \subseteq Profiles
    /\ refresh \in [Profiles -> [running : BOOLEAN, followers : Nat \union {NotCounted},
                                 following : Nat \union {NotCounted}]]
    /\ counters \in [Profiles -> [followersCount : Nat, followingCount : Nat]]
    /\ balance \in [Pairs -> Int]

=============================================================================
