------------------------------- MODULE PostVotes -------------------------------
(***************************************************************************)
(* Voting on one post.  vote() reads the post with the voter's own vote,   *)
(* toggles it in memory, writes or deletes the row, publishes post.voted   *)
(* and answers with the post; later refreshPostScore counts the rows and   *)
(* stores the counts.  A reader of the post sees the stored counts, with   *)
(* the optimistic correction of PostAssembler.fromSqlSelect.               *)
(*                                                                         *)
(* Users and profiles have ids of their own; vote() passes the id of the   *)
(* user to the query and to the delete, which compare it with profile ids. *)
(***************************************************************************)
EXTENDS Integers, FiniteSets

CONSTANTS
    Profiles,   \* profile ids
    UserId,     \* [Profiles -> Int]: the id of the user behind each profile
    Requests    \* votes in progress at the same time

ASSUME IdsAssumption ==
    /\ Profiles \subseteq Int /\ IsFiniteSet(Profiles)
    /\ UserId \in [Profiles -> Int]
    /\ \A p, q \in Profiles : p # q => UserId[p] # UserId[q]

UP == 1
DOWN == -1
NULL == 0
VoteValues == {UP, DOWN}

VARIABLES
    votes,      \* value of each profile's row in post_votes, NULL if it has none
    stored,     \* upVotes and downVotes of the post
    request,    \* per request: what it is about to do
    due,        \* TRUE when a vote's event asks for a refresh of the score
    counting    \* the refresh in progress, with the counts made

vars == <<votes, stored, request, due, counting>>

Idle == [step |-> "idle"]
NotCounted == -1
NoRefresh == [running |-> FALSE, up |-> NotCounted, down |-> NotCounted]

CountOf(v) == Cardinality({p \in Profiles : votes[p] = v})

\* The vote that findByUuid(uuid, id) or findBySlug joins to the post.
RowOf(id) == IF id \in Profiles THEN votes[id] ELSE NULL

\* Mutant of Shown: the stored counts as they are.
ShownRaw(v) == [up |-> stored.up, down |-> stored.down, vote |-> v]

\* fromSqlSelect: a vote the counts cannot contain yet, being zero, is added.
Shown(v) ==
    [up   |-> IF v = UP /\ stored.up = 0 THEN 1 ELSE stored.up,
     down |-> IF v = DOWN /\ stored.down = 0 THEN 1 ELSE stored.down,
     vote |-> v]

\* Mutant of Toggle: the difference to the old vote instead of the new vote.
ToggleDelta(prev, v) == IF prev = v THEN NULL ELSE v - prev

\* toggleVote: voting the same value again takes the vote back.
Toggle(prev, v) == IF prev = v THEN NULL ELSE v

One(condition) == IF condition THEN 1 ELSE 0

\* updateVoteCounts, on the post in memory.
Recounted(post, next) ==
    [up   |-> post.up - One(post.vote = UP) + One(next = UP),
     down |-> post.down - One(post.vote = DOWN) + One(next = DOWN),
     vote |-> next]

-----------------------------------------------------------------------------
\* findByUuid, with the user's id, and toggleVote.
ReadPost(r, p, v) ==
    /\ request[r] = Idle
    /\ LET post == Shown(RowOf(UserId[p]))
           next == Toggle(post.vote, v)
       IN  request' = [request EXCEPT ![r] =
                          [step |-> IF next = NULL THEN "delete" ELSE "upsert",
                           profile |-> p, post |-> Recounted(post, next)]]
    /\ UNCHANGED <<votes, stored, due, counting>>

\* upsert, by the profile's id.
Upsert(r) ==
    /\ request[r].step = "upsert"
    /\ votes' = [votes EXCEPT ![request[r].profile] = request[r].post.vote]
    /\ request' = [request EXCEPT ![r].step = "publish"]
    /\ UNCHANGED <<stored, due, counting>>

\* delete, by the user's id: without such a row it fails, and so does the vote.
Delete(r) ==
    LET id == UserId[request[r].profile]
    IN  /\ request[r].step = "delete"
        /\ IF RowOf(id) # NULL
           THEN /\ votes' = [votes EXCEPT ![id] = NULL]
                /\ request' = [request EXCEPT ![r].step = "publish"]
           ELSE /\ request' = [request EXCEPT ![r] = Idle]
                /\ UNCHANGED votes
        /\ UNCHANGED <<stored, due, counting>>

\* post.voted; the post in memory is the answer.
Publish(r) ==
    /\ request[r].step = "publish"
    /\ due' = TRUE
    /\ request' = [request EXCEPT ![r] = Idle]
    /\ UNCHANGED <<votes, stored, counting>>

-----------------------------------------------------------------------------
\* refreshPostScore under the post's lock: two counts in either order, an update.
StartRefresh ==
    /\ due /\ ~counting.running
    /\ due' = FALSE
    /\ counting' = [counting EXCEPT !.running = TRUE]
    /\ UNCHANGED <<votes, stored, request>>

CountUp ==
    /\ counting.running /\ counting.up = NotCounted
    /\ counting' = [counting EXCEPT !.up = CountOf(UP)]
    /\ UNCHANGED <<votes, stored, request, due>>

CountDown ==
    /\ counting.running /\ counting.down = NotCounted
    /\ counting' = [counting EXCEPT !.down = CountOf(DOWN)]
    /\ UNCHANGED <<votes, stored, request, due>>

\* Mutant of Update: the counts are added to the stored ones.
UpdateAdding ==
    /\ counting.up # NotCounted /\ counting.down # NotCounted
    /\ stored' = [up |-> stored.up + counting.up, down |-> stored.down + counting.down]
    /\ counting' = NoRefresh
    /\ UNCHANGED <<votes, request, due>>

Update ==
    /\ counting.up # NotCounted /\ counting.down # NotCounted
    /\ stored' = [up |-> counting.up, down |-> counting.down]
    /\ counting' = NoRefresh
    /\ UNCHANGED <<votes, request, due>>

-----------------------------------------------------------------------------
Init ==
    /\ votes = [p \in Profiles |-> NULL]
    /\ stored = [up |-> 0, down |-> 0]
    /\ request = [r \in Requests |-> Idle]
    /\ due = FALSE
    /\ counting = NoRefresh

Next ==
    \/ \E r \in Requests :
          \/ \E p \in Profiles, v \in VoteValues : ReadPost(r, p, v)
          \/ Upsert(r) \/ Delete(r) \/ Publish(r)
    \/ StartRefresh \/ CountUp \/ CountDown \/ Update

Spec == Init /\ [][Next]_vars
-----------------------------------------------------------------------------
\* The counts of a post contain the vote shown with it, and are counts.
ContainsItsVote(post) ==
    /\ post.up >= One(post.vote = UP)
    /\ post.down >= One(post.vote = DOWN)

(***************************************************************************)
(* However far the stored counts lag behind the rows, a client that is     *)
(* shown a vote is shown counts that contain it, before and after toggling *)
(* it, and never a negative count.                                         *)
(***************************************************************************)
ShownVoteIsCounted ==
    /\ \A p \in Profiles : ContainsItsVote(Shown(RowOf(p)))
    /\ \A r \in Requests : request[r] # Idle => ContainsItsVote(request[r].post)

(***************************************************************************)
(* When no vote is between its write and its event, and no refresh is due  *)
(* or running, the stored counts are those of the rows.                    *)
(***************************************************************************)
SettledCountsAreCurrent ==
    (\A r \in Requests : request[r].step # "publish") /\ ~due /\ ~counting.running =>
        stored = [up |-> CountOf(UP), down |-> CountOf(DOWN)]

(***************************************************************************)
(* A vote changes no row but the voter's.                                  *)
(***************************************************************************)
OnlyOwnVote ==
    [][\A p \in Profiles : votes'[p] # votes[p] =>
          \E r \in Requests : request[r].step \in {"upsert", "delete"}
                              /\ request'[r] # request[r] /\ request[r].profile = p]_vars

TypeOK ==
    /\ votes \in [Profiles -> {UP, DOWN, NULL}]
    /\ stored \in [up : Nat, down : Nat]
    /\ \A r \in Requests :
          \/ request[r] = Idle
          \/ /\ request[r].step \in {"upsert", "delete", "publish"}
             /\ request[r].profile \in Profiles
             /\ request[r].post \in [up : Int, down : Int, vote : {UP, DOWN, NULL}]
    /\ due \in BOOLEAN
    /\ counting \in [running : BOOLEAN, up : Nat \union {NotCounted}, down : Nat \union {NotCounted}]

=============================================================================
