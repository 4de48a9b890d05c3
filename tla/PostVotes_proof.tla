---------------------------- MODULE PostVotes_proof ----------------------------
(***************************************************************************)
(* Proofs about PostVotes, for every set of profiles and requests and      *)
(* every assignment of users to profiles.                                  *)
(***************************************************************************)
EXTENDS PostVotes, FiniteSetTheorems, TLAPS

Values == {UP, DOWN, NULL}
Answers == [up : Int, down : Int, vote : Values]
Votings == [step : {"upsert", "delete", "publish"}, profile : Profiles, post : Answers]

(***************************************************************************)
(* The inductive invariant.  Nothing is said of the counts while a vote    *)
(* has still to be announced or refreshed; otherwise what the refresh has  *)
(* counted so far, or what is stored when none runs, is current.           *)
(***************************************************************************)
Quiet == (\A r \in Requests : request[r].step # "publish") /\ ~due

CountsInv ==
    /\ ~counting.running => counting.up = NotCounted /\ counting.down = NotCounted
    /\ Quiet /\ counting.running => /\ counting.up \in {NotCounted, CountOf(UP)}
                                    /\ counting.down \in {NotCounted, CountOf(DOWN)}
    /\ Quiet /\ ~counting.running => stored.up = CountOf(UP) /\ stored.down = CountOf(DOWN)

RowsOK ==
    /\ votes \in [Profiles -> Values] /\ stored \in [up : Nat, down : Nat]
    /\ due \in BOOLEAN
    /\ counting \in [running : BOOLEAN, up : Nat \union {NotCounted}, down : Nat \union {NotCounted}]

AnswerInv(r) == request[r] # Idle => ContainsItsVote(request[r].post)

Inv ==
    /\ RowsOK
    /\ request \in [Requests -> {Idle} \union Votings]
    /\ \A r \in Requests : AnswerInv(r)
    /\ CountsInv

LEMMA CountsAreNumbers == ASSUME NEW v PROVE CountOf(v) \in Nat
<1>1. {p \in Profiles : votes[p] = v} \subseteq Profiles
  OBVIOUS
<1> QED BY <1>1, IdsAssumption, FS_Subset, FS_CardinalityType DEF CountOf

LEMMA InitInv == Init => Inv
<1> SUFFICES ASSUME Init PROVE Inv
  OBVIOUS
<1>1. {p \in Profiles : votes[p] = UP} = {} /\ {p \in Profiles : votes[p] = DOWN} = {}
  BY DEF Init, UP, DOWN, NULL
<1>2. CountOf(UP) = 0 /\ CountOf(DOWN) = 0
  BY <1>1, FS_EmptySet DEF CountOf
<1>3. RowsOK /\ request \in [Requests -> {Idle}]
  BY DEF Init, RowsOK, Values, NoRefresh
<1>4. CountsInv
  BY <1>2 DEF Init, CountsInv, NoRefresh
<1> QED BY <1>3, <1>4 DEF Inv, AnswerInv

(***************************************************************************)
(* A post shown with a vote contains it, and still does after the toggle.  *)
(***************************************************************************)
LEMMA ShownContains ==
    ASSUME stored \in [up : Nat, down : Nat], NEW v \in Values
    PROVE  Shown(v) \in [up : Nat, down : Nat, vote : Values] /\ Shown(v).vote = v
           /\ ContainsItsVote(Shown(v))
BY DEF Shown, ContainsItsVote, One, Values, UP, DOWN, NULL

LEMMA RecountedContains ==
    ASSUME NEW post \in [up : Nat, down : Nat, vote : Values], ContainsItsVote(post),
           NEW next \in Values
    PROVE  Recounted(post, next) \in Answers /\ ContainsItsVote(Recounted(post, next))
BY DEF Recounted, Answers, ContainsItsVote, One, Values, UP, DOWN, NULL

LEMMA ReadInv ==
    ASSUME Inv, NEW r \in Requests, NEW p \in Profiles, NEW v \in VoteValues, ReadPost(r, p, v)
    PROVE  Inv'
<1> DEFINE post == Shown(RowOf(UserId[p]))
           next == Toggle(post.vote, v)
           voting == [step |-> IF next = NULL THEN "delete" ELSE "upsert",
                      profile |-> p, post |-> Recounted(post, next)]
<1>1. RowOf(UserId[p]) \in Values
  BY DEF RowOf, Inv, RowsOK, Values
<1>2. post \in [up : Nat, down : Nat, vote : Values] /\ ContainsItsVote(post)
  BY <1>1, ShownContains DEF Inv, RowsOK
<1>3. next \in Values
  BY DEF Toggle, VoteValues, Values
<1>4. Recounted(post, next) \in Answers /\ ContainsItsVote(Recounted(post, next))
  BY <1>2, <1>3, RecountedContains
<1>5. request' = [request EXCEPT ![r] = voting] /\ UNCHANGED <<votes, stored, due, counting>>
      /\ request[r] = Idle
  BY DEF ReadPost
<1>6. voting \in Votings /\ ContainsItsVote(voting.post) /\ voting.step # "publish"
  BY <1>4 DEF Votings
<1> HIDE DEF voting
<1>7. request'[r] = voting /\ \A q \in Requests \ {r} : request'[q] = request[q]
  BY <1>5 DEF Inv
<1>8. request' \in [Requests -> {Idle} \union Votings]
  BY <1>5, <1>6 DEF Inv
<1>9. \A q \in Requests : AnswerInv(q)'
  BY <1>6, <1>7 DEF Inv, AnswerInv
<1>10. Quiet' => Quiet
  BY <1>5, <1>7 DEF Quiet, Idle
<1>11. CountsInv' /\ RowsOK'
  BY <1>5, <1>10 DEF Inv, CountsInv, RowsOK, CountOf
<1> QED BY <1>8, <1>9, <1>11 DEF Inv

(***************************************************************************)
(* A request that goes on or ends; when it goes on its answer stays.       *)
(***************************************************************************)
LEMMA RequestKept ==
    ASSUME Inv, NEW r \in Requests, request[r] # Idle,
           \/ request' = [request EXCEPT ![r] = Idle]
           \/ request' = [request EXCEPT ![r].step = "publish"]
    PROVE  /\ request' \in [Requests -> {Idle} \union Votings]
           /\ \A q \in Requests : AnswerInv(q)'
           /\ \A q \in Requests \ {r} : request'[q] = request[q]
           /\ request'[r] = Idle \/ request'[r].step = "publish"
<1>1. request[r] \in Votings /\ AnswerInv(r)
  BY DEF Inv
<1>2. CASE request' = [request EXCEPT ![r] = Idle]
  BY <1>2 DEF Inv, AnswerInv
<1>3. CASE request' = [request EXCEPT ![r].step = "publish"]
  <2> DEFINE voting == [step |-> "publish", profile |-> request[r].profile,
                        post |-> request[r].post]
  <2>1. request'[r] = voting /\ \A q \in Requests \ {r} : request'[q] = request[q]
    BY <1>1, <1>3 DEF Inv, Votings
  <2>2. voting \in Votings /\ ContainsItsVote(voting.post) /\ voting.step = "publish"
    BY <1>1 DEF Votings, AnswerInv
  <2> HIDE DEF voting
  <2>3. request' \in [Requests -> {Idle} \union Votings]
    BY <1>3, <2>1, <2>2 DEF Inv
  <2>4. \A q \in Requests : AnswerInv(q)'
    BY <2>1, <2>2 DEF Inv, AnswerInv
  <2> QED BY <2>1, <2>2, <2>3, <2>4
<1> QED BY <1>2, <1>3

LEMMA RequestSteps ==
    ASSUME Inv, NEW r \in Requests, Upsert(r) \/ Delete(r) \/ Publish(r)
    PROVE  Inv'
<1>1. request[r] # Idle /\ request[r] \in Votings
  BY DEF Inv, Upsert, Delete, Publish, Idle
<1>2. request[r].profile \in Profiles /\ request[r].post.vote \in Values
  BY <1>1 DEF Votings, Answers
<1>3. stored' = stored /\ counting' = counting
      /\ \/ request' = [request EXCEPT ![r] = Idle]
         \/ request' = [request EXCEPT ![r].step = "publish"]
  BY DEF Upsert, Delete, Publish
<1>4. /\ request' \in [Requests -> {Idle} \union Votings]
      /\ \A q \in Requests : AnswerInv(q)'
      /\ \A q \in Requests \ {r} : request'[q] = request[q]
      /\ request'[r] = Idle \/ request'[r].step = "publish"
  BY <1>1, <1>3, RequestKept
<1>5. CASE Upsert(r)
  <2>1. request'[r].step = "publish" /\ due' = due
        /\ votes' = [votes EXCEPT ![request[r].profile] = request[r].post.vote]
    BY <1>1, <1>5 DEF Upsert, Inv, Votings
  <2>2. RowsOK' /\ ~Quiet'
    BY <1>2, <1>3, <2>1 DEF Inv, RowsOK, Quiet
  <2> QED BY <1>3, <1>4, <2>2 DEF Inv, CountsInv
<1>6. CASE Delete(r)
  <2> DEFINE id == UserId[request[r].profile]
  <2>1. CASE RowOf(id) # NULL
    <3>1. request'[r].step = "publish" /\ due' = due /\ votes' = [votes EXCEPT ![id] = NULL]
      BY <1>1, <1>6, <2>1 DEF Delete, Inv, Votings
    <3>2. RowsOK' /\ ~Quiet'
      BY <1>3, <3>1 DEF Inv, RowsOK, Quiet, Values
    <3> QED BY <1>3, <1>4, <3>2 DEF Inv, CountsInv
  <2>2. CASE RowOf(id) = NULL
    <3>1. votes' = votes /\ due' = due /\ request[r].step = "delete"
      BY <1>6, <2>2 DEF Delete
    <3>2. Quiet' => Quiet
      BY <1>4, <3>1 DEF Quiet
    <3>3. RowsOK' /\ CountsInv'
      BY <1>3, <3>1, <3>2 DEF Inv, RowsOK, CountsInv, CountOf
    <3> QED BY <1>4, <3>3 DEF Inv
  <2> QED BY <2>1, <2>2
<1>7. CASE Publish(r)
  <2>1. due' = TRUE /\ votes' = votes
    BY <1>7 DEF Publish
  <2>2. RowsOK' /\ ~Quiet'
    BY <1>3, <2>1 DEF Inv, RowsOK, Quiet
  <2> QED BY <1>3, <1>4, <2>2 DEF Inv, CountsInv
<1> QED BY <1>5, <1>6, <1>7

LEMMA RefreshSteps ==
    ASSUME Inv, StartRefresh \/ CountUp \/ CountDown \/ Update PROVE Inv'
<1>1. votes' = votes /\ request' = request /\ CountOf(UP)' = CountOf(UP)
      /\ CountOf(DOWN)' = CountOf(DOWN)
  BY DEF StartRefresh, CountUp, CountDown, Update, CountOf
<1>2. CountOf(UP) \in Nat /\ CountOf(DOWN) \in Nat
  BY CountsAreNumbers
<1>3. \A r \in Requests : AnswerInv(r)'
  BY <1>1 DEF Inv, AnswerInv
<1>4. CASE StartRefresh
  <2>1. /\ due /\ ~counting.running /\ due' = FALSE /\ stored' = stored
        /\ counting' = [counting EXCEPT !.running = TRUE]
    BY <1>4 DEF StartRefresh
  <2>2. counting'.running = TRUE /\ counting'.up = NotCounted /\ counting'.down = NotCounted
        /\ counting' \in [running : BOOLEAN, up : Nat \union {NotCounted},
                          down : Nat \union {NotCounted}]
    BY <2>1 DEF Inv, CountsInv, RowsOK
  <2> QED BY <1>1, <1>3, <2>1, <2>2 DEF Inv, CountsInv, RowsOK
<1>5. CASE CountUp
  <2>1. counting.running /\ counting' = [counting EXCEPT !.up = CountOf(UP)]
        /\ stored' = stored /\ due' = due
    BY <1>5 DEF CountUp
  <2>2. counting'.running = counting.running /\ counting'.up = CountOf(UP)
        /\ counting'.down = counting.down
        /\ counting' \in [running : BOOLEAN, up : Nat \union {NotCounted},
                          down : Nat \union {NotCounted}]
    BY <1>2, <2>1 DEF Inv, RowsOK
  <2> QED BY <1>1, <1>3, <2>1, <2>2 DEF Inv, CountsInv, RowsOK, Quiet
<1>6. CASE CountDown
  <2>1. counting.running /\ counting' = [counting EXCEPT !.down = CountOf(DOWN)]
        /\ stored' = stored /\ due' = due
    BY <1>6 DEF CountDown
  <2>2. counting'.running = counting.running /\ counting'.down = CountOf(DOWN)
        /\ counting'.up = counting.up
        /\ counting' \in [running : BOOLEAN, up : Nat \union {NotCounted},
                          down : Nat \union {NotCounted}]
    BY <1>2, <2>1 DEF Inv, RowsOK
  <2> QED BY <1>1, <1>3, <2>1, <2>2 DEF Inv, CountsInv, RowsOK, Quiet
<1>7. CASE Update
  <2>1. /\ counting.up # NotCounted /\ counting.down # NotCounted
        /\ stored' = [up |-> counting.up, down |-> counting.down]
        /\ counting' = NoRefresh /\ due' = due
    BY <1>7 DEF Update
  <2>2. counting.running /\ counting.up \in Nat /\ counting.down \in Nat
    BY <2>1 DEF Inv, CountsInv, RowsOK
  <2> QED BY <1>1, <1>3, <2>1, <2>2 DEF Inv, CountsInv, RowsOK, Quiet, NoRefresh
<1> QED BY <1>4, <1>5, <1>6, <1>7

(***************************************************************************)
(* The inductive invariant holds in every reachable state.                 *)
(***************************************************************************)
THEOREM VotesInductive == Spec => []Inv
<1>1. ASSUME Inv, [Next]_vars PROVE Inv'
  <2>1. CASE UNCHANGED vars
    BY <1>1, <2>1 DEF vars, Inv, RowsOK, AnswerInv, CountsInv, Quiet, CountOf
  <2>2. CASE Next
    BY <1>1, <2>2, ReadInv, RequestSteps, RefreshSteps DEF Next
  <2> QED BY <1>1, <2>1, <2>2
<1> QED BY <1>1, InitInv, PTL DEF Spec

(***************************************************************************)
(* The rows, counts and requests have their types.                         *)
(***************************************************************************)
THEOREM VotesTypes == Spec => []TypeOK
<1>1. Inv => TypeOK
  BY DEF Inv, RowsOK, TypeOK, Votings, Answers, Values
<1> QED BY <1>1, VotesInductive, PTL

(***************************************************************************)
(* A client that is shown a vote is shown counts that contain it, for any  *)
(* number of voters and whatever profile ids their user ids are taken for. *)
(***************************************************************************)
THEOREM ShownIsCounted == Spec => []ShownVoteIsCounted
<1>1. ASSUME Inv PROVE ShownVoteIsCounted
  <2>1. ASSUME NEW p \in Profiles PROVE ContainsItsVote(Shown(RowOf(p)))
    BY <1>1, ShownContains DEF RowOf, Inv, RowsOK
  <2> QED BY <1>1, <2>1 DEF Inv, AnswerInv, ShownVoteIsCounted
<1> QED BY <1>1, VotesInductive, PTL

(***************************************************************************)
(* Counts that nothing is about to refresh are those of the rows.          *)
(***************************************************************************)
THEOREM SettledIsCurrent == Spec => []SettledCountsAreCurrent
<1>1. Inv => SettledCountsAreCurrent
  BY DEF Inv, RowsOK, CountsInv, Quiet, SettledCountsAreCurrent
<1> QED BY <1>1, VotesInductive, PTL
=============================================================================
