-------------------------- MODULE ProfileFollow_proof --------------------------
(***************************************************************************)
(* Proofs about ProfileFollow, for every set of profiles and requests.     *)
(***************************************************************************)
EXTENDS ProfileFollow, FiniteSetTheorems, TLAPS

(***************************************************************************)
(* The inductive invariant.  Rows and answers agree.  A profile is quiet   *)
(* when every change of its rows has been counted for, or is about to be:  *)
(* then what its refresh has counted so far, or what is stored when none   *)
(* runs, is current.  A refresh that does not run has counted nothing.     *)
(***************************************************************************)
RequestOf(r) == request[r] \in {Idle} \union [step : {"create", "delete", "publish"}, pair : Pairs]
RefreshOf(p) ==
    refresh[p] \in [running : BOOLEAN, followers : Nat \union {NotCounted},
                    following : Nat \union {NotCounted}]

Quiet(p) ==
    /\ p \notin pending
    /\ \A r \in Requests :
          request[r].step = "publish" => p # request[r].pair[1] /\ p # request[r].pair[2]

CountsInv(p) ==
    /\ ~refresh[p].running => refresh[p].followers = NotCounted /\ refresh[p].following = NotCounted
    /\ Quiet(p) /\ refresh[p].running =>
          /\ refresh[p].followers \in {NotCounted, RefreshedFollowers(p)}
          /\ refresh[p].following \in {NotCounted, RefreshedFollowing(p)}
    /\ Quiet(p) /\ ~refresh[p].running =>
          /\ counters[p].followersCount = RefreshedFollowers(p)
          /\ counters[p].followingCount = RefreshedFollowing(p)

Inv ==
    /\ TypeOK
    /\ IsFiniteSet(follows)
    /\ AnswersMatchRows
    /\ \A p \in Profiles : CountsInv(p)

LEMMA CountsAreNumbers ==
    ASSUME IsFiniteSet(follows), NEW p \in Profiles
    PROVE  RefreshedFollowers(p) \in Nat /\ RefreshedFollowing(p) \in Nat
<1>1. /\ {row \in follows : row[1] = p} \subseteq follows
      /\ {row \in follows : row[2] = p} \subseteq follows
  OBVIOUS
<1> QED BY <1>1, FS_Subset, FS_CardinalityType DEF RefreshedFollowers, RefreshedFollowing

LEMMA InitInv == Init => Inv
<1> SUFFICES ASSUME Init PROVE Inv
  OBVIOUS
<1>1. TypeOK
  BY DEF Init, TypeOK, Idle, NoRefresh, NotCounted
<1>2. IsFiniteSet(follows)
  BY FS_EmptySet DEF Init
<1>3. AnswersMatchRows
  BY DEF Init, AnswersMatchRows
<1>4. ASSUME NEW p \in Profiles PROVE CountsInv(p)
  <2>1. {row \in follows : row[1] = p} = {} /\ {row \in follows : row[2] = p} = {}
    BY DEF Init
  <2>2. RefreshedFollowers(p) = 0 /\ RefreshedFollowing(p) = 0
    BY <2>1, FS_EmptySet DEF RefreshedFollowers, RefreshedFollowing
  <2> QED BY <2>2 DEF Init, CountsInv, NoRefresh
<1> QED BY <1>1, <1>2, <1>3, <1>4 DEF Inv

(***************************************************************************)
(* A request that changes no row: whoever is quiet after it was quiet      *)
(* before.                                                                 *)
(***************************************************************************)
LEMMA RowsKept ==
    ASSUME Inv, TypeOK', follows' = follows, UNCHANGED <<refresh, counters, balance>>,
           \A p \in Profiles : Quiet(p)' => Quiet(p)
    PROVE  Inv'
BY DEF Inv, AnswersMatchRows, CountsInv, RefreshedFollowers, RefreshedFollowing

(***************************************************************************)
(* A request that adds or removes the row of a pair: it has an event to    *)
(* publish for both ends, and the rows of the others are as before.        *)
(***************************************************************************)
LEMMA RowsChanged ==
    ASSUME Inv, TypeOK', IsFiniteSet(follows'), AnswersMatchRows', NEW pair \in Pairs,
           follows' \in {follows \union {pair}, follows \ {pair}},
           NEW r \in Requests, request[r].step # "publish",
           request' = [request EXCEPT ![r] = [step |-> "publish", pair |-> pair]],
           UNCHANGED <<pending, refresh, counters>>
    PROVE  Inv'
<1>1. request'[r] = [step |-> "publish", pair |-> pair]
      /\ \A q \in Requests \ {r} : request'[q] = request[q]
  BY DEF Inv, TypeOK
<1>2. ASSUME NEW p \in Profiles PROVE CountsInv(p)'
  <2>1. CASE p = pair[1] \/ p = pair[2]
    <3>1. ~Quiet(p)'
      BY <1>1, <2>1 DEF Quiet
    <3> QED BY <3>1 DEF Inv, CountsInv
  <2>2. CASE p # pair[1] /\ p # pair[2]
    <3>1. /\ {row \in follows' : row[1] = p} = {row \in follows : row[1] = p}
          /\ {row \in follows' : row[2] = p} = {row \in follows : row[2] = p}
      BY <2>2
    <3>2. RefreshedFollowers(p)' = RefreshedFollowers(p)
          /\ RefreshedFollowing(p)' = RefreshedFollowing(p)
      BY <3>1 DEF RefreshedFollowers, RefreshedFollowing
    <3>3. Quiet(p)' => Quiet(p)
      BY <1>1 DEF Quiet
    <3> QED BY <3>2, <3>3 DEF Inv, CountsInv
  <2> QED BY <2>1, <2>2
<1> QED BY <1>2 DEF Inv

LEMMA RequestSteps ==
    ASSUME Inv, NEW r \in Requests,
           \/ \E pair \in Pairs : CheckFollow(r, pair) \/ CheckUnfollow(r, pair)
           \/ Create(r) \/ Delete(r) \/ Publish(r)
    PROVE  Inv'
<1>0. TypeOK /\ IsFiniteSet(follows) /\ RequestOf(r)
  BY DEF Inv, TypeOK, RequestOf
<1>1. CASE \E pair \in Pairs : CheckFollow(r, pair) \/ CheckUnfollow(r, pair)
  <2>1. PICK pair \in Pairs, step \in {"create", "delete"} :
          /\ request' = [request EXCEPT ![r] = [step |-> step, pair |-> pair]]
          /\ UNCHANGED <<follows, pending, refresh, counters, balance>>
          /\ request[r] = Idle
    BY <1>1 DEF CheckFollow, CheckUnfollow
  <2>2. TypeOK'
    BY <1>0, <2>1 DEF TypeOK
  <2>3. \A p \in Profiles : Quiet(p)' => Quiet(p)
    BY <1>0, <2>1 DEF Quiet, TypeOK, Idle
  <2> QED BY <2>1, <2>2, <2>3, RowsKept
<1>2. CASE Create(r)
  <2> DEFINE pair == request[r].pair
  <2>1. request[r].step = "create" /\ pair \in Pairs
    BY <1>0, <1>2 DEF Create, RequestOf, Idle
  <2>2. CASE pair \in follows
    <3>1. request' = [request EXCEPT ![r] = Idle]
          /\ UNCHANGED <<follows, pending, refresh, counters, balance>>
      BY <1>2, <2>2 DEF Create
    <3>2. TypeOK'
      BY <1>0, <3>1 DEF TypeOK
    <3>3. \A p \in Profiles : Quiet(p)' => Quiet(p)
      BY <1>0, <2>1, <3>1 DEF Quiet, TypeOK
    <3> QED BY <3>1, <3>2, <3>3, RowsKept
  <2>3. CASE pair \notin follows
    <3>1. /\ follows' = follows \union {pair}
          /\ balance' = [balance EXCEPT ![pair] = @ + 1]
          /\ request' = [request EXCEPT ![r] = [step |-> "publish", pair |-> pair]]
          /\ UNCHANGED <<pending, refresh, counters>>
      BY <1>2, <2>3 DEF Create
    <3> HIDE DEF pair
    <3>2. TypeOK'
      BY <1>0, <2>1, <3>1, SMTT(30) DEF TypeOK, Pairs
    <3>3. IsFiniteSet(follows')
      BY <1>0, <3>1, FS_AddElement
    <3>4. AnswersMatchRows'
      BY <1>0, <2>1, <2>3, <3>1 DEF Inv, AnswersMatchRows, TypeOK
    <3> QED BY <2>1, <3>1, <3>2, <3>3, <3>4, RowsChanged
  <2> QED BY <2>2, <2>3
<1>3. CASE Delete(r)
  <2> DEFINE pair == request[r].pair
  <2>1. request[r].step = "delete" /\ pair \in Pairs
    BY <1>0, <1>3 DEF Delete, RequestOf, Idle
  <2>2. CASE pair \notin follows
    <3>1. request' = [request EXCEPT ![r] = Idle]
          /\ UNCHANGED <<follows, pending, refresh, counters, balance>>
      BY <1>3, <2>2 DEF Delete
    <3>2. TypeOK'
      BY <1>0, <3>1 DEF TypeOK
    <3>3. \A p \in Profiles : Quiet(p)' => Quiet(p)
      BY <1>0, <2>1, <3>1 DEF Quiet, TypeOK
    <3> QED BY <3>1, <3>2, <3>3, RowsKept
  <2>3. CASE pair \in follows
    <3>1. /\ follows' = follows \ {pair}
          /\ balance' = [balance EXCEPT ![pair] = @ - 1]
          /\ request' = [request EXCEPT ![r] = [step |-> "publish", pair |-> pair]]
          /\ UNCHANGED <<pending, refresh, counters>>
      BY <1>3, <2>3 DEF Delete
    <3> HIDE DEF pair
    <3>2. TypeOK'
      BY <1>0, <2>1, <3>1 DEF TypeOK
    <3>3. IsFiniteSet(follows')
      BY <1>0, <3>1, FS_RemoveElement
    <3>4. AnswersMatchRows'
      BY <1>0, <2>1, <2>3, <3>1 DEF Inv, AnswersMatchRows, TypeOK
    <3> QED BY <2>1, <3>1, <3>2, <3>3, <3>4, RowsChanged
  <2> QED BY <2>2, <2>3
<1>4. CASE Publish(r)
  <2> DEFINE pair == request[r].pair
  <2>1. /\ request[r].step = "publish" /\ pending' = pending \union {pair[1], pair[2]}
        /\ request' = [request EXCEPT ![r] = Idle]
        /\ UNCHANGED <<follows, refresh, counters, balance>>
    BY <1>4 DEF Publish
  <2>2. pair \in Pairs
    BY <1>0, <2>1 DEF RequestOf, Idle
  <2> HIDE DEF pair
  <2>3. TypeOK'
    BY <1>0, <2>1, <2>2 DEF TypeOK, Pairs
  <2>4. ASSUME NEW p \in Profiles, Quiet(p)' PROVE Quiet(p)
    <3>1. \A q \in Requests \ {r} : request'[q] = request[q]
      BY <1>0, <2>1 DEF TypeOK
    <3>2. p # pair[1] /\ p # pair[2] /\ p \notin pending
      BY <2>1, <2>4 DEF Quiet
    <3> QED BY <2>4, <3>1, <3>2 DEF Quiet, pair
  <2> QED BY <2>1, <2>3, <2>4, RowsKept
<1> QED BY <1>1, <1>2, <1>3, <1>4

(***************************************************************************)
(* A step of the refresh of p: rows and requests stay, and so do the       *)
(* refreshes and counters of the others.                                   *)
(***************************************************************************)
LEMMA RefreshSteps ==
    ASSUME Inv, NEW p \in Profiles,
           StartRefresh(p) \/ CountFollowers(p) \/ CountFollowing(p) \/ Update(p)
    PROVE  Inv'
<1>1. /\ TypeOK /\ IsFiniteSet(follows) /\ RefreshOf(p) /\ CountsInv(p)
      /\ RefreshedFollowers(p) \in Nat /\ RefreshedFollowing(p) \in Nat
  BY CountsAreNumbers DEF Inv, TypeOK, RefreshOf
<1>2. follows' = follows /\ request' = request /\ balance' = balance
  BY DEF StartRefresh, CountFollowers, CountFollowing, Update
<1>3. /\ pending' \in {pending, pending \ {p}}
      /\ \A q \in Profiles \ {p} : refresh'[q] = refresh[q] /\ counters'[q] = counters[q]
      /\ \A q \in Profiles : RefreshedFollowers(q)' = RefreshedFollowers(q)
                             /\ RefreshedFollowing(q)' = RefreshedFollowing(q)
  BY <1>1, <1>2 DEF StartRefresh, CountFollowers, CountFollowing, Update, TypeOK,
     RefreshedFollowers, RefreshedFollowing
<1>4. ASSUME NEW q \in Profiles \ {p} PROVE CountsInv(q)'
  BY <1>2, <1>3 DEF Inv, CountsInv, Quiet
<1>5. refresh' \in [Profiles -> [running : BOOLEAN, followers : Nat \union {NotCounted},
                                 following : Nat \union {NotCounted}]]
      /\ counters' \in [Profiles -> [followersCount : Nat, followingCount : Nat]]
      /\ CountsInv(p)'
  <2>1. CASE StartRefresh(p)
    <3>1. /\ ~refresh[p].running /\ refresh' = [refresh EXCEPT ![p].running = TRUE]
          /\ counters' = counters
      BY <2>1 DEF StartRefresh
    <3>2. refresh[p].followers = NotCounted /\ refresh[p].following = NotCounted
      BY <1>1, <3>1 DEF CountsInv
    <3>3. refresh'[p] = [running |-> TRUE, followers |-> NotCounted, following |-> NotCounted]
      BY <1>1, <3>1, <3>2 DEF TypeOK, RefreshOf
    <3>4. CountsInv(p)'
      BY <3>3 DEF CountsInv
    <3> QED BY <1>1, <3>1, <3>4, ZenonT(60) DEF TypeOK
  <2>2. CASE CountFollowers(p)
    <3>1. /\ refresh[p].running /\ counters' = counters /\ pending' = pending
          /\ refresh' = [refresh EXCEPT ![p].followers = RefreshedFollowers(p)]
      BY <2>2 DEF CountFollowers
    <3>2. refresh'[p] = [running |-> TRUE, followers |-> RefreshedFollowers(p),
                         following |-> refresh[p].following]
      BY <1>1, <3>1 DEF TypeOK, RefreshOf
    <3>3. CountsInv(p)'
      BY <1>1, <1>2, <1>3, <3>1, <3>2 DEF CountsInv, Quiet
    <3> QED BY <1>1, <3>1, <3>3 DEF TypeOK
  <2>3. CASE CountFollowing(p)
    <3>1. /\ refresh[p].running /\ counters' = counters /\ pending' = pending
          /\ refresh' = [refresh EXCEPT ![p].following = RefreshedFollowing(p)]
      BY <2>3 DEF CountFollowing
    <3>2. refresh'[p] = [running |-> TRUE, followers |-> refresh[p].followers,
                         following |-> RefreshedFollowing(p)]
      BY <1>1, <3>1 DEF TypeOK, RefreshOf
    <3>3. CountsInv(p)'
      BY <1>1, <1>2, <1>3, <3>1, <3>2 DEF CountsInv, Quiet
    <3> QED BY <1>1, <3>1, <3>3, SMTT(30) DEF TypeOK
  <2>4. CASE Update(p)
    <3> DEFINE row == [followersCount |-> refresh[p].followers,
                       followingCount |-> refresh[p].following]
    <3>1. /\ refresh[p].followers # NotCounted /\ refresh[p].following # NotCounted
          /\ counters' = [counters EXCEPT ![p] = row]
          /\ refresh' = [refresh EXCEPT ![p] = NoRefresh] /\ pending' = pending
      BY <2>4 DEF Update
    <3>2. refresh[p].running /\ refresh[p].followers \in Nat /\ refresh[p].following \in Nat
      BY <1>1, <3>1 DEF CountsInv, RefreshOf
    <3>3. counters'[p] = row /\ refresh'[p] = NoRefresh
      BY <1>1, <3>1 DEF TypeOK
    <3>4. CountsInv(p)'
      BY <1>1, <1>2, <1>3, <3>1, <3>2, <3>3 DEF CountsInv, Quiet, NoRefresh
    <3>5. refresh' \in [Profiles -> [running : BOOLEAN, followers : Nat \union {NotCounted},
                                     following : Nat \union {NotCounted}]]
      BY <1>1, <3>1 DEF TypeOK, NoRefresh
    <3>6. counters' \in [Profiles -> [followersCount : Nat, followingCount : Nat]]
      BY <1>1, <3>1, <3>2 DEF TypeOK
    <3> QED BY <3>4, <3>5, <3>6
  <2> QED BY <2>1, <2>2, <2>3, <2>4
<1>6. TypeOK'
  BY <1>1, <1>2, <1>3, <1>5 DEF TypeOK
<1>7. IsFiniteSet(follows') /\ AnswersMatchRows'
  BY <1>2 DEF Inv, AnswersMatchRows
<1> QED BY <1>4, <1>5, <1>6, <1>7 DEF Inv

(***************************************************************************)
(* The inductive invariant holds in every reachable state.                 *)
(***************************************************************************)
THEOREM FollowInductive == Spec => []Inv
<1>1. ASSUME Inv, [Next]_vars PROVE Inv'
  <2>1. CASE UNCHANGED vars
    BY <1>1, <2>1 DEF vars, Inv, TypeOK, AnswersMatchRows, CountsInv, Quiet, RefreshedFollowers,
       RefreshedFollowing
  <2>2. CASE Next
    BY <1>1, <2>2, RequestSteps, RefreshSteps DEF Next
  <2> QED BY <1>1, <2>1, <2>2
<1> QED BY <1>1, InitInv, PTL DEF Spec

(***************************************************************************)
(* The rows, requests, refreshes and counters have their types.            *)
(***************************************************************************)
THEOREM FollowTypes == Spec => []TypeOK
<1>1. Inv => TypeOK
  BY DEF Inv
<1> QED BY <1>1, FollowInductive, PTL

(***************************************************************************)
(* However many requests race for a pair, those that were told of success  *)
(* alternate between following and unfollowing.                            *)
(***************************************************************************)
THEOREM AnswersAreTrue == Spec => []AnswersMatchRows
<1>1. Inv => AnswersMatchRows
  BY DEF Inv
<1> QED BY <1>1, FollowInductive, PTL

(***************************************************************************)
(* What is shown of a settled profile is current, for any number of        *)
(* profiles, requests and refreshes.                                       *)
(***************************************************************************)
THEOREM ShownIsCurrent == Spec => []ShownCountsAreRight
<1>1. ASSUME Inv, NEW p \in Profiles, Settled(p)
      PROVE  Shown(p) = [followersCount |-> FollowersOf(p), followingCount |-> FollowingOf(p)]
  <2>1. Quiet(p) /\ ~refresh[p].running
    BY <1>1 DEF Settled, Quiet
  <2>2. /\ counters[p].followersCount = RefreshedFollowers(p)
        /\ counters[p].followingCount = RefreshedFollowing(p)
    BY <1>1, <2>1 DEF Inv, CountsInv
  <2> QED BY <2>2 DEF Shown, FollowersOf, FollowingOf, RefreshedFollowers, RefreshedFollowing
<1>2. Inv => ShownCountsAreRight
  BY <1>1 DEF ShownCountsAreRight
<1> QED BY <1>2, FollowInductive, PTL

=============================================================================
