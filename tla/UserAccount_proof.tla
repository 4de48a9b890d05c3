-------------------------- MODULE UserAccount_proof --------------------------
(***************************************************************************)
(* Proofs about UserAccount, for every set of users, e-mails and requests. *)
(***************************************************************************)
EXTENDS UserAccount, TLAPS

LEMMA InitInv == Init => IInv
BY NamesAssumption DEF Init, IInv, TypeOK, WellFormed, CommitsWithCredential,
   ProfileHasCredential, WritesActiveWithProfile, ActiveHasProfile, HeldAreBanned,
   BanHoldsUnlessOverlapped, Statuses, Idle, Exists

(***************************************************************************)
(* One case per action.  A request that starts holds the status it read,   *)
(* or the one an administrator chose; only SaveUser, Write and Decide      *)
(* write a status, and only to what IInv says of the request that writes.  *)
(***************************************************************************)
LEMMA StepInv == ASSUME IInv, [Next]_vars PROVE IInv'
<1> USE NamesAssumption DEF IInv, TypeOK, WellFormed, CommitsWithCredential,
        ProfileHasCredential, WritesActiveWithProfile, ActiveHasProfile, HeldAreBanned,
        BanHoldsUnlessOverlapped, Statuses, Barred, Idle, Holding, Exists, Starts
<1>1. ASSUME NEW r \in Requests, NEW u \in Users, GuestSignIn(r, u) PROVE IInv'
  BY <1>1 DEF GuestSignIn, GuestByDevice
<1>2. ASSUME NEW r \in Requests, NEW u \in Users, NewGuest(r, u) PROVE IInv'
  BY <1>2 DEF NewGuest
<1>3. ASSUME NEW r \in Requests, NEW u \in Users, SaveUser(r, u) PROVE IInv'
  <2>1. request[r].status = "PENDING" /\ request[r].email \in Emails
    BY <1>3 DEF SaveUser
  <2>2. /\ status' = [status EXCEPT ![u] = "PENDING"]
        /\ request' = [request EXCEPT ![r] =
              [step |-> "profile", user |-> u, status |-> @.status, email |-> @.email]]
        /\ UNCHANGED <<credential, profile, token, decided, overlapped>>
    BY <1>3, <2>1 DEF SaveUser
  <2>3. ~(decided[u] = "BANNED" /\ u \notin overlapped)
    BY <1>3 DEF SaveUser
  <2>4. /\ request'[r].step = "profile" /\ request'[r].user = u
        /\ request'[r].status = "PENDING" /\ request'[r].email \in Emails
        /\ \A q \in Requests \ {r} : request'[q] = request[q]
    BY <2>1, <2>2
  <2>5. TypeOK'
    BY <2>1, <2>2
  <2>6. WellFormed' /\ CommitsWithCredential' /\ WritesActiveWithProfile'
    BY <2>2, <2>4
  <2>7. ProfileHasCredential' /\ ActiveHasProfile' /\ BanHoldsUnlessOverlapped'
    BY <2>2, <2>3
  <2>8. HeldAreBanned'
    BY <2>2, <2>3, <2>4
  <2> QED BY <2>5, <2>6, <2>7, <2>8
<1>4. ASSUME NEW r \in Requests, NEW u \in Users, SignIn(r, u) PROVE IInv'
  BY <1>4 DEF SignIn
<1>5. ASSUME NEW r \in Requests, NEW u \in Users, UpdateUserData(r, u) PROVE IInv'
  BY <1>5 DEF UpdateUserData
<1>6. ASSUME NEW r \in Requests, NEW u \in Users, VerifyToken(r, u) PROVE IInv'
  BY <1>6 DEF VerifyToken
<1>7. ASSUME NEW r \in Requests, NEW u \in Users, Activate(r, u) PROVE IInv'
  BY <1>7 DEF Activate
<1>8. ASSUME NEW r \in Requests, NEW u \in Users, NEW s \in Barred, Bar(r, u, s) PROVE IInv'
  BY <1>8 DEF Bar
<1>9. ASSUME NEW r \in Requests, NEW u \in Users \union {NoUser}, NEW e \in Emails,
             SignUp(r, u, e)
      PROVE  IInv'
  BY <1>9 DEF SignUp, GuestByDevice
<1>10. ASSUME NEW r \in Requests, InsertProfile(r) PROVE IInv'
  BY <1>10, SMTT(60) DEF InsertProfile
<1>11. ASSUME NEW r \in Requests, InsertCredential(r) PROVE IInv'
  BY <1>11, SMTT(60) DEF InsertCredential
<1>12. ASSUME NEW r \in Requests, Commit(r) PROVE IInv'
  BY <1>12 DEF Commit
<1>13. ASSUME NEW r \in Requests, SendToken(r) PROVE IInv'
  BY <1>13 DEF SendToken
<1>14. ASSUME NEW r \in Requests, UseToken(r) PROVE IInv'
  BY <1>14 DEF UseToken
<1>15. ASSUME NEW r \in Requests, FindProfile(r) PROVE IInv'
  BY <1>15, SMTT(60) DEF FindProfile
<1>16. ASSUME NEW r \in Requests, Write(r) PROVE IInv'
  BY <1>16 DEF Write, Update
<1>17. ASSUME NEW r \in Requests, Decide(r) PROVE IInv'
  BY <1>17, SMTT(60) DEF Decide, Update
<1>18. ASSUME NEW r \in Requests, Fail(r) PROVE IInv'
  BY <1>18 DEF Fail
<1>19. ASSUME UNCHANGED vars PROVE IInv'
  BY <1>19 DEF vars
<1> HIDE DEF IInv
<1> QED
  BY <1>1, <1>2, <1>3, <1>4, <1>5, <1>6, <1>7, <1>8, <1>9, <1>10, <1>11, <1>12, <1>13,
     <1>14, <1>15, <1>16, <1>17, <1>18, <1>19 DEF Next

(***************************************************************************)
(* The inductive invariant holds in every reachable state.                 *)
(***************************************************************************)
THEOREM AccountInductive == Spec => []IInv
BY InitInv, StepInv, PTL DEF Spec

(***************************************************************************)
(* The variables have their types, and a request holds a row that exists.  *)
(***************************************************************************)
THEOREM AccountTypes == Spec => []TypeOK
<1>1. IInv => TypeOK BY DEF IInv
<1> QED BY <1>1, AccountInductive, PTL

(***************************************************************************)
(* No failure and no race of sign-ups shows a profile without a            *)
(* credential, although only the profile is written in the transaction.    *)
(***************************************************************************)
THEOREM ProfilesAreComplete == Spec => []ProfileHasCredential
<1>1. IInv => ProfileHasCredential BY DEF IInv
<1> QED BY <1>1, AccountInductive, PTL

(***************************************************************************)
(* An active user has a profile and a credential.                          *)
(***************************************************************************)
THEOREM ActiveUsersAreComplete ==
    Spec => [](ActiveHasProfile /\ \A u \in Users : status[u] = "ACTIVE" => credential[u] # NoEmail)
<1>1. IInv => ActiveHasProfile /\ \A u \in Users : status[u] = "ACTIVE" => credential[u] # NoEmail
  BY DEF IInv, ActiveHasProfile, ProfileHasCredential
<1> QED BY <1>1, AccountInductive, PTL

(***************************************************************************)
(* A ban that meets no other request of the user is undone by nobody but   *)
(* an administrator.                                                       *)
(***************************************************************************)
THEOREM BansHold == Spec => []BanHoldsUnlessOverlapped
<1>1. IInv => BanHoldsUnlessOverlapped BY DEF IInv
<1> QED BY <1>1, AccountInductive, PTL

=============================================================================
