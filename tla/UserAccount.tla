------------------------------ MODULE UserAccount ------------------------------
(***************************************************************************)
(* The rows of a user's account - users, user_credentials, profiles and    *)
(* user_verifications - and the requests that read and write them: the     *)
(* sign-in of a guest, sign-up, sign-in, the edit of one's data, the       *)
(* verification of an e-mail, and an administrator's decisions.            *)
(*                                                                         *)
(* A request reads a row, awaits, and writes the row back with its status  *)
(* (UserAssembler.toPrismaUpdateInput).  Of a row only the status is kept: *)
(* the API writes no other role than USER, and the other columns decide    *)
(* nothing.  Within the transaction of a sign-up only the profile is       *)
(* written by the transaction's client; the repositories of users and      *)
(* credentials use "getConnection() ?? tx", a connection of their own.     *)
(***************************************************************************)
EXTENDS FiniteSets

CONSTANTS
    Users,          \* rows that users may get
    Emails,
    Requests,       \* requests in progress at the same time
    NoUser, NoEmail

ASSUME NamesAssumption == NoUser \notin Users /\ NoEmail \notin Emails

VARIABLES
    status,         \* column status of each user, "none" while there is no row
    credential,     \* e-mail of each user's credential
    profile,        \* TRUE once the profile row is committed
    token,          \* each user's verification token
    request,        \* per request: what it is about to do, with what it has read
    decided,        \* history: the status an administrator last gave each user
    overlapped      \* history: users banned while another request held their row

vars == <<status, credential, profile, token, request, decided, overlapped>>

Statuses == {"GUEST", "PENDING", "ACTIVE", "SUSPENDED", "BANNED"}
Barred == {"SUSPENDED", "BANNED"}

Idle == [step |-> "idle", user |-> NoUser, status |-> "none", email |-> NoEmail]

\* What a request holds while it waits for its next step.
Holding(step, u, s) == [step |-> step, user |-> u, status |-> s, email |-> NoEmail]

Exists(u) == status[u] # "none"

\* The profile inserted in an open transaction keeps the user's row locked
\* against updates, and its unique userId against a second profile.
Locked(u) ==
    \E q \in Requests : request[q].user = u /\ request[q].step \in {"credential", "commit"}

Starts(r, held) ==
    /\ request[r] = Idle
    /\ request' = [request EXCEPT ![r] = held]

-----------------------------------------------------------------------------
(***************************************************************************)
(* Guests.                                                                 *)
(***************************************************************************)

\* Mutant of GuestByDevice: any user with the device's key.
AnyByDevice(u) == Exists(u)

\* findUserByDeviceKey(deviceKey, { status: [GUEST] })
GuestByDevice(u) == status[u] = "GUEST"

GuestSignIn(r, u) ==
    /\ GuestByDevice(u)
    /\ Starts(r, Holding("write", u, status[u]))
    /\ UNCHANGED <<status, credential, profile, token, decided, overlapped>>

\* Mutant of NewGuest: the row is not added before it is updated.
NewGuestUnsaved(r, u) ==
    /\ ~Exists(u)
    /\ Starts(r, Holding("write", u, "GUEST"))
    /\ UNCHANGED <<status, credential, profile, token, decided, overlapped>>

\* No such guest: one is added; signing it in updates it once more.
NewGuest(r, u) ==
    /\ ~Exists(u)
    /\ status' = [status EXCEPT ![u] = "GUEST"]
    /\ Starts(r, Holding("write", u, "GUEST"))
    /\ UNCHANGED <<credential, profile, token, decided, overlapped>>

-----------------------------------------------------------------------------
(***************************************************************************)
(* Sign-up, of a guest or of somebody new.                                 *)
(***************************************************************************)

EmailInUse(e) == \E u \in Users : credential[u] = e

SignUp(r, u, e) ==
    /\ u # NoUser => GuestByDevice(u)
    /\ ~EmailInUse(e)
    /\ Starts(r, [Holding("user", u, "PENDING") EXCEPT !.email = e])
    /\ UNCHANGED <<status, credential, profile, token, decided, overlapped>>

\* usersRepository.add or update, committed at once.
SaveUser(r, u) ==
    /\ request[r].step = "user"
    /\ IF request[r].user = NoUser THEN ~Exists(u) ELSE u = request[r].user /\ ~Locked(u)
    /\ status' = [status EXCEPT ![u] = request[r].status]
    /\ request' = [request EXCEPT ![r] =
                    [step |-> "profile", user |-> u, status |-> @.status, email |-> @.email]]
    /\ UNCHANGED <<credential, profile, token, decided, overlapped>>

\* Mutant of InsertProfile: the profile ignores the transaction as well.
InsertProfileOutside(r) ==
    /\ request[r].step = "profile"
    /\ ~Locked(request[r].user)
    /\ ~profile[request[r].user]
    /\ profile' = [profile EXCEPT ![request[r].user] = TRUE]
    /\ request' = [request EXCEPT ![r].step = "credential"]
    /\ UNCHANGED <<status, credential, token, decided, overlapped>>

\* createProfile, in the transaction: nobody sees the row yet.
InsertProfile(r) ==
    /\ request[r].step = "profile"
    /\ ~Locked(request[r].user)
    /\ request' = [request EXCEPT ![r] = IF profile[@.user] THEN Idle ELSE [@ EXCEPT !.step = "credential"]]
    /\ UNCHANGED <<status, credential, profile, token, decided, overlapped>>

\* Committed at once; a second credential of the user or the e-mail fails and
\* takes the profile with it.
InsertCredential(r) ==
    LET u == request[r].user
        e == request[r].email
    IN  /\ request[r].step = "credential"
        /\ IF EmailInUse(e) \/ credential[u] # NoEmail
           THEN /\ request' = [request EXCEPT ![r] = Idle]
                /\ UNCHANGED credential
           ELSE /\ credential' = [credential EXCEPT ![u] = e]
                /\ request' = [request EXCEPT ![r].step = "commit"]
        /\ UNCHANGED <<status, profile, token, decided, overlapped>>

Commit(r) ==
    /\ request[r].step = "commit"
    /\ profile' = [profile EXCEPT ![request[r].user] = TRUE]
    /\ request' = [request EXCEPT ![r].step = "token"]
    /\ UNCHANGED <<status, credential, token, decided, overlapped>>

\* startUserVerification
SendToken(r) ==
    /\ request[r].step = "token"
    /\ token' = [token EXCEPT ![request[r].user] = "sent"]
    /\ request' = [request EXCEPT ![r] = Idle]
    /\ UNCHANGED <<status, credential, profile, decided, overlapped>>

-----------------------------------------------------------------------------
(***************************************************************************)
(* Users.                                                                  *)
(***************************************************************************)

SignIn(r, u) ==
    /\ credential[u] # NoEmail
    /\ status[u] \notin Barred
    /\ Starts(r, Holding("write", u, status[u]))
    /\ UNCHANGED <<status, credential, profile, token, decided, overlapped>>

\* PUT me, behind JwtAuthGuard and ActiveUserGuard, which read the row once.
UpdateUserData(r, u) ==
    /\ status[u] = "ACTIVE" /\ credential[u] # NoEmail
    /\ Starts(r, Holding("write", u, status[u]))
    /\ UNCHANGED <<status, credential, profile, token, decided, overlapped>>

\* verifyToken looks at no status.
VerifyToken(r, u) ==
    /\ token[u] = "sent"
    /\ Starts(r, Holding("use-token", u, status[u]))
    /\ UNCHANGED <<status, credential, profile, token, decided, overlapped>>

\* The verification is updated first, then the credential, then the user.
UseToken(r) ==
    /\ request[r].step = "use-token"
    /\ token' = [token EXCEPT ![request[r].user] = "used"]
    /\ request' = [request EXCEPT ![r].step = "write"]
    /\ UNCHANGED <<status, credential, profile, decided, overlapped>>

-----------------------------------------------------------------------------
(***************************************************************************)
(* An administrator.                                                       *)
(***************************************************************************)

Bar(r, u, s) ==
    /\ Exists(u)
    /\ s \in Barred
    /\ Starts(r, Holding("decide", u, s))
    /\ UNCHANGED <<status, credential, profile, token, decided, overlapped>>

Activate(r, u) ==
    /\ Exists(u)
    /\ status[u] \notin {"ACTIVE", "GUEST"}
    /\ Starts(r, Holding("find-profile", u, "ACTIVE"))
    /\ UNCHANGED <<status, credential, profile, token, decided, overlapped>>

\* Mutant of FindProfile: a missing profile is not noticed.
FindProfileNever(r) ==
    /\ request[r].step = "find-profile"
    /\ request' = [request EXCEPT ![r].step = "decide"]
    /\ UNCHANGED <<status, credential, profile, token, decided, overlapped>>

\* "User cannot be activated without a profile"
FindProfile(r) ==
    /\ request[r].step = "find-profile"
    /\ request' = [request EXCEPT ![r] = IF profile[@.user] THEN [@ EXCEPT !.step = "decide"] ELSE Idle]
    /\ UNCHANGED <<status, credential, profile, token, decided, overlapped>>

-----------------------------------------------------------------------------
(***************************************************************************)
(* usersRepository.update(user) writes the row as it was read.             *)
(***************************************************************************)
Update(r) ==
    /\ ~Locked(request[r].user)
    /\ status' = [status EXCEPT ![request[r].user] = request[r].status]
    /\ request' = [request EXCEPT ![r] = Idle]
    /\ UNCHANGED <<credential, profile, token>>

Write(r) ==
    /\ request[r].step = "write"
    /\ Update(r)
    /\ UNCHANGED <<decided, overlapped>>

Decide(r) ==
    LET u == request[r].user
        others == {q \in Requests \ {r} : request[q].user = u}
    IN  /\ request[r].step = "decide"
        /\ Update(r)
        /\ decided' = [decided EXCEPT ![u] = request[r].status]
        /\ overlapped' = IF others = {} THEN overlapped \ {u} ELSE overlapped \union {u}

\* A query fails, or the process dies: an open transaction is rolled back,
\* what was written outside it stays.
Fail(r) ==
    /\ request[r] # Idle
    /\ request' = [request EXCEPT ![r] = Idle]
    /\ UNCHANGED <<status, credential, profile, token, decided, overlapped>>

-----------------------------------------------------------------------------
Init ==
    /\ status = [u \in Users |-> "none"]
    /\ credential = [u \in Users |-> NoEmail]
    /\ profile = [u \in Users |-> FALSE]
    /\ token = [u \in Users |-> "none"]
    /\ request = [r \in Requests |-> Idle]
    /\ decided = [u \in Users |-> "none"]
    /\ overlapped = {}

Next ==
    \E r \in Requests :
        \/ \E u \in Users :
              \/ GuestSignIn(r, u) \/ NewGuest(r, u) \/ SaveUser(r, u)
              \/ SignIn(r, u) \/ UpdateUserData(r, u) \/ VerifyToken(r, u)
              \/ Activate(r, u)
              \/ \E s \in Barred : Bar(r, u, s)
        \/ \E u \in Users \union {NoUser}, e \in Emails : SignUp(r, u, e)
        \/ InsertProfile(r) \/ InsertCredential(r) \/ Commit(r) \/ SendToken(r)
        \/ UseToken(r) \/ FindProfile(r) \/ Write(r) \/ Decide(r) \/ Fail(r)

Spec == Init /\ [][Next]_vars

-----------------------------------------------------------------------------
TypeOK ==
    /\ status \in [Users -> Statuses \union {"none"}]
    /\ credential \in [Users -> Emails \union {NoEmail}]
    /\ profile \in [Users -> BOOLEAN]
    /\ token \in [Users -> {"none", "sent", "used"}]
    /\ request \in [Requests ->
          [step : {"idle", "write", "decide", "user", "profile", "credential", "commit",
                   "token", "use-token", "find-profile"},
           user : Users \union {NoUser},
           status : Statuses \union {"none"},
           email : Emails \union {NoEmail}]]
    /\ \A r \in Requests : request[r].user # NoUser => Exists(request[r].user)
    /\ decided \in [Users -> Barred \union {"none", "ACTIVE"}]
    /\ overlapped \subseteq Users

(***************************************************************************)
(* A profile that can be seen belongs to a user with a credential, however *)
(* sign-ups race for a guest or an e-mail and wherever they fail: the      *)
(* profile is the one row that waits for the transaction, which ends after *)
(* the credential.                                                         *)
(***************************************************************************)
ProfileHasCredential == \A u \in Users : profile[u] => credential[u] # NoEmail

(***************************************************************************)
(* An active user has a profile, also when a request that read the user    *)
(* earlier, or a sign-up that fails, writes the row late.                  *)
(***************************************************************************)
ActiveHasProfile == \A u \in Users : status[u] = "ACTIVE" => profile[u]

(***************************************************************************)
(* Nothing but an administrator ends a ban, if no other request had read   *)
(* the user when the ban was written: no later request starts from the     *)
(* row of a banned user in a way that writes another status.               *)
(***************************************************************************)
BanHoldsUnlessOverlapped ==
    \A u \in Users : decided[u] = "BANNED" /\ u \notin overlapped => status[u] = "BANNED"

(***************************************************************************)
(* A ban that was answered "success." holds until an administrator decides *)
(* otherwise.                                                              *)
(***************************************************************************)
BanHolds == \A u \in Users : decided[u] = "BANNED" => status[u] = "BANNED"

-----------------------------------------------------------------------------
(***************************************************************************)
(* The inductive invariant behind the first three.                         *)
(***************************************************************************)

\* What a request holds fits its step, and only rows that exist have a
\* credential or a token.
WellFormed ==
    /\ \A r \in Requests :
          /\ request[r].step \notin {"idle", "user"} => request[r].user \in Users
          /\ request[r].step = "idle" => request[r] = Idle
          /\ request[r].step \in {"write", "use-token"} => request[r].status \in Statuses
          /\ request[r].step = "decide" => request[r].status \in Barred \union {"ACTIVE"}
          /\ request[r].step = "find-profile" => request[r].status = "ACTIVE"
          /\ request[r].step \in {"user", "profile", "credential", "commit"} =>
                request[r].status = "PENDING" /\ request[r].email \in Emails
    /\ \A u \in Users : credential[u] # NoEmail \/ token[u] # "none" => Exists(u)

\* The credential is there before the transaction is committed.
CommitsWithCredential ==
    \A r \in Requests : request[r].step = "commit" => credential[request[r].user] # NoEmail

\* Who is about to write ACTIVE knows of the profile.
WritesActiveWithProfile ==
    \A r \in Requests :
        request[r].step \in {"write", "use-token", "decide"} /\ request[r].status = "ACTIVE" =>
            profile[request[r].user]

\* Of a user whose ban met no other request, nobody holds another status.
HeldAreBanned ==
    \A r \in Requests, u \in Users :
        /\ decided[u] = "BANNED" /\ u \notin overlapped
        /\ request[r].user = u
        => /\ request[r].step # "user"
           /\ request[r].step \in {"write", "use-token"} => request[r].status = "BANNED"

IInv ==
    /\ TypeOK
    /\ WellFormed
    /\ CommitsWithCredential
    /\ ProfileHasCredential
    /\ WritesActiveWithProfile
    /\ ActiveHasProfile
    /\ HeldAreBanned
    /\ BanHoldsUnlessOverlapped

=============================================================================
