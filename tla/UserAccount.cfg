\* Two users, one e-mail to fight for, two requests in progress.
CONSTANTS
    Users = {u1, u2}
    Emails = {e1}
    Requests = {r1, r2}
    NoUser = NoUser
    NoEmail = NoEmail
SPECIFICATION Spec
INVARIANTS TypeOK ProfileHasCredential ActiveHasProfile BanHoldsUnlessOverlapped
