CONSTANTS
    Users = {u1}
    Emails = {e1}
    Requests = {r1, r2}
    NoUser = NoUser
    NoEmail = NoEmail
SPECIFICATION Spec
INVARIANT BanHolds
