\* A user who is neither the author nor an administrator deletes a post.
SPECIFICATION Spec
CONSTANTS
    Medias = {m1}
    Variants = {"sm", "base"}
    Posts = {p1}
    Comments = {c1, c2}
    Users = {u1, u2}
    Admins = {u2}
    NoComment = NoComment
INVARIANTS OnlyAllowedDeletions
CHECK_DEADLOCK FALSE
