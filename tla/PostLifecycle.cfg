\* One image of two variants, one post, two comments, two users.
SPECIFICATION Spec
CONSTANTS
    Medias = {m1}
    Variants = {"sm", "base"}
    Posts = {p1}
    Comments = {c1, c2}
    Users = {u1, u2}
    Admins = {u2}
    NoComment = NoComment
INVARIANTS TypeOK ActiveIsServable AttachedMediaIsServable CreationIsAtomic CountMatchesListing
PROPERTIES RemovedForGood
CHECK_DEADLOCK FALSE
