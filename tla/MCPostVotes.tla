------------------------------ MODULE MCPostVotes ------------------------------
EXTENDS PostVotes

\* Profile 1 belongs to user 2 and profile 2 to user 3: ids drift apart as
\* soon as one user has no profile.
DriftedIds == [p \in Profiles |-> p + 1]
=============================================================================
