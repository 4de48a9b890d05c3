--------------------------- MODULE MCProfileMetrics ---------------------------
EXTENDS ProfileMetrics

CONSTANTS Fan, Star     \* the profile that acts, and the one it follows

\* Fan follows and unfollows Star, and removes its comments in between.
FanEvents == {e \in ProfileEvents : /\ e.profile = Fan
                                    /\ e.target = Star \/ e.event = "post-comment.removed"}
=============================================================================
