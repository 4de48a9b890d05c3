---------------------------- MODULE ProfileMetrics ----------------------------
(***************************************************************************)
(* The profile queue: SocialProfileAsyncController feeds                   *)
(* BullSocialProfileProcessor, which keeps a profile's followers, comments *)
(* and posts.  This module gives the constants of MetricsPipeline the      *)
(* values the profile queue has.                                           *)
(***************************************************************************)
EXTENDS MetricsPipeline

ProfileOnly == {"post.created", "post.deleted", "post-comment.created", "post-comment.removed"}
FollowNames == {"profile.followed", "profile.unfollowed"}

\* A job's data is the profile and, for a follow, the profile it targets.
\* "post.deleted" stands for a deletion, which the controller publishes nothing for.
ProfileEvents ==
    [event : ProfileOnly, profile : Items, target : {NoItem}]
        \union {e \in [event : FollowNames, profile : Items, target : Items] :
                    e.profile # e.target}

ASSUME EventsAssumption == Events \subseteq ProfileEvents

\* The patterns post.*, post-comment.* and profile.* and the names they let through.
ProfileHandled == {e \in Events : e.event # "post.deleted"}

ProfileMetric == {"followers", "comments", "posts"}
ProfileColumns == {"followersCount", "followingCount", "commentsCount", "postsCount"}

ProfileColumnsOf == [m \in ProfileMetric |->
    CASE m = "followers" -> {"followersCount", "followingCount"}
      [] m = "comments"  -> {"commentsCount"}
      [] m = "posts"     -> {"postsCount"}]

\* flushProfileUpdates refreshes followers, then comments, then posts.
ProfileRank == [m \in ProfileMetric |->
    CASE m = "followers" -> 1 [] m = "comments" -> 2 [] m = "posts" -> 3]

\* post-comment.removed is let through by the controller, but maps to nothing.
ProfileMetricsOf == [e \in Events |->
    CASE e.event = "post.created"         -> {"posts"}
      [] e.event = "post-comment.created" -> {"comments"}
      [] e.event \in FollowNames          -> {"followers"}
      [] OTHER                            -> {}]

\* Mutant of ScheduledProfiles: the followed profile is not refreshed.
ScheduledProfilesOwn(e) == {e.profile}

\* handle() schedules the profile and, for a follow, the target as well.
ScheduledProfiles(e) == {e.profile, e.target} \ {NoItem}

ProfileItemsOf == [e \in Events |-> ScheduledProfiles(e)]

\* One row of profile_follows is counted in one column of each of its ends.
ProfileTouches == [e \in Events |->
    CASE e.event \in {"post.created", "post.deleted"} -> {<<e.profile, "postsCount">>}
      [] e.event \in FollowNames -> {<<e.profile, "followersCount">>, <<e.target, "followingCount">>}
      [] OTHER -> {<<e.profile, "commentsCount">>}]

-----------------------------------------------------------------------------
(***************************************************************************)
(* Both ends of a follow end up with the counts the database gives for     *)
(* them, although one event, one job and one flush carry both refreshes.   *)
(***************************************************************************)
FollowsSettle ==
    <>[][Quiet]_vars =>
        <>[](\A p \in Items, c \in {"followersCount", "followingCount"} : stored[p][c] = truth[p][c])

=============================================================================
