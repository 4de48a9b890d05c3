----------------------------- MODULE PostMetrics -----------------------------
(***************************************************************************)
(* The post queue: PostAsyncController feeds PostScoreProcessor, which     *)
(* keeps a post's votes and its number of comments.  This module gives the *)
(* constants of MetricsPipeline the values the post queue has.             *)
(***************************************************************************)
EXTENDS MetricsPipeline

PostEventNames ==
    {"post.voted", "post-comment.created", "post-comment.updated", "post-comment.removed"}

\* A job's data is the post id alone, so event and post make the job id.
PostEvents == [event : PostEventNames, post : Items]

\* PostAsyncController has a pattern for these; it queues no other event.
PostSubscribed == {"post.voted", "post-comment.created"}
PostHandled == {e \in PostEvents : e.event \in PostSubscribed}

PostMetric == {"score", "comments"}
PostColumns == {"upVotes", "downVotes", "commentsCount"}

\* refreshPostScore counts twice and updates once; the stored score is the
\* difference of the two counts, written with them.
PostColumnsOf == [m \in PostMetric |->
    IF m = "score" THEN {"upVotes", "downVotes"} ELSE {"commentsCount"}]

\* flushPostsUpdates refreshes the comments before the score.
PostRank == [m \in PostMetric |-> IF m = "comments" THEN 1 ELSE 2]

PostMetricsOf == [e \in PostEvents |->
    CASE e.event = "post.voted" -> {"score"}
      [] e.event \in {"post-comment.created", "post-comment.removed"} -> {"score", "comments"}
      [] OTHER -> {}]

PostItemsOf == [e \in PostEvents |-> {e.post}]

\* What the request behind an event commits: a vote's rows, a comment's rows,
\* or a new text of a comment, which no counter counts.
PostTouches == [e \in PostEvents |->
    {e.post} \X (CASE e.event = "post.voted" -> {"upVotes", "downVotes"}
                   [] e.event \in {"post-comment.created", "post-comment.removed"} -> {"commentsCount"}
                   [] OTHER -> {})]

-----------------------------------------------------------------------------
(***************************************************************************)
(* "Should update the post metrics - Votes count - Comments count": with   *)
(* no failure at all and one flush at a time, the number of comments ends  *)
(* up being that of the rows.                                              *)
(***************************************************************************)
CommentsCountFollows ==
    <>[](\A p \in Items : stored[p]["commentsCount"] = truth[p]["commentsCount"])

=============================================================================
