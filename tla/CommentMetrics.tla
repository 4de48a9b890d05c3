---------------------------- MODULE CommentMetrics ----------------------------
(***************************************************************************)
(* The comment queue: PostAsyncController feeds PostCommentsProcessor,     *)
(* which keeps the number of replies of a comment.  This module gives the  *)
(* constants of MetricsPipeline the values the comment queue has.          *)
(***************************************************************************)
EXTENDS MetricsPipeline

CommentEventNames == {"post-comment.created", "post-comment.updated", "post-comment.removed"}

\* The parent of a comment, a set of at most one comment: a comment made on
\* the post itself has none.  A comment is published before it knows its own
\* id, so replies to one parent of one post share a job id.
CommentEvents == [event : CommentEventNames, parent : {{}} \union {{c} : c \in Items}]

\* PostAsyncController has a pattern for creation only.
CommentHandled == {e \in CommentEvents : e.event = "post-comment.created"}

CommentMetric == {"replies"}
CommentColumns == {"repliesCount"}
CommentColumnsOf == [m \in CommentMetric |-> CommentColumns]
CommentRank == [m \in CommentMetric |-> 1]

CommentMetricsOf == [e \in CommentEvents |-> {"replies"}]

\* handle() schedules data.parentId, and nothing without one.
CommentItemsOf == [e \in CommentEvents |-> e.parent]

\* A reply that appears or is soft-deleted changes its parent's replies; a new
\* text changes none.
CommentTouches == [e \in CommentEvents |->
    IF e.event = "post-comment.updated" THEN {} ELSE e.parent \X CommentColumns]

=============================================================================
