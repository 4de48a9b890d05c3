\* One parent comment, two overlapping flushes, to the end: three replies, as a
\* flush that undoes another needs two older counts and a newer one.
CONSTANTS
    Items = {c1}
    Metrics <- CommentMetric
    Columns <- CommentColumns
    ColumnsOf <- CommentColumnsOf
    Rank <- CommentRank
    Events <- CommentEvents
    Handled <- CommentHandled
    ItemsOf <- CommentItemsOf
    MetricsOf <- CommentMetricsOf
    Touches <- CommentTouches
    Flushes = {f1, f2}
    Free = Free
    Orphan = Orphan
    NoItem = NoItem
    Faults = {"event_lost", "lease_expires", "crash"}
    MaxVersion = 3
SPECIFICATION FairSpec
PROPERTIES Convergence NoRegression
CHECK_DEADLOCK FALSE
