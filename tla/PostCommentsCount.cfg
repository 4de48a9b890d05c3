\* No failure, one flush at a time: only what the tables leave out is missing.
CONSTANTS
    Items = {p1}
    Metrics <- PostMetric
    Columns <- PostColumns
    ColumnsOf <- PostColumnsOf
    Rank <- PostRank
    Events <- PostEvents
    Handled <- PostHandled
    ItemsOf <- PostItemsOf
    MetricsOf <- PostMetricsOf
    Touches <- PostTouches
    Flushes = {f1}
    Free = Free
    Orphan = Orphan
    NoItem = NoItem
    Faults = {}
    MaxVersion = 2
SPECIFICATION FairSpec
PROPERTY CommentsCountFollows
CHECK_DEADLOCK FALSE
