\* Two profiles, no failure, one flush at a time.
CONSTANTS
    Fan = a
    Star = b
    Items = {a, b}
    Metrics <- ProfileMetric
    Columns <- ProfileColumns
    ColumnsOf <- ProfileColumnsOf
    Rank <- ProfileRank
    Events <- FanEvents
    Handled <- ProfileHandled
    ItemsOf <- ProfileItemsOf
    MetricsOf <- ProfileMetricsOf
    Touches <- ProfileTouches
    Flushes = {f1}
    Free = Free
    Orphan = Orphan
    NoItem = NoItem
    Faults = {}
    MaxVersion = 2
SPECIFICATION FairSpec
PROPERTY FollowsSettle
CHECK_DEADLOCK FALSE
