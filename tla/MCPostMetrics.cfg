\* Every failure the pipeline can meet, one post, two overlapping flushes.
CONSTANTS
    Items = {p1}
    Metrics <- PostMetric
    Columns <- PostColumns
    ColumnsOf <- PostColumnsOf
    Rank <- PostRank
    Events <- PostEvents
    Handled <- PostHandled
    ItemsOf <- PostItemsOf
    MetricsOf <- PostMetricsOf
    Touches <- PostTouches
    Flushes = {f1, f2}
    Free = Free
    Orphan = Orphan
    NoItem = NoItem
    Faults = {"event_lost", "lease_expires", "redis_error", "db_error", "redis_restart", "crash"}
    MaxVersion = 2
SPECIFICATION Spec
SYMMETRY FlushSymmetry
INVARIANTS TypeOK NoLostUpdate NoForgottenEntry
PROPERTY ImplementsCounterSync
\* Every request is made and every refresh done: the system really stops.
CHECK_DEADLOCK FALSE
