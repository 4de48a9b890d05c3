\* The parts that share no state, one after the other.
SPECIFICATION Spec
CONSTANTS
    Null = Null
    \* weather reports: days of two hours, a window of two days
    HoursPerDay = 2
    LongDays = 2
    Volumes = {1, 2}
    Fine = 2
    Instants = {3, 30, 200, 900}
    Spans = {1, 168, 169, 720, 721, 2160, 2161, 8760, 8761}
    MonthStarts <- MCMonthStarts
    YearStarts <- MCYearStarts
    \* partner observations
    Requests = {q1, q2}
    Window = 3
    CacheTtl = 1
    Latency = 1
    Horizon = 8
    \* alerts of the civil defense
    Alerts = {"open", "later", "brief"}
    StartAt <- MCStartAt
    ValidAt <- MCValidAt
    Webhooks = {w1, w2}
    MaxTime = 2
    \* gamification
    Achievements = {ach1, ach2}
    Types = {"POSTS_COUNT", "FOLLOWERS"}
    Offers <- MCOffers
    MaxCount = 1
    Runs = {r1, r2}
    FreeLock = FreeLock
    \* policies
    Policies = {"terms-1.9.0", "terms-1.10.0", "privacy-2"}
    PolicyType <- MCPolicyType
    Version <- MCVersion
    Accepts = {a1, a2}
    Checks = {k1}
    MaxContent = 2
    \* views of a post
    Handlers = {h1, h2, h3}
    Cooldown = 3
    TicksPerSecond = 2
    LastTick = 6
    \* the list of posts
    MaxPosts = 3
    PageSize = 1
    Moments = {1, 2}
    PostKinds <- MCPostKinds
    Filters <- MCFilters
    AnyAuthor = "any"
    \* the avatar of a profile
    AvatarMedias = {m1, m2}
    AvatarRequests = {c1, c2, c3}
    NoAvatar = NoAvatar
    \* types of incidents
    TypeIds = {t1, t2}
    TypeNames = {"Flood", "Hail", "HAIL"}
    SlugOf <- MCSlugOf
    TypeEdits = {e1, e2}
    Reports = {i1}
    Keep = Keep
INVARIANTS
    TypeOK RainWindowsNest RainIsExact SeriesAddUp PointsAreBounded
    ObservationIsRecent AlertsOfOneWebhook UnlockedWasEarned FinishedRunUnlocksAll
    CheckedAgainstNewest AnsweredConsentStands CooldownHolds NoPostIsMissed
    NoPostTwice ShownAvatars SlugsFollowNames
CHECK_DEADLOCK FALSE
