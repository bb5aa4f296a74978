CONSTANTS
    Teams = {"t1", "t2"}
    Deps = {"d1"}
    TeamOf <- MCTeamOf
    RawName <- MCRawName
    Aliases = {"n1"}
    Canonicals = {"c1", "c2"}
    Targets = {"s1"}
    Suggests <- MCSuggests
    Values = {"v1"}
    Manifests <- MCManifests
    Removals <- MCRemovals
    Manual = "manual"
    None = "none"

    ApiKeyIds = {"k1"}
    Rates = {1, 3}
    DefaultRate = 1
    MaxTeamRate = 1
    Unit = 2
    BurstTicks = 3
    MaxTicks = 3
    MaxRequests = 4

    Users = {"u1", "u2"}
    Sessions = {"s1", "s2"}
    TeamIds = {"t1"}
    FirstLocal = "u1"
    Nobody = "nobody"

    Reported = {1, 2}
    Responses <- MCResponses
    Errors = {"e1", "e2"}
    PollErrors = {"p1"}
    Unreported = "unreported"

    Services <- MCServices
    TeamOfService <- MCTeamOfService
    IsExternal = {"s2"}
    Rows = {1, 2, 3, 4}
    OwnerOf <- MCOwnerOf
    NameOf <- MCNameOf
    TypeOf <- MCTypeOf
    LinkChoices <- MCLinkChoices
    Toggled = {"s1", "s3"}
    Kinds <- MCKinds
    NoTarget = "none"

    Tables <- MCTables
    BySetting = {"history"}
    BySpanSetting = {"spans"}
    FixedDays <- MCFixedDays
    SlotsPerDay = 3
    Times = {1, 2}
    EnvTime = 1
    DaysInputs <- MCDaysInputs
    EnvDays = 1
    MaxRetention = 2
    MaxSlots = 6

    Releases = {15, 41}
    Bundles <- MCBundles
    RollbackIds = {37}
    NoId = 0

    Reporters = {"s1", "s2"}
    EditedReporters = {"s1"}
    ReportedDeps = {"d1", "d2"}
    Absent = Absent
    Items <- MCItems
    Texts <- MCTexts
    MetricPushes <- MCMetricPushes
    TracePushes <- MCTracePushes
    MaxReports = 2

    PageDeps = {"d1"}
    LinkTargets = {"s1"}
    StatusFilters = {"all", "linked", "unlinked", "hidden"}
    AliasNames = {"n1"}
    RowIds = {1, 2}
    ExternalNames = {"x", "y"}
    CanonicalNames = {"c1"}
    OverrideTexts = {"x"}
    OverrideTeams = {"t1"}
    MaxListLoads = 2
    MaxPageCalls = 2
    Nothing = Nothing
SPECIFICATION Spec
CHECK_DEADLOCK FALSE
INVARIANTS
    TypeOK
    MetadataKept
    KeysAreMetered
    AdminRemains
    OneBootstrapAdmin
    ReportsAreKept
    ViewsAgree
    CleanedDaily
    SchemaIsComplete
    ReportsAreRead
PROPERTIES
    DismissedNotRevived
    UpgradeKeepsRows
