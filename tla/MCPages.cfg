CONSTANTS
    FlagIds = {"f1", "f2"}
    FlagTypeOf <- MCFlagTypeOf
    Filters = {"all", "service_removal"}
    MaxBulk = 1
    MaxFlying = 2
    MaxElsewhere = 1
    Topologies <- MCTopologies
    Parts <- MCParts
    AllTeams = "all"
    NoIsolation = "none"
    MaxJobs = 2
    MaxReads = 1
    Endpoints = {"", "u1"}
    Refused = {}
    Typed <- MCTyped
    MetricKeys = {"k1"}
    MetricFields = {"f1"}
    FirstField = "f1"
    MaxRows = 2
    Puts <- MCPuts
    ChannelIds = {"c1"}
    Urls = {"u1", "u2"}
    TypedUrls = {"u1"}
    Muteable = {"instance", "service"}
    MaxMuteCalls = 2
    ChannelPuts <- MCChannelPuts
    RulePuts <- MCRulePuts
    TeamNames = {"n1", "n2"}
    TeamKeys = {"k1"}
    RefusedKeys = {}
    KeyOfName <- MCKeyOfName
    TeamTexts = {"x"}
    OtherTeam <- MCOtherTeam
    TeamPuts <- MCTeamPuts
    Users = {"u1", "u2"}
    MemberPuts = {"lead"}
    MaxTeamLoads = 2
    MaxTeamCalls = 2
    Nil = Nil
    Absent = Absent
    None = None
SPECIFICATION Spec
CHECK_DEADLOCK FALSE
INVARIANTS TypeOK PagesShow
PROPERTIES PagesSaveAsShown
