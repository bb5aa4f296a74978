CONSTANTS
    s1 = s1
    s2 = s2
    NoService = NoService
    NoUrl = NoUrl
    u1 = u1
    u2 = u2
    h1 = h1
    h2 = h2
    b1 = b1
    b2 = b2
    Services = {s1, s2}
    Urls = {u1, u2}
    Hosts = {h1}
    HostOf <- MCHostOf
    Rows <- MCActiveRows
    BatchIds = {b1}
    ManualIds = {1}
    MaxPerHost = 1
    FailureThreshold = 3
    Cooldown = 2
    BaseDelay = 1
    MaxDelay = 4
    DbReadsMayFail = FALSE
    ManifestSetsFormat = FALSE
SPECIFICATION SteadySpec
CHECK_DEADLOCK FALSE
INVARIANT BackoffInStep
PROPERTIES NoStarvation LockReleased
