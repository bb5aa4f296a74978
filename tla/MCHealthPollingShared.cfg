CONSTANTS
    s1 = s1
    s2 = s2
    NoService = NoService
    NoUrl = NoUrl
    u1 = u1
    u2 = u2
    h1 = h1
    h2 = h2
    Services = {s1, s2}
    Urls = {u1, u2}
    Hosts = {h1}
    HostOf <- MCHostOf
    Rows <- MCActiveRows
    b1 = b1
    b2 = b2
    BatchIds = {b1, b2}
    ManualIds = {1}
    MaxPerHost = 2
    FailureThreshold = 1
    Cooldown = 1
    BaseDelay = 1
    MaxDelay = 1
    DbReadsMayFail = TRUE
    ManifestSetsFormat = FALSE
SPECIFICATION Spec
CHECK_DEADLOCK FALSE
INVARIANT SuccessMeansStored
