CONSTANTS
    s1 = s1
    s2 = s2
    NoService = NoService
    NoUrl = NoUrl
    u1 = u1
    u2 = u2
    h1 = h1
    h2 = h2
    Services = {s1}
    Urls = {u1, u2}
    Hosts = {h1, h2}
    HostOf <- MCHostPerUrl
    Rows <- MCFormatRows
    b1 = b1
    b2 = b2
    BatchIds = {b1, b2}
    ManualIds = {1}
    MaxPerHost = 2
    FailureThreshold = 2
    Cooldown = 2
    BaseDelay = 1
    MaxDelay = 4
    DbReadsMayFail = TRUE
    ManifestSetsFormat = TRUE
SPECIFICATION Spec
CHECK_DEADLOCK FALSE
PROPERTY NeverPollsOtlp
