CONSTANTS
    Keys = {k1, k2}
    Configs = {c1}
    NoConfig = NoConfig
    Unspecified = Unspecified
    Fields <- MCFields
    ValuesOf <- MCValuesOf
    DefaultOf <- MCDefaultOf
    Blocked = {"u2"}
    Watched = {}
    Specified <- MCSpecified
    Policies <- MCPolicies
    MaxSyncs = 1
SPECIFICATION Spec
CHECK_DEADLOCK FALSE
PROPERTY ListedAreCreated
