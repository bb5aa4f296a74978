CONSTANTS
    Keys = {k1}
    Configs = {c1, c2}
    NoConfig = NoConfig
    Unspecified = Unspecified
    Fields <- MCFields
    ValuesOf <- MCValuesOf
    DefaultOf <- MCDefaultOf
    Blocked = {}
    Watched = {"health_endpoint"}
    Specified <- MCSpecified
    Policies <- MCPolicies
    MaxSyncs = 2
SPECIFICATION Spec
CHECK_DEADLOCK FALSE
INVARIANTS TypeOK OneSyncPerConfig OneOpenFlag
PROPERTIES EditsSurvive OwnServicesOnly DismissedStays FlagsImplemented
SYMMETRY MCSymmetry
