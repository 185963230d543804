SPECIFICATION FairSessionSpec
CONSTANTS
    Kinds <- MixedKinds
    Ids = {r1}
    Bodies = {b1}
    BindingBodies = {}
    MalformedBodies = {}
    Domains = {}
    Reports = {}
    Empty = empty
    SnapshotMayBeEmpty = FALSE
    Tokens = {}
    None = none
    MaxActionId = 2
    MaxInputs = 2
    RECONNECT_MIN = 1
    RECONNECT_MAX = 1
    MaxFaults = 2
    MaxRequests = 1
    ServerMayDeny = TRUE
CHECK_DEADLOCK FALSE
INVARIANTS ScreenMatchesServer
PROPERTY AnswersSettle
