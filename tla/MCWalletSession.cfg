SPECIFICATION SessionSpec
CONSTANTS
    Kinds <- SignKinds
    Ids = {r1, r2}
    Bodies = {b1, b2}
    BindingBodies = {}
    MalformedBodies = {}
    Domains = {}
    Reports = {}
    Empty = empty
    SnapshotMayBeEmpty = FALSE
    Tokens = {}
    None = none
    MaxActionId = 2
    MaxInputs = 2
    RECONNECT_MIN = 1
    RECONNECT_MAX = 1
    MaxFaults = 2
    MaxRequests = 2
    ServerMayDeny = TRUE
SYMMETRY RequestSymmetry
INVARIANTS OnlyWhatWasAnswered FirstAnswerWins AnswersAreTrue StatusIsTrue
           BlipLosesOnlyEarly
PROPERTY KeepsPromise
CHECK_DEADLOCK FALSE
