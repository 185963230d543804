SPECIFICATION Spec
CONSTANTS
    Kinds <- MCKinds
    Ids = {r1}
    Bodies = {plain, odd}
    BindingBodies = {odd}
    MalformedBodies = {odd}
    Domains = {d1}
    Reports = {h1}
    Empty = empty
    SnapshotMayBeEmpty = FALSE
    Tokens = {t1}
    None = none
    MaxActionId = 2
INVARIANTS
    TypeOK
    ScreenIsState
    NoActionLost
    ReplayComplete
    ReplayFaithful
    PushTokenRegistered
    HoldingsAreLastReport
PROPERTY AcceptsWhatIsShown
VIEW CoreView
