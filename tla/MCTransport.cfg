SPECIFICATION ReachableActorSpec
CONSTANTS
    Inputs = {i1, i2}
    MaxInputs = 3
    RECONNECT_MIN = 1
    RECONNECT_MAX = 60
INVARIANTS ActorTypeOK BackoffFollowsWaiting
PROPERTY DropStops
