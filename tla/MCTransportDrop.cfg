SPECIFICATION FairActorSpec
CONSTANTS
    Inputs = {i1}
    MaxInputs = 1
    RECONNECT_MIN = 1
    RECONNECT_MAX = 2
PROPERTY DropStops
