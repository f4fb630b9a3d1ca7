SPECIFICATION FairSpec
CONSTANTS
    Calls = {"a", "b"}
    Notes = {"n"}
    MaxNotes = 1
CHECK_DEADLOCK FALSE
INVARIANTS ClientTypeOK ListenerNeverBlocks
PROPERTIES ImplementsRpcChannel CallReturns ListenerStops
