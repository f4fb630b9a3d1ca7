SPECIFICATION FairSpec
CONSTANTS
    Nil = Nil
    s1 = s1
    s2 = s2
    i1 = i1
    i2 = i2
    Subs = {"create", "create2"}
    SubIds = {i1, i2}
    SessionIds = {s1, s2}
    ReuseIds = FALSE
    KafkaSinks = {"create"}
    Refusable = {"create"}
    FaultKinds = {"timeout", "lost", "crash", "kafka"}
    MaxFaults = 1
    MaxChanges = 0
    MaxMountChanges = 1
    SubKind <- MCSubKind
CHECK_DEADLOCK FALSE
INVARIANTS OneStreamPerSession StreamsAreHandled
PROPERTIES Resubscribes
