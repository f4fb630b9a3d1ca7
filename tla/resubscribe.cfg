SPECIFICATION FairSpec
CONSTANTS
    Nil = Nil
    s1 = s1
    s2 = s2
    i1 = i1
    i2 = i2
    Subs = {"establish"}
    SubIds = {i1, i2}
    SessionIds = {s1, s2}
    ReuseIds = FALSE
    KafkaSinks = {"establish"}
    Refusable = {"establish"}
    FaultKinds = {"timeout", "lost", "crash", "kafka"}
    MaxFaults = 1
    MaxChanges = 1
    MaxMountChanges = 1
    SubKind <- MCSubKind
CHECK_DEADLOCK FALSE
INVARIANTS SubscribedHasFinalizer AcknowledgedIsHeard
PROPERTIES EstablishDeletes Resubscribes
