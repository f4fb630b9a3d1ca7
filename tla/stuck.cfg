SPECIFICATION FairSpec
CONSTANTS
    Nil = Nil
    s1 = s1
    s2 = s2
    i1 = i1
    i2 = i2
    Subs = {"establish"}
    SubIds = {i1, i2}
    SessionIds = {s1, s2}
    ReuseIds = FALSE
    KafkaSinks = {}
    Refusable = {}
    FaultKinds = {}
    MaxFaults = 0
    MaxChanges = 1
    MaxMountChanges = 2
    SubKind <- MCSubKind
CHECK_DEADLOCK FALSE
PROPERTIES DeletionTakesEffect
