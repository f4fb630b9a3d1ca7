SPECIFICATION Spec
CONSTANTS
    Nil = Nil
    s1 = s1
    s2 = s2
    i1 = i1
    i2 = i2
    Subs = {"establish", "establish2"}
    SubIds = {i1, i2}
    SessionIds = {s1, s2}
    ReuseIds = TRUE
    KafkaSinks = {}
    Refusable = {}
    FaultKinds = {"timeout", "lost"}
    MaxFaults = 1
    MaxChanges = 1
    MaxMountChanges = 1
    SubKind <- MCSubKind
CHECK_DEADLOCK FALSE
SYMMETRY IdSymmetry
INVARIANT SubscriptionsTypeOK
PROPERTY DeletesOnlyGiven
