SPECIFICATION Spec
CONSTANTS
    Nil = Nil
    s1 = s1
    s2 = s2
    MountPoints = {"mp"}
    Ops = {"edit", "commit"}
    SessionIds = {s1, s2}
    Stores = {"candidate"}
    Refusable = {"commit"}
    FaultKinds = {"timeout", "dial", "hello", "nilsession", "lost"}
    MaxFaults = 1
    MaxChanges = 1
    Kind <- MCKind
    MountOf <- MCMountOf
    StoreOf <- MCStoreOf
    Flags <- MCFlags
    DependsOn <- MCDependsOn
CHECK_DEADLOCK FALSE
SYMMETRY SessionSymmetry
INVARIANTS TypeOK SessionHasFinalizer NoLostWakeup StatusTruthful DependencyHonoured
PROPERTIES SequencesOperations ImplementsMountPointSession
