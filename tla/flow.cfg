SPECIFICATION Spec
CONSTANTS
    Nil = Nil
    s1 = s1
    s2 = s2
    MountPoints = {"mp"}
    Ops = {"lock", "edit", "unlock", "getconfig"}
    SessionIds = {s1, s2}
    Stores = {"candidate"}
    Refusable = {"getconfig", "edit"}
    FaultKinds = {}
    MaxFaults = 0
    MaxChanges = 0
    Kind <- MCKind
    MountOf <- MCMountOf
    StoreOf <- MCStoreOf
    Flags <- MCFlags
    DependsOn <- MCDependsOn
CHECK_DEADLOCK FALSE
SYMMETRY SessionSymmetry
INVARIANTS SequenceUnderLock
