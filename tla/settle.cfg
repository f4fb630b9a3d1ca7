SPECIFICATION FairSpec
CONSTANTS
    Nil = Nil
    s1 = s1
    s2 = s2
    MountPoints = {"mp"}
    Ops = {"get", "rpc"}
    SessionIds = {s1, s2}
    Stores = {"candidate"}
    Refusable = {}
    FaultKinds = {"timeout"}
    MaxFaults = 1
    MaxChanges = 0
    Kind <- MCKind
    MountOf <- MCMountOf
    StoreOf <- MCStoreOf
    Flags <- MCFlags
    DependsOn <- MCDependsOn
CHECK_DEADLOCK FALSE
PROPERTIES OperationSettles
