SPECIFICATION FairSpec
CONSTANTS
    Nil = Nil
    s1 = s1
    MountPoints = {"mp"}
    Ops = {"lock", "edit"}
    SessionIds = {s1}
    Stores = {"candidate"}
    Refusable = {}
    FaultKinds = {}
    MaxFaults = 0
    MaxChanges = 0
    Kind <- MCKind
    MountOf <- MCMountOf
    StoreOf <- MCStoreOf
    Flags <- MCFlags
    DependsOn <- MCDependsOn
CHECK_DEADLOCK FALSE
PROPERTY FlowCompletes
