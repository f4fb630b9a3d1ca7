SPECIFICATION FairSpec
CONSTANTS
    Nil = Nil
    s1 = s1
    s2 = s2
    MountPoints = {"mp"}
    Ops = {"solo"}
    SessionIds = {s1, s2}
    Stores = {"candidate"}
    Refusable = {}
    FaultKinds = {"timeout", "dial", "lost", "crash"}
    MaxFaults = 1
    MaxChanges = 1
    Kind <- MCKind
    MountOf <- MCMountOf
    StoreOf <- MCStoreOf
    Flags <- MCFlags
    DependsOn <- MCDependsOn
CHECK_DEADLOCK FALSE
PROPERTIES MountPointConnects MountPointDeletes TransactionReleasesLock
