SPECIFICATION FairSpec
CONSTANTS
    MountPoints = {"mp1", "mp2"}
    Timeouts = {0, 15}
    WithPort = {"mp1", "mp2"}
    PasswordIsName = {"mp1", "mp2"}
    Behaviours = {"unreachable", "stalls", "denies", "nosubsystem", "drops"}
    Ids = {2, 50}
    OtherIds = {1}
    MaxServerChanges = 1
    MaxEdits = 2
    MaxRefusals = 1
CHECK_DEADLOCK FALSE
INVARIANTS NoSessionLeft
PROPERTIES Connects
