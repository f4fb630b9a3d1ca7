SPECIFICATION FairSpec
CONSTANTS
    Letters = {"a", "b", "c"}
    Payloads <- MCPayloads
    Malformed <- MCMalformed
    Versions = {"v1.0", "v1.1"}
    ReadSize = 6
    Pipeline = 2
    Burst = 2
CHECK_DEADLOCK FALSE
INVARIANTS MessagesIntact ScannerFits
PROPERTIES MessagesReceived
