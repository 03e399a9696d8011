SPECIFICATION Spec
CONSTANTS
    a = a
    m = m
    Sessions = {a, m}
    DcType <- OneAndMedia
    FaultKinds = {"create", "destroyed", "key", "error", "stop", "kill"}
    MaxFaults = 2
    MaxKeys = 6
CHECK_DEADLOCK FALSE
INVARIANT OneCreator
INVARIANT WrittenIsUsed
