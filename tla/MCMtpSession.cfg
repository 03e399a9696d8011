CONSTANTS
    Requests = {1, 2}
    WithCallback = {1}
    kIdsBufferSize = 3
    Skews = {"none", "ahead", "behind"}
    KeyKinds = {"bound", "unbound"}
    FaultKinds = {"error", "connect", "timeout", "key", "forget", "salt", "badId", "badSeq", "fatal", "slow", "old", "detailed", "update", "keyLost", "cancel", "stop", "rpcError"}
    MaxFaults = 1
    MaxId = 4
SPECIFICATION Spec
CHECK_DEADLOCK FALSE
INVARIANT NoRequestLost
INVARIANT AnswerIsItsOwn
INVARIANT AnsweredIsGone
PROPERTY KeepsPromise
