SPECIFICATION Spec
CONSTANTS
    Kinds <- MCKinds
    MaxRequests = 3
    MaxConnections = 2
    MaxPackets = 1
    SendBuffer = 2
INVARIANTS
    TypeOK
    NeverWaitsForRequest
    AnswersInOrder
    AnswersAreFresh
    FailsOnlyByCollision
PROPERTY
    ListingsAreSettled
CHECK_DEADLOCK FALSE
