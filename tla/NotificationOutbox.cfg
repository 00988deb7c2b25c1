SPECIFICATION Spec
CONSTANTS
    Messages = {m1, m2}
    Email = {m1}
    Writers = {w1}
    Drains = {d1, d2}
    MaxAttempts = 2
    MaxFailures = 3
    MaxLostLogs = 1
    None = None
SYMMETRY MCSymmetry
INVARIANTS
    OutboxTypeOK
    OneSenderPerMessage
    CopiesAreLostLogs
    NoEarlyDeadLetter
    ErasureStopsTheRest
PROPERTIES
    ImplementsMailQueue
CHECK_DEADLOCK FALSE
