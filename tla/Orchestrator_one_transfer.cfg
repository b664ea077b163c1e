SPECIFICATION Spec
CONSTANTS
    a = a
    b = b
    Node = {a, b}
    AskFirst = {b}
    MaxSessions = 2
    MaxLosses = 0
    MaxEvents = 2
CHECK_DEADLOCK FALSE
INVARIANT OneTransferAtATime
