SPECIFICATION Spec
CONSTANTS
    a = a
    b = b
    Node = {a, b}
    AskFirst = {b}
    MaxSessions = 2
    MaxLosses = 1
    MaxEvents = 2
CHECK_DEADLOCK FALSE
INVARIANTS TypeOK ConsentFirst ReceivesWhatWasOffered RestIsClean
PROPERTIES Settles ImplementsHandshake
