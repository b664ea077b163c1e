\* The threads stop for good after some failures (after a failure a sleeping thread is not notified).
SPECIFICATION Spec
CONSTANTS
    FileSizes = {0, 3, 7}
    Chunk = 2
    MaxOpenAttempts = 5
    Failures = {"open", "header", "read", "usb", "short", "write"}
    MaxLaps = 1
INVARIANTS SlotsOK HealthyLinkPasses
PROPERTIES ReturnsUnlessFailure ImplementsTransfer
CHECK_DEADLOCK FALSE
