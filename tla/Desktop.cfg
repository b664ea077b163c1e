SPECIFICATION Spec
CONSTANTS
    Offers = {1, 2}
    None = None
    DialogSecs = 1
    MaxQueue = 1
    MaxEvents = 4
INVARIANTS TypeOK
PROPERTIES CatchesUp EveryOfferIsShown ClosedWindowIsSilent
CHECK_DEADLOCK FALSE
