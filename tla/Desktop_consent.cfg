SPECIFICATION Spec
CONSTANTS
    Offers = {1, 2}
    None = None
    DialogSecs = 1
    MaxQueue = 1
    MaxEvents = 4
INVARIANT AcceptsWhatIsShown
CHECK_DEADLOCK FALSE
