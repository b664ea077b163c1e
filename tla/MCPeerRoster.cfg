SPECIFICATION Spec
CONSTANTS
    Leg = {1, 2, 3}
    MyLeg = 2
    PortIndex = 1
    Name = {"Desk", "Sally"}
    Instance = {"phone", "laptop"}
    NoInstance = "none"
    Absent = Absent
    Arrivals <- RosterArrivals
    Configured <- RosterConfigured
    Stale = 1
    MaxChanges = 5
INVARIANTS RosterOK
PROPERTIES HearingListsAll NoGhosts
