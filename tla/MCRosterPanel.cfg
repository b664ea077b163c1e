SPECIFICATION PanelSpec
CONSTANTS
    LegCount = 4
    Name = {"Bob", "Sue", "Me"}
    Rosters <- SomeRosters
    Ports <- LegIndexes
    Self = "Me"
    NoName = "none"
    StaleClicks = FALSE
INVARIANTS PanelTypeOK FileGoesToRow
PROPERTIES RowsFollowRoster ZoneOutlivesItsDialog
