SPECIFICATION Spec
CONSTANTS
    Instances = {i1, i2}
    Games = {g1}
    Zones <- MCZones
    ZoneRule <- MCZoneRule
    Definitions <- MCEdited
    Days <- MCFewDays
    DayLength = 4
    DaysPerWeek = 5
    DaysAhead = 2
    Start = 4
    Edits = {"games", "holidays"}
    MaxClock = 5
    MaxFailures = 0
    g1 = g1
    g2 = g2
    i1 = i1
    i2 = i2
SYMMETRY Symmetry
PROPERTIES
    RoundsAreFinal
    LeaveDaysSkipped
