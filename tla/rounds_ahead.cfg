SPECIFICATION FairSpec
CONSTANTS
    Instances = {i1}
    Games = {g1, g2}
    Zones <- MCZones
    ZoneRule <- MCZoneRule
    Definitions <- MCWorld
    Days <- MCDays
    DayLength = 4
    DaysPerWeek = 5
    DaysAhead = 2
    Start = 4
    Edits = {}
    MaxClock = 11
    MaxFailures = 1
    g1 = g1
    g2 = g2
    i1 = i1
    i2 = i2
INVARIANTS
    TypeOK
    TodayIsBettable
    InstantsAreWallClock
    AheadTakesFewPlaces
PROPERTIES
    TodayComes
