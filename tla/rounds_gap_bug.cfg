SPECIFICATION Spec
CONSTANTS
    Instances = {i1}
    Games = {g1}
    Zones <- MCZones
    ZoneRule <- MCGapRule
    Definitions <- MCGap
    Days <- MCDays
    DayLength = 4
    DaysPerWeek = 5
    DaysAhead = 2
    Start = 4
    Edits = {}
    MaxClock = 11
    MaxFailures = 1
    g1 = g1
    g2 = g2
    i1 = i1
    i2 = i2
INVARIANTS
    TodayIsBettable
