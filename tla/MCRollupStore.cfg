SPECIFICATION SteadySpec
CONSTANTS
    SlotsPerHour = 2
    HoursPerDay = 2
    CalendarDays = 2
    Keys = {k1}
    Requests = {r1, r2}
    NoRow = NoRow
    RawSettings = {0, 1}
    RollHours = 2
    Ahead = 1
    MaxNow = 6
    MaxBatches = 2
    MaxRows = 1
    MaxPurges = 1
INVARIANTS
    TypeOK
    RawTierComplete
    HourlyHistory
    DailyHistory
    PurgedAsScheduled
PROPERTIES
    ImplementsUsageHistory
SYMMETRY
    Symmetry
CHECK_DEADLOCK FALSE
