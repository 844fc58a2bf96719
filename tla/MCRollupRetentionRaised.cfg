SPECIFICATION Spec
CONSTANTS
    SlotsPerHour = 2
    HoursPerDay = 2
    CalendarDays = 2
    Keys = {k1}
    Requests = {r1}
    NoRow = NoRow
    RawSettings = {0, 1}
    RollHours = 2
    Ahead = 1
    MaxNow = 6
    MaxBatches = 3
    MaxRows = 1
    MaxPurges = 1
INVARIANTS
    HourlyHistory
CHECK_DEADLOCK FALSE
