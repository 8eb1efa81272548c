SPECIFICATION BlocksSpec
CONSTANTS
    Rows = {r1}
    Hours <- AllHours
    DayHours = 2
    MonthDays = 2
    Formats <- HourlyFormat
    Intervals = {"day"}
    Versions <- AllVersions
    NoTime = NoTime
INVARIANTS RangeIsComplete
CHECK_DEADLOCK FALSE
