SPECIFICATION MCSpec
CONSTANTS
    Logs <- AllLogs
    MaxLines = 3
    MaxRotations = 1
    MaxSetbacks = 1
    MaxIdle = 1
    NoFile = NoFile
    Rows = {r1, r2}
    Hours <- AllHours
    DayHours = 2
    MonthDays = 2
    Formats <- AllFormats
    Intervals = {"day", "hour"}
    Versions <- AllVersions
    NoTime = NoTime
SYMMETRY Symmetry
INVARIANTS CollectedOnce BatchIsExact SinkIsExact LoadIsValid
PROPERTIES CheckpointNeverGoesBack
CHECK_DEADLOCK FALSE
