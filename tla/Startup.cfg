CONSTANTS
    Names = {"lamp", "plan"}
    Words = {"SET"}
    Unknown = "?"
    EltakoTypes = {"FSR14"}
    OtherTypes = {"BOOL", "SCHEDULE"}
    Dirs <- MCDirs
SPECIFICATION Spec
INVARIANTS Verdict LoadedAsWritten SchedulesStarted
CHECK_DEADLOCK FALSE
