CONSTANTS
    Absent = Absent
    Holds = {short, long}
    Entities = {"switch", "number"}
    MaxChanges = 2
    MaxTasks = 2
SPECIFICATION RainSpec
INVARIANTS
    RainTypeOK
    OnlyReportedIsResent
PROPERTY
    WrittenIsShown
CHECK_DEADLOCK FALSE
