CONSTANTS
    None = None
    NoEvent = NoEvent
    Codes <- MCCodes
    MaxTasks = 2
SPECIFICATION Spec
INVARIANTS
    TypeOK
    FaultFollowsEvents
    ShownOutIsPolled
PROPERTIES
    ParkedIsShown
    StartedRunIsShown
    HomeSignalIsRead
    RecoveredFaultClears
