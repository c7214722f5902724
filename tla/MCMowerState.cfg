CONSTANTS
    None = None
    JobTypes <- MCJobTypes
    Window = 1
    MaxTime = 2
SPECIFICATION HSpec
INVARIANTS
    TypeOK
    DockedIsShown
    SuspendedJobResumed
PROPERTY
    DepartureKept
