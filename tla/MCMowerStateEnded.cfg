CONSTANTS
    None = None
    JobTypes <- MCJobTypes
    Window = 1
    MaxTime = 2
SPECIFICATION HSpec
INVARIANT EndedJobIsNotResumed
