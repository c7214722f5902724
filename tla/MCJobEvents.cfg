CONSTANTS
    None = None
    MaxJobs = 2
    MaxEvents = 5
    MaxTasks = 5
SPECIFICATION Spec
INVARIANTS
    TypeOK
    FiredOnce
    AnnouncedEndingFires
