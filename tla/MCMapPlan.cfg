CONSTANTS
    None = None
    Rows = {edge, middle}
    MaxLength = 1
    MaxBatches = 1
    MaxJobs = 2
    MaxAnswers = 2
    MaxRestarts = 1
    MaxWire = 2
    MaxTasks = 1
SPECIFICATION Spec
INVARIANTS
    TypeOK
    DrawnAsReported
PROPERTIES
    NoTornPlan
    CoverageSurvives
    DrawnIsStored
CHECK_DEADLOCK FALSE
