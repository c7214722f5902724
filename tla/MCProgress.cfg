CONSTANTS
    None = None
    Full = 1
    Mowers <- MCMowers
    MaxTasks = 2
SPECIFICATION Spec
INVARIANTS
    TypeOK
    RainStopIsTold
PROPERTIES
    FigureNeverFalls
    RunningJobIsShown
