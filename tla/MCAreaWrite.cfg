CONSTANTS
    None = None
    Keys = {height, angle}
    Values = {low, high}
    Callers = {first, second}
    Reports = {"partial", "prompt"}
    MaxAnswers = 2
    MaxCalls = 2
SPECIFICATION Spec
SYMMETRY Symmetry
INVARIANTS
    TypeOK
    OnlyTakenIsResent
PROPERTIES
    NoLostUpdate
