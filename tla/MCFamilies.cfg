CONSTANTS
    None = None
    Commands = {"clean", "poll", "map"}
    MaxBlips = 2
    MaxUpdates = 1
SPECIFICATION Spec
INVARIANTS
    TypeOK
    OncePerFamily
PROPERTIES
    SpokenFamilyKept
    ReachableIsConfirmed
    FamilyIsLearned
