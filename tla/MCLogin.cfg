CONSTANTS
    None = None
    Users = {owner, other}
    Devices = {d1, d2}
    Ids <- MCIds
SPECIFICATION Spec
INVARIANT
    TypeOK
PROPERTIES
    AskedOnlyWhenNeeded
    VerifiedComesUp
