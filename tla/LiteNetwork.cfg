SPECIFICATION SpecExtern
CONSTANTS
    Networks = {a, b, c}
    Files <- MCFiles
    SharesEarly = TRUE
    OrphansRest = TRUE
    ChecksLoad = TRUE
    Operators <- MCOperators
    Library <- MCLibrary
    OwnLoaders = {"own"}
    LoadersKept = TRUE
    TakesLast = TRUE
SYMMETRY Symmetric
INVARIANTS
    TypeOK
    RuntimeMemorySafe
    NothingFreedIsUsed
    NothingLeaks
    LoadersFound
PROPERTIES
    InputsKept
