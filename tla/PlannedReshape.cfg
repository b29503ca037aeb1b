SPECIFICATION Spec
CONSTANTS
    MaxOps = 7
    Sizes = {1}
    Lengths = {1, 2}
    ArgSize = 2
    MaxKept = 6
    MaxMemory = 3
    ReshapesPlanned = TRUE
    Models = {1, 2}
    MaxForwards = 2
    DestroysFromLast = TRUE
INVARIANTS
    OperandsHeld
CONSTRAINTS
    MCPrograms
    MCRuns
