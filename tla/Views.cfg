SPECIFICATION Spec
CONSTANTS
    Missing = Missing
    Unset = Unset
    DtypeSize = 2
    PlanAddr = 65
    Shapes <- MCShapes
    Descs <- MCDescs
    InstrDescs <- MCInstrDescs
    Patterns <- MCPatterns
    NewShapes <- MCNewShapes
    BroadcastShapes <- MCBroadcastShapes
    MaxOps = 3
    MaxElems = 12
    MaxThird = 2
    Indices = {0, 1, 2, 3}
CHECK_DEADLOCK FALSE
CONSTRAINT ChainBound
INVARIANTS
    TypeOK
    ViewsFaithful
    InstructionsFaithful
