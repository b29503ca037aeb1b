SPECIFICATION Spec
CONSTANTS
    a = a
    b = b
    f1 = f1
    g1 = g1
    Weights = {a, b}
    InitFuncs = {f1, g1}
    NoInit = NoInit
    OutSize <- MCOutSize
    WeightSize <- MCWeightSize
    MaxOne = 3
    MaxTwo = 2
    AlikeInits = TRUE
    Programs <- MCPrograms
    NodesShared = FALSE
INVARIANTS
    TypeOK
    OperandsIntact
    UseCountsExact
    FreedOnce
