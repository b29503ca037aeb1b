SPECIFICATION Spec
CONSTANTS
    MaxIntervals = 4
    MaxSpecs = 2
    MaxTime = 4
    AnyOrder = 3
    AnyTime = 3
    Sizes = {1, 3}
    Offsets = {0, 1}
    Alignments = {2}
    Paddings = {0}
    ForwardSpecs = TRUE
CONSTRAINT ProblemBound
INVARIANTS
    TypeOK
    BlocksSound
    OrderKept
    OrderAcyclic
PROPERTIES
    ImplementsMemPlan
    NeverAborts
