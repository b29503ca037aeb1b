SPECIFICATION Spec
CONSTANTS
    MaxIntervals = 4
    MaxSpecs = 1
    MaxTime = 3
    Sizes = {1, 2}
    Offsets = {1}
    Alignments = {1}
    Paddings = {0}
    ForwardSpecs = TRUE
CONSTRAINT InOrder
INVARIANTS
    TypeOK
    ConflictsOrdered
    PeakReached
PROPERTIES
    ImplementsMemPlan
    NeverAborts
