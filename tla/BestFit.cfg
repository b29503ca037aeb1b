SPECIFICATION Spec
CONSTANTS
    MaxIntervals = 3
    MaxSpecs = 2
    MaxTime = 3
    Sizes = {1, 3}
    Offsets = {0, 1}
    Alignments = {1, 2}
    Paddings = {0}
    ForwardSpecs = TRUE
INVARIANTS
    TypeOK
    LiveDisjoint
    HeapSound
    LowerBoundSoundIfAligned
PROPERTIES
    ImplementsMemPlan
    SolveNeverAsserts
    CheckerAccepts
