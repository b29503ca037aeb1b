SPECIFICATION Spec
CONSTANTS
    MaxIntervals = 2
    MaxSpecs = 2
    MaxTime = 2
    AnyOrder = 3
    AnyTime = 3
    Sizes = {1, 2}
    Offsets = {0, 1}
    Alignments = {1}
    Paddings = {0}
    ForwardSpecs = TRUE
PROPERTIES
    SolveReturns
