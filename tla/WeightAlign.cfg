SPECIFICATION SpecAlign
CONSTANTS
    Weights = {1, 2}
    Alignment = 4
    MaxAddress = 14
    MaxBase = 3
    Lengths = {0, 1, 2, 5}
    Layouts <- MCLayouts
INVARIANTS
    TypeOKAlign
    WeightsIntact
    SharedAligned
    AlignNeverAsserts
