SPECIFICATION Spec
CONSTANTS
    Arrays = {"a"}
    Fuel = 4
    Bodies <- MCBodies
    Inputs <- MCInputs
    MaxSteps = 8
CHECK_DEADLOCK FALSE
INVARIANTS
    IRFaithful
    CodeFaithful
