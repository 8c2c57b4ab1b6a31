CONSTANTS
    i1 = i1
    i2 = i2
    NoInput = NoInput
    Inputs <- MCInputs
    MaxCalls = 3
SPECIFICATION Spec
SYMMETRY InputSymmetry
CHECK_DEADLOCK FALSE
INVARIANTS
    NoAutorunAfterDispose
