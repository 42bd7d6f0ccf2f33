SPECIFICATION Spec
CONSTANTS
    Units <- MCUnits
    AllocaSizes = {8, 16}
    NumArgReg = 4
    a = a
    b = b
    c = c
INVARIANTS
    VariablesDisjoint
    VariablesInFrame
    FrameAligned
    SPRestored
    VariablesReachable
CHECK_DEADLOCK FALSE
