SPECIFICATION Spec
CONSTANTS
    Units <- AllocaUnits
    AllocaSizes = {8, 16}
    NumArgReg = 4
    a = a
    b = b
    c = c
INVARIANTS
    AllocaKept
CHECK_DEADLOCK FALSE
