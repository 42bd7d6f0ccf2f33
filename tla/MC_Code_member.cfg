CONSTANTS
    ByteBits = 2
    Range12 = 16
    Range8 = 12
    MemSize = 64
    Sp = 0
    Members = TRUE
    Stmts <- MC_Stmts
    Fill <- MC_Fill
SPECIFICATION Spec
CHECK_DEADLOCK FALSE
INVARIANT ResultIsMeaning
