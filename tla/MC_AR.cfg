CONSTANTS
    a = a  b = b  c = c  r0 = r0  g = g
    SR = {a, b, c, r0, g}
    Reg = {1, 2, 3, 4, 5, 6, 7}
    PhyReg <- MCPhyReg
    Global = {g}
    RetSR = {r0}
    GRA = TRUE
    Allocable = {3, 4, 5, 6, 7}
    CallerSaved = {4, 5}
    CalleeSaved = {3, 7}
    CanAllocCallee = TRUE
    FP = 0
    OrCount = 4
    Menu <- PairMenu
    BBs <- MCBBs
SPECIFICATION ARSpec
CHECK_DEADLOCK FALSE
INVARIANTS TypeOKAR LifeTimesKeepValues NoSharedRegister RegisterLeft PairsAdjacent NoneForgotten ValuesKept
