CONSTANTS
    a = a  b = b  c = c  r0 = r0  g = g
    SR = {a, b, c, r0, g}
    Reg = {1, 2, 3, 4, 5, 6, 7}
    PhyReg <- MCPhyReg
    Global = {g}
    RetSR = {r0}
    GRA = FALSE
    Allocable = {3, 4, 5, 6, 7}
    CallerSaved = {}
    CalleeSaved = {3, 4, 5, 6, 7}
    CanAllocCallee = TRUE
    FP = 4
    OrCount = 3
    Menu <- LocalMenu
    BBs <- MCBBs
SPECIFICATION ARSpec
CHECK_DEADLOCK FALSE
INVARIANT FramePointerSpared
