CONSTANTS
    r1 = r1  r2 = r2  ip = ip  flags = flags  ge = ge
    R1 = R1  R2 = R2  RIP = RIP  RF = RF  RGE = RGE  RU = RU
    BlockLen = 4
    SR <- MCSR
    Reg <- MCReg
    RegUndef = RU
    PhyReg <- MCPhyReg
    Rflag = flags
    Alias <- MCAlias
    Param = {"PHY_REG", "SYM_REG"}
    Blocks <- MCBlocks
    Graphs <- MCGraphs
    SlotNum = 1
    ArmTarget = TRUE
    LisModes = {TRUE, FALSE}
    DelaySlot = FALSE
    ChangeSlot = FALSE
SPECIFICATION SpecIS
CHECK_DEADLOCK FALSE
INVARIANTS TypeOKDDG EdgesSound ConflictsOrdered FlowEdgesDirect
    ResultsAvailable BranchLast PackageKeepsConflicts SameComputation
