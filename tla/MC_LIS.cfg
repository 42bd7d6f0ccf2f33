CONSTANTS
    r1 = r1  RU = RU
    BodyLen = 3
    SR <- MCSR
    Reg = {}
    RegUndef = RU
    PhyReg <- MCPhyReg
    Rflag = r1
    Blocks <- MCBlocks
    Graphs <- MCGraphs
    SlotNum = 2
    ArmTarget = FALSE
    LisModes = {TRUE, FALSE}
    DelaySlot = TRUE
    ChangeSlot = TRUE
SPECIFICATION SpecLIS
CHECK_DEADLOCK FALSE
INVARIANTS TypeOKLIS ReadyIsRoots DependencesKept NothingLost SlotFree
PROPERTIES Terminates ImplementsIssueOrder
