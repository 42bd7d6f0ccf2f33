SPECIFICATION Spec
CONSTANTS
    Cases = {"fifo", "lifo", "pred", "loop", "call", "blocks", "redef", "upd", "early", "kept", "chains"}
    Programs <- MC_Programs
    Allocable = {5, 15}
    CalleeSaved = {5, 15}
INVARIANTS
    ValuesSurvive
    CalleeSavedKept
PROPERTY
    SolveConflictEnds
