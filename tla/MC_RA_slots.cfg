SPECIFICATION Spec
CONSTANTS
    Cases = {"slots"}
    Programs <- MC_Programs
    Allocable = {5, 15}
    CalleeSaved = {5, 15}
INVARIANTS
    ValuesSurvive
