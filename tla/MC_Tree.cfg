CONSTANTS
    Size <- MCSize
    Limit <- MCLimit
    To <- MCTo
    FieldOfst <- MCFieldOfst
    Functions_ <- MCFunctions
    G = 4
    RetSize = 2
    RetBuf <- MCRetBuf
    LocalCopy <- MCLocalCopy
    ParamRetBuf <- MCParamRetBuf
    Programs <- MCPrograms
    Memory0 <- MCMemory0
    Variables <- MCVariables
    ParamBuf <- MCParamBuf
    Fuel = 12
SPECIFICATION SpecFE
CHECK_DEADLOCK FALSE
INVARIANTS TreeMeant PRsAssigned
PROPERTY IREnds
