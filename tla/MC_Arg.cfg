SPECIFICATION Spec
CONSTANTS
    Signatures <- MCSignatures
    NumArgReg = 4
    UIntSpan = 256
INVARIANTS
    EveryByteArrives
    ArgAreaReserved
    StackHoldsArgBytes
CHECK_DEADLOCK FALSE
