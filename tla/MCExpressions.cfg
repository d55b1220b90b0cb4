SPECIFICATION Spec
CONSTANTS
    BYTE = 2
    ARG_REGS = 2
    CC_MAX_FUNC_PARAMS = 4
    Programs <- MCPrograms
    Locals <- MCLocals
    Globals <- MCGlobals
    Signatures <- MCSignatures
    Functions_ <- MCFunctions
INVARIANTS
    OperandsSafe
    FrameKept
    RejectsExactly
    ComputesC
