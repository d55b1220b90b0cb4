CONSTANTS
    Objects <- MCObjects
    Arguments <- MCArguments
    CommandLines <- MCClaimLines
    MAX_OBJECTS = 3
    MAX_SYMS = 5
    TEXT_VADDR = 65536
    ALIGN = 16
SPECIFICATION Spec
INVARIANT CallsWork
CHECK_DEADLOCK FALSE
