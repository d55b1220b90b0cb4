SPECIFICATION Spec
CONSTANTS
    BYTE = 2
    Sessions <- MCSessions
    Foreign <- MCForeign
    HostByte <- MCHostByte
    MAX_HOST_FILES = 5
    HOST_MAX = 6
    MAX_ARGS = 4
    PATH = 4
    PAGE = 64
    TOP = 8192
    HEAP = 1024
    HEAPTOP = 1152
    STACK = 4032
    STACKTOP = 4096
    STACKSIZE = 512
INVARIANTS
    RunsAsMeant
    ArgsArrive
    FdsOwnHostFiles
