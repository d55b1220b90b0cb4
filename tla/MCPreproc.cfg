SPECIFICATION FairSpec
CONSTANTS
    Programs <- AllPrograms
    Main <- MCMain
    IncPaths <- MCIncPaths
    Predefined <- CommandLine
    MAX_MACROS = 4
    MAX_IF_DEPTH = 3
    MAX_INCLUDES = 3
    PASSES = 16
INVARIANTS
    OneActiveMacro
    KeptWhenChosen
    OncePerFile
PROPERTIES
    SkippedHasNoEffect
    Finishes
CHECK_DEADLOCK FALSE
