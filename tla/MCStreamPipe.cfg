\* The standard streams on a pipe; the loops return.  A closed one is the end.
CONSTANTS
    FILE_BUF_SIZE = 2
    Sizes = {1}
    Inputs <- MCInputs
    NL = 9
    Data0 <- MCTwoBytes
    Modes = {"stdin", "stdout", "stderr"}
    Seekable = FALSE
    Offsets <- MCOffsets
    MaxLen = 5
SPECIFICATION FairSpec
PROPERTIES PromptDelivery BehavesAsPlainFile CallsReturn
CHECK_DEADLOCK FALSE
