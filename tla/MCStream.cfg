\* Update streams on a seekable file.
CONSTANTS
    FILE_BUF_SIZE = 2
    Sizes = {1, 3}
    Inputs <- MCTwoInputs
    NL = 9
    Data0 <- MCOneByte
    Modes = {"r+", "a+"}
    Seekable = TRUE
    Offsets <- MCOffsets
    MaxLen = 3
SPECIFICATION Spec
INVARIANTS BufferRoles EofMeansEnd
PROPERTIES BehavesAsPlainFile
