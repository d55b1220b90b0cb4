SPECIFICATION Spec
CONSTANTS
  SESSIONS <- MCSessions
  CC_MAX_INPUT_FILES = 4
  CC_TEXT_VADDR = 65536
  HEADER = 344
  PAGE_SIZE = 4096
INVARIANTS
  ReferencesDenote
  ObjectsInitialised
  RejectsExactly
