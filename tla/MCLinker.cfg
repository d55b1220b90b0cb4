CONSTANTS
    Objects <- MCObjects
    Arguments <- MCArguments
    CommandLines <- MCCommandLines
    MAX_OBJECTS = 3
    MAX_SYMS = 5
    TEXT_VADDR = 65536
    ALIGN = 16
SPECIFICATION Spec
INVARIANTS SectionsApart OneDefinition ReferencesLead OperationsKept ImageWellFormed
CHECK_DEADLOCK FALSE
