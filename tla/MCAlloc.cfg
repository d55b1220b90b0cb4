CONSTANTS
    ALIGN = 2
    HDR = 2
    GRANULE = 8
    MINEXTENT = 8
    MAXREQ = 14
    SIZEMAX = 20
    BRK0 = 1
    BRKLIMIT = 28
    Slots = {p1, p2, p3}
    Sizes = {1, 7, 15}
SYMMETRY Symmetry
SPECIFICATION CallSpec
INVARIANTS TypeOK HeapIntact FullyCoalesced NoByteLost Ownership Aligned
PROPERTIES FailureKeepsEverything
