CONSTANTS
    ALIGN = 2
    HDR = 4
    GRANULE = 4
    MINEXTENT = 16
    MAXREQ = 14
    SIZEMAX = 20
    BRK0 = 2
    BRKLIMIT = 40
    Slots = {p1, p2}
    Sizes = {0, 5, 13, 15}
SPECIFICATION FairSpec
PROPERTIES KeepsContract CallsReturn
