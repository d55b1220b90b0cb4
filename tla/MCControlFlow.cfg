SPECIFICATION FairSpec
CONSTANTS
    Programs <- MCPrograms
    Values = {"1", "2", "3"}
    MAX_LABELS = 2
    MAX_PATCHES = 2
    EPILOGUE_PATCH_MAX = 4
    FIXUP_MAX = 3
    CASE_MAX = 2
    JAL_REACH = 40
INVARIANTS RejectsExactly JumpsLand ReturnsRestore
PROPERTIES FollowsC KeepsGoing
CHECK_DEADLOCK FALSE
