SPECIFICATION VmSpec
CONSTANTS
    PageSize = 2
    Limit = 13
    LookupSize = 2
    Value = {0, 1, 2, 3, 4, 5, 6, 7, 8, 9, 10, 11, 12, 13}
    Zero = 0
    FileByte = 3
    Slid <- MCSlid
    Backings = {b1, b2}
    NoBacking = none
    Prefixes = {0}
    LazyPages = {}
    MapBases = {2, 6}
    MapSizes = {2}
    ChangeSizes = {0, 2}
    Protections = {{"R"}, {"R", "W"}}
    Maxima = {{"R", "W"}}
    Copies = {FALSE, TRUE}
    Kinds = {"batch", "sparse", "anonymous", "read"}
    Payloads = {}
    AccessSizes = {1}
    MaxVersion = 1
    Linked = 1
    MinimumMap = 2
    MaximumUserMapEnd = 8
    SharedRegion = 6
    Masks = {2, 3}
    Pointers = {2}
    CallSizes = {0, 2, 3}
    MapProtections = {{"R"}}
    ChangeBases = {2, 3, 4, 6, 8, 13}
    FixedBases = {4, 5, 10}
    Hints = {8, 12}
    RegionLists <- MCRegionLists
    MaxCalls = 4
INVARIANTS
    MappingsDisjoint
    LookupCoherent
    FindExact
    SysTypeOK
    CallsNeverThrow
PROPERTIES
    VmCallsRefinement
CHECK_DEADLOCK FALSE
