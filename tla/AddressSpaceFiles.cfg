SPECIFICATION Spec
CONSTANTS
    PageSize = 2
    Limit = 5
    LookupSize = 1
    Value = {0, 1}
    Zero = 0
    FileByte = 1
    Slid <- MCFlipped
    Backings = {b1, b2}
    NoBacking = none
    Prefixes = {1}
    LazyPages = {2}
    MapBases = {0, 2}
    MapSizes = {2, 4}
    ChangeSizes = {2}
    Protections = {{"R"}, {"R", "W"}}
    Maxima = {{"R", "W"}}
    Copies = {FALSE}
    Kinds = {"file", "anonymous", "deallocate", "read", "write"}
    Payloads <- BitPayload
    AccessSizes = {3}
    MaxVersion = 2
INVARIANTS
    TypeOK
    BackingInBounds
    BackingUnshared
PROPERTIES
    FlatMemoryRefinement
