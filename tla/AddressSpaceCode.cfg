SPECIFICATION Spec
CONSTANTS
    PageSize = 1
    Limit = 3
    LookupSize = 1
    Value = {0, 1}
    Zero = 0
    FileByte = 1
    Slid <- MCFlipped
    Backings = {b1}
    NoBacking = none
    Prefixes = {0}
    LazyPages = {1}
    MapBases = {0, 1}
    MapSizes = {2}
    ChangeSizes = {2}
    Protections = {{"R", "W"}, {"R", "W", "X"}}
    Maxima = {{"R", "W", "X"}}
    Copies = {FALSE}
    Kinds = {"batch", "segment", "sparse", "validate", "deallocate", "write", "fetch", "direct", "read"}
    Payloads <- BitPayload
    AccessSizes = {1, 2}
    MaxVersion = 2
INVARIANTS
    CopyNeverFaults
PROPERTIES
    CodeVersioned
    FlatMemoryRefinement
