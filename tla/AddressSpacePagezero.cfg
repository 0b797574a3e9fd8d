SPECIFICATION Spec
CONSTANTS
    PageSize = 2
    Limit = 7
    LookupSize = 2
    Value = {0, 1, 2}
    Zero = 0
    FileByte = 1
    Slid <- MCSlid
    Backings = {b1, b2, b3}
    NoBacking = none
    Prefixes = {0, 1}
    LazyPages = {}
    MapBases = {0}
    MapSizes = {2}
    ChangeSizes = {2, 3}
    Protections = {{}, {"R"}}
    Maxima = {{}}
    Copies = {TRUE}
    Kinds = {"segment", "read"}
    Payloads = {}
    AccessSizes = {1, 3}
    MaxVersion = 2
INVARIANT
    AccessesAreChecked
