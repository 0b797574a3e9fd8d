SPECIFICATION Spec
CONSTANTS
    CodeSize = 2
    DataSize = 1
    HoleSize = 1
    Cell = {"store8", "loop"}
    Programs <- ByteStoreLoop
    Entries = {0, 1}
    Stacks = {0}
    Unmapped = unmapped
    Blocks = {b1, b2, b3}
    Null = null
    DispatchSize = 1
    Capacity = 2
    MaximumBlocks = 4
    Maxima = {2}
    Warmup = 2
    MemoryWarmup = 3
    MinimumLeft = 1
    HasLlvm = FALSE
    HasPath = FALSE
    MaxVersion = 2
SYMMETRY Storage
INVARIANTS
    NoStaleBlock
