SPECIFICATION Spec
CONSTANTS
    CodeSize = 2
    DataSize = 0
    HoleSize = 1
    Cell = {"op", "store", "loop"}
    Programs <- AllPrograms
    Entries = {0, 1}
    Stacks = {0}
    Unmapped = unmapped
    Blocks = {b1, b2, b3}
    Null = null
    DispatchSize = 1
    Capacity = 2
    MaximumBlocks = 2
    Maxima = {1, 2}
    Warmup = 2
    MemoryWarmup = 3
    MinimumLeft = 1
    HasLlvm = TRUE
    HasPath = TRUE
    MaxVersion = 1
SYMMETRY Storage
INVARIANTS
    NoStaleBlock
    CleanMeansSaved
