SPECIFICATION Spec
CONSTANTS
    CodeSize = 2
    DataSize = 0
    HoleSize = 1
    Cell = {"op", "jump", "syscall", "store8", "loop", "bad", "call", "ret"}
    Programs <- AllPrograms
    Entries = {0, 1}
    Stacks = {0, 2, 3}
    Unmapped = unmapped
    Blocks = {b1, b2, b3}
    Null = null
    DispatchSize = 1
    Capacity = 2
    MaximumBlocks = 3
    Maxima = {2}
    Warmup = 2
    MemoryWarmup = 3
    MinimumLeft = 1
    HasLlvm = FALSE
    HasPath = FALSE
    MaxVersion = 2
SYMMETRY Storage
INVARIANTS
    TypeOK
    UsableEntriesAreLive
    NoStaleBlock
    OwnershipMatchesIndex
