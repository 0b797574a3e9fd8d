SPECIFICATION Spec
CONSTANTS
    CodeSize = 3
    DataSize = 1
    HoleSize = 1
    Cell = {"op", "load8", "store8", "loop"}
    Programs <- ByteLoops
    Entries = {0}
    Stacks = {0}
    Unmapped = unmapped
    Blocks = {b1, b2, b3}
    Null = null
    DispatchSize = 1
    Capacity = 3
    MaximumBlocks = 4
    Maxima = {3}
    Warmup = 2
    MemoryWarmup = 3
    MinimumLeft = 1
    HasLlvm = TRUE
    HasPath = FALSE
    MaxVersion = 1
INVARIANTS
    RecentIsTail
    WithinBudget
    StaleOnlyUnchecked
    CountsEveryStart
PROPERTIES
    RunTerminates
