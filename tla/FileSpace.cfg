SPECIFICATION Spec
CONSTANTS
    MaxDescriptors = 2
    Streams = {0}
    HostLimit = 2
    Requests <- Opens
    Sizes = {0, 1}
    MaxPosition = 1
    SeekLimit = 2
    DirectorySizes = {0, 1}
    Offsets <- SmallOffsets
INVARIANTS
    TypeOK
    HostOwned
    WithinPolicy
PROPERTIES
    FailureConsumesNothing
    UnixFilesRefinement
CHECK_DEADLOCK FALSE
