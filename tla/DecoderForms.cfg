SPECIFICATION Spec
CONSTANTS
    Pages <- AllPages
    ProgramsOn <- Programs
INVARIANTS
    TypeOK
    DecodesAsArchitecture
    StaysInStep
    BlockIsMaximal
    ReconstructsFromSource
CHECK_DEADLOCK FALSE
