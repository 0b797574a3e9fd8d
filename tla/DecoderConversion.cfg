SPECIFICATION Spec
CONSTANTS
    Pages <- ConversionPage
    ProgramsOn <- Programs
INVARIANTS
    UnsupportedStops
CHECK_DEADLOCK FALSE
