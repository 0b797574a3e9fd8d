SPECIFICATION Spec
CONSTANTS
    NameLimit = 4
    MaxUrefs = 2
    Deltas <- SmallDeltas
    Traps = {"rights", "deallocate", "mod_refs", "sets", "reply", "self", "message", "timer", "voucher"}
    MaxVouchers = 1
    NoPort = noPort
INVARIANTS
    TypeOK
    ReceiversAreOwned
    ServiceIsUnique
PROPERTIES
    NamesNeverReused
    FailureLeavesNothing
    IpcSpaceRefinement
CHECK_DEADLOCK FALSE
