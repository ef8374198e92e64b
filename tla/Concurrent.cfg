SPECIFICATION Spec
CONSTANTS
    NumCalls = 3
    NoOpEncoding = TRUE
INVARIANTS
    TypeOK
    ConcurrentSafety
PROPERTIES
    EveryoneFinishes
