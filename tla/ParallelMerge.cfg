SPECIFICATION Spec
CONSTANTS
    NumBackends = 3
    Keys = {k1}
INVARIANTS
    TypeOK
    MergerSafety
PROPERTIES
    MergeIsMonotone
    EveryoneFinishes
    ImplementsContract
