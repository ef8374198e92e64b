SPECIFICATION EndpointSpec
CONSTANTS
    Setups <- PanicSetups
INVARIANTS
    NoPanic
