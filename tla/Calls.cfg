SPECIFICATION CallsSpec
CONSTANTS
    Requests = {r1, r2}
    Contexts = {c1, c2}
    Endpoints <- MCEndpoints
    Setups <- AnswerSetups
INVARIANTS
    TypesOK
    ShadowIsApart
    AnswerIsTold
PROPERTIES
    NothingIsLeftBehind
