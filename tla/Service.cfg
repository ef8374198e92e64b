SPECIFICATION ServiceSpec
CONSTANTS
    Setups <- EndpointSetups
    Runs = 2
    MaxRequests = 2
    Services <- MCServices
    N = 2
    FactoryCounts <- MCFactoryCounts
    Retries <- MCRetries
    Health = TRUE
    MaxAttempts = 2
INVARIANTS
    TypesOK
    AnswerIsTrue
    ShutdownIsOrderly
PROPERTIES
    RequestsAreAnswered
    RunServerReturns
    AgentsMakeProgress
