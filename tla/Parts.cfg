SPECIFICATION PartsSpec
CONSTANTS
    Goroutines = {g1, g2, g3}
    Namespaces = {n1}
    Names = {a, b}
    MaxRegisters = 3
    NumParts = 2
    MaxCalls = 2
    SharingConfigs <- MCSharing
    Scale = 2
    MaxLen = 3
    Hosts = {1, 2}
    WeightRange = {0, 1, 2, 3, 6}
    Priorities = {0, 1}
    Setups <- FormatterSetups
    NoGroup <- MCNoGroup
    DataKeys = {"a", "b"}
    Depth = 3
    Configs <- MCConfigs
    Placeholders <- MCPlaceholders
    Sequential <- MCSequential
    Methods = {"", "GET", "POST"}
    Width = 14
    MsPerSecond = 10
    Millisecond = 3
    MaxLinear = 12
    Stride = 250
    Headers <- MCHeaders
    Queries <- MCQueries
    Params <- MCParams
    MaxList = 2
    PluginNames <- MCPluginNames
    PluginFiles <- MCPluginFiles
    MaxFiles = 2
    MaxRequired = 2
    EndpointPaths <- MCPaths
    Endpoints <- MCEndpoints
    MaxEndpoints = 3
INVARIANTS
    TypesOK
    NothingLostOnceKnown
    RequestsAreApart
    InstancesStandForTheZone
    FormatterIsExact
    LookupIsSound
    InitIsSound
    WaitsAreSane
    RequestIsAsListed
    PluginsAreInOrder
    RoutesAreThoseConfigured
PROPERTIES
    KnownStays
