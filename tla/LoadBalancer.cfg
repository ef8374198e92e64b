SPECIFICATION Spec
CONSTANTS
    Clients = {c1, c2}
    HostRange = {1, 2, 3}
    Zones <- MCZones
    Configs <- MCConfigs
    Scale = 100
    Modulus = 4
    ShuffleAbove = 2
    MaxDraws = 5
    MaxChanges = 2
INVARIANTS
    TypeOK
    RepliesAreSound
    SharesAreFair
PROPERTIES
    CacheFollowsZone
