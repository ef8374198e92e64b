SPECIFICATION SharingSpec
CONSTANTS
    NumParts = 2
    MaxCalls = 2
    SharingConfigs <- GetConfigs
INVARIANTS
    NoRace
