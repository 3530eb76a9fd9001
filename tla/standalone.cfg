CONSTANTS
    Ain = {1, 2}
    Aout = {1}
    Douts = {0, 2}
    Level = {0, 65535}
    Configs <- TwoConfigs
SPECIFICATION FairSpec
INVARIANTS
    AinReflectsConfig
    FailureReported
PROPERTIES
    OutputsFollow
    ResetReturns
