SPECIFICATION PresetsSpec
CONSTANTS
    p1 = p1
    p2 = p2
    x1 = x1
    x2 = x2
    c1 = c1
    c2 = c2
    Presets <- MCPresets
    Migrated = p1
    Credentials <- MCCredentials
    Configurations <- MCConfigurations
    Callers <- MCCallers
    Startup = startup
    None = None
    NewChoice = NewChoice
    MaxRuntimes = 3
    MaxOperations = 3
    MaxOverlapping = 2
    MaxFaults = 2
    MaxCrashes = 1
SYMMETRY MCSymmetry
CHECK_DEADLOCK FALSE
INVARIANTS
    FileHoldsConfirmed
    RuntimeServesActive
PROPERTIES
    SecretsInUseStay
