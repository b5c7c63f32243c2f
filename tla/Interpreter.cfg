CONSTANTS
    MaxU64 = 262143
    MaxWord = 1048575
    MaxMemorySize = 131040
    StackLimit = 8
    CallCreateDepth = 2
    MaxCodeSize = 64
    PoolSize = 96
    PrecompileGas = {3000}
    Heights = {7}
    MaxN = 2
    Gas = {60000}
    Regions <- MCRegions
    CallRegions <- MCCallRegions
    Words <- MCWords
    Targets <- MCTargets
    Codes <- MCCodes
    MaxSteps = 4
SPECIFICATION Spec
INVARIANTS MemorySafe ReadOnlyHeld JumpsLand
PROPERTIES GasDecreases
CHECK_DEADLOCK FALSE
