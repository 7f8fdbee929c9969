SPECIFICATION Spec
CONSTANTS
    Plugins <- TwoPlugins
    Deps <- TwoDeps
    Slots <- Slots3
    MaxGen = 1
    Faults <- CtxFaults
    Callers <- OneCaller
    Main <- MainThread
    MaxInFlight = 1
    Ops <- AllOps
    EditsDisk = TRUE
INVARIANTS
    RegistryIsInStep
PROPERTY UnloadRespectsDependents
CHECK_DEADLOCK FALSE
