SPECIFICATION Spec
CONSTANTS
    Plugins <- TwoPlugins
    Deps <- TwoDeps
    Slots <- Slots2
    MaxGen = 1
    Faults <- NoFaults
    Callers <- OneCaller
    Main <- MainThread
    MaxInFlight = 2
    Ops <- AllOps
    EditsDisk = FALSE
INVARIANTS
    StopOnce
    NoUnsupervisedProcess
PROPERTY ShutdownKillsAll
CHECK_DEADLOCK FALSE
