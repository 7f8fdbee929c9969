SPECIFICATION Spec
CONSTANTS
    Threads = {t1, t2}
    Sessions = {s1}
    Shells = {h1, h2}
    MaxCmds = 3
    Kinds <- AnyOutput
    Aborts = TRUE
INVARIANTS
    LiveShellsAreOwned
    OwnOutput
PROPERTIES
    NoCommandAfterFinalize
    EveryCallReturns
CHECK_DEADLOCK FALSE
