SPECIFICATION Spec
CONSTANTS
    Threads = {t1, t2}
    Sessions = {s1}
    Shells = {h1}
    MaxCmds = 1
    Kinds <- PlainNested
    Aborts = FALSE
PROPERTY NestedCallsEnd
CHECK_DEADLOCK FALSE
