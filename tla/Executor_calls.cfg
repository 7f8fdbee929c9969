SPECIFICATION Spec
CONSTANTS
    c1 = c1
    c2 = c2
    Calls <- TwoCalls
    Terminals <- NoCall
    Pipes <- OnlyStdout
    QueueSize = 1
    MaxLines = 2
    MaxInput = 0
    Breaks = TRUE
SYMMETRY Symmetry
INVARIANTS
    OutputKeepsItsOrder
    OutputBeforeResponse
    OutputGoesToActiveCalls
CHECK_DEADLOCK FALSE
