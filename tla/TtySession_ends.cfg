SPECIFICATION Spec
CONSTANTS
    c1 = c1
    c2 = c2
    Calls <- OneCall
    Terminals <- OneCall
    Pipes <- OnlyStdout
    QueueSize = 1
    MaxLines = 2
    MaxInput = 1
    Breaks = TRUE
INVARIANT
    TypeOK
PROPERTIES
    EveryMethodIsAnswered
    LostClientEndsCall
    TerminalsLeaveNothing
CHECK_DEADLOCK FALSE
