SPECIFICATION Spec
CONSTANTS
    c1 = c1
    c2 = c2
    Calls <- OneCall
    Terminals <- OneCall
    Pipes <- OnlyStdout
    QueueSize = 1
    MaxLines = 2
    MaxInput = 3
    Breaks = TRUE
INVARIANT DaemonSurvives
CHECK_DEADLOCK FALSE
