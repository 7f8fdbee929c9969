SPECIFICATION Spec
CONSTANTS
    Setups <- AllSetups
    MaxChunks = 2
    Window = 1
    StartFails = TRUE
    Disconnects = TRUE
INVARIANTS
    NoProcessLeft
    TakenIsReceived
PROPERTIES
    UnwantedTasksEnd
CHECK_DEADLOCK FALSE
