SPECIFICATION SupSpec
CONSTANTS
    s1 = s1
    s2 = s2
    Slots = {s1, s2}
    MaxGen = 2
    Faults <- MixedFaults
INVARIANTS
    SupTypeOK
    OneLiveProcess
    DoneMeansDead
    DownAfterStop
PROPERTIES
    ImplementsService
    CrashIsAnswered
CHECK_DEADLOCK FALSE
