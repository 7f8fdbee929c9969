SPECIFICATION ProgramsSpec
CONSTANTS
    DefaultSide = 2
    DefaultBombs = 1
    Widths <- SomeWidths
    Heights <- SomeHeights
    BombCounts <- SomeBombs
    Dim = 2
    Target = 16
    Rows <- SomeRows
    Suits <- TwoSuits
    Ranks = 3
    Columns = 2
    Commands <- SomeCommands
    Waters = 2
    Sizes <- TwoShips
    Starts <- SomeStarts
    Moves <- SomeMoves
    MaxPlies = 4
    MaxAI = 2
    Texts <- SomeTexts
    ScriptFiles <- SomeScripts
    ScriptTrees <- SomeTrees
    MaxRequests = 3
    MaxPrompts = 2
    MaxAsks = 4
    PromptKinds = {"choose"}
    Sayings = {"unknown", "decline"}
    Clients = {"a", "b"}
    Mcps = {"a"}
    Crews <- SomeCrews
    MaxSessions = 3
    MaxServers = 3
    MaxStops = 1
    Apis = {"Exec", "ExecStream", "SudoExec", "BackgroundExec"}
    Threads = {t1, t2}
    Blobs = {b1, b2, b3}
    Keys = {"k1"}
    TTL = 0
    MaxTime = 1
    Graphs <- SomeGraphs
    Declared <- SomeDeclared
    ServiceSets <- SomeServices
    EnumSets <- SomeEnums
    Items <- SomeItems
    ToolArgs <- SomeArgs
    MaxSet = 2
    MaxDepth = 4
    LogConfigs <- SomeConfigs
    LogNames <- SomeNames
    SegmentLen <- SomeSegments
    LogThreads = {t1, t2}
    MaxLoggers = 2
    Callers = {"p", "q"}
    Watchers = {"w"}
    Readings <- SomeReadings
    Threshold = 1
    QueueLen = 1
    ChanLen = 1
    IdleTimeout = 1
    MinInterval = 1
    MaxInterval = 2
    DecayWindow = 1
    BusyThreshold = 2
    MaxClock = 2
    MaxPolls = 3
    MaxAsked = 2
    ProcessLists <- SomeLists
    Recordings <- SomeRecordings
    Counts <- SomeCounts
    DefaultCount = 2
    MaxHistory = 2
    MaxDaemons = 2
    MaxLoads <- SomeLoads
INVARIANTS
    GamesFollowTheirRules
    ScriptIsReported
    AnswersReachTheirCall
    ClientsShareSessions
    SudoAsksAndRunsRightly
    CredentialIsSafe
    PluginGetsWhatWasTyped
    LoggersFollowTheirConfiguration
    ResourcesAreFresh
    ListsAreRight
    
CHECK_DEADLOCK FALSE
