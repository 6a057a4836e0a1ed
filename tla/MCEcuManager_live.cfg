CONSTANTS
    Threads = {main, h1, h2}
    TypesSize = 2
    ExternalSize = 1
    IdsSize = 2
    MaxId = 2
    InFlight = 2
    MaxMsgs = 3
    MaxBatch = 1
    MaxRestarts = 1
    MaxTorn = 1
    Calls = {"ping", "send", "recv", "write", "read", "state"}
    Answers = {"valid", "badcrc", "none"}
    OneAtATime = FALSE
    RepliesWait = FALSE
    Main = main
    Tries = 2
    MaxSessions = 1
SPECIFICATION ManagerFairSpec
PROPERTY HandlersReturn
CHECK_DEADLOCK FALSE
