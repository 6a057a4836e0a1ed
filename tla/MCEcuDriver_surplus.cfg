CONSTANTS
    Threads = {t1}
    TypesSize = 6
    ExternalSize = 2
    IdsSize = 2
    MaxId = 2
    InFlight = 2
    MaxMsgs = 3
    MaxBatch = 1
    MaxRestarts = 0
    MaxTorn = 1
    MaxMishapMsgs = 3
    MaxRacedMsgs = 3
    Calls = {"write", "send"}
    Answers = {"valid"}
    OneAtATime = TRUE
    RepliesWait = TRUE
SPECIFICATION Spec
INVARIANT AnswerToOwner
CHECK_DEADLOCK FALSE
