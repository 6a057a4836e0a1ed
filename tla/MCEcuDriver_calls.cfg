CONSTANTS
    Threads = {t1, t2}
    TypesSize = 2
    ExternalSize = 1
    IdsSize = 2
    MaxId = 2
    InFlight = 2
    MaxMsgs = 4
    MaxBatch = 2
    MaxRestarts = 1
    MaxTorn = 2
    MaxMishapMsgs = 2
    MaxRacedMsgs = 1
    Calls = {"ping", "send", "recv", "write", "read", "state"}
    Answers = {"valid", "badcrc", "none"}
    OneAtATime = FALSE
    RepliesWait = FALSE
SPECIFICATION Spec
SYMMETRY ThreadSymmetry
VIEW Live
CONSTRAINT MishapBound
INVARIANTS TypeOK UniqueToOwner FiledByKind MatchInv KindForEveryAnswer
PROPERTY StoredUntilClaimed
CHECK_DEADLOCK FALSE
