CONSTANTS
    Commands = {"ping", "quiet"}
    RxBufs = 2
    TxBufs = 1
    MaxMsgs = 3
SPECIFICATION FairSpec
PROPERTIES ServedOrSwallowed PingAnswered
