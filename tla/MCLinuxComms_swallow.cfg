CONSTANTS
    Commands = {"quiet"}
    RxBufs = 2
    TxBufs = 1
    MaxMsgs = 2
SPECIFICATION FairSpec
PROPERTY RequestsServed
