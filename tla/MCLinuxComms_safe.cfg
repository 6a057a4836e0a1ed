CONSTANTS
    Commands = {"ping", "get", "quiet", "corrupt"}
    RxBufs = 2
    TxBufs = 1
    MaxMsgs = 3
SPECIFICATION Spec
INVARIANTS TypeOK ReplySignalled BuffersReturned RequestSignalled
PROPERTY ChannelSpec
