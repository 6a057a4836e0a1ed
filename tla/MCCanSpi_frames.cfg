CONSTANTS
    Ids <- SomeIds
    MaxSends = 3
    MaxLoop = 2
SPECIFICATION FairSpec
INVARIANTS TypeOK  InOnePlace
PROPERTIES AllSent CallsReturn
CHECK_DEADLOCK FALSE
