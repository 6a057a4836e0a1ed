CONSTANTS
    nentries = 4
    Wrap = 8
    MaxAdds = 8
SPECIFICATION Spec
INVARIANTS TypeOK EachInOnePlace ChainEnds
PROPERTY AvailSpec
CHECK_DEADLOCK FALSE
