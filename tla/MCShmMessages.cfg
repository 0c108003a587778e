CONSTANTS
    Clients = {c1}
    SlotsNum = 2
    LoopNum = 7
    Blank = Blank
SPECIFICATION FairSpec
INVARIANTS
    TypeOK
    PrintedInOrder
    OverflowCountsLosses
PROPERTIES
    AllServed
CHECK_DEADLOCK FALSE
