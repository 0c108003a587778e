CONSTANTS
    Clients = {c1, c2}
    SlotsNum = 2
    LoopNum = 1
    Blank = Blank
SPECIFICATION Spec
INVARIANTS
    OverflowCountsLosses
CHECK_DEADLOCK FALSE
