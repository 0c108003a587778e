CONSTANTS
    Producers = {p1, p2}
    Consumers = {c1, c2}
    BuffLen = 2
    ItemsNum = 5
SPECIFICATION FairSpec
INVARIANTS
    TypeOK
    BufferHoldsWindow
    TokensMatchSlots
    EveryPassTakes
PROPERTIES
    ImplementsFifo
    Termination
