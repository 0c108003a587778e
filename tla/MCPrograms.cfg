SPECIFICATION Spec
CONSTANTS
    Workers = 3
    Turns = 2
    Goods = 2
    Limit = 4
    Every = 2
    Queued = 2
    MaxSent = 3
    MaxLines = 3
    Codes = {0, 1, 127}
    SignalNos = {6, 9}
    Dumping = {6}
INVARIANTS
    TypeOK
    BooksBalance
    SignalsHandled
    FailuresStopTheList
PROPERTIES
    EveryoneEnds
CHECK_DEADLOCK FALSE
