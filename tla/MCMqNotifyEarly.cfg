CONSTANTS
    Programs = {"signal", "select", "thread"}
    MaxMsg = 2
    SendsNum = 2
SPECIFICATION FairSpec
PROPERTIES
    EveryMessageReceived
CHECK_DEADLOCK FALSE
