CONSTANTS
    Programs = {"signal", "sigwait", "select", "thread"}
    MaxMsg = 2
    SendsNum = 6
SPECIFICATION FairSpec
INVARIANTS
    TypeOK
    OneNotification
    NoMessageStranded
PROPERTIES
    MessagesReceived
CHECK_DEADLOCK FALSE
