CONSTANTS
    Threads = {t1, t2, t3}
    EntriesNum = 2
SPECIFICATION FairSpec
INVARIANTS
    TypeOK
    NothingLost
    SleepsOnEmptyQueue
PROPERTIES
    DestructorReturns
