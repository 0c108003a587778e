CONSTANTS
    Workers = {w1, w2}
    TasksNum = 1
    NoOne = NoOne
SPECIFICATION FairSpec
PROPERTIES
    StopEndsAllThreads
