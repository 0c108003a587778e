CONSTANTS
    Workers = {w1, w2, w3}
    TasksNum = 3
    NoOne = NoOne
SPECIFICATION FairSpec
INVARIANTS
    TypeOK
    NoEmptyTake
    PoolRanEverything
    DataNeverOlder
PROPERTIES
    EveryTaskRuns
