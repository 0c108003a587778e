SPECIFICATION Spec
CONSTANTS
    Clients = {c1, c2}
    Turns = 1
    MaxKilled = 1
    Producers = {p1, p2, p3}
    First = p1
    BuffLen = 2
    ItemsNum = 4
    MaxCrashes = 2
    Runs = {r1, r2}
    Users = {u1, u2}
    Page = 2
    MaxFiles = 3
    Size = 3
    MaxBytes = 4
    Numbers = 4
    MaxMail = 2
INVARIANTS
    TypeOK
    LostOnlyToOldSemaphore
    IntactUnlessLeftDirty
    WritesSurvive
    PidFileNamesHolder
    NothingMisread
CHECK_DEADLOCK FALSE
