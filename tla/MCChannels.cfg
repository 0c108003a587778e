SPECIFICATION Spec
CONSTANTS
    Clients = {c1, c2}
    Lines = 2
INVARIANTS
    TypeOK
    OneMessageInFlight
    ZombiesOnlyFromMergedSignals
    RequestsAccountedFor
    AnswerMatchesLine
PROPERTIES
    EveryoneGoesOn
CHECK_DEADLOCK FALSE
