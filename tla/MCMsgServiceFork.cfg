SPECIFICATION Spec
CONSTANTS
    Clients = {c1}
    Lines = 1
PROPERTIES
    ChildAnswersClient
CHECK_DEADLOCK FALSE
