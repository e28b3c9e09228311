SPECIFICATION Spec
CONSTANTS
    NULL = NULL
    Packets <- Commands
    MAX_EVENTS = 2
    Actions <- EventActions
    Half = 4
    MaxPackets = 3
INVARIANTS
    TypeOK
    SlotReady
    AnswersInOrder
    DueAgain
PROPERTIES
    DueIsRun
CHECK_DEADLOCK FALSE
