SPECIFICATION Spec
CONSTANTS
    a = a
    b = b
    NULL = NULL
    WRITER = WRITER
    Modules <- Two
    Requests <- Mixed
INVARIANTS
    ListIsQueue
    AnswerFindsRequest
CHECK_DEADLOCK FALSE
