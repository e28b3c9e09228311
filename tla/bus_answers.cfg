SPECIFICATION ReadySpec
CONSTANTS
    NULL = NULL
    ListNum = 2
    MaxConn = 3
    MaxSend = 2
    MaxAnswer = 2
    Names <- Names3
    Begun <- Letters
    AppName <- Name3
    AppGroup <- Group3
    AppCmd <- Cmd3Two
    AppFault <- NoFault
INVARIANTS
    AnswerToRequester
    AtMostOneAnswer
    AnswerExpected
PROPERTIES
    NoOverwrite
CHECK_DEADLOCK FALSE
