SPECIFICATION AnsweringSpec
CONSTANTS
    NULL = NULL
    ListNum = 2
    MaxConn = 2
    MaxSend = 2
    MaxAnswer = 1
    Names <- Names2
    Begun <- Letters
    AppName <- Name2
    AppGroup <- Group2
    AppCmd <- CmdOne
    AppFault <- NoFault
PROPERTIES
    AllAnswered
CHECK_DEADLOCK FALSE
