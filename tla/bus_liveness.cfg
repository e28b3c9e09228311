SPECIFICATION FairSpec
CONSTANTS
    NULL = NULL
    ListNum = 2
    MaxConn = 2
    MaxSend = 2
    MaxAnswer = 1
    Names <- Names2
    Begun <- Letters
    AppName <- Name2
    AppGroup <- Group2Any
    AppCmd <- Cmd2
    AppFault <- TooLong
PROPERTIES
    MailboxServed
    SocketServed
CHECK_DEADLOCK FALSE
