SPECIFICATION Spec
CONSTANTS
    NULL = NULL
    ListNum = 2
    MaxConn = 2
    MaxSend = 2
    MaxAnswer = 1
    Names <- NamesP
    Begun <- BegunP
    AppName <- NameP
    AppGroup <- GroupPAny
    AppCmd <- CmdP
    AppFault <- Broken
INVARIANTS
    TypeOK
    LockDiscipline
    SelfSendNeverBlocks
    RequestToAddressee
CHECK_DEADLOCK FALSE
