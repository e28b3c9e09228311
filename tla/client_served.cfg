SPECIFICATION FairReadySpec
CONSTANTS
    NULL = NULL
    Threads = {"main", "t"}
    Main = "main"
    Cmds = {"a", "b"}
    Callbacks = {"f"}
    ListMin = 2
    Calls <- Serving
    MaxCalls <- Two21
    MaxElem = 3
    MaxBus = 1
    Faults <- BadEnd
INVARIANTS
    NoUseAfterFree
    AnswerOwn
PROPERTIES
    AnswerDelivered
    RequestReplied
CHECK_DEADLOCK FALSE
