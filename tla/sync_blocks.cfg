SPECIFICATION ReadySpec
CONSTANTS
    NULL = NULL
    Threads = {"main"}
    Main = "main"
    Cmds = {"a"}
    Callbacks = {"f"}
    ListMin = 2
    Calls <- Sync
    MaxCalls <- One1
    MaxElem = 2
    MaxBus = 0
    Faults <- Spurious
INVARIANT
    SyncBlocks
CHECK_DEADLOCK FALSE
