SPECIFICATION Spec
CONSTANTS
    NULL = NULL
    a = a
    b = b
    c = c
    f = f
    g = g
    Threads = {"main", "t"}
    Main = "main"
    Cmds = {a, b, c}
    Callbacks = {f, g}
    ListMin = 2
    Calls <- Joining
    MaxCalls <- Two21
    MaxElem = 3
    MaxBus = 1
    Faults <- BadStart
INVARIANTS
    TypeOK
    RegisteredFound
    NoUseAfterFree
    ReplyOnce
SYMMETRY
    Alike
CHECK_DEADLOCK FALSE
