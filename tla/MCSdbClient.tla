---------------------------- MODULE MCSdbClient -----------------------------
(***************************************************************************)
(* Instances of SdbClient for TLC.  InitReady is a program that has        *)
(* registered a callback for "a" and connected, which Init leads to.       *)
(***************************************************************************)
EXTENDS SdbClient, TLC

InitReady ==
    /\ up = TRUE
    /\ th = [t \in Threads |-> [pc |-> "idle", call |-> NULL, ret |-> 0, out |-> NULL,
                                elem |-> 0, handle |-> 0, calls |-> 0]]
    /\ socket_fd = "open"
    /\ reader = "select" /\ pkt = NULL /\ pkt_pending = 0
    /\ pp = <<[id |-> 1, valid |-> TRUE, pkt |-> Ans(Req(1, 1, "handshake"), "ok"),
               lock |-> FALSE]>>
    /\ pending = <<>> /\ pending_list_lock = FALSE
    /\ callback_list = <<[cmd |-> "a", callback |-> "f"]>>
    /\ registered = [c \in Cmds |-> IF c = "a" THEN "f" ELSE NULL]
    /\ callback_list_size = ListMin /\ callback_list_lock = FALSE
    /\ running = {}
    /\ toBus = <<Req(1, 1, "handshake")>> /\ toApp = <<>>
    /\ served = {1} /\ gone = FALSE /\ busSent = 0

ReadySpec == InitReady /\ [][Next]_vars
FairReadySpec == ReadySpec /\ Fairness

\* Commands differ only in their names, and so do callbacks.
Alike == {p @@ q : p \in Permutations(Cmds), q \in Permutations(Callbacks)}

\* Calls of each thread.
Two(m, n) == ("main" :> m) @@ ("t" :> n)
One1 == "main" :> 1
Two21 == Two(2, 1)

Sync == {"sync"}
Serving == {"sync", "async", "wait", "free", "register", "unregister"}
Joining == {"connect", "disconnect", "register", "unregister", "sync", "async", "check"}

Spurious == {"spurious"}
BadStart == {"spurious", "twice", "invalid", "connect", "cut"}
BadEnd == {"twice", "gone"}

=============================================================================
