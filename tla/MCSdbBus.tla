------------------------------ MODULE MCSdbBus ------------------------------
(***************************************************************************)
(* Instances of SdbBus for TLC.  Most start with every module connected    *)
(* and every handshake done, which Init leads to.                          *)
(***************************************************************************)
EXTENDS SdbBus, TLC

InitReady ==
    /\ up = TRUE
    /\ last = MaxConn
    /\ pc = [m \in Slots |-> "wait"]
    /\ name = AppName
    /\ group \in {g \in [Slots -> Group] : \A m \in Slots : g[m] \in AppGroup[m]}
    /\ rfd = [m \in Slots |-> m]
    /\ open = Slots
    /\ owner = [m \in Slots |-> None]
    /\ depth = [m \in Slots |-> 0]
    /\ data = [m \in Slots |-> NULL]
    /\ data_valid = [m \in Slots |-> FALSE]
    /\ data_socket = [m \in Slots |-> FALSE]
    /\ queue = [m \in Slots |-> <<>>]
    /\ qos_enabled = [m \in Slots |-> TRUE]
    /\ hand = [m \in Slots |-> NULL]
    /\ cur = [m \in Slots |-> NULL]
    /\ obs = "select"
    /\ watch = Slots
    /\ todo = {}
    /\ pipe = 0
    /\ toSdb = [m \in Slots |-> <<>>]
    /\ toApp = [m \in Slots |-> <<Ans([id |-> <<m, 0>>], "ok")>>]
    /\ closed = [m \in Slots |-> FALSE]
    /\ sent = [m \in Slots |-> 1]
    /\ replies = [m \in Slots |-> 0]

ReadySpec == InitReady /\ [][Next]_vars
FairReadySpec == ReadySpec /\ Fairness
AnsweringSpec == FairReadySpec /\ ClientFairness

\* Two modules.
Names2 == {"", "a", "b"}
Name2 == (0 :> "a") @@ (1 :> "b")
Group2 == (0 :> {"app"}) @@ (1 :> {"app"})
Cmd2 == (0 :> {"test"}) @@ (1 :> {"test"})
CmdOne == (0 :> {"test"}) @@ (1 :> {})

\* The second may name a group that does not exist.
Group2Any == (0 :> {"app"}) @@ (1 :> {"app", "pilot"})

\* The process manager, which may name a group that does not exist, and a module
\* that may start it, whose name begins the one of the process manager.
NamesP == {"", "p", "procman"}
BegunP == ("" :> {}) @@ ("p" :> {""}) @@ ("procman" :> {"", "p"})
NameP == (0 :> "procman") @@ (1 :> "p")
GroupPAny == (0 :> {"procman", "pilot"}) @@ (1 :> {"syscore"})
CmdP == (0 :> {"test"}) @@
        (1 :> {"test", "sdb_qos_start", "sdb_qos_stop", "sdb_qos_dump", "procman_start",
               "temperature_arduino", "arduino_get_pin"})

\* Three modules, of which two send.
Names3 == {"", "a", "b", "c"}
Name3 == (0 :> "a") @@ (1 :> "b") @@ (2 :> "c")
Group3 == [m \in 0..2 |-> {"app"}]
Cmd3Two == (0 :> {"test"}) @@ (1 :> {"test"}) @@ (2 :> {})

\* Names of one letter.
Letters == [n \in Names |-> {""} \ {n}]

NoFault == {}
Broken == {"bad", "close"}
TooLong == {"big"}

=============================================================================
