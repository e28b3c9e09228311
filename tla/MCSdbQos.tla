------------------------------ MODULE MCSdbQos ------------------------------
(***************************************************************************)
(* An instance of SdbQos for TLC.  Ten events fill the buffer of a dump, so *)
(* the run starts after module 0 has registered the first of them.         *)
(***************************************************************************)
EXTENDS SdbQos

\* Two modules that share a list.
Sharing == {0, 10}

Earlier == 9
Longest == {LINE_MAX}

\* The state Init reaches when module 0 registers Earlier events.
Loaded ==
    /\ pc = [a \in Agents |-> "idle"]
    /\ qos_enabled = [a \in Agents |-> TRUE]
    /\ count = Earlier
    /\ se_agent = [e \in Ids |-> IF e <= Earlier THEN 0 ELSE NULL]
    /\ se_next = [e \in Ids |-> IF e < Earlier THEN e + 1 ELSE NIL]
    /\ se_len = [e \in Ids |-> IF e <= Earlier THEN LINE_MAX ELSE 0]
    /\ ei_first = [b \in Buckets |-> IF b = 0 THEN 1 ELSE NIL]
    /\ ei_last = [b \in Buckets |-> IF b = 0 THEN Earlier ELSE NIL]
    /\ ei_lock = [b \in Buckets |-> NULL]
    /\ event = [a \in Agents |-> NIL]
    /\ old_event = [a \in Agents |-> NIL]
    /\ output = [a \in Agents |-> <<>>]
    /\ ends = [a \in Agents |-> <<>>]
    /\ output_pos = [a \in Agents |-> 0]
    /\ output_size = [a \in Agents |-> 0]
    /\ stopping = [a \in Agents |-> FALSE]
    /\ out = [a \in Agents |-> NULL]

LoadedSpec == Loaded /\ [][Next]_vars /\ Fairness

=============================================================================
