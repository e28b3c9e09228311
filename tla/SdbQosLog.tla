----------------------------- MODULE SdbQosLog ------------------------------
(***************************************************************************)
(* What the quality of service events promise a module: a log of its own,  *)
(* which a dump returns, oldest event first, and empties.  An event is the *)
(* moment at which it was registered.  Only a log of at most Whole events  *)
(* is sure to be returned as a whole: a longer one may lose its newest.    *)
(***************************************************************************)
EXTENDS Integers, Sequences, FiniteSets

CONSTANTS Agents, Whole, NULL

VARIABLES clock, qos_enabled, log, out

vars == <<clock, qos_enabled, log, out>>

\* A log may hold events from the start.
Init ==
    /\ clock \in Nat
    /\ qos_enabled = [a \in Agents |-> TRUE]
    /\ log \in [Agents -> SUBSET (1..clock)]
    /\ out = [a \in Agents |-> NULL]

\* Sequence s holds each event of S once, in the order of time.
Lists(s, S) ==
    /\ s \in Seq(Nat)
    /\ \A i, j \in 1..Len(s) : i < j => s[i] < s[j]
    /\ {s[i] : i \in 1..Len(s)} = S

Register(a) ==
    /\ qos_enabled[a]
    /\ clock' = clock + 1
    /\ log' = [log EXCEPT ![a] = @ \cup {clock + 1}]
    /\ UNCHANGED <<qos_enabled, out>>

Start(a) ==
    /\ qos_enabled' = [qos_enabled EXCEPT ![a] = TRUE]
    /\ UNCHANGED <<clock, log, out>>

\* Dump, and perhaps stop.
Dump(a) ==
    /\ qos_enabled[a]
    /\ \/ Lists(out'[a], log[a])
       \/ /\ Cardinality(log[a]) > Whole
          /\ \E t \in log[a] \cup {0} : Lists(out'[a], {e \in log[a] : e <= t})
    /\ out' = [out EXCEPT ![a] = out'[a]]
    /\ log' = [log EXCEPT ![a] = {}]
    /\ \E on \in BOOLEAN : qos_enabled' = [qos_enabled EXCEPT ![a] = on]
    /\ UNCHANGED clock

Refuse(a) ==
    /\ ~qos_enabled[a]
    /\ out' = [out EXCEPT ![a] = NULL]
    /\ UNCHANGED <<clock, qos_enabled, log>>

Next == \E a \in Agents : Register(a) \/ Start(a) \/ Dump(a) \/ Refuse(a)

Spec == Init /\ [][Next]_vars

=============================================================================
