------------------------------- MODULE SdbQos -------------------------------
(***************************************************************************)
(* The quality of service events of the daemon (SDB/sdb_qos.c): a table of *)
(* lists which the module threads append to and take their own events out  *)
(* of.  Modules with the same hash share a list and its lock.              *)
(*                                                                         *)
(* An event is the number of its registration; NIL is the null pointer.    *)
(* The thread of module a is "idle", or in the loop of a "dump" with the   *)
(* lock of its list held.                                                  *)
(***************************************************************************)
EXTENDS Integers, Sequences

CONSTANTS
    Agents,     \* modules, by their id
    MaxEvents,  \* events registered (bound)
    Lengths,    \* lengths of the lines events are printed as
    SizeRange,  \* values of an unsigned short: 65536
    NULL

SDB_QOS_TABLE_MAX == 10
Buckets == 0..(SDB_QOS_TABLE_MAX - 1)
Ids == 1..MaxEvents
NIL == 0

\* The longest line is "scrap|id|type|cmd|dest|time\n": an id of ten digits, a
\* type and a command of one (the table has eight), a destination of
\* SDB_MODULE_NAME_SIZE, a time in microseconds of sixteen, five separators.
SDB_MODULE_NAME_SIZE == 10
LINE_MAX == 5 + 10 + 1 + 1 + SDB_MODULE_NAME_SIZE + 16 + 6

ASSUME QosAssumption ==
    /\ Agents \subseteq Nat
    /\ MaxEvents \in Nat
    /\ Lengths \subseteq 1..LINE_MAX
    /\ SizeRange \in Nat \ {0}
    /\ NULL \notin Nat
    /\ NULL \notin Seq(Nat)

VARIABLES
    pc,             \* where each thread is
    qos_enabled,
    count,          \* events registered so far
    se_agent,       \* the module of each event in memory; NULL elsewhere
    se_next,        \* the next event in the list
    se_len,         \* the length of its line
    ei_first, ei_last, ei_lock,
    event, old_event,               \* variables of sdb_qos_dump_module
    output, output_pos, output_size,
    ends,           \* where each line of the output ends
    stopping,       \* the dump belongs to SDB_QOS_STOP
    out             \* what the last dump of each module returned

listVars == <<count, se_agent, se_next, se_len, ei_first, ei_last>>
dumpVars == <<event, old_event, output, ends, output_pos, output_size, stopping>>
vars == <<pc, qos_enabled, listVars, ei_lock, dumpVars, out>>

Init ==
    /\ pc = [a \in Agents |-> "idle"]
    /\ qos_enabled = [a \in Agents |-> TRUE]
    /\ count = 0
    /\ se_agent = [e \in Ids |-> NULL]
    /\ se_next = [e \in Ids |-> NIL]
    /\ se_len = [e \in Ids |-> 0]
    /\ ei_first = [b \in Buckets |-> NIL]
    /\ ei_last = [b \in Buckets |-> NIL]
    /\ ei_lock = [b \in Buckets |-> NULL]
    /\ event = [a \in Agents |-> NIL]
    /\ old_event = [a \in Agents |-> NIL]
    /\ output = [a \in Agents |-> <<>>]
    /\ ends = [a \in Agents |-> <<>>]
    /\ output_pos = [a \in Agents |-> 0]
    /\ output_size = [a \in Agents |-> 0]
    /\ stopping = [a \in Agents |-> FALSE]
    /\ out = [a \in Agents |-> NULL]

table_hash(a) == a % SDB_QOS_TABLE_MAX

\* Mutant: does not wait for the lock of the list.
register_event_nolock(a, n) ==
    LET b == table_hash(a)
        e == count + 1
    IN
    /\ pc[a] = "idle" /\ qos_enabled[a] /\ count < MaxEvents
    /\ count' = e
    /\ se_agent' = [se_agent EXCEPT ![e] = a]
    /\ se_len' = [se_len EXCEPT ![e] = n]
    /\ se_next' = IF ei_last[b] = NIL THEN se_next ELSE [se_next EXCEPT ![ei_last[b]] = e]
    /\ ei_first' = IF ei_last[b] = NIL THEN [ei_first EXCEPT ![b] = e] ELSE ei_first
    /\ ei_last' = [ei_last EXCEPT ![b] = e]
    /\ UNCHANGED <<pc, qos_enabled, ei_lock, dumpVars, out>>

\* An event of the module is appended to its list under the lock.  Until then
\* its memory is the thread's own, so the call is one step.
register_event(a, n) ==
    LET b == table_hash(a)
        e == count + 1
    IN
    /\ pc[a] = "idle" /\ qos_enabled[a] /\ count < MaxEvents
    /\ ei_lock[b] = NULL
    /\ count' = e
    /\ se_agent' = [se_agent EXCEPT ![e] = a]
    /\ se_len' = [se_len EXCEPT ![e] = n]
    /\ se_next' = IF ei_last[b] = NIL THEN se_next ELSE [se_next EXCEPT ![ei_last[b]] = e]
    /\ ei_first' = IF ei_last[b] = NIL THEN [ei_first EXCEPT ![b] = e] ELSE ei_first
    /\ ei_last' = [ei_last EXCEPT ![b] = e]
    /\ UNCHANGED <<pc, qos_enabled, ei_lock, dumpVars, out>>

sdb_qos_start(a) ==
    /\ pc[a] = "idle"
    /\ qos_enabled' = [qos_enabled EXCEPT ![a] = TRUE]
    /\ UNCHANGED <<pc, listVars, ei_lock, dumpVars, out>>

\* The dump of a module that has stopped is an error.
dump_refused(a) ==
    /\ pc[a] = "idle" /\ ~qos_enabled[a]
    /\ out' = [out EXCEPT ![a] = NULL]
    /\ UNCHANGED <<pc, qos_enabled, listVars, ei_lock, dumpVars>>

\* sdb_qos_dump_module up to the loop.
sdb_qos_dump_module(a, stop) ==
    LET b == table_hash(a) IN
    /\ pc[a] = "idle" /\ qos_enabled[a]
    /\ ei_lock[b] = NULL
    /\ ei_lock' = [ei_lock EXCEPT ![b] = a]
    /\ pc' = [pc EXCEPT ![a] = "dump"]
    /\ event' = [event EXCEPT ![a] = ei_first[b]]
    /\ old_event' = [old_event EXCEPT ![a] = NIL]
    /\ output' = [output EXCEPT ![a] = <<>>]
    /\ ends' = [ends EXCEPT ![a] = <<>>]
    /\ output_pos' = [output_pos EXCEPT ![a] = 0]
    /\ output_size' = [output_size EXCEPT ![a] = 500]
    /\ stopping' = [stopping EXCEPT ![a] = stop]
    /\ UNCHANGED <<qos_enabled, listVars, out>>

\* Mutant: the buffer grows once it is full.
Grow_late(pos, size) == IF pos > size THEN (3 * size) \div 2 ELSE size

\* The buffer grows by half when less than 50 bytes are left.
Grow(pos, size) == IF pos > size - 50 THEN (3 * size) \div 2 ELSE size

\* Mutant: the list loses what follows an event that is taken out of its middle.
dump_own_cut(a) ==
    LET b == table_hash(a)
        cur == event[a]
        pos == output_pos[a] + se_len[cur]
    IN
    /\ pc[a] = "dump" /\ cur # NIL /\ se_agent[cur] = a
    /\ output' = [output EXCEPT ![a] = Append(@, cur)]
    /\ ends' = [ends EXCEPT ![a] = Append(@, pos)]
    /\ output_pos' = [output_pos EXCEPT ![a] = pos]
    /\ output_size' = [output_size EXCEPT ![a] = Grow(pos, @)]
    /\ event' = [event EXCEPT ![a] = se_next[cur]]
    /\ ei_first' = IF old_event[a] = NIL THEN [ei_first EXCEPT ![b] = se_next[cur]] ELSE ei_first
    /\ se_next' = [se_next EXCEPT ![cur] = NIL]
    /\ se_agent' = [se_agent EXCEPT ![cur] = NULL]
    /\ UNCHANGED <<pc, qos_enabled, count, se_len, ei_last, ei_lock, old_event, stopping, out>>

\* An event of the module is printed, taken out of the list and freed.
dump_own(a) ==
    LET b == table_hash(a)
        cur == event[a]
        old == old_event[a]
        pos == output_pos[a] + se_len[cur]
    IN
    /\ pc[a] = "dump" /\ cur # NIL /\ se_agent[cur] = a
    /\ output' = [output EXCEPT ![a] = Append(@, cur)]
    /\ ends' = [ends EXCEPT ![a] = Append(@, pos)]
    /\ output_pos' = [output_pos EXCEPT ![a] = pos]
    /\ output_size' = [output_size EXCEPT ![a] = Grow(pos, @)]
    /\ event' = [event EXCEPT ![a] = se_next[cur]]
    /\ IF old = NIL
       THEN /\ ei_first' = [ei_first EXCEPT ![b] = se_next[cur]]
            /\ se_next' = [se_next EXCEPT ![cur] = NIL]
       ELSE /\ se_next' = [se_next EXCEPT ![old] = se_next[cur], ![cur] = NIL]
            /\ UNCHANGED ei_first
    /\ se_agent' = [se_agent EXCEPT ![cur] = NULL]
    /\ UNCHANGED <<pc, qos_enabled, count, se_len, ei_last, ei_lock, old_event, stopping, out>>

\* Mutant: an event of another module is looked at again and again.
dump_other_stays(a) ==
    LET cur == event[a] IN
    /\ pc[a] = "dump" /\ cur # NIL /\ se_agent[cur] # a
    /\ old_event' = [old_event EXCEPT ![a] = cur]
    /\ UNCHANGED <<pc, qos_enabled, listVars, ei_lock, event, output, ends, output_pos, output_size,
                   stopping, out>>

\* An event of another module is left where it is.
dump_other(a) ==
    LET cur == event[a] IN
    /\ pc[a] = "dump" /\ cur # NIL /\ se_agent[cur] # a
    /\ old_event' = [old_event EXCEPT ![a] = cur]
    /\ event' = [event EXCEPT ![a] = se_next[cur]]
    /\ UNCHANGED <<pc, qos_enabled, listVars, ei_lock, output, ends, output_pos, output_size,
                   stopping, out>>

\* The packet of the answer keeps the size of the output and its final zero in
\* an unsigned short: of a long output it holds only the front, k whole lines.
mcs_ok_packet_data(a, k) ==
    \A i \in 1..Len(output[a]) : i <= k <=> ends[a][i] <= (output_pos[a] + 1) % SizeRange

\* Mutant: the end of the list is not updated.
dump_end_last(a) ==
    LET b == table_hash(a) IN
    /\ pc[a] = "dump" /\ event[a] = NIL
    /\ ei_lock' = [ei_lock EXCEPT ![b] = NULL]
    /\ pc' = [pc EXCEPT ![a] = "idle"]
    /\ \E k \in 0..Len(output[a]) :
        /\ mcs_ok_packet_data(a, k)
        /\ out' = [out EXCEPT ![a] = SubSeq(output[a], 1, k)]
    /\ output' = [output EXCEPT ![a] = <<>>]
    /\ ends' = [ends EXCEPT ![a] = <<>>]
    /\ output_pos' = [output_pos EXCEPT ![a] = 0]
    /\ qos_enabled' = [qos_enabled EXCEPT ![a] = ~stopping[a]]
    /\ UNCHANGED <<listVars, event, old_event, output_size, stopping>>

\* The end of the list is found, the lock released and the answer made of the
\* buffer, which is freed; events that do not get into the answer are gone.
\* SDB_QOS_STOP then switches the events off.
dump_end(a) ==
    LET b == table_hash(a) IN
    /\ pc[a] = "dump" /\ event[a] = NIL
    /\ ei_last' = [ei_last EXCEPT ![b] = old_event[a]]
    /\ ei_lock' = [ei_lock EXCEPT ![b] = NULL]
    /\ pc' = [pc EXCEPT ![a] = "idle"]
    /\ \E k \in 0..Len(output[a]) :
        /\ mcs_ok_packet_data(a, k)
        /\ out' = [out EXCEPT ![a] = SubSeq(output[a], 1, k)]
    /\ output' = [output EXCEPT ![a] = <<>>]
    /\ ends' = [ends EXCEPT ![a] = <<>>]
    /\ output_pos' = [output_pos EXCEPT ![a] = 0]
    /\ output_size' = [output_size EXCEPT ![a] = 0]
    /\ old_event' = [old_event EXCEPT ![a] = NIL]
    /\ qos_enabled' = [qos_enabled EXCEPT ![a] = ~stopping[a]]
    /\ UNCHANGED <<count, se_agent, se_next, se_len, ei_first, event, stopping>>

Dumping(a) == dump_own(a) \/ dump_other(a) \/ dump_end(a)

Next ==
    \E a \in Agents :
        \/ \E n \in Lengths : register_event(a, n)
        \/ sdb_qos_start(a)
        \/ dump_refused(a)
        \/ \E stop \in BOOLEAN : sdb_qos_dump_module(a, stop)
        \/ Dumping(a)

Spec == Init /\ [][Next]_vars

\* A module thread that is in the loop of a dump goes on.
Fairness == \A a \in Agents : WF_vars(Dumping(a))

FairSpec == Spec /\ Fairness

-----------------------------------------------------------------------------
(* Properties.                                                             *)

TypeOK ==
    /\ pc \in [Agents -> {"idle", "dump"}]
    /\ qos_enabled \in [Agents -> BOOLEAN]
    /\ count \in 0..MaxEvents
    /\ se_agent \in [Ids -> Agents \cup {NULL}]
    /\ se_next \in [Ids -> Ids \cup {NIL}]
    /\ se_len \in [Ids -> 0..LINE_MAX]
    /\ ei_first \in [Buckets -> Ids \cup {NIL}]
    /\ ei_last \in [Buckets -> Ids \cup {NIL}]
    /\ ei_lock \in [Buckets -> Agents \cup {NULL}]
    /\ event \in [Agents -> Ids \cup {NIL}]
    /\ old_event \in [Agents -> Ids \cup {NIL}]
    /\ output \in [Agents -> Seq(Ids)]
    /\ output_pos \in [Agents -> Nat]
    /\ output_size \in [Agents -> Nat]
    /\ stopping \in [Agents -> BOOLEAN]
    /\ out \in [Agents -> Seq(Ids) \cup {NULL}]

\* The events in memory that belong to list b.
Members(b) == {e \in Ids : se_agent[e] # NULL /\ table_hash(se_agent[e]) = b}

\* f is the first member after place x, or NIL if there is none; the last
\* member before place x.
After(S, x, f) ==
    \/ f = NIL /\ \A g \in S : g <= x
    \/ f \in S /\ f > x /\ \A g \in S : g > x => f <= g
Before(S, x, f) ==
    \/ f = NIL /\ \A g \in S : g >= x
    \/ f \in S /\ f < x /\ \A g \in S : g < x => g <= f

\* Each list links exactly the events in memory that hash to it, in the order
\* in which they were registered: none is lost, none is freed memory, whatever
\* dumps of the modules that share the list took out of its front, middle or
\* end.  ei_last, through which the next event will be linked, is its end
\* whenever nobody has the lock.
ListIntact ==
    \A b \in Buckets :
        /\ After(Members(b), 0, ei_first[b])
        /\ \A e \in Members(b) : After(Members(b), e, se_next[e])
        /\ ei_lock[b] = NULL => Before(Members(b), MaxEvents + 1, ei_last[b])

\* sprintf never writes past the end of the buffer of a dump, the final zero
\* included, however many events there are.
OutputFits ==
    \A a \in Agents :
        pc[a] = "dump" /\ event[a] # NIL /\ se_agent[event[a]] = a
            => output_pos[a] + se_len[event[a]] + 1 <= output_size[a]

\* Where a dump is: past all events of its module that are left, right after
\* old_event, with those it has taken out printed in order.
Place(a) == IF event[a] = NIL THEN MaxEvents + 1 ELSE event[a]
DumpInv ==
    \A a \in Agents :
        /\ event[a] # NIL => pc[a] = "dump"
        /\ pc[a] = "idle" => output[a] = <<>>
        /\ \A b \in Buckets : ei_lock[b] = a => pc[a] = "dump" /\ b = table_hash(a)
        /\ pc[a] = "dump" =>
            /\ qos_enabled[a]
            /\ ei_lock[table_hash(a)] = a
            /\ event[a] \in Members(table_hash(a)) \cup {NIL}
            /\ Before(Members(table_hash(a)), Place(a), old_event[a])
            /\ \A e \in Ids : se_agent[e] = a => e >= Place(a)
            /\ \A i \in 1..Len(output[a]) : output[a][i] < Place(a)
            /\ \A i, j \in 1..Len(output[a]) : i < j => output[a][i] < output[a][j]
            /\ output_pos[a] <= output_size[a] - 50
            /\ output_size[a] >= 500

\* Events are numbered as they are registered.
CountInv == \A e \in Ids : e > count => se_agent[e] = NULL /\ se_next[e] = NIL

\* The lines end within the output, and none is longer than LINE_MAX.
EndsInv ==
    /\ ends \in [Agents -> Seq(Nat)]
    /\ \A a \in Agents :
        /\ Len(ends[a]) = Len(output[a])
        /\ \A i \in 1..Len(ends[a]) : ends[a][i] <= output_pos[a]
        /\ output_pos[a] <= LINE_MAX * Len(output[a])

TableInv == TypeOK /\ ListIntact /\ DumpInv /\ CountInv
IInv == TableInv /\ EndsInv

\* So many lines, of any length, and the final zero are less than SizeRange
\* bytes: 1337 with the numbers of the code.
Whole == (SizeRange - 2) \div LINE_MAX

\* The table as logs of the modules: an event leaves the log of its module when
\* the dump that printed it is over.
LogOf(a) ==
    {e \in Ids : se_agent[e] = a} \cup {output[a][i] : i \in 1..Len(output[a])}
Log == INSTANCE SdbQosLog WITH clock <- count, log <- [a \in Agents |-> LogOf(a)]

\* A dump returns every event its module has registered since the last one, once
\* and in order, and leaves the events of the modules it shares the list with.
\* Of more than Whole events it may return the oldest only: the size of the
\* answer is cut to an unsigned short, and the rest is lost.
LogSpec == Log!Spec

\* A dump comes to its end: the list has no cycle.
DumpEnds == \A a \in Agents : pc[a] = "dump" ~> pc[a] = "idle"

=============================================================================
