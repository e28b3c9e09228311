------------------------------ MODULE SdbQueue ------------------------------
(***************************************************************************)
(* The packet queue of the System Data Bus (SDB/sdb_queue.c) as operations *)
(* on a sequence, first element first.  An element is an SDBPacket, of     *)
(* which the queue reads two fields: the priority, and the id of the MCS   *)
(* packet it holds.                                                        *)
(***************************************************************************)
EXTENDS Naturals, Sequences

\* The priority of every packet made by sdb_packet.
SDB_PACKET_DEFAULT_PRIO == 0

\* A packet waiting for its answer, and the module that asked.
sdb_packet(id, from) ==
    [id |-> id, id_process |-> from, priority |-> SDB_PACKET_DEFAULT_PRIO]

\* How many elements a pushed element stays behind: it is swapped towards the
\* front while its priority is greater than its predecessor's.
Ahead(q, e) ==
    CHOOSE k \in 0..Len(q) :
        /\ k # 0 => e.priority <= q[k].priority
        /\ \A j \in (k + 1)..Len(q) : e.priority > q[j].priority

\* sdb_queue_push_nolock.
Push(q, e) ==
    LET k == Ahead(q, e) IN
    [i \in 1..(Len(q) + 1) |->
        IF i <= k THEN q[i] ELSE IF i = k + 1 THEN e ELSE q[i - 1]]

\* Mutant: an answer closes whatever packet comes first.
Closes_any(e, id) == TRUE

\* The answer with this id closes the packet e: the test of sdb_queue_get_nolock.
Closes(e, id) == e.id = id

\* The queue holds the packet that an answer with this id closes.
Expects(q, id) == \E i \in 1..Len(q) : Closes(q[i], id)

\* Mutant: the search does not advance.
Match_first(q, id) == 1

\* The place sdb_queue_get_nolock stops at: the first element with the id.
Match(q, id) ==
    CHOOSE i \in 1..Len(q) :
        /\ Closes(q[i], id)
        /\ \A j \in 1..(i - 1) : ~Closes(q[j], id)

\* Mutant: the element stays in the list.
Delete_keep(q, i) == q

\* sdb_queue_delete of the element at place i.
Delete(q, i) ==
    [j \in 1..(Len(q) - 1) |-> IF j < i THEN q[j] ELSE q[j + 1]]

=============================================================================
