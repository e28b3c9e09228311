------------------------------- MODULE SdbUsb -------------------------------
(***************************************************************************)
(* The bridge to the USB device (SDB/sdb_usb.c): module threads push       *)
(* requests on sdb_usb_queue_send, a thread writes them to the device and  *)
(* remembers them in sdb_usb_queue_receive, another one reads the answers. *)
(* The queues are the linked lists of SDB/sdb_queue.c, pointer by pointer. *)
(*                                                                         *)
(* A module thread is "idle" or in the loop of a push ("swap").  The       *)
(* writing thread is at "pop", in pthread_cond_wait ("wait"), has a packet *)
(* to convert ("convert"), is in a push ("swap") or about to write         *)
(* ("write").  sdb_usb_init and the push of process_pkt_payload are        *)
(* commented out in the daemon: nothing starts the bridge yet.             *)
(***************************************************************************)
EXTENDS SdbQueue, Integers, FiniteSets, SequencesExt

CONSTANTS
    Modules,    \* module threads
    Requests,   \* packets they push, each of them once
    WRITER,     \* the thread that writes
    NULL

\* A request has an id, the module that asks, the priority of its group, and is
\* one that mcs_to_usb can convert or not.
ASSUME UsbAssumption ==
    /\ \A r \in Requests : r.id \in Nat /\ r.priority \in Nat /\ r.valid \in BOOLEAN
                           /\ r.id_process \in Modules
    /\ WRITER \notin Modules
    /\ IsFiniteSet(Requests)
    /\ NULL \notin Nat \cup Modules \cup {WRITER} \cup Requests

Threads == Modules \cup {WRITER}
Queues == {"send", "receive"}

\* Every request is at most once in each queue: room for two elements each.
Elems == 1..(2 * Cardinality(Requests))

VARIABLES
    pc,
    first, last,        \* queue_first and queue_last
    prev, next, pkt,    \* the elements; pkt is NULL in free memory
    lock,               \* queue_lock
    elem,               \* queue_elem of the thread in a push
    hand,               \* the packet the writing thread holds
    down, up,           \* ids on their way to the device and back
    pushed,             \* requests pushed so far
    crashed,            \* where the daemon has crashed; NULL before
    abs                 \* what each queue should hold

list == <<first, last, prev, next, pkt>>
vars == <<pc, list, lock, elem, hand, down, up, pushed, crashed, abs>>

Init ==
    /\ pc = [t \in Threads |-> IF t = WRITER THEN "pop" ELSE "idle"]
    /\ first = [q \in Queues |-> NULL] /\ last = [q \in Queues |-> NULL]
    /\ prev = [e \in Elems |-> NULL] /\ next = [e \in Elems |-> NULL]
    /\ pkt = [e \in Elems |-> NULL]
    /\ lock = [q \in Queues |-> NULL]
    /\ elem = [t \in Threads |-> NULL]
    /\ hand = NULL /\ down = <<>> /\ up = <<>>
    /\ pushed = {} /\ crashed = NULL
    /\ abs = [q \in Queues |-> <<>>]

\* malloc
Fresh == CHOOSE e \in Elems : pkt[e] = NULL

-----------------------------------------------------------------------------
(* sdb_queue_push, by thread t, of packet r on queue q.                    *)

\* The element is appended under the lock.
push_append(t, q, r) ==
    LET e == Fresh IN
    /\ lock[q] = NULL
    /\ \E x \in Elems : pkt[x] = NULL     \* bound: there is memory
    /\ lock' = [lock EXCEPT ![q] = t]
    /\ pkt' = [pkt EXCEPT ![e] = r]
    /\ next' = IF first[q] = NULL THEN [next EXCEPT ![e] = NULL]
               ELSE [next EXCEPT ![e] = NULL, ![last[q]] = e]
    /\ prev' = [prev EXCEPT ![e] = IF first[q] = NULL THEN NULL ELSE last[q]]
    /\ first' = IF first[q] = NULL THEN [first EXCEPT ![q] = e] ELSE first
    /\ last' = [last EXCEPT ![q] = e]
    /\ elem' = [elem EXCEPT ![t] = e]
    /\ pc' = [pc EXCEPT ![t] = "swap"]
    /\ abs' = [abs EXCEPT ![q] = Push(@, r)]

\* The condition of the loop.
Overtakes(e) == prev[e] # NULL /\ pkt[e].priority > pkt[prev[e]].priority

\* Mutant: the successor keeps pointing back at the element that moved.
push_swap_back(t, q) ==
    LET e == elem[t]
        tmp == prev[e]
        before == prev[tmp]
        after == next[e]
    IN
    /\ pc[t] = "swap" /\ lock[q] = t /\ Overtakes(e)
    /\ first' = IF before = NULL THEN [first EXCEPT ![q] = e] ELSE first
    /\ last' = IF after = NULL THEN [last EXCEPT ![q] = tmp] ELSE last
    /\ next' = [x \in Elems |-> CASE x = e -> tmp [] x = tmp -> after [] x = before -> e
                                  [] OTHER -> next[x]]
    /\ prev' = [prev EXCEPT ![e] = before, ![tmp] = e]
    /\ UNCHANGED <<pc, pkt, lock, elem, hand, down, up, pushed, crashed, abs>>

\* One turn: the element changes places with the one before it.
push_swap(t, q) ==
    LET e == elem[t]
        tmp == prev[e]
        before == prev[tmp]
        after == next[e]
    IN
    /\ pc[t] = "swap" /\ lock[q] = t /\ Overtakes(e)
    /\ first' = IF before = NULL THEN [first EXCEPT ![q] = e] ELSE first
    /\ last' = IF after = NULL THEN [last EXCEPT ![q] = tmp] ELSE last
    /\ next' = [x \in Elems |-> CASE x = e -> tmp [] x = tmp -> after [] x = before -> e
                                  [] OTHER -> next[x]]
    /\ prev' = [x \in Elems |-> CASE x = e -> before [] x = tmp -> e [] x = after -> tmp
                                  [] OTHER -> prev[x]]
    /\ UNCHANGED <<pc, pkt, lock, elem, hand, down, up, pushed, crashed, abs>>

\* The end of the loop; who waits on the queue is woken.
push_end(t, q) ==
    /\ pc[t] = "swap" /\ lock[q] = t /\ ~Overtakes(elem[t])
    /\ lock' = [lock EXCEPT ![q] = NULL]
    /\ elem' = [elem EXCEPT ![t] = NULL]
    /\ pc' = [pc EXCEPT ![t] = IF t = WRITER THEN "write" ELSE "idle",
                        ![WRITER] = IF q = "send" /\ @ = "wait" THEN "woken"
                                    ELSE IF t = WRITER THEN "write" ELSE @]
    /\ UNCHANGED <<list, hand, down, up, pushed, crashed, abs>>

sdb_queue_delete(q, e) ==
    /\ next' = IF prev[e] # NULL THEN [next EXCEPT ![prev[e]] = next[e]] ELSE next
    /\ first' = IF prev[e] = NULL THEN [first EXCEPT ![q] = next[e]] ELSE first
    /\ last' = IF next[e] = NULL THEN [last EXCEPT ![q] = prev[e]] ELSE last
    /\ prev' = IF next[e] # NULL THEN [prev EXCEPT ![next[e]] = prev[e]] ELSE prev
    /\ pkt' = [pkt EXCEPT ![e] = NULL]

-----------------------------------------------------------------------------
(* The threads.                                                            *)

\* A module pushes a payload command with the priority of its group (the call
\* is commented out at the end of process_pkt_payload).
process_pkt_payload(r) ==
    /\ pc[r.id_process] = "idle" /\ r \notin pushed
    /\ push_append(r.id_process, "send", r)
    /\ pushed' = pushed \cup {r}
    /\ UNCHANGED <<hand, down, up, crashed>>

\* sdb_queue_pop_block: the first element, or pthread_cond_wait.
sdb_queue_pop_block ==
    LET e == first["send"] IN
    /\ pc[WRITER] = "pop" /\ lock["send"] = NULL
    /\ IF e = NULL
       THEN /\ pc' = [pc EXCEPT ![WRITER] = "wait"]
            /\ UNCHANGED <<list, hand, abs>>
       ELSE /\ hand' = pkt[e]
            /\ sdb_queue_delete("send", e)
            /\ pc' = [pc EXCEPT ![WRITER] = "convert"]
            /\ abs' = [abs EXCEPT !["send"] = Tail(@)]
    /\ UNCHANGED <<lock, elem, down, up, pushed, crashed>>

\* Woken, it uses the element it found before it waited: a null pointer.
pop_block_woken ==
    /\ pc[WRITER] = "woken" /\ lock["send"] = NULL
    /\ crashed' = "sdb_queue_pop_block"
    /\ UNCHANGED <<pc, list, lock, elem, hand, down, up, pushed, abs>>

\* mcs_to_usb, and the push that remembers the request.
mcs_to_usb ==
    /\ pc[WRITER] = "convert" /\ hand.valid
    /\ push_append(WRITER, "receive", hand)
    /\ UNCHANGED <<hand, down, up, pushed, crashed>>

\* A packet that cannot be converted is answered with sdb_module_write_mcs_packet,
\* which reads the SDBModule of the calling thread: this thread has none.
mcs_to_usb_error ==
    /\ pc[WRITER] = "convert" /\ ~hand.valid
    /\ crashed' = "sdb_module_write_mcs_packet"
    /\ UNCHANGED <<pc, list, lock, elem, hand, down, up, pushed, abs>>

usb_write ==
    /\ pc[WRITER] = "write"
    /\ down' = Append(down, hand.id)
    /\ hand' = NULL
    /\ pc' = [pc EXCEPT ![WRITER] = "pop"]
    /\ UNCHANGED <<list, lock, elem, up, pushed, crashed, abs>>

\* Mutant: write(fd_usb, ...) comes before the push, which is the last thing that is
\* done with the packet.
sdb_usb_thread_write_swapped ==
    \/ /\ pc[WRITER] = "convert" /\ hand.valid
       /\ down' = Append(down, hand.id)
       /\ pc' = [pc EXCEPT ![WRITER] = "written"]
       /\ UNCHANGED <<list, lock, elem, hand, up, pushed, crashed, abs>>
    \/ /\ pc[WRITER] = "written"
       /\ push_append(WRITER, "receive", hand)
       /\ UNCHANGED <<hand, down, up, pushed, crashed>>
    \/ /\ pc[WRITER] = "write"
       /\ hand' = NULL
       /\ pc' = [pc EXCEPT ![WRITER] = "pop"]
       /\ UNCHANGED <<list, lock, elem, down, up, pushed, crashed, abs>>
    \/ mcs_to_usb_error

\* What is done with a packet that was popped: it is remembered, then written.
sdb_usb_thread_write == mcs_to_usb \/ mcs_to_usb_error \/ usb_write

\* The device (external) answers a request with its id, or with bytes that are
\* no packet.
device ==
    /\ down # <<>>
    /\ \E answer \in {Head(down), NULL} : up' = Append(up, answer)
    /\ down' = Tail(down)
    /\ UNCHANGED <<pc, list, lock, elem, hand, pushed, crashed, abs>>

\* The elements of a list from its first on, and from its last back.
Walk(start, step) ==
    LET w[n \in 0..Cardinality(Elems)] ==
            LET es == IF n = 0 THEN <<>> ELSE w[n - 1]
                e == IF n = 1 THEN start ELSE step[Last(es)]
            IN IF n = 0 \/ Len(es) < n - 1 \/ e = NULL THEN es ELSE Append(es, e)
    IN w[Cardinality(Elems)]
List(q) == Walk(first[q], next)
Packets(es) == [i \in 1..Len(es) |-> pkt[es[i]]]

\* An answer is read.  usb_to_mcs drops what is no packet; an answer nobody
\* expects is dropped; any other meets sdb_module_write_mcs_packet, which this
\* thread cannot call either.
usb_read ==
    LET id == Head(up)
        es == List("receive")
    IN
    /\ up # <<>> /\ lock["receive"] = NULL
    /\ up' = Tail(up)
    /\ IF id = NULL \/ ~Expects(Packets(es), id)
       THEN UNCHANGED <<list, crashed, abs>>
       ELSE /\ sdb_queue_delete("receive", es[Match(Packets(es), id)])
            /\ abs' = [abs EXCEPT !["receive"] = Delete(@, Match(@, id))]
            /\ crashed' = "sdb_module_write_mcs_packet"
    /\ UNCHANGED <<pc, lock, elem, hand, down, pushed>>

Next ==
    /\ crashed = NULL
    /\ \/ \E r \in Requests : process_pkt_payload(r)
       \/ \E t \in Threads, q \in Queues : push_swap(t, q) \/ push_end(t, q)
       \/ sdb_queue_pop_block \/ pop_block_woken
       \/ sdb_usb_thread_write
       \/ device \/ usb_read

Spec == Init /\ [][Next]_vars

-----------------------------------------------------------------------------
(* Properties.                                                             *)

\* The list of a queue nobody is in the middle of changing, read from either
\* end, is the sequence the operations of SdbQueue give: sorted by priority,
\* first come first served among equals, whatever the loop of swaps and the
\* deletions in the middle have done to the pointers.
ListIsQueue ==
    \A q \in Queues : lock[q] = NULL =>
        /\ Packets(List(q)) = abs[q]
        /\ Walk(last[q], prev) = Reverse(List(q))

\* An answer the device may give always finds its request: the request is in the
\* queue before the device can see it.
AnswerFindsRequest ==
    \A id \in Range(down) \cup (Range(up) \ {NULL}) : Expects(abs["receive"], id)

\* "Block until it is possible to pop from the queue" (sdb_queue.c:140): the
\* thread that pops gets an element.
PopBlocks == crashed # "sdb_queue_pop_block"

=============================================================================
