------------------------------ MODULE SdbClient ------------------------------
(***************************************************************************)
(* The client library (Libraries/SDB/sdb.c) inside one program: the        *)
(* threads of the program that call it, the thread that reads the socket,  *)
(* the threads that run callbacks, and the bus at the other end.           *)
(*                                                                         *)
(* th[t].pc is where a thread of the program is:                           *)
(*   idle    not in the library; call, ret and out tell of its last call   *)
(*   shake   in sdb_connect, about to send the handshake                   *)
(*   send    its element is in the pending list, about to lock and write   *)
(*   sent    has written, holds pp_lock, about to wait                     *)
(*   wait    in pthread_cond_wait on pp_cond                               *)
(*   relock  woken up, about to take pp_lock again                         *)
(*   delete  has its packet, about to delete its element                   *)
(*   write   in sdb_send_async, about to write                             *)
(*                                                                         *)
(* The program is assumed to connect and disconnect from one thread, and   *)
(* to use a pending packet only in the thread that got it.                 *)
(***************************************************************************)
EXTENDS Integers, Sequences

CONSTANTS
    NULL,
    Threads,    \* threads of the program that call the library
    Main,       \* the one that connects and disconnects
    Cmds,       \* commands that callbacks can be registered for
    Callbacks,
    ListMin,    \* SDB_LIST_MIN: 5 in the code
    Calls,      \* the functions of the library the program uses
    MaxCalls,   \* calls each thread makes (bound)
    MaxElem,    \* pending elements ever made (bound)
    MaxBus,     \* requests and repeated answers of the bus (bound)
    Faults      \* "spurious" wake-ups, "collide": ids drawn again, "twice":
                \* repeated answers, "invalid" packets, "connect": no daemon,
                \* "gone": the bus goes away, "cut": a packet comes too late

Functions ==
    {"connect", "disconnect", "register", "unregister", "sync", "async", "wait", "check", "free"}

\* A packet.  by says what it is about: the pending element whose packet it is
\* or answers, or -n for the n-th packet the bus sends of its own accord.
Packet == [type : {"req", "ans"}, id : Int, cmd : Cmds \cup {"handshake", "test", "ok", "err"},
           by : Int]

ASSUME ClientAssumption ==
    /\ Main \in Threads
    /\ NULL \notin Callbacks /\ NULL \notin Packet /\ NULL \notin Functions
    /\ ListMin \in Nat \ {0, 1}
    /\ Calls \subseteq Functions
    /\ MaxCalls \in [Threads -> Nat] /\ MaxElem \in Nat /\ MaxBus \in Nat

Req(by, id, cmd) == [type |-> "req", id |-> id, cmd |-> cmd, by |-> by]
Ans(p, result) == [type |-> "ans", id |-> p.id, cmd |-> result, by |-> p.by]

VARIABLES
    up,                 \* the process runs
    th,                 \* the threads: see above, and the element each works on,
                        \* its pending packet, the calls it has made
    socket_fd,          \* "none" is -1; "closed" is a number that was closed
    reader,             \* where sdb_thread_read is
    pkt, pkt_pending,   \* the packet and the element it has in hand
    pp,                 \* the pending elements made so far
    pending,            \* those in pending_list, front first
    pending_list_lock,  \* the reader holds it between two of its steps
    callback_list, callback_list_size,
    callback_list_lock, \* left locked by a second registration
    registered,         \* what the program has registered: history
    running,            \* callback threads: packet and callback
    toBus, toApp,       \* all written to the bus; what is to be read from it
    served,             \* requests in toBus the bus has answered
    gone, busSent       \* the bus has closed; packets of its own

readerVars == <<reader, pkt, pkt_pending>>
pendVars == <<pp, pending, pending_list_lock>>
cbVars == <<callback_list, callback_list_size, callback_list_lock, registered, running>>
busVars == <<toApp, served, gone, busSent>>
vars == <<up, th, socket_fd, readerVars, pendVars, cbVars, toBus, busVars>>

Init ==
    /\ up = TRUE
    /\ th = [t \in Threads |-> [pc |-> "idle", call |-> NULL, ret |-> 0, out |-> NULL,
                                elem |-> 0, handle |-> 0, calls |-> 0]]
    /\ socket_fd = "none"
    /\ reader = "none" /\ pkt = NULL /\ pkt_pending = 0
    /\ pp = <<>>
    /\ pending = <<>> /\ pending_list_lock = FALSE
    /\ callback_list = <<>> /\ callback_list_size = ListMin /\ callback_list_lock = FALSE
    /\ registered = [c \in Cmds |-> NULL]
    /\ running = {}
    /\ toBus = <<>> /\ toApp = <<>>
    /\ served = {} /\ gone = FALSE /\ busSent = 0

-----------------------------------------------------------------------------
(* The lists, the socket, and how calls begin and end.                     *)

\* Mutant: the first element, whatever its id.
Holders_any(id) == 1..Len(pending)

\* Where get_pending_packet_id finds an id: the first place that has it.
Holders(id) == {i \in 1..Len(pending) : pp[pending[i]].id = id}
get_pending_packet_id(id) == CHOOSE i \in Holders(id) : \A j \in Holders(id) : i <= j

\* The list without the element that is found.
Without(id) ==
    IF Holders(id) = {} THEN pending
    ELSE [i \in 1..(Len(pending) - 1) |->
            IF i < get_pending_packet_id(id) THEN pending[i] ELSE pending[i + 1]]

\* Mutant: does not wait for the lock of the list.
delete_pending_id_nolock(id) == pending' = Without(id)

delete_pending_id(id) == ~pending_list_lock /\ pending' = Without(id)

\* Where get_callback_index finds a command: the first entry for it.
Entries(c) == {i \in 1..Len(callback_list) : callback_list[i].cmd = c}
get_callback_index(c) == CHOOSE i \in Entries(c) : \A j \in Entries(c) : i <= j

\* Ids are drawn at random; with "collide" an earlier one may come again.
generate_id(e) == IF "collide" \in Faults THEN 1..e ELSE {e}

\* mcs_write_command fails on a closed descriptor and, with "invalid", because
\* of the packet.  What is written to a bus that has gone is lost.
Writes == socket_fd = "open"
Fails == socket_fd # "open" \/ "invalid" \in Faults
Write(p) == toBus' = IF Writes /\ ~gone THEN Append(toBus, p) ELSE toBus

Begins(t, f) ==
    /\ up
    /\ f \in Calls
    /\ th[t].pc = "idle" /\ th[t].calls < MaxCalls[t]

Called(t, f) == [th[t] EXCEPT !.call = f, !.calls = th[t].calls + 1]
Returned(r, v) == [r EXCEPT !.pc = "idle", !.ret = v]

\* Frames: a step of a thread of the program that touches nothing, or nothing
\* but the pending list, of the library.
ThreadOnly == UNCHANGED <<up, socket_fd, readerVars, pendVars, cbVars, toBus, busVars>>
PendOnly == UNCHANGED <<up, socket_fd, readerVars, cbVars, toBus, busVars>>

-----------------------------------------------------------------------------
(* sdb_connect, sdb_disconnect.                                            *)

\* Up to the creation of the reading thread.
sdb_connect(t) ==
    /\ Begins(t, "connect") /\ t = Main
    /\ LET r == Called(t, "connect") IN
       \/ \* "Already connected to the SDB"
          /\ socket_fd # "none"
          /\ th' = [th EXCEPT ![t] = Returned(r, 0)]
          /\ UNCHANGED <<socket_fd, reader>>
       \/ \* a name or a group that is not valid, or no socket
          /\ socket_fd = "none"
          /\ th' = [th EXCEPT ![t] = Returned(r, -1)]
          /\ UNCHANGED <<socket_fd, reader>>
       \/ \* nobody listens
          /\ socket_fd = "none" /\ "connect" \in Faults
          /\ th' = [th EXCEPT ![t] = Returned(r, -1)]
          /\ socket_fd' = "closed"
          /\ UNCHANGED reader
       \/ /\ socket_fd = "none"
          /\ th' = [th EXCEPT ![t] = [r EXCEPT !.pc = "shake"]]
          /\ socket_fd' = "open"
          /\ reader' = "select"
    /\ UNCHANGED <<up, pkt, pkt_pending, pendVars, cbVars, toBus, busVars>>

\* The end of sdb_connect: error_close unless the handshake was accepted.
Handshaken(t, ok) ==
    /\ th' = [th EXCEPT ![t] = Returned(@, IF ok THEN 0 ELSE -1)]
    /\ socket_fd' = IF ok THEN socket_fd ELSE "closed"

sdb_disconnect(t) ==
    /\ Begins(t, "disconnect") /\ t = Main
    /\ th' = [th EXCEPT ![t] = Returned(Called(t, "disconnect"), 0)]
    /\ socket_fd' = IF socket_fd = "none" THEN "none" ELSE "closed"
    /\ UNCHANGED <<up, readerVars, pendVars, cbVars, toBus, busVars>>

-----------------------------------------------------------------------------
(* sdb_send_sync, sdb_send_async, sdb_wait_async, sdb_check_async,         *)
(* sdb_pending_packet_free.                                                *)

\* The element of a new packet goes to the front of the list, its pp_pkt not
\* set.
add_pending_id ==
    /\ ~pending_list_lock
    /\ Len(pp) < MaxElem
    /\ \E id \in generate_id(Len(pp) + 1) :
        pp' = Append(pp, [id |-> id, valid |-> FALSE, pkt |-> NULL, lock |-> FALSE])
    /\ pending' = <<Len(pp) + 1>> \o pending
    /\ UNCHANGED pending_list_lock

sdb_send_sync(t) ==
    /\ Begins(t, "sync")
    /\ add_pending_id
    /\ th' = [th EXCEPT ![t] = [Called(t, "sync") EXCEPT !.pc = "send", !.elem = Len(pp) + 1]]
    /\ PendOnly

send_handshake(t) ==
    /\ up /\ th[t].pc = "shake"
    /\ add_pending_id
    /\ th' = [th EXCEPT ![t].pc = "send", ![t].elem = Len(pp) + 1]
    /\ PendOnly

PacketOf(t) ==
    Req(th[t].elem, pp[th[t].elem].id, IF th[t].call = "connect" THEN "handshake" ELSE "test")

\* Mutant: the lock is released after writing.
write_sync_unlock(t) ==
    /\ up /\ th[t].pc = "send" /\ ~pp[th[t].elem].lock
    /\ Writes /\ Write(PacketOf(t))
    /\ th' = [th EXCEPT ![t].pc = "sent"]
    /\ UNCHANGED <<up, socket_fd, readerVars, pendVars, cbVars, busVars>>

\* The element is locked before the packet is written, and stays so.
write_sync(t) ==
    /\ up /\ th[t].pc = "send" /\ ~pp[th[t].elem].lock
    /\ Writes /\ Write(PacketOf(t))
    /\ pp' = [pp EXCEPT ![th[t].elem].lock = TRUE]
    /\ th' = [th EXCEPT ![t].pc = "sent"]
    /\ UNCHANGED <<up, socket_fd, readerVars, pending, pending_list_lock, cbVars, busVars>>

\* The write fails: the element stays in the list.
write_sync_error(t) ==
    /\ up /\ th[t].pc = "send" /\ ~pp[th[t].elem].lock
    /\ Fails
    /\ IF th[t].call = "connect" THEN Handshaken(t, FALSE)
       ELSE th' = [th EXCEPT ![t] = Returned(@, -1)] /\ UNCHANGED socket_fd
    /\ UNCHANGED <<up, readerVars, pendVars, cbVars, toBus, busVars>>

cond_wait(t) ==
    /\ up /\ th[t].pc = "sent"
    /\ pp' = [pp EXCEPT ![th[t].elem].lock = FALSE]
    /\ th' = [th EXCEPT ![t].pc = "wait"]
    /\ UNCHANGED <<pending, pending_list_lock>> /\ PendOnly

spurious_wakeup(t) ==
    /\ up /\ "spurious" \in Faults
    /\ th[t].pc = "wait"
    /\ th' = [th EXCEPT ![t].pc = "relock"]
    /\ ThreadOnly

\* pthread_cond_wait returns with the lock, which is released at once:
\* sdb_wait_async returns, sdb_send_sync takes the packet, whatever it is.
wake(t) ==
    /\ up /\ th[t].pc = "relock" /\ ~pp[th[t].elem].lock
    /\ LET r == [th[t] EXCEPT !.out = pp[th[t].elem].pkt] IN
       th' = [th EXCEPT ![t] = IF th[t].call = "wait" THEN Returned(r, 0)
                               ELSE [r EXCEPT !.pc = "delete"]]
    /\ ThreadOnly

\* The end of sdb_send_sync, and of sdb_connect, which looks at the packet: if it
\* was never set, anything happens.
sync_delete(t) ==
    /\ up /\ th[t].pc = "delete"
    /\ delete_pending_id(pp[th[t].elem].id)
    /\ \/ /\ th[t].call = "sync"
          /\ th' = [th EXCEPT ![t] = Returned(@, 0)]
          /\ UNCHANGED <<up, socket_fd>>
       \/ /\ th[t].call = "connect"
          /\ IF th[t].out = NULL THEN up' \in BOOLEAN /\ \E ok \in BOOLEAN : Handshaken(t, ok)
             ELSE Handshaken(t, th[t].out.cmd = "ok") /\ UNCHANGED up
    /\ UNCHANGED <<readerVars, pp, pending_list_lock, cbVars, toBus, busVars>>

sdb_send_async(t) ==
    /\ Begins(t, "async") /\ th[t].handle = 0
    /\ add_pending_id
    /\ th' = [th EXCEPT ![t] = [Called(t, "async") EXCEPT !.pc = "write", !.elem = Len(pp) + 1,
                                                          !.handle = Len(pp) + 1]]
    /\ PendOnly

write_async(t) ==
    /\ up /\ th[t].pc = "write"
    /\ \/ Writes /\ Write(PacketOf(t)) /\ th' = [th EXCEPT ![t] = Returned(@, 0)]
       \/ Fails /\ UNCHANGED toBus /\ th' = [th EXCEPT ![t] = Returned(@, -1)]
    /\ UNCHANGED <<up, socket_fd, readerVars, pendVars, cbVars, busVars>>

\* A call about the pending packet of the thread; its fields are read with its
\* lock.
Asks(t, f) == Begins(t, f) /\ th[t].handle # 0 /\ ~pp[th[t].handle].lock
Asked(t, f) ==
    [Called(t, f) EXCEPT !.elem = th[t].handle, !.out = pp[th[t].handle].pkt]

sdb_wait_async(t) ==
    /\ Asks(t, "wait")
    /\ th' = [th EXCEPT ![t] = IF pp[th[t].handle].valid THEN Returned(Asked(t, "wait"), 0)
                               ELSE [Asked(t, "wait") EXCEPT !.pc = "wait"]]
    /\ ThreadOnly

sdb_check_async(t) ==
    /\ Asks(t, "check")
    /\ th' = [th EXCEPT ![t] = Returned(Asked(t, "check"),
                                        IF pp[th[t].handle].valid THEN 1 ELSE 0)]
    /\ ThreadOnly

sdb_pending_packet_free(t) ==
    /\ Begins(t, "free") /\ th[t].handle # 0
    /\ delete_pending_id(pp[th[t].handle].id)
    /\ th' = [th EXCEPT ![t] = Returned([Called(t, "free") EXCEPT !.handle = 0], 0)]
    /\ UNCHANGED <<pp, pending_list_lock>> /\ PendOnly

-----------------------------------------------------------------------------
(* Callbacks.                                                              *)

\* Mutant: the list grows one entry too late.
Grown_late(n) == IF Len(callback_list) > n THEN (n * 3) \div 2 ELSE n

\* The size of the list before an entry is added.
Grown(n) == IF Len(callback_list) = n THEN (n * 3) \div 2 ELSE n

\* A command that is registered already leaves the lock taken.
sdb_register_callback(t, c, cb) ==
    /\ Begins(t, "register")
    /\ \/ /\ cb = NULL
          /\ th' = [th EXCEPT ![t] = Returned(Called(t, "register"), -1)]
          /\ UNCHANGED <<callback_list, callback_list_size, callback_list_lock, registered>>
       \/ /\ cb # NULL /\ ~callback_list_lock /\ Entries(c) # {}
          /\ th' = [th EXCEPT ![t] = Returned(Called(t, "register"), -1)]
          /\ callback_list_lock' = TRUE
          /\ UNCHANGED <<callback_list, callback_list_size, registered>>
       \/ /\ cb # NULL /\ ~callback_list_lock /\ Entries(c) = {}
          /\ th' = [th EXCEPT ![t] = Returned(Called(t, "register"), 0)]
          /\ callback_list_size' = Grown(callback_list_size)
          /\ callback_list' = Append(callback_list, [cmd |-> c, callback |-> cb])
          /\ registered' = [registered EXCEPT ![c] = cb]
          /\ UNCHANGED callback_list_lock
    /\ UNCHANGED <<up, socket_fd, readerVars, pendVars, running, toBus, busVars>>

\* Mutant: the length shrinks even if the command is not found.
Shifted_shrunk(c) ==
    [i \in 1..(Len(callback_list) - 1) |->
        IF Entries(c) # {} /\ get_callback_index(c) <= i
        THEN callback_list[i + 1] ELSE callback_list[i]]

\* The entries behind the command move down; callback_list_pos stays as it is.
Shifted(c) ==
    [i \in 1..Len(callback_list) |->
        IF Entries(c) # {} /\ get_callback_index(c) <= i /\ i < Len(callback_list)
        THEN callback_list[i + 1] ELSE callback_list[i]]

sdb_unregister_callback(t, c) ==
    /\ Begins(t, "unregister") /\ ~callback_list_lock
    /\ callback_list' = Shifted(c)
    /\ registered' = [registered EXCEPT ![c] = NULL]
    /\ th' = [th EXCEPT ![t] = Returned(Called(t, "unregister"), 0)]
    /\ UNCHANGED <<up, socket_fd, readerVars, pendVars, callback_list_size,
                   callback_list_lock, running, toBus, busVars>>

\* A callback thread: the callback makes an answer, which is written.
sdb_thread_run_callback(r) ==
    /\ up
    /\ running' = running \ {r}
    /\ Write(Ans(r.pkt, "ok"))
    /\ UNCHANGED <<up, th, socket_fd, readerVars, pendVars, callback_list,
                   callback_list_size, callback_list_lock, registered, busVars>>

-----------------------------------------------------------------------------
(* sdb_thread_read.                                                        *)

\* select fails at once on a closed descriptor and is called again.
reader_select ==
    /\ up /\ reader = "select"
    /\ socket_fd = "open" /\ (toApp # <<>> \/ gone)
    /\ reader' = "read"
    /\ UNCHANGED <<up, th, socket_fd, pkt, pkt_pending, pendVars, cbVars, toBus, busVars>>

reader_read ==
    /\ up /\ reader = "read"
    /\ socket_fd = "open" /\ toApp # <<>>
    /\ pkt' = Head(toApp)
    /\ toApp' = Tail(toApp)
    /\ reader' = pkt'.type
    /\ UNCHANGED <<up, th, socket_fd, pkt_pending, pendVars, cbVars, toBus, served, gone,
                   busSent>>

\* mcs_read_command returns NULL, because the descriptor was closed, the bus has
\* gone or the rest of a packet does not come in time, and NULL is read.
reader_null ==
    /\ up /\ reader = "read"
    /\ socket_fd = "closed" \/ (gone /\ toApp = <<>>) \/ "cut" \in Faults
    /\ up' = FALSE
    /\ UNCHANGED <<th, socket_fd, readerVars, pendVars, cbVars, toBus, busVars>>

\* Mutant: the packet is dropped without an answer.
Unexpected_silent == reader' = "select" /\ UNCHANGED toBus

\* "Received unexpected packet from SDB", whether a request or an answer.
Unexpected ==
    /\ Write(Ans(pkt, "err"))
    /\ reader' = "select"

\* An answer: the pending list is locked and searched, and stays locked if the
\* element is found.
reader_find ==
    /\ up /\ reader = "ans" /\ ~pending_list_lock
    /\ IF Holders(pkt.id) # {}
       THEN /\ pending_list_lock' = TRUE
            /\ pkt_pending' = pending[get_pending_packet_id(pkt.id)]
            /\ reader' = "ppLock"
            /\ UNCHANGED toBus
       ELSE Unexpected /\ UNCHANGED <<pending_list_lock, pkt_pending>>
    /\ UNCHANGED <<up, th, socket_fd, pkt, pp, pending, cbVars, busVars>>

\* The element is filled under its lock, the thread that waits is woken up, and
\* both locks are released.
reader_deliver ==
    /\ up /\ reader = "ppLock" /\ ~pp[pkt_pending].lock
    /\ pp' = [pp EXCEPT ![pkt_pending].pkt = pkt, ![pkt_pending].valid = TRUE]
    /\ th' = [t \in Threads |-> IF th[t].pc = "wait" /\ th[t].elem = pkt_pending
                                THEN [th[t] EXCEPT !.pc = "relock"] ELSE th[t]]
    /\ pending_list_lock' = FALSE
    /\ reader' = "select"
    /\ UNCHANGED <<up, socket_fd, pkt, pkt_pending, pending, cbVars, toBus, busVars>>

\* Mutant: no continue once the thread is made.
reader_request_falls ==
    /\ up /\ reader = "req" /\ ~callback_list_lock
    /\ Unexpected
    /\ running' = running \cup
        {[pkt |-> pkt, callback |-> callback_list[i].callback] : i \in Entries(pkt.cmd)}
    /\ UNCHANGED <<up, th, socket_fd, pkt, pkt_pending, pendVars, callback_list,
                   callback_list_size, callback_list_lock, registered, busVars>>

\* A request: a thread is made for its callback.
reader_request ==
    /\ up /\ reader = "req" /\ ~callback_list_lock
    /\ IF Entries(pkt.cmd) # {}
       THEN /\ running' = running \cup
                {[pkt |-> pkt, callback |-> callback_list[get_callback_index(pkt.cmd)].callback]}
            /\ reader' = "select"
            /\ UNCHANGED toBus
       ELSE Unexpected /\ UNCHANGED running
    /\ UNCHANGED <<up, th, socket_fd, pkt, pkt_pending, pendVars, callback_list,
                   callback_list_size, callback_list_lock, registered, busVars>>

-----------------------------------------------------------------------------
(* The bus.                                                                *)

BusPut(p) ==
    /\ up /\ ~gone /\ socket_fd = "open"
    /\ toApp' = Append(toApp, p)
    /\ UNCHANGED <<up, th, socket_fd, readerVars, pendVars, cbVars, toBus, gone>>

\* A handshake may be refused; of other answers the library reads only the id.
bus_answer(i, result) ==
    /\ toBus[i].type = "req" /\ i \notin served
    /\ result = "ok" \/ toBus[i].cmd = "handshake"
    /\ BusPut(Ans(toBus[i], result))
    /\ served' = served \cup {i}
    /\ UNCHANGED busSent

bus_answer_again(i) ==
    /\ "twice" \in Faults /\ i \in served /\ busSent < MaxBus
    /\ BusPut(Ans(toBus[i], "err"))
    /\ busSent' = busSent + 1
    /\ UNCHANGED served

\* Requests come once the bus has seen the handshake.
bus_request(c) ==
    /\ \E i \in served : toBus[i].cmd = "handshake"
    /\ busSent < MaxBus
    /\ BusPut(Req(-(busSent + 1), -(busSent + 1), c))
    /\ busSent' = busSent + 1
    /\ UNCHANGED served

bus_close ==
    /\ up /\ "gone" \in Faults /\ ~gone /\ socket_fd = "open"
    /\ gone' = TRUE
    /\ UNCHANGED <<up, th, socket_fd, readerVars, pendVars, cbVars, toBus, toApp, served,
                   busSent>>

\* A program that writes to a bus that has gone may be ended.
sigpipe ==
    /\ up /\ gone /\ socket_fd = "open"
    /\ running # {} \/ \E t \in Threads : th[t].pc \in {"send", "write"}
    /\ up' = FALSE
    /\ UNCHANGED <<th, socket_fd, readerVars, pendVars, cbVars, toBus, busVars>>

-----------------------------------------------------------------------------

Reader ==
    \/ reader_select \/ reader_read \/ reader_null
    \/ reader_find \/ reader_deliver \/ reader_request

\* A call the thread is in goes on.
Continue(t) ==
    \/ send_handshake(t) \/ write_sync(t) \/ write_sync_error(t) \/ cond_wait(t)
    \/ wake(t) \/ sync_delete(t) \/ write_async(t)

\* A call begins.
Begin(t) ==
    \/ sdb_connect(t) \/ sdb_disconnect(t)
    \/ sdb_send_sync(t) \/ sdb_send_async(t)
    \/ sdb_wait_async(t) \/ sdb_check_async(t) \/ sdb_pending_packet_free(t)
    \/ \E c \in Cmds, cb \in Callbacks \cup {NULL} : sdb_register_callback(t, c, cb)
    \/ \E c \in Cmds : sdb_unregister_callback(t, c)

Bus ==
    \/ \E i \in 1..Len(toBus), result \in {"ok", "err"} : bus_answer(i, result)
    \/ \E i \in 1..Len(toBus) : bus_answer_again(i)
    \/ \E c \in Cmds : bus_request(c)
    \/ bus_close

Callback == \E r \in running : sdb_thread_run_callback(r)

Next ==
    \/ Reader
    \/ \E t \in Threads : Begin(t) \/ Continue(t) \/ spurious_wakeup(t)
    \/ Callback
    \/ Bus
    \/ sigpipe

Spec == Init /\ [][Next]_vars

\* The threads of the process are scheduled, and callbacks return.
Fairness ==
    /\ WF_vars(Reader)
    /\ \A t \in Threads : WF_vars(Continue(t))
    /\ WF_vars(Callback)

FairSpec == Spec /\ Fairness

-----------------------------------------------------------------------------
(* Properties.                                                             *)

Thread == [pc : {"idle", "shake", "send", "sent", "wait", "relock", "delete", "write"},
           call : Functions \cup {NULL}, ret : {-1, 0, 1}, out : Packet \cup {NULL},
           elem : 0..MaxElem, handle : 0..MaxElem, calls : Nat]
Pending == [id : Nat, valid : BOOLEAN, pkt : Packet \cup {NULL}, lock : BOOLEAN]
Entry == [cmd : Cmds, callback : Callbacks]

TypeOK ==
    /\ up \in BOOLEAN
    /\ th \in [Threads -> Thread]
    /\ socket_fd \in {"none", "open", "closed"}
    /\ reader \in {"none", "select", "read", "req", "ans", "ppLock"}
    /\ pkt \in Packet \cup {NULL}
    /\ pkt_pending \in 0..Len(pp)
    /\ pp \in Seq(Pending) /\ Len(pp) <= MaxElem
    /\ pending \in Seq(1..Len(pp))
    /\ pending_list_lock \in BOOLEAN
    /\ callback_list \in Seq(Entry)
    /\ callback_list_size \in Nat /\ ListMin <= callback_list_size
    /\ Len(callback_list) <= callback_list_size
    /\ callback_list_lock \in BOOLEAN
    /\ registered \in [Cmds -> Callbacks \cup {NULL}]
    /\ running \subseteq [pkt : Packet, callback : Callbacks]
    /\ toBus \in Seq(Packet) /\ toApp \in Seq(Packet)
    /\ served \subseteq 1..Len(toBus)
    /\ gone \in BOOLEAN /\ busSent \in Nat

InList(e) == \E i \in 1..Len(pending) : pending[i] = e

\* Nobody uses a pending element that delete_pending_id has freed: not the
\* reader between finding and filling it, not the thread it belongs to.
NoUseAfterFree ==
    /\ reader = "ppLock" => InList(pkt_pending)
    /\ \A t \in Threads :
        /\ th[t].pc \notin {"idle", "shake"} => InList(th[t].elem)
        /\ th[t].handle # 0 => InList(th[t].handle)

\* The packet put into a pending element answers the packet the element was made
\* for: an answer "will wake up the thread that sent the packet"
\* (doc/sdb_libs/sdb_libs.tex:129).
AnswerOwn == \A e \in 1..Len(pp) : pp[e].valid => pp[e].pkt.by = e

\* sdb_send_sync "blocks until the answer is received" (sdb_libs.tex:58): it
\* takes a packet out of its element only once the reader has put one there.
SyncBlocks == \A t \in Threads : th[t].pc = "delete" => th[t].out # NULL

\* What is registered and not unregistered is found, with its own callback.
RegisteredFound ==
    \A c \in Cmds :
        registered[c] # NULL =>
            /\ Entries(c) # {}
            /\ callback_list[get_callback_index(c)].callback = registered[c]

\* A request of the bus is answered at most once.
ReplyOnce ==
    \A i, j \in 1..Len(toBus) :
        /\ toBus[i].type = "ans" /\ toBus[j].type = "ans"
        /\ toBus[i].by = toBus[j].by /\ toBus[i].by < 0
        => i = j

\* The reader waits for a lock that a second registration has left taken
\* (sdb.c:309-313), and reads nothing any more.
ReaderStuck == reader = "req" /\ callback_list_lock

\* A thread whose answer has come returns: the wake-up is not lost, and the
\* reader and the threads of the program do not block each other, but for a
\* reader that is stuck.
AnswerDelivered ==
    \A t \in Threads :
        /\ th[t].pc \in {"sent", "wait"}
        /\ pp[th[t].elem].valid \/ \E i \in 1..Len(toApp) : toApp[i].by = th[t].elem
        ~> (th[t].pc = "idle" \/ ReaderStuck \/ ~up)

\* A request is answered, by its callback or with an error: "if the packet
\* contains a command that has a registered callback, a new thread will be
\* started", and "if the packet cannot be processed, an error message will be
\* returned" (sdb_libs.tex:127).  Not so if the reader is stuck.
RequestReplied ==
    \A n \in 1..MaxBus :
        (\E i \in 1..Len(toApp) : toApp[i].by = -n)
            ~> \/ \E i \in 1..Len(toBus) : toBus[i].by = -n
               \/ ReaderStuck
               \/ ~up \/ gone \/ socket_fd = "closed"

=============================================================================
