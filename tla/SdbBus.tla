------------------------------- MODULE SdbBus -------------------------------
(***************************************************************************)
(* The System Data Bus daemon (SDB/): the director that accepts            *)
(* connections, the observer that selects on the sockets, and one thread   *)
(* per connected module, which share the module table under one mutex and  *)
(* one condition variable per module.                                      *)
(*                                                                         *)
(* A module is its slot in sdb_module[].  pc[m] is where its thread is:    *)
(*   none       the slot is free                                           *)
(*   handshake  holds its own lock and reads the first packet              *)
(*   naming     the slot has a name, to which it is being copied           *)
(*   group      the name is complete, the group is being looked up         *)
(*   loop       at the top of the loop, its own lock held                  *)
(*   wait       in pthread_cond_wait on its own condition variable         *)
(*   relock     woken up (or handshake done), about to take its own lock   *)
(*   scan       compares the names of the slots with a destination         *)
(*   found      has found the addressee, about to look at its group        *)
(*   lockTo     sending: blocked on the lock of the addressee              *)
(*   write      sending: holds the lock of the addressee, mailbox empty    *)
(*   waitTo     sending: in pthread_cond_wait on the addressee's variable  *)
(*   dead       the thread has left after a failed handshake               *)
(***************************************************************************)
EXTENDS McsCommands, SdbQueue, Integers, FiniteSets

CONSTANTS
    MaxConn,    \* connections accepted (bound; the table has 20 slots)
    MaxSend,    \* packets a client sends on its own initiative (bound)
    MaxAnswer,  \* answers a client sends (bound)
    Names,      \* the strings that name a module or a destination
    Begun,      \* for each of them its beginnings, the shorter strings
    AppName,    \* the name each client puts in its handshake, or NULL
    AppGroup,   \* and the groups it may put there: of Group, or other strings
    AppCmd,     \* the commands each client may send
    AppFault    \* what else clients do: "bad" bytes, "big" packets, "close"

SDB_MODULE_MAX == 20
Slots == 0..(MaxConn - 1)
Empty == ""                         \* what a zeroed buffer holds

ASSUME BusAssumption ==
    /\ MaxConn \in 1..SDB_MODULE_MAX
    /\ MaxSend \in Nat
    /\ MaxAnswer \in Nat
    /\ NULL \notin Names
    /\ Begun \in [Names -> SUBSET Names]
    /\ \A n \in Names : Empty \in Begun[n] \cup {n}
    /\ AppName \in [Slots -> Names \cup {NULL}]
    /\ AppGroup \in [Slots -> SUBSET STRING]
    /\ AppCmd \in [Slots -> SUBSET Command]
    /\ AppFault \subseteq {"bad", "big", "close"}

None == -1                          \* nobody owns a lock
Result == {"ok", "data", "EPERM", "EBADFORMAT", "EBADMODID", "EUNDEF",
           "ECONNREFUSED"}

\* A packet on a socket or in a mailbox.  The id is the sender and a number:
\* generate_id draws 32 random bits, and no two packets of a run collide.
\* "bad" is a packet mcs_read_command rejects once it has read its id; big is
\* a packet longer than the mailbox.
Id == Slots \X Nat
Packet == [type : {"req", "ans", "bad"}, id : Id, cmd : Command \cup Result,
           dest : Names \cup {NULL}, big : BOOLEAN]

Ans(p, result) ==
    [type |-> "ans", id |-> p.id, cmd |-> result, dest |-> NULL, big |-> FALSE]

VARIABLES
    up,             \* the daemon process runs
    last,           \* sdb_module_last
    pc,             \* where each module thread is
    name, group,    \* what the handshake left in the slot
    rfd,            \* the descriptor number of each slot
    open,           \* the connection descriptors open in the daemon
    owner,          \* who holds the lock of each slot
    depth,          \* how many times: the locks are recursive
    data,           \* the mailbox of each slot: sender and packet
    data_valid,     \* the mailbox is full
    data_socket,    \* the observer has seen data on the socket
    queue,          \* packets that wait for their answer
    qos_enabled,
    hand,           \* the packet a sending thread holds, and its addressee
    cur,            \* pkt, i and list_num of a thread in handshake or scan
    obs,            \* where the observer is
    watch, todo,    \* slots it selects on, slots it has yet to notify
    pipe,           \* bytes in the observer's wake-up pipe
    toSdb,          \* socket, client to daemon
    toApp,          \* everything written to the client's socket
    closed,         \* the client has closed its end
    sent, replies   \* packets and answers each client has sent

modVars == <<pc, hand, cur>>
slotVars == <<last, name, group, rfd, open>>
lockVars == <<owner, depth>>
boxVars == <<data, data_valid>>
obsVars == <<obs, watch, todo, pipe>>
appVars == <<closed, sent, replies>>
vars == <<up, modVars, slotVars, lockVars, boxVars, data_socket, queue,
          qos_enabled, obsVars, toSdb, toApp, appVars>>

Init ==
    /\ up = TRUE
    /\ last = 0
    /\ pc = [m \in Slots |-> "none"]
    /\ name = [m \in Slots |-> NULL]
    /\ group = [m \in Slots |-> "syscore"]
    /\ rfd = [m \in Slots |-> 0]
    /\ open = {}
    /\ owner = [m \in Slots |-> None]
    /\ depth = [m \in Slots |-> 0]
    /\ data = [m \in Slots |-> NULL]
    /\ data_valid = [m \in Slots |-> FALSE]
    /\ data_socket = [m \in Slots |-> FALSE]
    /\ queue = [m \in Slots |-> <<>>]
    /\ qos_enabled = [m \in Slots |-> FALSE]
    /\ hand = [m \in Slots |-> NULL]
    /\ cur = [m \in Slots |-> NULL]
    /\ obs = "start"
    /\ watch = {}
    /\ todo = {}
    /\ pipe = 0
    /\ toSdb = [m \in Slots |-> <<>>]
    /\ toApp = [m \in Slots |-> <<>>]
    /\ closed = [m \in Slots |-> FALSE]
    /\ sent = [m \in Slots |-> 0]
    /\ replies = [m \in Slots |-> 0]

-----------------------------------------------------------------------------
(* Locks, condition variables and sockets.                                 *)

Lock(s, who) ==
    /\ owner' = [owner EXCEPT ![s] = who]
    /\ depth' = [depth EXCEPT ![s] = @ + 1]

Unlock(s) ==
    /\ owner' = [owner EXCEPT ![s] = IF depth[s] = 1 THEN None ELSE @]
    /\ depth' = [depth EXCEPT ![s] = @ - 1]

\* Mutant: nobody is woken up.
Broadcast_none(f, s) == f

\* pthread_cond_broadcast on the variable of slot s: the threads that wait on
\* it are its own and the ones that wait for its mailbox to empty.
Broadcast(f, s) ==
    [m \in Slots |->
        IF m = s /\ f[m] = "wait" THEN "relock"
        ELSE IF f[m] = "waitTo" /\ hand[m].to = s THEN "lockTo" ELSE f[m]]

\* mcs_write_command to the client.  The daemon does not block SIGPIPE: a
\* write to a connection the client has closed is lost or ends the daemon.
Write(m, packets) ==
    IF closed[m]
    THEN toApp' = toApp /\ up' \in BOOLEAN
    ELSE toApp' = [toApp EXCEPT ![m] = @ \o packets] /\ up' = up

-----------------------------------------------------------------------------
(* The director, and the first part of sdb_module_thread.                  *)

\* sdb_director_thread accepts a connection and sdb_module_init gives it the
\* next slot and the lowest free descriptor; the new thread takes its lock.
sdb_module_init ==
    /\ last < MaxConn
    /\ \E fd \in Slots :
        /\ fd \notin open /\ 0..(fd - 1) \subseteq open
        /\ rfd' = [rfd EXCEPT ![last] = fd]
        /\ open' = open \cup {fd}
    /\ last' = last + 1
    /\ pc' = [pc EXCEPT ![last] = "handshake"]
    /\ Lock(last, last)
    /\ qos_enabled' = [qos_enabled EXCEPT ![last] = TRUE]
    /\ UNCHANGED <<up, hand, cur, name, group, boxVars, data_socket, queue,
                   obsVars, toSdb, toApp, appVars>>

\* The first packet does not arrive in time, cannot be read, is not a
\* handshake or holds no name.  The thread closes the connection and leaves
\* with its own lock held; its slot stays in the table.
handshake_error(m) ==
    /\ pc[m] = "handshake"
    /\ \/ toSdb[m] = <<>> /\ UNCHANGED <<toSdb, toApp, up>>
       \/ /\ toSdb[m] # <<>>
          /\ toSdb' = [toSdb EXCEPT ![m] = Tail(@)]
          /\ LET p == Head(toSdb[m]) IN
             \/ p.type = "bad" /\ Write(m, <<Ans(p, "EBADFORMAT")>>)
             \/ /\ p.type # "bad"
                /\ p.cmd # "sdb_handshake" \/ AppName[m] = NULL
                /\ Write(m, <<Ans(p, "ECONNREFUSED")>>)
    /\ pc' = [pc EXCEPT ![m] = "dead"]
    /\ open' = open \ {rfd[m]}
    /\ UNCHANGED <<hand, cur, last, name, group, rfd, lockVars, boxVars,
                   data_socket, queue, qos_enabled, obsVars, appVars>>

\* A handshake: the slot gets a zeroed buffer for its name.
handshake_read(m) ==
    /\ pc[m] = "handshake"
    /\ toSdb[m] # <<>>
    /\ LET p == Head(toSdb[m]) IN
       /\ p.type = "req" /\ p.cmd = "sdb_handshake"
       /\ cur' = [cur EXCEPT ![m] = [pkt |-> p, i |-> 0, list_num |-> 0]]
    /\ AppName[m] # NULL
    /\ toSdb' = [toSdb EXCEPT ![m] = Tail(@)]
    /\ name' = [name EXCEPT ![m] = Empty]
    /\ pc' = [pc EXCEPT ![m] = "naming"]
    /\ UNCHANGED <<up, hand, last, group, rfd, open, lockVars, boxVars,
                   data_socket, queue, qos_enabled, obsVars, toApp, appVars>>

\* strncpy: for the threads that scan the table the name grows.
handshake_name(m) ==
    /\ pc[m] = "naming"
    /\ \/ \E n \in Begun[AppName[m]] :
             /\ name[m] \in Begun[n]
             /\ name' = [name EXCEPT ![m] = n]
             /\ UNCHANGED pc
       \/ /\ name' = [name EXCEPT ![m] = AppName[m]]
          /\ pc' = [pc EXCEPT ![m] = "group"]
    /\ UNCHANGED <<up, hand, cur, last, group, rfd, open, lockVars, boxVars,
                   data_socket, queue, qos_enabled, obsVars, toSdb, toApp,
                   appVars>>

\* There is no such group: the thread leaves as above, and its slot stays in
\* the table with its name.
handshake_refuse(m) ==
    /\ pc[m] = "group"
    /\ ~(AppGroup[m] \subseteq Group)
    /\ Write(m, <<Ans(cur[m].pkt, "ECONNREFUSED")>>)
    /\ pc' = [pc EXCEPT ![m] = "dead"]
    /\ cur' = [cur EXCEPT ![m] = NULL]
    /\ open' = open \ {rfd[m]}
    /\ UNCHANGED <<hand, last, name, group, rfd, lockVars, boxVars, data_socket,
                   queue, qos_enabled, obsVars, toSdb, appVars>>

\* The slot gets its group, the client its answer, the observer a byte (if it
\* has made its pipe), and the lock is released.
handshake(m) ==
    /\ pc[m] = "group"
    /\ \E g \in AppGroup[m] \cap Group : group' = [group EXCEPT ![m] = g]
    /\ Write(m, <<Ans(cur[m].pkt, "ok")>>)
    /\ data_valid' = [data_valid EXCEPT ![m] = FALSE]
    /\ data_socket' = [data_socket EXCEPT ![m] = FALSE]
    /\ pipe' = IF obs = "start" THEN pipe ELSE pipe + 1
    /\ pc' = [Broadcast(pc, m) EXCEPT ![m] = "relock"]
    /\ cur' = [cur EXCEPT ![m] = NULL]
    /\ Unlock(m)
    /\ UNCHANGED <<hand, last, name, rfd, open, data, queue, qos_enabled, obs,
                   watch, todo, toSdb, appVars>>

-----------------------------------------------------------------------------
(* The loop of sdb_module_thread.                                          *)

\* Nothing to do: pthread_cond_wait on the module's own variable.
cond_wait(m) ==
    /\ pc[m] = "loop" /\ ~data_valid[m] /\ ~data_socket[m]
    /\ pc' = [pc EXCEPT ![m] = "wait"]
    /\ Unlock(m)
    /\ UNCHANGED <<up, hand, cur, slotVars, boxVars, data_socket, queue,
                   qos_enabled, obsVars, toSdb, toApp, appVars>>

\* The thread leaves pthread_cond_wait, or enters the loop for the first time.
relock(m) ==
    /\ pc[m] = "relock" /\ owner[m] = None
    /\ pc' = [pc EXCEPT ![m] = "loop"]
    /\ Lock(m, m)
    /\ UNCHANGED <<up, hand, cur, slotVars, boxVars, data_socket, queue,
                   qos_enabled, obsVars, toSdb, toApp, appVars>>

\* pthread_cond_wait may return without a broadcast.
spurious_wakeup(m) ==
    /\ pc[m] \in {"wait", "waitTo"}
    /\ pc' = [pc EXCEPT ![m] = IF @ = "wait" THEN "relock" ELSE "lockTo"]
    /\ UNCHANGED <<up, hand, cur, slotVars, lockVars, boxVars, data_socket,
                   queue, qos_enabled, obsVars, toSdb, toApp, appVars>>

\* The mailbox is full: take the packet out and hand it to the client.  An
\* answer must match a packet of the queue, which it closes; a request is
\* remembered together with the module that sent it.
process_pkt_sdb(m) ==
    /\ pc[m] = "loop" /\ data_valid[m]
    /\ data_valid' = [data_valid EXCEPT ![m] = FALSE]
    /\ LET p == data[m].pkt IN
       \/ /\ p.type = "ans"
          /\ IF Expects(queue[m], p.id)
             THEN /\ queue' = [queue EXCEPT ![m] = Delete(@, Match(@, p.id))]
                  /\ Write(m, <<p>>)
             ELSE UNCHANGED <<queue, toApp, up>>
       \/ /\ p.type = "req"
          /\ queue' = [queue EXCEPT ![m] = Push(@, sdb_packet(p.id, data[m].from))]
          /\ Write(m, <<p>>)
    /\ UNCHANGED <<modVars, slotVars, lockVars, data, data_socket,
                   qos_enabled, obsVars, toSdb, appVars>>

-----------------------------------------------------------------------------
(* process_pkt_socket: one packet from the client.                         *)

\* The end of process_pkt_socket.
Done(m) ==
    /\ data_socket' = [data_socket EXCEPT ![m] = FALSE]
    /\ pc' = [pc EXCEPT ![m] = "loop"]
    /\ cur' = [cur EXCEPT ![m] = NULL]
    /\ UNCHANGED hand

Refuse(m, p, err) ==
    /\ Write(m, <<Ans(p, err)>>)
    /\ Done(m)
    /\ UNCHANGED <<queue, qos_enabled>>

\* sdb_module_write_mcs_packet up to the lock.  A packet that does not fit is
\* dropped: no caller looks at the value returned.
Send(m, p, to) ==
    IF p.big
    THEN Done(m)
    ELSE /\ hand' = [hand EXCEPT ![m] = [pkt |-> p, to |-> to]]
         /\ pc' = [pc EXCEPT ![m] = "lockTo"]
         /\ cur' = [cur EXCEPT ![m] = NULL]
         /\ UNCHANGED data_socket

\* SIGSEGV: the process is gone.
Crash == up' = FALSE /\ UNCHANGED <<toApp, queue, qos_enabled, modVars, data_socket>>

process_answer(m, p) ==
    /\ UNCHANGED <<up, toApp, qos_enabled>>
    /\ \/ /\ ~Expects(queue[m], p.id)
          /\ Done(m) /\ UNCHANGED queue
       \/ /\ Expects(queue[m], p.id)
          /\ LET i == Match(queue[m], p.id) IN
             /\ queue' = [queue EXCEPT ![m] = Delete(@, i)]
             /\ Send(m, p, queue[m][i].id_process)

\* A message for the SDB itself.  SDB_QOS_STOP falls through to the default
\* case, so it is answered twice.
process_sdb_message(m, p) ==
    LET dump == Ans(p, IF qos_enabled[m] THEN "data" ELSE "EUNDEF") IN
    /\ Write(m, CASE p.cmd = "sdb_qos_start" -> <<Ans(p, "ok")>>
                  [] p.cmd = "sdb_qos_dump"  -> <<dump>>
                  [] p.cmd = "sdb_qos_stop"  -> <<dump, Ans(p, "EBADFORMAT")>>
                  [] OTHER                   -> <<Ans(p, "EBADFORMAT")>>)
    /\ qos_enabled' = [qos_enabled EXCEPT ![m] =
            CASE p.cmd = "sdb_qos_start" -> TRUE
              [] p.cmd = "sdb_qos_stop"  -> FALSE
              [] OTHER                   -> @]
    /\ Done(m)
    /\ UNCHANGED queue

dest_name(p) == IF destination(p.cmd) = "@" THEN p.dest ELSE destination(p.cmd)

\* The permission of the sender; then a message for the SDB is handled at once,
\* and for any other the thread starts to look for its destination.
process_pkt_message(m, p) ==
    \/ ~group_allowed(origin_groups(p.cmd), group[m]) /\ Refuse(m, p, "EPERM")
    \/ /\ group_allowed(origin_groups(p.cmd), group[m])
       /\ destination(p.cmd) = NULL
       /\ process_sdb_message(m, p)
    \/ /\ group_allowed(origin_groups(p.cmd), group[m])
       /\ destination(p.cmd) # NULL
       /\ cur' = [cur EXCEPT ![m] = [pkt |-> p, i |-> 0, list_num |-> last]]
       /\ pc' = [pc EXCEPT ![m] = "scan"]
       /\ UNCHANGED <<up, hand, data_socket, queue, qos_enabled, toApp>>

\* Mutant: strcmp without the comparison with 0.
Named_strcmp(i, dest) == name[i] # dest

\* strcmp with the name the slot shows at this moment.
Named(i, dest) == name[i] = dest

\* One turn of the loop over the slots, without their locks.  strcmp with the
\* name of a slot that has none yet is a crash.
scan_step(m) ==
    /\ pc[m] = "scan"
    /\ LET p == cur[m].pkt  i == cur[m].i IN
       \/ i = cur[m].list_num /\ Refuse(m, p, "EBADMODID")
       \/ i < cur[m].list_num /\ name[i] = NULL /\ Crash
       \/ /\ i < cur[m].list_num /\ name[i] # NULL
          /\ IF Named(i, dest_name(p))
             THEN pc' = [pc EXCEPT ![m] = "found"] /\ UNCHANGED cur
             ELSE cur' = [cur EXCEPT ![m].i = i + 1] /\ UNCHANGED pc
          /\ UNCHANGED <<up, hand, data_socket, queue, qos_enabled, toApp>>
    /\ UNCHANGED <<slotVars, lockVars, boxVars, obsVars, toSdb, appVars>>

\* The permission of the addressee, whose group may not be set yet; then the
\* request is remembered and sent.
forward(m) ==
    /\ pc[m] = "found"
    /\ LET p == cur[m].pkt  i == cur[m].i IN
       IF group_allowed(destination_groups(p.cmd), group[i])
       THEN /\ queue' = [queue EXCEPT ![m] = Push(@, sdb_packet(p.id, m))]
            /\ Send(m, p, i)
            /\ UNCHANGED <<up, toApp, qos_enabled>>
       ELSE Refuse(m, p, "EPERM")
    /\ UNCHANGED <<slotVars, lockVars, boxVars, obsVars, toSdb, appVars>>

\* The USB daemon is not started in this build: a payload command is queued
\* and goes nowhere.
process_pkt_payload(m, p) ==
    /\ queue' = [queue EXCEPT ![m] = Push(@, sdb_packet(p.id, m))]
    /\ Done(m)
    /\ UNCHANGED <<up, toApp, qos_enabled>>

\* Mutant: the socket is served before the mailbox.
process_pkt_socket_first(m) ==
    /\ pc[m] = "loop" /\ data_socket[m]
    /\ toSdb[m] # <<>>
    /\ toSdb' = [toSdb EXCEPT ![m] = Tail(@)]
    /\ Head(toSdb[m]).cmd \in Message
    /\ process_pkt_message(m, Head(toSdb[m]))
    /\ UNCHANGED <<slotVars, lockVars, boxVars, obsVars, appVars>>

\* A packet that cannot be read leaves data_socket set.
process_pkt_socket(m) ==
    /\ pc[m] = "loop" /\ ~data_valid[m] /\ data_socket[m]
    /\ toSdb[m] # <<>>
    /\ toSdb' = [toSdb EXCEPT ![m] = Tail(@)]
    /\ LET p == Head(toSdb[m]) IN
       \/ /\ p.type = "bad" /\ Write(m, <<Ans(p, "EBADFORMAT")>>)
          /\ UNCHANGED <<modVars, data_socket, queue, qos_enabled>>
       \/ p.type = "ans" /\ process_answer(m, p)
       \/ p.type = "req" /\ p.cmd \in Message /\ process_pkt_message(m, p)
       \* process_pkt_state: its list of groups has sizeof(pointer) /
       \* sizeof(struct) = 0 elements, so nobody is refused, and the answer is
       \* copied from the NULL that the stub request() returns.
       \/ p.type = "req" /\ p.cmd = "temperature_arduino" /\ Crash
       \/ p.type = "req" /\ p.cmd = "arduino_get_pin" /\ process_pkt_payload(m, p)
    /\ UNCHANGED <<slotVars, lockVars, boxVars, obsVars, appVars>>

\* Nothing to read (or the connection is closed): mcs_read_command gives up
\* after 100 ms, data_socket stays set and the thread tries again, its lock
\* held all the time.
read_timeout(m) ==
    /\ pc[m] = "loop" /\ ~data_valid[m] /\ data_socket[m]
    /\ toSdb[m] = <<>>
    /\ UNCHANGED vars

-----------------------------------------------------------------------------
(* The rest of sdb_module_write_mcs_packet.                                *)

\* Mutant: the lock of the addressee is not taken.
lock_to_nolock(m) ==
    /\ pc[m] = "lockTo" /\ ~data_valid[hand[m].to]
    /\ pc' = [pc EXCEPT ![m] = "write"]
    /\ UNCHANGED <<up, hand, cur, slotVars, lockVars, boxVars, data_socket,
                   queue, qos_enabled, obsVars, toSdb, toApp, appVars>>

\* Mutant: the mailbox is not tested.
lock_to_notest(m) ==
    /\ pc[m] = "lockTo" /\ owner[hand[m].to] \in {None, m}
    /\ pc' = [pc EXCEPT ![m] = "write"]
    /\ Lock(hand[m].to, m)
    /\ UNCHANGED <<up, hand, cur, slotVars, boxVars, data_socket, queue,
                   qos_enabled, obsVars, toSdb, toApp, appVars>>

\* pthread_mutex_lock on the addressee, which may be the sender itself, and the
\* test of its mailbox.  While that is full the sender waits for the variable
\* of the addressee, which releases the lock again; a sender that would wait
\* for itself gives up instead, and does so without releasing the lock.
lock_to(m) ==
    LET to == hand[m].to IN
    /\ pc[m] = "lockTo" /\ owner[to] \in {None, m}
    /\ IF ~data_valid[to]
       THEN /\ pc' = [pc EXCEPT ![m] = "write"]
            /\ Lock(to, m)
            /\ UNCHANGED <<data_socket, hand>>
       ELSE IF to # m
       THEN /\ pc' = [pc EXCEPT ![m] = "waitTo"]
            /\ UNCHANGED <<lockVars, data_socket, hand>>
       ELSE /\ pc' = [pc EXCEPT ![m] = "loop"]
            /\ Lock(to, m)
            /\ data_socket' = [data_socket EXCEPT ![m] = FALSE]
            /\ hand' = [hand EXCEPT ![m] = NULL]
    /\ UNCHANGED <<up, cur, slotVars, boxVars, queue, qos_enabled, obsVars,
                   toSdb, toApp, appVars>>

\* The mailbox was empty and its lock is held: fill it, broadcast and unlock.
sdb_module_write_mcs_packet(m) ==
    LET to == hand[m].to IN
    /\ pc[m] = "write"
    /\ data' = [data EXCEPT ![to] = [from |-> m, pkt |-> hand[m].pkt]]
    /\ data_valid' = [data_valid EXCEPT ![to] = TRUE]
    /\ pc' = [Broadcast(pc, to) EXCEPT ![m] = "loop"]
    /\ Unlock(to)
    /\ hand' = [hand EXCEPT ![m] = NULL]
    /\ data_socket' = [data_socket EXCEPT ![m] = FALSE]
    /\ UNCHANGED <<up, cur, slotVars, queue, qos_enabled, obsVars, toSdb,
                   toApp, appVars>>

-----------------------------------------------------------------------------
(* sdb_observer_thread.                                                    *)

\* A descriptor is readable when its connection holds data or is closed.
Readable(fd) ==
    \E m \in Slots : /\ pc[m] \notin {"none", "dead"} /\ rfd[m] = fd
                     /\ toSdb[m] # <<>> \/ closed[m]

\* Make the pipe; then wait for the first byte in it.
observer_start ==
    /\ \/ obs = "start" /\ obs' = "first" /\ UNCHANGED pipe
       \/ obs = "first" /\ pipe > 0 /\ obs' = "loop" /\ pipe' = pipe - 1
    /\ UNCHANGED <<up, modVars, slotVars, lockVars, boxVars, data_socket,
                   queue, qos_enabled, watch, todo, toSdb, toApp, appVars>>

\* Call select on the slots of the table.  While one of them has a closed
\* descriptor the call fails with EBADF and is repeated.
observer_select ==
    /\ obs = "loop"
    /\ {rfd[m] : m \in 0..(last - 1)} \subseteq open
    /\ obs' = "select"
    /\ watch' = 0..(last - 1)
    /\ UNCHANGED <<up, modVars, slotVars, lockVars, boxVars, data_socket,
                   queue, qos_enabled, todo, pipe, toSdb, toApp, appVars>>

\* Mutant: the pipe is read whatever descriptor is set.
observer_return_read ==
    /\ obs = "select"
    /\ pipe > 0 \/ \E m \in watch : Readable(rfd[m])
    /\ pipe' = pipe - 1 /\ obs' = "loop"
    /\ UNCHANGED <<up, modVars, slotVars, lockVars, boxVars, data_socket,
                   queue, qos_enabled, watch, todo, toSdb, toApp, appVars>>

\* select returns: for the pipe, or for the readable slots.
observer_return ==
    /\ obs = "select"
    /\ \/ /\ pipe > 0
          /\ pipe' = pipe - 1 /\ obs' = "loop" /\ UNCHANGED todo
       \/ /\ pipe = 0
          /\ todo' = {m \in watch : Readable(rfd[m])}
          /\ todo' # {}
          /\ obs' = "notify" /\ UNCHANGED pipe
    /\ UNCHANGED <<up, modVars, slotVars, lockVars, boxVars, data_socket,
                   queue, qos_enabled, watch, toSdb, toApp, appVars>>

\* Mutant: the flag is set and nobody is woken up.
observer_notify_silent ==
    /\ obs = "notify"
    /\ \E m \in todo :
        /\ data_socket' = [data_socket EXCEPT ![m] = (owner[m] = None)]
        /\ todo' = todo \ {m}
        /\ obs' = IF todo = {m} THEN "loop" ELSE "notify"
    /\ UNCHANGED <<up, modVars, slotVars, lockVars, boxVars, queue,
                   qos_enabled, watch, pipe, toSdb, toApp, appVars>>

\* The next slot: pthread_mutex_trylock, set the flag, broadcast, unlock.  A
\* slot whose lock is taken is skipped.
observer_notify ==
    /\ obs = "notify"
    /\ \E m \in todo :
        /\ \A i \in todo : m <= i
        /\ IF owner[m] = None
           THEN /\ data_socket' = [data_socket EXCEPT ![m] = TRUE]
                /\ pc' = Broadcast(pc, m)
           ELSE UNCHANGED <<data_socket, pc>>
        /\ todo' = todo \ {m}
        /\ obs' = IF todo = {m} THEN "loop" ELSE "notify"
    /\ UNCHANGED <<up, hand, cur, slotVars, lockVars, boxVars, queue, qos_enabled,
                   watch, pipe, toSdb, toApp, appVars>>

-----------------------------------------------------------------------------
(* The clients.                                                            *)

Connected(m) == m < last /\ pc[m] # "dead" /\ ~closed[m]

AppPut(m, p) ==
    /\ toSdb' = [toSdb EXCEPT ![m] = Append(@, p)]
    /\ UNCHANGED <<up, modVars, slotVars, lockVars, boxVars, data_socket,
                   queue, qos_enabled, obsVars, toApp, closed>>

\* The first packet should be the handshake; the next ones follow its answer.
\* Of a packet that cannot be read only the id matters, and the length only of
\* one that is forwarded.
app_send(m, type, cmd, dest, big) ==
    /\ Connected(m) /\ sent[m] < MaxSend
    /\ sent[m] > 0 => toApp[m] # <<>>
    /\ IF type = "bad"
       THEN cmd = "sdb_handshake" /\ "bad" \in AppFault
       ELSE cmd \in AppCmd[m] \cup (IF sent[m] = 0 THEN {"sdb_handshake"} ELSE {})
    /\ destination(cmd) = "@" <=> dest # NULL
    /\ big => "big" \in AppFault /\ dest # NULL
    /\ AppPut(m, [type |-> type, id |-> <<m, sent[m]>>, cmd |-> cmd,
                  dest |-> dest, big |-> big])
    /\ sent' = [sent EXCEPT ![m] = @ + 1]
    /\ UNCHANGED replies

\* Answer a request that was received, perhaps for the second time.
app_answer(m, i, big) ==
    /\ Connected(m) /\ replies[m] < MaxAnswer
    /\ toApp[m][i].type = "req"
    /\ big => "big" \in AppFault
    /\ AppPut(m, [Ans(toApp[m][i], "data") EXCEPT !.big = big])
    /\ replies' = [replies EXCEPT ![m] = @ + 1]
    /\ UNCHANGED sent

app_close(m) ==
    /\ Connected(m) /\ "close" \in AppFault
    /\ closed' = [closed EXCEPT ![m] = TRUE]
    /\ UNCHANGED <<up, modVars, slotVars, lockVars, boxVars, data_socket,
                   queue, qos_enabled, obsVars, toSdb, toApp, sent, replies>>

-----------------------------------------------------------------------------
Observer == observer_start \/ observer_select \/ observer_return \/ observer_notify

ModuleThread(m) ==
    \/ handshake_error(m) \/ handshake_read(m) \/ handshake_name(m)
    \/ handshake_refuse(m) \/ handshake(m)
    \/ cond_wait(m) \/ relock(m)
    \/ process_pkt_sdb(m) \/ process_pkt_socket(m) \/ read_timeout(m)
    \/ scan_step(m) \/ forward(m)
    \/ lock_to(m) \/ sdb_module_write_mcs_packet(m)

Client(m) ==
    \/ \E type \in {"req", "bad"}, cmd \in Command, dest \in Names \cup {NULL},
          big \in BOOLEAN : app_send(m, type, cmd, dest, big)
    \/ \E i \in 1..Len(toApp[m]), big \in BOOLEAN : app_answer(m, i, big)
    \/ app_close(m)

Daemon ==
    /\ up
    /\ \/ sdb_module_init
       \/ Observer
       \/ \E m \in Slots : ModuleThread(m) \/ spurious_wakeup(m)

Next == Daemon \/ \E m \in Slots : Client(m)

Spec == Init /\ [][Next]_vars

\* Every thread of the daemon keeps running, and pthread_cond_wait does not
\* return without a broadcast for ever.
Fairness ==
    /\ <>[][\A m \in Slots : ~spurious_wakeup(m)]_vars
    /\ WF_vars(up /\ Observer)
    /\ \A m \in Slots : WF_vars(up /\ ModuleThread(m))

FairSpec == Spec /\ Fairness

\* Clients that answer what they are asked.
ClientFairness ==
    \A m \in Slots : WF_vars(\E i \in 1..Len(toApp[m]) : app_answer(m, i, FALSE))

-----------------------------------------------------------------------------
(* Properties.                                                             *)

Place == {"none", "handshake", "naming", "group", "loop", "wait", "relock", "scan",
          "found", "lockTo", "write", "waitTo", "dead"}
Mail == [from : Slots, pkt : Packet]
Hand == [to : Slots, pkt : Packet]
Local == [pkt : Packet, i : 0..MaxConn, list_num : 0..MaxConn]
Elem == [id : Id, id_process : Slots, priority : {SDB_PACKET_DEFAULT_PRIO}]

TypeOK ==
    /\ up \in BOOLEAN
    /\ last \in 0..MaxConn
    /\ pc \in [Slots -> Place]
    /\ name \in [Slots -> Names \cup {NULL}]
    /\ group \in [Slots -> Group]
    /\ rfd \in [Slots -> Slots]
    /\ open \subseteq Slots
    /\ owner \in [Slots -> Slots \cup {None}]
    /\ depth \in [Slots -> Nat]
    /\ data \in [Slots -> Mail \cup {NULL}]
    /\ data_valid \in [Slots -> BOOLEAN]
    /\ data_socket \in [Slots -> BOOLEAN]
    /\ queue \in [Slots -> Seq(Elem)]
    /\ qos_enabled \in [Slots -> BOOLEAN]
    /\ hand \in [Slots -> Hand \cup {NULL}]
    /\ cur \in [Slots -> Local \cup {NULL}]
    /\ obs \in {"start", "first", "loop", "select", "notify"}
    /\ watch \subseteq Slots
    /\ todo \subseteq Slots
    /\ pipe \in Nat
    /\ toSdb \in [Slots -> Seq(Packet)]
    /\ toApp \in [Slots -> Seq(Packet)]
    /\ closed \in [Slots -> BOOLEAN]
    /\ sent \in [Slots -> Nat]
    /\ replies \in [Slots -> Nat]

\* "Mutex is always locked when not waiting to cond variable" (sdb_module.c:582),
\* it is released when waiting, and a thread writes into a mailbox only with the
\* lock of that mailbox.
LockDiscipline ==
    \A m \in Slots :
        /\ pc[m] \in {"handshake", "naming", "group", "loop", "scan", "found",
                      "lockTo", "write", "waitTo"} => owner[m] = m
        /\ pc[m] \in {"wait", "relock"} => owner[m] # m
        /\ pc[m] = "write" => owner[hand[m].to] = m

\* A module that sends to itself never finds its own mailbox full: the branch
\* "Deadlock detected", which loses the packet and keeps the lock, is not taken.
SelfSendNeverBlocks ==
    \A m \in Slots : pc[m] = "lockTo" /\ hand[m].to = m => ~data_valid[m]

\* A packet in a mailbox is not overwritten before its module has taken it.
NoOverwrite ==
    [][\A m \in Slots : data_valid[m] /\ data_valid'[m] => data'[m] = data[m]]_vars

\* An answer reaches the client that asked, whoever sent it and in whatever
\* order the answers came.
AnswerToRequester ==
    \A m \in Slots : \A i \in 1..Len(toApp[m]) :
        toApp[m][i].type = "ans" => toApp[m][i].id[1] = m

\* A request reaches only the module it is addressed to.  The exception is a
\* destination that is the beginning of a longer name: the scan may meet that
\* name while it is being copied, and the request then goes to the wrong module,
\* even if the right one is in the table.  A name that no other begins with is
\* safe however handshakes and scans interleave.
RequestToAddressee ==
    \A m \in Slots : \A i \in 1..Len(toApp[m]) :
        toApp[m][i].type = "req" =>
            \/ name[m] = dest_name(toApp[m][i])
            \/ dest_name(toApp[m][i]) \in Begun[name[m]]

\* No request is answered twice, even if the module that serves it answers twice.
AtMostOneAnswer ==
    \A m \in Slots : \A i, j \in 1..Len(toApp[m]) :
        /\ toApp[m][i].type = "ans" /\ toApp[m][j].type = "ans"
        /\ toApp[m][i].id = toApp[m][j].id
        => i = j

\* An answer on its way through the bus is still expected where it goes to, so
\* process_pkt_sdb never throws it away as "Unexpected answer".
Expected(s, p) == p.type = "ans" => Expects(queue[s], p.id)
AnswerExpected ==
    \A m \in Slots :
        /\ data_valid[m] => Expected(m, data[m].pkt)
        /\ hand[m] # NULL => Expected(hand[m].to, hand[m].pkt)

\* Two modules never wait for the lock of each other.
NoCircularWait ==
    \A a, b \in Slots :
        ~ /\ a # b
          /\ pc[a] = "lockTo" /\ hand[a].to = b
          /\ pc[b] = "lockTo" /\ hand[b].to = a

\* Every request a client has sent is answered ("All commands will receive an
\* answer", doc/sdb_mcs/sdb_mcs.tex:378).
AllAnswered ==
    \A m \in Slots : \A n \in 1..(MaxSend - 1) :
        sent[m] > n ~>
            \E i \in 1..Len(toApp[m]) :
                toApp[m][i].type = "ans" /\ toApp[m][i].id = <<m, n>>

\* A packet put into a mailbox is taken out.
MailboxServed ==
    \A m \in Slots : data_valid[m] ~> (~data_valid[m] \/ ~up)

\* A module whose handshake is done is noticed by the observer ("Now that
\* everything is ready, wake up the observer to notice us", sdb_module.c:575).
Noticed ==
    \A m \in Slots :
        (pc[m] = "wait" /\ toSdb[m] # <<>>) ~> (toSdb[m] = <<>> \/ ~up)

\* What a client sends is read, unless its thread is sending, a refused
\* connection blinds the observer, or the observer has missed its wake-up.
SocketServed ==
    \A m \in Slots :
        (toSdb[m] # <<>> /\ obs \notin {"start", "first"})
            ~> (\/ toSdb[m] = <<>> \/ ~up
                \/ pc[m] \in {"lockTo", "write", "waitTo"}
                \/ \E s \in Slots : pc[s] = "dead")

=============================================================================
