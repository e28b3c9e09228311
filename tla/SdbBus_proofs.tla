---------------------------- MODULE SdbBus_proofs ----------------------------
(***************************************************************************)
(* Proofs about SdbBus, for any number of modules, packets and names.      *)
(*                                                                         *)
(* IInv is the inductive invariant.  LockInv says who holds which mutex    *)
(* and how often, and that the mailbox of a thread that is sending is      *)
(* empty; TableInv which slots the table has; RouteInv that the id of a    *)
(* packet names the module that asked, wherever the packet or its queue    *)
(* entry is, and that a request travels to a slot whose client has the     *)
(* name it is addressed to, or a name that begins with it;                 *)
(* FreshInv that the first packet of a connection is not an answer.        *)
(*                                                                         *)
(* That a request is answered once, and that no answer is thrown away,     *)
(* rests on a second invariant: LifeInv counts where a request and its     *)
(* answer are, and KeptInv says that the entry of the queue an answer on   *)
(* its way will close is still there.                                      *)
(***************************************************************************)
EXTENDS SdbBus, SdbQueue_proofs

USE DEF Place

Sending == {"lockTo", "write", "waitTo"}
Naming == {"naming", "group"}
Scanning == {"scan", "found"}
Holding == {"handshake", "loop", "dead"} \cup Naming \cup Scanning \cup Sending

\* Before its handshake is done, and while it serves a packet of its client, a
\* module has an empty mailbox: its lock is taken, and it looks there first.
Fresh(m) == pc[m] \in {"none", "handshake"} \cup Naming
Closed == {"none", "handshake"} \cup Naming \cup Scanning \cup Sending

LockInv ==
    \A m \in Slots :
        /\ owner[m] = m <=> pc[m] \in Holding
        /\ \A s \in Slots : s # m /\ owner[s] = m => pc[m] = "write" /\ hand[m].to = s
        /\ pc[m] \in Closed => ~data_valid[m]
        /\ pc[m] \in Sending => hand[m] \in Hand
        /\ pc[m] = "write" => owner[hand[m].to] = m /\ ~data_valid[hand[m].to]
        /\ depth[m] = IF owner[m] = None THEN 0
                      ELSE IF pc[m] = "write" /\ hand[m].to = m THEN 2 ELSE 1

\* What a slot may show as its name while the handshake copies it.
Shown(m) == Begun[AppName[m]] \cup {AppName[m]}

TableInv ==
    \A m \in Slots :
        /\ pc[m] = "none" <=> m >= last
        /\ name[m] # NULL => AppName[m] # NULL /\ name[m] \in Shown(m)
        /\ pc[m] \in Naming => AppName[m] # NULL
        /\ pc[m] \notin {"none", "handshake", "naming", "dead"} => name[m] = AppName[m]

\* The request p is for the slot s, or has met its name half-written.
For(s, p) ==
    p.type = "req" => AppName[s] # NULL /\ dest_name(p) \in Shown(s)

\* A packet a client has sent, and one it has received.
SentOK(m, p) == p.type # "ans" => p.id[1] = m
ReceivedOK(m, p) ==
    /\ p.type = "ans" => p.id[1] = m
    /\ p.type = "req" => name[m] = AppName[m]
    /\ For(m, p)

\* A packet on its way through the bus, and a queue entry.
OnWay(p, from, to) ==
    /\ from < last /\ to < last
    /\ p.type \in {"req", "ans"}
    /\ p.id[1] = IF p.type = "req" THEN from ELSE to
    /\ For(to, p)
ElemOK(e) == e.id_process < last /\ e.id_process = e.id[1]

\* A packet a thread is working at: its handshake, or a request it looks for
\* the addressee of, and where it is in its scan.
CurOK(m, l) ==
    /\ l \in Local /\ l.pkt.type = "req" /\ l.pkt.id[1] = m /\ l.list_num <= last
LooksAt(l) == l.i \in Slots /\ l.i < last /\ For(l.i, l.pkt)

RouteInv ==
    \A m \in Slots :
        /\ \A i \in 1..Len(toSdb[m]) : SentOK(m, toSdb[m][i])
        /\ \A i \in 1..Len(queue[m]) : ElemOK(queue[m][i])
        /\ pc[m] \in Naming \cup Scanning => CurOK(m, cur[m])
        /\ pc[m] = "found" => LooksAt(cur[m])
        /\ pc[m] \in Sending => OnWay(hand[m].pkt, m, hand[m].to)
        /\ data_valid[m] => data[m] \in Mail /\ OnWay(data[m].pkt, data[m].from, m)
        /\ \A i \in 1..Len(toApp[m]) : ReceivedOK(m, toApp[m][i])

\* Before its handshake a client has received nothing, so it answers nothing,
\* and its queue is empty.
FreshInv ==
    \A m \in Slots : Fresh(m) =>
        /\ \A i \in 1..Len(toApp[m]) : FALSE
        /\ \A i \in 1..Len(queue[m]) : FALSE
        /\ \A i \in 1..Len(toSdb[m]) : toSdb[m][i].type # "ans"

IInv == TypeOK /\ LockInv /\ TableInv /\ RouteInv /\ FreshInv

-----------------------------------------------------------------------------
(* What the steps leave in the queues and on the sockets.                  *)

\* All that is new on the sockets is in X, on the socket of m.
Written(m, X) ==
    /\ toApp' \in [Slots -> Seq(Packet)]
    /\ \A s \in Slots : \A i \in 1..Len(toApp'[s]) :
        \/ \E j \in 1..Len(toApp[s]) : toApp'[s][i] = toApp[s][j]
        \/ s = m /\ toApp'[s][i] \in X

\* All that is new in the queues is in X, in the queue of m.
Queued(m, X) ==
    /\ queue' \in [Slots -> Seq(Elem)]
    /\ \A s \in Slots : \A i \in 1..Len(queue'[s]) :
        \/ \E j \in 1..Len(queue[s]) : queue'[s][i] = queue[s][j]
        \/ s = m /\ queue'[s][i] \in X

\* The packets that answer p.
Answers(p) == {Ans(p, r) : r \in Result}

LEMMA AnswersArePackets ==
    ASSUME NEW p \in Packet
    PROVE  Answers(p) \subseteq Packet
<1> SUFFICES ASSUME NEW r \in Result PROVE Ans(p, r) \in Packet
  BY DEF Answers
<1>1. p.id \in Id
  BY DEF Packet
<1> QED
  BY <1>1 DEF Ans, Packet

LEMMA WriteEffect ==
    ASSUME TypeOK, NEW m \in Slots, NEW X \in SUBSET Packet, NEW ps \in Seq(X),
           Write(m, ps)
    PROVE  Written(m, X) /\ up' \in BOOLEAN
<1>1. toApp \in [Slots -> Seq(Packet)] /\ up \in BOOLEAN
  BY DEF TypeOK
<1>2. CASE closed[m]
  BY <1>1, <1>2 DEF Write, Written
<1>3. CASE ~closed[m]
  <2>1. toApp' = [toApp EXCEPT ![m] = @ \o ps] /\ up' = up
    BY <1>3 DEF Write
  <2>2. ps \in Seq(Packet)
    OBVIOUS
  <2>3. toApp' \in [Slots -> Seq(Packet)]
    BY <1>1, <2>1, <2>2
  <2>4. ASSUME NEW s \in Slots, NEW i \in 1..Len(toApp'[s])
        PROVE  \/ \E j \in 1..Len(toApp[s]) : toApp'[s][i] = toApp[s][j]
               \/ s = m /\ toApp'[s][i] \in X
    <3>1. CASE s # m
      BY <1>1, <2>1, <3>1
    <3>2. CASE s = m
      <4>1. toApp'[s] = toApp[s] \o ps
        BY <1>1, <2>1, <3>2
      <4>2. CASE i \in 1..Len(toApp[s])
        BY <1>1, <2>2, <4>1, <4>2
      <4>3. CASE i \notin 1..Len(toApp[s])
        <5>1. i - Len(toApp[s]) \in 1..Len(ps) /\ toApp'[s][i] = ps[i - Len(toApp[s])]
          BY <1>1, <2>2, <4>1, <4>3
        <5> QED BY <3>2, <5>1
      <4> QED BY <4>2, <4>3
    <3> QED BY <3>1, <3>2
  <2> QED BY <1>1, <2>1, <2>3, <2>4 DEF Written
<1> QED BY <1>2, <1>3

LEMMA NothingWritten ==
    ASSUME TypeOK, NEW m \in Slots, NEW X, UNCHANGED toApp
    PROVE  Written(m, X)
BY DEF TypeOK, Written

LEMMA NothingQueued ==
    ASSUME TypeOK, NEW m \in Slots, NEW X, UNCHANGED queue
    PROVE  Queued(m, X)
BY DEF TypeOK, Queued

LEMMA ElemPriority == IsElemSet(Elem)
BY DEF IsElemSet, Elem, SDB_PACKET_DEFAULT_PRIO

LEMMA ElemPush ==
    ASSUME NEW q \in Seq(Elem), NEW e \in Elem
    PROVE  /\ Push(q, e) \in Seq(Elem)
           /\ \A i \in 1..Len(Push(q, e)) :
                Push(q, e)[i] = e \/ \E j \in 1..Len(q) : Push(q, e)[i] = q[j]
BY ElemPriority, PushElements

LEMMA PushEffect ==
    ASSUME TypeOK, NEW m \in Slots, NEW id \in Id, NEW from \in Slots,
           queue' = [queue EXCEPT ![m] = Push(@, sdb_packet(id, from))]
    PROVE  Queued(m, {sdb_packet(id, from)})
<1> DEFINE e == sdb_packet(id, from)
<1>1. e \in Elem
  BY DEF sdb_packet, Elem
<1>2. queue \in [Slots -> Seq(Elem)] /\ queue[m] \in Seq(Elem)
  BY DEF TypeOK
<1> HIDE DEF e
<1>3. /\ Push(queue[m], e) \in Seq(Elem)
      /\ \A i \in 1..Len(Push(queue[m], e)) :
            Push(queue[m], e)[i] = e \/ \E j \in 1..Len(queue[m]) : Push(queue[m], e)[i] = queue[m][j]
  BY <1>1, <1>2, ElemPush, Zenon
<1> QED
  BY <1>2, <1>3 DEF Queued, e

LEMMA DeleteEffect ==
    ASSUME TypeOK, NEW m \in Slots, NEW id, Expects(queue[m], id),
           queue' = [queue EXCEPT ![m] = Delete(@, Match(@, id))]
    PROVE  Queued(m, {})
<1>1. queue \in [Slots -> Seq(Elem)] /\ queue[m] \in Seq(Elem)
  BY DEF TypeOK
<1>2. Match(queue[m], id) \in 1..Len(queue[m])
  BY <1>1, MatchPlace, Zenon
<1> DEFINE d == Delete(queue[m], Match(queue[m], id))
<1>3. d \in Seq(Elem) /\ \A j \in 1..Len(d) : \E k \in 1..Len(queue[m]) : d[j] = queue[m][k]
  BY <1>1, <1>2, DeleteElements, Zenon
<1> HIDE DEF d
<1>4. queue' = [queue EXCEPT ![m] = d]
  BY DEF d
<1> QED
  BY <1>1, <1>3, <1>4 DEF Queued

\* A broadcast moves threads only from waiting to about to lock.
LEMMA BroadcastEffect ==
    ASSUME TypeOK, NEW s \in Slots
    PROVE  /\ Broadcast(pc, s) \in [Slots -> Place]
           /\ \A m \in Slots :
                \/ Broadcast(pc, s)[m] = pc[m]
                \/ pc[m] = "wait" /\ Broadcast(pc, s)[m] = "relock"
                \/ pc[m] = "waitTo" /\ Broadcast(pc, s)[m] = "lockTo"
BY DEF TypeOK, Broadcast

-----------------------------------------------------------------------------
(* process_pkt_socket, whatever the packet.                                *)

\* The thread has started to send p to a slot of the table: an answer to the
\* module that asked, a request to a slot that has shown the name it is for.
Forwarded(m, p) ==
    \E to \in Slots :
        /\ hand' = [hand EXCEPT ![m] = [pkt |-> p, to |-> to]]
        /\ pc' = [pc EXCEPT ![m] = "lockTo"]
        /\ cur' = [cur EXCEPT ![m] = NULL]
        /\ p.type \in {"req", "ans"}
        /\ to < last
        /\ p.type = "ans" => to = p.id[1]
        /\ For(to, p)

\* It is done with the packet, or looks for the addressee of p.
Back(m) ==
    /\ pc' = [pc EXCEPT ![m] = "loop"]
    /\ cur' = [cur EXCEPT ![m] = NULL]
    /\ UNCHANGED hand
Looks(m, p) ==
    \E a \in Scanning, l \in Local :
        /\ pc' = [pc EXCEPT ![m] = a]
        /\ cur' = [cur EXCEPT ![m] = l]
        /\ UNCHANGED hand
        /\ p.type = "req" /\ l.pkt = p /\ l.list_num <= last
        /\ a = "found" => LooksAt(l)
Outcome(m, p) == UNCHANGED modVars \/ Back(m) \/ Looks(m, p) \/ Forwarded(m, p)

SocketEffect(m, p) ==
    /\ Written(m, IF p.type = "ans" THEN {} ELSE Answers(p))
    /\ Queued(m, IF p.type = "ans" THEN {} ELSE {sdb_packet(p.id, m)})
    /\ up' \in BOOLEAN
    /\ data_socket' \in [Slots -> BOOLEAN]
    /\ qos_enabled' \in [Slots -> BOOLEAN]
    /\ Outcome(m, p)

LEMMA DoneEffect ==
    ASSUME TypeOK, NEW m \in Slots, Done(m)
    PROVE  data_socket' \in [Slots -> BOOLEAN] /\ Back(m)
BY DEF Done, TypeOK, Back

LEMMA RefuseEffect ==
    ASSUME TypeOK, NEW m \in Slots, NEW p \in Packet, p.type # "ans",
           NEW err \in Result, Refuse(m, p, err)
    PROVE  SocketEffect(m, p)
<1>1. <<Ans(p, err)>> \in Seq(Answers(p))
  BY DEF Answers
<1>2. Written(m, Answers(p)) /\ up' \in BOOLEAN
  BY <1>1, AnswersArePackets, WriteEffect DEF Refuse
<1>3. Queued(m, {sdb_packet(p.id, m)})
  BY NothingQueued DEF Refuse
<1>4. data_socket' \in [Slots -> BOOLEAN] /\ Back(m)
  BY DoneEffect DEF Refuse
<1>5. qos_enabled' \in [Slots -> BOOLEAN]
  BY DEF Refuse, TypeOK
<1> QED
  BY <1>2, <1>3, <1>4, <1>5 DEF SocketEffect, Outcome

LEMMA SdbMessageEffect ==
    ASSUME TypeOK, NEW m \in Slots, NEW p \in Packet, p.type # "ans",
           process_sdb_message(m, p)
    PROVE  SocketEffect(m, p)
<1> DEFINE dump == Ans(p, IF qos_enabled[m] THEN "data" ELSE "EUNDEF")
           ps == CASE p.cmd = "sdb_qos_start" -> <<Ans(p, "ok")>>
                   [] p.cmd = "sdb_qos_dump"  -> <<dump>>
                   [] p.cmd = "sdb_qos_stop"  -> <<dump, Ans(p, "EBADFORMAT")>>
                   [] OTHER                   -> <<Ans(p, "EBADFORMAT")>>
<1>1. /\ dump \in Answers(p) /\ Ans(p, "ok") \in Answers(p)
      /\ Ans(p, "EBADFORMAT") \in Answers(p)
  BY DEF Answers, Result
<1>2. ps \in Seq(Answers(p))
  <2> HIDE DEF dump
  <2>1. /\ <<Ans(p, "ok")>> \in Seq(Answers(p))
        /\ <<dump>> \in Seq(Answers(p))
        /\ <<dump, Ans(p, "EBADFORMAT")>> \in Seq(Answers(p))
        /\ <<Ans(p, "EBADFORMAT")>> \in Seq(Answers(p))
    BY <1>1
  <2> QED BY <2>1
<1>3. Write(m, ps) /\ Done(m) /\ UNCHANGED queue
  BY DEF process_sdb_message
<1>4. qos_enabled' \in [Slots -> BOOLEAN]
  BY DEF process_sdb_message, TypeOK
<1> HIDE DEF ps
<1>5. Written(m, Answers(p)) /\ up' \in BOOLEAN
  BY <1>2, <1>3, AnswersArePackets, WriteEffect
<1> QED
  BY <1>3, <1>4, <1>5, NothingQueued, DoneEffect DEF SocketEffect, Outcome

LEMMA CrashEffect ==
    ASSUME TypeOK, NEW m \in Slots, NEW p \in Packet, Crash
    PROVE  SocketEffect(m, p)
<1>1. /\ Written(m, IF p.type = "ans" THEN {} ELSE Answers(p))
      /\ Queued(m, IF p.type = "ans" THEN {} ELSE {sdb_packet(p.id, m)})
  BY NothingWritten, NothingQueued DEF Crash
<1>2. data_socket' \in [Slots -> BOOLEAN] /\ qos_enabled' \in [Slots -> BOOLEAN]
  BY DEF Crash, TypeOK
<1> QED
  BY <1>1, <1>2 DEF Crash, SocketEffect, Outcome

\* Send either gives the packet up or starts to send it.
LEMMA SendEffect ==
    ASSUME TypeOK, NEW m \in Slots, NEW p \in Packet, NEW to \in Slots, Send(m, p, to),
           p.type \in {"req", "ans"}, to < last, p.type = "ans" => to = p.id[1], For(to, p)
    PROVE  data_socket' \in [Slots -> BOOLEAN] /\ Outcome(m, p)
<1>1. CASE p.big
  BY <1>1, DoneEffect DEF Send, Outcome
<1>2. CASE ~p.big
  BY <1>2 DEF Send, Forwarded, Outcome, TypeOK
<1> QED BY <1>1, <1>2

LEMMA AnswerEffect ==
    ASSUME IInv, NEW m \in Slots, NEW p \in Packet, p.type = "ans", process_answer(m, p)
    PROVE  SocketEffect(m, p)
<1>1. TypeOK /\ Written(m, {}) /\ up' \in BOOLEAN /\ qos_enabled' \in [Slots -> BOOLEAN]
  BY NothingWritten DEF IInv, process_answer, TypeOK
<1>2. CASE ~Expects(queue[m], p.id)
  <2>1. Done(m) /\ UNCHANGED queue
    BY <1>2 DEF process_answer
  <2> QED
    BY <1>1, <2>1, DoneEffect, NothingQueued DEF SocketEffect, Outcome
<1>3. CASE Expects(queue[m], p.id)
  <2> DEFINE i == Match(queue[m], p.id)
             to == queue[m][i].id_process
  <2>1. queue' = [queue EXCEPT ![m] = Delete(@, Match(@, p.id))] /\ Send(m, p, to)
    BY <1>3 DEF process_answer
  <2>2. queue[m] \in Seq(Elem)
    BY <1>1 DEF TypeOK
  <2>3. i \in 1..Len(queue[m]) /\ Closes(queue[m][i], p.id)
    BY <1>3, <2>2, MatchPlace, Zenon
  <2> HIDE DEF i
  <2>4. queue[m][i] \in Elem /\ queue[m][i].id = p.id
    BY <2>2, <2>3 DEF Closes
  <2>5. to \in Slots /\ to < last /\ to = p.id[1]
    BY <2>3, <2>4 DEF Elem, IInv, RouteInv, ElemOK
  <2>6. Queued(m, {})
    BY <1>1, <1>3, <2>1, DeleteEffect
  <2>7. For(to, p)
    BY DEF For
  <2> HIDE DEF to
  <2>8. data_socket' \in [Slots -> BOOLEAN] /\ Outcome(m, p)
    BY <1>1, <2>1, <2>5, <2>7, SendEffect
  <2> QED
    BY <1>1, <2>6, <2>8 DEF SocketEffect
<1> QED BY <1>2, <1>3

\* A step that leaves the sockets and the queues alone.
LEMMA SilentEffect ==
    ASSUME TypeOK, NEW m \in Slots, NEW p \in Packet, Outcome(m, p),
           UNCHANGED <<up, data_socket, queue, qos_enabled, toApp>>
    PROVE  SocketEffect(m, p)
<1>1. /\ Written(m, IF p.type = "ans" THEN {} ELSE Answers(p))
      /\ Queued(m, IF p.type = "ans" THEN {} ELSE {sdb_packet(p.id, m)})
  BY NothingWritten, NothingQueued
<1> QED
  BY <1>1 DEF SocketEffect, TypeOK

LEMMA MessageEffect ==
    ASSUME IInv, NEW m \in Slots, NEW p \in Packet, p.type = "req",
           process_pkt_message(m, p)
    PROVE  SocketEffect(m, p)
<1>1. TypeOK /\ "EPERM" \in Result
  BY DEF IInv, Result
<1>2. CASE Refuse(m, p, "EPERM")
  BY <1>1, <1>2, RefuseEffect
<1>3. CASE process_sdb_message(m, p)
  BY <1>1, <1>3, SdbMessageEffect
<1>4. CASE /\ cur' = [cur EXCEPT ![m] = [pkt |-> p, i |-> 0, list_num |-> last]]
           /\ pc' = [pc EXCEPT ![m] = "scan"]
           /\ UNCHANGED <<up, hand, data_socket, queue, qos_enabled, toApp>>
  <2> DEFINE l == [pkt |-> p, i |-> 0, list_num |-> last]
  <2>1. last \in 0..MaxConn /\ 0 \in 0..MaxConn /\ last <= last
    BY <1>1, BusAssumption DEF TypeOK, SDB_MODULE_MAX
  <2>2. l \in Local /\ l.pkt = p /\ l.list_num <= last
    BY <2>1 DEF Local
  <2>3. "scan" \in Scanning /\ "scan" # "found"
    BY DEF Scanning
  <2>4. cur' = [cur EXCEPT ![m] = l] /\ pc' = [pc EXCEPT ![m] = "scan"] /\ UNCHANGED hand
    BY <1>4
  <2> HIDE DEF l
  <2>5. Outcome(m, p)
    BY <2>2, <2>3, <2>4 DEF Outcome, Looks
  <2> QED BY <1>1, <1>4, <2>5, SilentEffect
<1> QED
  BY <1>2, <1>3, <1>4 DEF process_pkt_message

LEMMA PayloadEffect ==
    ASSUME TypeOK, NEW m \in Slots, NEW p \in Packet, p.type = "req",
           process_pkt_payload(m, p)
    PROVE  SocketEffect(m, p)
<1>1. p.id \in Id
  BY DEF Packet
<1>2. Queued(m, {sdb_packet(p.id, m)})
  BY <1>1, PushEffect DEF process_pkt_payload
<1>3. Written(m, Answers(p)) /\ up' \in BOOLEAN /\ qos_enabled' \in [Slots -> BOOLEAN]
  BY NothingWritten DEF process_pkt_payload, TypeOK
<1> QED
  BY <1>2, <1>3, DoneEffect DEF process_pkt_payload, SocketEffect, Outcome

\* The first packet on a socket.
LEMMA HeadPacket ==
    ASSUME IInv, NEW m \in Slots, toSdb[m] # <<>>
    PROVE  /\ Head(toSdb[m]) \in Packet
           /\ Head(toSdb[m]).type # "ans" => Head(toSdb[m]).id[1] = m
<1>1. toSdb[m] \in Seq(Packet)
  BY DEF IInv, TypeOK
<1>2. 1 \in 1..Len(toSdb[m]) /\ Head(toSdb[m]) = toSdb[m][1]
  BY <1>1
<1> QED
  BY <1>1, <1>2 DEF IInv, RouteInv, SentOK

LEMMA SocketStep ==
    ASSUME IInv, NEW m \in Slots, process_pkt_socket(m)
    PROVE  SocketEffect(m, Head(toSdb[m]))
<1> DEFINE p == Head(toSdb[m])
<1>1. p \in Packet
  BY HeadPacket DEF process_pkt_socket
<1>2. TypeOK /\ "EBADFORMAT" \in Result
  BY DEF IInv, Result
<1>3. \/ /\ p.type = "bad" /\ Write(m, <<Ans(p, "EBADFORMAT")>>)
         /\ UNCHANGED <<modVars, data_socket, queue, qos_enabled>>
      \/ p.type = "ans" /\ process_answer(m, p)
      \/ p.type = "req" /\ process_pkt_message(m, p)
      \/ p.type = "req" /\ Crash
      \/ p.type = "req" /\ process_pkt_payload(m, p)
  BY DEF process_pkt_socket
<1> HIDE DEF p
<1>4. CASE /\ p.type = "bad" /\ Write(m, <<Ans(p, "EBADFORMAT")>>)
           /\ UNCHANGED <<modVars, data_socket, queue, qos_enabled>>
  <2>1. <<Ans(p, "EBADFORMAT")>> \in Seq(Answers(p))
    BY <1>2 DEF Answers
  <2>2. Written(m, Answers(p)) /\ up' \in BOOLEAN
    BY <1>1, <1>2, <1>4, <2>1, AnswersArePackets, WriteEffect
  <2>3. Queued(m, {sdb_packet(p.id, m)})
    BY <1>2, <1>4, NothingQueued
  <2>4. data_socket' \in [Slots -> BOOLEAN] /\ qos_enabled' \in [Slots -> BOOLEAN]
    BY <1>2, <1>4 DEF TypeOK
  <2>5. SocketEffect(m, p)
    BY <1>4, <2>2, <2>3, <2>4 DEF SocketEffect, Outcome
  <2> QED BY <2>5 DEF p
<1>5. CASE p.type = "ans" /\ process_answer(m, p)
  BY <1>1, <1>5, AnswerEffect DEF p
<1>6. CASE p.type = "req" /\ process_pkt_message(m, p)
  BY <1>1, <1>6, MessageEffect DEF p
<1>7. CASE p.type = "req" /\ Crash
  BY <1>1, <1>2, <1>7, CrashEffect DEF p
<1>8. CASE p.type = "req" /\ process_pkt_payload(m, p)
  BY <1>1, <1>2, <1>8, PayloadEffect DEF p
<1> QED BY <1>3, <1>4, <1>5, <1>6, <1>7, <1>8

-----------------------------------------------------------------------------
(* The scan of the table.                                                  *)

LEMMA ScanStep ==
    ASSUME IInv, NEW m \in Slots, scan_step(m)
    PROVE  SocketEffect(m, cur[m].pkt)
<1> DEFINE p == cur[m].pkt
           i == cur[m].i
<1>1. /\ TypeOK /\ pc[m] = "scan" /\ cur[m] \in Local /\ p \in Packet /\ p.type = "req"
      /\ i \in 0..MaxConn /\ cur[m].list_num \in 0..MaxConn /\ cur[m].list_num <= last
      /\ "EBADMODID" \in Result
  BY DEF IInv, RouteInv, CurOK, Local, scan_step, Scanning, Result
<1>2. CASE Refuse(m, p, "EBADMODID")
  BY <1>1, <1>2, RefuseEffect
<1>3. CASE Crash
  BY <1>1, <1>3, CrashEffect
<1>4. CASE /\ i < cur[m].list_num /\ name[i] # NULL
           /\ IF Named(i, dest_name(p))
              THEN pc' = [pc EXCEPT ![m] = "found"] /\ UNCHANGED cur
              ELSE cur' = [cur EXCEPT ![m].i = i + 1] /\ UNCHANGED pc
           /\ UNCHANGED <<up, hand, data_socket, queue, qos_enabled, toApp>>
  <2>1. i \in Slots /\ i < last
    <3>1. MaxConn \in Int /\ last \in 0..MaxConn
      BY <1>1, BusAssumption DEF TypeOK
    <3> QED BY <1>1, <1>4, <3>1 DEF Slots
  <2>2. pc \in [Slots -> Place] /\ cur \in [Slots -> Local \cup {NULL}]
    BY <1>1 DEF TypeOK
  <2>3. CASE Named(i, dest_name(p))
    <3>1. For(i, p)
      BY <1>4, <2>1, <2>3 DEF IInv, TableInv, For, Named
    <3>2. LooksAt(cur[m])
      BY <2>1, <3>1 DEF LooksAt
    <3>3. pc' = [pc EXCEPT ![m] = "found"] /\ cur' = [cur EXCEPT ![m] = cur[m]] /\ UNCHANGED hand
      BY <1>4, <2>2, <2>3
    <3>4. Outcome(m, p)
      BY <1>1, <3>2, <3>3 DEF Outcome, Looks, Scanning
    <3> QED BY <1>1, <1>4, <3>4, SilentEffect
  <2>4. CASE ~Named(i, dest_name(p))
    <3> DEFINE l == [cur[m] EXCEPT !.i = i + 1]
    <3>1. i + 1 \in 0..MaxConn
      <4>1. MaxConn \in Int
        BY BusAssumption
      <4> QED BY <1>1, <1>4, <4>1
    <3>2. l \in Local /\ l.pkt = p /\ l.list_num = cur[m].list_num
      BY <1>1, <3>1 DEF Local
    <3>3. cur' = [cur EXCEPT ![m] = l] /\ pc' = [pc EXCEPT ![m] = "scan"] /\ UNCHANGED hand
      BY <1>1, <1>4, <2>2, <2>4
    <3> HIDE DEF l
    <3>4. Outcome(m, p)
      BY <1>1, <3>2, <3>3 DEF Outcome, Looks, Scanning
    <3> QED BY <1>1, <1>4, <3>4, SilentEffect
  <2> QED BY <2>3, <2>4
<1> QED BY <1>2, <1>3, <1>4 DEF scan_step

LEMMA ForwardStep ==
    ASSUME IInv, NEW m \in Slots, forward(m)
    PROVE  SocketEffect(m, cur[m].pkt)
<1> DEFINE p == cur[m].pkt
           i == cur[m].i
<1>1. /\ TypeOK /\ cur[m] \in Local /\ p \in Packet /\ p.id \in Id /\ p.type = "req"
      /\ i \in Slots /\ i < last /\ For(i, p) /\ "EPERM" \in Result
  BY DEF IInv, RouteInv, CurOK, LooksAt, Local, Packet, forward, Scanning, Result
<1>2. CASE Refuse(m, p, "EPERM")
  BY <1>1, <1>2, RefuseEffect
<1>3. CASE /\ queue' = [queue EXCEPT ![m] = Push(@, sdb_packet(p.id, m))]
           /\ Send(m, p, i)
           /\ UNCHANGED <<up, toApp, qos_enabled>>
  <2> HIDE DEF p, i
  <2>1. Written(m, Answers(p)) /\ up' \in BOOLEAN /\ qos_enabled' \in [Slots -> BOOLEAN]
    BY <1>1, <1>3, NothingWritten DEF TypeOK
  <2>2. Queued(m, {sdb_packet(p.id, m)})
    BY <1>1, <1>3, PushEffect
  <2>3. data_socket' \in [Slots -> BOOLEAN] /\ Outcome(m, p)
    BY <1>1, <1>3, SendEffect
  <2>4. SocketEffect(m, p)
    BY <1>1, <2>1, <2>2, <2>3 DEF SocketEffect
  <2> QED BY <2>4 DEF p
<1> QED BY <1>2, <1>3 DEF forward

\* Whatever the thread of m does with a packet of its client.
Works(m) == process_pkt_socket(m) \/ scan_step(m) \/ forward(m)

LEMMA WorkStep ==
    ASSUME IInv, NEW m \in Slots, Works(m)
    PROVE  /\ pc[m] \in {"loop"} \cup Scanning /\ ~data_valid[m]
           /\ UNCHANGED <<last, name, group, rfd, open, owner, depth, data, data_valid,
                          obs, watch, todo, pipe, closed, sent, replies>>
           /\ \/ UNCHANGED toSdb
              \/ toSdb[m] # <<>> /\ toSdb' = [toSdb EXCEPT ![m] = Tail(@)]
           /\ \E p \in Packet : SocketEffect(m, p) /\ (p.type # "ans" => p.id[1] = m)
<1>1. CASE process_pkt_socket(m)
  BY <1>1, SocketStep, HeadPacket
  DEF process_pkt_socket, slotVars, lockVars, boxVars, obsVars, appVars
<1>2. CASE scan_step(m)
  <2>1. pc[m] \in Scanning /\ ~data_valid[m] /\ cur[m].pkt \in Packet /\ cur[m].pkt.id[1] = m
    BY <1>2 DEF IInv, LockInv, RouteInv, CurOK, Local, Closed, Scanning, scan_step
  <2>2. UNCHANGED <<last, name, group, rfd, open, owner, depth, data, data_valid,
                    obs, watch, todo, pipe, closed, sent, replies, toSdb>>
    BY <1>2 DEF scan_step, slotVars, lockVars, boxVars, obsVars, appVars
  <2> QED BY <1>2, <2>1, <2>2, ScanStep
<1>3. CASE forward(m)
  <2>1. pc[m] \in Scanning /\ ~data_valid[m] /\ cur[m].pkt \in Packet /\ cur[m].pkt.id[1] = m
    BY <1>3 DEF IInv, LockInv, RouteInv, CurOK, Local, Closed, Scanning, forward
  <2>2. UNCHANGED <<last, name, group, rfd, open, owner, depth, data, data_valid,
                    obs, watch, todo, pipe, closed, sent, replies, toSdb>>
    BY <1>3 DEF forward, slotVars, lockVars, boxVars, obsVars, appVars
  <2> QED BY <1>3, <2>1, <2>2, ForwardStep
<1> QED BY <1>1, <1>2, <1>3 DEF Works

-----------------------------------------------------------------------------
(* The invariant is inductive.                                             *)

LEMMA SlotFacts == /\ Slots \subseteq Nat /\ None \notin Slots
                   /\ last \in 0..MaxConn /\ last < MaxConn => last \in Slots
BY BusAssumption DEF Slots, None, SDB_MODULE_MAX

LEMMA InitInv == Init => IInv
<1> SUFFICES ASSUME Init PROVE IInv
  OBVIOUS
<1>1. TypeOK
  BY BusAssumption DEF Init, TypeOK, Group, Slots, None, SDB_MODULE_MAX
<1>2. LockInv
  BY SlotFacts DEF Init, LockInv, Holding, Naming, Scanning, Sending
<1>3. TableInv
  BY SlotFacts DEF Init, TableInv, Naming
<1>4. RouteInv
  BY DEF Init, RouteInv, Sending, Naming, Scanning
<1>5. FreshInv
  BY DEF Init, FreshInv
<1> QED BY <1>1, <1>2, <1>3, <1>4, <1>5 DEF IInv

LEMMA UnlockDepth ==
    ASSUME IInv, NEW s \in Slots, owner[s] # None, Unlock(s)
    PROVE  /\ depth' \in [Slots -> Nat]
           /\ owner' \in [Slots -> Slots \cup {None}]
<1>1. depth[s] \in {1, 2}
  BY DEF IInv, LockInv
<1> QED
  BY <1>1, SMTT(30) DEF IInv, TypeOK, Unlock

LEMMA LockDepth ==
    ASSUME TypeOK, NEW s \in Slots, NEW who \in Slots, Lock(s, who)
    PROVE  /\ depth' \in [Slots -> Nat]
           /\ owner' \in [Slots -> Slots \cup {None}]
BY DEF TypeOK, Lock

\* An answer is written to the client.
LEMMA AnswerWritten ==
    ASSUME TypeOK, NEW m \in Slots, NEW p \in Packet, NEW r \in Result, Write(m, <<Ans(p, r)>>)
    PROVE  /\ Written(m, Answers(p)) /\ up' \in BOOLEAN
           /\ toApp' \in [Slots -> Seq(Packet)]
<1>1. <<Ans(p, r)>> \in Seq(Answers(p))
  BY DEF Answers
<1>2. Written(m, Answers(p)) /\ up' \in BOOLEAN
  BY <1>1, AnswersArePackets, WriteEffect
<1> QED BY <1>2 DEF Written

LEMMA TypeStep ==
    ASSUME IInv, Next
    PROVE  TypeOK'
<1>0. TypeOK /\ Slots \subseteq Nat
  BY SlotFacts DEF IInv
<1>1. CASE sdb_module_init
  <2>1. last \in Slots /\ last + 1 \in 0..MaxConn
    BY <1>0, <1>1, SlotFacts, BusAssumption DEF sdb_module_init, TypeOK, SDB_MODULE_MAX
  <2>2. depth' \in [Slots -> Nat] /\ owner' \in [Slots -> Slots \cup {None}]
    BY <1>0, <1>1, <2>1, LockDepth DEF sdb_module_init
  <2>3. /\ last' = last + 1
        /\ pc' = [pc EXCEPT ![last] = "handshake"]
        /\ qos_enabled' = [qos_enabled EXCEPT ![last] = TRUE]
        /\ rfd' \in [Slots -> Slots] /\ open' \subseteq Slots
    BY <1>0, <1>1, <2>1 DEF sdb_module_init, TypeOK
  <2>4. UNCHANGED <<up, hand, cur, name, group, data, data_valid, data_socket, queue, obs,
                    watch, todo, pipe, toSdb, toApp, closed, sent, replies>>
    BY <1>1 DEF sdb_module_init, boxVars, obsVars, appVars
  <2> QED
    BY <1>0, <2>1, <2>2, <2>3, <2>4 DEF TypeOK
<1>2. ASSUME NEW m \in Slots, handshake_error(m) PROVE TypeOK'
  <2>1. CASE toSdb[m] = <<>>
    BY <1>0, <1>2, <2>1 DEF handshake_error, TypeOK, boxVars, obsVars, appVars, lockVars
  <2>2. CASE toSdb[m] # <<>>
    <3> DEFINE p == Head(toSdb[m])
    <3>1. p \in Packet
      BY <2>2, HeadPacket
    <3>2. PICK err \in Result : Write(m, <<Ans(p, err)>>)
      BY <1>2, <2>2 DEF handshake_error, Result
    <3>3. toApp' \in [Slots -> Seq(Packet)] /\ up' \in BOOLEAN
      BY <1>0, <3>1, <3>2, AnswerWritten
    <3>4. toSdb' = [toSdb EXCEPT ![m] = Tail(@)] /\ Tail(toSdb[m]) \in Seq(Packet)
      BY <1>0, <1>2, <2>2 DEF handshake_error, TypeOK
    <3>5. pc' = [pc EXCEPT ![m] = "dead"] /\ open' = open \ {rfd[m]}
      BY <1>2 DEF handshake_error
    <3>6. UNCHANGED <<hand, cur, last, name, group, rfd, owner, depth, data, data_valid,
                      data_socket, queue, qos_enabled, obs, watch, todo, pipe, closed, sent,
                      replies>>
      BY <1>2 DEF handshake_error, boxVars, obsVars, appVars, lockVars
    <3> HIDE DEF p
    <3> QED
      BY <1>0, <3>3, <3>4, <3>5, <3>6 DEF TypeOK
  <2> QED BY <2>1, <2>2
<1>3. ASSUME NEW m \in Slots, handshake(m) PROVE TypeOK'
  <2> DEFINE p == cur[m].pkt
  <2>1. p \in Packet
    BY <1>3 DEF handshake, IInv, RouteInv, CurOK, Local, Naming
  <2>2. toApp' \in [Slots -> Seq(Packet)] /\ up' \in BOOLEAN
    BY <1>0, <1>3, <2>1, AnswerWritten DEF handshake, Result
  <2>4. owner[m] # None
    BY <1>3, SlotFacts DEF handshake, IInv, LockInv, Holding, Naming
  <2>5. depth' \in [Slots -> Nat] /\ owner' \in [Slots -> Slots \cup {None}]
    BY <1>3, <2>4, UnlockDepth DEF handshake
  <2>6. pc' \in [Slots -> Place]
    BY <1>0, <1>3, BroadcastEffect DEF handshake
  <2>8. /\ group' \in [Slots -> Group] /\ cur' \in [Slots -> Local \cup {NULL}]
        /\ data_valid' \in [Slots -> BOOLEAN] /\ data_socket' \in [Slots -> BOOLEAN]
        /\ pipe' \in Nat
    <3>1. /\ \E g \in Group : group' = [group EXCEPT ![m] = g]
          /\ cur' = [cur EXCEPT ![m] = NULL]
          /\ data_valid' = [data_valid EXCEPT ![m] = FALSE]
          /\ data_socket' = [data_socket EXCEPT ![m] = FALSE]
          /\ pipe' = pipe \/ pipe' = pipe + 1
      BY <1>3 DEF handshake
    <3> QED BY <1>0, <3>1 DEF TypeOK
  <2>9. UNCHANGED <<hand, last, name, rfd, open, data, queue, qos_enabled, obs, watch, todo,
                    toSdb, closed, sent, replies>>
    BY <1>3 DEF handshake, appVars
  <2> HIDE DEF p
  <2> QED
    BY <1>0, <2>2, <2>5, <2>6, <2>8, <2>9 DEF TypeOK
<1>20. ASSUME NEW m \in Slots, handshake_read(m) PROVE TypeOK'
  <2> DEFINE l == [pkt |-> Head(toSdb[m]), i |-> 0, list_num |-> 0]
  <2>1. Head(toSdb[m]) \in Packet /\ Tail(toSdb[m]) \in Seq(Packet)
    BY <1>0, <1>20, HeadPacket DEF handshake_read, TypeOK
  <2>2. l \in Local
    <3>1. 0 \in 0..MaxConn
      BY BusAssumption
    <3> QED BY <2>1, <3>1 DEF Local
  <2>3. Empty \in Names
    BY <1>20, BusAssumption DEF handshake_read
  <2>4. /\ cur' = [cur EXCEPT ![m] = l] /\ name' = [name EXCEPT ![m] = Empty]
        /\ pc' = [pc EXCEPT ![m] = "naming"] /\ toSdb' = [toSdb EXCEPT ![m] = Tail(@)]
        /\ UNCHANGED <<up, hand, last, group, rfd, open, owner, depth, data, data_valid,
                       data_socket, queue, qos_enabled, obs, watch, todo, pipe, toApp, closed,
                       sent, replies>>
    BY <1>20 DEF handshake_read, lockVars, boxVars, obsVars, appVars
  <2> HIDE DEF l
  <2> QED BY <1>0, <2>1, <2>2, <2>3, <2>4 DEF TypeOK
<1>21. ASSUME NEW m \in Slots, handshake_name(m) PROVE TypeOK'
  <2>1. AppName[m] \in Names /\ Begun[AppName[m]] \subseteq Names
    BY <1>21, BusAssumption DEF handshake_name, IInv, TableInv, Naming
  <2>2. /\ \E n \in Names : name' = [name EXCEPT ![m] = n]
        /\ UNCHANGED pc \/ pc' = [pc EXCEPT ![m] = "group"]
    BY <1>21, <2>1 DEF handshake_name
  <2>3. UNCHANGED <<up, hand, cur, last, group, rfd, open, owner, depth, data, data_valid,
                    data_socket, queue, qos_enabled, obs, watch, todo, pipe, toSdb, toApp, closed,
                    sent, replies>>
    BY <1>21 DEF handshake_name, lockVars, boxVars, obsVars, appVars
  <2>4. PICK n \in Names : name' = [name EXCEPT ![m] = n]
    BY <2>2
  <2>5. name' \in [Slots -> Names \cup {NULL}] /\ pc' \in [Slots -> Place]
    BY <1>0, <2>2, <2>4 DEF TypeOK
  <2> QED BY <1>0, <2>3, <2>5 DEF TypeOK
<1>22. ASSUME NEW m \in Slots, handshake_refuse(m) PROVE TypeOK'
  <2>1. cur[m].pkt \in Packet
    BY <1>22 DEF handshake_refuse, IInv, RouteInv, CurOK, Local, Naming
  <2>2. toApp' \in [Slots -> Seq(Packet)] /\ up' \in BOOLEAN
    BY <1>0, <1>22, <2>1, AnswerWritten DEF handshake_refuse, Result
  <2>3. /\ pc' = [pc EXCEPT ![m] = "dead"] /\ cur' = [cur EXCEPT ![m] = NULL]
        /\ open' = open \ {rfd[m]}
        /\ UNCHANGED <<hand, last, name, group, rfd, owner, depth, data, data_valid,
                       data_socket, queue, qos_enabled, obs, watch, todo, pipe, toSdb, closed,
                       sent, replies>>
    BY <1>22 DEF handshake_refuse, lockVars, boxVars, obsVars, appVars
  <2> QED BY <1>0, <2>2, <2>3 DEF TypeOK
<1>4. ASSUME NEW m \in Slots, cond_wait(m) PROVE TypeOK'
  <2>1. owner[m] # None
    BY <1>4, SlotFacts DEF cond_wait, IInv, LockInv, Holding
  <2>2. depth' \in [Slots -> Nat] /\ owner' \in [Slots -> Slots \cup {None}]
    BY <1>4, <2>1, UnlockDepth DEF cond_wait
  <2> QED
    BY <1>0, <1>4, <2>2 DEF cond_wait, TypeOK, slotVars, boxVars, obsVars, appVars
<1>5. ASSUME NEW m \in Slots, relock(m) PROVE TypeOK'
  <2>1. depth' \in [Slots -> Nat] /\ owner' \in [Slots -> Slots \cup {None}]
    BY <1>0, <1>5, LockDepth DEF relock
  <2> QED
    BY <1>0, <1>5, <2>1 DEF relock, TypeOK, slotVars, boxVars, obsVars, appVars
<1>6. ASSUME NEW m \in Slots, spurious_wakeup(m) PROVE TypeOK'
  BY <1>0, <1>6 DEF spurious_wakeup, TypeOK, slotVars, boxVars, obsVars, appVars, lockVars
<1>7. ASSUME NEW m \in Slots, process_pkt_sdb(m) PROVE TypeOK'
  <2> DEFINE p == data[m].pkt
  <2>1. data[m] \in Mail /\ p \in Packet /\ p.id \in Id /\ data[m].from \in Slots
    BY <1>7 DEF process_pkt_sdb, IInv, RouteInv, Mail, Packet
  <2>2. toApp' \in [Slots -> Seq(Packet)] /\ up' \in BOOLEAN /\ queue' \in [Slots -> Seq(Elem)]
    <3>1. CASE UNCHANGED <<queue, toApp, up>>
      BY <1>0, <3>1 DEF TypeOK
    <3>2. ASSUME Write(m, <<p>>) PROVE toApp' \in [Slots -> Seq(Packet)] /\ up' \in BOOLEAN
      <4>1. <<p>> \in Seq(Packet)
        BY <2>1
      <4> QED BY <1>0, <3>2, <4>1, WriteEffect DEF Written
    <3>3. CASE /\ Expects(queue[m], p.id) /\ Write(m, <<p>>)
               /\ queue' = [queue EXCEPT ![m] = Delete(@, Match(@, p.id))]
      <4>1. Queued(m, {})
        BY <1>0, <3>3, DeleteEffect
      <4> QED BY <3>2, <3>3, <4>1 DEF Queued
    <3>4. CASE /\ queue' = [queue EXCEPT ![m] = Push(@, sdb_packet(p.id, data[m].from))]
               /\ Write(m, <<p>>)
      <4>1. Queued(m, {sdb_packet(p.id, data[m].from)})
        BY <1>0, <2>1, <3>4, PushEffect
      <4> QED BY <3>2, <3>4, <4>1 DEF Queued
    <3> QED BY <1>7, <3>1, <3>3, <3>4 DEF process_pkt_sdb
  <2> QED
    BY <1>0, <1>7, <2>2
    DEF process_pkt_sdb, TypeOK, modVars, slotVars, lockVars, obsVars, appVars
<1>8. ASSUME NEW m \in Slots, Works(m) PROVE TypeOK'
  <2>1. PICK p \in Packet : SocketEffect(m, p)
    BY <1>8, WorkStep
  <2>2. toSdb' \in [Slots -> Seq(Packet)]
    <3>1. \/ UNCHANGED toSdb
          \/ toSdb[m] # <<>> /\ toSdb' = [toSdb EXCEPT ![m] = Tail(@)]
      BY <1>8, WorkStep
    <3>2. toSdb \in [Slots -> Seq(Packet)] /\ toSdb[m] \in Seq(Packet)
      BY <1>0 DEF TypeOK
    <3>3. toSdb[m] # <<>> => Tail(toSdb[m]) \in Seq(Packet)
      BY <3>2
    <3> QED BY <3>1, <3>2, <3>3
  <2>3. /\ toApp' \in [Slots -> Seq(Packet)] /\ queue' \in [Slots -> Seq(Elem)]
        /\ up' \in BOOLEAN
        /\ data_socket' \in [Slots -> BOOLEAN]
        /\ qos_enabled' \in [Slots -> BOOLEAN]
    BY <2>1 DEF SocketEffect, Written, Queued
  <2>4. /\ pc' \in [Slots -> Place]
        /\ hand' \in [Slots -> Hand \cup {NULL}]
        /\ cur' \in [Slots -> Local \cup {NULL}]
    <3>1. CASE UNCHANGED modVars
      BY <1>0, <3>1 DEF TypeOK, modVars
    <3>2. CASE Forwarded(m, p)
      <4>1. PICK to \in Slots : /\ hand' = [hand EXCEPT ![m] = [pkt |-> p, to |-> to]]
                                /\ pc' = [pc EXCEPT ![m] = "lockTo"]
                                /\ cur' = [cur EXCEPT ![m] = NULL]
        BY <3>2 DEF Forwarded
      <4>2. [pkt |-> p, to |-> to] \in Hand
        BY <2>1 DEF Hand
      <4> QED BY <1>0, <4>1, <4>2 DEF TypeOK
    <3>3. CASE Back(m)
      BY <1>0, <3>3 DEF Back, TypeOK
    <3>4. CASE Looks(m, p)
      <4>1. PICK a \in Scanning, l \in Local : /\ pc' = [pc EXCEPT ![m] = a]
                                               /\ cur' = [cur EXCEPT ![m] = l]
                                               /\ UNCHANGED hand
        BY <3>4 DEF Looks
      <4>2. a \in Place
        BY DEF Scanning
      <4> QED BY <1>0, <4>1, <4>2 DEF TypeOK
    <3> QED BY <2>1, <3>1, <3>2, <3>3, <3>4 DEF SocketEffect, Outcome
  <2>5. UNCHANGED <<last, name, group, rfd, open, owner, depth, data, data_valid,
                    obs, watch, todo, pipe, closed, sent, replies>>
    BY <1>8, WorkStep
  <2> QED
    BY <1>0, <2>2, <2>3, <2>4, <2>5 DEF TypeOK
<1>9. ASSUME NEW m \in Slots, read_timeout(m) PROVE TypeOK'
  BY <1>0, <1>9 DEF read_timeout, TypeOK, vars, modVars, slotVars, lockVars, boxVars, obsVars, appVars
<1>10. ASSUME NEW m \in Slots, lock_to(m) PROVE TypeOK'
  <2>1. hand[m] \in Hand /\ hand[m].to \in Slots
    BY <1>10 DEF lock_to, IInv, LockInv, Sending, Hand
  <2>2. depth' \in [Slots -> Nat] /\ owner' \in [Slots -> Slots \cup {None}]
    BY <1>0, <1>10, <2>1, LockDepth DEF lock_to, TypeOK, lockVars
  <2>3. /\ pc' \in [Slots -> Place]
        /\ hand' \in [Slots -> Hand \cup {NULL}]
        /\ data_socket' \in [Slots -> BOOLEAN]
    <3>1. \/ pc' = [pc EXCEPT ![m] = "write"]
          \/ pc' = [pc EXCEPT ![m] = "waitTo"]
          \/ pc' = [pc EXCEPT ![m] = "loop"]
      BY <1>10 DEF lock_to
    <3>2. hand' = hand \/ hand' = [hand EXCEPT ![m] = NULL]
      BY <1>10 DEF lock_to
    <3>3. data_socket' = data_socket \/ data_socket' = [data_socket EXCEPT ![m] = FALSE]
      BY <1>10 DEF lock_to
    <3> QED BY <1>0, <3>1, <3>2, <3>3 DEF TypeOK
  <2>4. UNCHANGED <<up, cur, last, name, group, rfd, open, data, data_valid, queue, qos_enabled,
                    obs, watch, todo, pipe, toSdb, toApp, closed, sent, replies>>
    BY <1>10 DEF lock_to, slotVars, boxVars, obsVars, appVars
  <2> QED
    BY <1>0, <2>2, <2>3, <2>4 DEF TypeOK
<1>11. ASSUME NEW m \in Slots, sdb_module_write_mcs_packet(m) PROVE TypeOK'
  <2> DEFINE to == hand[m].to
  <2>1. hand[m] \in Hand /\ to \in Slots /\ hand[m].pkt \in Packet /\ owner[to] = m
    BY <1>11 DEF sdb_module_write_mcs_packet, IInv, LockInv, Sending, Hand
  <2>2. depth' \in [Slots -> Nat] /\ owner' \in [Slots -> Slots \cup {None}]
    BY <1>11, <2>1, UnlockDepth, SlotFacts DEF sdb_module_write_mcs_packet
  <2>3. pc' \in [Slots -> Place]
    BY <1>0, <1>11, <2>1, BroadcastEffect DEF sdb_module_write_mcs_packet
  <2>4. data' \in [Slots -> Mail \cup {NULL}]
    BY <1>0, <1>11, <2>1 DEF sdb_module_write_mcs_packet, Mail, TypeOK
  <2> QED
    BY <1>0, <1>11, <2>2, <2>3, <2>4
    DEF sdb_module_write_mcs_packet, TypeOK, slotVars, obsVars, appVars
<1>12. CASE observer_start
  <2>1. obs' \in {"first", "loop"} /\ pipe' \in Nat
    BY <1>0, <1>12 DEF observer_start, TypeOK
  <2>2. UNCHANGED <<up, pc, hand, cur, last, name, group, rfd, open, owner, depth, data, data_valid,
                    data_socket, queue, qos_enabled, watch, todo, toSdb, toApp, closed, sent,
                    replies>>
    BY <1>12 DEF observer_start, modVars, slotVars, lockVars, boxVars, appVars
  <2> QED BY <1>0, <2>1, <2>2 DEF TypeOK
<1>13. CASE observer_select
  <2>1. 0..(last - 1) \subseteq Slots
    BY <1>0, BusAssumption DEF TypeOK, Slots, SDB_MODULE_MAX
  <2> QED
    BY <1>0, <1>13, <2>1 DEF observer_select, TypeOK, modVars, slotVars, lockVars, boxVars, appVars
<1>14. CASE observer_return
  <2>1. obs' \in {"loop", "notify"} /\ pipe' \in Nat /\ todo' \subseteq Slots
    <3>1. pipe \in Nat /\ todo \subseteq Slots /\ watch \subseteq Slots
      BY <1>0 DEF TypeOK
    <3>2. CASE pipe > 0 /\ pipe' = pipe - 1 /\ obs' = "loop" /\ UNCHANGED todo
      BY <3>1, <3>2
    <3>3. CASE /\ todo' = {m \in watch : Readable(rfd[m])}
               /\ obs' = "notify" /\ UNCHANGED pipe
      BY <3>1, <3>3
    <3> QED BY <1>14, <3>2, <3>3 DEF observer_return
  <2>2. UNCHANGED <<up, pc, hand, cur, last, name, group, rfd, open, owner, depth, data, data_valid,
                    data_socket, queue, qos_enabled, watch, toSdb, toApp, closed, sent,
                    replies>>
    BY <1>14 DEF observer_return, modVars, slotVars, lockVars, boxVars, appVars
  <2> QED BY <1>0, <2>1, <2>2 DEF TypeOK
<1>15. CASE observer_notify
  <2>1. PICK m \in todo :
          /\ IF owner[m] = None
             THEN /\ data_socket' = [data_socket EXCEPT ![m] = TRUE]
                  /\ pc' = Broadcast(pc, m)
             ELSE UNCHANGED <<data_socket, pc>>
          /\ todo' = todo \ {m}
          /\ obs' = IF todo = {m} THEN "loop" ELSE "notify"
    BY <1>15 DEF observer_notify
  <2>2. m \in Slots
    BY <1>0 DEF TypeOK
  <2>3. /\ pc' \in [Slots -> Place]
        /\ data_socket' \in [Slots -> BOOLEAN]
    <3>1. CASE owner[m] = None
      <4>1. pc' = Broadcast(pc, m) /\ data_socket' = [data_socket EXCEPT ![m] = TRUE]
        BY <2>1, <3>1
      <4>2. data_socket' \in [Slots -> BOOLEAN]
        BY <1>0, <4>1 DEF TypeOK
      <4> QED BY <1>0, <2>2, <4>1, <4>2, BroadcastEffect
    <3>2. CASE owner[m] # None
      BY <1>0, <2>1, <3>2 DEF TypeOK
    <3> QED BY <3>1, <3>2
  <2>4. UNCHANGED <<up, hand, cur, last, name, group, rfd, open, owner, depth, data, data_valid,
                    queue, qos_enabled, watch, pipe, toSdb, toApp, closed, sent, replies>>
    BY <1>15 DEF observer_notify, slotVars, lockVars, boxVars, appVars
  <2> QED
    BY <1>0, <2>1, <2>3, <2>4 DEF TypeOK
<1>16. ASSUME NEW m \in Slots, NEW p \in Packet, AppPut(m, p),
              sent' \in [Slots -> Nat], replies' \in [Slots -> Nat]
       PROVE  TypeOK'
  <2>1. Append(toSdb[m], p) \in Seq(Packet)
    BY <1>0 DEF TypeOK
  <2> QED
    BY <1>0, <1>16, <2>1 DEF AppPut, TypeOK, modVars, slotVars, lockVars, boxVars, obsVars
<1>17. ASSUME NEW m \in Slots, NEW type \in {"req", "bad"}, NEW cmd \in Command,
              NEW dest \in Names \cup {NULL}, NEW big \in BOOLEAN,
              app_send(m, type, cmd, dest, big)
       PROVE  TypeOK'
  <2>1. <<m, sent[m]>> \in Id
    BY <1>0 DEF TypeOK, Id
  <2>2. [type |-> type, id |-> <<m, sent[m]>>, cmd |-> cmd, dest |-> dest, big |-> big] \in Packet
    BY <2>1 DEF Packet
  <2>3. sent' \in [Slots -> Nat] /\ replies' \in [Slots -> Nat]
    BY <1>0, <1>17 DEF app_send, TypeOK
  <2> QED
    BY <1>16, <1>17, <2>2, <2>3 DEF app_send
<1>18. ASSUME NEW m \in Slots, NEW i \in 1..Len(toApp[m]), NEW big \in BOOLEAN,
              app_answer(m, i, big)
       PROVE  TypeOK'
  <2>1. toApp[m][i] \in Packet
    BY <1>0 DEF TypeOK
  <2>2. [Ans(toApp[m][i], "data") EXCEPT !.big = big] \in Packet
    BY <2>1 DEF Ans, Packet, Result
  <2>3. sent' \in [Slots -> Nat] /\ replies' \in [Slots -> Nat]
    BY <1>0, <1>18 DEF app_answer, TypeOK
  <2> QED
    BY <1>16, <1>18, <2>2, <2>3 DEF app_answer
<1>19. ASSUME NEW m \in Slots, app_close(m) PROVE TypeOK'
  BY <1>0, <1>19 DEF app_close, TypeOK, modVars, slotVars, lockVars, boxVars, obsVars
<1> QED
  BY <1>1, <1>2, <1>3, <1>4, <1>5, <1>6, <1>7, <1>8, <1>9, <1>10, <1>11, <1>12, <1>13,
     <1>14, <1>15, <1>17, <1>18, <1>19, <1>20, <1>21, <1>22
  DEF Next, Daemon, Observer, ModuleThread, Works, Client

\* Threads move only from waiting to about to lock.
Woken ==
    \A k \in Slots :
        \/ pc'[k] = pc[k]
        \/ pc[k] = "wait" /\ pc'[k] = "relock"
        \/ pc[k] = "waitTo" /\ pc'[k] = "lockTo"

\* The part of LockInv about one slot.
LockInvAt(m) ==
    /\ owner[m] = m <=> pc[m] \in Holding
    /\ \A s \in Slots : s # m /\ owner[s] = m => pc[m] = "write" /\ hand[m].to = s
    /\ pc[m] \in Closed => ~data_valid[m]
    /\ pc[m] \in Sending => hand[m] \in Hand
    /\ pc[m] = "write" => owner[hand[m].to] = m /\ ~data_valid[hand[m].to]
    /\ depth[m] = IF owner[m] = None THEN 0
                  ELSE IF pc[m] = "write" /\ hand[m].to = m THEN 2 ELSE 1

LEMMA LockInvSplit == LockInv <=> \A m \in Slots : LockInvAt(m)
BY DEF LockInv, LockInvAt

\* The step takes no lock, releases none and fills no mailbox.
LEMMA LockQuiet ==
    ASSUME IInv, TypeOK', Woken, UNCHANGED <<owner, depth, hand>>,
           \A k \in Slots : data_valid'[k] => data_valid[k]
    PROVE  LockInv'
<1> SUFFICES ASSUME NEW k \in Slots PROVE LockInvAt(k)'
  BY LockInvSplit DEF LockInv, LockInvAt
<1>1. LockInvAt(k)
  BY LockInvSplit DEF IInv
<1>2. pc[k] \in Sending => hand[k].to \in Slots
  BY <1>1 DEF LockInvAt, Hand
<1>3. /\ pc'[k] \in Holding <=> pc[k] \in Holding
      /\ pc'[k] \in Sending <=> pc[k] \in Sending
      /\ pc'[k] \in Closed <=> pc[k] \in Closed
      /\ pc'[k] = "write" <=> pc[k] = "write"
  BY DEF Woken, Holding, Naming, Scanning, Closed, Sending
<1> QED
  BY <1>1, <1>2, <1>3 DEF LockInvAt, Sending

\* A thread that holds its own lock once releases it to wait.
LEMMA LockRelease ==
    ASSUME IInv, TypeOK', NEW m \in Slots, pc[m] \in {"group", "loop"}, Unlock(m),
           pc'[m] \in {"wait", "relock"}, UNCHANGED hand,
           \A k \in Slots : data_valid'[k] => data_valid[k],
           \A k \in Slots \ {m} :
                \/ pc'[k] = pc[k]
                \/ pc[k] = "wait" /\ pc'[k] = "relock"
                \/ pc[k] = "waitTo" /\ pc'[k] = "lockTo"
    PROVE  LockInv'
<1>1. owner[m] = m /\ depth[m] = 1 /\ None # m
  BY SlotFacts DEF IInv, LockInv, Holding, Naming
<1>2. owner' = [owner EXCEPT ![m] = None] /\ depth' = [depth EXCEPT ![m] = 0]
  BY <1>1 DEF Unlock, IInv, TypeOK
<1>3. owner \in [Slots -> Slots \cup {None}] /\ depth \in [Slots -> Nat]
  BY DEF IInv, TypeOK
<1> SUFFICES ASSUME NEW k \in Slots PROVE LockInvAt(k)'
  BY LockInvSplit DEF LockInv, LockInvAt
<1>4. LockInvAt(k) /\ LockInvAt(m)
  BY LockInvSplit DEF IInv
<1>5. CASE k = m
  BY <1>1, <1>2, <1>3, <1>4, <1>5, SlotFacts
  DEF LockInvAt, Holding, Closed, Naming, Scanning, Sending
<1>6. CASE k # m
  <2>1. /\ pc'[k] \in Holding <=> pc[k] \in Holding
        /\ pc'[k] \in Sending <=> pc[k] \in Sending
        /\ pc'[k] \in Closed <=> pc[k] \in Closed
        /\ pc'[k] = "write" <=> pc[k] = "write"
    BY <1>6 DEF Holding, Closed, Naming, Scanning, Sending
  <2>2. pc[k] = "write" => hand[k].to \in Slots /\ hand[k].to # m
    BY <1>1, <1>4, <1>6 DEF LockInvAt, Hand, Sending
  <2> QED
    BY <1>2, <1>3, <1>4, <1>6, <2>1, <2>2, SlotFacts DEF LockInvAt, Sending
<1> QED BY <1>5, <1>6

\* A thread takes its own lock, which is free.
LEMMA LockAcquire ==
    ASSUME IInv, TypeOK', NEW m \in Slots, owner[m] = None, Lock(m, m),
           pc[m] \notin Holding, pc'[m] \in {"handshake", "loop"},
           pc'[m] = "loop" \/ ~data_valid[m],
           UNCHANGED <<hand, data_valid>>,
           \A k \in Slots \ {m} : pc'[k] = pc[k]
    PROVE  LockInv'
<1>1. depth[m] = 0 /\ None # m
  BY SlotFacts DEF IInv, LockInv
<1>2. owner' = [owner EXCEPT ![m] = m] /\ depth' = [depth EXCEPT ![m] = 1]
  BY <1>1 DEF Lock, IInv, TypeOK
<1>3. owner \in [Slots -> Slots \cup {None}] /\ depth \in [Slots -> Nat]
  BY DEF IInv, TypeOK
<1> SUFFICES ASSUME NEW k \in Slots PROVE LockInvAt(k)'
  BY LockInvSplit DEF LockInv, LockInvAt
<1>4. LockInvAt(k) /\ LockInvAt(m)
  BY LockInvSplit DEF IInv
<1>5. CASE k = m
  BY <1>1, <1>2, <1>3, <1>4, <1>5, SlotFacts
  DEF LockInvAt, Holding, Closed, Naming, Scanning, Sending
<1>6. CASE k # m
  <2>1. pc[k] = "write" => hand[k].to \in Slots /\ hand[k].to # m
    BY <1>4, <1>6, SlotFacts DEF LockInvAt, Hand, Sending
  <2> QED
    BY <1>2, <1>3, <1>4, <1>6, <2>1, SlotFacts DEF LockInvAt, Sending
<1> QED BY <1>5, <1>6

\* A slot that is not in the table yet has a free lock.
LEMMA FreeSlot ==
    ASSUME IInv, NEW m \in Slots, pc[m] = "none"
    PROVE  owner[m] = None
<1>1. owner[m] \in Slots \cup {None} /\ m >= last
  BY DEF IInv, TypeOK, TableInv
<1>2. owner[m] # m
  BY DEF IInv, LockInv, Holding, Naming, Scanning, Sending
<1>3. ASSUME NEW k \in Slots, owner[m] = k, k # m PROVE FALSE
  <2>1. pc[k] = "write" /\ hand[k].to = m
    BY <1>3 DEF IInv, LockInv
  <2>2. hand[k].to < last
    BY <2>1 DEF IInv, RouteInv, OnWay, Sending
  <2>3. last \in Nat /\ m \in Nat
    BY SlotFacts DEF IInv, TypeOK
  <2> QED BY <1>1, <2>1, <2>2, <2>3
<1> QED BY <1>1, <1>2, <1>3

\* The thread of m starts to send.
LEMMA LockForward ==
    ASSUME IInv, TypeOK', NEW m \in Slots, pc[m] \in {"loop"} \cup Scanning, ~data_valid[m],
           NEW h \in Hand, hand' = [hand EXCEPT ![m] = h],
           pc' = [pc EXCEPT ![m] = "lockTo"], UNCHANGED <<owner, depth, data_valid>>
    PROVE  LockInv'
<1>1. pc \in [Slots -> Place]
      /\ hand \in [Slots -> Hand \cup {NULL}]
  BY DEF IInv, TypeOK
<1> SUFFICES ASSUME NEW k \in Slots PROVE LockInvAt(k)'
  BY LockInvSplit DEF LockInv, LockInvAt
<1>2. LockInvAt(k) /\ LockInvAt(m)
  BY LockInvSplit DEF IInv
<1>3. CASE k = m
  BY <1>1, <1>2, <1>3 DEF LockInvAt, Holding, Scanning, Sending
<1>4. CASE k # m
  BY <1>1, <1>2, <1>4 DEF LockInvAt
<1> QED BY <1>3, <1>4

\* The thread of m goes on, its lock held, without a packet to send.
LEMMA LockStay ==
    ASSUME IInv, TypeOK', NEW m \in Slots, pc[m] \in Holding \ Sending,
           NEW a \in Holding \ Sending, pc' = [pc EXCEPT ![m] = a],
           a \in Closed => ~data_valid[m], UNCHANGED <<owner, depth, hand, data_valid>>
    PROVE  LockInv'
<1>1. pc \in [Slots -> Place]
  BY DEF IInv, TypeOK
<1> SUFFICES ASSUME NEW k \in Slots PROVE LockInvAt(k)'
  BY LockInvSplit DEF LockInv, LockInvAt
<1>2. LockInvAt(k)
  BY LockInvSplit DEF IInv
<1>3. /\ pc'[k] \in Holding <=> pc[k] \in Holding
      /\ pc'[k] \in Sending <=> pc[k] \in Sending
      /\ pc'[k] = "write" <=> pc[k] = "write"
      /\ pc'[k] \in Closed /\ pc[k] \notin Closed => ~data_valid[k]
  <2>1. CASE k = m
    <3>1. pc'[k] = a
      BY <1>1, <2>1
    <3> QED BY <2>1, <3>1 DEF Sending
  <2>2. CASE k # m
    BY <1>1, <2>2
  <2> QED BY <2>1, <2>2
<1> QED BY <1>2, <1>3 DEF LockInvAt

LEMMA LockLockTo ==
    ASSUME IInv, TypeOK', NEW m \in Slots, lock_to(m)
    PROVE  LockInv'
<1> DEFINE to == hand[m].to
<1>1. /\ pc \in [Slots -> Place]
      /\ owner \in [Slots -> Slots \cup {None}] /\ depth \in [Slots -> Nat]
  BY DEF IInv, TypeOK
<1>2. /\ pc[m] = "lockTo" /\ owner[to] \in {None, m}
      /\ UNCHANGED data_valid
  BY DEF lock_to, boxVars
<1>3. hand[m] \in Hand /\ to \in Slots /\ ~data_valid[m] /\ owner[m] = m
  BY <1>2 DEF IInv, LockInv, Sending, Holding, Closed, Hand
<1>4. owner[to] = m => to = m
  BY <1>2, <1>3 DEF IInv, LockInv
<1>5. CASE ~data_valid[to]
  <2>1. pc' = [pc EXCEPT ![m] = "write"] /\ Lock(to, m) /\ UNCHANGED hand
    BY <1>5 DEF lock_to
  <2>2. depth[to] = IF to = m THEN 1 ELSE 0
    <3>1. LockInvAt(to)
      BY <1>3, LockInvSplit DEF IInv
    <3> QED BY <1>2, <1>3, <1>4, <3>1, SlotFacts DEF LockInvAt
  <2>3. /\ owner' = [owner EXCEPT ![to] = m]
        /\ depth' = [depth EXCEPT ![to] = IF to = m THEN 2 ELSE 1]
    BY <2>1, <2>2 DEF Lock
  <2> HIDE DEF to
  <2> SUFFICES ASSUME NEW k \in Slots PROVE LockInvAt(k)'
    BY LockInvSplit DEF LockInv, LockInvAt
  <2>4. LockInvAt(k) /\ LockInvAt(m) /\ LockInvAt(to)
    BY <1>3, LockInvSplit DEF IInv
  <2>5. CASE k = m
    BY <1>1, <1>2, <1>3, <1>4, <1>5, <2>1, <2>3, <2>4, <2>5, SlotFacts
    DEF LockInvAt, Holding, Sending, to
  <2>6. CASE k # m
    <3>1. pc'[k] = pc[k] /\ hand'[k] = hand[k] /\ data_valid' = data_valid
      BY <1>1, <1>2, <2>1, <2>6
    <3>2. owner'[k] = k <=> owner[k] = k
      BY <1>1, <1>2, <1>3, <1>4, <2>3, <2>6, SlotFacts
    <3>3. \A s \in Slots : owner'[s] = k <=> owner[s] = k
      BY <1>1, <1>2, <1>3, <1>4, <2>3, <2>6, SlotFacts
    <3>4. pc[k] = "write" => hand[k].to \in Slots
      BY <2>4 DEF LockInvAt, Hand, Sending
    <3>5. depth'[k] = IF owner'[k] = None THEN 0
                      ELSE IF pc[k] = "write" /\ hand[k].to = k THEN 2 ELSE 1
      <4>1. CASE k = to
        <5>1. owner[k] = None /\ owner'[k] = m /\ depth'[k] = 1
          BY <1>1, <1>2, <1>3, <1>4, <2>3, <2>6, <4>1
        <5>2. ~(pc[k] = "write" /\ hand[k].to = k)
          BY <2>4, <5>1, SlotFacts DEF LockInvAt
        <5> QED BY <5>1, <5>2, SlotFacts
      <4>2. CASE k # to
        BY <1>1, <1>3, <2>3, <2>4, <4>2 DEF LockInvAt
      <4> QED BY <4>1, <4>2
    <3> QED BY <2>4, <3>1, <3>2, <3>3, <3>4, <3>5 DEF LockInvAt
  <2> QED BY <2>5, <2>6
<1>6. CASE data_valid[to]
  <2>1. to # m /\ pc' = [pc EXCEPT ![m] = "waitTo"] /\ UNCHANGED <<owner, depth, hand>>
    BY <1>3, <1>6 DEF lock_to, lockVars
  <2> HIDE DEF to
  <2> SUFFICES ASSUME NEW k \in Slots PROVE LockInvAt(k)'
    BY LockInvSplit DEF LockInv, LockInvAt
  <2>2. LockInvAt(k)
    BY LockInvSplit DEF IInv
  <2>3. CASE k = m
    BY <1>1, <1>2, <2>1, <2>2, <2>3 DEF LockInvAt, Holding, Sending, Closed, Naming, Scanning
  <2>4. CASE k # m
    BY <1>1, <1>2, <2>1, <2>2, <2>4 DEF LockInvAt
  <2> QED BY <2>3, <2>4
<1> QED BY <1>5, <1>6

LEMMA LockWrite ==
    ASSUME IInv, TypeOK', NEW m \in Slots, sdb_module_write_mcs_packet(m)
    PROVE  LockInv'
<1> DEFINE to == hand[m].to
<1>1. /\ owner \in [Slots -> Slots \cup {None}] /\ depth \in [Slots -> Nat]
      /\ hand \in [Slots -> Hand \cup {NULL}] /\ data_valid \in [Slots -> BOOLEAN]
  BY DEF IInv, TypeOK
<1>2. pc[m] = "write" /\ Unlock(to) /\ hand' = [hand EXCEPT ![m] = NULL]
      /\ data_valid' = [data_valid EXCEPT ![to] = TRUE]
  BY DEF sdb_module_write_mcs_packet
<1>3. hand[m] \in Hand /\ to \in Slots /\ owner[m] = m /\ owner[to] = m
  BY <1>2 DEF IInv, LockInv, Sending, Holding, Hand
<1>4. depth[to] = IF to = m THEN 2 ELSE 1
  <2>1. to # m => ~(pc[to] = "write" /\ hand[to].to = to)
    BY <1>3 DEF IInv, LockInv
  <2> QED BY <1>2, <1>3, <2>1, SlotFacts, ZenonT(30) DEF IInv, LockInv
<1>5. /\ owner' = [owner EXCEPT ![to] = IF to = m THEN m ELSE None]
      /\ depth' = [depth EXCEPT ![to] = IF to = m THEN 1 ELSE 0]
  <2>1. /\ owner' = [owner EXCEPT ![to] = IF depth[to] = 1 THEN None ELSE owner[to]]
        /\ depth' = [depth EXCEPT ![to] = depth[to] - 1]
    BY <1>2 DEF Unlock
  <2> HIDE DEF to
  <2>2. CASE to = m
    BY <1>3, <1>4, <2>1, <2>2
  <2>3. CASE to # m
    BY <1>3, <1>4, <2>1, <2>3
  <2> QED BY <2>2, <2>3
<1>6. pc'[m] = "loop"
  BY <1>3, BroadcastEffect DEF sdb_module_write_mcs_packet, IInv
<1>7. \A k \in Slots \ {m} : \/ pc'[k] = pc[k]
                             \/ pc[k] = "wait" /\ pc'[k] = "relock"
                             \/ pc[k] = "waitTo" /\ pc'[k] = "lockTo"
  BY <1>3, BroadcastEffect DEF sdb_module_write_mcs_packet, IInv
<1> HIDE DEF to
<1> SUFFICES ASSUME NEW k \in Slots PROVE LockInvAt(k)'
  BY LockInvSplit DEF LockInv, LockInvAt
<1>8. LockInvAt(k) /\ LockInvAt(m) /\ LockInvAt(to)
  BY <1>3, LockInvSplit DEF IInv
<1>9. CASE k = m
  <2>1. \A s \in Slots : s # m => owner'[s] # m
    BY <1>1, <1>2, <1>3, <1>5, <1>8, SlotFacts DEF LockInvAt, to
  <2>2. owner'[m] = m /\ depth'[m] = 1
    <3>1. CASE to = m
      BY <1>1, <1>5, <3>1
    <3>2. CASE to # m
      <4>1. depth[m] = 1
        BY <1>2, <1>3, <1>8, <3>2, SlotFacts DEF LockInvAt, to
      <4> QED BY <1>1, <1>3, <1>5, <3>2, <4>1
    <3> QED BY <3>1, <3>2
  <2> QED
    BY <1>6, <1>9, <2>1, <2>2, SlotFacts
    DEF LockInvAt, Holding, Closed, Naming, Scanning, Sending
<1>10. CASE k # m
  <2>1. /\ pc'[k] \in Holding <=> pc[k] \in Holding
        /\ pc'[k] \in Sending <=> pc[k] \in Sending
        /\ pc'[k] = "write" <=> pc[k] = "write"
        /\ pc'[k] \in Closed <=> pc[k] \in Closed
        /\ hand'[k] = hand[k]
    BY <1>1, <1>2, <1>7, <1>10 DEF Holding, Closed, Naming, Scanning, Sending
  <2>2. \A s \in Slots : owner'[s] = k <=> owner[s] = k
    BY <1>1, <1>3, <1>5, <1>10, SlotFacts
  <2>3. pc[k] = "write" => hand[k].to \in Slots /\ hand[k].to # to
    BY <1>3, <1>8, <1>10 DEF LockInvAt, Hand, Sending
  <2>4. pc[k] \in Closed => k # to
    <3>1. to < last
      BY <1>2 DEF IInv, RouteInv, OnWay, Sending, to
    <3>2. last \in Nat /\ to \in Nat
      BY <1>3, SlotFacts, BusAssumption DEF IInv, TypeOK
    <3>3. pc[to] # "none"
      BY <1>3, <3>1, <3>2 DEF IInv, TableInv
    <3>4. pc[k] \in Closed => pc[k] = "none" \/ pc[k] \in Holding
      BY DEF Closed, Holding
    <3> QED BY <1>3, <1>8, <1>10, <3>3, <3>4 DEF LockInvAt
  <2>5. depth'[k] = IF owner'[k] = None THEN 0
                    ELSE IF pc[k] = "write" /\ hand[k].to = k THEN 2 ELSE 1
    BY <1>1, <1>3, <1>5, <1>8, <1>10, SlotFacts DEF LockInvAt
  <2> QED
    BY <1>1, <1>2, <1>8, <2>1, <2>2, <2>3, <2>4, <2>5 DEF LockInvAt, Sending
<1> QED BY <1>9, <1>10

\* The observer, until it notifies, and a read that times out change nothing
\* the invariant is about; the clients change only what they send.
LEMMA WatchSteps ==
    ASSUME observer_start \/ observer_select \/ observer_return
           \/ \E m \in Slots : read_timeout(m)
    PROVE  UNCHANGED <<pc, hand, cur, owner, depth, data, data_valid, last, name, queue, toSdb,
                       toApp, sent>>
<1>1. CASE observer_start
  BY <1>1 DEF observer_start, modVars, slotVars, lockVars, boxVars, appVars
<1>2. CASE observer_select
  BY <1>2 DEF observer_select, modVars, slotVars, lockVars, boxVars, appVars
<1>3. CASE observer_return
  BY <1>3 DEF observer_return, modVars, slotVars, lockVars, boxVars, appVars
<1>4. CASE \E m \in Slots : read_timeout(m)
  BY <1>4 DEF read_timeout, vars, modVars, slotVars, lockVars, boxVars, appVars
<1> QED BY <1>1, <1>2, <1>3, <1>4

LEMMA ClientSteps ==
    ASSUME TypeOK, NEW m \in Slots, Client(m)
    PROVE  /\ UNCHANGED <<pc, hand, cur, owner, depth, data, data_valid, last, name, queue, toApp>>
           /\ \/ UNCHANGED toSdb
              \/ \E p \in Packet :
                    /\ toSdb' = [toSdb EXCEPT ![m] = Append(@, p)]
                    /\ p.type = "ans" => \E j \in 1..Len(toApp[m]) : TRUE
                    /\ p.type # "ans" => p.id[1] = m
<1>1. ASSUME NEW type \in {"req", "bad"}, NEW cmd \in Command,
             NEW dest \in Names \cup {NULL}, NEW big \in BOOLEAN,
             app_send(m, type, cmd, dest, big)
      PROVE  /\ UNCHANGED <<pc, hand, cur, owner, depth, data, data_valid, last, name, queue, toApp>>
             /\ \E p \in Packet :
                    /\ toSdb' = [toSdb EXCEPT ![m] = Append(@, p)]
                    /\ p.type = "ans" => \E j \in 1..Len(toApp[m]) : TRUE
                    /\ p.type # "ans" => p.id[1] = m
  <2> DEFINE q == [type |-> type, id |-> <<m, sent[m]>>, cmd |-> cmd, dest |-> dest, big |-> big]
  <2>1. UNCHANGED <<pc, hand, cur, owner, depth, data, data_valid, last, name, queue, toApp>>
    BY <1>1 DEF app_send, AppPut, modVars, slotVars, lockVars, boxVars
  <2>2. toSdb' = [toSdb EXCEPT ![m] = Append(@, q)]
    BY <1>1 DEF app_send, AppPut
  <2>3. <<m, sent[m]>> \in Id
    BY DEF TypeOK, Id
  <2>4. q \in Packet /\ q.type # "ans" /\ q.id[1] = m
    BY <2>3 DEF Packet
  <2> HIDE DEF q
  <2> QED BY <2>1, <2>2, <2>4
<1>2. ASSUME NEW i \in 1..Len(toApp[m]), NEW big \in BOOLEAN, app_answer(m, i, big)
      PROVE  /\ UNCHANGED <<pc, hand, cur, owner, depth, data, data_valid, last, name, queue, toApp>>
             /\ \E p \in Packet :
                    /\ toSdb' = [toSdb EXCEPT ![m] = Append(@, p)]
                    /\ p.type = "ans" => \E j \in 1..Len(toApp[m]) : TRUE
                    /\ p.type # "ans" => p.id[1] = m
  <2> DEFINE q == [Ans(toApp[m][i], "data") EXCEPT !.big = big]
  <2>1. /\ UNCHANGED <<pc, hand, cur, owner, depth, data, data_valid, last, name, queue, toApp>>
        /\ toSdb' = [toSdb EXCEPT ![m] = Append(@, q)]
    BY <1>2 DEF app_answer, AppPut, modVars, slotVars, lockVars, boxVars
  <2>2. toApp[m][i] \in Packet
    BY DEF TypeOK
  <2>3. q \in Packet /\ q.type = "ans"
    BY <2>2 DEF Ans, Packet, Result
  <2> HIDE DEF q
  <2> QED BY <2>1, <2>3
<1>3. ASSUME app_close(m)
      PROVE  UNCHANGED <<pc, hand, cur, owner, depth, data, data_valid, last, name, queue, toApp, toSdb>>
  BY <1>3 DEF app_close, modVars, slotVars, lockVars, boxVars
<1>4. \/ \E type \in {"req", "bad"}, cmd \in Command, dest \in Names \cup {NULL},
            big \in BOOLEAN : app_send(m, type, cmd, dest, big)
      \/ \E i \in 1..Len(toApp[m]), big \in BOOLEAN : app_answer(m, i, big)
      \/ app_close(m)
  BY DEF Client
<1> QED BY <1>1, <1>2, <1>3, <1>4

LEMMA LockStep ==
    ASSUME IInv, Next, TypeOK'
    PROVE  LockInv'
<1>0. TypeOK /\ pc \in [Slots -> Place]
  BY DEF IInv, TypeOK
<1>1. CASE sdb_module_init
  <2>1. last \in Slots
    BY <1>0, <1>1, SlotFacts DEF sdb_module_init, TypeOK
  <2>2. pc[last] = "none" /\ owner[last] = None
    BY <2>1, FreeSlot, SlotFacts DEF IInv, TableInv
  <2>3. /\ Lock(last, last) /\ UNCHANGED <<hand, data_valid>>
        /\ pc' = [pc EXCEPT ![last] = "handshake"]
    BY <1>1 DEF sdb_module_init, boxVars
  <2>4. pc[last] \notin Holding /\ ~data_valid[last]
    BY <2>1, <2>2 DEF IInv, LockInv, Holding, Naming, Scanning, Sending, Closed
  <2> QED
    BY <1>0, <2>1, <2>2, <2>3, <2>4, LockAcquire
<1>2. ASSUME NEW m \in Slots,
             handshake_error(m) \/ handshake_read(m) \/ handshake_name(m) \/ handshake_refuse(m)
      PROVE  LockInv'
  <2>1. /\ pc[m] \in {"handshake", "naming", "group"}
        /\ UNCHANGED <<owner, depth, hand, data_valid>>
    BY <1>2 DEF handshake_error, handshake_read, handshake_name, handshake_refuse, lockVars, boxVars
  <2>2. UNCHANGED pc \/ \E a \in {"naming", "group", "dead"} : pc' = [pc EXCEPT ![m] = a]
    BY <1>2 DEF handshake_error, handshake_read, handshake_name, handshake_refuse
  <2>3. pc[m] \in Holding \ Sending /\ ~data_valid[m]
    BY <2>1 DEF IInv, LockInv, Holding, Naming, Sending, Closed
  <2>4. {"naming", "group", "dead"} \subseteq Holding \ Sending
    BY DEF Holding, Naming, Sending
  <2> QED BY <2>1, <2>2, <2>3, <2>4, LockStay, LockQuiet DEF Woken
<1>3. ASSUME NEW m \in Slots, handshake(m) PROVE LockInv'
  <2>1. /\ pc[m] = "group" /\ Unlock(m) /\ UNCHANGED hand
        /\ pc' = [Broadcast(pc, m) EXCEPT ![m] = "relock"]
        /\ data_valid' = [data_valid EXCEPT ![m] = FALSE]
    BY <1>3 DEF handshake
  <2>2. pc'[m] = "relock" /\ \A k \in Slots \ {m} :
                \/ pc'[k] = pc[k]
                \/ pc[k] = "wait" /\ pc'[k] = "relock"
                \/ pc[k] = "waitTo" /\ pc'[k] = "lockTo"
    BY <1>0, <2>1, BroadcastEffect
  <2>3. \A k \in Slots : data_valid'[k] => data_valid[k]
    BY <1>0, <2>1 DEF TypeOK
  <2> QED BY <2>1, <2>2, <2>3, LockRelease
<1>4. ASSUME NEW m \in Slots, cond_wait(m) PROVE LockInv'
  <2>1. /\ pc[m] = "loop" /\ Unlock(m) /\ UNCHANGED <<hand, data_valid>>
        /\ pc' = [pc EXCEPT ![m] = "wait"]
    BY <1>4 DEF cond_wait, boxVars
  <2>2. pc'[m] = "wait" /\ \A k \in Slots \ {m} : pc'[k] = pc[k]
    BY <1>0, <2>1
  <2> QED BY <2>1, <2>2, LockRelease
<1>5. ASSUME NEW m \in Slots, relock(m) PROVE LockInv'
  <2>1. /\ pc[m] = "relock" /\ owner[m] = None /\ Lock(m, m)
        /\ UNCHANGED <<hand, data_valid>> /\ pc' = [pc EXCEPT ![m] = "loop"]
    BY <1>5 DEF relock, boxVars
  <2>2. pc'[m] = "loop" /\ \A k \in Slots \ {m} : pc'[k] = pc[k]
    BY <1>0, <2>1
  <2> QED BY <2>1, <2>2, LockAcquire DEF Holding, Naming, Scanning, Sending
<1>6. ASSUME NEW m \in Slots, spurious_wakeup(m) PROVE LockInv'
  <2>1. Woken /\ UNCHANGED <<owner, depth, hand, data_valid>>
    BY <1>0, <1>6 DEF spurious_wakeup, Woken, lockVars, boxVars
  <2> QED BY <2>1, LockQuiet
<1>7. ASSUME NEW m \in Slots, process_pkt_sdb(m) PROVE LockInv'
  <2>1. /\ UNCHANGED <<pc, hand, owner, depth>>
        /\ data_valid' = [data_valid EXCEPT ![m] = FALSE]
    BY <1>7 DEF process_pkt_sdb, modVars, lockVars
  <2>2. Woken /\ \A k \in Slots : data_valid'[k] => data_valid[k]
    BY <1>0, <2>1 DEF Woken, TypeOK
  <2> QED BY <2>1, <2>2, LockQuiet
<1>8. ASSUME NEW m \in Slots, Works(m) PROVE LockInv'
  <2>1. /\ pc[m] \in {"loop"} \cup Scanning /\ ~data_valid[m]
        /\ UNCHANGED <<owner, depth, data_valid>>
    BY <1>8, WorkStep
  <2>2. PICK p \in Packet : SocketEffect(m, p)
    BY <1>8, WorkStep
  <2>3. pc[m] \in Holding \ Sending /\ "loop" \in Holding \ Sending /\ Scanning \subseteq Holding \ Sending
    BY <2>1 DEF Holding, Scanning, Sending
  <2>4. CASE UNCHANGED modVars
    BY <2>1, <2>4, LockQuiet DEF modVars, Woken
  <2>5. CASE Forwarded(m, p)
    <3>1. PICK to \in Slots : /\ hand' = [hand EXCEPT ![m] = [pkt |-> p, to |-> to]]
                              /\ pc' = [pc EXCEPT ![m] = "lockTo"]
      BY <2>5 DEF Forwarded
    <3>2. [pkt |-> p, to |-> to] \in Hand
      BY DEF Hand
    <3> QED BY <2>1, <3>1, <3>2, LockForward
  <2>6. CASE Back(m)
    BY <2>1, <2>3, <2>6, LockStay DEF Back
  <2>7. CASE Looks(m, p)
    BY <2>1, <2>3, <2>7, LockStay DEF Looks
  <2> QED BY <2>2, <2>4, <2>5, <2>6, <2>7 DEF SocketEffect, Outcome
<1>9. ASSUME NEW m \in Slots, lock_to(m) PROVE LockInv'
  BY <1>9, LockLockTo
<1>10. ASSUME NEW m \in Slots, sdb_module_write_mcs_packet(m) PROVE LockInv'
  BY <1>10, LockWrite
<1>11. CASE observer_notify
  <2>1. Woken
    <3>1. PICK m \in todo : IF owner[m] = None THEN pc' = Broadcast(pc, m) ELSE UNCHANGED pc
      BY <1>11 DEF observer_notify
    <3>2. m \in Slots
      BY <1>0 DEF TypeOK
    <3>3. CASE owner[m] = None
      BY <1>0, <3>1, <3>2, <3>3, BroadcastEffect DEF Woken
    <3>4. CASE owner[m] # None
      BY <3>1, <3>4 DEF Woken
    <3> QED BY <3>3, <3>4
  <2>2. UNCHANGED <<owner, depth, hand, data_valid>>
    BY <1>11 DEF observer_notify, lockVars, boxVars
  <2> QED BY <2>1, <2>2, LockQuiet
<1>12. CASE UNCHANGED <<pc, hand, owner, depth, data_valid>>
  BY <1>12, LockQuiet DEF Woken
<1>13. ASSUME observer_start \/ observer_select \/ observer_return
              \/ \E m \in Slots : read_timeout(m) \/ Client(m)
       PROVE  UNCHANGED <<pc, hand, owner, depth, data_valid>>
  BY <1>0, <1>13, WatchSteps, ClientSteps
<1> QED
  BY <1>1, <1>2, <1>3, <1>4, <1>5, <1>6, <1>7, <1>8, <1>9, <1>10, <1>11, <1>12, <1>13
  DEF Next, Daemon, Observer, ModuleThread, Works

\* The places of a thread whose slot has no name, or not all of it yet.
Unnamed == {"none", "handshake", "naming", "dead"}

LEMMA TableStep ==
    ASSUME IInv, Next, TypeOK'
    PROVE  TableInv'
<1>0. /\ TypeOK /\ last \in Int /\ Slots \subseteq Nat
      /\ pc \in [Slots -> Place]
      /\ name \in [Slots -> Names \cup {NULL}]
  <2>1. TypeOK /\ Slots \subseteq Nat
    BY SlotFacts DEF IInv
  <2>2. last \in 0..MaxConn /\ MaxConn \in Int
    BY <2>1, BusAssumption DEF TypeOK
  <2>3. last \in Int
    BY <2>2
  <2> QED BY <2>1, <2>3 DEF TypeOK
<1>1. CASE sdb_module_init
  <2>1. last \in Slots
    BY <1>0, <1>1, SlotFacts DEF sdb_module_init, TypeOK
  <2>2. /\ pc[last] = "none" /\ pc' = [pc EXCEPT ![last] = "handshake"]
        /\ last' = last + 1 /\ UNCHANGED name
    BY <1>0, <1>1, <2>1 DEF sdb_module_init, IInv, TableInv
  <2>3. ASSUME NEW k \in Slots
        PROVE  /\ pc'[k] = "none" <=> k >= last'
               /\ pc'[k] \in Naming => pc[k] \in Naming
               /\ pc'[k] \notin Unnamed => pc[k] \notin Unnamed
    BY <1>0, <2>1, <2>2 DEF IInv, TableInv, Naming, Unnamed
  <2> QED
    BY <2>2, <2>3 DEF IInv, TableInv, Shown, Unnamed
<1>2. ASSUME UNCHANGED <<last, name>>,
             \A k \in Slots : /\ pc'[k] = "none" <=> pc[k] = "none"
                              /\ pc'[k] \in Naming => pc[k] \in Naming
                              /\ pc'[k] \notin Unnamed => pc[k] \notin Unnamed
      PROVE  TableInv'
  BY <1>2 DEF IInv, TableInv, Shown, Unnamed
<1> DEFINE At(k) == /\ pc[k] = "none" <=> k >= last
                    /\ name[k] # NULL => AppName[k] # NULL /\ name[k] \in Shown(k)
                    /\ pc[k] \in Naming => AppName[k] # NULL
                    /\ pc[k] \notin Unnamed => name[k] = AppName[k]
<1>20. ASSUME NEW m \in Slots, UNCHANGED last, At(m)',
              \A k \in Slots \ {m} : pc'[k] = pc[k] /\ name'[k] = name[k]
       PROVE  TableInv'
  <2>1. ASSUME NEW k \in Slots \ {m} PROVE At(k)'
    BY <1>20, <2>1 DEF IInv, TableInv, Shown, Unnamed
  <2> QED BY <1>20, <2>1 DEF TableInv, Unnamed
<1>3. ASSUME NEW m \in Slots, handshake_error(m) \/ handshake_refuse(m) PROVE TableInv'
  <2>1. /\ pc[m] # "none" /\ pc' = [pc EXCEPT ![m] = "dead"] /\ UNCHANGED <<last, name>>
    BY <1>3 DEF handshake_error, handshake_refuse
  <2>2. pc'[m] = "dead" /\ \A k \in Slots \ {m} : pc'[k] = pc[k]
    BY <1>0, <2>1
  <2> QED BY <1>2, <2>1, <2>2 DEF Naming, Unnamed
<1>21. ASSUME NEW m \in Slots, handshake_read(m) PROVE TableInv'
  <2>1. /\ pc[m] = "handshake" /\ pc' = [pc EXCEPT ![m] = "naming"] /\ AppName[m] # NULL
        /\ name' = [name EXCEPT ![m] = Empty] /\ UNCHANGED last
    BY <1>21 DEF handshake_read
  <2>2. Empty \in Shown(m)
    BY <2>1, BusAssumption DEF Shown
  <2>3. /\ pc'[m] = "naming" /\ name'[m] = Empty
        /\ \A k \in Slots \ {m} : pc'[k] = pc[k] /\ name'[k] = name[k]
    BY <1>0, <2>1
  <2>4. At(m)'
    BY <2>1, <2>2, <2>3 DEF IInv, TableInv, Shown, Naming, Unnamed
  <2> QED BY <1>20, <2>1, <2>3, <2>4
<1>22. ASSUME NEW m \in Slots, handshake_name(m) PROVE TableInv'
  <2>1. /\ pc[m] = "naming" /\ AppName[m] # NULL /\ UNCHANGED last
        /\ \/ UNCHANGED pc /\ \E n \in Begun[AppName[m]] : name' = [name EXCEPT ![m] = n]
           \/ /\ pc' = [pc EXCEPT ![m] = "group"] /\ name' = [name EXCEPT ![m] = AppName[m]]
    BY <1>22 DEF handshake_name, IInv, TableInv, Naming
  <2>2. \A k \in Slots \ {m} : pc'[k] = pc[k] /\ name'[k] = name[k]
    BY <1>0, <2>1
  <2>3. CASE UNCHANGED pc /\ \E n \in Begun[AppName[m]] : name' = [name EXCEPT ![m] = n]
    <3>1. PICK n \in Begun[AppName[m]] : name' = [name EXCEPT ![m] = n]
      BY <2>3
    <3>2. name'[m] \in Shown(m) /\ pc'[m] = "naming"
      BY <1>0, <2>1, <2>3, <3>1 DEF Shown
    <3>3. At(m)'
      BY <2>1, <3>2 DEF IInv, TableInv, Shown, Naming, Unnamed
    <3> QED BY <1>20, <2>1, <2>2, <3>3
  <2>4. CASE pc' = [pc EXCEPT ![m] = "group"] /\ name' = [name EXCEPT ![m] = AppName[m]]
    <3>1. name'[m] = AppName[m] /\ pc'[m] = "group" /\ AppName[m] \in Shown(m)
      BY <1>0, <2>4 DEF Shown
    <3>2. At(m)'
      BY <2>1, <3>1 DEF IInv, TableInv, Shown, Naming, Unnamed
    <3> QED BY <1>20, <2>1, <2>2, <3>2
  <2> QED BY <2>1, <2>3, <2>4
<1>4. ASSUME NEW m \in Slots, handshake(m) PROVE TableInv'
  <2>1. /\ pc[m] = "group" /\ pc' = [Broadcast(pc, m) EXCEPT ![m] = "relock"]
        /\ UNCHANGED <<last, name>>
    BY <1>4 DEF handshake
  <2>2. pc'[m] = "relock" /\ \A k \in Slots \ {m} :
                \/ pc'[k] = pc[k]
                \/ pc[k] = "wait" /\ pc'[k] = "relock"
                \/ pc[k] = "waitTo" /\ pc'[k] = "lockTo"
    BY <1>0, <2>1, BroadcastEffect
  <2> QED BY <1>2, <2>1, <2>2 DEF Naming, Unnamed
<1>5. ASSUME NEW m \in Slots, cond_wait(m) \/ relock(m) \/ spurious_wakeup(m) PROVE TableInv'
  <2>1. /\ pc[m] \notin Unnamed /\ UNCHANGED <<last, name>>
        /\ \/ pc' = [pc EXCEPT ![m] = "wait"] \/ pc' = [pc EXCEPT ![m] = "loop"]
           \/ pc' = [pc EXCEPT ![m] = "relock"] \/ pc' = [pc EXCEPT ![m] = "lockTo"]
    BY <1>5 DEF cond_wait, relock, spurious_wakeup, slotVars, Unnamed
  <2>2. /\ pc'[m] \notin Unnamed \cup Naming
        /\ \A k \in Slots \ {m} : pc'[k] = pc[k]
    BY <1>0, <2>1 DEF Unnamed, Naming
  <2> QED BY <1>2, <2>1, <2>2 DEF Unnamed
<1>6. ASSUME NEW m \in Slots, process_pkt_sdb(m) PROVE TableInv'
  <2>1. UNCHANGED <<pc, last, name>>
    BY <1>6 DEF process_pkt_sdb, modVars, slotVars
  <2> QED BY <1>2, <2>1
<1>7. ASSUME NEW m \in Slots, Works(m) PROVE TableInv'
  <2>1. pc[m] \in {"loop"} \cup Scanning /\ UNCHANGED <<last, name>>
    BY <1>7, WorkStep
  <2>2. PICK p \in Packet : Outcome(m, p)
    BY <1>7, WorkStep DEF SocketEffect
  <2>3. \E a \in {"loop", "lockTo"} \cup Scanning : pc' = [pc EXCEPT ![m] = a]
    BY <1>0, <2>1, <2>2 DEF Outcome, Back, Looks, Forwarded, modVars
  <2>4. PICK a \in {"loop", "lockTo"} \cup Scanning : pc' = [pc EXCEPT ![m] = a]
    BY <2>3
  <2>5. /\ pc[m] \notin Unnamed /\ pc'[m] \notin Unnamed \cup Naming
        /\ \A k \in Slots \ {m} : pc'[k] = pc[k]
    BY <1>0, <2>1, <2>4 DEF Unnamed, Naming, Scanning
  <2> QED BY <1>2, <2>1, <2>5 DEF Unnamed
<1>8. ASSUME NEW m \in Slots, lock_to(m) PROVE TableInv'
  <2>1. /\ pc[m] = "lockTo" /\ UNCHANGED <<last, name>>
        /\ \/ pc' = [pc EXCEPT ![m] = "write"] \/ pc' = [pc EXCEPT ![m] = "waitTo"]
           \/ pc' = [pc EXCEPT ![m] = "loop"]
    BY <1>8 DEF lock_to, slotVars
  <2>2. /\ pc'[m] \notin Unnamed \cup Naming
        /\ \A k \in Slots \ {m} : pc'[k] = pc[k]
    BY <1>0, <2>1 DEF Unnamed, Naming
  <2> QED BY <1>2, <2>1, <2>2 DEF Unnamed
<1>9. ASSUME NEW m \in Slots, sdb_module_write_mcs_packet(m) PROVE TableInv'
  <2>1. /\ pc[m] = "write" /\ UNCHANGED <<last, name>> /\ hand[m].to \in Slots
        /\ pc' = [Broadcast(pc, hand[m].to) EXCEPT ![m] = "loop"]
    BY <1>9 DEF sdb_module_write_mcs_packet, slotVars, IInv, LockInv, Sending, Hand
  <2>2. pc'[m] = "loop" /\ \A k \in Slots \ {m} :
                \/ pc'[k] = pc[k]
                \/ pc[k] = "wait" /\ pc'[k] = "relock"
                \/ pc[k] = "waitTo" /\ pc'[k] = "lockTo"
    BY <1>0, <2>1, BroadcastEffect
  <2> QED BY <1>2, <2>1, <2>2 DEF Naming, Unnamed
<1>10. CASE observer_notify
  <2>1. UNCHANGED <<last, name>>
    BY <1>10 DEF observer_notify, slotVars
  <2>2. PICK m \in Slots : UNCHANGED pc \/ pc' = Broadcast(pc, m)
    BY <1>0, <1>10 DEF observer_notify, TypeOK
  <2> QED BY <1>0, <1>2, <2>1, <2>2, BroadcastEffect DEF Naming, Unnamed
<1>11. CASE UNCHANGED <<pc, last, name>>
  BY <1>2, <1>11
<1>12. ASSUME observer_start \/ observer_select \/ observer_return
              \/ \E m \in Slots : read_timeout(m) \/ Client(m)
       PROVE  UNCHANGED <<pc, last, name>>
  BY <1>0, <1>12, WatchSteps, ClientSteps
<1> QED
  BY <1>1, <1>3, <1>21, <1>22, <1>4, <1>5, <1>6, <1>7, <1>8, <1>9, <1>10, <1>11, <1>12
  DEF Next, Daemon, Observer, ModuleThread, Works

\* The table only grows, and a slot keeps its name once its handshake is done.
Stable == last' >= last /\ \A k \in Slots : ~Fresh(k) => name'[k] = name[k]

LEMMA StableStep ==
    ASSUME IInv, Next
    PROVE  Stable
<1>0. last \in Int /\ name \in [Slots -> Names \cup {NULL}] /\ TypeOK
  <2>1. TypeOK /\ last \in 0..MaxConn /\ MaxConn \in Int
    BY BusAssumption DEF IInv, TypeOK
  <2> QED BY <2>1 DEF TypeOK
<1>1. CASE UNCHANGED <<last, name>>
  BY <1>0, <1>1 DEF Stable
<1>2. CASE sdb_module_init
  BY <1>0, <1>2 DEF sdb_module_init, Stable
<1>3. ASSUME NEW m \in Slots, handshake_read(m) \/ handshake_name(m) PROVE Stable
  <2>1. /\ Fresh(m) /\ UNCHANGED last /\ \E n : name' = [name EXCEPT ![m] = n]
    BY <1>3 DEF handshake_read, handshake_name, Fresh, Naming
  <2>2. \A k \in Slots \ {m} : name'[k] = name[k]
    BY <1>0, <2>1
  <2> QED BY <1>0, <2>1, <2>2 DEF Stable
<1>4. ASSUME NEW m \in Slots,
             \/ handshake_error(m) \/ handshake_refuse(m) \/ handshake(m)
             \/ cond_wait(m) \/ relock(m) \/ spurious_wakeup(m) \/ process_pkt_sdb(m)
             \/ lock_to(m) \/ sdb_module_write_mcs_packet(m)
      PROVE  UNCHANGED <<last, name>>
  BY <1>4 DEF handshake_error, handshake_refuse, handshake, cond_wait, relock,
              spurious_wakeup, process_pkt_sdb, lock_to, sdb_module_write_mcs_packet, slotVars
<1>5. CASE observer_notify
  BY <1>1, <1>5 DEF observer_notify, slotVars
<1>6. ASSUME NEW m \in Slots, Works(m) PROVE UNCHANGED <<last, name>>
  BY <1>6, WorkStep
<1>7. ASSUME observer_start \/ observer_select \/ observer_return
             \/ \E m \in Slots : read_timeout(m) \/ Client(m)
      PROVE  UNCHANGED <<last, name>>
  BY <1>0, <1>7, WatchSteps, ClientSteps
<1> QED
  BY <1>0, <1>1, <1>2, <1>3, <1>4, <1>5, <1>6, <1>7
  DEF Next, Daemon, Observer, ModuleThread, Works

LEMMA StillBelow ==
    ASSUME TypeOK, TypeOK', Stable
    PROVE  \A x \in Slots : x < last => x < last'
<1>1. last \in 0..MaxConn /\ last' \in 0..MaxConn /\ MaxConn \in Int /\ last' >= last
  BY BusAssumption DEF TypeOK, Stable
<1> QED BY <1>1, SlotFacts

\* Whatever is new on a socket, in a queue, in the hands of a thread or in a
\* mailbox is as RouteInv says.
SentNew ==
    \A k \in Slots : \A i \in 1..Len(toSdb'[k]) :
        (\E j \in 1..Len(toSdb[k]) : toSdb'[k][i] = toSdb[k][j]) \/ SentOK(k, toSdb'[k][i])
QueueNew ==
    \A k \in Slots : \A i \in 1..Len(queue'[k]) :
        (\E j \in 1..Len(queue[k]) : queue'[k][i] = queue[k][j]) \/ ElemOK(queue'[k][i])
CurNew ==
    \A k \in Slots :
        /\ pc'[k] \in Naming \cup Scanning =>
            \/ pc[k] \in Naming \cup Scanning /\ cur'[k] = cur[k]
            \/ CurOK(k, cur'[k])
        /\ pc'[k] = "found" => (pc[k] = "found" /\ cur'[k] = cur[k]) \/ LooksAt(cur'[k])
HandNew ==
    \A k \in Slots : pc'[k] \in Sending =>
        \/ pc[k] \in Sending /\ hand'[k] = hand[k]
        \/ OnWay(hand'[k].pkt, k, hand'[k].to) /\ hand'[k].to \in Slots
BoxNew ==
    \A k \in Slots : data_valid'[k] =>
        \/ data_valid[k] /\ data'[k] = data[k]
        \/ data'[k] \in Mail /\ OnWay(data'[k].pkt, data'[k].from, k)
ReceivedNew ==
    \A k \in Slots : \A i \in 1..Len(toApp'[k]) :
        \/ \E j \in 1..Len(toApp[k]) : toApp'[k][i] = toApp[k][j]
        \/ toApp'[k][i].type = "ans" /\ toApp'[k][i].id[1] = k
        \/ ReceivedOK(k, toApp'[k][i]) /\ ~Fresh(k)
New == SentNew /\ QueueNew /\ CurNew /\ HandNew /\ BoxNew /\ ReceivedNew

\* RouteInv is about each packet by itself: it is kept if whatever is new
\* somewhere is as it should be there.
LEMMA RouteMoves ==
    ASSUME IInv, Stable, TypeOK', New
    PROVE  RouteInv'
<1> USE DEF New
<1>0. \A x \in Slots : x < last => x < last'
  BY StillBelow DEF IInv
<1>1. RouteInv
  BY DEF IInv
<1>3. ASSUME NEW from \in Slots, NEW to \in Slots, NEW x, OnWay(x, from, to)
      PROVE  /\ from < last' /\ to < last'
             /\ x.type \in {"req", "ans"}
             /\ x.id[1] = IF x.type = "req" THEN from ELSE to
             /\ For(to, x)
  BY <1>0, <1>3 DEF OnWay
<1> SUFFICES ASSUME NEW k \in Slots
             PROVE  /\ \A i \in 1..Len(toSdb'[k]) : SentOK(k, toSdb[k][i])'
                    /\ \A i \in 1..Len(queue'[k]) : ElemOK(queue[k][i])'
                    /\ pc'[k] \in Naming \cup Scanning => CurOK(k, cur[k])'
                    /\ pc'[k] = "found" => LooksAt(cur[k])'
                    /\ pc'[k] \in Sending => OnWay(hand[k].pkt, k, hand[k].to)'
                    /\ data_valid'[k] => data'[k] \in Mail /\ OnWay(data[k].pkt, data[k].from, k)'
                    /\ \A i \in 1..Len(toApp'[k]) : ReceivedOK(k, toApp[k][i])'
  BY DEF RouteInv, Mail
<1>4. ASSUME NEW i \in 1..Len(toSdb'[k]) PROVE SentOK(k, toSdb[k][i])'
  <2>1. SentOK(k, toSdb'[k][i])
    BY <1>1 DEF RouteInv, SentNew
  <2> QED BY <2>1 DEF SentOK
<1>5. ASSUME NEW i \in 1..Len(queue'[k]) PROVE ElemOK(queue[k][i])'
  <2>1. ElemOK(queue'[k][i])
    BY <1>1 DEF RouteInv, QueueNew
  <2>2. queue'[k] \in Seq(Elem)
    BY DEF TypeOK
  <2>3. queue'[k][i] \in Elem
    BY <2>2
  <2>4. queue'[k][i].id_process \in Slots
    BY <2>3 DEF Elem
  <2>5. queue'[k][i].id_process < last'
    <3>1. queue'[k][i].id_process < last
      BY <2>1 DEF ElemOK
    <3> QED BY <2>4, <3>1, <1>0, Zenon
  <2> QED BY <2>1, <2>5 DEF ElemOK
<1>6. ASSUME pc'[k] \in Sending PROVE OnWay(hand[k].pkt, k, hand[k].to)'
  <2>1. OnWay(hand'[k].pkt, k, hand'[k].to) /\ hand'[k].to \in Slots
    BY <1>1, <1>6 DEF RouteInv, IInv, LockInv, Hand, HandNew
  <2> QED BY <1>3, <2>1 DEF OnWay
<1>7. ASSUME data_valid'[k]
      PROVE  data'[k] \in Mail /\ OnWay(data[k].pkt, data[k].from, k)'
  <2>1. data'[k] \in Mail /\ OnWay(data'[k].pkt, data'[k].from, k) /\ data'[k].from \in Slots
    BY <1>1, <1>7 DEF RouteInv, Mail, BoxNew
  <2> QED BY <1>3, <2>1 DEF OnWay
<1>8. ASSUME NEW i \in 1..Len(toApp'[k]) PROVE ReceivedOK(k, toApp[k][i])'
  <2>1. CASE toApp'[k][i].type = "ans" /\ toApp'[k][i].id[1] = k
    BY <2>1 DEF ReceivedOK, For
  <2>2. CASE ReceivedOK(k, toApp'[k][i]) /\ ~Fresh(k)
    BY <2>2 DEF ReceivedOK, Stable
  <2>3. ASSUME NEW j \in 1..Len(toApp[k]), toApp'[k][i] = toApp[k][j]
        PROVE  ReceivedOK(k, toApp[k][i])'
    <3>1. ReceivedOK(k, toApp[k][j]) /\ ~Fresh(k)
      BY <1>1, <2>3 DEF RouteInv, IInv, FreshInv
    <3> QED BY <2>3, <3>1 DEF ReceivedOK, Stable
  <2> QED BY <2>1, <2>2, <2>3 DEF ReceivedNew
<1>9. ASSUME pc'[k] \in Naming \cup Scanning PROVE CurOK(k, cur[k])'
  <2>1. CurOK(k, cur'[k])
    BY <1>1, <1>9 DEF RouteInv, CurNew
  <2>2. last \in 0..MaxConn /\ last' \in 0..MaxConn /\ MaxConn \in Int /\ last' >= last
    BY BusAssumption DEF IInv, TypeOK, Stable
  <2>3. cur'[k].list_num \in 0..MaxConn /\ cur'[k].list_num <= last
    BY <2>1 DEF CurOK, Local
  <2>4. cur'[k].list_num <= last'
    BY <2>2, <2>3
  <2> QED BY <2>1, <2>4 DEF CurOK
<1>10. ASSUME pc'[k] = "found" PROVE LooksAt(cur[k])'
  <2>1. LooksAt(cur'[k])
    BY <1>1, <1>10 DEF RouteInv, CurNew
  <2> QED BY <1>0, <2>1 DEF LooksAt
<1> QED BY <1>4, <1>5, <1>6, <1>7, <1>8, <1>9, <1>10

\* Nothing new.
LEMMA NoneSent == ASSUME UNCHANGED toSdb PROVE SentNew
BY DEF SentNew

LEMMA NoneQueued == ASSUME UNCHANGED queue PROVE QueueNew
BY DEF QueueNew

LEMMA NoneTaken ==
    ASSUME UNCHANGED hand,
           \A k \in Slots : pc'[k] \in Sending => pc[k] \in Sending
    PROVE  HandNew
BY DEF HandNew

LEMMA NoneLooked ==
    ASSUME UNCHANGED cur,
           \A k \in Slots :
                /\ pc'[k] \in Naming \cup Scanning => pc[k] \in Naming \cup Scanning
                /\ pc'[k] = "found" => pc[k] = "found"
    PROVE  CurNew
BY DEF CurNew

LEMMA NoneMailed ==
    ASSUME UNCHANGED data, \A k \in Slots : data_valid'[k] => data_valid[k]
    PROVE  BoxNew
BY DEF BoxNew

LEMMA NoneReceived == ASSUME UNCHANGED toApp PROVE ReceivedNew
BY DEF ReceivedNew

\* A thread takes the first packet from its socket.
LEMMA TailSent ==
    ASSUME TypeOK, NEW m \in Slots, toSdb[m] # <<>>,
           toSdb' = [toSdb EXCEPT ![m] = Tail(@)]
    PROVE  SentNew
<1>1. toSdb \in [Slots -> Seq(Packet)] /\ toSdb[m] \in Seq(Packet)
  BY DEF TypeOK
<1>2. ASSUME NEW i \in 1..Len(Tail(toSdb[m]))
      PROVE  i + 1 \in 1..Len(toSdb[m]) /\ Tail(toSdb[m])[i] = toSdb[m][i + 1]
  BY <1>1
<1>3. ASSUME NEW k \in Slots, NEW i \in 1..Len(toSdb'[k])
      PROVE  \E j \in 1..Len(toSdb[k]) : toSdb'[k][i] = toSdb[k][j]
  <2>1. CASE k = m
    BY <1>1, <1>2, <2>1
  <2>2. CASE k # m
    BY <1>1, <2>2
  <2> QED BY <2>1, <2>2
<1> QED BY <1>3 DEF SentNew

\* A client that is answered is the one that asked.
LEMMA AnswerReceived ==
    ASSUME NEW m \in Slots, NEW p \in Packet, p.id[1] = m, Written(m, Answers(p))
    PROVE  ReceivedNew
<1>1. \A x \in Answers(p) : x.type = "ans" /\ x.id = p.id
  BY DEF Answers, Ans
<1> QED BY <1>1 DEF Written, ReceivedNew

\* The first packet of a connection, which is not a good handshake.
LEMMA RouteRefused ==
    ASSUME IInv, NEW m \in Slots, handshake_error(m)
    PROVE  New
<1>0. TypeOK /\ UNCHANGED <<hand, cur, data, data_valid, queue>> /\ pc[m] = "handshake"
  BY DEF IInv, handshake_error, boxVars
<1>1. SentNew
  <2>1. \/ UNCHANGED toSdb
        \/ toSdb[m] # <<>> /\ toSdb' = [toSdb EXCEPT ![m] = Tail(@)]
    BY DEF handshake_error
  <2> QED BY <1>0, <2>1, NoneSent, TailSent
<1>2. HandNew /\ CurNew
  <2>1. pc' = [pc EXCEPT ![m] = "dead"]
    BY DEF handshake_error
  <2>2. \A k \in Slots : /\ pc'[k] \in Sending => pc[k] \in Sending
                         /\ pc'[k] \in Naming \cup Scanning => pc[k] \in Naming \cup Scanning
                         /\ pc'[k] = "found" => pc[k] = "found"
    BY <1>0, <2>1 DEF Sending, Naming, Scanning, TypeOK
  <2> QED BY <1>0, <2>2, NoneTaken, NoneLooked
<1>3. BoxNew /\ QueueNew
  BY <1>0, NoneMailed, NoneQueued
<1>4. ReceivedNew
  <2> DEFINE p == Head(toSdb[m])
  <2>1. \/ UNCHANGED toApp
        \/ /\ toSdb[m] # <<>>
           /\ \/ Write(m, <<Ans(p, "EBADFORMAT")>>)
              \/ Write(m, <<Ans(p, "ECONNREFUSED")>>)
    BY DEF handshake_error
  <2>2. CASE UNCHANGED toApp
    BY <2>2, NoneReceived
  <2>3. ASSUME NEW r \in Result, toSdb[m] # <<>>, Write(m, <<Ans(p, r)>>) PROVE ReceivedNew
    <3>1. 1 \in 1..Len(toSdb[m]) /\ p = toSdb[m][1] /\ Fresh(m)
      BY <1>0, <2>3 DEF TypeOK, Fresh
    <3>2. p.type # "ans"
      BY <3>1 DEF IInv, FreshInv
    <3>3. p \in Packet /\ p.id[1] = m
      BY <2>3, <3>2, HeadPacket
    <3> HIDE DEF p
    <3>4. Written(m, Answers(p))
      BY <1>0, <2>3, <3>3, AnswerWritten
    <3> QED BY <3>3, <3>4, AnswerReceived
  <2> QED BY <2>1, <2>2, <2>3 DEF Result
<1> QED BY <1>1, <1>2, <1>3, <1>4 DEF New

\* The steps of a good handshake.
LEMMA RouteHandshake ==
    ASSUME IInv, NEW m \in Slots,
           handshake_read(m) \/ handshake_name(m) \/ handshake_refuse(m) \/ handshake(m)
    PROVE  New
<1>0. /\ TypeOK /\ UNCHANGED <<hand, data, queue>> /\ pc \in [Slots -> Place]
      /\ cur \in [Slots -> Local \cup {NULL}]
  BY DEF IInv, TypeOK, handshake_read, handshake_name, handshake_refuse, handshake, boxVars
<1>1. SentNew
  <2>1. \/ UNCHANGED toSdb
        \/ toSdb[m] # <<>> /\ toSdb' = [toSdb EXCEPT ![m] = Tail(@)]
    BY DEF handshake_read, handshake_name, handshake_refuse, handshake
  <2> QED BY <1>0, <2>1, NoneSent, TailSent
<1>2. /\ \A k \in Slots : pc'[k] \in Sending => pc[k] \in Sending
      /\ \A k \in Slots \ {m} : /\ pc'[k] \in Naming \cup Scanning => pc'[k] = pc[k]
                                /\ cur'[k] = cur[k]
      /\ pc'[m] \notin Scanning /\ pc[m] # "found"
  <2>1. CASE handshake_read(m) \/ handshake_name(m) \/ handshake_refuse(m)
    <3>1. /\ \/ UNCHANGED pc
             \/ \E a \in {"naming", "group", "dead"} : pc' = [pc EXCEPT ![m] = a]
          /\ UNCHANGED cur \/ \E l : cur' = [cur EXCEPT ![m] = l]
          /\ pc[m] \in {"handshake", "naming", "group"}
      BY <2>1 DEF handshake_read, handshake_name, handshake_refuse
    <3> QED BY <1>0, <3>1 DEF Sending, Naming, Scanning
  <2>2. CASE handshake(m)
    <3>1. /\ pc' = [Broadcast(pc, m) EXCEPT ![m] = "relock"] /\ pc[m] = "group"
          /\ cur' = [cur EXCEPT ![m] = NULL]
      BY <2>2 DEF handshake
    <3> QED BY <1>0, <3>1, BroadcastEffect DEF Sending, Naming, Scanning
  <2> QED BY <2>1, <2>2
<1>3. HandNew
  BY <1>0, <1>2, NoneTaken
<1>4. CurNew
  <2>1. pc'[m] \in Naming \cup Scanning =>
            (pc[m] \in Naming /\ cur'[m] = cur[m]) \/ CurOK(m, cur'[m])
    <3>1. CASE handshake_read(m)
      <4> DEFINE p == Head(toSdb[m])
                 l == [pkt |-> p, i |-> 0, list_num |-> 0]
      <4>1. /\ toSdb[m] # <<>> /\ p.type = "req" /\ cur' = [cur EXCEPT ![m] = l]
        BY <3>1 DEF handshake_read
      <4>2. p \in Packet /\ p.id[1] = m
        BY <4>1, HeadPacket
      <4>3. 0 \in 0..MaxConn /\ 0 <= last
        BY <1>0, BusAssumption DEF TypeOK, SDB_MODULE_MAX
      <4> HIDE DEF p
      <4>4. CurOK(m, l)
        BY <4>1, <4>2, <4>3 DEF CurOK, Local
      <4> QED BY <1>0, <4>1, <4>4
    <3>2. CASE handshake_name(m)
      BY <3>2 DEF handshake_name, Naming
    <3>3. CASE handshake_refuse(m)
      BY <1>0, <3>3 DEF handshake_refuse, Naming, Scanning
    <3>4. CASE handshake(m)
      <4>1. pc'[m] = "relock"
        BY <1>0, <3>4, BroadcastEffect DEF handshake
      <4> QED BY <4>1 DEF Naming, Scanning
    <3> QED BY <3>1, <3>2, <3>3, <3>4
  <2>2. pc'[m] # "found"
    BY <1>2 DEF Scanning
  <2> QED BY <1>2, <2>1, <2>2 DEF CurNew, Scanning
<1>5. BoxNew
  <2>1. UNCHANGED data_valid \/ data_valid' = [data_valid EXCEPT ![m] = FALSE]
    BY DEF handshake_read, handshake_name, handshake_refuse, handshake, boxVars
  <2>2. \A k \in Slots : data_valid'[k] => data_valid[k]
    BY <1>0, <2>1 DEF TypeOK
  <2> QED BY <1>0, <2>2, NoneMailed
<1>6. ReceivedNew
  <2>1. CASE UNCHANGED toApp
    BY <2>1, NoneReceived
  <2>2. CASE handshake_refuse(m) \/ handshake(m)
    <3> DEFINE p == cur[m].pkt
    <3>1. \E r \in Result : Write(m, <<Ans(p, r)>>)
      BY <2>2 DEF handshake_refuse, handshake, Result
    <3>2. p \in Packet /\ p.id[1] = m
      BY <2>2 DEF handshake_refuse, handshake, IInv, RouteInv, CurOK, Local, Naming
    <3> HIDE DEF p
    <3>3. Written(m, Answers(p))
      BY <1>0, <3>1, <3>2, AnswerWritten
    <3> QED BY <3>2, <3>3, AnswerReceived
  <2> QED BY <2>1, <2>2 DEF handshake_read, handshake_name
<1>7. QueueNew
  BY <1>0, NoneQueued
<1> QED BY <1>1, <1>3, <1>4, <1>5, <1>6, <1>7 DEF New

\* A packet leaves the mailbox: the queue remembers who asked, and the client
\* receives what is for it.
LEMMA RouteMailbox ==
    ASSUME IInv, NEW m \in Slots, process_pkt_sdb(m)
    PROVE  New
<1> DEFINE p == data[m].pkt
<1>0. /\ TypeOK /\ UNCHANGED <<pc, hand, cur, data, toSdb>> /\ pc[m] = "loop"
      /\ data_valid[m] /\ data_valid' = [data_valid EXCEPT ![m] = FALSE]
  BY DEF IInv, process_pkt_sdb, modVars
<1>1. data[m] \in Mail /\ OnWay(p, data[m].from, m)
  BY <1>0 DEF IInv, RouteInv
<1>2. p \in Packet /\ p.id \in Id /\ data[m].from \in Slots
  BY <1>1 DEF Mail, Packet
<1>3. \A k \in Slots : data_valid'[k] => data_valid[k]
  BY <1>0 DEF TypeOK
<1>4. SentNew /\ HandNew /\ CurNew /\ BoxNew
  BY <1>0, <1>3, NoneSent, NoneTaken, NoneLooked, NoneMailed
<1>5. \/ p.type = "ans" /\ UNCHANGED <<queue, toApp>>
      \/ /\ p.type = "ans" /\ Expects(queue[m], p.id) /\ Write(m, <<p>>)
         /\ queue' = [queue EXCEPT ![m] = Delete(@, Match(@, p.id))]
      \/ /\ p.type = "req" /\ Write(m, <<p>>)
         /\ queue' = [queue EXCEPT ![m] = Push(@, sdb_packet(p.id, data[m].from))]
  BY DEF process_pkt_sdb
<1> HIDE DEF p
<1>6. QueueNew
  <2>1. CASE UNCHANGED queue
    BY <2>1, NoneQueued
  <2>2. CASE /\ Expects(queue[m], p.id)
             /\ queue' = [queue EXCEPT ![m] = Delete(@, Match(@, p.id))]
    BY <1>0, <2>2, DeleteEffect DEF Queued, QueueNew
  <2>3. CASE /\ p.type = "req"
             /\ queue' = [queue EXCEPT ![m] = Push(@, sdb_packet(p.id, data[m].from))]
    <3>1. Queued(m, {sdb_packet(p.id, data[m].from)})
      BY <1>0, <1>2, <2>3, PushEffect
    <3>2. data[m].from < last /\ p.id[1] = data[m].from
      BY <1>1, <2>3 DEF OnWay
    <3>3. ElemOK(sdb_packet(p.id, data[m].from))
      BY <3>2 DEF ElemOK, sdb_packet
    <3> QED BY <3>1, <3>3 DEF Queued, QueueNew
  <2> QED BY <1>5, <2>1, <2>2, <2>3
<1>7. ReceivedNew
  <2>1. CASE UNCHANGED toApp
    BY <2>1, NoneReceived
  <2>2. CASE Write(m, <<p>>)
    <3>1. {p} \in SUBSET Packet /\ <<p>> \in Seq({p})
      BY <1>2
    <3>2. Written(m, {p})
      BY <1>0, <2>2, <3>1, WriteEffect
    <3>3. name[m] = AppName[m] /\ ~Fresh(m)
      BY <1>0 DEF IInv, TableInv, Fresh, Naming
    <3>4. ReceivedOK(m, p) /\ ~Fresh(m)
      BY <1>1, <3>3 DEF ReceivedOK, OnWay
    <3> QED BY <3>2, <3>4 DEF Written, ReceivedNew
  <2> QED BY <1>5, <2>1, <2>2
<1> QED BY <1>4, <1>6, <1>7 DEF New

\* A packet from the socket: it is refused, answered or dropped, the thread
\* looks for its addressee or starts to send it.
LEMMA RouteWork ==
    ASSUME IInv, NEW m \in Slots, Works(m)
    PROVE  New
<1>0. /\ TypeOK /\ UNCHANGED <<data, data_valid>> /\ pc[m] \in {"loop"} \cup Scanning
      /\ \/ UNCHANGED toSdb
         \/ toSdb[m] # <<>> /\ toSdb' = [toSdb EXCEPT ![m] = Tail(@)]
  BY WorkStep DEF IInv
<1>1. PICK p \in Packet : SocketEffect(m, p) /\ (p.type # "ans" => p.id[1] = m)
  BY WorkStep
<1>2. m < last
  <2>1. ~(m >= last)
    BY <1>0 DEF IInv, TableInv, Scanning
  <2>2. m \in Int /\ last \in 0..MaxConn /\ MaxConn \in Int
    BY <1>0, SlotFacts, BusAssumption DEF TypeOK
  <2> QED BY <2>1, <2>2
<1>3. SentNew /\ BoxNew
  BY <1>0, NoneSent, TailSent, NoneMailed
<1>4. QueueNew
  <2>1. CASE p.type = "ans"
    BY <1>1, <2>1 DEF SocketEffect, Queued, QueueNew
  <2>2. CASE p.type # "ans"
    <3>1. Queued(m, {sdb_packet(p.id, m)})
      BY <1>1, <2>2 DEF SocketEffect
    <3>2. ElemOK(sdb_packet(p.id, m))
      BY <1>1, <1>2, <2>2 DEF ElemOK, sdb_packet
    <3> QED BY <3>1, <3>2 DEF Queued, QueueNew
  <2> QED BY <2>1, <2>2
<1>5. ReceivedNew
  <2>1. CASE p.type = "ans"
    BY <1>1, <2>1 DEF SocketEffect, Written, ReceivedNew
  <2>2. CASE p.type # "ans"
    <3>1. Written(m, Answers(p)) /\ p.id[1] = m
      BY <1>1, <2>2 DEF SocketEffect
    <3> QED BY <1>1, <3>1, AnswerReceived
  <2> QED BY <2>1, <2>2
<1>6. HandNew /\ CurNew
  <2>1. CASE UNCHANGED modVars
    BY <2>1, NoneTaken, NoneLooked DEF modVars
  <2>2. CASE Forwarded(m, p)
    <3>1. PICK to \in Slots : /\ hand' = [hand EXCEPT ![m] = [pkt |-> p, to |-> to]]
                              /\ pc' = [pc EXCEPT ![m] = "lockTo"]
                              /\ cur' = [cur EXCEPT ![m] = NULL]
                              /\ p.type \in {"req", "ans"}
                              /\ to < last
                              /\ p.type = "ans" => to = p.id[1]
                              /\ For(to, p)
      BY <2>2 DEF Forwarded
    <3>2. OnWay(p, m, to)
      BY <1>1, <1>2, <3>1 DEF OnWay
    <3>3. hand'[m].pkt = p /\ hand'[m].to = to /\ pc'[m] = "lockTo"
      BY <1>0, <3>1 DEF TypeOK
    <3>4. \A k \in Slots \ {m} : pc'[k] = pc[k] /\ hand'[k] = hand[k] /\ cur'[k] = cur[k]
      BY <1>0, <3>1 DEF TypeOK
    <3>5. HandNew
      BY <3>2, <3>3, <3>4 DEF HandNew
    <3>6. CurNew
      BY <3>3, <3>4 DEF CurNew, Naming, Scanning
    <3> QED BY <3>5, <3>6
  <2>3. CASE Back(m)
    <3>1. pc'[m] = "loop" /\ \A k \in Slots \ {m} : pc'[k] = pc[k] /\ cur'[k] = cur[k]
      BY <1>0, <2>3 DEF Back, TypeOK
    <3>2. HandNew
      BY <2>3, <3>1 DEF HandNew, Back, Sending
    <3>3. CurNew
      BY <3>1 DEF CurNew, Naming, Scanning
    <3> QED BY <3>2, <3>3
  <2>4. CASE Looks(m, p)
    <3>1. \E a \in Scanning : \E l \in Local :
                          /\ pc' = [pc EXCEPT ![m] = a]
                          /\ cur' = [cur EXCEPT ![m] = l]
                          /\ UNCHANGED hand
                          /\ p.type = "req" /\ l.pkt = p /\ l.list_num <= last
                          /\ a = "found" => LooksAt(l)
      BY <2>4 DEF Looks
    <3>2. PICK a \in Scanning : \E l \in Local :
                          /\ pc' = [pc EXCEPT ![m] = a]
                          /\ cur' = [cur EXCEPT ![m] = l]
                          /\ UNCHANGED hand
                          /\ p.type = "req" /\ l.pkt = p /\ l.list_num <= last
                          /\ a = "found" => LooksAt(l)
      BY <3>1
    <3>3. PICK l \in Local :
                          /\ pc' = [pc EXCEPT ![m] = a]
                          /\ cur' = [cur EXCEPT ![m] = l]
                          /\ UNCHANGED hand
                          /\ p.type = "req" /\ l.pkt = p /\ l.list_num <= last
                          /\ a = "found" => LooksAt(l)
      BY <3>2
    <3>4. /\ pc'[m] = a /\ cur'[m] = l
          /\ \A k \in Slots \ {m} : pc'[k] = pc[k] /\ cur'[k] = cur[k]
      BY <1>0, <3>3 DEF TypeOK
    <3>5. HandNew
      BY <3>3, <3>4 DEF HandNew, Sending, Scanning
    <3>6. CurOK(m, l)
      BY <1>1, <3>3 DEF CurOK
    <3>7. CurNew
      BY <3>3, <3>4, <3>6 DEF CurNew
    <3> QED BY <3>5, <3>7
  <2> QED BY <1>1, <2>1, <2>2, <2>3, <2>4 DEF SocketEffect, Outcome
<1> QED BY <1>3, <1>4, <1>5, <1>6 DEF New

\* The addressee's lock, and then the packet in its mailbox.
LEMMA RouteSend ==
    ASSUME IInv, NEW m \in Slots, lock_to(m) \/ sdb_module_write_mcs_packet(m)
    PROVE  New
<1>0. TypeOK /\ UNCHANGED <<cur, queue, toSdb, toApp>>
  BY DEF IInv, lock_to, sdb_module_write_mcs_packet
<1>1. SentNew /\ QueueNew /\ ReceivedNew
  BY <1>0, NoneSent, NoneQueued, NoneReceived
<1>2. pc[m] \in Sending /\ hand[m] \in Hand /\ OnWay(hand[m].pkt, m, hand[m].to)
  <2>1. pc[m] \in Sending
    BY DEF lock_to, sdb_module_write_mcs_packet, Sending
  <2> QED BY <2>1 DEF IInv, LockInv, RouteInv
<1>3. CASE lock_to(m)
  <2>1. UNCHANGED <<data, data_valid>>
    BY <1>3 DEF lock_to, boxVars
  <2>2. HandNew
    <3>1. CASE UNCHANGED hand /\ \A k \in Slots : k # m => pc'[k] = pc[k]
      BY <1>2, <3>1 DEF HandNew
    <3>2. CASE hand' = [hand EXCEPT ![m] = NULL] /\ pc' = [pc EXCEPT ![m] = "loop"]
      <4>1. /\ pc'[m] = "loop"
            /\ \A k \in Slots : k # m => pc'[k] = pc[k] /\ hand'[k] = hand[k]
        BY <1>0, <3>2 DEF TypeOK
      <4> QED BY <4>1 DEF HandNew, Sending
    <3>3. \/ UNCHANGED hand /\ pc' = [pc EXCEPT ![m] = "write"]
          \/ UNCHANGED hand /\ pc' = [pc EXCEPT ![m] = "waitTo"]
          \/ hand' = [hand EXCEPT ![m] = NULL] /\ pc' = [pc EXCEPT ![m] = "loop"]
      <4>1. CASE ~data_valid[hand[m].to]
        BY <1>3, <4>1 DEF lock_to
      <4>2. CASE data_valid[hand[m].to] /\ hand[m].to # m
        BY <1>3, <4>2 DEF lock_to
      <4>3. CASE data_valid[hand[m].to] /\ hand[m].to = m
        BY <1>3, <4>3 DEF lock_to
      <4> QED BY <4>1, <4>2, <4>3
    <3>4. \A x : pc' = [pc EXCEPT ![m] = x] => \A k \in Slots : k # m => pc'[k] = pc[k]
      BY <1>0 DEF TypeOK
    <3> QED BY <3>1, <3>2, <3>3, <3>4
  <2>3. CurNew
    <3>1. \E x \in {"write", "waitTo", "loop"} : pc' = [pc EXCEPT ![m] = x]
      BY <1>3 DEF lock_to
    <3>2. \A k \in Slots : /\ pc'[k] \in Naming \cup Scanning => pc[k] \in Naming \cup Scanning
                           /\ pc'[k] = "found" => pc[k] = "found"
      BY <1>0, <3>1 DEF Naming, Scanning, TypeOK
    <3> QED BY <1>0, <3>2, NoneLooked
  <2> QED BY <1>1, <2>1, <2>2, <2>3, NoneMailed DEF New
<1>4. CASE sdb_module_write_mcs_packet(m)
  <2> DEFINE to == hand[m].to
  <2>1. to \in Slots /\ hand[m].pkt \in Packet
    BY <1>2 DEF Hand
  <2>2. /\ data' = [data EXCEPT ![to] = [from |-> m, pkt |-> hand[m].pkt]]
        /\ data_valid' = [data_valid EXCEPT ![to] = TRUE]
        /\ pc' = [Broadcast(pc, to) EXCEPT ![m] = "loop"]
        /\ hand' = [hand EXCEPT ![m] = NULL]
    BY <1>4 DEF sdb_module_write_mcs_packet
  <2> HIDE DEF to
  <2>3. HandNew
    <3>1. pc'[m] = "loop" /\ \A k \in Slots \ {m} :
                pc'[k] \in Sending => pc[k] \in Sending
      BY <1>0, <2>1, <2>2, BroadcastEffect DEF Sending
    <3>2. \A k \in Slots \ {m} : hand'[k] = hand[k]
      BY <1>0, <2>2 DEF TypeOK
    <3> QED BY <3>1, <3>2 DEF HandNew, Sending
  <2>4. BoxNew
    <3>1. data'[to] = [from |-> m, pkt |-> hand[m].pkt]
      BY <1>0, <2>1, <2>2 DEF TypeOK
    <3>2. data'[to] \in Mail /\ OnWay(data'[to].pkt, data'[to].from, to)
      BY <1>2, <2>1, <3>1 DEF Mail, to
    <3>3. \A k \in Slots \ {to} : data'[k] = data[k] /\ data_valid'[k] = data_valid[k]
      BY <1>0, <2>1, <2>2 DEF TypeOK
    <3> QED BY <3>2, <3>3 DEF BoxNew
  <2>5. CurNew
    <3>1. \A k \in Slots : /\ pc'[k] \in Naming \cup Scanning => pc[k] \in Naming \cup Scanning
                           /\ pc'[k] = "found" => pc[k] = "found"
      BY <1>0, <2>1, <2>2, BroadcastEffect DEF Naming, Scanning
    <3> QED BY <1>0, <3>1, NoneLooked
  <2> QED BY <1>1, <2>3, <2>4, <2>5 DEF New
<1> QED BY <1>3, <1>4

\* The steps of RouteInv that move no packet, and the ones of the clients.
LEMMA RouteQuiet ==
    ASSUME TypeOK, UNCHANGED <<hand, cur, data, data_valid, queue, toSdb, toApp>>,
           \A k \in Slots :
                /\ pc'[k] \in Sending => pc[k] \in Sending
                /\ pc'[k] \in Naming \cup Scanning => pc[k] \in Naming \cup Scanning
                /\ pc'[k] = "found" => pc[k] = "found"
    PROVE  New
BY NoneSent, NoneQueued, NoneTaken, NoneLooked, NoneMailed, NoneReceived DEF New

LEMMA RouteClient ==
    ASSUME IInv, NEW m \in Slots, Client(m)
    PROVE  New
<1>0. TypeOK /\ UNCHANGED <<pc, hand, cur, data, data_valid, queue, toApp>>
  BY ClientSteps DEF IInv
<1>1. QueueNew /\ HandNew /\ CurNew /\ BoxNew /\ ReceivedNew
  BY <1>0, NoneQueued, NoneTaken, NoneLooked, NoneMailed, NoneReceived
<1>2. CASE UNCHANGED toSdb
  BY <1>1, <1>2, NoneSent DEF New
<1>3. CASE toSdb' # toSdb
  <2>1. PICK p \in Packet :
            /\ toSdb' = [toSdb EXCEPT ![m] = Append(@, p)]
            /\ SentOK(m, p)
    BY <1>0, <1>3, ClientSteps DEF SentOK
  <2>2. toSdb \in [Slots -> Seq(Packet)] /\ toSdb[m] \in Seq(Packet)
    BY <1>0 DEF TypeOK
  <2>3. toSdb'[m] = Append(toSdb[m], p) /\ \A k \in Slots \ {m} : toSdb'[k] = toSdb[k]
    BY <2>1, <2>2
  <2>4. ASSUME NEW i \in 1..Len(toSdb'[m])
        PROVE  (\E j \in 1..Len(toSdb[m]) : toSdb'[m][i] = toSdb[m][j]) \/ toSdb'[m][i] = p
    BY <2>2, <2>3
  <2>5. SentNew
    BY <2>1, <2>3, <2>4 DEF SentNew
  <2> QED BY <1>1, <2>5 DEF New
<1> QED BY <1>2, <1>3

LEMMA RouteStep ==
    ASSUME IInv, Next, TypeOK'
    PROVE  RouteInv'
<1>0. /\ TypeOK /\ Stable
      /\ pc \in [Slots -> Place]
  BY StableStep DEF IInv, TypeOK
<1> SUFFICES New
  BY <1>0, RouteMoves
<1>1. CASE sdb_module_init
  <2>1. /\ UNCHANGED <<hand, cur, data, data_valid, queue, toSdb, toApp>>
        /\ pc' = [pc EXCEPT ![last] = "handshake"]
    BY <1>1 DEF sdb_module_init, boxVars
  <2>2. \A k \in Slots :
            /\ pc'[k] \in Sending => pc[k] \in Sending
            /\ pc'[k] \in Naming \cup Scanning => pc[k] \in Naming \cup Scanning
            /\ pc'[k] = "found" => pc[k] = "found"
    BY <1>0, <2>1 DEF Sending, Naming, Scanning
  <2> QED BY <1>0, <2>1, <2>2, RouteQuiet
<1>2. ASSUME NEW m \in Slots, cond_wait(m) \/ relock(m) \/ spurious_wakeup(m) PROVE New
  <2>1. /\ UNCHANGED <<hand, cur, data, data_valid, queue, toSdb, toApp>>
        /\ \/ pc' = [pc EXCEPT ![m] = "wait"] \/ pc' = [pc EXCEPT ![m] = "loop"]
           \/ pc' = [pc EXCEPT ![m] = "relock"]
           \/ pc[m] = "waitTo" /\ pc' = [pc EXCEPT ![m] = "lockTo"]
    BY <1>2 DEF cond_wait, relock, spurious_wakeup, boxVars
  <2>2. \A k \in Slots :
            /\ pc'[k] \in Sending => pc[k] \in Sending
            /\ pc'[k] \in Naming \cup Scanning => pc[k] \in Naming \cup Scanning
            /\ pc'[k] = "found" => pc[k] = "found"
    BY <1>0, <2>1 DEF Sending, Naming, Scanning
  <2> QED BY <1>0, <2>1, <2>2, RouteQuiet
<1>3. CASE observer_notify
  <2>1. UNCHANGED <<hand, cur, data, data_valid, queue, toSdb, toApp>>
    BY <1>3 DEF observer_notify, boxVars
  <2>2. PICK m \in Slots : UNCHANGED pc \/ pc' = Broadcast(pc, m)
    BY <1>0, <1>3 DEF observer_notify, TypeOK
  <2>3. \A k \in Slots :
            /\ pc'[k] \in Sending => pc[k] \in Sending
            /\ pc'[k] \in Naming \cup Scanning => pc[k] \in Naming \cup Scanning
            /\ pc'[k] = "found" => pc[k] = "found"
    BY <1>0, <2>2, BroadcastEffect DEF Sending, Naming, Scanning
  <2> QED BY <1>0, <2>1, <2>3, RouteQuiet
<1>4. ASSUME observer_start \/ observer_select \/ observer_return
             \/ \E m \in Slots : read_timeout(m)
      PROVE  New
  <2>1. UNCHANGED <<pc, hand, cur, data, data_valid, queue, toSdb, toApp>>
    BY <1>4, WatchSteps
  <2> QED BY <1>0, <2>1, RouteQuiet
<1> QED
  BY <1>1, <1>2, <1>3, <1>4, RouteRefused, RouteHandshake, RouteMailbox,
     RouteWork, RouteSend, RouteClient
  DEF Next, Daemon, Observer, ModuleThread, Works

\* Nothing is written to a socket but by its own thread.
LEMMA FreshStep ==
    ASSUME IInv, Next, TypeOK'
    PROVE  FreshInv'
<1>0. /\ TypeOK /\ FreshInv
      /\ pc \in [Slots -> Place]
      /\ toSdb \in [Slots -> Seq(Packet)] /\ toApp \in [Slots -> Seq(Packet)]
      /\ queue \in [Slots -> Seq(Elem)]
  BY DEF IInv, TypeOK
<1>1. ASSUME \A k \in Slots : Fresh(k)' => /\ Fresh(k) /\ toSdb'[k] = toSdb[k]
                                         /\ toApp'[k] = toApp[k] /\ queue'[k] = queue[k]
      PROVE  FreshInv'
  BY <1>0, <1>1 DEF FreshInv, Fresh
<1>2. ASSUME UNCHANGED <<toSdb, toApp, queue>>, \A k \in Slots : Fresh(k)' => Fresh(k)
      PROVE  FreshInv'
  BY <1>1, <1>2
<1>3. CASE sdb_module_init
  <2>1. /\ UNCHANGED <<toSdb, toApp, queue>> /\ pc' = [pc EXCEPT ![last] = "handshake"]
        /\ last \in Slots
    BY <1>0, <1>3, SlotFacts DEF sdb_module_init, TypeOK
  <2>2. pc[last] = "none"
    BY <2>1, SlotFacts DEF IInv, TableInv
  <2>3. \A k \in Slots : Fresh(k)' => Fresh(k)
    BY <1>0, <2>1, <2>2 DEF Fresh, Naming
  <2> QED BY <1>2, <2>1, <2>3
<1>4. ASSUME NEW m \in Slots, handshake_error(m) \/ handshake_refuse(m) \/ handshake(m)
      PROVE  FreshInv'
  <2>1. /\ UNCHANGED toSdb \/ toSdb' = [toSdb EXCEPT ![m] = Tail(@)]
        /\ UNCHANGED queue
        /\ UNCHANGED toApp \/ \E ps : Write(m, ps)
    BY <1>4 DEF handshake_error, handshake_refuse, handshake
  <2>2. \A k \in Slots \ {m} : /\ toSdb'[k] = toSdb[k] /\ toApp'[k] = toApp[k]
                                /\ queue'[k] = queue[k]
    BY <1>0, <2>1 DEF Write
  <2>3. \/ pc' = [pc EXCEPT ![m] = "dead"]
        \/ pc' = [Broadcast(pc, m) EXCEPT ![m] = "relock"]
    BY <1>4 DEF handshake_error, handshake_refuse, handshake
  <2>4. ~Fresh(m)' /\ \A k \in Slots \ {m} : Fresh(k)' => Fresh(k)
    BY <1>0, <2>3, BroadcastEffect DEF Fresh, Naming
  <2> QED BY <1>1, <2>2, <2>4
<1>20. ASSUME NEW m \in Slots, handshake_read(m) PROVE FreshInv'
  <2>1. /\ toSdb[m] # <<>> /\ toSdb' = [toSdb EXCEPT ![m] = Tail(@)]
        /\ UNCHANGED <<toApp, queue>>
        /\ pc[m] = "handshake" /\ pc' = [pc EXCEPT ![m] = "naming"]
    BY <1>20 DEF handshake_read
  <2>2. \A k \in Slots : Fresh(k)' => Fresh(k)
    BY <1>0, <2>1 DEF Fresh, Naming
  <2>4. toSdb'[m] = Tail(toSdb[m]) /\ \A k \in Slots \ {m} : toSdb'[k] = toSdb[k]
    BY <1>0, <2>1
  <2>5. \A i \in 1..Len(Tail(toSdb[m])) :
            i + 1 \in 1..Len(toSdb[m]) /\ Tail(toSdb[m])[i] = toSdb[m][i + 1]
    <3>1. toSdb[m] \in Seq(Packet)
      BY <1>0
    <3> QED BY <2>1, <3>1
  <2>6. ASSUME NEW k \in Slots, Fresh(k)
        PROVE  \A i \in 1..Len(toSdb'[k]) : toSdb'[k][i].type # "ans"
    <3>1. CASE k = m
      <4> SUFFICES ASSUME NEW i \in 1..Len(Tail(toSdb[m]))
                   PROVE  Tail(toSdb[m])[i].type # "ans"
        BY <2>4, <3>1
      <4>1. i + 1 \in 1..Len(toSdb[m]) /\ Tail(toSdb[m])[i] = toSdb[m][i + 1]
        BY <2>5
      <4> QED BY <1>0, <2>6, <3>1, <4>1 DEF FreshInv
    <3>2. CASE k # m
      BY <1>0, <2>4, <2>6, <3>2 DEF FreshInv
    <3> QED BY <3>1, <3>2
  <2>7. ASSUME NEW k \in Slots, Fresh(k)'
        PROVE  /\ \A i \in 1..Len(toApp'[k]) : FALSE
               /\ \A i \in 1..Len(queue'[k]) : FALSE
               /\ \A i \in 1..Len(toSdb'[k]) : toSdb'[k][i].type # "ans"
    BY <1>0, <2>1, <2>2, <2>6, <2>7 DEF FreshInv
  <2> QED BY <2>7 DEF FreshInv, Fresh
<1>21. ASSUME NEW m \in Slots, handshake_name(m) PROVE FreshInv'
  <2>1. /\ UNCHANGED <<toSdb, toApp, queue>> /\ pc[m] = "naming"
        /\ UNCHANGED pc \/ pc' = [pc EXCEPT ![m] = "group"]
    BY <1>21 DEF handshake_name
  <2>2. \A k \in Slots : Fresh(k)' => Fresh(k)
    BY <1>0, <2>1 DEF Fresh, Naming
  <2> QED BY <1>2, <2>1, <2>2
<1>5. ASSUME NEW m \in Slots,
             \/ cond_wait(m) \/ relock(m) \/ spurious_wakeup(m)
             \/ lock_to(m)
      PROVE FreshInv'
  <2>1. /\ UNCHANGED <<toSdb, toApp, queue>>
        /\ \/ pc' = [pc EXCEPT ![m] = "wait"] \/ pc' = [pc EXCEPT ![m] = "loop"]
           \/ pc' = [pc EXCEPT ![m] = "relock"] \/ pc' = [pc EXCEPT ![m] = "lockTo"]
           \/ pc' = [pc EXCEPT ![m] = "write"] \/ pc' = [pc EXCEPT ![m] = "waitTo"]
    BY <1>5 DEF cond_wait, relock, spurious_wakeup, lock_to
  <2>2. \A k \in Slots : Fresh(k)' => Fresh(k)
    BY <1>0, <2>1 DEF Fresh, Naming
  <2> QED BY <1>2, <2>1, <2>2
<1>6. ASSUME NEW m \in Slots, sdb_module_write_mcs_packet(m) PROVE FreshInv'
  <2>1. /\ UNCHANGED <<toSdb, toApp, queue>> /\ hand[m].to \in Slots
        /\ pc' = [Broadcast(pc, hand[m].to) EXCEPT ![m] = "loop"]
    BY <1>6 DEF sdb_module_write_mcs_packet, IInv, LockInv, Sending, Hand
  <2>2. \A k \in Slots : Fresh(k)' => Fresh(k)
    BY <1>0, <2>1, BroadcastEffect DEF Fresh, Naming
  <2> QED BY <1>2, <2>1, <2>2
<1>7. ASSUME NEW m \in Slots, process_pkt_sdb(m) PROVE FreshInv'
  <2>1. /\ pc[m] = "loop" /\ UNCHANGED <<pc, toSdb>>
        /\ UNCHANGED toApp \/ \E ps : Write(m, ps)
        /\ UNCHANGED queue \/ \E q : queue' = [queue EXCEPT ![m] = q]
    BY <1>7 DEF process_pkt_sdb, modVars
  <2>2. \A k \in Slots \ {m} : toApp'[k] = toApp[k] /\ queue'[k] = queue[k]
    BY <1>0, <2>1 DEF Write
  <2> QED BY <1>1, <2>1, <2>2 DEF Fresh, Naming
<1>8. ASSUME NEW m \in Slots, Works(m) PROVE FreshInv'
  <2>0. PICK p \in Packet : SocketEffect(m, p)
    BY <1>8, WorkStep
  <2>1. /\ pc[m] \in {"loop"} \cup Scanning
        /\ UNCHANGED toSdb \/ toSdb' = [toSdb EXCEPT ![m] = Tail(@)]
    BY <1>8, WorkStep
  <2>9. Outcome(m, p)
    BY <2>0 DEF SocketEffect
  <2>10. pc \in [Slots -> Place]
    BY <1>0 DEF TypeOK
  <2>11. \E a \in {"loop", "lockTo"} \cup Scanning : pc' = [pc EXCEPT ![m] = a]
    <3>1. CASE UNCHANGED modVars
      BY <2>1, <2>10, <3>1 DEF modVars
    <3>2. CASE Back(m) \/ Forwarded(m, p)
      BY <3>2 DEF Back, Forwarded
    <3>3. CASE Looks(m, p)
      BY <3>3 DEF Looks
    <3> QED BY <2>9, <3>1, <3>2, <3>3 DEF Outcome
  <2>2. PICK a \in {"loop", "lockTo"} \cup Scanning : pc' = [pc EXCEPT ![m] = a]
    BY <2>11
  <2>3. ~Fresh(m)' /\ \A k \in Slots \ {m} : (Fresh(k)' => Fresh(k)) /\ toSdb'[k] = toSdb[k]
    BY <1>0, <2>1, <2>2 DEF Fresh, Naming, Scanning
  <2>4. \A k \in Slots \ {m} :
            /\ \A i \in 1..Len(toApp'[k]) : \E j \in 1..Len(toApp[k]) : TRUE
            /\ \A i \in 1..Len(queue'[k]) : \E j \in 1..Len(queue[k]) : TRUE
    BY <2>0 DEF SocketEffect, Written, Queued
  <2>5. ASSUME NEW k \in Slots, Fresh(k)'
        PROVE  /\ \A i \in 1..Len(toApp'[k]) : FALSE
               /\ \A i \in 1..Len(queue'[k]) : FALSE
               /\ \A i \in 1..Len(toSdb'[k]) : toSdb'[k][i].type # "ans"
    BY <1>0, <2>3, <2>4, <2>5 DEF FreshInv
  <2> QED BY <2>5 DEF FreshInv, Fresh
<1>9. CASE observer_notify
  <2>1. UNCHANGED <<toSdb, toApp, queue>>
    BY <1>9 DEF observer_notify
  <2>2. PICK m \in Slots : UNCHANGED pc \/ pc' = Broadcast(pc, m)
    BY <1>0, <1>9 DEF observer_notify, TypeOK
  <2>3. \A k \in Slots : Fresh(k)' => Fresh(k)
    BY <1>0, <2>2, BroadcastEffect DEF Fresh, Naming
  <2> QED BY <1>2, <2>1, <2>3
<1>10. ASSUME observer_start \/ observer_select \/ observer_return
              \/ \E m \in Slots : read_timeout(m)
       PROVE  FreshInv'
  <2>1. UNCHANGED <<pc, toSdb, toApp, queue>>
    BY <1>10, WatchSteps
  <2> QED BY <1>2, <2>1 DEF Fresh
<1>11. ASSUME NEW m \in Slots, Client(m) PROVE FreshInv'
  <2>1. UNCHANGED <<pc, toApp, queue>>
    BY <1>0, <1>11, ClientSteps
  <2>2. CASE UNCHANGED toSdb
    BY <1>2, <2>1, <2>2 DEF Fresh, Naming
  <2>3. CASE toSdb' # toSdb
    <3>1. PICK p \in Packet :
            /\ toSdb' = [toSdb EXCEPT ![m] = Append(@, p)]
            /\ p.type = "ans" => \E j \in 1..Len(toApp[m]) : TRUE
      BY <1>0, <1>11, <2>3, ClientSteps
    <3>2. toSdb'[m] = Append(toSdb[m], p) /\ \A k \in Slots \ {m} : toSdb'[k] = toSdb[k]
      BY <1>0, <3>1
    <3>3. ASSUME NEW i \in 1..Len(toSdb'[m])
          PROVE  (\E j \in 1..Len(toSdb[m]) : toSdb'[m][i] = toSdb[m][j]) \/ toSdb'[m][i] = p
      BY <1>0, <3>2
    <3>4. ASSUME NEW k \in Slots, Fresh(k)
          PROVE  \A i \in 1..Len(toSdb'[k]) : toSdb'[k][i].type # "ans"
      <4>1. CASE k = m
        BY <1>0, <3>1, <3>3, <3>4, <4>1 DEF FreshInv
      <4>2. CASE k # m
        BY <1>0, <3>2, <3>4, <4>2 DEF FreshInv
      <4> QED BY <4>1, <4>2
    <3> QED BY <1>0, <2>1, <3>4 DEF FreshInv, Fresh
  <2> QED BY <2>2, <2>3
<1> QED
  BY <1>3, <1>4, <1>20, <1>21, <1>5, <1>6, <1>7, <1>8, <1>9, <1>10, <1>11
  DEF Next, Daemon, Observer, ModuleThread, Works

LEMMA StutterInv == ASSUME IInv, UNCHANGED vars PROVE IInv'
<1>1. UNCHANGED <<up, pc, hand, cur, last, name, group, rfd, open, owner, depth, data, data_valid,
                  data_socket, queue, qos_enabled, obs, watch, todo, pipe, toSdb, toApp,
                  closed, sent, replies>>
  BY DEF vars, modVars, slotVars, lockVars, boxVars, obsVars, appVars
<1>2. TypeOK'
  BY <1>1 DEF IInv, TypeOK
<1>3. LockInv' /\ TableInv'
  BY <1>1 DEF IInv, LockInv, TableInv
<1>4. RouteInv'
  BY <1>1 DEF IInv, RouteInv, SentOK, ElemOK, CurOK, LooksAt, OnWay, ReceivedOK
<1>5. FreshInv'
  BY <1>1 DEF IInv, FreshInv, Fresh
<1> QED BY <1>2, <1>3, <1>4, <1>5 DEF IInv

\* IInv holds in every state the daemon and its clients can reach.
THEOREM Inductive == Spec => []IInv
<1>1. IInv /\ [Next]_vars => IInv'
  <2>1. ASSUME IInv, Next PROVE IInv'
    <3>1. TypeOK'
      BY <2>1, TypeStep
    <3> QED
      BY <2>1, <3>1, LockStep, TableStep, RouteStep, FreshStep DEF IInv
  <2> QED BY <2>1, StutterInv
<1> QED BY <1>1, InitInv, PTL DEF Spec

-----------------------------------------------------------------------------
(* The theorems.                                                           *)

\* Every variable of the daemon keeps its type: among others, a wake-up pipe
\* is never read when it is empty, and a mutex never unlocked when it is free.
THEOREM TypeCorrect == Spec => []TypeOK
<1>1. IInv => TypeOK
  BY DEF IInv
<1> QED BY <1>1, Inductive, PTL

\* The mutexes are held as sdb_module.c:582 says, whatever the interleaving.
THEOREM LocksHeld == Spec => []LockDiscipline
<1>1. IInv => LockDiscipline
  BY DEF IInv, LockInv, LockDiscipline, Holding, Naming, Scanning, Sending
<1> QED BY <1>1, Inductive, PTL

\* The "Deadlock detected" branch of sdb_module_write_mcs_packet is dead code.
THEOREM SelfSend == Spec => []SelfSendNeverBlocks
<1>1. IInv => SelfSendNeverBlocks
  BY DEF IInv, LockInv, SelfSendNeverBlocks, Closed, Sending
<1> QED BY <1>1, Inductive, PTL

\* Answers reach the client that asked: process_pkt_socket takes the addressee
\* of an answer from the queue, and the entry it finds is the requester's.
THEOREM AnswersRouted == Spec => []AnswerToRequester
<1>1. IInv => AnswerToRequester
  BY DEF IInv, RouteInv, ReceivedOK, AnswerToRequester
<1> QED BY <1>1, Inductive, PTL

\* Requests reach only a client whose name is, or begins with, the one they are
\* addressed to, however the handshakes of other clients, which write their names
\* while the table is scanned, interleave with them.
THEOREM RequestsRouted == Spec => []RequestToAddressee
<1>1. IInv => RequestToAddressee
  BY DEF IInv, RouteInv, ReceivedOK, For, Shown, RequestToAddressee
<1> QED BY <1>1, Inductive, PTL

\* A full mailbox is changed only by its own module.
THEOREM MailboxKept == Spec => NoOverwrite
<1> DEFINE Kept == \A m \in Slots : data_valid[m] /\ data_valid'[m] => data'[m] = data[m]
<1>1. IInv /\ [Next]_vars => [Kept]_vars
  <2> SUFFICES ASSUME IInv, Next PROVE Kept
    OBVIOUS
  <2>1. CASE UNCHANGED data
    BY <2>1
  <2>2. ASSUME NEW m \in Slots, sdb_module_write_mcs_packet(m) PROVE Kept
    <3>1. ~data_valid[hand[m].to]
      BY <2>2 DEF sdb_module_write_mcs_packet, IInv, LockInv
    <3>2. data' = [data EXCEPT ![hand[m].to] = [from |-> m, pkt |-> hand[m].pkt]]
      BY <2>2 DEF sdb_module_write_mcs_packet
    <3> QED BY <3>1, <3>2 DEF IInv, TypeOK
  <2>3. ASSUME NEW m \in Slots,
               \/ handshake_error(m) \/ handshake_read(m) \/ handshake_name(m)
               \/ handshake_refuse(m) \/ handshake(m) \/ cond_wait(m) \/ relock(m)
               \/ spurious_wakeup(m) \/ process_pkt_sdb(m) \/ process_pkt_socket(m)
               \/ scan_step(m) \/ forward(m) \/ lock_to(m)
        PROVE  UNCHANGED data
    BY <2>3 DEF handshake_error, handshake_read, handshake_name, handshake_refuse, handshake,
                cond_wait, relock, spurious_wakeup, process_pkt_sdb, process_pkt_socket,
                scan_step, forward, lock_to, boxVars
  <2>4. ASSUME sdb_module_init \/ observer_notify PROVE UNCHANGED data
    BY <2>4 DEF sdb_module_init, observer_notify, boxVars
  <2>5. TypeOK
    BY DEF IInv
  <2> QED
    BY <2>1, <2>2, <2>3, <2>4, <2>5, WatchSteps, ClientSteps
    DEF Next, Daemon, Observer, ModuleThread
<1>2. Spec => [][Kept]_vars
  BY <1>1, Inductive, PTL DEF Spec
<1> QED BY <1>2 DEF NoOverwrite

-----------------------------------------------------------------------------
(* The life of a request.                                                  *)

\* The requests, the answers and the queue entries with an id; a call is
\* whatever a client sends on its own initiative.
CallsOf(x) == {p \in Packet : p.type # "ans" /\ p.id = x}
RequestsOf(x) == {p \in Packet : p.type = "req" /\ p.id = x}
AnswersOf(x) == {p \in Packet : p.type = "ans" /\ p.id = x}
ElemsOf(x) == {e \in Elem : e.id = x}

\* A packet a thread is working at, its handshake or a request it looks for the
\* addressee of, counts as the first of those its client has sent.
Pending == Naming \cup Scanning
Line == [m \in Slots |->
            IF pc[m] \in Pending THEN <<cur[m].pkt>> \o toSdb[m] ELSE toSdb[m]]

\* Where a request and its answer can be: on the socket of its sender, in the
\* queue of a module, in the hand of a thread, in a mailbox, at the client that
\* serves it, at its sender again.
Unread(x) == In(Line[x[1]], CallsOf(x))
UnreadTwice(x) == TwoIn(Line[x[1]], CallsOf(x))
Owes(s, x) == In(queue[s], ElemsOf(x))
OwesTwice(s, x) == TwoIn(queue[s], ElemsOf(x))
OwesThrice(s, x) == ThreeIn(queue[s], ElemsOf(x))
InHand(s, x) == pc[s] \in Sending /\ hand[s].pkt.id = x
InBox(s, x) == data_valid[s] /\ data[s].pkt.id = x
AskedBy(s, x) ==
    \/ InHand(s, x) /\ hand[s].pkt.type = "req"
    \/ InBox(s, x) /\ data[s].pkt.type = "req"
Received(s, x) == In(toApp[s], RequestsOf(x))
Replied(s, x) == In(Line[s], AnswersOf(x))
Got(s, x) == Received(s, x) \/ Replied(s, x)
Answered(x) == In(toApp[x[1]], AnswersOf(x))
AnsweredTwice(x) == TwoIn(toApp[x[1]], AnswersOf(x))

\* Who serves a request of another module.
Serves(s, x) == s # x[1] /\ Owes(s, x)
Carries(s, x) == InHand(s, x) \/ InBox(s, x) \/ Serves(s, x)

\* What has happened to a request that has been read.
Seen(x) == Owes(x[1], x) \/ Answered(x) \/ \E s \in Slots : Carries(s, x) \/ Got(s, x)

\* A request is in at most one place outside its sender's queue.
OneCarrier(x) ==
    \A s, t \in Slots :
        /\ ~ (InHand(s, x) /\ InBox(t, x))
        /\ ~ (InHand(s, x) /\ Serves(t, x))
        /\ ~ (InBox(s, x) /\ Serves(t, x))
        /\ InHand(s, x) /\ InHand(t, x) => s = t
        /\ InBox(s, x) /\ InBox(t, x) => s = t
        /\ Serves(s, x) /\ Serves(t, x) => s = t
        /\ Serves(s, x) => ~OwesTwice(s, x)

\* The sender's queue has at most one entry, or two while the sender serves its
\* own request; it has none when the answer has been given.
LifeOf(x) ==
    /\ Unread(x) \/ Seen(x) => x[2] < sent[x[1]]
    /\ Unread(x) => ~Seen(x)
    /\ ~UnreadTwice(x) /\ ~AnsweredTwice(x) /\ ~OwesThrice(x[1], x)
    /\ Answered(x) => ~Owes(x[1], x) /\ \A s \in Slots : ~AskedBy(s, x)
    /\ OneCarrier(x)
    /\ \A s \in Slots : Carries(s, x) => ~OwesTwice(x[1], x)
    /\ Got(x[1], x) => \A s \in Slots : (Carries(s, x) => s = x[1]) /\ ~AskedBy(s, x)

HandInv == \A m \in Slots : hand[m] # NULL => pc[m] \in Sending
LifeInv == \A x \in Id : LifeOf(x)

\* As long as a request is under way its sender's queue has the entry that its
\* answer will close, and two of them while the sender serves it itself.
KeptOf(x) ==
    /\ \A s \in Slots : Carries(s, x) => Owes(x[1], x)
    /\ Got(x[1], x) /\ Owes(x[1], x) =>
        OwesTwice(x[1], x) \/ \E s \in Slots : InHand(s, x) \/ InBox(s, x)
KeptInv == \A x \in Id : KeptOf(x)

\* Nothing new has happened to the request.
NoMore(x) ==
    /\ sent'[x[1]] >= sent[x[1]]
    /\ Unread(x)' => Unread(x)
    /\ UnreadTwice(x)' => UnreadTwice(x)
    /\ Answered(x)' => Answered(x)
    /\ AnsweredTwice(x)' => AnsweredTwice(x)
    /\ \A s \in Slots :
        /\ Owes(s, x)' => Owes(s, x)
        /\ OwesTwice(s, x)' => OwesTwice(s, x)
        /\ OwesThrice(s, x)' => OwesThrice(s, x)
        /\ InHand(s, x)' => InHand(s, x)
        /\ InBox(s, x)' => InBox(s, x)
        /\ AskedBy(s, x)' => AskedBy(s, x)
        /\ Got(s, x)' => Got(s, x)

\* Nothing of it has come to an end.
NoLess(x) ==
    \A s \in Slots :
        /\ Owes(s, x) => Owes(s, x)'
        /\ OwesTwice(s, x) => OwesTwice(s, x)'
        /\ InHand(s, x) => InHand(s, x)'
        /\ InBox(s, x) => InBox(s, x)'

LEMMA KeptGoesOn ==
    ASSUME NEW x \in Id, KeptOf(x), NoMore(x), NoLess(x)
    PROVE  KeptOf(x)'
<1>0. x[1] \in Slots
  BY DEF Id
<1>1. \A s \in Slots : Carries(s, x)' => Carries(s, x)
  BY DEF NoMore, Serves, Carries
<1> QED
  BY <1>0, <1>1 DEF NoMore, NoLess, KeptOf

LEMMA LifeGoesOn ==
    ASSUME TypeOK, TypeOK', NEW x \in Id, LifeOf(x), NoMore(x)
    PROVE  LifeOf(x)'
<1>0. x[1] \in Slots /\ x[2] \in Nat /\ sent[x[1]] \in Nat /\ sent'[x[1]] \in Nat
  BY DEF Id, TypeOK
<1>1. \A s \in Slots : (Serves(s, x)' => Serves(s, x)) /\ (Carries(s, x)' => Carries(s, x))
  BY DEF NoMore, Serves, Carries
<1>2. Seen(x)' => Seen(x)
  BY <1>0, <1>1 DEF NoMore, Seen
<1>3. OneCarrier(x)'
  BY <1>1 DEF NoMore, OneCarrier, LifeOf
<1> QED
  BY <1>0, <1>1, <1>2, <1>3 DEF NoMore, LifeOf

-----------------------------------------------------------------------------
(* The packets of a client, with the one its thread is working at.         *)

LEMMA ConsFacts ==
    ASSUME NEW T, NEW p \in T, NEW q \in Seq(T)
    PROVE  /\ <<p>> \o q \in Seq(T) /\ <<p>> \o q # <<>>
           /\ Head(<<p>> \o q) = p /\ Tail(<<p>> \o q) = q
<1>1. <<p>> \in Seq(T) /\ Len(<<p>>) = 1
  OBVIOUS
<1>2. <<p>> \o q \in Seq(T) /\ Len(<<p>> \o q) = 1 + Len(q)
  BY <1>1
<1>3. <<p>> \o q # <<>> /\ Head(<<p>> \o q) = p
  BY <1>2
<1>4. Tail(<<p>> \o q) = q
  BY <1>2, <1>3
<1> QED BY <1>2, <1>3, <1>4

LEMMA ConsSplit ==
    ASSUME NEW T, NEW q \in Seq(T), q # <<>>
    PROVE  <<Head(q)>> \o Tail(q) = q
OBVIOUS

LEMMA ConsAppend ==
    ASSUME NEW T, NEW p \in T, NEW e \in T, NEW q \in Seq(T)
    PROVE  <<p>> \o Append(q, e) = Append(<<p>> \o q, e)
OBVIOUS

LEMMA LineType ==
    ASSUME IInv
    PROVE  /\ Line \in [Slots -> Seq(Packet)]
           /\ toSdb \in [Slots -> Seq(Packet)]
           /\ \A m \in Slots : pc[m] \in Pending => cur[m].pkt \in Packet
<1>1. toSdb \in [Slots -> Seq(Packet)]
  BY DEF IInv, TypeOK
<1>2. \A m \in Slots : pc[m] \in Pending => cur[m].pkt \in Packet
  BY DEF IInv, RouteInv, CurOK, Local, Pending
<1>3. \A m \in Slots : Line[m] \in Seq(Packet)
  BY <1>1, <1>2, ConsFacts DEF Line
<1> QED BY <1>1, <1>2, <1>3 DEF Line

LEMMA LineHead ==
    ASSUME IInv, NEW m \in Slots, Line[m] # <<>>
    PROVE  /\ Head(Line[m]) \in Packet
           /\ Head(Line[m]).type # "ans" => Head(Line[m]).id[1] = m
<1>1. CASE pc[m] \in Pending
  <2>1. cur[m].pkt \in Packet /\ toSdb[m] \in Seq(Packet) /\ cur[m].pkt.id[1] = m
    BY <1>1, LineType DEF IInv, RouteInv, CurOK, Pending
  <2>2. Head(Line[m]) = cur[m].pkt
    BY <1>1, <2>1, ConsFacts DEF Line
  <2> QED BY <2>1, <2>2
<1>2. CASE pc[m] \notin Pending
  BY <1>2, HeadPacket DEF Line
<1> QED BY <1>1, <1>2

\* No thread but that of m starts or ends to work at a packet.
OthersSame(m) ==
    \A s \in Slots \ {m} : (pc'[s] \in Pending <=> pc[s] \in Pending) /\ cur'[s] = cur[s]

\* Nothing of it moves.
LEMMA LineSame ==
    ASSUME UNCHANGED toSdb, NEW m \in Slots, OthersSame(m),
           pc'[m] \in Pending <=> pc[m] \in Pending,
           pc[m] \in Pending => cur'[m].pkt = cur[m].pkt
    PROVE  UNCHANGED Line
<1>1. ASSUME NEW s \in Slots
      PROVE  (IF pc'[s] \in Pending THEN <<cur'[s].pkt>> \o toSdb'[s] ELSE toSdb'[s])
             = (IF pc[s] \in Pending THEN <<cur[s].pkt>> \o toSdb[s] ELSE toSdb[s])
  BY DEF OthersSame
<1> QED BY <1>1 DEF Line

LEMMA LineStill ==
    ASSUME UNCHANGED <<toSdb, cur>>, \A s \in Slots : pc'[s] \in Pending <=> pc[s] \in Pending
    PROVE  UNCHANGED Line
<1>1. ASSUME NEW s \in Slots
      PROVE  (IF pc'[s] \in Pending THEN <<cur'[s].pkt>> \o toSdb'[s] ELSE toSdb'[s])
             = (IF pc[s] \in Pending THEN <<cur[s].pkt>> \o toSdb[s] ELSE toSdb[s])
  OBVIOUS
<1> QED BY <1>1 DEF Line

\* A packet is read and done with in one step.
LEMMA LineRead ==
    ASSUME IInv, NEW m \in Slots, OthersSame(m), pc[m] \notin Pending, pc'[m] \notin Pending,
           toSdb' = [toSdb EXCEPT ![m] = Tail(@)]
    PROVE  Line[m] = toSdb[m] /\ Line' = [Line EXCEPT ![m] = Tail(@)]
<1>1. toSdb'[m] = Tail(toSdb[m]) /\ \A s \in Slots \ {m} : toSdb'[s] = toSdb[s]
  BY LineType
<1>2. ASSUME NEW s \in Slots
      PROVE  (IF pc'[s] \in Pending THEN <<cur'[s].pkt>> \o toSdb'[s] ELSE toSdb'[s])
             = (IF s = m THEN Tail(Line[m]) ELSE Line[s])
  BY <1>1 DEF OthersSame, Line
<1> QED BY <1>2 DEF Line

\* A packet is read, and the thread works at it.
LEMMA LineShift ==
    ASSUME IInv, NEW m \in Slots, OthersSame(m), pc[m] \notin Pending, pc'[m] \in Pending,
           toSdb[m] # <<>>, toSdb' = [toSdb EXCEPT ![m] = Tail(@)],
           cur'[m].pkt = Head(toSdb[m])
    PROVE  UNCHANGED Line
<1>1. toSdb'[m] = Tail(toSdb[m]) /\ \A s \in Slots \ {m} : toSdb'[s] = toSdb[s]
  BY LineType
<1>2. <<Head(toSdb[m])>> \o Tail(toSdb[m]) = toSdb[m]
  BY LineType, ConsSplit
<1>3. ASSUME NEW s \in Slots
      PROVE  (IF pc'[s] \in Pending THEN <<cur'[s].pkt>> \o toSdb'[s] ELSE toSdb'[s])
             = (IF pc[s] \in Pending THEN <<cur[s].pkt>> \o toSdb[s] ELSE toSdb[s])
  <2>1. CASE s = m
    BY <1>1, <1>2, <2>1
  <2>2. CASE s # m
    BY <1>1, <2>2 DEF OthersSame
  <2> QED BY <2>1, <2>2
<1> QED BY <1>3 DEF Line

\* It is done with the packet it works at.
LEMMA LineDone ==
    ASSUME IInv, NEW m \in Slots, OthersSame(m), pc[m] \in Pending, pc'[m] \notin Pending,
           UNCHANGED toSdb
    PROVE  /\ Line[m] # <<>> /\ Head(Line[m]) = cur[m].pkt
           /\ Line' = [Line EXCEPT ![m] = Tail(@)]
<1>1. toSdb[m] \in Seq(Packet) /\ cur[m].pkt \in Packet
  BY LineType
<1>2. /\ Line[m] # <<>> /\ Head(Line[m]) = cur[m].pkt /\ Tail(Line[m]) = toSdb[m]
  <2>1. Line[m] = <<cur[m].pkt>> \o toSdb[m]
    BY DEF Line
  <2> DEFINE p == cur[m].pkt
             q == toSdb[m]
  <2>2. p \in Packet /\ q \in Seq(Packet)
    BY <1>1
  <2> HIDE DEF p, q
  <2>3. /\ <<p>> \o q # <<>> /\ Head(<<p>> \o q) = p /\ Tail(<<p>> \o q) = q
    BY <2>2, ConsFacts
  <2> QED BY <2>1, <2>3 DEF p, q
<1>3. ASSUME NEW s \in Slots
      PROVE  (IF pc'[s] \in Pending THEN <<cur'[s].pkt>> \o toSdb'[s] ELSE toSdb'[s])
             = (IF s = m THEN Tail(Line[m]) ELSE Line[s])
  <2>1. CASE s = m
    BY <1>2, <2>1
  <2>2. CASE s # m
    BY <2>2 DEF OthersSame, Line
  <2> QED BY <2>1, <2>2
<1> QED BY <1>2, <1>3 DEF Line

\* The client sends one more.
LEMMA LinePut ==
    ASSUME IInv, NEW m \in Slots, NEW p \in Packet, UNCHANGED <<pc, cur>>,
           toSdb' = [toSdb EXCEPT ![m] = Append(@, p)]
    PROVE  Line' = [Line EXCEPT ![m] = Append(@, p)]
<1>1. toSdb'[m] = Append(toSdb[m], p) /\ \A s \in Slots \ {m} : toSdb'[s] = toSdb[s]
  BY LineType
<1>2. pc[m] \in Pending =>
        <<cur[m].pkt>> \o Append(toSdb[m], p) = Append(<<cur[m].pkt>> \o toSdb[m], p)
  BY LineType, ConsAppend
<1>3. ASSUME NEW s \in Slots
      PROVE  (IF pc'[s] \in Pending THEN <<cur'[s].pkt>> \o toSdb'[s] ELSE toSdb'[s])
             = (IF s = m THEN Append(Line[m], p) ELSE Line[s])
  <2>1. CASE s = m
    BY <1>1, <1>2, <2>1 DEF Line
  <2>2. CASE s # m
    BY <1>1, <2>2 DEF Line
  <2> QED BY <2>1, <2>2
<1> QED BY <1>3 DEF Line

-----------------------------------------------------------------------------
(* How a change of one variable shows in the life of a request.            *)

\* A packet is read from the socket of m.
LEMMA ReadEffect ==
    ASSUME IInv, NEW m \in Slots, Line[m] # <<>>,
           Line' = [Line EXCEPT ![m] = Tail(@)], NEW x \in Id
    PROVE  /\ Unread(x)' => Unread(x)
           /\ UnreadTwice(x)' => UnreadTwice(x)
           /\ \A s \in Slots : Replied(s, x)' => Replied(s, x)
           /\ Head(Line[m]) \in CallsOf(x) /\ x[1] = m =>
                Unread(x) /\ (Unread(x)' => UnreadTwice(x))
           /\ Head(Line[m]) \in AnswersOf(x) => Replied(m, x)
<1>0. Line \in [Slots -> Seq(Packet)] /\ Line[m] \in Seq(Packet) /\ x[1] \in Slots
  BY LineType DEF Id
<1>1. Tail(Line[m]) \in Seq(Packet) /\ Inserted(Tail(Line[m]), 1, Head(Line[m]), Line[m])
  BY <1>0, TailInserted
<1>2. Line'[m] = Tail(Line[m]) /\ \A s \in Slots : s # m => Line'[s] = Line[s]
  BY <1>0
<1>3. \A S : /\ In(Line[m], S) <=> In(Line'[m], S) \/ Head(Line[m]) \in S
             /\ TwoIn(Line[m], S) <=> TwoIn(Line'[m], S)
                                        \/ (Head(Line[m]) \in S /\ In(Line'[m], S))
  BY <1>0, <1>1, <1>2, InsertedCount
<1> QED
  BY <1>0, <1>2, <1>3 DEF Unread, UnreadTwice, Replied

\* A packet is put on the socket of m.
LEMMA PutEffect ==
    ASSUME IInv, NEW m \in Slots, NEW p \in Packet,
           Line' = [Line EXCEPT ![m] = Append(@, p)], NEW x \in Id
    PROVE  /\ Unread(x)' => Unread(x) \/ (x[1] = m /\ p \in CallsOf(x))
           /\ UnreadTwice(x)' => UnreadTwice(x) \/ (x[1] = m /\ p \in CallsOf(x) /\ Unread(x))
           /\ \A s \in Slots : Replied(s, x)' => Replied(s, x) \/ (s = m /\ p \in AnswersOf(x))
<1>0. Line \in [Slots -> Seq(Packet)] /\ Line[m] \in Seq(Packet) /\ x[1] \in Slots
  BY LineType DEF Id
<1>1. /\ Append(Line[m], p) \in Seq(Packet)
      /\ \E k : Inserted(Line[m], k, p, Append(Line[m], p))
  BY <1>0, AppendInserted
<1>2. Line'[m] = Append(Line[m], p) /\ \A s \in Slots : s # m => Line'[s] = Line[s]
  BY <1>0
<1>3. \A S : /\ In(Line'[m], S) <=> In(Line[m], S) \/ p \in S
             /\ TwoIn(Line'[m], S) <=> TwoIn(Line[m], S) \/ (p \in S /\ In(Line[m], S))
  BY <1>0, <1>1, <1>2, InsertedCount
<1> QED
  BY <1>0, <1>2, <1>3 DEF Unread, UnreadTwice, Replied

\* The client of m gets p, or nothing because it has closed its end.
Told(m, p) == UNCHANGED toApp \/ toApp' = [toApp EXCEPT ![m] = Append(@, p)]

LEMMA WriteTold ==
    ASSUME TypeOK, NEW m \in Slots, NEW p \in Packet, Write(m, <<p>>)
    PROVE  Told(m, p)
BY DEF TypeOK, Write, Told

LEMMA ToldEffect ==
    ASSUME TypeOK, NEW m \in Slots, NEW p \in Packet, Told(m, p), NEW x \in Id
    PROVE  /\ Answered(x)' => Answered(x) \/ (x[1] = m /\ p \in AnswersOf(x))
           /\ AnsweredTwice(x)' =>
                AnsweredTwice(x) \/ (x[1] = m /\ p \in AnswersOf(x) /\ Answered(x))
           /\ \A s \in Slots : Received(s, x)' => Received(s, x) \/ (s = m /\ p \in RequestsOf(x))
<1>0. toApp \in [Slots -> Seq(Packet)] /\ toApp[m] \in Seq(Packet) /\ x[1] \in Slots
  BY DEF TypeOK, Id
<1>1. CASE UNCHANGED toApp
  BY <1>0, <1>1 DEF Answered, AnsweredTwice, Received
<1>2. CASE toApp' = [toApp EXCEPT ![m] = Append(@, p)]
  <2>1. /\ Append(toApp[m], p) \in Seq(Packet)
        /\ \E k : Inserted(toApp[m], k, p, Append(toApp[m], p))
    BY <1>0, AppendInserted
  <2>2. toApp'[m] = Append(toApp[m], p) /\ \A s \in Slots : s # m => toApp'[s] = toApp[s]
    BY <1>0, <1>2
  <2>3. \A S : /\ In(toApp'[m], S) <=> In(toApp[m], S) \/ p \in S
               /\ TwoIn(toApp'[m], S) <=> TwoIn(toApp[m], S) \/ (p \in S /\ In(toApp[m], S))
    BY <1>0, <2>1, <2>2, InsertedCount, ZenonT(30)
  <2> QED
    BY <1>0, <2>2, <2>3 DEF Answered, AnsweredTwice, Received
<1> QED BY <1>1, <1>2 DEF Told

\* An entry with the id is pushed on the queue of m.
LEMMA PushOwes ==
    ASSUME TypeOK, NEW m \in Slots, NEW id \in Id, NEW from \in Slots,
           queue' = [queue EXCEPT ![m] = Push(@, sdb_packet(id, from))], NEW x \in Id
    PROVE  /\ Owes(m, x)' <=> Owes(m, x) \/ x = id
           /\ OwesTwice(m, x)' <=> OwesTwice(m, x) \/ (x = id /\ Owes(m, x))
           /\ OwesThrice(m, x)' <=> OwesThrice(m, x) \/ (x = id /\ OwesTwice(m, x))
           /\ \A s \in Slots : s # m => /\ Owes(s, x)' <=> Owes(s, x)
                                        /\ OwesTwice(s, x)' <=> OwesTwice(s, x)
                                        /\ OwesThrice(s, x)' <=> OwesThrice(s, x)
<1> DEFINE e == sdb_packet(id, from)
<1>0. queue \in [Slots -> Seq(Elem)] /\ queue[m] \in Seq(Elem)
  BY DEF TypeOK
<1>1. e \in Elem /\ (e \in ElemsOf(x) <=> x = id)
  BY DEF sdb_packet, Elem, ElemsOf
<1> HIDE DEF e
<1>2. PICK k : Inserted(queue[m], k, e, Push(queue[m], e))
  BY <1>0, <1>1, ElemPriority, PushInserted
<1>3. Push(queue[m], e) \in Seq(Elem)
  BY <1>0, <1>1, ElemPush
<1>4. queue'[m] = Push(queue[m], e) /\ \A s \in Slots : s # m => queue'[s] = queue[s]
  BY <1>0 DEF e
<1>5. /\ In(queue'[m], ElemsOf(x)) <=> In(queue[m], ElemsOf(x)) \/ x = id
      /\ TwoIn(queue'[m], ElemsOf(x)) <=>
            TwoIn(queue[m], ElemsOf(x)) \/ (x = id /\ In(queue[m], ElemsOf(x)))
      /\ ThreeIn(queue'[m], ElemsOf(x)) <=>
            ThreeIn(queue[m], ElemsOf(x)) \/ (x = id /\ TwoIn(queue[m], ElemsOf(x)))
  BY <1>0, <1>1, <1>2, <1>3, <1>4, InsertedCount
<1> QED
  BY <1>4, <1>5 DEF Owes, OwesTwice, OwesThrice

\* The entry that an answer with the id closes is deleted.
LEMMA DeleteOwes ==
    ASSUME TypeOK, NEW m \in Slots, NEW id \in Id, Expects(queue[m], id),
           queue' = [queue EXCEPT ![m] = Delete(@, Match(@, id))], NEW x \in Id
    PROVE  /\ Owes(m, x) <=> Owes(m, x)' \/ x = id
           /\ OwesTwice(m, x) <=> OwesTwice(m, x)' \/ (x = id /\ Owes(m, x)')
           /\ OwesThrice(m, x) <=> OwesThrice(m, x)' \/ (x = id /\ OwesTwice(m, x)')
           /\ \A s \in Slots : s # m => /\ Owes(s, x)' <=> Owes(s, x)
                                        /\ OwesTwice(s, x)' <=> OwesTwice(s, x)
                                        /\ OwesThrice(s, x)' <=> OwesThrice(s, x)
<1> DEFINE i == Match(queue[m], id)
<1>0. queue \in [Slots -> Seq(Elem)] /\ queue[m] \in Seq(Elem)
  BY DEF TypeOK
<1>1. i \in 1..Len(queue[m]) /\ Closes(queue[m][i], id)
  BY <1>0, MatchPlace, Zenon
<1>2. queue'[m] = Delete(queue[m], i) /\ \A s \in Slots : s # m => queue'[s] = queue[s]
  BY <1>0
<1> HIDE DEF i
<1>3. queue[m][i] \in Elem /\ (queue[m][i] \in ElemsOf(x) <=> x = id)
  BY <1>0, <1>1 DEF Closes, ElemsOf
<1>4. Inserted(queue'[m], i, queue[m][i], queue[m]) /\ queue'[m] \in Seq(Elem)
  BY <1>0, <1>1, <1>2, DeleteInserted, DeleteElements
<1>5. /\ In(queue[m], ElemsOf(x)) <=> In(queue'[m], ElemsOf(x)) \/ x = id
      /\ TwoIn(queue[m], ElemsOf(x)) <=>
            TwoIn(queue'[m], ElemsOf(x)) \/ (x = id /\ In(queue'[m], ElemsOf(x)))
      /\ ThreeIn(queue[m], ElemsOf(x)) <=>
            ThreeIn(queue'[m], ElemsOf(x)) \/ (x = id /\ TwoIn(queue'[m], ElemsOf(x)))
  BY <1>0, <1>3, <1>4, InsertedCount
<1> QED
  BY <1>2, <1>5 DEF Owes, OwesTwice, OwesThrice

LEMMA QueueSame ==
    ASSUME UNCHANGED queue, NEW s \in Slots, NEW x \in Id
    PROVE  /\ Owes(s, x)' <=> Owes(s, x)
           /\ OwesTwice(s, x)' <=> OwesTwice(s, x)
           /\ OwesThrice(s, x)' <=> OwesThrice(s, x)
BY DEF Owes, OwesTwice, OwesThrice

LEMMA SocketSame ==
    ASSUME UNCHANGED Line, NEW x \in Id
    PROVE  /\ Unread(x)' <=> Unread(x)
           /\ UnreadTwice(x)' <=> UnreadTwice(x)
           /\ \A s \in Slots : Replied(s, x)' <=> Replied(s, x)
BY DEF Unread, UnreadTwice, Replied

LEMMA ClientSame ==
    ASSUME UNCHANGED toApp, NEW x \in Id
    PROVE  /\ Answered(x)' <=> Answered(x)
           /\ AnsweredTwice(x)' <=> AnsweredTwice(x)
           /\ \A s \in Slots : Received(s, x)' <=> Received(s, x)
BY DEF Answered, AnsweredTwice, Received

\* Nobody starts or ends to send.
SendersSame == \A s \in Slots : pc'[s] \in Sending <=> pc[s] \in Sending

LEMMA FlightSame ==
    ASSUME UNCHANGED <<hand, data, data_valid>>, SendersSame, NEW s \in Slots, NEW x \in Id
    PROVE  /\ InHand(s, x)' <=> InHand(s, x)
           /\ InBox(s, x)' <=> InBox(s, x)
           /\ AskedBy(s, x)' <=> AskedBy(s, x)
BY DEF InHand, InBox, AskedBy, SendersSame

\* The thread of m starts to send p.
Takes(m, p) ==
    /\ pc' = [pc EXCEPT ![m] = "lockTo"]
    /\ \E to \in Slots : hand' = [hand EXCEPT ![m] = [pkt |-> p, to |-> to]]

LEMMA TakeEffect ==
    ASSUME TypeOK, UNCHANGED <<data, data_valid>>, NEW m \in Slots, pc[m] \notin Sending,
           NEW p \in Packet, Takes(m, p), NEW s \in Slots, NEW x \in Id
    PROVE  /\ InHand(s, x)' <=> InHand(s, x) \/ (s = m /\ x = p.id)
           /\ InBox(s, x)' <=> InBox(s, x)
           /\ AskedBy(s, x)' <=> AskedBy(s, x) \/ (s = m /\ x = p.id /\ p.type = "req")
<1>1. pc \in [Slots -> Place]
      /\ hand \in [Slots -> Hand \cup {NULL}]
  BY DEF TypeOK
<1>2. /\ pc'[m] = "lockTo" /\ hand'[m].pkt = p
      /\ s # m => pc'[s] = pc[s] /\ hand'[s] = hand[s]
  BY <1>1 DEF Takes
<1> QED
  BY <1>2 DEF InHand, InBox, AskedBy, Sending

-----------------------------------------------------------------------------
(* What each step of the bus does to the requests and their answers.       *)

LEMMA AnsPacket ==
    ASSUME NEW p \in Packet, NEW r \in Result
    PROVE  /\ Ans(p, r) \in Packet
           /\ \A x \in Id : /\ Ans(p, r) \in AnswersOf(x) <=> x = p.id
                            /\ Ans(p, r) \notin RequestsOf(x)
<1>1. Ans(p, r) \in Packet
  BY AnswersArePackets DEF Answers
<1>2. Ans(p, r).type = "ans" /\ Ans(p, r).id = p.id
  BY DEF Ans
<1> HIDE DEF Ans
<1> QED
  BY <1>1, <1>2 DEF AnswersOf, RequestsOf

\* A call is read from the socket and answered at once, or not at all.
LEMMA LifeReply ==
    ASSUME IInv, TypeOK', LifeInv, NEW m \in Slots, Line[m] # <<>>, Head(Line[m]).type # "ans",
           Line' = [Line EXCEPT ![m] = Tail(@)],
           NEW r \in Result, Told(m, Ans(Head(Line[m]), r)),
           UNCHANGED <<hand, data, data_valid, queue, sent>>, SendersSame
    PROVE  LifeInv' /\ (KeptInv => KeptInv')
<1> DEFINE p == Head(Line[m])
<1>0. p \in Packet /\ p.id \in Id /\ p.id[1] = m /\ TypeOK
  BY LineHead DEF IInv, Packet
<1> SUFFICES ASSUME NEW x \in Id PROVE LifeOf(x)' /\ (KeptOf(x) => KeptOf(x)')
  BY DEF LifeInv, KeptInv
<1>1. LifeOf(x) /\ sent[x[1]] \in Nat /\ x[1] \in Slots
  BY <1>0 DEF LifeInv, TypeOK, Id
<1>2. /\ Answered(x)' => Answered(x) \/ x = p.id
      /\ AnsweredTwice(x)' => AnsweredTwice(x) \/ (x = p.id /\ Answered(x))
      /\ \A s \in Slots : Received(s, x)' => Received(s, x)
  BY <1>0, AnsPacket, ToldEffect
<1>3. /\ Unread(x)' => Unread(x)
      /\ UnreadTwice(x)' => UnreadTwice(x)
      /\ \A s \in Slots : Replied(s, x)' => Replied(s, x)
      /\ p \in CallsOf(x) /\ x[1] = m => Unread(x) /\ (Unread(x)' => UnreadTwice(x))
  BY <1>0, ReadEffect
<1>4. \A s \in Slots : /\ Owes(s, x)' <=> Owes(s, x)
                       /\ OwesTwice(s, x)' <=> OwesTwice(s, x)
                       /\ OwesThrice(s, x)' <=> OwesThrice(s, x)
                       /\ InHand(s, x)' <=> InHand(s, x)
                       /\ InBox(s, x)' <=> InBox(s, x)
                       /\ AskedBy(s, x)' <=> AskedBy(s, x)
  BY QueueSame, FlightSame
<1>5. \A s \in Slots : Got(s, x)' => Got(s, x)
  BY <1>2, <1>3 DEF Got
<1> HIDE DEF p
<1>6. CASE x # p.id
  <2>1. NoMore(x)
    BY <1>1, <1>2, <1>3, <1>4, <1>5, <1>6 DEF NoMore
  <2>2. NoLess(x)
    BY <1>4 DEF NoLess
  <2> QED BY <1>0, <1>1, <2>1, <2>2, LifeGoesOn, KeptGoesOn
<1>7. CASE x = p.id
  <2>1. Unread(x) /\ ~Unread(x)' /\ ~UnreadTwice(x)'
    BY <1>0, <1>1, <1>3, <1>7 DEF LifeOf, CallsOf, p
  <2>2. ~Seen(x) /\ x[2] < sent[x[1]]
    BY <1>1, <2>1 DEF LifeOf
  <2>3. \A s \in Slots : ~InHand(s, x)' /\ ~InBox(s, x)' /\ ~Got(s, x)' /\ ~Owes(s, x)'
    BY <1>1, <1>4, <1>5, <2>2 DEF Seen, Carries, Serves
  <2>4. \A s \in Slots : ~Carries(s, x)' /\ ~AskedBy(s, x)'
    BY <2>3 DEF Carries, Serves, AskedBy
  <2>5. ~AnsweredTwice(x)' /\ ~OwesThrice(x[1], x)'
    BY <1>1, <1>2, <1>4, <2>2 DEF LifeOf, Seen
  <2>6. OneCarrier(x)'
    BY <2>3, <2>4 DEF OneCarrier, Carries
  <2>7. KeptOf(x)'
    BY <1>1, <2>3, <2>4 DEF KeptOf
  <2> QED
    BY <1>1, <2>1, <2>2, <2>3, <2>4, <2>5, <2>6, <2>7 DEF LifeOf
<1> QED BY <1>6, <1>7

\* A request is read from the socket and queued; the thread starts to send it,
\* or gives it up.
LEMMA LifeRequest ==
    ASSUME IInv, TypeOK', LifeInv, NEW m \in Slots, Line[m] # <<>>, Head(Line[m]).type = "req",
           Line' = [Line EXCEPT ![m] = Tail(@)],
           queue' = [queue EXCEPT ![m] = Push(@, sdb_packet(Head(Line[m]).id, m))],
           UNCHANGED <<data, data_valid, toApp, sent>>, pc[m] \notin Sending,
           (UNCHANGED hand /\ SendersSame) \/ Takes(m, Head(Line[m]))
    PROVE  LifeInv' /\ (KeptInv => KeptInv')
<1> DEFINE p == Head(Line[m])
<1>0. p \in Packet /\ p.id \in Id /\ p.id[1] = m /\ TypeOK /\ p.type = "req"
  BY LineHead DEF IInv, Packet
<1> SUFFICES ASSUME NEW x \in Id PROVE LifeOf(x)' /\ (KeptOf(x) => KeptOf(x)')
  BY DEF LifeInv, KeptInv
<1>1. LifeOf(x) /\ sent[x[1]] \in Nat /\ x[1] \in Slots
  BY <1>0 DEF LifeInv, TypeOK, Id
<1>2. /\ Answered(x)' <=> Answered(x)
      /\ AnsweredTwice(x)' <=> AnsweredTwice(x)
      /\ \A s \in Slots : Received(s, x)' <=> Received(s, x)
  BY ClientSame
<1>3. /\ Unread(x)' => Unread(x)
      /\ UnreadTwice(x)' => UnreadTwice(x)
      /\ \A s \in Slots : Replied(s, x)' => Replied(s, x)
      /\ p \in CallsOf(x) /\ x[1] = m => Unread(x) /\ (Unread(x)' => UnreadTwice(x))
  BY <1>0, ReadEffect
<1>4. \A s \in Slots :
        /\ Owes(s, x)' <=> Owes(s, x) \/ (s = m /\ x = p.id)
        /\ OwesTwice(s, x)' <=> OwesTwice(s, x) \/ (s = m /\ x = p.id /\ Owes(m, x))
        /\ OwesThrice(s, x)' <=> OwesThrice(s, x) \/ (s = m /\ x = p.id /\ OwesTwice(m, x))
  <2> TAKE s \in Slots
  <2>1. CASE s = m
    BY <1>0, <2>1, PushOwes
  <2>2. CASE s # m
    BY <1>0, <2>2, PushOwes
  <2> QED BY <2>1, <2>2
<1>5. \A s \in Slots :
        /\ InBox(s, x)' <=> InBox(s, x)
        /\ InHand(s, x) => InHand(s, x)'
        /\ InHand(s, x)' => InHand(s, x) \/ (s = m /\ x = p.id)
        /\ AskedBy(s, x)' => AskedBy(s, x) \/ x = p.id
  <2>1. CASE UNCHANGED hand /\ SendersSame
    BY <2>1, FlightSame
  <2>2. CASE Takes(m, p)
    BY <1>0, <2>2, TakeEffect
  <2> QED BY <2>1, <2>2
<1>6. \A s \in Slots : Got(s, x)' => Got(s, x)
  BY <1>2, <1>3 DEF Got
<1> HIDE DEF p
<1>7. CASE x # p.id
  <2>1. NoMore(x)
    BY <1>1, <1>2, <1>3, <1>4, <1>5, <1>6, <1>7 DEF NoMore
  <2>2. NoLess(x)
    BY <1>4, <1>5 DEF NoLess
  <2> QED BY <1>0, <1>1, <2>1, <2>2, LifeGoesOn, KeptGoesOn
<1>8. CASE x = p.id
  <2>1. Unread(x) /\ ~Unread(x)' /\ ~UnreadTwice(x)'
    BY <1>0, <1>1, <1>3, <1>8 DEF LifeOf, CallsOf, p
  <2>2. ~Seen(x) /\ x[2] < sent[x[1]]
    BY <1>1, <2>1 DEF LifeOf
  <2>3. \A s \in Slots : /\ ~InBox(s, x)' /\ ~Got(s, x)' /\ ~Serves(s, x)'
                         /\ InHand(s, x)' => s = m
    BY <1>0, <1>1, <1>4, <1>5, <1>6, <1>8, <2>2 DEF Seen, Carries, Serves
  <2>4. ~Owes(m, x) /\ ~OwesTwice(m, x) /\ ~Answered(x)
    BY <1>0, <1>8, <2>2 DEF Seen, Owes, OwesTwice, In, TwoIn
  <2>5. /\ Owes(m, x)' /\ ~OwesTwice(m, x)' /\ ~OwesThrice(m, x)'
        /\ ~Answered(x)' /\ ~AnsweredTwice(x)'
    BY <1>0, <1>1, <1>2, <1>4, <1>8, <2>4 DEF LifeOf
  <2>6. OneCarrier(x)'
    BY <2>3 DEF OneCarrier
  <2> QED
    BY <1>0, <1>1, <1>8, <2>1, <2>2, <2>3, <2>5, <2>6 DEF LifeOf, KeptOf, Carries
<1> QED BY <1>7, <1>8

\* An answer is read from the socket and nobody has asked for it.
LEMMA LifeUnexpected ==
    ASSUME IInv, TypeOK', LifeInv, NEW m \in Slots, Line[m] # <<>>,
           Line' = [Line EXCEPT ![m] = Tail(@)],
           UNCHANGED <<hand, data, data_valid, queue, toApp, sent>>, SendersSame
    PROVE  LifeInv' /\ (KeptInv => KeptInv')
<1>0. TypeOK
  BY DEF IInv
<1> SUFFICES ASSUME NEW x \in Id PROVE LifeOf(x)' /\ (KeptOf(x) => KeptOf(x)')
  BY DEF LifeInv, KeptInv
<1>1. LifeOf(x) /\ sent[x[1]] \in Nat
  BY <1>0 DEF LifeInv, TypeOK, Id
<1>2. /\ Unread(x)' => Unread(x)
      /\ UnreadTwice(x)' => UnreadTwice(x)
      /\ \A s \in Slots : Replied(s, x)' => Replied(s, x)
  BY <1>0, ReadEffect
<1>3. \A s \in Slots : Got(s, x)' => Got(s, x)
  BY <1>2, ClientSame DEF Got
<1>4. NoMore(x) /\ NoLess(x)
  BY <1>1, <1>2, <1>3, ClientSame, QueueSame, FlightSame DEF NoMore, NoLess
<1> QED BY <1>0, <1>1, <1>4, LifeGoesOn, KeptGoesOn

\* An answer is read from the socket and closes an entry of the queue; the
\* thread starts to send it, or gives it up.
LEMMA LifeAnswer ==
    ASSUME IInv, TypeOK', LifeInv, NEW m \in Slots, Line[m] # <<>>, Head(Line[m]).type = "ans",
           Line' = [Line EXCEPT ![m] = Tail(@)], Expects(queue[m], Head(Line[m]).id),
           queue' = [queue EXCEPT ![m] = Delete(@, Match(@, Head(Line[m]).id))],
           UNCHANGED <<data, data_valid, toApp, sent>>, pc[m] \notin Sending, ~data_valid[m],
           (UNCHANGED hand /\ SendersSame) \/ Takes(m, Head(Line[m]))
    PROVE  LifeInv' /\ (KeptInv /\ Takes(m, Head(Line[m])) => KeptInv')
<1> DEFINE p == Head(Line[m])
<1>0. p \in Packet /\ p.id \in Id /\ TypeOK /\ p.type = "ans"
  BY LineHead DEF IInv, Packet
<1> SUFFICES ASSUME NEW x \in Id
             PROVE  LifeOf(x)' /\ (KeptOf(x) /\ Takes(m, p) => KeptOf(x)')
  BY DEF LifeInv, KeptInv
<1>1. LifeOf(x) /\ sent[x[1]] \in Nat /\ x[1] \in Slots
  BY <1>0 DEF LifeInv, TypeOK, Id
<1>2. /\ Answered(x)' <=> Answered(x)
      /\ AnsweredTwice(x)' <=> AnsweredTwice(x)
      /\ \A s \in Slots : Received(s, x)' <=> Received(s, x)
  BY ClientSame
<1>3. /\ Unread(x)' => Unread(x)
      /\ UnreadTwice(x)' => UnreadTwice(x)
      /\ \A s \in Slots : Replied(s, x)' => Replied(s, x)
      /\ p \in AnswersOf(x) => Replied(m, x)
  BY <1>0, ReadEffect
<1>4. /\ Owes(m, x) <=> Owes(m, x)' \/ x = p.id
      /\ OwesTwice(m, x) <=> OwesTwice(m, x)' \/ (x = p.id /\ Owes(m, x)')
      /\ OwesThrice(m, x) <=> OwesThrice(m, x)' \/ (x = p.id /\ OwesTwice(m, x)')
      /\ \A s \in Slots : s # m => /\ Owes(s, x)' <=> Owes(s, x)
                                   /\ OwesTwice(s, x)' <=> OwesTwice(s, x)
                                   /\ OwesThrice(s, x)' <=> OwesThrice(s, x)
  BY <1>0, DeleteOwes
<1>5. \A s \in Slots :
        /\ InBox(s, x)' <=> InBox(s, x)
        /\ InHand(s, x) => InHand(s, x)'
        /\ InHand(s, x)' => InHand(s, x) \/ (s = m /\ x = p.id)
        /\ AskedBy(s, x)' <=> AskedBy(s, x)
        /\ Takes(m, p) /\ x = p.id => InHand(m, x)'
  <2>1. CASE UNCHANGED hand /\ SendersSame
    <3>1. ~Takes(m, p)
      BY <1>0, <2>1 DEF Takes, TypeOK, Sending, SendersSame
    <3> QED BY <2>1, <3>1, FlightSame
  <2>2. CASE Takes(m, p)
    <3> HIDE DEF p
    <3> QED BY <1>0, <2>2, TakeEffect
  <2> QED BY <2>1, <2>2
<1>6. \A s \in Slots : Got(s, x)' => Got(s, x)
  BY <1>2, <1>3 DEF Got
<1> HIDE DEF p
<1>7. CASE x # p.id
  <2>1. NoMore(x)
    BY <1>1, <1>2, <1>3, <1>4, <1>5, <1>6, <1>7 DEF NoMore
  <2>2. NoLess(x)
    BY <1>4, <1>5, <1>7 DEF NoLess
  <2> QED BY <1>0, <1>1, <2>1, <2>2, LifeGoesOn, KeptGoesOn
<1>8. CASE x = p.id
  <2>1. Got(m, x) /\ Owes(m, x) /\ ~InHand(m, x) /\ ~InBox(m, x)
    BY <1>0, <1>3, <1>4, <1>8 DEF Got, AnswersOf, InHand, InBox
  <2>2. Seen(x) /\ ~Unread(x) /\ x[2] < sent[x[1]]
    BY <1>1, <2>1 DEF LifeOf, Seen
  <2>3. \A s \in Slots : ~InHand(s, x) /\ ~InBox(s, x)
    <3>1. CASE m = x[1]
      BY <1>1, <2>1, <3>1 DEF LifeOf, Carries
    <3>2. CASE m # x[1]
      BY <1>1, <2>1, <3>2 DEF LifeOf, OneCarrier, Serves
    <3> QED BY <3>1, <3>2
  <2>4. \A s \in Slots : Serves(s, x)' => Serves(s, x)
    BY <1>4 DEF Serves
  <2>5. \A s \in Slots : ~Serves(s, x)'
    <3>1. CASE m = x[1]
      BY <1>1, <2>1, <2>4, <3>1 DEF LifeOf, Carries, Serves
    <3>2. CASE m # x[1]
      BY <1>1, <1>4, <1>8, <2>1, <2>4, <3>2 DEF LifeOf, OneCarrier, Serves
    <3> QED BY <3>1, <3>2
  <2>6. \A s \in Slots : ~InBox(s, x)' /\ (InHand(s, x)' => s = m) /\ ~AskedBy(s, x)'
    BY <1>5, <2>3 DEF AskedBy
  <2>7. OneCarrier(x)'
    BY <2>5, <2>6 DEF OneCarrier
  <2>8. ~Unread(x)' /\ ~UnreadTwice(x)' /\ ~AnsweredTwice(x)'
    BY <1>1, <1>2, <1>3, <2>2 DEF LifeOf
  <2>9. /\ Owes(x[1], x)' => Owes(x[1], x)
        /\ ~OwesThrice(x[1], x)' /\ ~OwesTwice(x[1], x)'
    <3>1. CASE m = x[1]
      BY <1>1, <1>4, <1>8, <3>1 DEF LifeOf
    <3>2. CASE m # x[1]
      BY <1>1, <1>4, <1>8, <2>1, <3>2 DEF LifeOf, Carries, Serves
    <3> QED BY <3>1, <3>2
  <2>10. Got(x[1], x)' /\ InHand(m, x)' => m = x[1]
    <3>1. CASE m # x[1]
      BY <1>1, <1>6, <2>1, <3>1 DEF LifeOf, Carries, Serves
    <3> QED BY <3>1
  <2>11. LifeOf(x)'
    BY <1>1, <1>2, <2>2, <2>5, <2>6, <2>7, <2>8, <2>9, <2>10 DEF LifeOf, Carries
  <2>12. ASSUME KeptOf(x), Takes(m, p) PROVE KeptOf(x)'
    <3>1. Owes(x[1], x)'
      <4>1. CASE m = x[1]
        BY <1>4, <1>8, <2>1, <2>3, <2>9, <2>12, <4>1 DEF KeptOf
      <4>2. CASE m # x[1]
        BY <1>1, <1>4, <2>1, <2>12, <4>2 DEF KeptOf, Carries, Serves
      <4> QED BY <4>1, <4>2
    <3> QED BY <1>5, <1>8, <2>12, <3>1 DEF KeptOf
  <2> QED BY <2>11, <2>12
<1> QED BY <1>7, <1>8

LEMMA ExpectsOwes ==
    ASSUME TypeOK, NEW m \in Slots, NEW x \in Id
    PROVE  Expects(queue[m], x) <=> Owes(m, x)
<1>1. queue[m] \in Seq(Elem)
  BY DEF TypeOK
<1> QED BY <1>1 DEF Expects, Closes, Owes, In, ElemsOf

\* The thread of m takes the packet out of its mailbox.
Empties(m) ==
    /\ data_valid[m] /\ data_valid' = [data_valid EXCEPT ![m] = FALSE]
    /\ UNCHANGED <<pc, hand, data, Line, sent>>

LEMMA EmptyEffect ==
    ASSUME TypeOK, NEW m \in Slots, Empties(m), NEW s \in Slots, NEW x \in Id
    PROVE  /\ InBox(s, x)' <=> InBox(s, x) /\ s # m
           /\ InHand(s, x)' <=> InHand(s, x)
           /\ AskedBy(s, x)' => AskedBy(s, x)
<1>1. data_valid'[s] <=> data_valid[s] /\ s # m
  BY DEF Empties, TypeOK
<1> QED BY <1>1 DEF Empties, InBox, InHand, AskedBy

\* An answer comes out of the mailbox.
LEMMA LifeDelivered ==
    ASSUME IInv, TypeOK', LifeInv, NEW m \in Slots, Empties(m), data[m].pkt.type = "ans",
           \/ UNCHANGED <<queue, toApp>> /\ ~Expects(queue[m], data[m].pkt.id)
           \/ /\ Expects(queue[m], data[m].pkt.id) /\ Told(m, data[m].pkt)
              /\ queue' = [queue EXCEPT ![m] = Delete(@, Match(@, data[m].pkt.id))]
    PROVE  LifeInv' /\ (KeptInv => KeptInv')
<1> DEFINE p == data[m].pkt
<1>0. p \in Packet /\ p.id \in Id /\ TypeOK /\ p.type = "ans" /\ p.id[1] = m
  <2>1. data[m] \in Mail /\ OnWay(p, data[m].from, m)
    BY DEF IInv, RouteInv, Empties
  <2> QED BY <2>1 DEF Mail, Packet, OnWay, IInv
<1> SUFFICES ASSUME NEW x \in Id PROVE LifeOf(x)' /\ (KeptOf(x) => KeptOf(x)')
  BY DEF LifeInv, KeptInv
<1>1. LifeOf(x) /\ sent[x[1]] \in Nat /\ x[1] \in Slots /\ UNCHANGED sent
  BY <1>0 DEF LifeInv, TypeOK, Id, Empties
<1>2. /\ Unread(x)' <=> Unread(x)
      /\ UnreadTwice(x)' <=> UnreadTwice(x)
      /\ \A s \in Slots : Replied(s, x)' <=> Replied(s, x)
  BY SocketSame DEF Empties
<1>3. \A s \in Slots : /\ InBox(s, x)' <=> InBox(s, x) /\ s # m
                       /\ InHand(s, x)' <=> InHand(s, x)
                       /\ AskedBy(s, x)' => AskedBy(s, x)
  BY <1>0, EmptyEffect
<1>4. x = p.id => InBox(m, x)
  BY DEF InBox, Empties
<1>5. x # p.id => ~InBox(m, x)
  BY DEF InBox
<1> HIDE DEF p
<1>6. CASE UNCHANGED <<queue, toApp>> /\ ~Expects(queue[m], p.id)
  <2>1. \A s \in Slots : /\ Owes(s, x)' <=> Owes(s, x)
                         /\ OwesTwice(s, x)' <=> OwesTwice(s, x)
                         /\ OwesThrice(s, x)' <=> OwesThrice(s, x)
    BY <1>6, QueueSame
  <2>2. \A s \in Slots : Got(s, x)' => Got(s, x)
    BY <1>2, <1>6, ClientSame DEF Got
  <2>3. NoMore(x)
    BY <1>1, <1>2, <1>3, <1>6, <2>1, <2>2, ClientSame DEF NoMore
  <2>4. CASE x # p.id
    <3>1. NoLess(x)
      BY <1>3, <1>5, <2>1, <2>4 DEF NoLess
    <3> QED BY <1>0, <1>1, <2>3, <3>1, LifeGoesOn, KeptGoesOn
  <2>5. CASE x = p.id
    <3>1. ~Owes(x[1], x)
      BY <1>0, <1>6, <2>5, ExpectsOwes
    <3>2. ~KeptOf(x)
      BY <1>0, <1>4, <2>5, <3>1 DEF KeptOf, Carries
    <3> QED BY <1>0, <1>1, <2>3, <3>2, LifeGoesOn
  <2> QED BY <2>4, <2>5
<1>7. CASE /\ Expects(queue[m], p.id) /\ Told(m, p)
           /\ queue' = [queue EXCEPT ![m] = Delete(@, Match(@, p.id))]
  <2>1. /\ Owes(m, x) <=> Owes(m, x)' \/ x = p.id
        /\ OwesTwice(m, x) <=> OwesTwice(m, x)' \/ (x = p.id /\ Owes(m, x)')
        /\ OwesThrice(m, x) <=> OwesThrice(m, x)' \/ (x = p.id /\ OwesTwice(m, x)')
        /\ \A s \in Slots : s # m => /\ Owes(s, x)' <=> Owes(s, x)
                                     /\ OwesTwice(s, x)' <=> OwesTwice(s, x)
                                     /\ OwesThrice(s, x)' <=> OwesThrice(s, x)
    BY <1>0, <1>7, DeleteOwes, ZenonT(30)
  <2>2. \A y \in Id : p \notin RequestsOf(y) /\ (p \in AnswersOf(y) => y = p.id)
    BY <1>0 DEF RequestsOf, AnswersOf
  <2>3. /\ Answered(x)' => Answered(x) \/ x = p.id
        /\ AnsweredTwice(x)' => AnsweredTwice(x) \/ (x = p.id /\ Answered(x))
        /\ \A s \in Slots : Received(s, x)' => Received(s, x)
    BY <1>0, <1>7, <2>2, ToldEffect
  <2>4. \A s \in Slots : Got(s, x)' => Got(s, x)
    BY <1>2, <2>3 DEF Got
  <2>5. CASE x # p.id
    <3>1. NoMore(x)
      BY <1>1, <1>2, <1>3, <2>1, <2>3, <2>4, <2>5 DEF NoMore
    <3>2. NoLess(x)
      BY <1>3, <1>5, <2>1, <2>5 DEF NoLess
    <3> QED BY <1>0, <1>1, <3>1, <3>2, LifeGoesOn, KeptGoesOn
  <2>6. CASE x = p.id
    <3>1. InBox(m, x) /\ Owes(m, x) /\ x[1] = m
      BY <1>0, <1>4, <2>1, <2>6
    <3>2. ~Unread(x) /\ x[2] < sent[x[1]] /\ ~Answered(x) /\ ~OwesTwice(m, x)
      BY <1>1, <3>1 DEF LifeOf, Seen, Carries
    <3>3. \A s \in Slots : ~InBox(s, x)' /\ ~InHand(s, x)' /\ ~Serves(s, x)'
      BY <1>1, <1>3, <2>1, <3>1 DEF LifeOf, OneCarrier, Serves
    <3>4. \A s \in Slots : ~Carries(s, x)' /\ ~AskedBy(s, x)'
      BY <3>3 DEF Carries, AskedBy
    <3>5. ~Owes(m, x)' /\ ~OwesTwice(m, x)' /\ ~OwesThrice(m, x)'
      BY <1>1, <2>1, <2>6, <3>1, <3>2 DEF LifeOf
    <3>6. ~AnsweredTwice(x)' /\ ~Unread(x)' /\ ~UnreadTwice(x)'
      BY <1>1, <1>2, <2>3, <3>2 DEF LifeOf
    <3>7. OneCarrier(x)'
      BY <3>3 DEF OneCarrier
    <3> QED
      BY <1>1, <3>1, <3>2, <3>4, <3>5, <3>6, <3>7 DEF LifeOf, KeptOf
  <2> QED BY <2>5, <2>6
<1> QED BY <1>6, <1>7 DEF p

\* A request comes out of the mailbox; the module has to serve it now.
LEMMA LifeServed ==
    ASSUME IInv, TypeOK', LifeInv, NEW m \in Slots, Empties(m), data[m].pkt.type = "req",
           Told(m, data[m].pkt), NEW id \in Id, id = data[m].pkt.id, NEW from \in Slots,
           queue' = [queue EXCEPT ![m] = Push(@, sdb_packet(id, from))]
    PROVE  LifeInv' /\ (KeptInv => KeptInv')
<1> DEFINE p == data[m].pkt
<1>0. /\ p \in Packet /\ p.id \in Id /\ TypeOK /\ p.type = "req"
      /\ id = p.id /\ InBox(m, id)
  <2>1. data[m] \in Mail
    BY DEF IInv, RouteInv, Empties
  <2> QED BY <2>1 DEF Mail, Packet, IInv, InBox, Empties
<1> SUFFICES ASSUME NEW x \in Id PROVE LifeOf(x)' /\ (KeptOf(x) => KeptOf(x)')
  BY DEF LifeInv, KeptInv
<1>1. LifeOf(x) /\ sent[x[1]] \in Nat /\ x[1] \in Slots /\ UNCHANGED sent
  BY <1>0 DEF LifeInv, TypeOK, Id, Empties
<1>2. /\ Unread(x)' <=> Unread(x)
      /\ UnreadTwice(x)' <=> UnreadTwice(x)
      /\ \A s \in Slots : Replied(s, x)' <=> Replied(s, x)
  BY SocketSame DEF Empties
<1>3. \A s \in Slots : /\ InBox(s, x)' <=> InBox(s, x) /\ s # m
                       /\ InHand(s, x)' <=> InHand(s, x)
                       /\ AskedBy(s, x)' => AskedBy(s, x)
  BY <1>0, EmptyEffect
<1>4. \A s \in Slots :
        /\ Owes(s, x)' <=> Owes(s, x) \/ (s = m /\ x = p.id)
        /\ OwesTwice(s, x)' <=> OwesTwice(s, x) \/ (s = m /\ x = p.id /\ Owes(m, x))
        /\ OwesThrice(s, x)' <=> OwesThrice(s, x) \/ (s = m /\ x = p.id /\ OwesTwice(m, x))
  <2>1. /\ Owes(m, x)' <=> Owes(m, x) \/ x = id
        /\ OwesTwice(m, x)' <=> OwesTwice(m, x) \/ (x = id /\ Owes(m, x))
        /\ OwesThrice(m, x)' <=> OwesThrice(m, x) \/ (x = id /\ OwesTwice(m, x))
        /\ \A s \in Slots : s # m => /\ Owes(s, x)' <=> Owes(s, x)
                                     /\ OwesTwice(s, x)' <=> OwesTwice(s, x)
                                     /\ OwesThrice(s, x)' <=> OwesThrice(s, x)
    BY <1>0, PushOwes
  <2> QED BY <2>1
<1>5. \A y \in Id : p \notin AnswersOf(y) /\ (p \in RequestsOf(y) => y = p.id)
  BY <1>0 DEF RequestsOf, AnswersOf
<1>6. /\ Answered(x)' => Answered(x)
      /\ AnsweredTwice(x)' => AnsweredTwice(x)
      /\ \A s \in Slots : Received(s, x)' => Received(s, x) \/ (s = m /\ x = p.id)
  BY <1>0, <1>5, ToldEffect
<1>7. \A s \in Slots : Got(s, x)' => Got(s, x) \/ (s = m /\ x = p.id)
  BY <1>2, <1>6 DEF Got
<1>8. /\ x # p.id => ~InBox(m, x)
      /\ x = p.id => AskedBy(m, x)
  BY <1>0 DEF InBox, AskedBy
<1> HIDE DEF p
<1>9. CASE x # p.id
  <2>1. NoMore(x)
    BY <1>1, <1>2, <1>3, <1>4, <1>6, <1>7, <1>9 DEF NoMore
  <2>2. NoLess(x)
    BY <1>3, <1>4, <1>8, <1>9 DEF NoLess
  <2> QED BY <1>0, <1>1, <2>1, <2>2, LifeGoesOn, KeptGoesOn
<1>10. CASE x = p.id
  <2>1. InBox(m, x) /\ AskedBy(m, x) /\ Carries(m, x)
    BY <1>0, <1>8, <1>10 DEF Carries
  <2>2. ~Unread(x) /\ x[2] < sent[x[1]] /\ ~Answered(x) /\ ~Got(x[1], x) /\ ~OwesTwice(x[1], x)
    BY <1>1, <2>1 DEF LifeOf, Seen
  <2>3. \A s \in Slots : ~InBox(s, x)' /\ ~InHand(s, x)' /\ ~Serves(s, x)
    BY <1>1, <1>3, <2>1 DEF LifeOf, OneCarrier
  <2>4. \A s \in Slots : ~AskedBy(s, x)' /\ (Serves(s, x)' => s = m)
    BY <1>4, <2>3 DEF AskedBy, Serves
  <2>5. Serves(m, x)' => ~OwesTwice(m, x)'
    <3>1. ASSUME m # x[1] PROVE ~Owes(m, x) /\ ~OwesTwice(m, x)
      BY <2>3, <3>1 DEF Serves, Owes, OwesTwice, In, TwoIn
    <3> QED BY <1>4, <3>1 DEF Serves
  <2>6. OneCarrier(x)'
    BY <2>3, <2>4, <2>5 DEF OneCarrier
  <2>7. ~AnsweredTwice(x)' /\ ~Unread(x)' /\ ~UnreadTwice(x)' /\ ~Answered(x)'
    BY <1>1, <1>2, <1>6, <2>2 DEF LifeOf
  <2>8. ~OwesThrice(x[1], x)' /\ (Serves(m, x)' => ~OwesTwice(x[1], x)')
    BY <1>1, <1>4, <2>2 DEF LifeOf, Serves
  <2>9. Got(x[1], x)' => \A s \in Slots : ~Carries(s, x)'
    BY <1>1, <1>7, <2>2, <2>3, <2>4 DEF Carries, Serves
  <2>10. LifeOf(x)'
    BY <1>1, <2>2, <2>3, <2>4, <2>6, <2>7, <2>8, <2>9 DEF LifeOf, Carries
  <2>11. ASSUME KeptOf(x) PROVE KeptOf(x)'
    <3>1. Owes(x[1], x) /\ Owes(x[1], x)'
      BY <1>1, <1>4, <2>1, <2>11 DEF KeptOf
    <3>2. Got(x[1], x)' => OwesTwice(x[1], x)'
      BY <1>1, <1>4, <1>7, <1>10, <2>2, <3>1
    <3> QED BY <3>1, <3>2 DEF KeptOf
  <2> QED BY <2>10, <2>11
<1> QED BY <1>9, <1>10

\* A step that moves no packet.
LEMMA LifeQuiet ==
    ASSUME IInv, TypeOK', LifeInv, SendersSame,
           UNCHANGED <<hand, data, data_valid, queue, Line, toApp, sent>>
    PROVE  LifeInv' /\ (KeptInv => KeptInv')
<1>0. TypeOK
  BY DEF IInv
<1> SUFFICES ASSUME NEW x \in Id PROVE LifeOf(x)' /\ (KeptOf(x) => KeptOf(x)')
  BY DEF LifeInv, KeptInv
<1>1. LifeOf(x) /\ sent[x[1]] \in Nat
  BY <1>0 DEF LifeInv, TypeOK, Id
<1>2. \A s \in Slots : Got(s, x)' <=> Got(s, x)
  BY SocketSame, ClientSame DEF Got
<1>3. NoMore(x) /\ NoLess(x)
  BY <1>1, <1>2, SocketSame, ClientSame, QueueSame, FlightSame DEF NoMore, NoLess
<1> QED BY <1>0, <1>1, <1>3, LifeGoesOn, KeptGoesOn

\* A packet gets from the hand of a thread into a mailbox.
LEMMA MailEffect ==
    ASSUME IInv, NEW m \in Slots, sdb_module_write_mcs_packet(m), NEW s \in Slots, NEW x \in Id
    PROVE  /\ InHand(m, hand[m].pkt.id)
           /\ InHand(s, x)' <=> InHand(s, x) /\ s # m
           /\ InBox(s, x)' <=> InBox(s, x) \/ (s = hand[m].to /\ x = hand[m].pkt.id)
           /\ AskedBy(s, x)' => AskedBy(s, x) \/ (x = hand[m].pkt.id /\ AskedBy(m, x))
           /\ AskedBy(m, hand[m].pkt.id) \/ hand[m].to = hand[m].pkt.id[1]
           /\ hand[m].to \in Slots
<1> DEFINE to == hand[m].to
           p == hand[m].pkt
<1>0. /\ TypeOK /\ pc[m] = "write" /\ hand[m] \in Hand /\ to \in Slots /\ ~data_valid[to]
      /\ OnWay(p, m, to)
  BY DEF IInv, LockInv, RouteInv, Sending, sdb_module_write_mcs_packet, Hand
<1>1. /\ data' = [data EXCEPT ![to] = [from |-> m, pkt |-> p]]
      /\ data_valid' = [data_valid EXCEPT ![to] = TRUE]
      /\ pc' = [Broadcast(pc, to) EXCEPT ![m] = "loop"]
      /\ hand' = [hand EXCEPT ![m] = NULL]
  BY DEF sdb_module_write_mcs_packet
<1>2. InHand(m, p.id)
  BY <1>0 DEF InHand, Sending
<1>3. p.type = "req" \/ to = p.id[1]
  BY <1>0 DEF OnWay
<1> HIDE DEF to, p
<1>4. /\ s # m => hand'[s] = hand[s] /\ (pc'[s] \in Sending <=> pc[s] \in Sending)
      /\ pc'[m] = "loop"
  <2>1. pc'[m] = "loop" /\ (s # m => hand'[s] = hand[s] /\ pc'[s] = Broadcast(pc, to)[s])
    <3>1. DOMAIN Broadcast(pc, to) = Slots /\ hand \in [Slots -> Hand \cup {NULL}]
      BY <1>0 DEF Broadcast, TypeOK
    <3> QED BY <1>1, <3>1
  <2>2. Broadcast(pc, to)[s] \in Sending <=> pc[s] \in Sending
    BY <1>0, BroadcastEffect DEF Sending
  <2> QED BY <2>1, <2>2
<1>5. /\ s # to => data'[s] = data[s] /\ data_valid'[s] = data_valid[s]
      /\ s = to => data'[s].pkt = p /\ data_valid'[s]
  BY <1>0, <1>1 DEF TypeOK
<1>6. InHand(s, x)' <=> InHand(s, x) /\ s # m
  BY <1>4 DEF InHand, Sending
<1>7. InBox(s, x)' <=> InBox(s, x) \/ (s = to /\ x = p.id)
  BY <1>0, <1>5 DEF InBox
<1>8. p.type = "req" => AskedBy(m, p.id)
  BY <1>2 DEF AskedBy, p
<1>9. AskedBy(s, x)' => AskedBy(s, x) \/ (x = p.id /\ AskedBy(m, x))
  <2>1. CASE InHand(s, x)' /\ hand'[s].pkt.type = "req"
    BY <1>4, <1>6, <2>1 DEF AskedBy
  <2>2. CASE InBox(s, x)' /\ data'[s].pkt.type = "req"
    BY <1>0, <1>5, <1>7, <1>8, <2>2 DEF AskedBy, InBox
  <2> QED BY <2>1, <2>2 DEF AskedBy
<1> QED BY <1>0, <1>2, <1>3, <1>6, <1>7, <1>8, <1>9 DEF to, p

LEMMA LifeMailed ==
    ASSUME IInv, TypeOK', LifeInv, NEW m \in Slots, sdb_module_write_mcs_packet(m)
    PROVE  LifeInv' /\ (KeptInv => KeptInv')
<1>0. TypeOK /\ UNCHANGED <<queue, Line, toApp, sent>>
  <2>1. /\ TypeOK /\ pc[m] = "write" /\ hand[m].to \in Slots
        /\ UNCHANGED <<queue, toSdb, toApp, sent, cur>>
        /\ pc' = [Broadcast(pc, hand[m].to) EXCEPT ![m] = "loop"]
    BY DEF IInv, LockInv, Sending, Hand, sdb_module_write_mcs_packet, appVars
  <2>2. DOMAIN Broadcast(pc, hand[m].to) = Slots
    BY DEF Broadcast
  <2>3. pc'[m] = "loop" /\ \A s \in Slots \ {m} : pc'[s] = Broadcast(pc, hand[m].to)[s]
    BY <2>1, <2>2
  <2>4. \A s \in Slots : Broadcast(pc, hand[m].to)[s] \in Pending <=> pc[s] \in Pending
    BY <2>1, BroadcastEffect DEF Pending, Naming, Scanning
  <2>5. OthersSame(m) /\ pc[m] \notin Pending /\ pc'[m] \notin Pending
    BY <2>1, <2>3, <2>4 DEF OthersSame, Pending, Naming, Scanning
  <2> QED BY <2>1, <2>5, LineSame
<1> SUFFICES ASSUME NEW x \in Id PROVE LifeOf(x)' /\ (KeptOf(x) => KeptOf(x)')
  BY DEF LifeInv, KeptInv
<1> DEFINE to == hand[m].to
           y == hand[m].pkt.id
<1>1. LifeOf(x) /\ sent[x[1]] \in Nat /\ x[1] \in Slots
  BY <1>0 DEF LifeInv, TypeOK, Id
<1>2. /\ InHand(m, y) /\ to \in Slots /\ (AskedBy(m, y) \/ to = y[1])
      /\ \A s \in Slots :
            /\ InHand(s, x)' <=> InHand(s, x) /\ s # m
            /\ InBox(s, x)' <=> InBox(s, x) \/ (s = to /\ x = y)
            /\ AskedBy(s, x)' => AskedBy(s, x) \/ (x = y /\ AskedBy(m, x))
  BY <1>1, MailEffect
<1>3. x # y => ~InHand(m, x)
  BY DEF InHand
<1> HIDE DEF to, y
<1>4. \A s \in Slots : /\ Got(s, x)' <=> Got(s, x)
                       /\ Owes(s, x)' <=> Owes(s, x)
                       /\ OwesTwice(s, x)' <=> OwesTwice(s, x)
                       /\ OwesThrice(s, x)' <=> OwesThrice(s, x)
                       /\ Serves(s, x)' <=> Serves(s, x)
  BY <1>0, SocketSame, ClientSame, QueueSame DEF Got, Serves
<1>5. /\ Unread(x)' <=> Unread(x)
      /\ UnreadTwice(x)' <=> UnreadTwice(x)
      /\ Answered(x)' <=> Answered(x)
      /\ AnsweredTwice(x)' <=> AnsweredTwice(x)
  BY <1>0, SocketSame, ClientSame
<1>6. CASE x # y
  <2>1. NoMore(x) /\ NoLess(x)
    BY <1>0, <1>1, <1>2, <1>3, <1>4, <1>5, <1>6 DEF NoMore, NoLess
  <2> QED BY <1>0, <1>1, <2>1, LifeGoesOn, KeptGoesOn
<1>7. CASE x = y
  <2>1. InHand(m, x) /\ Carries(m, x) /\ Seen(x)
    BY <1>2, <1>7 DEF Carries, Seen
  <2>2. \A s \in Slots : ~InHand(s, x)' /\ (InBox(s, x)' <=> s = to) /\ ~Serves(s, x)'
    BY <1>1, <1>2, <1>4, <1>7, <2>1 DEF LifeOf, OneCarrier
  <2>3. OneCarrier(x)'
    BY <2>2 DEF OneCarrier
  <2>4. Answered(x) \/ Got(x[1], x) => to = x[1] \/ ~Got(x[1], x)
    BY <1>1, <1>2, <1>7 DEF LifeOf
  <2>5. Answered(x) \/ Got(x[1], x) => \A s \in Slots : ~AskedBy(s, x)'
    BY <1>1, <1>2 DEF LifeOf
  <2>6. LifeOf(x)'
    <3>1. x[2] < sent'[x[1]] /\ ~Unread(x)' /\ ~UnreadTwice(x)' /\ ~AnsweredTwice(x)'
          /\ ~OwesThrice(x[1], x)' /\ (Answered(x)' => ~Owes(x[1], x)')
      BY <1>0, <1>1, <1>4, <1>5, <2>1 DEF LifeOf
    <3>2. \A s \in Slots : Carries(s, x)' => s = to /\ ~OwesTwice(x[1], x)'
      BY <1>1, <1>4, <2>1, <2>2 DEF LifeOf, Carries
    <3>3. Got(x[1], x)' => \A s \in Slots : (Carries(s, x)' => s = x[1]) /\ ~AskedBy(s, x)'
      BY <1>1, <1>4, <2>4, <2>5, <3>2
    <3> QED BY <1>5, <2>3, <2>5, <3>1, <3>2, <3>3 DEF LifeOf
  <2>7. ASSUME KeptOf(x) PROVE KeptOf(x)'
    <3>1. Owes(x[1], x)'
      BY <1>1, <1>4, <2>1, <2>7 DEF KeptOf
    <3> QED BY <1>2, <2>2, <3>1 DEF KeptOf
  <2> QED BY <2>6, <2>7
<1> QED BY <1>6, <1>7

\* A client sends a packet of its own.
LEMMA LifeSent ==
    ASSUME IInv, TypeOK', LifeInv, NEW m \in Slots, NEW p \in Packet, p.type # "ans",
           p.id = <<m, sent[m]>>,
           Line' = [Line EXCEPT ![m] = Append(@, p)], sent' = [sent EXCEPT ![m] = @ + 1],
           UNCHANGED <<pc, hand, data, data_valid, queue, toApp>>
    PROVE  LifeInv' /\ (KeptInv => KeptInv')
<1>0. TypeOK /\ p.id \in Id /\ sent[m] \in Nat /\ sent \in [Slots -> Nat]
  BY DEF IInv, TypeOK, Packet
<1> SUFFICES ASSUME NEW x \in Id PROVE LifeOf(x)' /\ (KeptOf(x) => KeptOf(x)')
  BY DEF LifeInv, KeptInv
<1>1. /\ LifeOf(x) /\ sent[x[1]] \in Nat /\ x[1] \in Slots /\ x[2] \in Nat
      /\ sent'[x[1]] = IF x[1] = m THEN sent[m] + 1 ELSE sent[x[1]]
  BY <1>0 DEF LifeInv, Id
<1>2. /\ Unread(x)' => Unread(x) \/ x = p.id
      /\ UnreadTwice(x)' => UnreadTwice(x) \/ (x = p.id /\ Unread(x))
      /\ \A s \in Slots : Replied(s, x)' => Replied(s, x)
  BY <1>0, PutEffect DEF CallsOf, AnswersOf
<1>3. \A s \in Slots : /\ Got(s, x)' => Got(s, x)
                       /\ Owes(s, x)' <=> Owes(s, x)
                       /\ OwesTwice(s, x)' <=> OwesTwice(s, x)
                       /\ OwesThrice(s, x)' <=> OwesThrice(s, x)
                       /\ InHand(s, x)' <=> InHand(s, x)
                       /\ InBox(s, x)' <=> InBox(s, x)
                       /\ AskedBy(s, x)' <=> AskedBy(s, x)
  BY <1>2, ClientSame, QueueSame, FlightSame DEF Got, SendersSame
<1>4. (Answered(x)' <=> Answered(x)) /\ (AnsweredTwice(x)' <=> AnsweredTwice(x))
  BY ClientSame
<1>5. CASE x # p.id
  <2>1. NoMore(x) /\ NoLess(x)
    BY <1>0, <1>1, <1>2, <1>3, <1>4, <1>5 DEF NoMore, NoLess
  <2> QED BY <1>0, <1>1, <2>1, LifeGoesOn, KeptGoesOn
<1>6. CASE x = p.id
  <2>1. ~Unread(x) /\ ~Seen(x) /\ x[2] < sent'[x[1]]
    BY <1>0, <1>1, <1>6 DEF LifeOf
  <2>2. \A s \in Slots : /\ ~InHand(s, x)' /\ ~InBox(s, x)' /\ ~Serves(s, x)' /\ ~Got(s, x)'
                         /\ ~Carries(s, x)' /\ ~AskedBy(s, x)'
    BY <1>3, <2>1 DEF Seen, Carries, Serves, AskedBy
  <2>3. ~Owes(x[1], x)' /\ ~Answered(x)'
    BY <1>1, <1>3, <1>4, <2>1 DEF Seen
  <2>4. ~Seen(x)' /\ ~UnreadTwice(x)' /\ ~AnsweredTwice(x)' /\ ~OwesThrice(x[1], x)'
    BY <1>1, <1>2, <1>3, <1>4, <2>1, <2>2, <2>3 DEF Seen, LifeOf
  <2>5. OneCarrier(x)'
    BY <2>2 DEF OneCarrier
  <2> QED BY <1>1, <2>1, <2>2, <2>3, <2>4, <2>5 DEF LifeOf, KeptOf
<1> QED BY <1>5, <1>6

\* A client answers a request it has received, perhaps not for the first time.
LEMMA LifeRepeated ==
    ASSUME IInv, TypeOK', LifeInv, NEW m \in Slots, NEW p \in Packet, p.type = "ans",
           NEW i \in 1..Len(toApp[m]), toApp[m][i].type = "req", p.id = toApp[m][i].id,
           Line' = [Line EXCEPT ![m] = Append(@, p)],
           UNCHANGED <<pc, hand, data, data_valid, queue, toApp, sent>>
    PROVE  LifeInv' /\ (KeptInv => KeptInv')
<1>0. TypeOK /\ toApp[m] \in Seq(Packet) /\ toApp[m][i] \in Packet
  <2>1. TypeOK /\ toApp[m] \in Seq(Packet)
    BY DEF IInv, TypeOK
  <2> QED BY <2>1
<1> SUFFICES ASSUME NEW x \in Id PROVE LifeOf(x)' /\ (KeptOf(x) => KeptOf(x)')
  BY DEF LifeInv, KeptInv
<1>1. LifeOf(x) /\ sent[x[1]] \in Nat
  BY <1>0 DEF LifeInv, TypeOK, Id
<1>2. x = p.id => Received(m, x)
  BY <1>0 DEF Received, In, RequestsOf
<1>3. /\ Unread(x)' => Unread(x)
      /\ UnreadTwice(x)' => UnreadTwice(x)
      /\ \A s \in Slots : Replied(s, x)' => Replied(s, x) \/ (s = m /\ x = p.id)
  <2>1. p \notin CallsOf(x) /\ (p \in AnswersOf(x) => x = p.id)
    BY DEF CallsOf, AnswersOf
  <2> QED BY <1>0, <2>1, PutEffect
<1>4. \A s \in Slots : Got(s, x)' => Got(s, x)
  BY <1>2, <1>3, ClientSame DEF Got
<1>5. NoMore(x) /\ NoLess(x)
  BY <1>1, <1>3, <1>4, ClientSame, QueueSame, FlightSame DEF NoMore, NoLess, SendersSame
<1> QED BY <1>0, <1>1, <1>5, LifeGoesOn, KeptGoesOn

-----------------------------------------------------------------------------
(* The steps, one by one.                                                  *)

\* The steps that move no packet.
Quiet ==
    /\ SendersSame
    /\ UNCHANGED <<hand, data, data_valid, queue, toSdb, Line, toApp, sent>>

LEMMA QuietSteps ==
    ASSUME IInv,
           \/ sdb_module_init \/ Observer
           \/ \E m \in Slots : \/ cond_wait(m) \/ relock(m) \/ spurious_wakeup(m)
                               \/ read_timeout(m) \/ lock_to(m)
    PROVE  Quiet
<1>0. TypeOK /\ pc \in [Slots -> Place]
  BY DEF IInv, TypeOK
<1>1. CASE sdb_module_init
  <2>1. /\ UNCHANGED <<hand, data, data_valid, queue, toSdb, toApp, sent, cur>>
        /\ pc' = [pc EXCEPT ![last] = "handshake"] /\ last \in Slots
    BY <1>0, <1>1, SlotFacts DEF sdb_module_init, boxVars, appVars, TypeOK
  <2>2. pc[last] = "none"
    BY <2>1, SlotFacts DEF IInv, TableInv
  <2>3. SendersSame /\ UNCHANGED Line
    BY <1>0, <2>1, <2>2, LineStill DEF SendersSame, Sending, Pending, Naming, Scanning
  <2> QED BY <2>1, <2>3 DEF Quiet
<1>2. ASSUME NEW m \in Slots, cond_wait(m) \/ relock(m) \/ spurious_wakeup(m) PROVE Quiet
  <2>1. /\ UNCHANGED <<hand, data, data_valid, queue, toSdb, toApp, sent, cur>>
        /\ \/ pc[m] = "loop" /\ pc' = [pc EXCEPT ![m] = "wait"]
           \/ pc[m] = "relock" /\ pc' = [pc EXCEPT ![m] = "loop"]
           \/ pc[m] = "wait" /\ pc' = [pc EXCEPT ![m] = "relock"]
           \/ pc[m] = "waitTo" /\ pc' = [pc EXCEPT ![m] = "lockTo"]
    BY <1>2 DEF cond_wait, relock, spurious_wakeup, boxVars, appVars
  <2>2. SendersSame
    BY <1>0, <2>1 DEF SendersSame, Sending
  <2>3. \A s \in Slots : pc'[s] \in Pending <=> pc[s] \in Pending
    BY <1>0, <2>1 DEF Pending, Naming, Scanning
  <2> QED BY <2>1, <2>2, <2>3, LineStill DEF Quiet
<1>3. CASE observer_notify
  <2>1. UNCHANGED <<hand, data, data_valid, queue, toSdb, toApp, sent, cur>>
    BY <1>3 DEF observer_notify, boxVars, appVars
  <2>2. PICK m \in Slots : UNCHANGED pc \/ pc' = Broadcast(pc, m)
    BY <1>0, <1>3 DEF observer_notify, TypeOK
  <2>3. SendersSame
    BY <1>0, <2>2, BroadcastEffect DEF SendersSame, Sending
  <2>4. \A s \in Slots : pc'[s] \in Pending <=> pc[s] \in Pending
    BY <1>0, <2>2, BroadcastEffect DEF Pending, Naming, Scanning
  <2> QED BY <2>1, <2>3, <2>4, LineStill DEF Quiet
<1>4. ASSUME observer_start \/ observer_select \/ observer_return
             \/ \E m \in Slots : read_timeout(m)
      PROVE  Quiet
  <2>1. UNCHANGED <<pc, hand, data, data_valid, queue, toSdb, toApp, sent, cur>>
    BY <1>4, WatchSteps
  <2> QED BY <2>1, LineStill DEF Quiet, SendersSame
<1>5. ASSUME NEW m \in Slots, lock_to(m) PROVE Quiet
  <2>1. pc[m] = "lockTo" /\ ~data_valid[m]
    BY <1>5 DEF lock_to, IInv, LockInv, Sending, Closed
  <2>2. /\ UNCHANGED <<hand, data, data_valid, queue, toSdb, toApp, sent, cur>>
        /\ pc' = [pc EXCEPT ![m] = "write"] \/ pc' = [pc EXCEPT ![m] = "waitTo"]
    BY <1>5, <2>1 DEF lock_to, boxVars, appVars
  <2>3. SendersSame
    BY <1>0, <2>1, <2>2 DEF SendersSame, Sending
  <2>4. \A s \in Slots : pc'[s] \in Pending <=> pc[s] \in Pending
    BY <1>0, <2>1, <2>2 DEF Pending, Naming, Scanning
  <2> QED BY <2>2, <2>3, <2>4, LineStill DEF Quiet
<1> QED BY <1>1, <1>2, <1>3, <1>4, <1>5 DEF Observer

\* The packets of the clients, and what they do not put into them.
NoStop ==
    \A m \in Slots : \A i \in 1..Len(toSdb[m]) :
        toSdb[m][i].type = "req" => toSdb[m][i].cmd # "sdb_qos_stop"
NoBig == \A m \in Slots : \A i \in 1..Len(toSdb[m]) : ~toSdb[m][i].big

ClientPut(m, p) ==
    /\ toSdb' = [toSdb EXCEPT ![m] = Append(@, p)]
    /\ p.big => "big" \in AppFault
    /\ \/ /\ p.type # "ans" /\ p.id = <<m, sent[m]>> /\ sent' = [sent EXCEPT ![m] = @ + 1]
          /\ p.cmd \in AppCmd[m] \cup {"sdb_handshake"}
       \/ /\ p.type = "ans" /\ UNCHANGED sent
          /\ \E i \in 1..Len(toApp[m]) : toApp[m][i].type = "req" /\ p.id = toApp[m][i].id

LEMMA ClientPuts ==
    ASSUME TypeOK, NEW m \in Slots, Client(m)
    PROVE  /\ UNCHANGED <<pc, hand, cur, data, data_valid, queue, toApp>>
           /\ UNCHANGED <<toSdb, sent>> \/ \E p \in Packet : ClientPut(m, p)
<1>1. ASSUME NEW type \in {"req", "bad"}, NEW cmd \in Command,
             NEW dest \in Names \cup {NULL}, NEW big \in BOOLEAN,
             app_send(m, type, cmd, dest, big)
      PROVE  \E p \in Packet : ClientPut(m, p)
  <2> DEFINE q == [type |-> type, id |-> <<m, sent[m]>>, cmd |-> cmd, dest |-> dest, big |-> big]
  <2>1. /\ toSdb' = [toSdb EXCEPT ![m] = Append(@, q)] /\ sent' = [sent EXCEPT ![m] = @ + 1]
        /\ big => "big" \in AppFault
        /\ cmd \in AppCmd[m] \cup {"sdb_handshake"}
    BY <1>1 DEF app_send, AppPut
  <2>2. <<m, sent[m]>> \in Id
    BY DEF TypeOK, Id
  <2>3. q \in Packet /\ q.type # "ans" /\ q.id = <<m, sent[m]>> /\ q.cmd = cmd /\ q.big = big
    BY <2>2 DEF Packet
  <2> HIDE DEF q
  <2> QED BY <2>1, <2>3 DEF ClientPut
<1>2. ASSUME NEW i \in 1..Len(toApp[m]), NEW big \in BOOLEAN, app_answer(m, i, big)
      PROVE  \E p \in Packet : ClientPut(m, p)
  <2> DEFINE q == [Ans(toApp[m][i], "data") EXCEPT !.big = big]
  <2>1. /\ toSdb' = [toSdb EXCEPT ![m] = Append(@, q)] /\ UNCHANGED sent
        /\ big => "big" \in AppFault
        /\ toApp[m][i].type = "req"
    BY <1>2 DEF app_answer, AppPut
  <2>2. toApp[m][i] \in Packet
    BY DEF TypeOK
  <2>3. q \in Packet /\ q.type = "ans" /\ q.id = toApp[m][i].id /\ q.big = big
    BY <2>2 DEF Ans, Packet, Result
  <2> HIDE DEF q
  <2> QED BY <2>1, <2>3 DEF ClientPut
<1>3. ASSUME app_close(m) PROVE UNCHANGED <<toSdb, sent>>
  BY <1>3 DEF app_close
<1>4. \/ \E type \in {"req", "bad"}, cmd \in Command, dest \in Names \cup {NULL},
            big \in BOOLEAN : app_send(m, type, cmd, dest, big)
      \/ \E i \in 1..Len(toApp[m]), big \in BOOLEAN : app_answer(m, i, big)
      \/ app_close(m)
  BY DEF Client
<1>5. UNCHANGED <<pc, hand, cur, data, data_valid, queue, toApp>>
  BY ClientSteps
<1> QED BY <1>1, <1>2, <1>3, <1>4, <1>5

\* What changes on the sockets to the daemon.
LEMMA SocketMoves ==
    ASSUME IInv, Next
    PROVE  \/ UNCHANGED toSdb
           \/ \E m \in Slots : toSdb[m] # <<>> /\ toSdb' = [toSdb EXCEPT ![m] = Tail(@)]
           \/ \E m \in Slots : \E p \in Packet : ClientPut(m, p)
<1>0. TypeOK
  BY DEF IInv
<1>1. ASSUME NEW m \in Slots, handshake_error(m) \/ handshake_read(m) \/ handshake_name(m)
                              \/ handshake_refuse(m) \/ handshake(m) \/ Works(m)
      PROVE  \/ UNCHANGED toSdb
             \/ toSdb[m] # <<>> /\ toSdb' = [toSdb EXCEPT ![m] = Tail(@)]
  <2>1. CASE Works(m)
    BY <2>1, WorkStep
  <2>2. CASE handshake_error(m) \/ handshake_read(m)
    BY <2>2 DEF handshake_error, handshake_read
  <2>3. CASE handshake_name(m) \/ handshake_refuse(m) \/ handshake(m)
    BY <2>3 DEF handshake_name, handshake_refuse, handshake
  <2> QED BY <1>1, <2>1, <2>2, <2>3
<1>2. ASSUME NEW m \in Slots, process_pkt_sdb(m) \/ sdb_module_write_mcs_packet(m)
      PROVE  UNCHANGED toSdb
  BY <1>2 DEF process_pkt_sdb, sdb_module_write_mcs_packet
<1>3. ASSUME NEW m \in Slots, Client(m)
      PROVE  UNCHANGED toSdb \/ \E p \in Packet : ClientPut(m, p)
  BY <1>0, <1>3, ClientPuts
<1>4. ASSUME NEW m \in Slots, Client(m) \/ ModuleThread(m) \/ spurious_wakeup(m)
      PROVE  \/ UNCHANGED toSdb
             \/ toSdb[m] # <<>> /\ toSdb' = [toSdb EXCEPT ![m] = Tail(@)]
             \/ \E p \in Packet : ClientPut(m, p)
  BY <1>1, <1>2, <1>3, <1>4, QuietSteps DEF ModuleThread, Quiet, Works
<1>5. ASSUME sdb_module_init \/ Observer PROVE UNCHANGED toSdb
  BY <1>5, QuietSteps DEF Quiet
<1> QED BY <1>4, <1>5 DEF Next, Daemon

\* Every packet on a socket was there before or has just been sent.
LEMMA SocketOrigin ==
    ASSUME IInv, Next, NEW k \in Slots, NEW i \in 1..Len(toSdb'[k])
    PROVE  \/ \E j \in 1..Len(toSdb[k]) : toSdb'[k][i] = toSdb[k][j]
           \/ ClientPut(k, toSdb'[k][i])
<1>0. toSdb \in [Slots -> Seq(Packet)] /\ \A m \in Slots : toSdb[m] \in Seq(Packet)
  BY DEF IInv, TypeOK
<1>1. CASE UNCHANGED toSdb
  BY <1>1
<1>2. ASSUME NEW m \in Slots, toSdb[m] # <<>>, toSdb' = [toSdb EXCEPT ![m] = Tail(@)]
      PROVE  \E j \in 1..Len(toSdb[k]) : toSdb'[k][i] = toSdb[k][j]
  <2>1. ASSUME NEW n \in 1..Len(Tail(toSdb[m]))
        PROVE  n + 1 \in 1..Len(toSdb[m]) /\ Tail(toSdb[m])[n] = toSdb[m][n + 1]
    BY <1>0, <1>2
  <2>2. CASE k = m
    BY <1>0, <1>2, <2>1, <2>2
  <2>3. CASE k # m
    BY <1>0, <1>2, <2>3
  <2> QED BY <2>2, <2>3
<1>3. ASSUME NEW m \in Slots, NEW p \in Packet, ClientPut(m, p)
      PROVE  \/ \E j \in 1..Len(toSdb[k]) : toSdb'[k][i] = toSdb[k][j]
             \/ ClientPut(k, toSdb'[k][i])
  <2>1. toSdb' = [toSdb EXCEPT ![m] = Append(@, p)]
    BY <1>3 DEF ClientPut
  <2>2. CASE k = m
    <3>1. toSdb'[k] = Append(toSdb[k], p)
      BY <1>0, <2>1, <2>2
    <3>2. (\E j \in 1..Len(toSdb[k]) : toSdb'[k][i] = toSdb[k][j]) \/ toSdb'[k][i] = p
      BY <1>0, <3>1
    <3> QED BY <1>3, <2>2, <3>2
  <2>3. CASE k # m
    BY <1>0, <2>1, <2>3
  <2> QED BY <2>2, <2>3
<1> QED BY <1>1, <1>2, <1>3, SocketMoves

LEMMA NoStopStep ==
    ASSUME IInv, NoStop, [Next]_vars, \A m \in Slots : "sdb_qos_stop" \notin AppCmd[m]
    PROVE  NoStop'
<1>1. CASE UNCHANGED vars
  BY <1>1 DEF NoStop, vars
<1>2. CASE Next
  <2> SUFFICES ASSUME NEW k \in Slots, NEW i \in 1..Len(toSdb'[k]), toSdb'[k][i].type = "req"
               PROVE  toSdb'[k][i].cmd # "sdb_qos_stop"
    BY DEF NoStop
  <2>1. CASE \E j \in 1..Len(toSdb[k]) : toSdb'[k][i] = toSdb[k][j]
    BY <2>1 DEF NoStop
  <2>2. CASE ClientPut(k, toSdb'[k][i])
    BY <2>2 DEF ClientPut
  <2> QED BY <1>2, <2>1, <2>2, SocketOrigin
<1> QED BY <1>1, <1>2

LEMMA NoBigStep ==
    ASSUME IInv, NoBig, [Next]_vars, "big" \notin AppFault
    PROVE  NoBig'
<1>1. CASE UNCHANGED vars
  BY <1>1 DEF NoBig, vars
<1>2. CASE Next
  <2> SUFFICES ASSUME NEW k \in Slots, NEW i \in 1..Len(toSdb'[k])
               PROVE  ~toSdb'[k][i].big
    BY DEF NoBig
  <2>1. CASE \E j \in 1..Len(toSdb[k]) : toSdb'[k][i] = toSdb[k][j]
    BY <2>1 DEF NoBig
  <2>2. CASE ClientPut(k, toSdb'[k][i])
    BY <2>2 DEF ClientPut
  <2> QED BY <1>2, <2>1, <2>2, SocketOrigin
<1> QED BY <1>1, <1>2

\* The first packet of a connection, good or not.
Handshakes(m) ==
    \/ handshake_error(m) \/ handshake_read(m) \/ handshake_name(m)
    \/ handshake_refuse(m) \/ handshake(m)

LEMMA HandshakeSenders ==
    ASSUME IInv, NEW m \in Slots, Handshakes(m)
    PROVE  SendersSame /\ OthersSame(m) /\ UNCHANGED <<hand, data, data_valid, queue, sent>>
<1>0. TypeOK /\ pc \in [Slots -> Place] /\ cur \in [Slots -> Local \cup {NULL}]
  BY DEF IInv, TypeOK
<1>1. /\ pc[m] \in {"handshake"} \cup Naming /\ UNCHANGED <<hand, data, queue, sent>>
      /\ \/ UNCHANGED data_valid
         \/ data_valid' = [data_valid EXCEPT ![m] = FALSE]
      /\ UNCHANGED cur \/ \E l : cur' = [cur EXCEPT ![m] = l]
      /\ \/ UNCHANGED pc
         \/ \E a \in {"dead", "naming", "group"} : pc' = [pc EXCEPT ![m] = a]
         \/ pc' = [Broadcast(pc, m) EXCEPT ![m] = "relock"]
  <2>1. CASE handshake_error(m)
    BY <2>1 DEF handshake_error, boxVars, appVars
  <2>2. CASE handshake_read(m)
    BY <2>2 DEF handshake_read, boxVars, appVars
  <2>3. CASE handshake_name(m)
    BY <2>3 DEF handshake_name, boxVars, appVars, Naming
  <2>4. CASE handshake_refuse(m)
    BY <2>4 DEF handshake_refuse, boxVars, appVars, Naming
  <2>5. CASE handshake(m)
    BY <2>5 DEF handshake, boxVars, appVars, Naming
  <2> QED BY <2>1, <2>2, <2>3, <2>4, <2>5 DEF Handshakes
<1>2. UNCHANGED data_valid
  <2>1. data_valid \in [Slots -> BOOLEAN] /\ data_valid[m] = FALSE
    BY <1>0, <1>1 DEF TypeOK, IInv, LockInv, Closed, Naming
  <2>2. [data_valid EXCEPT ![m] = FALSE] = data_valid
    BY <2>1
  <2> QED BY <1>1, <2>2
<1>3. \A s \in Slots \ {m} : cur'[s] = cur[s]
  BY <1>0, <1>1
<1>4. /\ pc'[m] \notin Sending
      /\ \A s \in Slots \ {m} : /\ pc'[s] \in Sending <=> pc[s] \in Sending
                                /\ pc'[s] \in Pending <=> pc[s] \in Pending
  <2>1. CASE UNCHANGED pc
    BY <1>1, <2>1 DEF Sending, Naming
  <2>2. ASSUME NEW a \in {"dead", "naming", "group"}, pc' = [pc EXCEPT ![m] = a]
        PROVE  pc'[m] \notin Sending /\ \A s \in Slots \ {m} : pc'[s] = pc[s]
    BY <1>0, <2>2 DEF Sending
  <2>3. CASE pc' = [Broadcast(pc, m) EXCEPT ![m] = "relock"]
    <3>1. \A s \in Slots : /\ Broadcast(pc, m)[s] \in Sending <=> pc[s] \in Sending
                           /\ Broadcast(pc, m)[s] \in Pending <=> pc[s] \in Pending
      BY <1>0, BroadcastEffect DEF Sending, Pending, Naming, Scanning
    <3>2. DOMAIN Broadcast(pc, m) = Slots
      BY DEF Broadcast
    <3>3. pc'[m] = "relock" /\ \A s \in Slots \ {m} : pc'[s] = Broadcast(pc, m)[s]
      BY <2>3, <3>2
    <3> QED BY <3>1, <3>3 DEF Sending
  <2> QED BY <1>1, <2>1, <2>2, <2>3
<1>5. pc[m] \notin Sending
  BY <1>1 DEF Sending, Naming
<1> QED BY <1>1, <1>2, <1>3, <1>4, <1>5 DEF SendersSame, OthersSame

\* The thread answers the packet p at once.
LEMMA Replies ==
    ASSUME IInv, TypeOK', LifeInv, NEW m \in Slots, NEW p \in Packet, p.type # "ans",
           Line[m] # <<>>, Head(Line[m]) = p, Line' = [Line EXCEPT ![m] = Tail(@)],
           NEW r \in Result, Write(m, <<Ans(p, r)>>),
           UNCHANGED <<hand, data, data_valid, queue, sent>>, SendersSame
    PROVE  LifeInv' /\ (KeptInv => KeptInv')
<1>1. Ans(p, r) \in Packet
  BY AnsPacket
<1>2. Told(m, Ans(p, r))
  BY <1>1, WriteTold DEF IInv
<1> QED BY <1>2, LifeReply

LEMMA LifeHandshake ==
    ASSUME IInv, TypeOK', LifeInv, NEW m \in Slots, Handshakes(m)
    PROVE  LifeInv' /\ (KeptInv => KeptInv')
<1>0. /\ SendersSame /\ OthersSame(m) /\ UNCHANGED <<hand, data, data_valid, queue, sent>>
      /\ TypeOK /\ pc \in [Slots -> Place] /\ cur \in [Slots -> Local \cup {NULL}]
  BY HandshakeSenders DEF IInv, TypeOK
<1>1. CASE handshake_error(m)
  <2>1. /\ pc[m] = "handshake" /\ pc' = [pc EXCEPT ![m] = "dead"]
    BY <1>1 DEF handshake_error
  <2>2. pc[m] \notin Pending /\ pc'[m] \notin Pending
    BY <1>0, <2>1 DEF Pending, Naming, Scanning
  <2>3. CASE UNCHANGED <<toSdb, toApp>>
    <3>1. UNCHANGED Line
      BY <1>0, <2>2, <2>3, LineSame
    <3> QED BY <1>0, <2>3, <3>1, LifeQuiet
  <2>4. CASE toSdb[m] # <<>> /\ toSdb' = [toSdb EXCEPT ![m] = Tail(@)]
             /\ \E r \in Result : Write(m, <<Ans(Head(toSdb[m]), r)>>)
    <3>1. Line[m] = toSdb[m] /\ Line' = [Line EXCEPT ![m] = Tail(@)]
      BY <1>0, <2>2, <2>4, LineRead
    <3>2. Head(toSdb[m]) \in Packet /\ Head(toSdb[m]).type # "ans"
      <4>1. toSdb[m] \in Seq(Packet)
        BY <1>0 DEF TypeOK
      <4>2. 1 \in 1..Len(toSdb[m]) /\ Head(toSdb[m]) = toSdb[m][1]
        BY <2>4, <4>1
      <4> QED BY <2>1, <4>1, <4>2 DEF IInv, FreshInv, Fresh
    <3> QED BY <1>0, <2>4, <3>1, <3>2, Replies
  <2> QED BY <1>1, <2>3, <2>4 DEF handshake_error, Result
<1>2. CASE handshake_read(m)
  <2>1. /\ pc[m] = "handshake" /\ pc' = [pc EXCEPT ![m] = "naming"]
        /\ toSdb[m] # <<>> /\ toSdb' = [toSdb EXCEPT ![m] = Tail(@)]
        /\ cur' = [cur EXCEPT ![m] = [pkt |-> Head(toSdb[m]), i |-> 0, list_num |-> 0]]
        /\ UNCHANGED toApp
    BY <1>2 DEF handshake_read
  <2>2. pc[m] \notin Pending /\ pc'[m] \in Pending /\ cur'[m].pkt = Head(toSdb[m])
    BY <1>0, <2>1 DEF Pending, Naming, Scanning
  <2>3. UNCHANGED Line
    BY <1>0, <2>1, <2>2, LineShift
  <2> QED BY <1>0, <2>1, <2>3, LifeQuiet
<1>3. CASE handshake_name(m)
  <2>1. /\ pc[m] = "naming" /\ UNCHANGED <<cur, toSdb, toApp>>
        /\ UNCHANGED pc \/ pc' = [pc EXCEPT ![m] = "group"]
    BY <1>3 DEF handshake_name
  <2>2. pc[m] \in Pending /\ pc'[m] \in Pending
    BY <1>0, <2>1 DEF Pending, Naming
  <2>3. UNCHANGED Line
    BY <1>0, <2>1, <2>2, LineSame
  <2> QED BY <1>0, <2>1, <2>3, LifeQuiet
<1>4. CASE handshake_refuse(m) \/ handshake(m)
  <2>1. /\ pc[m] = "group" /\ UNCHANGED toSdb
        /\ \/ pc' = [pc EXCEPT ![m] = "dead"]
           \/ pc' = [Broadcast(pc, m) EXCEPT ![m] = "relock"]
        /\ \E r \in Result : Write(m, <<Ans(cur[m].pkt, r)>>)
    BY <1>4 DEF handshake_refuse, handshake, Result
  <2>2. DOMAIN Broadcast(pc, m) = Slots
    BY DEF Broadcast
  <2>3. pc[m] \in Pending /\ pc'[m] \notin Pending
    BY <1>0, <2>1, <2>2 DEF Pending, Naming, Scanning
  <2>4. Line[m] # <<>> /\ Head(Line[m]) = cur[m].pkt /\ Line' = [Line EXCEPT ![m] = Tail(@)]
    BY <1>0, <2>1, <2>3, LineDone
  <2>5. cur[m].pkt \in Packet /\ cur[m].pkt.type # "ans"
    BY <2>3 DEF IInv, RouteInv, CurOK, Local, Pending
  <2> QED BY <1>0, <2>1, <2>4, <2>5, Replies
<1> QED BY <1>1, <1>2, <1>3, <1>4 DEF Handshakes

\* What the thread of m does with a packet of its client: it starts to send it,
\* goes on looking for its addressee, or is done with it.
LEMMA WorkSenders ==
    ASSUME IInv, NEW m \in Slots, Works(m)
    PROVE  /\ pc[m] \notin Sending /\ OthersSame(m)
           /\ UNCHANGED <<data, data_valid, sent>>
           /\ (UNCHANGED hand /\ SendersSame) \/ \E p \in Packet : Takes(m, p)
<1>0. TypeOK /\ pc \in [Slots -> Place] /\ cur \in [Slots -> Local \cup {NULL}]
  BY DEF IInv, TypeOK
<1>1. pc[m] \in {"loop"} \cup Scanning /\ UNCHANGED <<data, data_valid, sent>>
  BY WorkStep
<1>2. PICK p \in Packet : SocketEffect(m, p)
  BY WorkStep
<1>3. Outcome(m, p)
  BY <1>2 DEF SocketEffect
<1>4. pc[m] \notin Sending
  BY <1>1 DEF Sending, Scanning
<1>5. CASE UNCHANGED modVars
  BY <1>1, <1>4, <1>5 DEF modVars, OthersSame, SendersSame
<1>6. CASE Back(m)
  BY <1>0, <1>1, <1>4, <1>6 DEF Back, OthersSame, SendersSame, Sending
<1>7. CASE Looks(m, p)
  <2>1. PICK a \in Scanning, l \in Local : /\ pc' = [pc EXCEPT ![m] = a]
                                           /\ cur' = [cur EXCEPT ![m] = l]
                                           /\ UNCHANGED hand
    BY <1>7 DEF Looks
  <2> QED BY <1>0, <1>1, <1>4, <2>1 DEF OthersSame, SendersSame, Sending, Scanning
<1>8. CASE Forwarded(m, p)
  <2>1. PICK to \in Slots : /\ hand' = [hand EXCEPT ![m] = [pkt |-> p, to |-> to]]
                            /\ pc' = [pc EXCEPT ![m] = "lockTo"]
                            /\ cur' = [cur EXCEPT ![m] = NULL]
    BY <1>8 DEF Forwarded
  <2>2. OthersSame(m) /\ Takes(m, p)
    BY <1>0, <2>1 DEF OthersSame, Takes
  <2> QED BY <1>1, <1>4, <2>2
<1> QED BY <1>3, <1>5, <1>6, <1>7, <1>8 DEF Outcome

LEMMA LifeSocket ==
    ASSUME IInv, TypeOK', LifeInv, NoStop, NEW m \in Slots, process_pkt_socket(m)
    PROVE  LifeInv' /\ (KeptInv /\ NoBig => KeptInv')
<1> DEFINE p == Head(toSdb[m])
           Goal == LifeInv' /\ (KeptInv /\ NoBig => KeptInv')
<1>0. /\ TypeOK /\ pc[m] = "loop" /\ pc[m] \notin Sending /\ pc[m] \notin Pending
      /\ ~data_valid[m] /\ UNCHANGED <<data, data_valid, sent>>
      /\ toSdb[m] # <<>> /\ toSdb' = [toSdb EXCEPT ![m] = Tail(@)]
      /\ pc \in [Slots -> Place] /\ cur \in [Slots -> Local \cup {NULL}]
  BY DEF IInv, TypeOK, process_pkt_socket, boxVars, appVars, Sending, Pending, Naming, Scanning
<1>1. /\ p \in Packet /\ p.id \in Id
      /\ p.type = "req" => p.cmd # "sdb_qos_stop"
      /\ NoBig => ~p.big
  <2>1. toSdb[m] \in Seq(Packet)
    BY <1>0 DEF TypeOK
  <2>2. 1 \in 1..Len(toSdb[m]) /\ p = toSdb[m][1] /\ p \in Packet
    BY <1>0, <2>1
  <2> QED BY <2>2 DEF NoStop, NoBig, Packet
<1>2. OthersSame(m)
  BY WorkSenders DEF Works
<1>20. pc'[m] \notin Pending => Line[m] = toSdb[m] /\ Line' = [Line EXCEPT ![m] = Tail(@)]
  BY <1>0, <1>2, LineRead
<1>21. ASSUME Done(m) \/ UNCHANGED modVars
       PROVE  UNCHANGED hand /\ SendersSame /\ pc'[m] \notin Pending
  <2>1. UNCHANGED <<pc, hand>>
    BY <1>0, <1>21 DEF Done, modVars
  <2> QED BY <1>0, <2>1 DEF SendersSame
<1>22. ASSUME NEW q \in Packet, NEW to \in Slots, Send(m, q, to)
       PROVE  /\ pc'[m] \notin Pending
              /\ (UNCHANGED hand /\ SendersSame) \/ Takes(m, q)
              /\ ~q.big => Takes(m, q)
  <2>1. CASE q.big
    BY <1>21, <1>22, <2>1 DEF Send
  <2>2. CASE ~q.big
    <3>1. /\ hand' = [hand EXCEPT ![m] = [pkt |-> q, to |-> to]]
          /\ pc' = [pc EXCEPT ![m] = "lockTo"]
      BY <1>22, <2>2 DEF Send
    <3>2. pc'[m] \notin Pending
      BY <1>0, <3>1 DEF Pending, Naming, Scanning
    <3> QED BY <3>1, <3>2 DEF Takes
  <2> QED BY <2>1, <2>2
<1>3. \/ /\ p.type = "bad" /\ Write(m, <<Ans(p, "EBADFORMAT")>>)
         /\ UNCHANGED <<modVars, data_socket, queue, qos_enabled>>
      \/ p.type = "ans" /\ process_answer(m, p)
      \/ p.type = "req" /\ process_pkt_message(m, p)
      \/ p.type = "req" /\ Crash
      \/ p.type = "req" /\ process_pkt_payload(m, p)
  BY DEF process_pkt_socket
<1>4. ASSUME NEW r \in Result, Write(m, <<Ans(p, r)>>), p.type # "ans", UNCHANGED queue,
             Done(m) \/ UNCHANGED modVars
      PROVE  Goal
  <2>1. UNCHANGED hand /\ SendersSame /\ Line[m] = toSdb[m] /\ Line' = [Line EXCEPT ![m] = Tail(@)]
    BY <1>4, <1>20, <1>21
  <2> QED BY <1>0, <1>1, <1>4, <2>1, Replies
<1>5. ASSUME UNCHANGED <<queue, toApp>>, Done(m) \/ UNCHANGED modVars PROVE Goal
  <2>1. UNCHANGED hand /\ SendersSame /\ Line[m] = toSdb[m] /\ Line' = [Line EXCEPT ![m] = Tail(@)]
    BY <1>5, <1>20, <1>21
  <2> QED BY <1>0, <1>5, <2>1, LifeUnexpected
<1>7. ASSUME p.type = "ans", process_answer(m, p) PROVE Goal
  <2>1. CASE ~Expects(queue[m], p.id)
    BY <1>5, <1>7, <2>1 DEF process_answer
  <2>2. CASE Expects(queue[m], p.id)
    <3> DEFINE to == queue[m][Match(queue[m], p.id)].id_process
    <3>1. /\ queue' = [queue EXCEPT ![m] = Delete(@, Match(@, p.id))] /\ UNCHANGED toApp
          /\ Send(m, p, to)
      BY <1>7, <2>2 DEF process_answer
    <3>2. to \in Slots
      <4>1. queue[m] \in Seq(Elem)
        BY <1>0 DEF TypeOK
      <4>2. Match(queue[m], p.id) \in 1..Len(queue[m])
        BY <2>2, <4>1, MatchPlace, Zenon
      <4>3. queue[m][Match(queue[m], p.id)] \in Elem
        BY <4>1, <4>2
      <4> QED BY <4>3 DEF Elem
    <3> HIDE DEF p, to
    <3>3. /\ pc'[m] \notin Pending
          /\ (UNCHANGED hand /\ SendersSame) \/ Takes(m, p)
          /\ ~p.big => Takes(m, p)
      BY <1>1, <1>22, <3>1, <3>2
    <3>4. /\ Line[m] # <<>> /\ Head(Line[m]) = p /\ Line' = [Line EXCEPT ![m] = Tail(@)]
      BY <1>0, <1>20, <3>3 DEF p
    <3>5. LifeInv' /\ (KeptInv /\ Takes(m, p) => KeptInv')
      BY <1>0, <1>7, <2>2, <3>1, <3>3, <3>4, LifeAnswer
    <3> QED BY <1>1, <3>3, <3>5
  <2> QED BY <2>1, <2>2
<1>8. ASSUME p.type = "req", process_pkt_message(m, p) PROVE Goal
  <2>1. ASSUME Refuse(m, p, "EPERM") PROVE Goal
    <3>1. "EPERM" \in Result
      BY DEF Result
    <3> QED BY <1>4, <1>8, <2>1, <3>1 DEF Refuse
  <2>2. ASSUME process_sdb_message(m, p) PROVE Goal
    <3>1. PICK r \in Result : Write(m, <<Ans(p, r)>>)
      <4> HIDE DEF p
      <4> DEFINE d == IF qos_enabled[m] THEN "data" ELSE "EUNDEF"
      <4>1. d \in Result /\ "ok" \in Result /\ "EBADFORMAT" \in Result
        BY DEF Result
      <4>2. p.cmd # "sdb_qos_stop"
        BY <1>1, <1>8
      <4>3. \/ Write(m, <<Ans(p, "ok")>>) \/ Write(m, <<Ans(p, d)>>)
            \/ Write(m, <<Ans(p, "EBADFORMAT")>>)
        BY <2>2, <4>2 DEF process_sdb_message
      <4> HIDE DEF d
      <4> QED BY <4>1, <4>3
    <3> QED BY <1>4, <1>8, <2>2, <3>1 DEF process_sdb_message
  <2>3. ASSUME cur' = [cur EXCEPT ![m] = [pkt |-> p, i |-> 0, list_num |-> last]],
               pc' = [pc EXCEPT ![m] = "scan"], UNCHANGED <<hand, queue, toApp>>
        PROVE  Goal
    <3>1. cur'[m].pkt = p /\ pc'[m] \in Pending
      BY <1>0, <2>3 DEF Pending, Scanning
    <3>2. UNCHANGED Line
      BY <1>0, <1>2, <3>1, LineShift
    <3>3. SendersSame
      BY <1>0, <2>3 DEF SendersSame, Sending
    <3> QED BY <1>0, <2>3, <3>2, <3>3, LifeQuiet
  <2>4. \/ Refuse(m, p, "EPERM") \/ process_sdb_message(m, p)
        \/ /\ cur' = [cur EXCEPT ![m] = [pkt |-> p, i |-> 0, list_num |-> last]]
           /\ pc' = [pc EXCEPT ![m] = "scan"] /\ UNCHANGED <<hand, queue, toApp>>
    BY <1>8 DEF process_pkt_message
  <2> HIDE DEF p, Goal
  <2> QED BY <2>1, <2>2, <2>3, <2>4
<1>9. ASSUME p.type = "req", Crash PROVE Goal
  BY <1>5, <1>9 DEF Crash
<1>10. ASSUME p.type = "req", process_pkt_payload(m, p) PROVE Goal
  <2>1. /\ queue' = [queue EXCEPT ![m] = Push(@, sdb_packet(p.id, m))] /\ UNCHANGED toApp
        /\ Done(m)
    BY <1>10 DEF process_pkt_payload
  <2>2. UNCHANGED hand /\ SendersSame /\ Line[m] = toSdb[m] /\ Line' = [Line EXCEPT ![m] = Tail(@)]
    BY <2>1, <1>20, <1>21
  <2> QED BY <1>0, <1>10, <2>1, <2>2, LifeRequest
<1>11. ASSUME /\ p.type = "bad" /\ Write(m, <<Ans(p, "EBADFORMAT")>>)
              /\ UNCHANGED <<modVars, data_socket, queue, qos_enabled>>
       PROVE  Goal
  <2>1. "EBADFORMAT" \in Result /\ UNCHANGED queue /\ UNCHANGED modVars /\ p.type # "ans"
    BY <1>11 DEF Result
  <2> HIDE DEF p, Goal
  <2> QED BY <1>4, <1>11, <2>1
<1> HIDE DEF p
<1> QED BY <1>3, <1>7, <1>8, <1>9, <1>10, <1>11

\* The thread looks for the addressee of a request, and forwards or refuses it.
LEMMA LifeScan ==
    ASSUME IInv, TypeOK', LifeInv, NEW m \in Slots, scan_step(m) \/ forward(m)
    PROVE  LifeInv' /\ (KeptInv => KeptInv')
<1> DEFINE p == cur[m].pkt
           Goal == LifeInv' /\ (KeptInv => KeptInv')
<1>0. /\ TypeOK /\ pc[m] \in Scanning /\ pc[m] \in Pending /\ p \in Packet /\ p.type = "req"
      /\ UNCHANGED toSdb
      /\ pc \in [Slots -> Place] /\ cur \in [Slots -> Local \cup {NULL}]
  <2>1. pc[m] \in Scanning /\ UNCHANGED toSdb
    BY DEF scan_step, forward, Scanning
  <2> QED BY <2>1 DEF IInv, TypeOK, RouteInv, CurOK, Local, Pending
<1>1. OthersSame(m) /\ pc[m] \notin Sending /\ UNCHANGED <<data, data_valid, sent>>
  BY WorkSenders DEF Works
<1>2. pc'[m] \notin Pending =>
        Line[m] # <<>> /\ Head(Line[m]) = p /\ Line' = [Line EXCEPT ![m] = Tail(@)]
  BY <1>0, <1>1, LineDone
<1>3. ASSUME Done(m) PROVE UNCHANGED hand /\ SendersSame /\ pc'[m] \notin Pending
  <2>1. pc' = [pc EXCEPT ![m] = "loop"] /\ UNCHANGED hand
    BY <1>3 DEF Done
  <2> QED BY <1>0, <1>1, <2>1 DEF SendersSame, Sending, Pending, Naming, Scanning
<1>4. ASSUME NEW err \in Result, Refuse(m, p, err) PROVE Goal
  <2>1. Write(m, <<Ans(p, err)>>) /\ Done(m) /\ UNCHANGED queue
    BY <1>4 DEF Refuse
  <2> HIDE DEF p
  <2> QED BY <1>0, <1>1, <1>2, <1>3, <2>1, Replies
<1>5. ASSUME UNCHANGED <<hand, queue, toApp>>, UNCHANGED pc \/ pc' = [pc EXCEPT ![m] = "found"],
             cur'[m].pkt = p
      PROVE  Goal
  <2>1. pc'[m] \in Pending /\ SendersSame
    BY <1>0, <1>1, <1>5 DEF Pending, Scanning, SendersSame, Sending
  <2>2. UNCHANGED Line
    BY <1>0, <1>1, <1>5, <2>1, LineSame
  <2> QED BY <1>1, <1>5, <2>1, <2>2, LifeQuiet
<1>6. CASE scan_step(m)
  <2>1. CASE Refuse(m, p, "EBADMODID")
    <3>1. "EBADMODID" \in Result
      BY DEF Result
    <3> QED BY <1>4, <2>1, <3>1
  <2>2. CASE Crash
    BY <1>5, <2>2 DEF Crash, modVars
  <2>3. CASE /\ UNCHANGED <<hand, queue, toApp>>
             /\ \/ pc' = [pc EXCEPT ![m] = "found"] /\ UNCHANGED cur
                \/ cur' = [cur EXCEPT ![m].i = cur[m].i + 1] /\ UNCHANGED pc
    <3>1. cur'[m].pkt = p
      <4>1. cur[m] \in Local
        BY <1>0 DEF IInv, RouteInv, CurOK
      <4> QED BY <1>0, <2>3, <4>1 DEF Local
    <3> QED BY <1>5, <2>3, <3>1
  <2> QED BY <1>6, <2>1, <2>2, <2>3 DEF scan_step
<1>7. CASE forward(m)
  <2>1. CASE Refuse(m, p, "EPERM")
    <3>1. "EPERM" \in Result
      BY DEF Result
    <3> QED BY <1>4, <2>1, <3>1
  <2>2. CASE /\ queue' = [queue EXCEPT ![m] = Push(@, sdb_packet(p.id, m))]
             /\ Send(m, p, cur[m].i) /\ UNCHANGED toApp
    <3>1. cur[m].i \in Slots
      BY <1>7 DEF IInv, RouteInv, LooksAt, forward
    <3> HIDE DEF p
    <3>2. /\ pc'[m] \notin Pending
          /\ (UNCHANGED hand /\ SendersSame) \/ Takes(m, p)
      <4>1. CASE p.big
        BY <1>3, <2>2, <4>1 DEF Send
      <4>2. CASE ~p.big
        <5>1. /\ hand' = [hand EXCEPT ![m] = [pkt |-> p, to |-> cur[m].i]]
              /\ pc' = [pc EXCEPT ![m] = "lockTo"]
          BY <2>2, <4>2 DEF Send
        <5>2. pc'[m] \notin Pending
          BY <1>0, <5>1 DEF Pending, Naming, Scanning
        <5> QED BY <3>1, <5>1, <5>2 DEF Takes
      <4> QED BY <4>1, <4>2
    <3>3. Line[m] # <<>> /\ Head(Line[m]) = p /\ Line' = [Line EXCEPT ![m] = Tail(@)]
      BY <1>2, <3>2
    <3> QED BY <1>0, <1>1, <2>2, <3>2, <3>3, LifeRequest
  <2> QED BY <1>7, <2>1, <2>2 DEF forward
<1> QED BY <1>6, <1>7

LEMMA LifeMailbox ==
    ASSUME IInv, TypeOK', LifeInv, NEW m \in Slots, process_pkt_sdb(m)
    PROVE  LifeInv' /\ (KeptInv => KeptInv')
<1>0. /\ TypeOK /\ data[m] \in Mail /\ Empties(m)
  <2>1. /\ TypeOK /\ data[m] \in Mail /\ UNCHANGED <<pc, hand, cur, data, toSdb, sent>>
        /\ data_valid[m] /\ data_valid' = [data_valid EXCEPT ![m] = FALSE]
    BY DEF IInv, RouteInv, process_pkt_sdb, modVars, appVars
  <2> QED BY <2>1, LineStill DEF Empties
<1>1. data[m].pkt \in Packet /\ data[m].pkt.id \in Id /\ data[m].from \in Slots
  BY <1>0 DEF Mail, Packet
<1>2. CASE data[m].pkt.type = "ans"
  <2>1. \/ UNCHANGED <<queue, toApp>> /\ ~Expects(queue[m], data[m].pkt.id)
        \/ /\ Expects(queue[m], data[m].pkt.id) /\ Write(m, <<data[m].pkt>>)
           /\ queue' = [queue EXCEPT ![m] = Delete(@, Match(@, data[m].pkt.id))]
    BY <1>2 DEF process_pkt_sdb
  <2>2. Write(m, <<data[m].pkt>>) => Told(m, data[m].pkt)
    BY <1>0, <1>1, WriteTold
  <2> QED BY <1>0, <1>2, <2>1, <2>2, LifeDelivered
<1>3. CASE data[m].pkt.type = "req"
  <2>1. /\ Write(m, <<data[m].pkt>>)
        /\ queue' = [queue EXCEPT ![m] = Push(@, sdb_packet(data[m].pkt.id, data[m].from))]
    BY <1>3 DEF process_pkt_sdb
  <2>2. Told(m, data[m].pkt)
    BY <1>0, <1>1, <2>1, WriteTold
  <2> QED BY <1>0, <1>1, <1>3, <2>1, <2>2, LifeServed
<1> QED BY <1>2, <1>3 DEF process_pkt_sdb

LEMMA LifeStep ==
    ASSUME IInv, TypeOK', LifeInv, NoStop, Next
    PROVE  LifeInv' /\ (KeptInv /\ NoBig => KeptInv')
<1> DEFINE Goal == LifeInv' /\ (KeptInv /\ NoBig => KeptInv')
<1>0. TypeOK
  BY DEF IInv
<1>1. ASSUME \/ sdb_module_init \/ Observer
             \/ \E m \in Slots : \/ cond_wait(m) \/ relock(m) \/ spurious_wakeup(m)
                                 \/ read_timeout(m) \/ lock_to(m)
      PROVE  Goal
  BY <1>1, QuietSteps, LifeQuiet DEF Quiet
<1>2. ASSUME NEW m \in Slots, Client(m) PROVE Goal
  <2>1. UNCHANGED <<pc, hand, cur, data, data_valid, queue, toApp>>
    BY <1>0, <1>2, ClientPuts
  <2>2. CASE UNCHANGED <<toSdb, sent>>
    BY <2>1, <2>2, LineStill, LifeQuiet DEF SendersSame
  <2>3. ASSUME NEW p \in Packet, ClientPut(m, p) PROVE Goal
    <3>0. Line' = [Line EXCEPT ![m] = Append(@, p)]
      BY <2>1, <2>3, LinePut DEF ClientPut
    <3>1. CASE p.type # "ans"
      BY <2>1, <2>3, <3>0, <3>1, LifeSent DEF ClientPut
    <3>2. CASE p.type = "ans"
      BY <2>1, <2>3, <3>0, <3>2, LifeRepeated DEF ClientPut
    <3> QED BY <3>1, <3>2
  <2> QED BY <1>0, <1>2, <2>2, <2>3, ClientPuts
<1>3. ASSUME NEW m \in Slots,
             \/ Handshakes(m) \/ process_pkt_sdb(m) \/ process_pkt_socket(m)
             \/ scan_step(m) \/ forward(m) \/ sdb_module_write_mcs_packet(m)
      PROVE  Goal
  BY <1>3, LifeHandshake, LifeMailbox, LifeSocket, LifeScan, LifeMailed
<1> QED BY <1>1, <1>2, <1>3 DEF Next, Daemon, ModuleThread, Handshakes

\* A thread holds a packet only while it sends it.
LEMMA HandStep ==
    ASSUME IInv, HandInv, Next
    PROVE  HandInv'
<1>0. TypeOK /\ hand \in [Slots -> Hand \cup {NULL}]
      /\ pc \in [Slots -> Place]
  BY DEF IInv, TypeOK
<1>1. ASSUME UNCHANGED hand, SendersSame PROVE HandInv'
  BY <1>1 DEF HandInv, SendersSame
<1>2. ASSUME \/ sdb_module_init \/ Observer
             \/ \E m \in Slots : \/ cond_wait(m) \/ relock(m) \/ spurious_wakeup(m)
                                 \/ read_timeout(m) \/ lock_to(m)
      PROVE  HandInv'
  BY <1>1, <1>2, QuietSteps DEF Quiet
<1>3. ASSUME NEW m \in Slots, Client(m) PROVE HandInv'
  BY <1>0, <1>1, <1>3, ClientPuts DEF SendersSame
<1>4. ASSUME NEW m \in Slots, Handshakes(m) PROVE HandInv'
  BY <1>1, <1>4, HandshakeSenders
<1>5. ASSUME NEW m \in Slots, process_pkt_sdb(m) PROVE HandInv'
  BY <1>1, <1>5 DEF process_pkt_sdb, modVars, SendersSame
<1>6. ASSUME NEW m \in Slots, Works(m) PROVE HandInv'
  <2>1. (UNCHANGED hand /\ SendersSame) \/ \E p \in Packet : Takes(m, p)
    BY <1>6, WorkSenders
  <2>2. ASSUME NEW p \in Packet, Takes(m, p) PROVE HandInv'
    <3>1. pc'[m] = "lockTo" /\ \A s \in Slots : s # m => pc'[s] = pc[s] /\ hand'[s] = hand[s]
      BY <1>0, <2>2 DEF Takes
    <3> QED BY <3>1 DEF HandInv, Sending
  <2> QED BY <1>1, <2>1, <2>2
<1>7. ASSUME NEW m \in Slots, sdb_module_write_mcs_packet(m) PROVE HandInv'
  <2>1. /\ hand[m].to \in Slots /\ hand' = [hand EXCEPT ![m] = NULL]
        /\ pc' = [Broadcast(pc, hand[m].to) EXCEPT ![m] = "loop"]
    BY <1>7 DEF sdb_module_write_mcs_packet, IInv, LockInv, Sending, Hand
  <2> DEFINE to == hand[m].to
  <2>2. DOMAIN Broadcast(pc, to) = Slots
    BY DEF Broadcast
  <2>3. \A s \in Slots : Broadcast(pc, to)[s] \in Sending <=> pc[s] \in Sending
    BY <1>0, <2>1, BroadcastEffect DEF Sending
  <2>4. hand'[m] = NULL /\ \A s \in Slots : s # m => /\ hand'[s] = hand[s]
                                                     /\ pc'[s] = Broadcast(pc, to)[s]
    BY <1>0, <2>1, <2>2
  <2> QED BY <2>3, <2>4 DEF HandInv
<1> QED BY <1>2, <1>3, <1>4, <1>5, <1>6, <1>7 DEF Next, Daemon, ModuleThread, Handshakes, Works

LEMMA LifeStutter ==
    ASSUME IInv, IInv', UNCHANGED vars
    PROVE  /\ LifeInv => LifeInv'
           /\ LifeInv /\ KeptInv => KeptInv'
           /\ HandInv => HandInv'
<1>1. Quiet /\ TypeOK' /\ UNCHANGED <<pc, hand>>
  BY LineStill DEF vars, modVars, boxVars, appVars, Quiet, SendersSame, IInv
<1> QED BY <1>1, LifeQuiet DEF Quiet, HandInv

LEMMA LifeInit ==
    ASSUME Init
    PROVE  LifeInv /\ KeptInv /\ HandInv /\ NoStop /\ NoBig
<1>1. \A m \in Slots : /\ toSdb[m] = <<>> /\ toApp[m] = <<>> /\ queue[m] = <<>>
                       /\ pc[m] = "none" /\ ~data_valid[m] /\ hand[m] = NULL /\ sent[m] = 0
  BY DEF Init
<1>2. ASSUME NEW x \in Id PROVE LifeOf(x) /\ KeptOf(x)
  <2>1. x[1] \in Slots
    BY DEF Id
  <2>0. \A m \in Slots : Line[m] = <<>>
    BY <1>1 DEF Line, Pending, Naming, Scanning
  <2>2. /\ ~Unread(x) /\ ~UnreadTwice(x) /\ ~Answered(x) /\ ~AnsweredTwice(x)
    BY <1>1, <2>0, <2>1 DEF Unread, UnreadTwice, Answered, AnsweredTwice, In, TwoIn
  <2>3. \A s \in Slots : /\ ~InHand(s, x) /\ ~InBox(s, x) /\ ~Got(s, x)
                         /\ ~Owes(s, x) /\ ~OwesThrice(s, x)
    BY <1>1, <2>0 DEF InHand, InBox, Got, Received, Replied, Owes, OwesThrice, In, ThreeIn, Sending
  <2>4. \A s \in Slots : ~Serves(s, x) /\ ~Carries(s, x) /\ ~AskedBy(s, x)
    BY <2>3 DEF Serves, Carries, AskedBy
  <2>5. OneCarrier(x) /\ ~Seen(x)
    BY <2>1, <2>2, <2>3, <2>4 DEF OneCarrier, Seen
  <2> QED BY <2>1, <2>2, <2>3, <2>4, <2>5 DEF LifeOf, KeptOf
<1>3. HandInv /\ NoStop /\ NoBig
  BY <1>1 DEF HandInv, NoStop, NoBig
<1> QED BY <1>2, <1>3 DEF LifeInv, KeptInv

-----------------------------------------------------------------------------
(* The theorems about answers.                                             *)

\* A request is answered once, whatever the client that serves it sends: also to
\* a client that asks itself, closes, or sends packets that cannot be read.  The
\* one command that is answered twice is SDB_QOS_STOP, whose case has no break.
THEOREM OneAnswer ==
    ASSUME \A m \in Slots : "sdb_qos_stop" \notin AppCmd[m]
    PROVE  Spec => []AtMostOneAnswer
<1>1. Init => LifeInv /\ NoStop
  BY LifeInit
<1>2. IInv /\ IInv' /\ LifeInv /\ NoStop /\ [Next]_vars => LifeInv' /\ NoStop'
  <2> SUFFICES ASSUME IInv, IInv', LifeInv, NoStop, [Next]_vars PROVE LifeInv' /\ NoStop'
    OBVIOUS
  <2>1. NoStop'
    BY NoStopStep
  <2>2. CASE Next
    BY <2>1, <2>2, LifeStep DEF IInv
  <2>3. CASE UNCHANGED vars
    BY <2>1, <2>3, LifeStutter
  <2> QED BY <2>2, <2>3
<1>3. IInv /\ LifeInv => AtMostOneAnswer
  <2> SUFFICES ASSUME IInv, LifeInv, NEW m \in Slots,
                      NEW i \in 1..Len(toApp[m]), NEW j \in 1..Len(toApp[m]), i # j,
                      toApp[m][i].type = "ans", toApp[m][j].type = "ans",
                      toApp[m][i].id = toApp[m][j].id
               PROVE  FALSE
    BY DEF AtMostOneAnswer
  <2> DEFINE x == toApp[m][i].id
  <2>1. toApp[m] \in Seq(Packet)
    BY DEF IInv, TypeOK
  <2>2. toApp[m][i] \in Packet /\ toApp[m][j] \in Packet
    BY <2>1
  <2>3. x \in Id /\ x[1] = m
    BY <2>2 DEF Packet, IInv, RouteInv, ReceivedOK
  <2>4. toApp[m][i] \in AnswersOf(x) /\ toApp[m][j] \in AnswersOf(x)
    BY <2>2 DEF AnswersOf
  <2> HIDE DEF x
  <2>5. AnsweredTwice(x)
    BY <2>1, <2>3, <2>4 DEF AnsweredTwice, TwoIn
  <2> QED BY <2>3, <2>5 DEF LifeInv, LifeOf
<1> QED BY <1>1, <1>2, <1>3, Inductive, PTL DEF Spec

\* An answer on its way is expected where it goes to, so process_pkt_sdb drops
\* none.  No answer may be too long for a mailbox: one that is closes the entry of
\* the queue and is given up.
THEOREM AnswersExpected ==
    ASSUME \A m \in Slots : "sdb_qos_stop" \notin AppCmd[m], "big" \notin AppFault
    PROVE  Spec => []AnswerExpected
<1> DEFINE J == LifeInv /\ KeptInv /\ HandInv /\ NoStop /\ NoBig
<1>1. Init => J
  BY LifeInit
<1>2. IInv /\ IInv' /\ J /\ [Next]_vars => J'
  <2> SUFFICES ASSUME IInv, IInv', J, [Next]_vars PROVE J'
    OBVIOUS
  <2>1. NoStop' /\ NoBig'
    BY NoStopStep, NoBigStep
  <2>2. CASE Next
    BY <2>1, <2>2, LifeStep, HandStep DEF IInv
  <2>3. CASE UNCHANGED vars
    BY <2>1, <2>3, LifeStutter
  <2> QED BY <2>2, <2>3
<1>3. IInv /\ J => AnswerExpected
  <2> SUFFICES ASSUME IInv, J, NEW m \in Slots
               PROVE  /\ data_valid[m] => Expected(m, data[m].pkt)
                      /\ hand[m] # NULL => Expected(hand[m].to, hand[m].pkt)
    BY DEF AnswerExpected
  <2>0. TypeOK
    BY DEF IInv
  <2>1. ASSUME data_valid[m], data[m].pkt.type = "ans"
        PROVE  Expects(queue[m], data[m].pkt.id)
    <3> DEFINE x == data[m].pkt.id
    <3>1. data[m] \in Mail /\ OnWay(data[m].pkt, data[m].from, m)
      BY <2>1 DEF IInv, RouteInv
    <3>2. x \in Id /\ x[1] = m
      BY <2>1, <3>1 DEF Mail, Packet, OnWay
    <3>3. Carries(m, x)
      BY <2>1 DEF Carries, InBox
    <3> HIDE DEF x
    <3>4. Owes(m, x)
      BY <3>2, <3>3 DEF KeptInv, KeptOf
    <3> QED BY <2>0, <3>2, <3>4, ExpectsOwes DEF x
  <2>2. ASSUME hand[m] # NULL, hand[m].pkt.type = "ans"
        PROVE  Expects(queue[hand[m].to], hand[m].pkt.id)
    <3> DEFINE x == hand[m].pkt.id
               to == hand[m].to
    <3>1. pc[m] \in Sending /\ hand[m] \in Hand /\ OnWay(hand[m].pkt, m, to)
      BY <2>2 DEF IInv, RouteInv, LockInv, HandInv
    <3>2. x \in Id /\ x[1] = to /\ to \in Slots
      BY <2>2, <3>1 DEF Hand, Packet, OnWay
    <3>3. Carries(m, x)
      BY <3>1 DEF Carries, InHand
    <3> HIDE DEF x, to
    <3>4. Owes(to, x)
      BY <3>2, <3>3 DEF KeptInv, KeptOf
    <3>5. Expects(queue[to], x)
      BY <2>0, <3>2, <3>4, ExpectsOwes
    <3> QED BY <3>5 DEF x, to
  <2> QED BY <2>1, <2>2 DEF Expected
<1> QED BY <1>1, <1>2, <1>3, Inductive, PTL DEF Spec

=============================================================================
