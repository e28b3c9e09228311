-------------------------- MODULE SdbClient_proofs --------------------------
(***************************************************************************)
(* The inductive invariant of SdbClient and what follows from it, for any  *)
(* number of threads, elements and packets.  Ids are taken to be distinct: *)
(* with equal ones get_pending_packet_id finds the newer element.          *)
(***************************************************************************)
EXTENDS SdbClient, WellFoundedInduction, TLAPS

-----------------------------------------------------------------------------
(* The pending list.                                                       *)

\* A set of naturals that is not empty has a least element.
LEMMA LeastNumber ==
    ASSUME NEW T, T \subseteq Nat, T # {}
    PROVE  \E n \in T : \A k \in T : n <= k
<1>1. PICK n \in T : \A k \in T : ~ (<<k, n>> \in OpToRel(<, Nat))
  BY NatLessThanWellFounded, WFMin
<1>2. \A k \in T : ~ (k < n)
  BY <1>1 DEF OpToRel
<1> QED
  BY <1>2

\* get_pending_packet_id finds an element with the id, if there is one.
LEMMA FoundPending ==
    ASSUME NEW id, NEW n \in Nat, pending \in Seq(1..n), Holders(id) # {}
    PROVE  get_pending_packet_id(id) \in Holders(id)
<1>1. Holders(id) \subseteq Nat
  BY DEF Holders
<1>2. \E i \in Holders(id) : \A j \in Holders(id) : i <= j
  <2> HIDE DEF Holders
  <2> QED BY <1>1, LeastNumber
<1> QED
  BY <1>2 DEF get_pending_packet_id

\* get_callback_index finds an entry of the command, if there is one.
LEMMA FoundCallback ==
    ASSUME NEW c, TypeOK, Entries(c) # {}
    PROVE  get_callback_index(c) \in Entries(c)
<1>1. Entries(c) \subseteq Nat
  BY DEF Entries
<1>2. \E i \in Entries(c) : \A j \in Entries(c) : i <= j
  <2> HIDE DEF Entries
  <2> QED BY <1>1, LeastNumber
<1> QED
  BY <1>2 DEF get_callback_index

\* delete_pending_id takes one element with the id out of the list, and no
\* other.
LEMMA WithoutKeeps ==
    ASSUME NEW id, NEW n \in Nat, pending \in Seq(1..n)
    PROVE  /\ Without(id) \in Seq(1..n)
           /\ \A i \in 1..Len(pending) :
                pp[pending[i]].id # id =>
                    \E j \in 1..Len(Without(id)) : Without(id)[j] = pending[i]
<1>1. CASE Holders(id) = {}
  BY <1>1 DEF Without
<1>2. CASE Holders(id) # {}
  <2> DEFINE k == get_pending_packet_id(id)
             q == [i \in 1..(Len(pending) - 1) |->
                    IF i < k THEN pending[i] ELSE pending[i + 1]]
  <2>1. k \in 1..Len(pending) /\ pp[pending[k]].id = id
    BY <1>2, FoundPending DEF Holders
  <2>2. Without(id) = q
    BY <1>2 DEF Without
  <2> HIDE DEF k
  <2>3. /\ q \in Seq(1..n)
        /\ Len(q) = Len(pending) - 1
        /\ \A j \in 1..(k - 1) : q[j] = pending[j]
        /\ \A j \in k..(Len(pending) - 1) : q[j] = pending[j + 1]
    BY <2>1
  <2> HIDE DEF q
  <2>4. ASSUME NEW i \in 1..Len(pending), pp[pending[i]].id # id
        PROVE  \E j \in 1..Len(q) : q[j] = pending[i]
    <3>1. CASE i < k
      <4>1. i \in 1..(k - 1) /\ i \in 1..Len(q)
        BY <2>1, <2>3, <3>1
      <4> QED
        BY <2>3, <4>1
    <3>2. CASE i > k
      <4>1. i - 1 \in k..(Len(pending) - 1)
        BY <2>1, <3>2
      <4>2. q[i - 1] = pending[i]
        BY <2>3, <4>1
      <4>3. i - 1 \in 1..Len(q)
        BY <2>1, <2>3, <4>1
      <4> QED
        BY <4>2, <4>3
    <3> QED
      BY <2>1, <2>4, <3>1, <3>2
  <2> QED
    BY <2>2, <2>3, <2>4
<1> QED
  BY <1>1, <1>2

\* add_pending_id puts the new element into the list and loses no other.
LEMMA AddKeeps ==
    ASSUME NEW n \in Nat, pending \in Seq(1..n)
    PROVE  /\ <<n + 1>> \o pending \in Seq(1..(n + 1))
           /\ Len(<<n + 1>> \o pending) = Len(pending) + 1
           /\ (<<n + 1>> \o pending)[1] = n + 1
           /\ \A i \in 1..Len(pending) : (<<n + 1>> \o pending)[i + 1] = pending[i]
<1>1. pending \in Seq(1..(n + 1)) /\ <<n + 1>> \in Seq(1..(n + 1))
  OBVIOUS
<1> QED
  BY <1>1

-----------------------------------------------------------------------------
(* Types.                                                                  *)

\* Beginning and ending a call keeps the record of a thread a record.
LEMMA ThreadRecords ==
    ASSUME TypeOK
    PROVE  /\ \A t \in Threads, f \in Functions : Called(t, f) \in Thread
           /\ \A r \in Thread, v \in {-1, 0, 1} : Returned(r, v) \in Thread
<1>1. ASSUME NEW t \in Threads, NEW f \in Functions
      PROVE  Called(t, f) \in Thread
  <2>1. th[t] \in Thread
    BY DEF TypeOK
  <2>2. ASSUME NEW r \in Thread PROVE [r EXCEPT !.call = f, !.calls = r.calls + 1] \in Thread
    <3>1. r.calls + 1 \in Nat
      BY DEF Thread
    <3> QED BY <3>1 DEF Thread
  <2> QED
    BY <2>1, <2>2 DEF Called
<1>2. ASSUME NEW r \in Thread, NEW v \in {-1, 0, 1}
      PROVE  Returned(r, v) \in Thread
  BY DEF Thread, Returned
<1> QED
  BY <1>1, <1>2

\* What is written to the bus are packets, and nothing written before is lost.
LEMMA WriteType ==
    ASSUME TypeOK, NEW p \in Packet, Write(p)
    PROVE  /\ toBus' \in Seq(Packet)
           /\ Len(toBus) <= Len(toBus')
           /\ served \subseteq 1..Len(toBus')
           /\ toBus' = toBus \/ toBus' = Append(toBus, p)
  BY DEF TypeOK, Write

\* Answers and requests are packets.
LEMMA PacketType ==
    /\ \A p \in Packet, r \in {"ok", "err"} : Ans(p, r) \in Packet
    /\ \A by, id \in Int, c \in Cmds \cup {"handshake", "test"} : Req(by, id, c) \in Packet
  BY DEF Packet, Ans, Req

\* add_pending_id keeps the types and makes the element Len(pp) + 1.
LEMMA AddType ==
    ASSUME TypeOK, add_pending_id
    PROVE  /\ pp' \in Seq(Pending) /\ Len(pp') = Len(pp) + 1 /\ Len(pp') <= MaxElem
           /\ \A e \in 1..Len(pp) : pp'[e] = pp[e]
           /\ pp'[Len(pp) + 1].valid = FALSE
           /\ "collide" \notin Faults => pp'[Len(pp) + 1].id = Len(pp) + 1
           /\ pending' \in Seq(1..Len(pp'))
           /\ Len(pending') = Len(pending) + 1
           /\ pending'[1] = Len(pp) + 1
           /\ \A i \in 1..Len(pending) : pending'[i + 1] = pending[i]
           /\ pending_list_lock' = pending_list_lock
           /\ pkt_pending \in 0..Len(pp')
<1> USE ClientAssumption
<1>1. pp \in Seq(Pending) /\ Len(pp) \in Nat
  BY DEF TypeOK
<1>2. PICK id \in generate_id(Len(pp) + 1) :
        pp' = Append(pp, [id |-> id, valid |-> FALSE, pkt |-> NULL, lock |-> FALSE])
  BY DEF add_pending_id
<1> DEFINE x == [id |-> id, valid |-> FALSE, pkt |-> NULL, lock |-> FALSE]
<1>3. id \in Nat
  BY <1>1 DEF generate_id
<1>4. x \in Pending
  BY <1>3 DEF Pending
<1>5. /\ x.id = id /\ x.valid = FALSE
      /\ "collide" \notin Faults => x.id = Len(pp) + 1
  BY DEF generate_id
<1> HIDE DEF x
<1>6. /\ pp' \in Seq(Pending) /\ Len(pp') = Len(pp) + 1
      /\ \A e \in 1..Len(pp) : pp'[e] = pp[e]
      /\ pp'[Len(pp) + 1] = x
  BY <1>1, <1>2, <1>4 DEF x
<1>7. pending \in Seq(1..Len(pp)) /\ pending' = <<Len(pp) + 1>> \o pending
  BY DEF TypeOK, add_pending_id
<1>8. Len(pp) < MaxElem /\ pending_list_lock' = pending_list_lock
  BY DEF add_pending_id
<1>9. pkt_pending \in 0..Len(pp)
  BY DEF TypeOK
<1>10. /\ pending' \in Seq(1..(Len(pp) + 1))
       /\ Len(pending') = Len(pending) + 1
       /\ pending'[1] = Len(pp) + 1
       /\ \A i \in 1..Len(pending) : pending'[i + 1] = pending[i]
  BY <1>1, <1>7, AddKeeps
<1> QED
  BY <1>1, <1>5, <1>6, <1>8, <1>9, <1>10

\* delete_pending_id needs the lock of the list and takes out an element with the
\* id only.
LEMMA DeleteEffect ==
    ASSUME TypeOK, NEW id, delete_pending_id(id)
    PROVE  /\ pending' \in Seq(1..Len(pp))
           /\ ~pending_list_lock
           /\ \A i \in 1..Len(pending) :
                pp[pending[i]].id # id => \E j \in 1..Len(pending') : pending'[j] = pending[i]
<1>1. Len(pp) \in Nat /\ pending \in Seq(1..Len(pp))
  BY DEF TypeOK
<1>2. pending' = Without(id) /\ ~pending_list_lock
  BY DEF delete_pending_id
<1>3. /\ Without(id) \in Seq(1..Len(pp))
      /\ \A i \in 1..Len(pending) :
            pp[pending[i]].id # id => \E j \in 1..Len(Without(id)) : Without(id)[j] = pending[i]
  BY <1>1, WithoutKeeps
<1> QED
  BY <1>2, <1>3

\* A change of one field of an element keeps the others.
LEMMA ElemType ==
    ASSUME TypeOK, NEW e \in 1..Len(pp), NEW x \in Pending, pp' = [pp EXCEPT ![e] = x]
    PROVE  /\ pp' \in Seq(Pending) /\ Len(pp') = Len(pp)
           /\ pp'[e] = x
           /\ \A d \in 1..Len(pp) : d # e => pp'[d] = pp[d]
  BY DEF TypeOK

\* The elements a thread has to do with are elements.
LEMMA UsedElems ==
    ASSUME TypeOK, NoUseAfterFree
    PROVE  /\ reader = "ppLock" => pkt_pending \in 1..Len(pp)
           /\ \A t \in Threads :
                /\ th[t].pc \notin {"idle", "shake"} => th[t].elem \in 1..Len(pp)
                /\ th[t].handle # 0 => th[t].handle \in 1..Len(pp)
  BY SMTT(30) DEF TypeOK, NoUseAfterFree, InList

\* No thread uses the next element yet.
LEMMA NewElement ==
    ASSUME TypeOK, NoUseAfterFree, NEW t \in Threads
    PROVE  th[t].handle # Len(pp) + 1
<1>1. th[t].handle = 0 \/ th[t].handle \in 1..Len(pp)
  BY UsedElems
<1>2. Len(pp) \in Nat
  BY DEF TypeOK
<1> QED
  BY <1>1, <1>2

\* Beginning a call.
LEMMA BeginType ==
    ASSUME TypeOK, NoUseAfterFree, NEW t \in Threads, Begin(t)
    PROVE  TypeOK'
<1> USE ClientAssumption
<1>a. \A f \in Functions : Called(t, f) \in Thread
  BY ThreadRecords
<1>b. \A r \in Thread, v \in {-1, 0, 1} : Returned(r, v) \in Thread
  BY ThreadRecords
<1>c. \A r \in Thread : th' = [th EXCEPT ![t] = r] => th' \in [Threads -> Thread]
  BY DEF TypeOK
<1>1. CASE sdb_connect(t)
  <2>1. Called(t, "connect") \in Thread
    BY <1>a DEF Functions
  <2>2. [Called(t, "connect") EXCEPT !.pc = "shake"] \in Thread
    BY <2>1 DEF Thread
  <2>3. th' \in [Threads -> Thread]
    BY <1>1, <2>1, <2>2, <1>b, <1>c DEF sdb_connect
  <2> QED
    BY <1>1, <2>3 DEF sdb_connect, TypeOK, pendVars, cbVars, busVars
<1>2. CASE sdb_disconnect(t)
  <2>1. Called(t, "disconnect") \in Thread
    BY <1>a DEF Functions
  <2>2. th' \in [Threads -> Thread]
    BY <1>2, <2>1, <1>b, <1>c DEF sdb_disconnect
  <2> QED
    BY <1>2, <2>2 DEF sdb_disconnect, TypeOK, pendVars, cbVars, busVars, readerVars
<1>3. ASSUME add_pending_id, PendOnly, th' \in [Threads -> Thread]
      PROVE  TypeOK'
  BY <1>3, AddType, ZenonT(30) DEF PendOnly, TypeOK, cbVars, busVars, readerVars
<1>4. CASE sdb_send_sync(t)
  <2>1. Called(t, "sync") \in Thread /\ Len(pp) + 1 \in 0..MaxElem
    BY <1>a, <1>4 DEF Functions, sdb_send_sync, add_pending_id, TypeOK
  <2>2. [Called(t, "sync") EXCEPT !.pc = "send", !.elem = Len(pp) + 1] \in Thread
    BY <2>1 DEF Thread
  <2> QED
    BY <1>3, <1>4, <2>2, <1>c DEF sdb_send_sync
<1>5. CASE sdb_send_async(t)
  <2>1. Called(t, "async") \in Thread /\ Len(pp) + 1 \in 0..MaxElem
    BY <1>a, <1>5 DEF Functions, sdb_send_async, add_pending_id, TypeOK
  <2>2. [Called(t, "async") EXCEPT !.pc = "write", !.elem = Len(pp) + 1,
                                   !.handle = Len(pp) + 1] \in Thread
    BY <2>1 DEF Thread
  <2> QED
    BY <1>3, <1>5, <2>2, <1>c DEF sdb_send_async
<1>6. ASSUME ThreadOnly, th' \in [Threads -> Thread]
      PROVE  TypeOK'
  BY <1>6 DEF ThreadOnly, TypeOK, cbVars, busVars, readerVars, pendVars
<1>7. ASSUME NEW f \in Functions, th[t].handle # 0
      PROVE  Asked(t, f) \in Thread /\ pp[th[t].handle] \in Pending
  <2>1. th[t].handle \in 1..Len(pp) /\ th[t].handle \in 0..MaxElem
    BY <1>7, UsedElems DEF TypeOK, Thread
  <2>2. pp[th[t].handle] \in Pending
    BY <2>1 DEF TypeOK
  <2>3. pp[th[t].handle].pkt \in Packet \cup {NULL}
    BY <2>2 DEF Pending
  <2> QED
    BY <1>a, <2>1, <2>2, <2>3, ZenonT(30) DEF Asked, Thread
<1>8. CASE sdb_wait_async(t)
  <2>1. Asked(t, "wait") \in Thread
    BY <1>7, <1>8 DEF sdb_wait_async, Asks, Functions
  <2>2. [Asked(t, "wait") EXCEPT !.pc = "wait"] \in Thread
    BY <2>1 DEF Thread
  <2> QED
    BY <1>6, <1>8, <1>b, <1>c, <2>1, <2>2 DEF sdb_wait_async
<1>9. CASE sdb_check_async(t)
  <2>1. Asked(t, "check") \in Thread
    BY <1>7, <1>9 DEF sdb_check_async, Asks, Functions
  <2> QED
    BY <1>6, <1>9, <1>b, <1>c, <2>1 DEF sdb_check_async
<1>10. CASE sdb_pending_packet_free(t)
  <2>1. Called(t, "free") \in Thread
    BY <1>a DEF Functions
  <2>2. [Called(t, "free") EXCEPT !.handle = 0] \in Thread
    BY <2>1 DEF Thread
  <2>3. th' \in [Threads -> Thread]
    BY <1>10, <1>b, <1>c, <2>2 DEF sdb_pending_packet_free
  <2>4. pending' \in Seq(1..Len(pp))
    BY <1>10, DeleteEffect DEF sdb_pending_packet_free
  <2> QED
    BY <1>10, <2>3, <2>4
    DEF sdb_pending_packet_free, PendOnly, TypeOK, cbVars, busVars, readerVars
<1>11. ASSUME NEW c \in Cmds, NEW cb \in Callbacks \cup {NULL}, sdb_register_callback(t, c, cb)
       PROVE  TypeOK'
  <2>1. Called(t, "register") \in Thread
    BY <1>a DEF Functions
  <2>2. th' \in [Threads -> Thread]
    BY <1>11, <1>b, <1>c, <2>1 DEF sdb_register_callback
  <2>3. /\ callback_list' \in Seq(Entry) /\ callback_list_size' \in Nat
        /\ ListMin <= callback_list_size'
        /\ Len(callback_list') <= callback_list_size' /\ callback_list_lock' \in BOOLEAN
        /\ registered' \in [Cmds -> Callbacks \cup {NULL}]
    <3>1. /\ callback_list \in Seq(Entry) /\ callback_list_size \in Nat
          /\ ListMin <= callback_list_size
          /\ Len(callback_list) <= callback_list_size /\ callback_list_lock \in BOOLEAN
          /\ registered \in [Cmds -> Callbacks \cup {NULL}]
      BY DEF TypeOK
    <3>2. CASE UNCHANGED <<callback_list, callback_list_size, registered>>
      BY <1>11, <3>1, <3>2 DEF sdb_register_callback
    <3>3. CASE /\ cb \in Callbacks
               /\ callback_list_size' = Grown(callback_list_size)
               /\ callback_list' = Append(callback_list, [cmd |-> c, callback |-> cb])
               /\ registered' = [registered EXCEPT ![c] = cb]
               /\ UNCHANGED callback_list_lock
      <4> DEFINE x == [cmd |-> c, callback |-> cb]
      <4>1. x \in Entry
        BY <3>3 DEF Entry
      <4> HIDE DEF x
      <4>2. callback_list' \in Seq(Entry) /\ Len(callback_list') = Len(callback_list) + 1
        BY <3>1, <3>3, <4>1 DEF x
      <4>3. /\ callback_list_size' \in Nat /\ ListMin <= callback_list_size'
            /\ Len(callback_list) + 1 <= callback_list_size'
        BY <3>1, <3>3 DEF Grown
      <4> QED
        BY <3>1, <3>3, <4>2, <4>3
    <3> QED
      BY <1>11, <3>2, <3>3 DEF sdb_register_callback
  <2> QED
    BY <1>11, <2>2, <2>3 DEF sdb_register_callback, TypeOK, busVars, readerVars, pendVars
<1>12. ASSUME NEW c \in Cmds, sdb_unregister_callback(t, c)
       PROVE  TypeOK'
  <2>1. Called(t, "unregister") \in Thread
    BY <1>a DEF Functions
  <2>2. th' \in [Threads -> Thread]
    BY <1>12, <1>b, <1>c, <2>1 DEF sdb_unregister_callback
  <2>3. callback_list' \in Seq(Entry) /\ Len(callback_list') = Len(callback_list)
    <3>1. callback_list \in Seq(Entry)
      BY DEF TypeOK
    <3>2. \A i \in 1..Len(callback_list) : Shifted(c)[i] \in Entry
      BY <3>1 DEF Shifted
    <3> QED
      BY <1>12, <3>1, <3>2 DEF sdb_unregister_callback, Shifted
  <2>4. registered' \in [Cmds -> Callbacks \cup {NULL}]
    BY <1>12 DEF sdb_unregister_callback, TypeOK
  <2> QED
    BY <1>12, <2>2, <2>3, <2>4
    DEF sdb_unregister_callback, TypeOK, busVars, readerVars, pendVars
<1> QED
  BY <1>1, <1>2, <1>4, <1>5, <1>8, <1>9, <1>10, <1>11, <1>12 DEF Begin

\* A call goes on.
LEMMA ContinueType ==
    ASSUME TypeOK, NoUseAfterFree, NEW t \in Threads, Continue(t)
    PROVE  TypeOK'
<1> USE ClientAssumption
<1>a. th[t] \in Thread
  BY DEF TypeOK
<1>b. \A r \in Thread, v \in {-1, 0, 1} : Returned(r, v) \in Thread
  BY ThreadRecords
<1>c. \A r \in Thread : th' = [th EXCEPT ![t] = r] => th' \in [Threads -> Thread]
  BY DEF TypeOK
<1>d. th[t].pc \notin {"idle", "shake"} => /\ th[t].elem \in 1..Len(pp)
                                           /\ pp[th[t].elem] \in Pending
  BY UsedElems DEF TypeOK
<1>e. \A v \in {-1, 0, 1} : th' = [th EXCEPT ![t] = Returned(@, v)] => th' \in [Threads -> Thread]
  BY <1>a, <1>b, <1>c
<1>f. th[t].pc \notin {"idle", "shake"} => PacketOf(t) \in Packet
  <2>1. th[t].pc \notin {"idle", "shake"} => th[t].elem \in Int /\ pp[th[t].elem].id \in Int
    BY <1>d DEF Pending
  <2> QED
    BY <2>1, PacketType DEF PacketOf
<1>g. \A x \in {"idle", "shake", "send", "sent", "wait", "relock", "delete", "write"} :
        th' = [th EXCEPT ![t].pc = x] => th' \in [Threads -> Thread]
  <2> TAKE x \in {"idle", "shake", "send", "sent", "wait", "relock", "delete", "write"}
  <2>1. [th[t] EXCEPT !.pc = x] \in Thread
    BY <1>a DEF Thread
  <2> QED
    BY <1>c, <2>1
<1>1. CASE send_handshake(t)
  <2>1. Len(pp) + 1 \in 0..MaxElem
    BY <1>1 DEF send_handshake, add_pending_id, TypeOK
  <2>2. [th[t] EXCEPT !.pc = "send", !.elem = Len(pp) + 1] \in Thread
    BY <1>a, <2>1 DEF Thread
  <2>3. th' \in [Threads -> Thread]
    BY <1>1, <1>c, <2>2 DEF send_handshake, TypeOK
  <2> QED
    BY <1>1, <2>3, AddType DEF send_handshake, PendOnly, TypeOK, cbVars, busVars, readerVars
<1>2. CASE write_sync(t)
  <2>1. th' \in [Threads -> Thread]
    BY <1>2, <1>g DEF write_sync
  <2>2. [pp[th[t].elem] EXCEPT !.lock = TRUE] \in Pending
    BY <1>2, <1>d DEF write_sync, Pending
  <2>3. pp' \in Seq(Pending) /\ Len(pp') = Len(pp)
    BY <1>2, <1>d, <2>2, ElemType DEF write_sync
  <2>4. toBus' \in Seq(Packet) /\ served \subseteq 1..Len(toBus')
    BY <1>2, <1>f, WriteType DEF write_sync
  <2> QED
    BY <1>2, <2>1, <2>3, <2>4 DEF write_sync, TypeOK, cbVars, busVars, readerVars
<1>3. CASE write_sync_error(t)
  <2>1. th' \in [Threads -> Thread]
    BY <1>3, <1>e DEF write_sync_error, Handshaken
  <2> QED
    BY <1>3, <2>1
    DEF write_sync_error, Handshaken, TypeOK, cbVars, busVars, readerVars, pendVars
<1>4. CASE cond_wait(t)
  <2>1. th' \in [Threads -> Thread]
    BY <1>4, <1>g DEF cond_wait
  <2>2. [pp[th[t].elem] EXCEPT !.lock = FALSE] \in Pending
    BY <1>4, <1>d DEF cond_wait, Pending
  <2>3. pp' \in Seq(Pending) /\ Len(pp') = Len(pp)
    BY <1>4, <1>d, <2>2, ElemType DEF cond_wait
  <2> QED
    BY <1>4, <2>1, <2>3 DEF cond_wait, PendOnly, TypeOK, cbVars, busVars, readerVars
<1>5. CASE wake(t)
  <2> DEFINE r == [th[t] EXCEPT !.out = pp[th[t].elem].pkt]
  <2>1. pp[th[t].elem].pkt \in Packet \cup {NULL}
    BY <1>5, <1>d DEF wake, Pending
  <2>2. r \in Thread /\ [r EXCEPT !.pc = "delete"] \in Thread
    BY <1>a, <2>1 DEF Thread
  <2>3. th' \in [Threads -> Thread]
    BY <1>5, <1>b, <1>c, <2>2 DEF wake
  <2> QED
    BY <1>5, <2>3 DEF wake, ThreadOnly, TypeOK, cbVars, busVars, readerVars, pendVars
<1>6. CASE sync_delete(t)
  <2>1. th' \in [Threads -> Thread]
    BY <1>6, <1>e DEF sync_delete, Handshaken
  <2>2. pending' \in Seq(1..Len(pp))
    BY <1>6, DeleteEffect DEF sync_delete
  <2>3. up' \in BOOLEAN /\ socket_fd' \in {"none", "open", "closed"}
    BY <1>6 DEF sync_delete, Handshaken, TypeOK
  <2> QED
    BY <1>6, <2>1, <2>2, <2>3 DEF sync_delete, TypeOK, cbVars, busVars, readerVars
<1>7. CASE write_async(t)
  <2>1. th' \in [Threads -> Thread]
    BY <1>7, <1>e DEF write_async
  <2>2. toBus' \in Seq(Packet) /\ served \subseteq 1..Len(toBus')
    BY <1>7, <1>f, WriteType DEF write_async, TypeOK
  <2> QED
    BY <1>7, <2>1, <2>2 DEF write_async, TypeOK, cbVars, busVars, readerVars, pendVars
<1> QED
  BY <1>1, <1>2, <1>3, <1>4, <1>5, <1>6, <1>7 DEF Continue

\* The reader.
LEMMA ReaderType ==
    ASSUME TypeOK, NoUseAfterFree, Reader,
           reader \in {"req", "ans", "ppLock"} => pkt \in Packet
    PROVE  TypeOK'
<1> USE ClientAssumption
<1>a. reader \in {"req", "ans"} => Ans(pkt, "err") \in Packet
  BY PacketType
<1>1. CASE reader_select
  BY <1>1 DEF reader_select, TypeOK, pendVars, cbVars, busVars
<1>2. CASE reader_read
  <2>1. toApp \in Seq(Packet) /\ toApp # <<>>
    BY <1>2 DEF reader_read, TypeOK
  <2>2. Head(toApp) \in Packet /\ Tail(toApp) \in Seq(Packet)
    BY <2>1
  <2>3. Head(toApp).type \in {"req", "ans"}
    BY <2>2 DEF Packet
  <2>4. /\ pkt' \in Packet /\ toApp' \in Seq(Packet)
        /\ reader' \in {"req", "ans"}
    BY <1>2, <2>2, <2>3 DEF reader_read
  <2> QED
    BY <1>2, <2>4 DEF reader_read, TypeOK, pendVars, cbVars
<1>3. CASE reader_null
  BY <1>3 DEF reader_null, TypeOK, pendVars, cbVars, busVars, readerVars
<1>4. CASE reader_find
  <2>1. Len(pp) \in Nat /\ pending \in Seq(1..Len(pp))
    BY DEF TypeOK
  <2>2. ASSUME Holders(pkt.id) # {}
        PROVE  pending[get_pending_packet_id(pkt.id)] \in 1..Len(pp)
    <3>1. get_pending_packet_id(pkt.id) \in Holders(pkt.id)
      BY <2>1, <2>2, FoundPending
    <3>2. get_pending_packet_id(pkt.id) \in 1..Len(pending)
      BY <3>1 DEF Holders
    <3> QED
      BY <2>1, <3>2
  <2>3. pkt_pending' \in 0..Len(pp)
    BY <1>4, <2>1, <2>2 DEF reader_find, TypeOK
  <2>4. toBus' \in Seq(Packet) /\ served \subseteq 1..Len(toBus')
    <3>1. CASE UNCHANGED toBus
      BY <3>1 DEF TypeOK
    <3>2. CASE Unexpected
      BY <1>4, <3>2, <1>a, WriteType DEF Unexpected, reader_find
    <3> QED
      BY <1>4, <3>1, <3>2 DEF reader_find
  <2>5. reader' \in {"ppLock", "select"} /\ pending_list_lock' \in BOOLEAN
    BY <1>4 DEF reader_find, Unexpected, TypeOK
  <2> QED
    BY <1>4, <2>3, <2>4, <2>5 DEF reader_find, TypeOK, cbVars, busVars
<1>5. CASE reader_deliver
  <2>1. pkt_pending \in 1..Len(pp) /\ pkt \in Packet /\ pp[pkt_pending] \in Pending
    BY <1>5, UsedElems DEF reader_deliver, TypeOK
  <2>2. [pp[pkt_pending] EXCEPT !.pkt = pkt, !.valid = TRUE] \in Pending
    BY <2>1 DEF Pending
  <2>3. pp' \in Seq(Pending) /\ Len(pp') = Len(pp)
    <3>1. pp' = [pp EXCEPT ![pkt_pending] =
                    [pp[pkt_pending] EXCEPT !.pkt = pkt, !.valid = TRUE]]
      BY <1>5, <2>1 DEF reader_deliver, TypeOK
    <3> QED
      BY <2>1, <2>2, <3>1, ElemType
  <2>4. \A t \in Threads : th[t] \in Thread /\ [th[t] EXCEPT !.pc = "relock"] \in Thread
    <3> TAKE t \in Threads
    <3>1. th[t] \in Thread
      BY DEF TypeOK
    <3> QED
      BY <3>1 DEF Thread
  <2>5. th' \in [Threads -> Thread]
    BY <1>5, <2>4 DEF reader_deliver
  <2> QED
    BY <1>5, <2>3, <2>5 DEF reader_deliver, TypeOK, cbVars, busVars
<1>6. CASE reader_request
  <2>1. ASSUME Entries(pkt.cmd) # {}
        PROVE  callback_list[get_callback_index(pkt.cmd)].callback \in Callbacks
    <3>1. get_callback_index(pkt.cmd) \in Entries(pkt.cmd)
      BY <2>1, FoundCallback
    <3>2. get_callback_index(pkt.cmd) \in 1..Len(callback_list)
      BY <3>1 DEF Entries
    <3>3. callback_list[get_callback_index(pkt.cmd)] \in Entry
      BY <3>2 DEF TypeOK
    <3> QED
      BY <3>3 DEF Entry
  <2>2. running' \subseteq [pkt : Packet, callback : Callbacks]
    BY <1>6, <2>1 DEF reader_request, TypeOK
  <2>3. toBus' \in Seq(Packet) /\ served \subseteq 1..Len(toBus')
    <3>1. CASE UNCHANGED toBus
      BY <3>1 DEF TypeOK
    <3>2. CASE Unexpected
      BY <1>6, <3>2, <1>a, WriteType DEF Unexpected, reader_request
    <3> QED
      BY <1>6, <3>1, <3>2 DEF reader_request
  <2>4. reader' = "select"
    BY <1>6 DEF reader_request, Unexpected
  <2> QED
    BY <1>6, <2>2, <2>3, <2>4 DEF reader_request, TypeOK, pendVars, busVars
<1> QED
  BY <1>1, <1>2, <1>3, <1>4, <1>5, <1>6 DEF Reader

\* The bus, the callback threads and the end of the process.
LEMMA OthersType ==
    ASSUME TypeOK, Bus \/ Callback \/ sigpipe
    PROVE  TypeOK'
<1> USE ClientAssumption
<1>1. ASSUME NEW p \in Packet, BusPut(p)
      PROVE  toApp' \in Seq(Packet)
  BY <1>1 DEF BusPut, TypeOK
<1>2. ASSUME NEW i \in 1..Len(toBus), NEW result \in {"ok", "err"}
      PROVE  Ans(toBus[i], result) \in Packet
  BY PacketType DEF TypeOK
<1>3. ASSUME NEW i \in 1..Len(toBus), NEW result \in {"ok", "err"}, bus_answer(i, result)
      PROVE  TypeOK'
  <2>1. toApp' \in Seq(Packet)
    BY <1>1, <1>2, <1>3 DEF bus_answer
  <2> QED
    BY <1>3, <2>1 DEF bus_answer, BusPut, TypeOK, readerVars, pendVars, cbVars
<1>4. ASSUME NEW i \in 1..Len(toBus), bus_answer_again(i)
      PROVE  TypeOK'
  <2>1. toApp' \in Seq(Packet)
    BY <1>1, <1>2, <1>4 DEF bus_answer_again
  <2> QED
    BY <1>4, <2>1 DEF bus_answer_again, BusPut, TypeOK, readerVars, pendVars, cbVars
<1>5. ASSUME NEW c \in Cmds, bus_request(c)
      PROVE  TypeOK'
  <2>1. -(busSent + 1) \in Int
    BY DEF TypeOK
  <2>2. Req(-(busSent + 1), -(busSent + 1), c) \in Packet
    BY <2>1, PacketType
  <2>3. toApp' \in Seq(Packet)
    BY <1>1, <1>5, <2>2 DEF bus_request
  <2> QED
    BY <1>5, <2>3 DEF bus_request, BusPut, TypeOK, readerVars, pendVars, cbVars
<1>6. CASE bus_close \/ sigpipe
  BY <1>6 DEF bus_close, sigpipe, TypeOK, readerVars, pendVars, cbVars, busVars
<1>7. ASSUME NEW r \in running, sdb_thread_run_callback(r)
      PROVE  TypeOK'
  <2>1. r.pkt \in Packet
    BY DEF TypeOK
  <2>2. Ans(r.pkt, "ok") \in Packet
    BY <2>1, PacketType
  <2>3. toBus' \in Seq(Packet) /\ served \subseteq 1..Len(toBus')
    BY <1>7, <2>2, WriteType DEF sdb_thread_run_callback
  <2> QED
    BY <1>7, <2>3 DEF sdb_thread_run_callback, TypeOK, readerVars, pendVars, busVars
<1> QED
  BY <1>3, <1>4, <1>5, <1>6, <1>7 DEF Bus, Callback

\* Every step keeps the types.
LEMMA TypeStep ==
    ASSUME TypeOK, NoUseAfterFree, [Next]_vars,
           reader \in {"req", "ans", "ppLock"} => pkt \in Packet
    PROVE  TypeOK'
<1>1. ASSUME NEW t \in Threads, spurious_wakeup(t)
      PROVE  TypeOK'
  <2>1. [th[t] EXCEPT !.pc = "relock"] \in Thread
    BY ZenonT(30) DEF TypeOK, Thread
  <2>2. th' \in [Threads -> Thread]
    BY <1>1, <2>1 DEF spurious_wakeup, TypeOK
  <2> QED
    BY <1>1, <2>2
    DEF spurious_wakeup, ThreadOnly, TypeOK, readerVars, pendVars, cbVars, busVars
<1>2. CASE UNCHANGED vars
  BY <1>2 DEF vars, TypeOK, readerVars, pendVars, cbVars, busVars
<1> QED
  BY <1>1, <1>2, BeginType, ContinueType, ReaderType, OthersType DEF Next

-----------------------------------------------------------------------------
(* The inductive invariant.                                                *)

\* A thread with record r uses element e.
Uses(r, e) ==
    \/ r.pc \notin {"idle", "shake"} /\ r.elem = e
    \/ r.handle = e /\ e # 0

\* The element of a synchronous call is not the pending packet of the thread.
OfSync(r) ==
    /\ r.pc \in {"shake", "send", "sent", "delete"} => r.call \in {"sync", "connect"}
    /\ r.pc \in {"wait", "relock"} => r.call \in {"sync", "connect", "wait"}
    /\ r.pc \notin {"idle", "shake"} /\ r.call \in {"sync", "connect"} => r.elem # r.handle

\* The reader holds the lock of the list while it has an element of it in hand;
\* each thread uses elements in the list that no other thread uses.
OwnInv ==
    /\ reader = "ppLock" => pending_list_lock /\ InList(pkt_pending)
    /\ \A t \in Threads, e \in Nat : Uses(th[t], e) => InList(e)
    /\ \A t, u \in Threads, e \in Nat : Uses(th[t], e) /\ Uses(th[u], e) => t = u
    /\ \A t \in Threads : OfSync(th[t])

\* A packet whose id is that of the element or packet it is about.
Matched(p) == p.id = p.by

\* An id stands for one element, in the list and in every packet on its way.
IdInv ==
    /\ \A e \in 1..Len(pp) : pp[e].id = e
    /\ \A i \in 1..Len(toBus) : Matched(toBus[i])
    /\ \A i \in 1..Len(toApp) : Matched(toApp[i])
    /\ \A r \in running : Matched(r.pkt)
    /\ reader \in {"req", "ans", "ppLock"} => pkt \in Packet /\ Matched(pkt)
    /\ reader = "ppLock" => pkt_pending = pkt.id
    /\ AnswerOwn

IInv == TypeOK /\ OwnInv /\ IdInv

\* NoUseAfterFree is part of the invariant.
LEMMA OwnImplies ==
    ASSUME TypeOK, OwnInv
    PROVE  NoUseAfterFree
<1>1. \A t \in Threads : th[t].elem \in Nat /\ th[t].handle \in Nat
  BY ClientAssumption, SMTT(30) DEF TypeOK, Thread
<1> QED
  BY <1>1 DEF OwnInv, NoUseAfterFree, Uses

\* What beginning and ending a call does to the record of a thread.
LEMMA RecordFields ==
    ASSUME TypeOK, NEW t \in Threads
    PROVE  /\ \A f : /\ Called(t, f).pc = th[t].pc /\ Called(t, f).call = f
                     /\ Called(t, f).elem = th[t].elem /\ Called(t, f).handle = th[t].handle
                     /\ Called(t, f).out = th[t].out
           /\ \A r \in Thread : \A v : /\ Returned(r, v).pc = "idle"
                                      /\ Returned(r, v).call = r.call
                                      /\ Returned(r, v).elem = r.elem
                                      /\ Returned(r, v).handle = r.handle
                                      /\ Returned(r, v).out = r.out
<1>1. th[t] \in Thread
  BY DEF TypeOK
<1> QED
  BY <1>1 DEF Thread, Called, Returned

-----------------------------------------------------------------------------
(* Elements have owners.                                                   *)

\* A step that leaves the list alone and gives no thread a new element.
LEMMA OwnKept ==
    ASSUME OwnInv, pending' = pending,
           \A u \in Threads, e \in Nat : Uses(th'[u], e) => Uses(th[u], e),
           \A u \in Threads : OfSync(th'[u]),
           reader' = "ppLock" => pending_list_lock' /\ InList(pkt_pending')
    PROVE  OwnInv'
<1>1. \A e : InList(e)' = InList(e)
  BY DEF InList
<1> QED
  BY <1>1 DEF OwnInv, InList

\* The same for a step of one thread.
LEMMA OwnKeptBy ==
    ASSUME TypeOK, OwnInv, NEW t \in Threads, NEW r, th' = [th EXCEPT ![t] = r],
           UNCHANGED <<pending, pending_list_lock, pkt_pending>>,
           reader' = "ppLock" => reader = "ppLock",
           \A e \in Nat : Uses(r, e) => Uses(th[t], e),
           OfSync(r)
    PROVE  OwnInv'
<1>1. th'[t] = r /\ \A u \in Threads : u # t => th'[u] = th[u]
  BY DEF TypeOK
<1>2. \A u \in Threads, e \in Nat : Uses(th'[u], e) => Uses(th[u], e)
  BY <1>1
<1>3. \A u \in Threads : OfSync(th'[u])
  BY <1>1 DEF OwnInv
<1>4. reader' = "ppLock" => pending_list_lock' /\ InList(pkt_pending')
  BY DEF OwnInv
<1> QED
  BY <1>2, <1>3, <1>4, OwnKept

\* A step of one thread that makes an element.
LEMMA OwnAdd ==
    ASSUME TypeOK, OwnInv, NEW t \in Threads, NEW r, th' = [th EXCEPT ![t] = r],
           add_pending_id, UNCHANGED <<reader, pkt_pending>>,
           \A e \in Nat : Uses(r, e) => Uses(th[t], e) \/ e = Len(pp) + 1,
           OfSync(r)
    PROVE  OwnInv'
<1>1. th'[t] = r /\ \A u \in Threads : u # t => th'[u] = th[u]
  BY DEF TypeOK
<1>a. /\ Len(pending') = Len(pending) + 1
      /\ pending'[1] = Len(pp) + 1
      /\ \A i \in 1..Len(pending) : pending'[i + 1] = pending[i]
  BY AddType
<1>b. Len(pending) \in Nat
  BY DEF TypeOK
<1>2. \A e : InList(e) => InList(e)'
  <2> TAKE e
  <2> HAVE InList(e)
  <2>1. PICK i \in 1..Len(pending) : pending[i] = e
    BY DEF InList
  <2>2. i + 1 \in 1..Len(pending') /\ pending'[i + 1] = e
    BY <1>a, <1>b, <2>1
  <2> QED
    BY <2>2 DEF InList
<1>3. \A e : e = Len(pp) + 1 => InList(e)'
  BY <1>a, <1>b DEF InList
<1>4. \A e : InList(e) => e # Len(pp) + 1
  BY DEF InList, TypeOK
<1>5. pending_list_lock' = pending_list_lock
  BY DEF add_pending_id
<1>6. (\A u \in Threads, e \in Nat : Uses(th[u], e) => InList(e))'
  BY <1>1, <1>2, <1>3 DEF OwnInv
<1>7. \A u, w \in Threads, e \in Nat : Uses(th'[u], e) /\ Uses(th'[w], e) => u = w
  BY <1>1, <1>4 DEF OwnInv
<1>8. \A u \in Threads : OfSync(th'[u])
  BY <1>1 DEF OwnInv
<1>9. (reader = "ppLock" => pending_list_lock /\ InList(pkt_pending))'
  BY <1>2, <1>5 DEF OwnInv
<1> QED
  BY <1>6, <1>7, <1>8, <1>9 DEF OwnInv

\* A step of one thread that deletes an element it has used.
LEMMA OwnDelete ==
    ASSUME TypeOK, OwnInv, NEW t \in Threads, NEW r, th' = [th EXCEPT ![t] = r],
           \A e \in 1..Len(pp) : pp[e].id = e,
           NEW d \in Nat, Uses(th[t], d), delete_pending_id(pp[d].id),
           UNCHANGED <<reader, pkt_pending, pending_list_lock>>,
           \A e \in Nat : Uses(r, e) => Uses(th[t], e) /\ e # d,
           OfSync(r)
    PROVE  OwnInv'
<1>1. th'[t] = r /\ \A u \in Threads : u # t => th'[u] = th[u]
  BY DEF TypeOK
<1>2. InList(d) /\ d \in 1..Len(pp)
  BY DEF OwnInv, InList, TypeOK
<1>3. \A e : InList(e) /\ e # d => InList(e)'
  <2> TAKE e
  <2> HAVE InList(e) /\ e # d
  <2>1. PICK i \in 1..Len(pending) : pending[i] = e
    BY DEF InList
  <2>2. pending[i] \in 1..Len(pp)
    BY DEF TypeOK
  <2>3. pp[pending[i]].id # pp[d].id
    BY <1>2, <2>1, <2>2
  <2> QED
    BY <2>1, <2>3, DeleteEffect DEF InList
<1>4. \A u \in Threads : u # t => ~Uses(th[u], d)
  BY DEF OwnInv
<1>5. (\A u \in Threads, e \in Nat : Uses(th[u], e) => InList(e))'
  BY <1>1, <1>3, <1>4 DEF OwnInv
<1>6. \A u, w \in Threads, e \in Nat : Uses(th'[u], e) /\ Uses(th'[w], e) => u = w
  BY <1>1 DEF OwnInv
<1>7. \A u \in Threads : OfSync(th'[u])
  BY <1>1 DEF OwnInv
<1>8. reader' # "ppLock"
  BY DEF OwnInv, delete_pending_id
<1> QED
  BY <1>5, <1>6, <1>7, <1>8 DEF OwnInv

\* A thread that returns uses its pending packet only.
LEMMA ReturnedUses ==
    ASSUME TypeOK, NEW t \in Threads, NEW r \in Thread, NEW v, r.handle \in {0, th[t].handle}
    PROVE  /\ OfSync(Returned(r, v))
           /\ \A e \in Nat : Uses(Returned(r, v), e) => r.handle = e /\ Uses(th[t], e)
  BY RecordFields DEF OfSync, Uses

\* Beginning a call.
LEMMA BeginOwn ==
    ASSUME IInv, NEW t \in Threads, Begin(t)
    PROVE  OwnInv'
<1> USE ClientAssumption
<1>a. TypeOK /\ OwnInv /\ NoUseAfterFree
  BY OwnImplies DEF IInv
<1>b. ASSUME NEW f \in Functions
      PROVE  /\ Called(t, f) \in Thread
             /\ Called(t, f).pc = th[t].pc /\ Called(t, f).call = f
             /\ Called(t, f).handle = th[t].handle
  BY <1>a, ThreadRecords, RecordFields
<1>c. ASSUME NEW f \in Functions, NEW v, th' = [th EXCEPT ![t] = Returned(Called(t, f), v)],
             UNCHANGED <<pending, pending_list_lock, pkt_pending>>,
             reader' = "ppLock" => reader = "ppLock"
      PROVE  OwnInv'
  <2>1. /\ OfSync(Returned(Called(t, f), v))
        /\ \A e \in Nat : Uses(Returned(Called(t, f), v), e) => Uses(th[t], e)
    BY <1>a, <1>b, ReturnedUses
  <2> QED
    BY <1>a, <1>c, <2>1, OwnKeptBy
<1>d. \A u \in Threads : th[u].handle # Len(pp) + 1
  BY <1>a, NewElement
<1>1. CASE sdb_connect(t)
  <2> DEFINE r == [Called(t, "connect") EXCEPT !.pc = "shake"]
  <2>1. "connect" \in Functions
    BY DEF Functions
  <2>2. OfSync(r) /\ \A e \in Nat : Uses(r, e) => Uses(th[t], e)
    BY <1>b, <2>1 DEF Thread, OfSync, Uses
  <2>3. UNCHANGED <<pending, pending_list_lock, pkt_pending>>
    BY <1>1 DEF sdb_connect, pendVars
  <2>4. reader' = "ppLock" => reader = "ppLock"
    BY <1>1 DEF sdb_connect
  <2>5. CASE th' = [th EXCEPT ![t] = r]
    <3> HIDE DEF r
    <3> QED
      BY <1>a, <2>2, <2>3, <2>4, <2>5, OwnKeptBy
  <2> QED
    BY <1>1, <1>c, <2>1, <2>3, <2>4, <2>5 DEF sdb_connect
<1>2. CASE sdb_disconnect(t)
  BY <1>2, <1>c DEF sdb_disconnect, pendVars, readerVars, Functions
<1>4. CASE sdb_send_sync(t)
  <2> DEFINE r == [Called(t, "sync") EXCEPT !.pc = "send", !.elem = Len(pp) + 1]
  <2>1. /\ Called(t, "sync") \in Thread /\ Called(t, "sync").call = "sync"
        /\ Called(t, "sync").handle = th[t].handle
    BY <1>b DEF Functions
  <2>2. /\ r.pc = "send" /\ r.call = "sync" /\ r.elem = Len(pp) + 1
        /\ r.handle = th[t].handle
    BY <2>1 DEF Thread
  <2>3. /\ th' = [th EXCEPT ![t] = r]
        /\ add_pending_id /\ UNCHANGED <<reader, pkt_pending>>
    BY <1>4 DEF sdb_send_sync, PendOnly, readerVars
  <2> HIDE DEF r
  <2>4. /\ OfSync(r)
        /\ \A e \in Nat : Uses(r, e) => Uses(th[t], e) \/ e = Len(pp) + 1
    BY <1>d, <2>2 DEF OfSync, Uses
  <2> QED
    BY <1>a, <2>3, <2>4, OwnAdd
<1>5. CASE sdb_send_async(t)
  <2> DEFINE r == [Called(t, "async") EXCEPT !.pc = "write", !.elem = Len(pp) + 1,
                                             !.handle = Len(pp) + 1]
  <2>1. "async" \in Functions /\ Called(t, "async") \in Thread /\ Called(t, "async").call = "async"
    BY <1>b DEF Functions
  <2>2. r.pc = "write" /\ r.call = "async" /\ r.elem = Len(pp) + 1 /\ r.handle = Len(pp) + 1
    BY <2>1 DEF Thread
  <2>3. /\ th' = [th EXCEPT ![t] = r]
        /\ add_pending_id /\ UNCHANGED <<reader, pkt_pending>>
    BY <1>5 DEF sdb_send_async, PendOnly, readerVars
  <2> HIDE DEF r
  <2>4. /\ OfSync(r)
        /\ \A e \in Nat : Uses(r, e) => e = Len(pp) + 1
    BY <2>2 DEF OfSync, Uses
  <2> QED
    BY <1>a, <2>3, <2>4, OwnAdd
<1>6. ASSUME ThreadOnly
      PROVE  UNCHANGED <<pending, pending_list_lock, pkt_pending, reader>>
  BY <1>6 DEF ThreadOnly, pendVars, readerVars
<1>7. ASSUME NEW f \in Functions, th[t].handle # 0
      PROVE  /\ Asked(t, f) \in Thread
             /\ Asked(t, f).handle = th[t].handle /\ Asked(t, f).elem = th[t].handle
             /\ Asked(t, f).call = f
  <2>1. th[t].handle \in 1..Len(pp) /\ th[t].handle \in 0..MaxElem
    BY <1>a, <1>7, UsedElems DEF TypeOK, Thread
  <2>2. pp[th[t].handle] \in Pending
    BY <1>a, <2>1 DEF TypeOK
  <2>3. pp[th[t].handle].pkt \in Packet \cup {NULL}
    BY <2>2 DEF Pending
  <2>4. Called(t, f) \in Thread /\ Called(t, f).call = f /\ Called(t, f).handle = th[t].handle
    BY <1>b, <1>7
  <2> QED
    BY <2>1, <2>3, <2>4 DEF Asked, Thread
<1>8. ASSUME NEW f \in Functions, NEW v, th[t].handle # 0, ThreadOnly,
             th' = [th EXCEPT ![t] = Returned(Asked(t, f), v)]
      PROVE  OwnInv'
  <2>1. /\ OfSync(Returned(Asked(t, f), v))
        /\ \A e \in Nat : Uses(Returned(Asked(t, f), v), e) => Uses(th[t], e)
    BY <1>a, <1>7, <1>8, ReturnedUses
  <2> QED
    BY <1>a, <1>6, <1>8, <2>1, OwnKeptBy
<1>9. CASE sdb_wait_async(t)
  <2> DEFINE r == [Asked(t, "wait") EXCEPT !.pc = "wait"]
  <2>1. "wait" \in Functions /\ th[t].handle # 0 /\ ThreadOnly
    BY <1>9 DEF sdb_wait_async, Asks, Functions
  <2>2. /\ OfSync(r)
        /\ \A e \in Nat : Uses(r, e) => Uses(th[t], e)
    BY <1>7, <2>1 DEF Thread, OfSync, Uses
  <2>3. CASE th' = [th EXCEPT ![t] = r]
    <3> HIDE DEF r
    <3> QED
      BY <1>a, <1>6, <2>1, <2>2, <2>3, OwnKeptBy
  <2> QED
    BY <1>8, <1>9, <2>1, <2>3 DEF sdb_wait_async
<1>10. CASE sdb_check_async(t)
  BY <1>8, <1>10 DEF sdb_check_async, Asks, Functions
<1>11. CASE sdb_pending_packet_free(t)
  <2> DEFINE r == [Called(t, "free") EXCEPT !.handle = 0]
  <2>1. Called(t, "free") \in Thread
    BY <1>b DEF Functions
  <2>2. r \in Thread /\ r.handle = 0
    BY <2>1 DEF Thread
  <2>3. th' = [th EXCEPT ![t] = Returned(r, 0)] /\ th[t].handle # 0
    BY <1>11 DEF sdb_pending_packet_free
  <2> HIDE DEF r
  <2>4. /\ OfSync(Returned(r, 0))
        /\ \A e \in Nat : Uses(Returned(r, 0), e) => Uses(th[t], e) /\ e # th[t].handle
    BY <1>a, <2>2, <2>3, ReturnedUses DEF Uses
  <2>5. th[t].handle \in Nat /\ Uses(th[t], th[t].handle)
    BY <1>a, <2>3 DEF TypeOK, Thread, Uses
  <2>6. /\ delete_pending_id(pp[th[t].handle].id)
        /\ UNCHANGED <<reader, pkt_pending, pending_list_lock>>
    BY <1>11 DEF sdb_pending_packet_free, PendOnly, readerVars
  <2>7. \A e \in 1..Len(pp) : pp[e].id = e
    BY DEF IInv, IdInv
  <2> QED
    BY <1>a, <2>3, <2>4, <2>5, <2>6, <2>7, OwnDelete
<1>12. ASSUME NEW c \in Cmds, NEW cb \in Callbacks \cup {NULL}, sdb_register_callback(t, c, cb)
       PROVE  OwnInv'
  BY <1>12, <1>c DEF sdb_register_callback, pendVars, readerVars, Functions
<1>13. ASSUME NEW c \in Cmds, sdb_unregister_callback(t, c)
       PROVE  OwnInv'
  BY <1>13, <1>c DEF sdb_unregister_callback, pendVars, readerVars, Functions
<1> QED
  BY <1>1, <1>2, <1>4, <1>5, <1>9, <1>10, <1>11, <1>12, <1>13 DEF Begin

\* A call goes on.
LEMMA ContinueOwn ==
    ASSUME IInv, NEW t \in Threads, Continue(t) \/ spurious_wakeup(t)
    PROVE  OwnInv'
<1> USE ClientAssumption
<1>a. TypeOK /\ OwnInv /\ NoUseAfterFree /\ th[t] \in Thread /\ OfSync(th[t])
  BY OwnImplies DEF IInv, TypeOK, OwnInv
<1>b. ASSUME NEW v, th' = [th EXCEPT ![t] = Returned(@, v)],
             UNCHANGED <<pending, pending_list_lock, pkt_pending, reader>>
      PROVE  OwnInv'
  <2>1. /\ OfSync(Returned(th[t], v))
        /\ \A e \in Nat : Uses(Returned(th[t], v), e) => Uses(th[t], e)
    BY <1>a, ReturnedUses
  <2> QED
    BY <1>a, <1>b, <2>1, OwnKeptBy
<1>c. ASSUME NEW x \in {"sent", "wait", "relock"}, th' = [th EXCEPT ![t].pc = x],
             th[t].pc \in {"send", "sent", "wait"}, x = "sent" => th[t].pc = "send",
             UNCHANGED <<pending, pending_list_lock, pkt_pending, reader>>
      PROVE  OwnInv'
  <2> DEFINE r == [th[t] EXCEPT !.pc = x]
  <2>1. OfSync(r) /\ \A e \in Nat : Uses(r, e) => Uses(th[t], e)
    BY <1>a, <1>c DEF Thread, OfSync, Uses
  <2>2. th' = [th EXCEPT ![t] = r]
    BY <1>c
  <2> HIDE DEF r
  <2> QED
    BY <1>a, <1>c, <2>1, <2>2, OwnKeptBy
<1>1. CASE send_handshake(t)
  <2> DEFINE r == [th[t] EXCEPT !.pc = "send", !.elem = Len(pp) + 1]
  <2>1. th[t].handle # Len(pp) + 1
    BY <1>a, NewElement
  <2>2. th[t].pc = "shake"
    BY <1>1 DEF send_handshake
  <2>3. /\ OfSync(r)
        /\ \A e \in Nat : Uses(r, e) => Uses(th[t], e) \/ e = Len(pp) + 1
    BY <1>a, <2>1, <2>2 DEF Thread, OfSync, Uses
  <2>4. /\ th' = [th EXCEPT ![t] = r]
        /\ add_pending_id /\ UNCHANGED <<reader, pkt_pending>>
    BY <1>1, <1>a DEF send_handshake, PendOnly, readerVars, TypeOK
  <2> HIDE DEF r
  <2> QED
    BY <1>a, <2>3, <2>4, OwnAdd
<1>2. CASE write_sync(t)
  BY <1>2, <1>c DEF write_sync, readerVars
<1>3. CASE write_sync_error(t)
  BY <1>3, <1>b DEF write_sync_error, Handshaken, readerVars, pendVars
<1>4. CASE cond_wait(t)
  BY <1>4, <1>c DEF cond_wait, PendOnly, readerVars
<1>5. CASE wake(t)
  <2> DEFINE r == [th[t] EXCEPT !.out = pp[th[t].elem].pkt]
             d == [r EXCEPT !.pc = "delete"]
  <2>1. th[t].elem \in 1..Len(pp) /\ th[t].pc = "relock"
    BY <1>5, <1>a, UsedElems DEF wake
  <2>2. pp[th[t].elem] \in Pending
    BY <1>a, <2>1 DEF TypeOK
  <2>3. r \in Thread /\ r.handle = th[t].handle
    BY <1>a, <2>2 DEF Pending, Thread
  <2>4. UNCHANGED <<pending, pending_list_lock, pkt_pending, reader>>
    BY <1>5 DEF wake, ThreadOnly, pendVars, readerVars
  <2>5. CASE th' = [th EXCEPT ![t] = Returned(r, 0)]
    <3>1. /\ OfSync(Returned(r, 0))
          /\ \A e \in Nat : Uses(Returned(r, 0), e) => Uses(th[t], e)
      BY <1>a, <2>3, ReturnedUses
    <3> QED
      BY <1>a, <2>4, <2>5, <3>1, OwnKeptBy
  <2>6. CASE th[t].call # "wait" /\ th' = [th EXCEPT ![t] = d]
    <3>1. th[t].call \in {"sync", "connect"}
      BY <1>a, <2>1, <2>6 DEF OfSync
    <3>2. OfSync(d) /\ \A e \in Nat : Uses(d, e) => Uses(th[t], e)
      BY <1>a, <2>1, <3>1 DEF Thread, OfSync, Uses
    <3> HIDE DEF d
    <3> QED
      BY <1>a, <2>4, <2>6, <3>2, OwnKeptBy
  <2> QED
    BY <1>5, <2>5, <2>6 DEF wake
<1>6. CASE sync_delete(t)
  <2>1. PICK v : th' = [th EXCEPT ![t] = Returned(@, v)]
    BY <1>6 DEF sync_delete, Handshaken
  <2>2. th[t].pc = "delete" /\ th[t].elem # th[t].handle
    BY <1>6, <1>a DEF sync_delete, OfSync
  <2>3. /\ OfSync(Returned(th[t], v))
        /\ \A e \in Nat : Uses(Returned(th[t], v), e) => Uses(th[t], e) /\ e # th[t].elem
    BY <1>a, <2>2, ReturnedUses
  <2>4. th[t].elem \in Nat /\ Uses(th[t], th[t].elem)
    BY <1>a, <2>2 DEF Thread, Uses
  <2>5. /\ delete_pending_id(pp[th[t].elem].id)
        /\ UNCHANGED <<reader, pkt_pending, pending_list_lock>>
    BY <1>6 DEF sync_delete, readerVars
  <2>6. \A e \in 1..Len(pp) : pp[e].id = e
    BY DEF IInv, IdInv
  <2> QED
    BY <1>a, <2>1, <2>3, <2>4, <2>5, <2>6, OwnDelete
<1>7. CASE write_async(t)
  BY <1>7, <1>b DEF write_async, readerVars, pendVars
<1>8. CASE spurious_wakeup(t)
  BY <1>8, <1>c DEF spurious_wakeup, ThreadOnly, readerVars, pendVars
<1> QED
  BY <1>1, <1>2, <1>3, <1>4, <1>5, <1>6, <1>7, <1>8 DEF Continue

\* The element the reader finds is in the list and has the id it looks for.
LEMMA FoundInList ==
    ASSUME TypeOK, NEW id, Holders(id) # {}
    PROVE  LET e == pending[get_pending_packet_id(id)] IN
           InList(e) /\ e \in 1..Len(pp) /\ pp[e].id = id
<1>1. Len(pp) \in Nat /\ pending \in Seq(1..Len(pp))
  BY DEF TypeOK
<1>2. get_pending_packet_id(id) \in Holders(id)
  BY <1>1, FoundPending
<1> QED
  BY <1>1, <1>2 DEF Holders, InList

\* What reader_deliver does to the elements and to the threads.
LEMMA DeliverEffect ==
    ASSUME TypeOK, NoUseAfterFree, reader_deliver
    PROVE  /\ pkt_pending \in 1..Len(pp)
           /\ Len(pp') = Len(pp)
           /\ pp'[pkt_pending].id = pp[pkt_pending].id
           /\ pp'[pkt_pending].valid = TRUE /\ pp'[pkt_pending].pkt = pkt
           /\ \A e \in 1..Len(pp) : e # pkt_pending => pp'[e] = pp[e]
           /\ \A t \in Threads :
                \/ th'[t] = th[t]
                \/ /\ th[t].pc = "wait" /\ th[t].elem = pkt_pending
                   /\ th'[t] = [th[t] EXCEPT !.pc = "relock"]
<1>1. pkt_pending \in 1..Len(pp)
  BY UsedElems DEF reader_deliver
<1>2. pp \in Seq(Pending) /\ pp[pkt_pending] \in Pending
  BY <1>1 DEF TypeOK
<1> DEFINE x == [pp[pkt_pending] EXCEPT !.pkt = pkt, !.valid = TRUE]
<1>3. x.id = pp[pkt_pending].id /\ x.valid = TRUE /\ x.pkt = pkt
  BY <1>2 DEF Pending
<1>4. pp' = [pp EXCEPT ![pkt_pending] = x]
  BY <1>1, <1>2 DEF reader_deliver
<1> HIDE DEF x
<1>5. Len(pp') = Len(pp) /\ pp'[pkt_pending] = x
  BY <1>1, <1>2, <1>4
<1>6. \A e \in 1..Len(pp) : e # pkt_pending => pp'[e] = pp[e]
  BY <1>1, <1>2, <1>4
<1>7. \A t \in Threads :
        \/ th'[t] = th[t]
        \/ /\ th[t].pc = "wait" /\ th[t].elem = pkt_pending
           /\ th'[t] = [th[t] EXCEPT !.pc = "relock"]
  BY DEF reader_deliver
<1> QED
  BY <1>1, <1>3, <1>5, <1>6, <1>7

\* The reader, the callback threads, the bus and the end of the process.
LEMMA OthersOwn ==
    ASSUME IInv, Reader \/ Bus \/ Callback \/ sigpipe \/ UNCHANGED vars
    PROVE  OwnInv'
<1>a. TypeOK /\ OwnInv /\ NoUseAfterFree
  BY OwnImplies DEF IInv
<1>b. ASSUME UNCHANGED <<th, pending>>,
             reader' = "ppLock" => pending_list_lock' /\ InList(pkt_pending')
      PROVE  OwnInv'
  BY <1>a, <1>b, OwnKept DEF OwnInv
<1>c. ASSUME UNCHANGED <<th, pending, pending_list_lock, pkt_pending>>,
             reader' = "ppLock" => reader = "ppLock"
      PROVE  OwnInv'
  BY <1>a, <1>b, <1>c DEF OwnInv
<1>1. CASE reader_select \/ reader_read \/ reader_null
  <2>1. UNCHANGED <<th, pending, pending_list_lock, pkt_pending>>
    BY <1>1 DEF reader_select, reader_read, reader_null, pendVars, readerVars
  <2>2. reader' = "ppLock" => reader = "ppLock"
    <3>1. CASE reader_read
      <4>1. Head(toApp) \in Packet
        BY <1>a, <3>1 DEF reader_read, TypeOK
      <4> QED
        BY <3>1, <4>1 DEF reader_read, Packet
    <3> QED
      BY <1>1, <3>1 DEF reader_select, reader_null, readerVars
  <2> QED
    BY <1>c, <2>1, <2>2
<1>2. CASE reader_find
  <2>1. UNCHANGED <<th, pending>>
    BY <1>2 DEF reader_find
  <2>2. reader' = "ppLock" => pending_list_lock' /\ InList(pkt_pending')
    BY <1>2, <1>a, FoundInList DEF reader_find, Unexpected
  <2> QED
    BY <1>b, <2>1, <2>2
<1>3. CASE reader_deliver
  <2>1. \A t \in Threads : th[t] \in Thread /\ OfSync(th[t])
    BY <1>a DEF OwnInv, TypeOK
  <2>2. ASSUME NEW t \in Threads, NEW e \in Nat
        PROVE  (Uses(th'[t], e) => Uses(th[t], e)) /\ OfSync(th'[t])
    <3>1. CASE th'[t] = th[t]
      BY <2>1, <3>1
    <3>2. CASE th[t].pc = "wait" /\ th'[t] = [th[t] EXCEPT !.pc = "relock"]
      BY <2>1, <3>2 DEF Thread, Uses, OfSync
    <3> QED
      BY <1>3, <1>a, <3>1, <3>2, DeliverEffect
  <2>3. reader' # "ppLock" /\ pending' = pending
    BY <1>3 DEF reader_deliver
  <2>4. /\ \A t \in Threads, e \in Nat : Uses(th'[t], e) => Uses(th[t], e)
        /\ \A t \in Threads : OfSync(th'[t])
    BY <2>2
  <2> QED
    BY <1>a, <2>3, <2>4, OwnKept
<1>4. CASE reader_request
  BY <1>4, <1>c DEF reader_request, Unexpected, pendVars
<1>5. CASE Bus \/ Callback \/ sigpipe \/ UNCHANGED vars
  <2>1. UNCHANGED <<th, reader, pkt_pending, pending, pending_list_lock>>
    BY <1>5 DEF Bus, bus_answer, bus_answer_again, bus_request, bus_close, BusPut, Callback,
                sdb_thread_run_callback, sigpipe, vars, readerVars, pendVars
  <2> QED
    BY <1>c, <2>1
<1> QED
  BY <1>1, <1>2, <1>3, <1>4, <1>5 DEF Reader

-----------------------------------------------------------------------------
(* Ids match.                                                              *)

\* The elements keep their ids and their packets.
SamePackets ==
    /\ Len(pp') = Len(pp)
    /\ \A e \in 1..Len(pp) :
        pp'[e].id = pp[e].id /\ pp'[e].valid = pp[e].valid /\ pp'[e].pkt = pp[e].pkt

\* Locking an element changes its lock only.
LEMMA LockOnly ==
    ASSUME TypeOK, NEW e \in 1..Len(pp), NEW b, pp' = [pp EXCEPT ![e].lock = b]
    PROVE  SamePackets
<1>1. pp \in Seq(Pending) /\ pp[e] \in Pending
  BY DEF TypeOK
<1> DEFINE x == [pp[e] EXCEPT !.lock = b]
<1>2. x.id = pp[e].id /\ x.valid = pp[e].valid /\ x.pkt = pp[e].pkt
  BY <1>1 DEF Pending
<1>3. pp' = [pp EXCEPT ![e] = x]
  OBVIOUS
<1> HIDE DEF x
<1>4. Len(pp') = Len(pp) /\ pp'[e] = x /\ \A d \in 1..Len(pp) : d # e => pp'[d] = pp[d]
  BY <1>1, <1>3
<1> QED
  BY <1>2, <1>4 DEF SamePackets

\* A list of packets that match, with one more.
LEMMA WithMatched ==
    ASSUME NEW s \in Seq(Packet), NEW q, \A i \in 1..Len(s) : Matched(s[i]),
           q = s \/ \E p : Matched(p) /\ q = Append(s, p)
    PROVE  \A i \in 1..Len(q) : Matched(q[i])
<1>1. ASSUME NEW p, Matched(p), q = Append(s, p)
      PROVE  \A i \in 1..Len(q) : Matched(q[i])
  <2>1. s \in Seq(Packet \cup {p}) /\ p \in Packet \cup {p}
    OBVIOUS
  <2>2. Len(q) = Len(s) + 1 /\ q[Len(s) + 1] = p /\ \A i \in 1..Len(s) : q[i] = s[i]
    BY <1>1, <2>1
  <2> QED
    BY <1>1, <2>2
<1> QED
  BY <1>1

\* A step that keeps the ids, and writes and reads nothing but packets that match.
LEMMA IdKept ==
    ASSUME TypeOK, IdInv, SamePackets,
           toBus' = toBus \/ \E p : Matched(p) /\ toBus' = Append(toBus, p),
           \A i \in 1..Len(toApp') : Matched(toApp'[i]),
           \A r \in running' : Matched(r.pkt),
           reader' \in {"req", "ans", "ppLock"} => pkt' \in Packet /\ Matched(pkt'),
           reader' = "ppLock" => pkt_pending' = pkt'.id
    PROVE  IdInv'
<1>1. \A i \in 1..Len(toBus') : Matched(toBus'[i])
  BY WithMatched DEF IdInv, TypeOK
<1>2. \A e \in 1..Len(pp') : pp'[e].id = e
  BY DEF IdInv, SamePackets
<1>3. AnswerOwn'
  BY DEF IdInv, SamePackets, AnswerOwn
<1> QED
  BY <1>1, <1>2, <1>3 DEF IdInv

\* The same for a step that leaves what is read, and the callbacks, alone.
LEMMA IdKeptBy ==
    ASSUME TypeOK, IdInv, SamePackets,
           toBus' = toBus \/ \E p : Matched(p) /\ toBus' = Append(toBus, p),
           UNCHANGED <<toApp, running, pkt, pkt_pending>>,
           reader' \in {reader, "select"}
    PROVE  IdInv'
<1>1. /\ \A i \in 1..Len(toApp') : Matched(toApp'[i])
      /\ \A r \in running' : Matched(r.pkt)
      /\ reader' \in {"req", "ans", "ppLock"} => pkt' \in Packet /\ Matched(pkt')
      /\ reader' = "ppLock" => pkt_pending' = pkt'.id
  BY DEF IdInv
<1> QED
  BY <1>1, IdKept

\* A step that makes an element.
LEMMA IdAdd ==
    ASSUME TypeOK, IdInv, "collide" \notin Faults, add_pending_id,
           UNCHANGED <<toBus, toApp, running, reader, pkt, pkt_pending>>
    PROVE  IdInv'
<1>1. /\ Len(pp') = Len(pp) + 1
      /\ \A e \in 1..Len(pp) : pp'[e] = pp[e]
      /\ pp'[Len(pp) + 1].valid = FALSE
      /\ pp'[Len(pp) + 1].id = Len(pp) + 1
  BY AddType
<1>2. Len(pp) \in Nat
  BY DEF TypeOK
<1>3. \A e \in 1..Len(pp') : pp'[e].id = e
  BY <1>1, <1>2 DEF IdInv
<1>4. AnswerOwn'
  BY <1>1, <1>2 DEF IdInv, AnswerOwn
<1> QED
  BY <1>3, <1>4 DEF IdInv

\* The steps of the threads.
LEMMA ThreadsId ==
    ASSUME IInv, "collide" \notin Faults, NEW t \in Threads,
           Begin(t) \/ Continue(t) \/ spurious_wakeup(t)
    PROVE  IdInv'
<1>a. TypeOK /\ IdInv /\ NoUseAfterFree
  BY OwnImplies DEF IInv
<1>b. pp' = pp => SamePackets
  BY DEF SamePackets
<1>c. th[t].pc \notin {"idle", "shake"} =>
        th[t].elem \in 1..Len(pp) /\ Matched(PacketOf(t))
  <2>1. th[t].pc \notin {"idle", "shake"} => th[t].elem \in 1..Len(pp)
    BY <1>a, UsedElems
  <2> QED
    BY <1>a, <2>1 DEF IdInv, Matched, PacketOf, Req
<1>d. ASSUME UNCHANGED <<pp, toBus, toApp, running, pkt, pkt_pending>>,
             reader' \in {reader, "select"}
      PROVE  IdInv'
  BY <1>a, <1>b, <1>d, IdKeptBy
<1>1. CASE sdb_connect(t)
  BY <1>1, <1>d DEF sdb_connect, pendVars, cbVars, busVars
<1>2. CASE sdb_disconnect(t)
  BY <1>2, <1>d DEF sdb_disconnect, readerVars, pendVars, cbVars, busVars
<1>3. CASE sdb_send_sync(t) \/ sdb_send_async(t) \/ send_handshake(t)
  <2>1. add_pending_id /\ UNCHANGED <<toBus, toApp, running, reader, pkt, pkt_pending>>
    BY <1>3 DEF sdb_send_sync, sdb_send_async, send_handshake, PendOnly, readerVars, cbVars,
                busVars
  <2> QED
    BY <1>a, <2>1, IdAdd
<1>4. CASE sdb_wait_async(t) \/ sdb_check_async(t) \/ wake(t) \/ spurious_wakeup(t)
  BY <1>4, <1>d DEF sdb_wait_async, sdb_check_async, wake, spurious_wakeup, ThreadOnly,
                    readerVars, pendVars, cbVars, busVars
<1>5. CASE sdb_pending_packet_free(t)
  BY <1>5, <1>d DEF sdb_pending_packet_free, PendOnly, readerVars, cbVars, busVars
<1>6. ASSUME NEW c \in Cmds, NEW cb \in Callbacks \cup {NULL}, sdb_register_callback(t, c, cb)
      PROVE  IdInv'
  BY <1>6, <1>d DEF sdb_register_callback, readerVars, pendVars, busVars
<1>7. ASSUME NEW c \in Cmds, sdb_unregister_callback(t, c)
      PROVE  IdInv'
  BY <1>7, <1>d DEF sdb_unregister_callback, readerVars, pendVars, busVars
<1>8. CASE write_sync(t)
  <2>1. SamePackets
    BY <1>8, <1>a, <1>c, LockOnly DEF write_sync
  <2>2. toBus' = toBus \/ \E p : Matched(p) /\ toBus' = Append(toBus, p)
    BY <1>8, <1>c DEF write_sync, Write
  <2> QED
    BY <1>8, <1>a, <2>1, <2>2, IdKeptBy DEF write_sync, readerVars, cbVars, busVars
<1>9. CASE write_sync_error(t)
  BY <1>9, <1>d DEF write_sync_error, readerVars, pendVars, cbVars, busVars
<1>10. CASE cond_wait(t)
  <2>1. SamePackets
    BY <1>10, <1>a, <1>c, LockOnly DEF cond_wait
  <2> QED
    BY <1>10, <1>a, <2>1, IdKeptBy DEF cond_wait, PendOnly, readerVars, cbVars, busVars
<1>11. CASE sync_delete(t)
  BY <1>11, <1>d DEF sync_delete, readerVars, cbVars, busVars
<1>12. CASE write_async(t)
  <2>1. toBus' = toBus \/ \E p : Matched(p) /\ toBus' = Append(toBus, p)
    BY <1>12, <1>c DEF write_async, Write
  <2>2. SamePackets
    BY <1>12, <1>b DEF write_async, pendVars
  <2> QED
    BY <1>12, <1>a, <2>1, <2>2, IdKeptBy DEF write_async, readerVars, cbVars, busVars
<1> QED
  BY <1>1, <1>2, <1>3, <1>4, <1>5, <1>6, <1>7, <1>8, <1>9, <1>10, <1>11, <1>12
  DEF Begin, Continue

\* The reader, the callback threads, the bus and the end of the process.
LEMMA OthersId ==
    ASSUME IInv, Reader \/ Bus \/ Callback \/ sigpipe \/ UNCHANGED vars
    PROVE  IdInv'
<1>a. TypeOK /\ IdInv /\ NoUseAfterFree
  BY OwnImplies DEF IInv
<1>b. pp' = pp => SamePackets
  BY DEF SamePackets
<1>c. /\ \A p, result : Matched(p) => Matched(Ans(p, result))
      /\ \A id, c : Matched(Req(id, id, c))
  BY DEF Matched, Ans, Req
<1>d. ASSUME UNCHANGED <<pp, toApp, running, pkt, pkt_pending>>, reader' \in {reader, "select"},
             toBus' = toBus \/ \E p : Matched(p) /\ toBus' = Append(toBus, p)
      PROVE  IdInv'
  BY <1>a, <1>b, <1>d, IdKeptBy
<1>e. ASSUME reader \in {"req", "ans"}, Unexpected
      PROVE  toBus' = toBus \/ \E p : Matched(p) /\ toBus' = Append(toBus, p)
  BY <1>a, <1>c, <1>e DEF Unexpected, Write, IdInv
<1>1. CASE reader_select
  <2>1. reader' = "read" /\ UNCHANGED <<pp, toApp, toBus, running, pkt, pkt_pending>>
    BY <1>1 DEF reader_select, pendVars, cbVars, busVars
  <2> QED
    BY <1>a, <1>b, <2>1, IdKept DEF IdInv
<1>2. CASE reader_read
  <2>1. toApp \in Seq(Packet) /\ toApp # <<>>
    BY <1>2, <1>a DEF reader_read, TypeOK
  <2>2. Head(toApp) \in Packet /\ Head(toApp) = toApp[1] /\ 1 \in 1..Len(toApp)
    BY <2>1
  <2>3. Head(toApp).type \in {"req", "ans"} /\ Matched(Head(toApp))
    BY <1>a, <2>2 DEF Packet, IdInv
  <2>4. /\ pkt' \in Packet /\ Matched(pkt')
        /\ reader' # "ppLock"
        /\ UNCHANGED <<pp, toBus, running>>
    BY <1>2, <2>2, <2>3 DEF reader_read, pendVars, cbVars
  <2>5. \A i \in 1..Len(toApp') : Matched(toApp'[i])
    <3>1. Len(toApp') = Len(toApp) - 1 /\ \A i \in 1..Len(toApp') : toApp'[i] = toApp[i + 1]
      BY <1>2, <2>1 DEF reader_read
    <3>2. \A i \in 1..Len(toApp') : i + 1 \in 1..Len(toApp)
      BY <2>1, <3>1
    <3> QED
      BY <1>a, <3>1, <3>2 DEF IdInv
  <2> QED
    BY <1>a, <1>b, <2>4, <2>5, IdKept DEF IdInv
<1>3. CASE reader_null
  BY <1>3, <1>d DEF reader_null, readerVars, pendVars, cbVars, busVars
<1>4. CASE reader_find
  <2>1. reader = "ans" /\ UNCHANGED <<pp, toApp, running, pkt>>
    BY <1>4 DEF reader_find, cbVars, busVars
  <2>2. CASE Unexpected /\ UNCHANGED pkt_pending
    BY <1>d, <1>e, <2>1, <2>2 DEF Unexpected
  <2>3. CASE /\ Holders(pkt.id) # {} /\ UNCHANGED toBus
             /\ pkt_pending' = pending[get_pending_packet_id(pkt.id)]
    <3>1. pkt_pending' = pkt.id
      BY <1>a, <2>3, FoundInList DEF IdInv
    <3> QED
      BY <1>a, <1>b, <2>1, <2>3, <3>1, IdKept DEF IdInv
  <2> QED
    BY <1>4, <2>2, <2>3 DEF reader_find
<1>5. CASE reader_deliver
  <2>1. /\ Len(pp') = Len(pp)
        /\ pp'[pkt_pending].id = pp[pkt_pending].id
        /\ pp'[pkt_pending].pkt = pkt
        /\ \A e \in 1..Len(pp) : e # pkt_pending => pp'[e] = pp[e]
    BY <1>5, <1>a, DeliverEffect
  <2>2. pkt.by = pkt_pending
    BY <1>5, <1>a DEF reader_deliver, IdInv, Matched
  <2>3. \A e \in 1..Len(pp') : pp'[e].id = e
    BY <1>a, <2>1 DEF IdInv
  <2>4. AnswerOwn'
    BY <1>a, <2>1, <2>2 DEF IdInv, AnswerOwn
  <2>5. reader' = "select" /\ UNCHANGED <<toBus, toApp, running>>
    BY <1>5 DEF reader_deliver, cbVars, busVars
  <2> QED
    BY <1>a, <2>3, <2>4, <2>5 DEF IdInv
<1>6. CASE reader_request
  <2>1. reader = "req" /\ reader' = "select" /\ UNCHANGED <<pp, toApp, pkt, pkt_pending>>
    BY <1>6 DEF reader_request, Unexpected, pendVars, busVars
  <2>2. CASE Unexpected /\ UNCHANGED running
    BY <1>d, <1>e, <2>1, <2>2
  <2>3. CASE /\ UNCHANGED toBus
             /\ running' = running \cup {[pkt |-> pkt,
                    callback |-> callback_list[get_callback_index(pkt.cmd)].callback]}
    <3>1. Matched(pkt)
      BY <1>a, <2>1 DEF IdInv
    <3>2. \A r \in running' : Matched(r.pkt)
      BY <1>a, <2>3, <3>1 DEF IdInv
    <3> QED
      BY <1>a, <1>b, <2>1, <2>3, <3>2, IdKept DEF IdInv
  <2> QED
    BY <1>6, <2>2, <2>3 DEF reader_request
<1>7. CASE Bus
  <2>1. UNCHANGED <<pp, toBus, running, reader, pkt, pkt_pending>>
    BY <1>7 DEF Bus, bus_answer, bus_answer_again, bus_request, bus_close, BusPut, readerVars,
                pendVars, cbVars
  <2>2. toApp' = toApp \/ \E p : Matched(p) /\ toApp' = Append(toApp, p)
    BY <1>7, <1>a, <1>c
    DEF Bus, bus_answer, bus_answer_again, bus_request, bus_close, BusPut, IdInv
  <2>3. \A i \in 1..Len(toApp') : Matched(toApp'[i])
    BY <1>a, <2>2, WithMatched DEF IdInv, TypeOK
  <2> QED
    BY <1>a, <1>b, <2>1, <2>3, IdKept DEF IdInv
<1>8. ASSUME NEW r \in running, sdb_thread_run_callback(r)
      PROVE  IdInv'
  <2>1. Matched(Ans(r.pkt, "ok"))
    BY <1>a, <1>c DEF IdInv
  <2>2. toBus' = toBus \/ \E p : Matched(p) /\ toBus' = Append(toBus, p)
    BY <1>8, <2>1 DEF sdb_thread_run_callback, Write
  <2>3. /\ UNCHANGED <<pp, toApp, reader, pkt, pkt_pending>>
        /\ running' \subseteq running
    BY <1>8 DEF sdb_thread_run_callback, readerVars, pendVars, busVars
  <2> QED
    BY <1>a, <1>b, <2>2, <2>3, IdKept DEF IdInv
<1>9. CASE sigpipe \/ UNCHANGED vars
  BY <1>9, <1>d DEF sigpipe, vars, readerVars, pendVars, cbVars, busVars
<1> QED
  BY <1>1, <1>2, <1>3, <1>4, <1>5, <1>6, <1>7, <1>8, <1>9 DEF Reader, Callback

-----------------------------------------------------------------------------
(* Theorems.                                                               *)

\* IInv holds before the program calls the library.
LEMMA InitIInv ==
    Init => IInv
<1> SUFFICES ASSUME Init PROVE IInv
  OBVIOUS
<1> USE ClientAssumption
<1>1. th \in [Threads -> Thread]
  <2>1. [pc |-> "idle", call |-> NULL, ret |-> 0, out |-> NULL, elem |-> 0, handle |-> 0,
         calls |-> 0] \in Thread
    BY DEF Thread
  <2> QED
    BY <2>1 DEF Init
<1>2. TypeOK
  <2>1. registered \in [Cmds -> Callbacks \cup {NULL}]
    BY DEF Init
  <2>2. /\ pp \in Seq(Pending) /\ Len(pp) = 0 /\ pending \in Seq(1..Len(pp))
        /\ callback_list \in Seq(Entry) /\ Len(callback_list) = 0
        /\ toBus \in Seq(Packet) /\ toApp \in Seq(Packet)
    BY DEF Init
  <2>3. pkt_pending \in 0..Len(pp) /\ Len(pp) <= MaxElem
    BY <2>2 DEF Init
  <2>4. /\ callback_list_size \in Nat /\ ListMin <= callback_list_size
        /\ Len(callback_list) <= callback_list_size
    BY <2>2 DEF Init
  <2>5. running = {} /\ served = {}
    BY DEF Init
  <2> QED
    BY <1>1, <2>1, <2>2, <2>3, <2>4, <2>5 DEF Init, TypeOK
<1>3. \A t \in Threads : th[t].pc = "idle" /\ th[t].handle = 0
  BY DEF Init
<1>4. OwnInv
  BY <1>3 DEF Init, OwnInv, Uses, OfSync
<1>5. IdInv
  BY DEF Init, IdInv, AnswerOwn
<1> QED
  BY <1>2, <1>4, <1>5 DEF IInv

\* Every step keeps IInv, if ids are distinct.
LEMMA StepIInv ==
    ASSUME "collide" \notin Faults, IInv, [Next]_vars
    PROVE  IInv'
<1>1. TypeOK'
  BY OwnImplies, TypeStep DEF IInv, IdInv
<1>2. OwnInv'
  BY BeginOwn, ContinueOwn, OthersOwn DEF Next
<1>3. IdInv'
  BY ThreadsId, OthersId DEF Next
<1> QED
  BY <1>1, <1>2, <1>3 DEF IInv

\* If generate_id never draws an id twice, every reachable state satisfies IInv.
THEOREM Invariance ==
    ASSUME "collide" \notin Faults
    PROVE  Spec => []IInv
<1>1. Init => IInv
  BY InitIInv
<1>2. IInv /\ [Next]_vars => IInv'
  BY StepIInv
<1> QED
  BY <1>1, <1>2, PTL DEF Spec

\* Every variable keeps its type: in particular callback_list never holds more
\* entries than callback_list_size, and no element that was not made is used.
THEOREM TypeCorrect ==
    ASSUME "collide" \notin Faults
    PROVE  Spec => []TypeOK
<1>1. IInv => TypeOK
  BY DEF IInv
<1> QED
  BY <1>1, Invariance, PTL

\* Neither the reader nor a thread uses an element that delete_pending_id has
\* freed, for any number of threads and calls.
THEOREM UsesListed ==
    ASSUME "collide" \notin Faults
    PROVE  Spec => []NoUseAfterFree
<1>1. IInv => NoUseAfterFree
  BY OwnImplies DEF IInv
<1> QED
  BY <1>1, Invariance, PTL

\* sdb_thread_read gives an answer to the packet it answers, however answers and
\* threads interleave and however often the bus answers.
THEOREM AnswersMatch ==
    ASSUME "collide" \notin Faults
    PROVE  Spec => []AnswerOwn
<1>1. IInv => AnswerOwn
  BY DEF IInv, IdInv
<1> QED
  BY <1>1, Invariance, PTL

-----------------------------------------------------------------------------
(* Callbacks.                                                              *)

\* The first entry of list l for command c has callback v.
FirstIs(l, c, v) ==
    \E p \in 1..Len(l) :
        l[p].cmd = c /\ l[p].callback = v /\ \A q \in 1..(p - 1) : l[q].cmd # c

\* RegisteredFound, without the choice of an index.
CallbackInv ==
    \A c \in Cmds : registered[c] # NULL => FirstIs(callback_list, c, registered[c])

LEMMA CallbackImplies ==
    ASSUME TypeOK, CallbackInv
    PROVE  RegisteredFound
<1> SUFFICES ASSUME NEW c \in Cmds, registered[c] # NULL
             PROVE  Entries(c) # {} /\ callback_list[get_callback_index(c)].callback = registered[c]
  BY DEF RegisteredFound
<1>1. PICK p \in 1..Len(callback_list) :
        /\ callback_list[p].cmd = c /\ callback_list[p].callback = registered[c]
        /\ \A q \in 1..(p - 1) : callback_list[q].cmd # c
  BY DEF CallbackInv, FirstIs
<1>2. Len(callback_list) \in Nat
  BY DEF TypeOK
<1>3. p \in Entries(c) /\ Entries(c) \subseteq Nat
  BY <1>1 DEF Entries
<1>4. \A j \in Entries(c) : p <= j
  BY <1>1, <1>2 DEF Entries
<1>5. /\ get_callback_index(c) \in Entries(c)
      /\ \A j \in Entries(c) : get_callback_index(c) <= j
  <2> HIDE DEF Entries
  <2> QED BY <1>3, <1>4 DEF get_callback_index
<1>6. get_callback_index(c) = p
  <2>1. get_callback_index(c) <= p /\ p <= get_callback_index(c)
    BY <1>3, <1>4, <1>5
  <2> QED BY <1>3, <1>5, <2>1
<1> QED
  BY <1>1, <1>3, <1>6

\* An entry for another command, put at the end, changes nothing.
LEMMA FirstAppend ==
    ASSUME NEW l \in Seq(Entry), NEW e \in Entry, NEW c, NEW v, FirstIs(l, c, v)
    PROVE  FirstIs(Append(l, e), c, v)
<1>1. PICK p \in 1..Len(l) :
        l[p].cmd = c /\ l[p].callback = v /\ \A q \in 1..(p - 1) : l[q].cmd # c
  BY DEF FirstIs
<1>2. \A q \in 1..Len(l) : Append(l, e)[q] = l[q]
  OBVIOUS
<1>3. Len(l) \in Nat /\ Len(Append(l, e)) = Len(l) + 1
  OBVIOUS
<1>4. p \in 1..Len(Append(l, e)) /\ \A q \in 1..(p - 1) : q \in 1..Len(l)
  BY <1>3
<1> QED
  BY <1>1, <1>2, <1>4 DEF FirstIs

\* Nor does taking the entry of another command out.
LEMMA FirstShifted ==
    ASSUME TypeOK, NEW d \in Cmds, NEW c \in Cmds, c # d, NEW v, FirstIs(callback_list, c, v)
    PROVE  FirstIs(Shifted(d), c, v)
<1> DEFINE l == callback_list
           k == get_callback_index(d)
           m == Shifted(d)
<1>1. PICK p \in 1..Len(l) :
        l[p].cmd = c /\ l[p].callback = v /\ \A q \in 1..(p - 1) : l[q].cmd # c
  BY DEF FirstIs
<1>2. Len(l) \in Nat
  BY DEF TypeOK
<1>3. Len(m) = Len(l) /\ \A q \in 1..Len(l) :
        m[q] = IF Entries(d) # {} /\ k <= q /\ q < Len(l) THEN l[q + 1] ELSE l[q]
  BY <1>2 DEF Shifted
<1>4. Entries(d) # {} => k \in 1..Len(l) /\ l[k].cmd = d
  <2>1. Entries(d) # {} => k \in Entries(d)
    BY FoundCallback
  <2> QED BY <2>1 DEF Entries
<1> HIDE DEF m, k
<1>5. CASE Entries(d) = {} \/ p < k
  <2>1. \A q \in 1..p : m[q] = l[q]
    BY <1>2, <1>3, <1>4, <1>5
  <2> QED
    BY <1>1, <1>2, <1>3, <2>1 DEF FirstIs, m
<1>6. CASE Entries(d) # {} /\ k < p
  <2>1. m[p - 1] = l[p] /\ p - 1 \in 1..Len(m)
    BY <1>2, <1>3, <1>4, <1>6
  <2>2. ASSUME NEW q \in 1..((p - 1) - 1)
        PROVE  m[q].cmd # c
    <3>1. q \in 1..(p - 1) /\ q + 1 \in 1..(p - 1) /\ q \in 1..Len(l)
      BY <1>2
    <3>2. m[q] = l[q] \/ m[q] = l[q + 1]
      BY <1>3, <3>1
    <3> QED BY <1>1, <3>1, <3>2
  <2> QED
    BY <1>1, <2>1, <2>2 DEF FirstIs, m
<1>7. Entries(d) # {} => p # k
  BY <1>1, <1>4
<1>8. k \in Nat \/ Entries(d) = {}
  BY <1>2, <1>4
<1> QED
  BY <1>5, <1>6, <1>7, <1>8

LEMMA CallbackStep ==
    ASSUME TypeOK, CallbackInv, [Next]_vars
    PROVE  CallbackInv'
<1> USE DEF cbVars
<1>1. CASE UNCHANGED <<callback_list, registered>>
  BY <1>1 DEF CallbackInv
<1>2. ASSUME NEW t \in Threads, NEW c \in Cmds, NEW cb \in Callbacks \cup {NULL},
             sdb_register_callback(t, c, cb)
      PROVE  CallbackInv'
  <2>1. CASE UNCHANGED <<callback_list, registered>>
    BY <1>1, <2>1
  <2>2. CASE /\ cb # NULL /\ Entries(c) = {}
             /\ callback_list' = Append(callback_list, [cmd |-> c, callback |-> cb])
             /\ registered' = [registered EXCEPT ![c] = cb]
    <3> DEFINE e == [cmd |-> c, callback |-> cb]
    <3>1. callback_list \in Seq(Entry) /\ registered \in [Cmds -> Callbacks \cup {NULL}]
      BY DEF TypeOK
    <3>2. e \in Entry /\ e.cmd = c /\ e.callback = cb
      BY <2>2 DEF Entry
    <3> HIDE DEF e
    <3>3. callback_list' = Append(callback_list, e)
      BY <2>2 DEF e
    <3>4. ASSUME NEW d \in Cmds, registered'[d] # NULL
          PROVE  FirstIs(callback_list', d, registered'[d])
      <4>1. CASE d = c
        <5> DEFINE n == Len(callback_list)
        <5>1. n \in Nat /\ Len(callback_list') = n + 1
          BY <3>1, <3>2, <3>3
        <5>2. callback_list'[n + 1] = e /\ \A q \in 1..n : callback_list'[q] = callback_list[q]
          BY <3>1, <3>2, <3>3
        <5>3. \A q \in 1..n : callback_list[q].cmd # c
          BY <2>2 DEF Entries
        <5>4. registered'[d] = cb
          BY <2>2, <3>1, <4>1
        <5>5. n + 1 \in 1..Len(callback_list') /\ (n + 1) - 1 = n
          BY <5>1
        <5> HIDE DEF n
        <5>6. \A q \in 1..((n + 1) - 1) : callback_list'[q].cmd # c
          BY <5>2, <5>3, <5>5
        <5> QED
          BY <3>2, <4>1, <5>2, <5>4, <5>5, <5>6 DEF FirstIs
      <4>2. CASE d # c
        <5>1. registered'[d] = registered[d]
          BY <2>2, <3>1, <4>2
        <5>2. FirstIs(callback_list, d, registered[d])
          BY <3>4, <5>1 DEF CallbackInv
        <5> QED
          BY <3>1, <3>2, <3>3, <5>1, <5>2, FirstAppend
      <4> QED BY <4>1, <4>2
    <3> QED BY <3>4 DEF CallbackInv
  <2> QED
    BY <1>2, <2>1, <2>2 DEF sdb_register_callback
<1>3. ASSUME NEW t \in Threads, NEW c \in Cmds, sdb_unregister_callback(t, c)
      PROVE  CallbackInv'
  <2>1. callback_list' = Shifted(c) /\ registered' = [registered EXCEPT ![c] = NULL]
    BY <1>3 DEF sdb_unregister_callback
  <2>2. registered \in [Cmds -> Callbacks \cup {NULL}]
    BY DEF TypeOK
  <2>3. ASSUME NEW d \in Cmds, registered'[d] # NULL
        PROVE  FirstIs(callback_list', d, registered'[d])
    <3>1. d # c /\ registered'[d] = registered[d]
      BY <2>1, <2>2, <2>3
    <3>2. FirstIs(callback_list, d, registered[d])
      BY <2>3, <3>1 DEF CallbackInv
    <3>3. FirstIs(Shifted(c), d, registered[d])
      BY <3>1, <3>2, FirstShifted
    <3> QED BY <2>1, <3>1, <3>3
  <2> QED BY <2>3 DEF CallbackInv
<1>4. ASSUME NEW t \in Threads, Begin(t) \/ Continue(t) \/ spurious_wakeup(t)
      PROVE  CallbackInv'
  BY <1>1, <1>2, <1>3, <1>4
     DEF Begin, Continue, sdb_connect, sdb_disconnect, sdb_send_sync, sdb_send_async,
         sdb_wait_async, sdb_check_async, sdb_pending_packet_free, send_handshake, write_sync,
         write_sync_error, cond_wait, wake, sync_delete, write_async, spurious_wakeup,
         ThreadOnly, PendOnly
<1>5. CASE Reader
  BY <1>1, <1>5 DEF Reader, reader_select, reader_read, reader_null, reader_find, reader_request,
                    reader_deliver
<1>6. CASE Callback \/ Bus \/ sigpipe \/ UNCHANGED vars
  BY <1>1, <1>6 DEF Bus, bus_answer, bus_answer_again, bus_request, bus_close, BusPut, Callback,
                    sdb_thread_run_callback, sigpipe, vars
<1> QED
  BY <1>4, <1>5, <1>6 DEF Next

\* A callback that is registered, and not unregistered, is the one that
\* get_callback_index finds, whatever the calls before did to the list: the
\* entry sdb_unregister_callback leaves at its end is never in the way.
THEOREM RegisteredIsFound ==
    ASSUME "collide" \notin Faults
    PROVE  Spec => []RegisteredFound
<1>1. Init => CallbackInv
  BY DEF Init, CallbackInv
<1>2. IInv => TypeOK
  BY DEF IInv
<1>3. TypeOK /\ CallbackInv /\ [Next]_vars => CallbackInv'
  BY CallbackStep
<1>4. TypeOK /\ CallbackInv => RegisteredFound
  BY CallbackImplies
<1> QED
  BY <1>1, <1>2, <1>3, <1>4, Invariance, PTL DEF Spec

-----------------------------------------------------------------------------
(* Requests of the bus are answered once.                                  *)

\* Where the n-th packet the bus sends of its own accord can be, as by = -n: on
\* the socket, in the hand of the reader, with a callback thread, answered.
OnSocket(n) == \E i \in 1..Len(toApp) : toApp[i].by = n
InHand(n) == reader = "req" /\ pkt.by = n
InCallback(n) == \E r \in running : r.pkt.by = n
Replied(n) == \E i \in 1..Len(toBus) : toBus[i].by = n

\* At most one packet of the sequence is about n.
Once(s, n) == \A i, j \in 1..Len(s) : s[i].by = n /\ s[j].by = n => i = j

\* The request is in one place.
OnePlace(n) ==
    /\ OnSocket(n) \/ InHand(n) \/ InCallback(n) \/ Replied(n) => -n <= busSent
    /\ ~(OnSocket(n) /\ InHand(n)) /\ ~(OnSocket(n) /\ InCallback(n))
    /\ ~(OnSocket(n) /\ Replied(n)) /\ ~(InHand(n) /\ InCallback(n))
    /\ ~(InHand(n) /\ Replied(n)) /\ ~(InCallback(n) /\ Replied(n))
    /\ Once(toApp, n) /\ Once(toBus, n)
    /\ \A r, q \in running : r.pkt.by = n /\ q.pkt.by = n => r = q

\* Only answers go out for requests of the bus, and only requests come in.
SignInv ==
    /\ \A i \in 1..Len(toBus) : toBus[i].type = "req" => toBus[i].by >= 0
    /\ \A i \in served : toBus[i].type = "req"
    /\ \A i \in 1..Len(toApp) : toApp[i].type = "ans" => toApp[i].by >= 0
    /\ reader = "ans" => pkt.by >= 0

ReplyInv == SignInv /\ \A n \in Int : n < 0 => OnePlace(n)

\* A packet put at the end of a sequence, and one taken from its front.
LEMMA AppendOnce ==
    ASSUME NEW s \in Seq(Packet), NEW p \in Packet, NEW n
    PROVE  /\ (\E i \in 1..Len(Append(s, p)) : Append(s, p)[i].by = n)
                => p.by = n \/ \E i \in 1..Len(s) : s[i].by = n
           /\ Once(s, n) /\ (p.by = n => ~ \E i \in 1..Len(s) : s[i].by = n)
                => Once(Append(s, p), n)
<1>1. /\ Len(s) \in Nat /\ Len(Append(s, p)) = Len(s) + 1
      /\ \A i \in 1..Len(s) : Append(s, p)[i] = s[i]
      /\ Append(s, p)[Len(s) + 1] = p
  OBVIOUS
<1> DEFINE a == Append(s, p)
<1> HIDE DEF a
<1>2. \A i \in 1..Len(a) : i \in 1..Len(s) \/ i = Len(s) + 1
  BY <1>1 DEF a
<1> QED BY <1>1, <1>2 DEF Once, a

LEMMA TailOnce ==
    ASSUME NEW s \in Seq(Packet), s # <<>>, NEW n
    PROVE  /\ (\E i \in 1..Len(Tail(s)) : Tail(s)[i].by = n) => \E i \in 1..Len(s) : s[i].by = n
           /\ Once(s, n) => Once(Tail(s), n)
           /\ Head(s).by = n => \E i \in 1..Len(s) : s[i].by = n
           /\ Once(s, n) /\ Head(s).by = n => ~ \E i \in 1..Len(Tail(s)) : Tail(s)[i].by = n
<1>1. \A i \in 1..Len(Tail(s)) : /\ i + 1 \in 1..Len(s) /\ Tail(s)[i] = s[i + 1]
                                 /\ i \in Int /\ i + 1 # 1
  OBVIOUS
<1>2. 1 \in 1..Len(s) /\ Head(s) = s[1]
  OBVIOUS
<1> DEFINE t == Tail(s)
<1>3. \A i, j \in 1..Len(t) : i + 1 = j + 1 => i = j
  OBVIOUS
<1> HIDE DEF t
<1>4. Once(s, n) => Once(t, n)
  BY <1>1, <1>3 DEF Once, t
<1> QED BY <1>1, <1>2, <1>4 DEF Once, t

\* Nothing new has happened to the request.
Settled(n) ==
    /\ OnSocket(n)' => OnSocket(n)
    /\ InHand(n)' => InHand(n)
    /\ Replied(n)' => Replied(n)
    /\ Once(toApp, n) => Once(toApp', n)
    /\ Once(toBus, n) => Once(toBus', n)
    /\ running' \subseteq running
    /\ busSent' \in Nat /\ busSent' >= busSent

LEMMA SettledPlace ==
    ASSUME TypeOK, NEW n \in Int, OnePlace(n), Settled(n)
    PROVE  OnePlace(n)'
<1>1. InCallback(n)' => InCallback(n)
  BY DEF Settled, InCallback
<1>2. busSent \in Nat
  BY DEF TypeOK
<1>3. OnSocket(n)' \/ InHand(n)' \/ InCallback(n)' \/ Replied(n)' => -n <= busSent'
  BY <1>1, <1>2 DEF Settled, OnePlace
<1> QED BY <1>1, <1>3 DEF Settled, OnePlace

\* A step that leaves the sockets alone.
LEMMA ReplyQuiet ==
    ASSUME TypeOK, ReplyInv, UNCHANGED <<toApp, toBus, served, pkt, running, busSent>>,
           reader' \in {"req", "ans"} => reader' = reader
    PROVE  ReplyInv'
<1>1. SignInv'
  BY DEF ReplyInv, SignInv
<1>2. ASSUME NEW n \in Int, n < 0 PROVE OnePlace(n)'
  <2>1. Settled(n)
    BY DEF Settled, OnSocket, InHand, Replied, TypeOK
  <2> QED BY <1>2, <2>1, SettledPlace DEF ReplyInv
<1> QED BY <1>1, <1>2 DEF ReplyInv

\* A packet that is not about a request of the bus is written.
LEMMA ReplyOther ==
    ASSUME TypeOK, ReplyInv, NEW p \in Packet, p.by >= 0, Write(p),
           UNCHANGED <<toApp, served, pkt, running, busSent>>,
           reader' \in {"req", "ans"} => reader' = reader
    PROVE  ReplyInv'
<1>0. toBus \in Seq(Packet) /\ (toBus' = toBus \/ toBus' = Append(toBus, p))
      /\ served \subseteq 1..Len(toBus) /\ busSent \in Nat
  BY DEF TypeOK, Write
<1>1. SignInv'
  <2>1. \A i \in 1..Len(toBus') : toBus'[i] = p \/ (i \in 1..Len(toBus) /\ toBus'[i] = toBus[i])
    BY <1>0
  <2>2. \A i \in served : toBus'[i] = toBus[i]
    BY <1>0
  <2> QED BY <2>1, <2>2 DEF ReplyInv, SignInv
<1>2. ASSUME NEW n \in Int, n < 0 PROVE OnePlace(n)'
  <2>1. p.by # n
    BY <1>2 DEF Packet
  <2>2. (Replied(n)' => Replied(n)) /\ (Once(toBus, n) => Once(toBus', n))
    <3>1. CASE toBus' = toBus
      BY <3>1 DEF Replied
    <3>2. CASE toBus' = Append(toBus, p)
      BY <1>0, <2>1, <3>2, AppendOnce DEF Replied
    <3> QED BY <1>0, <3>1, <3>2
  <2>3. Settled(n)
    BY <1>0, <2>2 DEF Settled, OnSocket, InHand
  <2> QED BY <1>2, <2>3, SettledPlace DEF ReplyInv
<1> QED BY <1>1, <1>2 DEF ReplyInv

\* The answer to a request is written, by the thread that had it: the reader,
\* which gives it up, or a callback thread, which ends.
LEMMA ReplyWritten ==
    ASSUME TypeOK, TypeOK', ReplyInv, NEW q \in Packet, NEW r \in {"ok", "err"}, Write(Ans(q, r)),
           UNCHANGED <<toApp, served, pkt, busSent>>, running' \subseteq running,
           reader' \in {"req", "ans"} => reader' = reader,
           \/ reader = "req" /\ pkt = q /\ reader' # "req"
           \/ \E c \in running : c.pkt = q /\ running' = running \ {c}
    PROVE  ReplyInv'
<1> DEFINE p == Ans(q, r)
<1>0. /\ toBus \in Seq(Packet) /\ (toBus' = toBus \/ toBus' = Append(toBus, p))
      /\ served \subseteq 1..Len(toBus) /\ busSent \in Nat
      /\ p \in Packet /\ p.by = q.by /\ p.type = "ans"
  BY PacketType DEF TypeOK, Write, Ans
<1> HIDE DEF p
<1>1. SignInv'
  <2>1. \A i \in 1..Len(toBus') : toBus'[i] = p \/ (i \in 1..Len(toBus) /\ toBus'[i] = toBus[i])
    BY <1>0
  <2>2. \A i \in served : toBus'[i] = toBus[i]
    BY <1>0
  <2> QED BY <1>0, <2>1, <2>2 DEF ReplyInv, SignInv
<1>2. ASSUME NEW n \in Int, n < 0 PROVE OnePlace(n)'
  <2>0. OnePlace(n)
    BY <1>2 DEF ReplyInv
  <2>1. /\ Replied(n)' => Replied(n) \/ p.by = n
        /\ Once(toBus, n) /\ (p.by = n => ~Replied(n)) => Once(toBus', n)
    <3>1. CASE toBus' = toBus
      BY <3>1 DEF Replied
    <3>2. CASE toBus' = Append(toBus, p)
      BY <1>0, <3>2, AppendOnce DEF Replied
    <3> QED BY <1>0, <3>1, <3>2
  <2>2. CASE p.by # n
    <3>1. Settled(n)
      BY <1>0, <2>1, <2>2 DEF Settled, OnSocket, InHand
    <3> QED BY <2>0, <3>1, SettledPlace
  <2>3. CASE p.by = n
    <3>1. CASE reader = "req" /\ pkt = q /\ reader' # "req"
      <4>1. InHand(n) /\ ~InHand(n)'
        BY <1>0, <2>3, <3>1 DEF InHand
      <4>2. ~OnSocket(n)' /\ ~InCallback(n)' /\ ~Replied(n)
        BY <2>0, <4>1 DEF OnePlace, OnSocket, InCallback
      <4> QED BY <2>0, <2>1, <4>1, <4>2 DEF OnePlace
    <3>2. ASSUME NEW c \in running, c.pkt = q, running' = running \ {c} PROVE OnePlace(n)'
      <4>1. InCallback(n) /\ \A d \in running : d.pkt.by = n => d = c
        BY <1>0, <2>0, <2>3, <3>2 DEF InCallback, OnePlace
      <4>2. ~InCallback(n)'
        BY <3>2, <4>1 DEF InCallback
      <4>3. ~OnSocket(n)' /\ ~InHand(n)' /\ ~Replied(n)
        BY <2>0, <4>1 DEF OnePlace, OnSocket, InHand
      <4> QED BY <2>0, <2>1, <4>1, <4>2, <4>3 DEF OnePlace
    <3> QED BY <3>1, <3>2
  <2> QED BY <2>2, <2>3
<1> QED BY <1>1, <1>2 DEF ReplyInv

\* The bus sends a packet: an answer, or the next request.
LEMMA ReplySent ==
    ASSUME TypeOK, TypeOK', ReplyInv, NEW p \in Packet, toApp' = Append(toApp, p),
           UNCHANGED <<toBus, reader, pkt, running>>, \A i \in served' : toBus[i].type = "req",
           busSent' >= busSent,
           \/ p.by >= 0
           \/ p.type = "req" /\ p.by = -(busSent + 1) /\ busSent' = busSent + 1
    PROVE  ReplyInv'
<1>0. toApp \in Seq(Packet) /\ busSent \in Nat /\ busSent' \in Nat
  BY DEF TypeOK
<1>1. SignInv'
  <2>1. \A i \in 1..Len(toApp') : toApp'[i] = p \/ (i \in 1..Len(toApp) /\ toApp'[i] = toApp[i])
    BY <1>0
  <2> QED BY <2>1 DEF ReplyInv, SignInv
<1>2. ASSUME NEW n \in Int, n < 0 PROVE OnePlace(n)'
  <2>0. OnePlace(n)
    BY <1>2 DEF ReplyInv
  <2>1. /\ OnSocket(n)' => OnSocket(n) \/ p.by = n
        /\ Once(toApp, n) /\ (p.by = n => ~OnSocket(n)) => Once(toApp', n)
    BY <1>0, AppendOnce DEF OnSocket
  <2>2. CASE p.by # n
    <3>1. Settled(n)
      BY <1>0, <2>1, <2>2 DEF Settled, InHand, Replied
    <3> QED BY <2>0, <3>1, SettledPlace
  <2>3. CASE p.by = n
    <3>1. n = -(busSent + 1) /\ busSent' = busSent + 1 /\ -n = busSent'
      BY <1>0, <1>2, <2>3
    <3>2. ~(-n <= busSent)
      BY <1>0, <3>1
    <3>3. ~OnSocket(n) /\ ~InHand(n)' /\ ~InCallback(n)' /\ ~Replied(n)'
      BY <2>0, <3>2 DEF OnePlace, InHand, InCallback, Replied
    <3> QED BY <1>0, <2>0, <2>1, <3>1, <3>3 DEF OnePlace
  <2> QED BY <2>2, <2>3
<1> QED BY <1>1, <1>2 DEF ReplyInv

\* The reader takes the first packet from the socket.
LEMMA ReplyRead ==
    ASSUME TypeOK, ReplyInv, reader_read
    PROVE  ReplyInv'
<1> DEFINE p == Head(toApp)
<1>0. /\ toApp \in Seq(Packet) /\ toApp # <<>> /\ busSent \in Nat
      /\ toApp' = Tail(toApp) /\ pkt' = p /\ reader' = p.type /\ reader = "read"
      /\ UNCHANGED <<toBus, served, running, busSent>>
  BY DEF TypeOK, reader_read, cbVars
<1>1. p \in Packet /\ 1 \in 1..Len(toApp) /\ p = toApp[1]
  BY <1>0
<1>2. SignInv'
  <2>1. \A i \in 1..Len(Tail(toApp)) : i + 1 \in 1..Len(toApp) /\ Tail(toApp)[i] = toApp[i + 1]
    BY <1>0
  <2> HIDE DEF p
  <2> QED BY <1>0, <1>1, <2>1 DEF ReplyInv, SignInv
<1>3. ASSUME NEW n \in Int, n < 0 PROVE OnePlace(n)'
  <2>0. OnePlace(n) /\ ~InHand(n)
    BY <1>0, <1>3 DEF ReplyInv, InHand
  <2>1. /\ OnSocket(n)' => OnSocket(n)
        /\ Once(toApp, n) => Once(toApp', n)
        /\ p.by = n => OnSocket(n) /\ ~OnSocket(n)'
    <3> HIDE DEF p
    <3> QED BY <1>0, <2>0, TailOnce DEF OnSocket, OnePlace, p
  <2>2. InHand(n)' => p.by = n
    BY <1>0 DEF InHand
  <2> HIDE DEF p
  <2>3. CASE p.by # n
    <3>1. Settled(n)
      BY <1>0, <2>1, <2>2, <2>3 DEF Settled, Replied
    <3> QED BY <2>0, <3>1, SettledPlace
  <2>4. CASE p.by = n
    <3>1. OnSocket(n) /\ ~OnSocket(n)'
      BY <2>1, <2>4
    <3>2. ~InCallback(n)' /\ ~Replied(n)'
      BY <1>0, <2>0, <3>1 DEF OnePlace, InCallback, Replied
    <3> QED BY <1>0, <2>0, <2>1, <3>1, <3>2 DEF OnePlace
  <2> QED BY <2>3, <2>4
<1> QED BY <1>2, <1>3 DEF ReplyInv

\* The reader makes a thread for the callback.
LEMMA ReplyStarted ==
    ASSUME TypeOK, TypeOK', ReplyInv, reader = "req", reader' = "select",
           NEW c, running' = running \cup {[pkt |-> pkt, callback |-> c]},
           UNCHANGED <<toApp, toBus, served, pkt, busSent>>
    PROVE  ReplyInv'
<1> DEFINE new == [pkt |-> pkt, callback |-> c]
<1>0. new.pkt = pkt /\ busSent \in Nat
  BY DEF TypeOK
<1> HIDE DEF new
<1>1. SignInv'
  BY DEF ReplyInv, SignInv
<1>2. ASSUME NEW n \in Int, n < 0 PROVE OnePlace(n)'
  <2>0. OnePlace(n) /\ ~InHand(n)'
    BY <1>2 DEF ReplyInv, InHand
  <2>1. (OnSocket(n)' <=> OnSocket(n)) /\ (Replied(n)' <=> Replied(n))
    BY DEF OnSocket, Replied
  <2>2. CASE pkt.by # n
    <3>1. \A r \in running' : r.pkt.by = n => r \in running
      BY <1>0, <2>2 DEF new
    <3>2. InCallback(n)' => InCallback(n)
      BY <3>1 DEF InCallback
    <3> QED BY <2>0, <2>1, <3>1, <3>2 DEF OnePlace
  <2>3. CASE pkt.by = n
    <3>1. InHand(n)
      BY <2>3 DEF InHand
    <3>2. ~OnSocket(n)' /\ ~Replied(n)' /\ ~InCallback(n)
      BY <2>0, <2>1, <3>1 DEF OnePlace
    <3>3. \A r \in running' : r.pkt.by = n => r = new
      BY <3>2 DEF InCallback, new
    <3> QED BY <2>0, <2>1, <3>1, <3>2, <3>3 DEF OnePlace
  <2> QED BY <2>2, <2>3
<1> QED BY <1>1, <1>2 DEF ReplyInv

LEMMA ReplyStep ==
    ASSUME IInv, TypeOK', ReplyInv, [Next]_vars
    PROVE  ReplyInv'
<1> USE DEF readerVars, pendVars, cbVars, busVars
<1>0. TypeOK /\ (reader \in {"req", "ans"} => pkt \in Packet)
  BY DEF IInv, IdInv
<1>1. ASSUME NEW t \in Threads, Begin(t) \/ spurious_wakeup(t) PROVE ReplyInv'
  <2>1. /\ UNCHANGED <<toApp, toBus, served, pkt, running, busSent>>
        /\ reader' \in {"req", "ans"} => reader' = reader
    BY <1>1 DEF Begin, sdb_connect, sdb_disconnect, sdb_send_sync, sdb_send_async,
         sdb_wait_async, sdb_check_async, sdb_pending_packet_free, sdb_register_callback,
         sdb_unregister_callback, spurious_wakeup, ThreadOnly, PendOnly
  <2> QED BY <1>0, <2>1, ReplyQuiet
<1>2. ASSUME NEW t \in Threads, Continue(t) PROVE ReplyInv'
  <2>1. CASE send_handshake(t) \/ write_sync_error(t) \/ cond_wait(t) \/ wake(t) \/ sync_delete(t)
    <3>1. UNCHANGED <<toApp, toBus, served, pkt, running, busSent, reader>>
      BY <2>1 DEF send_handshake, write_sync_error, cond_wait, wake, sync_delete, ThreadOnly, PendOnly
    <3> QED BY <1>0, <3>1, ReplyQuiet
  <2>2. CASE write_sync(t) \/ write_async(t)
    <3>1. /\ UNCHANGED <<toApp, served, pkt, running, busSent, reader>>
          /\ UNCHANGED toBus \/ Write(PacketOf(t))
          /\ th[t].pc \in {"send", "write"}
      BY <2>2 DEF write_sync, write_async
    <3>2. PacketOf(t) \in Packet /\ PacketOf(t).by >= 0
      <4>1. th[t].elem \in 1..Len(pp) /\ th[t] \in Thread
        BY <1>0, <3>1, OwnImplies, UsedElems DEF IInv, TypeOK
      <4>2. pp[th[t].elem] \in Pending
        BY <1>0, <4>1 DEF TypeOK
      <4>3. pp[th[t].elem].id \in Int /\ th[t].elem \in Int /\ th[t].elem >= 0
        BY <4>1, <4>2 DEF Pending
      <4> QED BY <4>3, PacketType DEF PacketOf, Req
    <3> HIDE DEF PacketOf
    <3>3. CASE UNCHANGED toBus
      BY <1>0, <3>1, <3>3, ReplyQuiet
    <3>4. CASE Write(PacketOf(t))
      BY <1>0, <3>1, <3>2, <3>4, ReplyOther
    <3> QED BY <3>1, <3>3, <3>4
  <2> QED BY <1>2, <2>1, <2>2 DEF Continue
<1>3. CASE reader_select \/ reader_null \/ reader_deliver
  <2>1. /\ UNCHANGED <<toApp, toBus, served, pkt, running, busSent>>
        /\ reader' \in {"req", "ans"} => reader' = reader
    BY <1>3 DEF reader_select, reader_null, reader_deliver
  <2> QED BY <1>0, <2>1, ReplyQuiet
<1>4. CASE reader_find
  <2>1. /\ UNCHANGED <<toApp, served, pkt, running, busSent>> /\ reader = "ans"
        /\ reader' \in {"ppLock", "select"}
        /\ UNCHANGED toBus \/ Write(Ans(pkt, "err"))
    BY <1>4 DEF reader_find, Unexpected
  <2>2. Ans(pkt, "err") \in Packet /\ Ans(pkt, "err").by >= 0
    BY <1>0, <2>1, PacketType DEF ReplyInv, SignInv, Ans
  <2>3. CASE UNCHANGED toBus
    BY <1>0, <2>1, <2>3, ReplyQuiet
  <2>4. CASE Write(Ans(pkt, "err"))
    <3> HIDE DEF Ans
    <3> QED BY <1>0, <2>1, <2>2, <2>4, ReplyOther
  <2> QED BY <2>1, <2>3, <2>4
<1>5. CASE reader_request
  <2>1. /\ UNCHANGED <<toApp, served, pkt, busSent>> /\ reader = "req" /\ reader' = "select"
        /\ \/ UNCHANGED toBus /\ \E c : running' = running \cup {[pkt |-> pkt, callback |-> c]}
           \/ Write(Ans(pkt, "err")) /\ UNCHANGED running
    BY <1>5 DEF reader_request, Unexpected
  <2>2. CASE UNCHANGED toBus /\ \E c : running' = running \cup {[pkt |-> pkt, callback |-> c]}
    BY <1>0, <2>1, <2>2, ReplyStarted
  <2>3. CASE Write(Ans(pkt, "err")) /\ UNCHANGED running
    BY <1>0, <2>1, <2>3, ReplyWritten
  <2> QED BY <2>1, <2>2, <2>3
<1>6. ASSUME NEW r \in running, sdb_thread_run_callback(r) PROVE ReplyInv'
  <2>1. /\ UNCHANGED <<toApp, served, pkt, busSent, reader>>
        /\ running' = running \ {r} /\ Write(Ans(r.pkt, "ok")) /\ r.pkt \in Packet
    BY <1>0, <1>6 DEF sdb_thread_run_callback, TypeOK
  <2> QED BY <1>0, <2>1, ReplyWritten
<1>7. ASSUME NEW i \in 1..Len(toBus), NEW result \in {"ok", "err"},
             bus_answer(i, result) \/ bus_answer_again(i)
      PROVE  ReplyInv'
  <2>1. /\ toBus[i] \in Packet /\ toBus[i].type = "req" /\ toBus[i].by >= 0 /\ busSent \in Nat
        /\ busSent' >= busSent /\ \A k \in served' : toBus[k].type = "req"
    BY <1>0, <1>7, SMTT(30) DEF bus_answer, bus_answer_again, ReplyInv, SignInv, TypeOK
  <2>2. PICK res \in {"ok", "err"} : BusPut(Ans(toBus[i], res))
    BY <1>7 DEF bus_answer, bus_answer_again
  <2>3. Ans(toBus[i], res) \in Packet /\ Ans(toBus[i], res).by >= 0
    BY <2>1, PacketType DEF Ans
  <2>4. /\ UNCHANGED <<toBus, reader, pkt, running>>
        /\ toApp' = Append(toApp, Ans(toBus[i], res))
    BY <2>2 DEF BusPut
  <2> HIDE DEF Ans
  <2> QED BY <1>0, <2>1, <2>3, <2>4, ReplySent
<1>8. ASSUME NEW c \in Cmds, bus_request(c) PROVE ReplyInv'
  <2> DEFINE p == Req(-(busSent + 1), -(busSent + 1), c)
  <2>1. busSent \in Nat /\ -(busSent + 1) \in Int
    BY <1>0 DEF TypeOK
  <2>2. p \in Packet /\ p.type = "req" /\ p.by = -(busSent + 1)
    BY <2>1, PacketType DEF Req
  <2>3. /\ UNCHANGED <<toBus, reader, pkt, running, served>>
        /\ toApp' = Append(toApp, p) /\ busSent' = busSent + 1
    BY <1>8 DEF bus_request, BusPut
  <2> HIDE DEF p
  <2>4. busSent' >= busSent /\ \A k \in served' : toBus[k].type = "req"
    BY <2>1, <2>3 DEF ReplyInv, SignInv
  <2> QED BY <1>0, <2>2, <2>3, <2>4, ReplySent
<1>9. CASE bus_close \/ sigpipe \/ UNCHANGED vars
  <2>1. UNCHANGED <<toApp, toBus, served, pkt, running, busSent, reader>>
    BY <1>9 DEF bus_close, sigpipe, vars
  <2> QED BY <1>0, <2>1, ReplyQuiet
<1> QED
  BY <1>0, <1>1, <1>2, <1>3, <1>4, <1>5, <1>6, <1>7, <1>8, <1>9, ReplyRead
  DEF Next, Reader, Callback, Bus

\* A request of the bus gets one answer, from its callback or from the reader,
\* whatever the threads of the program register and unregister meanwhile.
THEOREM RepliesOnce ==
    ASSUME "collide" \notin Faults
    PROVE  Spec => []ReplyOnce
<1>1. Init => ReplyInv
  <2> SUFFICES ASSUME Init PROVE ReplyInv
    OBVIOUS
  <2>1. /\ toApp = <<>> /\ toBus = <<>> /\ running = {} /\ served = {} /\ reader = "none"
        /\ Len(toApp) = 0 /\ Len(toBus) = 0
    BY DEF Init
  <2>2. SignInv
    BY <2>1 DEF SignInv
  <2>3. ASSUME NEW n \in Int PROVE OnePlace(n)
    BY <2>1 DEF OnePlace, OnSocket, InHand, InCallback, Replied, Once
  <2> QED BY <2>2, <2>3 DEF ReplyInv
<1>2. IInv => TypeOK
  BY DEF IInv
<1>3. IInv /\ TypeOK' /\ ReplyInv /\ [Next]_vars => ReplyInv'
  BY ReplyStep
<1>4. TypeOK /\ ReplyInv => ReplyOnce
  <2> SUFFICES ASSUME TypeOK, ReplyInv, NEW i \in 1..Len(toBus), NEW j \in 1..Len(toBus),
                      toBus[i].by = toBus[j].by, toBus[i].by < 0
               PROVE  i = j
    BY DEF ReplyOnce
  <2>1. toBus[i] \in Packet
    BY DEF TypeOK
  <2>2. toBus[i].by \in Int
    BY <2>1 DEF Packet
  <2> QED BY <2>2 DEF ReplyInv, OnePlace, Once
<1> QED
  BY <1>1, <1>2, <1>3, <1>4, Invariance, PTL DEF Spec

=============================================================================
