-------------------------- MODULE Firmware_proofs ---------------------------
(***************************************************************************)
(* Proofs about the firmware: what the interrupt finds below eventCount is *)
(* complete, the daemon reads every answer as the answer to its packet,    *)
(* and an event is due again in time where time overflows, for any         *)
(* packets, any number of events and any range of time.                    *)
(***************************************************************************)
EXTENDS Firmware, TLAPS

-----------------------------------------------------------------------------
(* The bytes of a packet.                                                  *)

\* Both sides agree on a packet of the daemon: process_packet undoes mcs_to_usb.
LEMMA PacketRead ==
    ASSUME NEW p, Fits(p)
    PROVE  process_packet(mcs_to_usb(p)) = p
<1> DEFINE raw == mcs_to_usb(p)
<1> DEFINE size == raw.head[5] \div 2 + (raw.head[4] \div 2) * 128
<1>1. /\ raw.head[1] = Byte(p.command * 32) + ((p.parameters * 2) % 32) + 1
      /\ raw.head[2] = Byte(p.arg1 * 2 + 1)
      /\ raw.head[3] = Byte(p.arg2 * 2 + 1)
      /\ raw.head[4] = (((p.size \div 128) * 2) % 256) + 1
      /\ raw.head[5] = Byte(p.size * 2) + 1
      /\ raw.data = p.data /\ raw.last = Byte(p.id * 2) /\ raw.len = 6 + p.size
  BY DEF mcs_to_usb
<1>2. /\ p.command \in 0..7 /\ p.parameters \in 0..15 /\ p.size \in 0..250
      /\ p.arg1 \in 0..127 /\ p.arg2 \in 0..127 /\ p.id \in 0..127
  BY DEF Fits, SDB_USB_DATA_SIZE
<1>3. (raw.head[1] \div 32) % 8 = p.command /\ (raw.head[1] \div 2) % 16 = p.parameters
  <2>1. Byte(p.command * 32) = p.command * 32
    BY <1>2 DEF Byte
  <2>2. (p.parameters * 2) % 32 = p.parameters * 2
    BY <1>2
  <2> QED BY <1>1, <1>2, <2>1, <2>2
<1>4. raw.head[2] \div 2 = p.arg1
  BY <1>1, <1>2 DEF Byte
<1>5. raw.head[3] \div 2 = p.arg2
  BY <1>1, <1>2 DEF Byte
<1>6. size = p.size
  BY <1>1, <1>2 DEF Byte
<1>7. IdAt(raw, 5 + size) = p.id
  <2>1. 5 + size = raw.len - 1
    BY <1>1, <1>2, <1>6
  <2>2. raw.last \div 2 = p.id
    BY <1>1, <1>2 DEF Byte
  <2> QED BY <2>1, <2>2 DEF IdAt
<1>8. (IF size > 0 THEN raw.data ELSE NULL) = p.data
  BY <1>1, <1>2, <1>6 DEF Fits
<1>9. process_packet(raw) =
        [command |-> p.command, parameters |-> p.parameters, arg1 |-> p.arg1,
         arg2 |-> p.arg2, size |-> p.size, data |-> p.data, id |-> p.id]
  BY <1>3, <1>4, <1>5, <1>6, <1>7, <1>8 DEF process_packet
<1> QED BY <1>9 DEF Fits

\* An answer with few data is what the daemon reads: usb_to_mcs undoes to_raw.
LEMMA AnswerRead ==
    ASSUME NEW t \in 0..2, NEW n \in 0..2, NEW d \in 0..127,
           t # OK_DATA => n = 0
    PROVE  usb_to_mcs(to_raw(Response(t, n, d))) = [type |-> t, size |-> n, id |-> d]
<1> DEFINE raw == to_raw(Response(t, n, d))
<1> DEFINE size == (raw.head[4] \div 2) * 256 + raw.head[5] \div 2
<1>1. /\ raw.head[1] = Byte(0) + ((t * 2) % 32) + 1
      /\ raw.head[4] = Byte(n \div 128 + 1)
      /\ raw.head[5] = Byte(n * 2 + 1)
      /\ raw.last = Byte(d * 2) /\ raw.len = 6 + n
  BY DEF to_raw, Response
<1>2. raw.head[1] \div 2 = t
  BY <1>1 DEF Byte
<1>3. size = n
  BY <1>1 DEF Byte
<1>4. IdAt(raw, 5 + size) = d
  <2>1. 5 + size = raw.len - 1
    BY <1>1, <1>3
  <2>2. raw.last \div 2 = d
    BY <1>1 DEF Byte
  <2> QED BY <2>1, <2>2 DEF IdAt
<1>5. ~(raw.len < 6 \/ (size > 0 /\ raw.len # size + 6))
  BY <1>1, <1>3
<1>6. (IF t \in {OK, OK_DATA} THEN t ELSE ERRORS) = t
  BY DEF OK, OK_DATA, ERRORS
<1>7. (IF t = OK_DATA THEN n ELSE 0) = n
  OBVIOUS
<1>8. usb_to_mcs(raw) =
        [type |-> IF t \in {OK, OK_DATA} THEN t ELSE ERRORS,
         size |-> IF t = OK_DATA THEN n ELSE 0, id |-> d]
  BY <1>2, <1>3, <1>4, <1>5 DEF usb_to_mcs
<1> QED BY <1>6, <1>7, <1>8

\* The results execute_packet can have.
LEMMA ResultValues ==
    ASSUME NEW p, Fits(p), Result(p) # NULL
    PROVE  Result(p) \in {<<0, 0>>, <<1, 1>>, <<1, 2>>, <<2, 0>>}
BY DEF Result, Fits, OK, OK_DATA, ERRORS, BASIC_IO, COMMS, EVENT, SERVO, CONF, DUMP, MAX_SERIAL

-----------------------------------------------------------------------------
(* Events in the making.                                                   *)

Making == {"execute0", "action", "count"}

Fields(e) == [interval |-> e.interval, execute |-> e.execute, action |-> e.action]

\* A slot in the making is the first one that is not counted; it has what was
\* assigned so far.  event_list and configured are functions on the slots.
SlotInv ==
    /\ eventCount \in Nat
    /\ configured = [s \in Slots |-> configured[s]]
    /\ event_list = [s \in Slots |-> Fields(event_list[s])]
    /\ SlotReady
    /\ pc \in Making =>
        /\ eventCount \in Slots
        /\ configured[eventCount] = packet
        /\ event_list[eventCount].interval = packet.arg1
    /\ pc = "count" => event_list[eventCount].action = process_packet(packet.data)

LEMMA SlotInit == Init => SlotInv
BY FirmwareAssumption DEF Init, SlotInv, Fields, SlotReady, Events, Making, Slots

\* A step that leaves slots and events alone, and does not begin or go on with
\* the making of one.
LEMMA SlotKept ==
    ASSUME SlotInv, UNCHANGED <<event_list, eventCount, configured>>,
           pc' \notin Making
    PROVE  SlotInv'
BY DEF SlotInv, SlotReady, Events, Making

\* An assignment to a field of an event changes that field of that event.
LEMMA IntervalAssigned ==
    ASSUME SlotInv, NEW k \in Slots, NEW v, event_list' = [event_list EXCEPT ![k].interval = v]
    PROVE  /\ event_list' = [s \in Slots |-> Fields(event_list'[s])]
           /\ event_list'[k].interval = v
           /\ \A s \in Slots \ {k} : event_list'[s] = event_list[s]
<1> DEFINE e == [event_list[k] EXCEPT !.interval = v]
<1>1. DOMAIN event_list = Slots /\ \A s \in Slots : event_list[s] = Fields(event_list[s])
  BY DEF SlotInv
<1>2. event_list[k] = [interval |-> event_list[k].interval, execute |-> event_list[k].execute,
                       action |-> event_list[k].action]
  BY <1>1 DEF Fields
<1>3. e = Fields(e) /\ e.interval = v
  BY <1>2 DEF Fields
<1>4. event_list' = [event_list EXCEPT ![k] = e]
  OBVIOUS
<1> HIDE DEF e
<1>5. /\ DOMAIN event_list' = Slots /\ event_list'[k] = e
      /\ \A s \in Slots \ {k} : event_list'[s] = event_list[s]
  BY <1>1, <1>4
<1>6. \A s \in Slots : event_list'[s] = Fields(event_list'[s])
  BY <1>1, <1>3, <1>5
<1>7. event_list' = [s \in Slots |-> event_list'[s]]
  BY <1>4, <1>5
<1> QED BY <1>3, <1>5, <1>6, <1>7

LEMMA ExecuteAssigned ==
    ASSUME SlotInv, NEW k \in Slots, NEW v, event_list' = [event_list EXCEPT ![k].execute = v]
    PROVE  /\ event_list' = [s \in Slots |-> Fields(event_list'[s])]
           /\ event_list'[k].interval = event_list[k].interval /\ event_list'[k].action = event_list[k].action
           /\ \A s \in Slots \ {k} : event_list'[s] = event_list[s]
<1> DEFINE e == [event_list[k] EXCEPT !.execute = v]
<1>1. DOMAIN event_list = Slots /\ \A s \in Slots : event_list[s] = Fields(event_list[s])
  BY DEF SlotInv
<1>2. event_list[k] = [interval |-> event_list[k].interval, execute |-> event_list[k].execute,
                       action |-> event_list[k].action]
  BY <1>1 DEF Fields
<1>3. e = Fields(e) /\ e.interval = event_list[k].interval /\ e.action = event_list[k].action
  BY <1>2 DEF Fields
<1>4. event_list' = [event_list EXCEPT ![k] = e]
  OBVIOUS
<1> HIDE DEF e
<1>5. /\ DOMAIN event_list' = Slots /\ event_list'[k] = e
      /\ \A s \in Slots \ {k} : event_list'[s] = event_list[s]
  BY <1>1, <1>4
<1>6. \A s \in Slots : event_list'[s] = Fields(event_list'[s])
  BY <1>1, <1>3, <1>5
<1>7. event_list' = [s \in Slots |-> event_list'[s]]
  BY <1>4, <1>5
<1> QED BY <1>3, <1>5, <1>6, <1>7

LEMMA ActionAssigned ==
    ASSUME SlotInv, NEW k \in Slots, NEW v, event_list' = [event_list EXCEPT ![k].action = v]
    PROVE  /\ event_list' = [s \in Slots |-> Fields(event_list'[s])]
           /\ event_list'[k].interval = event_list[k].interval /\ event_list'[k].action = v
           /\ \A s \in Slots \ {k} : event_list'[s] = event_list[s]
<1> DEFINE e == [event_list[k] EXCEPT !.action = v]
<1>1. DOMAIN event_list = Slots /\ \A s \in Slots : event_list[s] = Fields(event_list[s])
  BY DEF SlotInv
<1>2. event_list[k] = [interval |-> event_list[k].interval, execute |-> event_list[k].execute,
                       action |-> event_list[k].action]
  BY <1>1 DEF Fields
<1>3. e = Fields(e) /\ e.interval = event_list[k].interval /\ e.action = v
  BY <1>2 DEF Fields
<1>4. event_list' = [event_list EXCEPT ![k] = e]
  OBVIOUS
<1> HIDE DEF e
<1>5. /\ DOMAIN event_list' = Slots /\ event_list'[k] = e
      /\ \A s \in Slots \ {k} : event_list'[s] = event_list[s]
  BY <1>1, <1>4
<1>6. \A s \in Slots : event_list'[s] = Fields(event_list'[s])
  BY <1>1, <1>3, <1>5
<1>7. event_list' = [s \in Slots |-> event_list'[s]]
  BY <1>4, <1>5
<1> QED BY <1>3, <1>5, <1>6, <1>7

LEMMA SlotStep == SlotInv /\ [Next]_vars => SlotInv'
<1> SUFFICES ASSUME SlotInv, [Next]_vars PROVE SlotInv'
  OBVIOUS
<1>1. ASSUME NEW p \in Packets, loop_receive(p) PROVE SlotInv'
  BY <1>1, SlotKept DEF loop_receive, Making
<1>2. CASE loop_nothing
  BY <1>2, SlotKept DEF loop_nothing, Making, history
<1>3. CASE execute_packet
  BY <1>3, SlotKept DEF execute_packet, Making, Answered, history
<1>4. CASE conf_interval
  <2>1. CASE ~(eventCount \in Slots /\ ~Dangling)
    BY <1>4, <2>1, SlotKept DEF conf_interval, Making
  <2>2. CASE eventCount \in Slots /\ ~Dangling
    <3>1. /\ event_list' = [event_list EXCEPT ![eventCount].interval = packet.arg1]
          /\ configured' = [configured EXCEPT ![eventCount] = packet]
          /\ eventCount' = eventCount /\ packet' = packet /\ pc' = "execute0"
      BY <1>4, <2>2 DEF conf_interval
    <3>2. /\ event_list' = [s \in Slots |-> Fields(event_list'[s])]
          /\ event_list'[eventCount].interval = packet.arg1
          /\ \A s \in Slots \ {eventCount} : event_list'[s] = event_list[s]
      BY <2>2, <3>1, IntervalAssigned
    <3>3. /\ configured' = [s \in Slots |-> configured'[s]]
          /\ configured'[eventCount] = packet
          /\ \A s \in Slots \ {eventCount} : configured'[s] = configured[s]
      BY <2>2, <3>1 DEF SlotInv
    <3>4. eventCount \in Nat /\ eventCount \notin Events
      BY DEF SlotInv, Events
    <3>5. SlotReady'
      BY <3>1, <3>2, <3>3, <3>4 DEF SlotInv, SlotReady, Events
    <3> QED BY <2>2, <3>1, <3>2, <3>3, <3>4, <3>5 DEF SlotInv, Making
  <2> QED BY <2>1, <2>2
<1>5. CASE conf_execute
  <2>1. /\ event_list' = [event_list EXCEPT ![eventCount].execute = 0]
        /\ eventCount \in Slots /\ pc \in Making /\ pc' = "action"
        /\ UNCHANGED <<eventCount, configured, packet>>
    BY <1>5 DEF conf_execute, SlotInv, Making, history
  <2>2. /\ event_list' = [s \in Slots |-> Fields(event_list'[s])]
        /\ event_list'[eventCount].interval = event_list[eventCount].interval
        /\ \A s \in Slots \ {eventCount} : event_list'[s] = event_list[s]
    BY <2>1, ExecuteAssigned
  <2> QED BY <2>1, <2>2 DEF SlotInv, SlotReady, Events, Making, Slots
<1>6. CASE conf_action
  <2>1. /\ event_list' = [event_list EXCEPT ![eventCount].action = process_packet(packet.data)]
        /\ eventCount \in Slots /\ pc \in Making /\ pc' = "count"
        /\ UNCHANGED <<eventCount, configured, packet>>
    BY <1>6 DEF conf_action, SlotInv, Making, history
  <2>2. /\ event_list' = [s \in Slots |-> Fields(event_list'[s])]
        /\ event_list'[eventCount].interval = event_list[eventCount].interval
        /\ event_list'[eventCount].action = process_packet(packet.data)
        /\ \A s \in Slots \ {eventCount} : event_list'[s] = event_list[s]
    BY <2>1, ActionAssigned
  <2> QED BY <2>1, <2>2 DEF SlotInv, SlotReady, Events, Making, Slots
<1>7. CASE conf_count
  BY <1>7 DEF conf_count, SlotInv, SlotReady, Events, Making, Slots, Answered, history
<1>8. CASE loop_respond
  BY <1>8, SlotKept DEF loop_respond, Making
<1>9. CASE loop_scan
  BY <1>9, SlotKept DEF loop_scan, Making, history
<1>10. CASE save_event_data
  BY <1>10, SlotKept DEF save_event_data, Making, history
<1>11. CASE loop_clear
  <2>1. /\ event_list' = [event_list EXCEPT ![i].execute = 0]
        /\ pc' = "scan" /\ UNCHANGED <<eventCount, configured>>
    BY <1>11 DEF loop_clear, history
  <2>2. CASE i \notin Slots
    <3>1. event_list' = event_list
      BY <2>1, <2>2 DEF SlotInv
    <3> QED BY <2>1, <3>1, SlotKept DEF Making
  <2>3. CASE i \in Slots
    <3>1. /\ event_list' = [s \in Slots |-> Fields(event_list'[s])]
          /\ event_list'[i].interval = event_list[i].interval
          /\ event_list'[i].action = event_list[i].action
          /\ \A s \in Slots \ {i} : event_list'[s] = event_list[s]
      BY <2>1, <2>3, ExecuteAssigned
    <3> QED BY <2>1, <3>1 DEF SlotInv, SlotReady, Events, Making
  <2> QED BY <2>2, <2>3
<1>12. CASE events_routine
  BY <1>12 DEF events_routine, SlotInv, Fields, SlotReady, Events, Making, Slots
<1>13. CASE cable
  BY <1>13 DEF cable, SlotInv, SlotReady, Events, Making, history
<1>14. CASE UNCHANGED vars
  BY <1>14 DEF vars, SlotInv, SlotReady, Events, Making, history
<1> QED
  BY <1>1, <1>2, <1>3, <1>4, <1>5, <1>6, <1>7, <1>8, <1>9, <1>10, <1>11, <1>12, <1>13, <1>14
     DEF Next, loop

\* However the interrupt falls into EVENT CONF, all it and the loop find below
\* eventCount is an event with the interval and the action it was configured with.
THEOREM EventsReady == Spec => []SlotReady
<1>1. SlotInv => SlotReady
  BY DEF SlotInv
<1> QED BY <1>1, SlotInit, SlotStep, PTL DEF Spec

-----------------------------------------------------------------------------
(* Packets and answers.                                                    *)

\* The answers there are, as bytes.
Answers == {to_raw(Response(t, n, d)) : t \in 0..2, n \in 0..2, d \in 0..127}

\* A packet of the daemon is being worked on.
Open == slot = NULL /\ pc \in {"execute", "respond"} \cup Making

\* One answer is missing while a packet is worked on, and none otherwise; the
\* response that waits to be sent is the expected one.
AnswerInv ==
    /\ asked \in Seq(Packets) /\ sent \in Seq(Answers)
    /\ pc \in {"receive", "execute", "respond", "scan", "save", "clear"} \cup Making
    /\ pc \in {"receive", "respond", "scan"} => slot = NULL
    /\ pc \in {"save", "clear"} => slot # NULL
    /\ pc \in Making => Configures(packet)
    /\ IF Open THEN Len(asked) = Len(sent) + 1 /\ packet = asked[Len(asked)]
               ELSE Len(asked) = Len(sent)
    /\ pc = "respond" =>
        /\ Configures(packet) \/ Result(packet) # NULL
        /\ response = Response(Expected(packet).type, Expected(packet).size, packet.id)
    /\ \A k \in 1..Len(sent) : usb_to_mcs(sent[k]) = Expected(asked[k])

LEMMA AnswerInit == Init => AnswerInv
BY DEF Init, AnswerInv, Open, Making

\* The response to a packet of the daemon reaches it as the expected one.
LEMMA ExpectedRead ==
    ASSUME NEW p, Fits(p), Configures(p) \/ Result(p) # NULL
    PROVE  LET raw == to_raw(Response(Expected(p).type, Expected(p).size, p.id))
           IN raw \in Answers /\ usb_to_mcs(raw) = Expected(p)
<1> DEFINE r == IF Configures(p) THEN <<OK, 0>> ELSE Result(p)
<1>1. r \in {<<0, 0>>, <<1, 1>>, <<1, 2>>, <<2, 0>>}
  BY ResultValues DEF OK
<1>2. Expected(p) = [type |-> r[1], size |-> r[2], id |-> p.id]
  BY DEF Expected
<1>3. p.id \in 0..127
  BY DEF Fits
<1> HIDE DEF r
<1>4. r[1] \in 0..2 /\ r[2] \in 0..2 /\ (r[1] # OK_DATA => r[2] = 0)
  BY <1>1 DEF OK_DATA
<1>5. usb_to_mcs(to_raw(Response(r[1], r[2], p.id))) = [type |-> r[1], size |-> r[2], id |-> p.id]
  BY <1>3, <1>4, AnswerRead
<1>6. to_raw(Response(r[1], r[2], p.id)) \in Answers
  BY <1>3, <1>4 DEF Answers
<1>7. Expected(p).type = r[1] /\ Expected(p).size = r[2]
  BY <1>2
<1> QED BY <1>2, <1>5, <1>6, <1>7

\* A step that leaves packets and answers alone and stays where it is, with
\* respect to them.
LEMMA AnswerKept ==
    ASSUME AnswerInv, UNCHANGED <<asked, sent, slot, packet, response, pc>>
    PROVE  AnswerInv'
BY DEF AnswerInv, Open, Making

LEMMA AnswerStep == AnswerInv /\ [Next]_vars => AnswerInv'
<1> SUFFICES ASSUME AnswerInv, [Next]_vars PROVE AnswerInv'
  OBVIOUS
<1>0. asked \in Seq(Packets) /\ sent \in Seq(Answers)
  BY DEF AnswerInv
<1>1. ASSUME NEW p \in Packets, loop_receive(p) PROVE AnswerInv'
  <2>1. Fits(p)
    BY FirmwareAssumption
  <2>2. packet' = p
    BY <1>1, <2>1, PacketRead DEF loop_receive
  <2>3. Len(asked) = Len(sent)
    BY <1>1 DEF loop_receive, AnswerInv, Open, Making
  <2> QED BY <1>1, <1>0, <2>2, <2>3 DEF loop_receive, AnswerInv, Open, Making
<1>2. CASE loop_nothing
  BY <1>2 DEF loop_nothing, AnswerInv, Open, Making, history
<1>3. CASE execute_packet
  <2>1. CASE Dangling \/ Result(packet) = NULL
    BY <1>3, <2>1, AnswerKept DEF execute_packet, history
  <2>2. CASE ~(Dangling \/ Result(packet) = NULL)
    <3>1. Expected(packet).type = Result(packet)[1] /\ Expected(packet).size = Result(packet)[2]
      BY <1>3 DEF execute_packet, Expected
    <3> QED BY <1>3, <2>2, <3>1 DEF execute_packet, AnswerInv, Open, Making, Answered, history
  <2> QED BY <2>1, <2>2
<1>4. CASE conf_interval
  BY <1>4 DEF conf_interval, AnswerInv, Open, Making
<1>5. CASE conf_execute
  BY <1>5 DEF conf_execute, AnswerInv, Open, Making, history
<1>6. CASE conf_action
  BY <1>6 DEF conf_action, AnswerInv, Open, Making, history
<1>7. CASE conf_count
  <2>1. Expected(packet).type = OK /\ Expected(packet).size = 0
    BY <1>7 DEF conf_count, AnswerInv, Making, Expected
  <2> QED BY <1>7, <2>1 DEF conf_count, AnswerInv, Open, Making, Answered, history
<1>8. CASE loop_respond
  <2>1. /\ Len(asked) = Len(sent) + 1 /\ packet = asked[Len(asked)]
        /\ Configures(packet) \/ Result(packet) # NULL
        /\ response = Response(Expected(packet).type, Expected(packet).size, packet.id)
    BY <1>8 DEF loop_respond, AnswerInv, Open
  <2>2. packet \in Packets
    BY <1>0, <2>1
  <2>3. to_raw(response) \in Answers /\ usb_to_mcs(to_raw(response)) = Expected(packet)
    BY <2>1, <2>2, FirmwareAssumption, ExpectedRead
  <2>4. sent' \in Seq(Answers) /\ Len(sent') = Len(sent) + 1
    BY <1>8, <1>0, <2>3 DEF loop_respond
  <2>5. \A k \in 1..Len(sent') : usb_to_mcs(sent'[k]) = Expected(asked'[k])
    BY <1>8, <1>0, <2>1, <2>3 DEF loop_respond, AnswerInv
  <2> QED BY <1>8, <2>1, <2>4, <2>5 DEF loop_respond, AnswerInv, Open, Making
<1>9. CASE loop_scan
  <2>1. Slots \subseteq Nat
    BY FirmwareAssumption DEF Slots
  <2> QED BY <1>9, <2>1, FirmwareAssumption DEF loop_scan, AnswerInv, Open, Making, Events, history
<1>10. CASE save_event_data
  BY <1>10 DEF save_event_data, AnswerInv, Open, Making, history
<1>11. CASE loop_clear
  BY <1>11 DEF loop_clear, AnswerInv, Open, Making, history
<1>12. CASE events_routine
  BY <1>12, AnswerKept DEF events_routine
<1>13. CASE cable
  BY <1>13, AnswerKept DEF cable, history
<1>14. CASE UNCHANGED vars
  BY <1>14, AnswerKept DEF vars, history
<1> QED
  BY <1>1, <1>2, <1>3, <1>4, <1>5, <1>6, <1>7, <1>8, <1>9, <1>10, <1>11, <1>12, <1>13, <1>14
     DEF Next, loop

\* Whatever the daemon sends and whichever events run in between, the k-th answer
\* of the board, read by usb_to_mcs, is the one expected for the k-th packet.
THEOREM AnswersMatch == Spec => []AnswersInOrder
<1>1. AnswerInv => AnswersInOrder
  BY DEF AnswerInv, AnswersInOrder
<1> QED BY <1>1, AnswerInit, AnswerStep, PTL DEF Spec

-----------------------------------------------------------------------------
(* Remainders.                                                             *)

LEMMA ProductBound ==
    ASSUME NEW n \in Nat, NEW q \in Int, q >= 1
    PROVE  n * q >= n
BY SMT

LEMMA ModDef ==
    ASSUME NEW n \in Nat \ {0}, NEW t \in Int
    PROVE  /\ t \div n \in Int /\ t % n \in 0..(n - 1)
           /\ t = n * (t \div n) + (t % n)
<1>1. t \div n \in Int
  OBVIOUS
<1>2. t % n \in 0..(n - 1)
  OBVIOUS
<1>3. t = n * (t \div n) + (t % n)
  OBVIOUS
<1> QED BY <1>1, <1>2, <1>3

LEMMA ModUnique ==
    ASSUME NEW n \in Nat \ {0}, NEW q \in Int, NEW r \in 0..(n - 1)
    PROVE  (n * q + r) % n = r
<1> DEFINE t == n * q + r
<1>1. t \in Int
  OBVIOUS
<1> DEFINE d == t \div n
<1>2. d \in Int /\ t % n \in 0..(n - 1) /\ n * q + r = n * d + (t % n)
  BY <1>1, ModDef
<1> DEFINE m == t % n
<1> HIDE DEF d, m, t
<1>3. n * (q - d) = m - r /\ n * (d - q) = r - m
  <2>1. \A a, b, x, y \in Int : n * a + x = n * b + y => n * (a - b) = y - x
    OBVIOUS
  <2>2. m \in Int /\ n * q + r = n * d + m
    BY <1>2 DEF m
  <2> QED BY <1>2, <2>1, <2>2
<1>4. CASE q - d >= 1
  BY <1>2, <1>3, <1>4, ProductBound DEF m
<1>5. CASE d - q >= 1
  BY <1>2, <1>3, <1>5, ProductBound DEF m
<1>6. CASE q = d
  BY <1>2, <1>6 DEF m, t
<1> QED BY <1>2, <1>4, <1>5, <1>6

\* Of n numbers in a row one is a multiple of n.
LEMMA OneMultiple ==
    ASSUME NEW n \in Nat \ {0}, NEW t \in Int
    PROVE  \E k \in 1..n : (t - k) % n = 0
<1> DEFINE q == t \div n  r == t % n
<1>1. q \in Int /\ r \in 0..(n - 1) /\ t = n * q + r
  BY ModDef
<1> HIDE DEF q, r
<1>2. CASE r = 0
  <2>1. t - n = n * (q - 1) + 0
    BY <1>1, <1>2
  <2>2. (n * (q - 1) + 0) % n = 0
    <3>1. q - 1 \in Int /\ 0 \in 0..(n - 1)
      BY <1>1
    <3> QED BY <3>1, ModUnique
  <2> QED BY <2>1, <2>2
<1>3. CASE r # 0
  <2>1. t - r = n * q + 0
    BY <1>1
  <2>2. (n * q + 0) % n = 0
    <3>1. 0 \in 0..(n - 1)
      OBVIOUS
    <3> QED BY <1>1, <3>1, ModUnique
  <2> QED BY <1>1, <1>3, <2>1, <2>2
<1> QED BY <1>2, <1>3

LEMMA ZeroMultiple == ASSUME NEW n \in Nat \ {0} PROVE 0 % n = 0
<1>1. 0 \in Int /\ 0 \in 0..(n - 1)
  OBVIOUS
<1>2. (n * 0 + 0) % n = 0
  BY <1>1, ModUnique
<1> QED BY <1>2

\* time++: one more, or from the greatest int to the least.
LEMMA TimeNext ==
    ASSUME time \in -Half..(Half - 1)
    PROVE  Wrap(time + 1) = IF time = Half - 1 THEN -Half ELSE time + 1
<1>0. Half \in Nat \ {0} /\ 2 * Half \in Nat \ {0}
  BY FirmwareAssumption
<1> DEFINE n == 2 * Half
<1>1. CASE time = Half - 1
  <2>1. time + 1 + Half = n * 1 + 0 /\ 0 \in 0..(n - 1) /\ 1 \in Int
    BY <1>0, <1>1
  <2>2. (n * 1 + 0) % n = 0
    BY <1>0, <2>1, ModUnique
  <2> QED BY <1>0, <1>1, <2>1, <2>2 DEF Wrap
<1>2. CASE time # Half - 1
  <2>1. time + 1 + Half = n * 0 + (time + 1 + Half) /\ time + 1 + Half \in 0..(n - 1) /\ 0 \in Int
    BY <1>0, <1>2
  <2>2. (n * 0 + (time + 1 + Half)) % n = time + 1 + Half
    BY <1>0, <2>1, ModUnique
  <2> QED BY <1>0, <1>2, <2>1, <2>2 DEF Wrap
<1> QED BY <1>1, <1>2

-----------------------------------------------------------------------------
(* Types.                                                                  *)

\* What events_routine does to a slot: at most its flag is set.
LEMMA RoutineSlots ==
    ASSUME SlotInv, events_routine
    PROVE  \A s \in Slots :
              /\ event_list'[s].interval = event_list[s].interval
              /\ event_list'[s].action = event_list[s].action
              /\ event_list'[s].execute \in {1, event_list[s].execute}
<1>1. PICK due \in SUBSET Events :
        event_list' = [s \in Slots |-> IF s \in due THEN [event_list[s] EXCEPT !.execute = 1]
                                       ELSE event_list[s]]
  BY DEF events_routine
<1> SUFFICES ASSUME NEW s \in Slots
             PROVE  /\ event_list'[s].interval = event_list[s].interval
                    /\ event_list'[s].action = event_list[s].action
                    /\ event_list'[s].execute \in {1, event_list[s].execute}
  OBVIOUS
<1>2. event_list[s] = [interval |-> event_list[s].interval, execute |-> event_list[s].execute,
                       action |-> event_list[s].action]
  BY DEF SlotInv, Fields
<1> QED BY <1>1, <1>2

\* An assignment to the flag of a slot, if it is one.
LEMMA FlagAssigned ==
    ASSUME SlotInv, NEW k, NEW v \in {0, 1}, event_list' = [event_list EXCEPT ![k].execute = v],
           NEW s \in Slots
    PROVE  /\ event_list'[s].interval = event_list[s].interval
           /\ event_list'[s].action = event_list[s].action
           /\ event_list'[s].execute \in {v, event_list[s].execute}
<1>1. event_list[s] = [interval |-> event_list[s].interval, execute |-> event_list[s].execute,
                       action |-> event_list[s].action]
  BY DEF SlotInv, Fields
<1>2. DOMAIN event_list = Slots
  BY DEF SlotInv
<1>3. CASE s = k
  <2>1. event_list'[s] = [event_list[s] EXCEPT !.execute = v]
    BY <1>2, <1>3
  <2> QED BY <1>1, <2>1
<1>4. CASE s # k
  BY <1>2, <1>4
<1> QED BY <1>3, <1>4

LEMMA TypeInit == Init => TypeOK
<1> SUFFICES ASSUME Init PROVE TypeOK
  OBVIOUS
<1>1. \A s \in Slots : event_list[s].execute \in {0, 1}
  BY DEF Init
<1>2. time \in -Half..(Half - 1) /\ i \in Nat /\ eventCount \in 0..MAX_EVENTS
  BY FirmwareAssumption DEF Init
<1> QED BY <1>1, <1>2 DEF Init, TypeOK

LEMMA TypeStep == TypeOK /\ SlotInv /\ SlotInv' /\ [Next]_vars => TypeOK'
<1> SUFFICES ASSUME TypeOK, SlotInv, SlotInv', [Next]_vars PROVE TypeOK'
  OBVIOUS
<1> USE FirmwareAssumption
<1>0. Slots \subseteq Nat /\ Half \in Nat \ {0}
  BY DEF Slots
<1>1. ASSUME NEW p \in Packets, loop_receive(p) PROVE TypeOK'
  BY <1>1 DEF loop_receive, TypeOK
<1>2. CASE loop_nothing
  BY <1>2 DEF loop_nothing, TypeOK, history
<1>3. CASE execute_packet
  BY <1>3 DEF execute_packet, TypeOK, Answered, history
<1>4. CASE conf_interval
  <2>1. CASE ~(eventCount \in Slots /\ ~Dangling)
    BY <1>4, <2>1 DEF conf_interval, TypeOK
  <2>2. CASE eventCount \in Slots /\ ~Dangling
    <3>1. event_list' = [event_list EXCEPT ![eventCount].interval = packet.arg1]
      BY <1>4, <2>2 DEF conf_interval
    <3>2. event_list[eventCount] = Fields(event_list[eventCount]) /\ DOMAIN event_list = Slots
      BY <2>2 DEF SlotInv
    <3>3. event_list'[eventCount] = [event_list[eventCount] EXCEPT !.interval = packet.arg1]
      BY <2>2, <3>1, <3>2
    <3>4. event_list'[eventCount].execute = event_list[eventCount].execute
      BY <3>2, <3>3 DEF Fields
    <3>5. \A s \in Slots : event_list'[s].execute \in {0, 1}
      BY <3>1, <3>2, <3>4 DEF TypeOK
    <3> QED BY <1>4, <2>2, <3>5 DEF conf_interval, TypeOK
  <2> QED BY <2>1, <2>2
<1>5. CASE conf_execute
  <2>1. \A s \in Slots : event_list'[s].execute \in {0, event_list[s].execute}
    BY <1>5, FlagAssigned DEF conf_execute
  <2> QED BY <1>5, <2>1 DEF conf_execute, TypeOK, history
<1>6. CASE conf_action
  <2>1. eventCount \in Slots
    BY <1>6 DEF conf_action, SlotInv, Making
  <2>2. event_list[eventCount] = Fields(event_list[eventCount]) /\ DOMAIN event_list = Slots
    BY <2>1 DEF SlotInv
  <2>3. event_list' = [event_list EXCEPT ![eventCount].action = process_packet(packet.data)]
    BY <1>6 DEF conf_action
  <2>4. event_list'[eventCount] = [event_list[eventCount] EXCEPT !.action = process_packet(packet.data)]
    BY <2>1, <2>2, <2>3
  <2>5. event_list'[eventCount].execute = event_list[eventCount].execute
    BY <2>2, <2>4 DEF Fields
  <2>6. \A s \in Slots : event_list'[s].execute \in {0, 1}
    BY <2>2, <2>3, <2>5 DEF TypeOK
  <2> QED BY <1>6, <2>6 DEF conf_action, TypeOK, history
<1>7. CASE conf_count
  <2>1. eventCount \in Slots
    BY <1>7 DEF conf_count, SlotInv, Making
  <2>2. eventCount + 1 \in 0..MAX_EVENTS /\ live \cup {eventCount} \subseteq Slots
    BY <2>1 DEF TypeOK, Slots
  <2> QED BY <1>7, <2>2 DEF conf_count, TypeOK, Answered, history
<1>8. CASE loop_respond
  BY <1>8 DEF loop_respond, TypeOK
<1>9. CASE loop_scan
  BY <1>9 DEF loop_scan, TypeOK, Events, history
<1>10. CASE save_event_data
  BY <1>10 DEF save_event_data, TypeOK, history
<1>11. CASE loop_clear
  <2>1. \A s \in Slots : event_list'[s].execute \in {0, event_list[s].execute}
    BY <1>11, FlagAssigned DEF loop_clear
  <2> QED BY <1>11, <2>1 DEF loop_clear, TypeOK, history
<1>12. CASE events_routine
  <2>1. \A s \in Slots : event_list'[s].execute \in {1, event_list[s].execute}
    BY <1>12, RoutineSlots
  <2>2. time' \in -Half..(Half - 1)
    BY <1>0, <1>12, TimeNext DEF events_routine, TypeOK
  <2> QED BY <1>12, <2>1, <2>2 DEF events_routine, TypeOK
<1>13. CASE cable
  BY <1>13 DEF cable, TypeOK, history
<1>14. CASE UNCHANGED vars
  BY <1>14 DEF vars, TypeOK, history
<1> QED
  BY <1>1, <1>2, <1>3, <1>4, <1>5, <1>6, <1>7, <1>8, <1>9, <1>10, <1>11, <1>12, <1>13, <1>14
     DEF Next, loop

\* Every variable of the board keeps its type: time stays an int where it
\* overflows, and no more events are counted than there are slots.
THEOREM TypeCorrect == Spec => []TypeOK
<1>1. Init => TypeOK /\ SlotInv
  BY TypeInit, SlotInit
<1>2. TypeOK /\ SlotInv /\ [Next]_vars => TypeOK' /\ SlotInv'
  BY TypeStep, SlotStep
<1> QED BY <1>1, <1>2, PTL DEF Spec

-----------------------------------------------------------------------------
(* When an event is due.                                                   *)

\* Packets as they come out of the data of a packet that configures an event.
Known == {process_packet(raw) : raw \in Actions}

\* The packets there are have come from the daemon or out of such data, and the
\* intervals of the events with them.
ActionInv ==
    /\ pc \in {"execute"} \cup Making => packet \in Packets \cup Known
    /\ \A s \in Events : event_list[s].action \in Known /\ event_list[s].interval \in Nat

\* The value of time k ticks ago, within one round of its values.
Ago(k) == IF k <= time + Half THEN time - k ELSE time - k + 2 * Half

\* since counts ticks at which the event was not due.
SinceInv ==
    /\ since = [s \in Slots |-> since[s]]
    /\ \A s \in Slots : since[s] \in Nat /\ (s \notin Events => since[s] = 0)
    /\ \A s \in Events :
          event_list[s].interval > 0 =>
             /\ since[s] < 2 * Half
             /\ \A k \in 1..since[s] : Ago(k) % event_list[s].interval # 0

\* What is read from a packet that configures an event.
LEMMA ConfiguredPacket ==
    ASSUME NEW p \in Packets \cup Known, Configures(p)
    PROVE  p.arg1 \in Nat /\ p.data \in Actions
<1>1. CASE p \in Packets
  BY <1>1, FirmwareAssumption, ActionsAssumption DEF Fits
<1>2. CASE p \in Known
  <2>1. PICK raw \in Actions : p = process_packet(raw)
    BY <1>2 DEF Known
  <2>2. raw.head[2] \in 0..255 /\ raw.data \in Actions
    BY <2>1, ActionsAssumption
  <2>3. p.arg1 = raw.head[2] \div 2 /\ p.data \in {raw.data, NULL} /\ (p.size > 0 => p.data = raw.data)
    BY <2>1 DEF process_packet
  <2>4. p.data = raw.data
    BY <2>3 DEF Configures
  <2>5. \A n \in 0..255 : n \div 2 \in Nat
    OBVIOUS
  <2> QED BY <2>2, <2>3, <2>4, <2>5
<1> QED BY <1>1, <1>2

LEMMA ActionInit == Init => ActionInv
BY DEF Init, ActionInv, Events, Making, Slots

\* A step that leaves the events alone and works on no new packet.
LEMMA ActionKept ==
    ASSUME ActionInv, eventCount' = eventCount,
           \A s \in Slots : /\ event_list'[s].interval = event_list[s].interval
                            /\ event_list'[s].action = event_list[s].action,
           pc' \in {"execute"} \cup Making => pc \in {"execute"} \cup Making /\ packet' = packet
    PROVE  ActionInv'
BY DEF ActionInv, Events, Making

LEMMA ActionStep == ActionInv /\ SlotInv /\ AnswerInv /\ [Next]_vars => ActionInv'
<1> SUFFICES ASSUME ActionInv, SlotInv, AnswerInv, [Next]_vars PROVE ActionInv'
  OBVIOUS
<1>1. ASSUME NEW p \in Packets, loop_receive(p) PROVE ActionInv'
  <2>1. packet' = p
    BY <1>1, FirmwareAssumption, PacketRead DEF loop_receive
  <2> QED BY <1>1, <2>1 DEF loop_receive, ActionInv, Events, Making
<1>2. CASE loop_nothing
  BY <1>2, ActionKept DEF loop_nothing, Making, history
<1>3. CASE execute_packet
  BY <1>3, ActionKept DEF execute_packet, Making, Answered, history
<1>4. CASE conf_interval
  <2>1. CASE ~(eventCount \in Slots /\ ~Dangling)
    BY <1>4, <2>1, ActionKept DEF conf_interval, Making
  <2>2. CASE eventCount \in Slots /\ ~Dangling
    <3>1. event_list' = [event_list EXCEPT ![eventCount].interval = packet.arg1]
      BY <1>4, <2>2 DEF conf_interval
    <3>2. \A s \in Slots \ {eventCount} : event_list'[s] = event_list[s]
      BY <2>2, <3>1, IntervalAssigned
    <3>3. Events' = Events /\ eventCount \notin Events /\ Events \subseteq Slots
      BY <1>4 DEF conf_interval, SlotInv, Events
    <3> QED BY <1>4, <2>2, <3>2, <3>3 DEF conf_interval, ActionInv, Making
  <2> QED BY <2>1, <2>2
<1>5. CASE conf_execute
  <2>1. \A s \in Slots : /\ event_list'[s].interval = event_list[s].interval
                         /\ event_list'[s].action = event_list[s].action
    BY <1>5, FlagAssigned DEF conf_execute
  <2> QED BY <1>5, <2>1, ActionKept DEF conf_execute, Making, history
<1>6. CASE conf_action
  <2>1. /\ event_list' = [event_list EXCEPT ![eventCount].action = process_packet(packet.data)]
        /\ eventCount \in Slots /\ pc \in Making /\ pc' = "count"
        /\ UNCHANGED <<eventCount, packet>>
    BY <1>6 DEF conf_action, SlotInv, Making
  <2>2. \A s \in Slots \ {eventCount} : event_list'[s] = event_list[s]
    BY <2>1, ActionAssigned
  <2>3. Events' = Events /\ eventCount \notin Events /\ Events \subseteq Slots
    BY <2>1 DEF SlotInv, Events
  <2> QED BY <2>1, <2>2, <2>3 DEF ActionInv, Making
<1>7. CASE conf_count
  <2>1. /\ pc = "count" /\ eventCount' = eventCount + 1 /\ event_list' = event_list
        /\ pc' \notin {"execute"} \cup Making
    BY <1>7 DEF conf_count, Answered, Making
  <2>2. packet.arg1 \in Nat /\ packet.data \in Actions
    BY <2>1, ConfiguredPacket DEF AnswerInv, ActionInv, Making
  <2>3. /\ event_list[eventCount].action \in Known
        /\ event_list[eventCount].interval \in Nat
    BY <2>1, <2>2 DEF SlotInv, Making, Known
  <2>4. Events' \subseteq Events \cup {eventCount}
    BY <2>1, FirmwareAssumption DEF Events, Slots, SlotInv
  <2> QED BY <2>1, <2>3, <2>4 DEF ActionInv
<1>8. CASE loop_respond
  BY <1>8, ActionKept DEF loop_respond, Making
<1>9. CASE loop_scan
  BY <1>9 DEF loop_scan, ActionInv, Events, Making, history
<1>10. CASE save_event_data
  BY <1>10, ActionKept DEF save_event_data, Making, history
<1>11. CASE loop_clear
  <2>1. \A s \in Slots : /\ event_list'[s].interval = event_list[s].interval
                         /\ event_list'[s].action = event_list[s].action
    BY <1>11, FlagAssigned DEF loop_clear
  <2> QED BY <1>11, <2>1, ActionKept DEF loop_clear, Making, history
<1>12. CASE events_routine
  <2>1. \A s \in Slots : /\ event_list'[s].interval = event_list[s].interval
                         /\ event_list'[s].action = event_list[s].action
    BY <1>12, RoutineSlots
  <2> QED BY <1>12, <2>1, ActionKept DEF events_routine, Making
<1>13. CASE cable
  BY <1>13, ActionKept DEF cable, Making, history
<1>14. CASE UNCHANGED vars
  BY <1>14, ActionKept DEF vars, Making, history
<1> QED
  BY <1>1, <1>2, <1>3, <1>4, <1>5, <1>6, <1>7, <1>8, <1>9, <1>10, <1>11, <1>12, <1>13, <1>14
     DEF Next, loop

LEMMA SinceInit == Init => SinceInv
BY FirmwareAssumption DEF Init, SinceInv, Events, Slots

\* A step other than a tick.
LEMMA SinceKept ==
    ASSUME SinceInv, UNCHANGED <<since, time>>,
           \A s \in Slots : s \in Events => s \in Events',
           \A s \in Events' : s \in Events => event_list'[s].interval = event_list[s].interval,
           \A s \in Slots : s \notin Events => since[s] = 0
    PROVE  SinceInv'
<1>1. \A k : Ago(k)' = Ago(k)
  BY DEF Ago
<1>2. Events' \subseteq Slots
  BY DEF Events
<1>3. ASSUME NEW s \in Events', event_list'[s].interval > 0
      PROVE  /\ since[s] < 2 * Half
             /\ \A k \in 1..since[s] : Ago(k) % event_list'[s].interval # 0
  <2>1. CASE s \in Events
    BY <1>3, <2>1 DEF SinceInv
  <2>2. CASE s \notin Events
    BY <1>2, <2>2, FirmwareAssumption
  <2> QED BY <2>1, <2>2
<1> QED BY <1>1, <1>3 DEF SinceInv

\* A tick moves every value of time one tick back.
LEMMA AgoTick ==
    ASSUME TypeOK, events_routine, NEW k \in 1..(2 * Half)
    PROVE  Ago(k)' = IF k = 1 THEN time ELSE Ago(k - 1)
<1>1. time' = IF time = Half - 1 THEN -Half ELSE time + 1
  BY TimeNext DEF TypeOK, events_routine
<1>2. Half \in Nat \ {0} /\ time \in -Half..(Half - 1)
  BY FirmwareAssumption DEF TypeOK
<1> QED BY <1>1, <1>2 DEF Ago

LEMMA SinceTick ==
    ASSUME SinceInv, TypeOK, SlotInv, ActionInv, events_routine
    PROVE  SinceInv'
<1>1. PICK due \in SUBSET Events :
        /\ \A s \in Events : (s \in due) \in Test(s)
        /\ since' = [s \in Slots |-> IF s \in due \/ s \notin Events \/ event_list[s].interval = 0
                                     THEN 0 ELSE since[s] + 1]
  BY DEF events_routine
<1>2. /\ Half \in Nat \ {0} /\ time \in -Half..(Half - 1)
      /\ Events' = Events /\ Events \subseteq Slots
  BY FirmwareAssumption DEF events_routine, TypeOK, Events
<1>3. \A s \in Slots : event_list'[s].interval = event_list[s].interval
  BY RoutineSlots
<1>4. /\ since' = [s \in Slots |-> since'[s]]
      /\ \A s \in Slots : since'[s] \in Nat /\ (s \notin Events => since'[s] = 0)
  BY <1>1 DEF SinceInv
<1>5. ASSUME NEW s \in Events, event_list[s].interval > 0
      PROVE  /\ since'[s] < 2 * Half
             /\ \A k \in 1..since'[s] : Ago(k)' % event_list[s].interval # 0
  <2> DEFINE I == event_list[s].interval
  <2>1. I \in Nat \ {0} /\ s \in Slots
    BY <1>2, <1>5 DEF ActionInv
  <2>2. CASE s \in due
    BY <1>1, <1>2, <2>1, <2>2
  <2>3. CASE s \notin due
    <3>1. since'[s] = since[s] + 1
      BY <1>1, <2>1, <2>3
    <3>2. time % I # 0
      BY <1>1, <2>1, <2>3 DEF Test
    <3>3. /\ since[s] \in Nat /\ since[s] < 2 * Half
          /\ \A k \in 1..since[s] : Ago(k) % I # 0
      BY <1>5, <2>1 DEF SinceInv
    <3>4. time # 0 /\ 0 % I = 0
      BY <2>1, <3>2, ZeroMultiple
    <3> DEFINE z == IF time > 0 THEN time ELSE time + 2 * Half
    <3>5. z \in 1..(2 * Half - 1) /\ Ago(z) = 0
      BY <1>2, <3>4 DEF Ago
    <3>6. since[s] + 1 < 2 * Half
      BY <1>2, <3>3, <3>4, <3>5
    <3>7. ASSUME NEW k \in 1..(since[s] + 1) PROVE Ago(k)' % I # 0
      <4>1. k \in 1..(2 * Half)
        BY <1>2, <3>3, <3>6
      <4>2. Ago(k)' = IF k = 1 THEN time ELSE Ago(k - 1)
        BY <4>1, AgoTick
      <4>3. k # 1 => k - 1 \in 1..since[s]
        BY <3>3
      <4> QED BY <3>2, <3>3, <4>2, <4>3
    <3> QED BY <3>1, <3>6, <3>7
  <2> QED BY <2>2, <2>3
<1> QED BY <1>2, <1>3, <1>4, <1>5 DEF SinceInv

LEMMA SinceStep == SinceInv /\ TypeOK /\ SlotInv /\ ActionInv /\ [Next]_vars => SinceInv'
<1> SUFFICES ASSUME SinceInv, TypeOK, SlotInv, ActionInv, [Next]_vars PROVE SinceInv'
  OBVIOUS
<1>0. \A s \in Slots : s \notin Events => since[s] = 0
  BY DEF SinceInv
<1>1. ASSUME NEW p \in Packets, loop_receive(p) PROVE SinceInv'
  BY <1>0, <1>1, SinceKept DEF loop_receive, Events
<1>2. CASE loop_nothing
  BY <1>0, <1>2, SinceKept DEF loop_nothing, Events, history
<1>3. CASE execute_packet
  BY <1>0, <1>3, SinceKept DEF execute_packet, Events, history
<1>4. CASE conf_interval
  <2>1. CASE ~(eventCount \in Slots /\ ~Dangling)
    BY <1>0, <1>4, <2>1, SinceKept DEF conf_interval, Events
  <2>2. CASE eventCount \in Slots /\ ~Dangling
    <3>1. event_list' = [event_list EXCEPT ![eventCount].interval = packet.arg1]
      BY <1>4, <2>2 DEF conf_interval
    <3>2. \A s \in Slots \ {eventCount} : event_list'[s] = event_list[s]
      BY <2>2, <3>1, IntervalAssigned
    <3>3. Events' = Events /\ eventCount \notin Events /\ Events \subseteq Slots
      BY <1>4 DEF conf_interval, SlotInv, Events
    <3> QED BY <1>0, <1>4, <3>2, <3>3, SinceKept DEF conf_interval
  <2> QED BY <2>1, <2>2
<1>5. CASE conf_execute
  <2>1. \A s \in Slots : event_list'[s].interval = event_list[s].interval
    BY <1>5, FlagAssigned DEF conf_execute
  <2> QED BY <1>0, <1>5, <2>1, SinceKept DEF conf_execute, Events, history
<1>6. CASE conf_action
  <2>1. eventCount \in Slots
    BY <1>6 DEF conf_action, SlotInv, Making
  <2>2. \A s \in Slots \ {eventCount} : event_list'[s] = event_list[s]
    BY <1>6, <2>1, ActionAssigned DEF conf_action
  <2>3. Events' = Events /\ eventCount \notin Events /\ Events \subseteq Slots
    BY <1>6 DEF conf_action, SlotInv, Events
  <2> QED BY <1>0, <1>6, <2>2, <2>3, SinceKept DEF conf_action, history
<1>7. CASE conf_count
  <2>1. eventCount \in Nat /\ Slots \subseteq Nat
    BY FirmwareAssumption DEF Slots, SlotInv
  <2> QED BY <1>0, <1>7, <2>1, SinceKept DEF conf_count, Events, history
<1>8. CASE loop_respond
  BY <1>0, <1>8, SinceKept DEF loop_respond, Events
<1>9. CASE loop_scan
  BY <1>0, <1>9, SinceKept DEF loop_scan, Events, history
<1>10. CASE save_event_data
  BY <1>0, <1>10, SinceKept DEF save_event_data, Events, history
<1>11. CASE loop_clear
  <2>1. \A s \in Slots : event_list'[s].interval = event_list[s].interval
    BY <1>11, FlagAssigned DEF loop_clear
  <2> QED BY <1>0, <1>11, <2>1, SinceKept DEF loop_clear, Events, history
<1>12. CASE events_routine
  BY <1>12, SinceTick
<1>13. CASE cable
  BY <1>0, <1>13, SinceKept DEF cable, Events, history
<1>14. CASE UNCHANGED vars
  BY <1>0, <1>14, SinceKept DEF vars, Events, history
<1> QED
  BY <1>1, <1>2, <1>3, <1>4, <1>5, <1>6, <1>7, <1>8, <1>9, <1>10, <1>11, <1>12, <1>13, <1>14
     DEF Next, loop

\* Of two intervals' ticks one interval's fall before the overflow or after it,
\* and of so many values of time in a row one is a multiple.
LEMMA DueWithin == SinceInv /\ TypeOK /\ ActionInv => DueAgain
<1> SUFFICES ASSUME SinceInv, TypeOK, ActionInv, NEW s \in Events, event_list[s].interval > 0,
                    ~(since[s] < 2 * event_list[s].interval)
             PROVE  FALSE
  BY DEF DueAgain
<1> DEFINE I == event_list[s].interval  n == since[s]  a == time + Half
<1>1. /\ I \in Nat \ {0} /\ n \in Nat /\ n >= 2 * I
      /\ \A k \in 1..n : Ago(k) % I # 0
  BY DEF ActionInv, SinceInv, Events
<1>2. a \in Nat /\ time \in Int /\ Half \in Nat
  BY FirmwareAssumption DEF TypeOK
<1> HIDE DEF I, n
<1>3. CASE a >= I
  <2>1. PICK k \in 1..I : (time - k) % I = 0
    BY <1>1, <1>2, OneMultiple
  <2>2. k \in 1..n /\ Ago(k) = time - k
    BY <1>1, <1>2, <1>3 DEF Ago
  <2> QED BY <1>1, <2>1, <2>2
<1>4. CASE a < I
  <2> DEFINE t == time - a + 2 * Half
  <2>0. t \in Int
    BY <1>2
  <2> HIDE DEF t
  <2>1. PICK k \in 1..I : (t - k) % I = 0
    BY <1>1, <2>0, OneMultiple
  <2>2. a + k \in 1..n /\ Ago(a + k) = t - k
    BY <1>1, <1>2, <1>4 DEF Ago, t
  <2> QED BY <1>1, <2>1, <2>2
<1> QED BY <1>1, <1>2, <1>3, <1>4

\* Whatever the packets and wherever time overflows, an event is due again before
\* two of its intervals have passed.
THEOREM EventsDueAgain == Spec => []DueAgain
<1> DEFINE Inv == TypeOK /\ SlotInv /\ AnswerInv /\ ActionInv /\ SinceInv
<1>1. Init => Inv
  BY TypeInit, SlotInit, AnswerInit, ActionInit, SinceInit
<1>2. Inv /\ [Next]_vars => Inv'
  BY TypeStep, SlotStep, AnswerStep, ActionStep, SinceStep
<1>3. Inv => DueAgain
  BY DueWithin
<1> QED BY <1>1, <1>2, <1>3, PTL DEF Spec

=============================================================================
