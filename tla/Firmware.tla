------------------------------ MODULE Firmware ------------------------------
(***************************************************************************)
(* The firmware of the Arduino (abs/abs.ino, abs/assets.ino): a loop that  *)
(* executes the packets of the daemon and the events that are due, and a   *)
(* timer interrupt that decides which events are due.  The interrupt may   *)
(* come between any two statements of the loop.                            *)
(*                                                                         *)
(* pc is where the loop is: at "receive", "execute" (about to run          *)
(* execute_packet), in the configuration of an event ("interval",          *)
(* "execute0", "action", "count"), at "respond", at "scan" (the test of    *)
(* the loop over the events), "save" or "clear".                           *)
(***************************************************************************)
EXTENDS UsbFormat, Integers

CONSTANTS
    Packets,       \* what the daemon may send
    Actions,       \* what a packet that configures an event has as its data
    MAX_EVENTS,    \* slots of event_list
    Half,          \* an int is in -Half..Half - 1: 2^15 on the board
    MaxPackets     \* bound: packets received

ASSUME FirmwareAssumption ==
    /\ MAX_EVENTS \in Nat /\ Half \in Nat \ {0} /\ MaxPackets \in Nat
    /\ NULL \notin Nat
    /\ \A p \in Packets : Fits(p)

Slots == 0..(MAX_EVENTS - 1)

MAX_SERIAL == 2

VARIABLES
    pc,
    packet,        \* the packet execute_packet works on
    slot,          \* the event it is the action of; NULL for one of the daemon
    response,      \* pkt_res
    i,             \* index of the loop over the events
    event_list, eventCount,
    time,
    ready,         \* adk.isReady()
    live,          \* events whose action still finds its data in msg
    undefined,     \* the program has left what the language defines
    asked, sent,   \* history: packets received, answers sent
    configured,    \* history: the packet that configured each event
    since          \* history: ticks since an event was last due

vars == <<pc, packet, slot, response, i, event_list, eventCount, time, ready, live,
          undefined, asked, sent, configured, since>>
history == <<asked, sent, configured, since>>

Init ==
    /\ pc = "receive" /\ packet = NULL /\ slot = NULL /\ response = NULL /\ i = 0
    /\ event_list = [s \in Slots |-> [interval |-> 0, execute |-> 0, action |-> NULL]]
    /\ eventCount = 0 /\ time = 0
    /\ ready \in BOOLEAN /\ live = {} /\ undefined = FALSE
    /\ asked = <<>> /\ sent = <<>> /\ configured = [s \in Slots |-> NULL]
    /\ since = [s \in Slots |-> 0]

Events == {s \in Slots : s < eventCount}

-----------------------------------------------------------------------------
(* What execute_packet answers, command by command.                        *)

BASIC_IO == 1
COMMS == 2
EVENT == 3
SERVO == 4
CONF == 0
DUMP == 1

Response(type, size, id) ==
    [command |-> 0, parameters |-> type, arg1 |-> 0, arg2 |-> 0, size |-> size,
     data |-> NULL, id |-> id]

\* The results of a packet that configures no event: <<type, bytes of data>>, or
\* NULL where response is left uninitialised, an array is read beyond its end,
\* or hdlc_rx writes through a pointer it never set.
Result(p) ==
    CASE p.command = BASIC_IO ->
            CASE p.parameters = 0 -> IF p.arg1 <= 15 THEN <<OK, 0>> ELSE <<ERRORS, 0>>
              [] p.parameters = 1 -> IF p.arg1 <= 40 THEN <<OK, 0>> ELSE <<ERRORS, 0>>
              [] p.parameters = 2 -> IF p.arg1 <= 15 THEN <<OK_DATA, 2>> ELSE <<ERRORS, 0>>
              [] p.parameters = 3 -> IF p.arg1 <= 40 THEN <<OK_DATA, 2>> ELSE <<ERRORS, 0>>
              [] p.parameters = 4 -> <<OK, 0>>
              [] OTHER -> <<ERRORS, 0>>
      [] p.command = COMMS ->
            CASE p.arg1 > MAX_SERIAL -> <<ERRORS, 0>>
              [] p.arg1 = MAX_SERIAL /\ (p.parameters = 2 => p.size > 0)
                 /\ p.parameters \in {0, 1, 2} -> NULL
              [] p.parameters = 0 -> IF p.arg2 <= 10 THEN <<OK, 0>> ELSE NULL
              [] p.parameters \in {1, 4} -> <<OK_DATA, 1>>
              [] p.parameters \in {2, 5, 9, 10, 12} -> <<OK, 0>>
              [] OTHER -> NULL
      [] p.command = EVENT ->
            CASE p.parameters = CONF -> <<ERRORS, 0>>
              [] p.parameters = DUMP -> <<OK_DATA, 1>>
              [] OTHER -> NULL
      [] p.command = SERVO ->
            CASE p.arg1 > MAX_SERIAL -> <<ERRORS, 0>>
              [] p.arg1 = MAX_SERIAL \/ p.parameters > 2 -> NULL
              [] OTHER -> <<OK, 0>>
      [] OTHER -> <<ERRORS, 0>>

\* EVENT CONF with data configures an event.
Configures(p) == p.command = EVENT /\ p.parameters = CONF /\ p.size > 0

\* The data of a packet that configures an event are bytes again, those of the
\* action; the action may configure an event itself.
ASSUME ActionsAssumption ==
    /\ \A p \in Packets : Configures(p) => p.data \in Actions
    /\ \A raw \in Actions :
          /\ raw.head[2] \in 0..255
          /\ Configures(process_packet(raw)) => raw.data \in Actions

\* The data of an action are where they were received, in an array of the call
\* of loop() that configured the event.
Dangling == slot # NULL /\ packet.size > 0 /\ slot \notin live

\* Where the loop goes with the response it has.
Answered == IF slot = NULL THEN "respond" ELSE "save"

-----------------------------------------------------------------------------
(* loop                                                                    *)

\* A packet arrives.
loop_receive(p) ==
    /\ pc = "receive" /\ ready /\ Len(asked) < MaxPackets
    /\ packet' = process_packet(mcs_to_usb(p))
    /\ slot' = NULL
    /\ pc' = "execute"
    /\ asked' = Append(asked, p)
    /\ UNCHANGED <<response, i, event_list, eventCount, time, ready, live, undefined,
                   sent, configured, since>>

\* RcvData returns nothing.
loop_nothing ==
    /\ pc = "receive" /\ ready
    /\ pc' = "scan" /\ i' = 0
    /\ UNCHANGED <<packet, slot, response, event_list, eventCount, time, ready, live,
                   undefined, history>>

\* execute_packet, of a packet that configures no event.
execute_packet ==
    /\ pc = "execute" /\ ~Configures(packet)
    /\ IF Dangling \/ Result(packet) = NULL
       THEN undefined' = TRUE /\ UNCHANGED <<pc, response>>
       ELSE /\ response' = Response(Result(packet)[1], Result(packet)[2], packet.id)
            /\ pc' = Answered
            /\ UNCHANGED undefined
    /\ UNCHANGED <<packet, slot, i, event_list, eventCount, time, ready, live, history>>

\* The assignments of EVENT CONF, one by one: there is no test against
\* MAX_EVENTS, and eventCount grows last.
conf_interval ==
    /\ pc = "execute" /\ Configures(packet)
    /\ IF eventCount \in Slots /\ ~Dangling
       THEN /\ event_list' = [event_list EXCEPT ![eventCount].interval = packet.arg1]
            /\ pc' = "execute0"
            /\ configured' = [configured EXCEPT ![eventCount] = packet]
            /\ UNCHANGED undefined
       ELSE undefined' = TRUE /\ UNCHANGED <<event_list, pc, configured>>
    /\ UNCHANGED <<packet, slot, response, i, eventCount, time, ready, live, asked, sent, since>>

conf_execute ==
    /\ pc = "execute0"
    /\ event_list' = [event_list EXCEPT ![eventCount].execute = 0]
    /\ pc' = "action"
    /\ UNCHANGED <<packet, slot, response, i, eventCount, time, ready, live, undefined, history>>

\* Mutant: the event is counted before it has its action.
conf_action_late ==
    /\ pc \in {"action", "count"}
    /\ IF pc = "action"
       THEN eventCount' = eventCount + 1 /\ pc' = "count" /\ UNCHANGED event_list
       ELSE /\ event_list' = [event_list EXCEPT ![eventCount - 1].action = process_packet(packet.data)]
            /\ pc' = Answered /\ UNCHANGED eventCount
    /\ response' = Response(OK, 0, packet.id)
    /\ UNCHANGED <<packet, slot, i, time, ready, live, undefined, history>>

conf_action ==
    /\ pc = "action"
    /\ event_list' = [event_list EXCEPT ![eventCount].action = process_packet(packet.data)]
    /\ pc' = "count"
    /\ UNCHANGED <<packet, slot, response, i, eventCount, time, ready, live, undefined, history>>

conf_count ==
    /\ pc = "count"
    /\ eventCount' = eventCount + 1
    /\ live' = live \cup {eventCount}
    /\ response' = Response(OK, 0, packet.id)
    /\ pc' = Answered
    /\ UNCHANGED <<packet, slot, i, event_list, time, ready, undefined, history>>

\* to_raw and SndData.
loop_respond ==
    /\ pc = "respond"
    /\ sent' = Append(sent, to_raw(response))
    /\ pc' = "scan" /\ i' = 0
    /\ UNCHANGED <<packet, slot, response, event_list, eventCount, time, ready, live, undefined,
                   asked, configured, since>>

\* The loop over the events: the test of one of them, or the end of loop().
loop_scan ==
    /\ pc = "scan"
    /\ IF i \notin Events
       THEN pc' = "receive" /\ live' = {} /\ UNCHANGED <<packet, slot, i>>
       ELSE /\ IF event_list[i].execute = 1
               THEN packet' = event_list[i].action /\ slot' = i /\ pc' = "execute" /\ UNCHANGED i
               ELSE i' = i + 1 /\ UNCHANGED <<packet, slot, pc>>
            /\ UNCHANGED live
    /\ UNCHANGED <<response, event_list, eventCount, time, ready, undefined, history>>

\* save_event_data: the contents of the card are left out.
save_event_data ==
    /\ pc = "save"
    /\ pc' = "clear"
    /\ UNCHANGED <<packet, slot, response, i, event_list, eventCount, time, ready, live, undefined, history>>

\* Mutant: the flag stays set.
loop_clear_not ==
    /\ pc = "clear"
    /\ i' = i + 1 /\ pc' = "scan" /\ slot' = NULL
    /\ UNCHANGED <<packet, response, event_list, eventCount, time, ready, live, undefined, history>>

loop_clear ==
    /\ pc = "clear"
    /\ event_list' = [event_list EXCEPT ![i].execute = 0]
    /\ i' = i + 1 /\ pc' = "scan" /\ slot' = NULL
    /\ UNCHANGED <<packet, response, eventCount, time, ready, live, undefined, history>>

-----------------------------------------------------------------------------
(* The interrupt and the cable.                                            *)

\* Mutant: time has room for every tick.
Wrap_none(t) == t

\* What is left of t in an int.
Wrap(t) == ((t + Half) % (2 * Half)) - Half

\* Mutant: an event whose flag is still set is passed over.
Test_pending(s) ==
    IF event_list[s].interval = 0 THEN BOOLEAN
    ELSE {event_list[s].execute = 0 /\ time % event_list[s].interval = 0}

\* The outcomes of the test of an event: with an interval of 0 it is a division
\* by zero and may give anything.
Test(s) ==
    IF event_list[s].interval = 0 THEN BOOLEAN ELSE {time % event_list[s].interval = 0}

\* The events that are due get their flag.
events_routine ==
    /\ \E due \in SUBSET Events :
          /\ \A s \in Events : (s \in due) \in Test(s)
          /\ event_list' = [s \in Slots |-> IF s \in due THEN [event_list[s] EXCEPT !.execute = 1]
                                            ELSE event_list[s]]
          /\ since' = [s \in Slots |-> IF s \in due \/ s \notin Events \/ event_list[s].interval = 0
                                       THEN 0 ELSE since[s] + 1]
    /\ time' = Wrap(time + 1)
    /\ UNCHANGED <<pc, packet, slot, response, i, eventCount, ready, live, undefined,
                   asked, sent, configured>>

\* The cable (external) is plugged or unplugged; loop() asks at its top only.
cable ==
    /\ ready' = ~ready
    /\ UNCHANGED <<pc, packet, slot, response, i, event_list, eventCount, time, live, undefined, history>>

-----------------------------------------------------------------------------
loop ==
    /\ ~undefined
    /\ \/ \E p \in Packets : loop_receive(p)
       \/ loop_nothing \/ execute_packet
       \/ conf_interval \/ conf_execute \/ conf_action \/ conf_count
       \/ loop_respond \/ loop_scan \/ save_event_data \/ loop_clear

Next ==
    \/ loop
    \/ ~undefined /\ events_routine
    \/ ~undefined /\ cable

\* The board runs loop() over and over.
Spec == Init /\ [][Next]_vars /\ WF_vars(loop)

-----------------------------------------------------------------------------
(* Properties.                                                             *)

TypeOK ==
    /\ pc \in {"receive", "execute", "execute0", "action", "count", "respond", "scan", "save", "clear"}
    /\ i \in Nat /\ eventCount \in 0..MAX_EVENTS /\ time \in -Half..(Half - 1)
    /\ slot \in Slots \cup {NULL} /\ ready \in BOOLEAN
    /\ live \subseteq Slots
    /\ undefined \in BOOLEAN
    /\ \A s \in Slots : event_list[s].execute \in {0, 1}

\* Whatever the interrupt or the loop finds below eventCount is an event as it
\* was configured, its interval and its action in place: the interrupt never
\* divides by the interval of a slot in the making and the loop never follows a
\* null action.
SlotReady ==
    \A s \in Events :
        /\ event_list[s].action = process_packet(configured[s].data)
        /\ event_list[s].interval = configured[s].arg1

\* What the daemon must find in the answer to a packet it sent.
Expected(p) ==
    LET r == IF Configures(p) THEN <<OK, 0>> ELSE Result(p)
    IN [type |-> r[1], size |-> r[2], id |-> p.id]

\* The k-th answer of the board, read as the daemon reads it, is the answer to
\* the k-th packet of the daemon: the bytes of either side mean the same to the
\* other one, and the results of events that run in between are never sent.
AnswersInOrder ==
    /\ Len(sent) <= Len(asked)
    /\ Len(asked) <= Len(sent) + 1
    /\ \A k \in 1..Len(sent) : usb_to_mcs(sent[k]) = Expected(asked[k])

\* An event is due again before two intervals have passed, also where time
\* overflows and the phase of the events changes.
DueAgain ==
    \A s \in Events : event_list[s].interval > 0 => since[s] < 2 * event_list[s].interval

\* While the cable stays plugged in, an event that is due is executed, however
\* the interrupts fall.
DueIsRun ==
    \A s \in Slots :
        <>[]ready => (event_list[s].execute = 1 ~> event_list[s].execute = 0 \/ undefined)

=============================================================================
