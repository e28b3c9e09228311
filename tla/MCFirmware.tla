----------------------------- MODULE MCFirmware -----------------------------
(***************************************************************************)
(* An instance of Firmware for TLC.                                        *)
(***************************************************************************)
EXTENDS Firmware

MkPacket(cmd, param, arg1, size, data, id) ==
    [command |-> cmd, parameters |-> param, arg1 |-> arg1, arg2 |-> 0, size |-> size,
     data |-> data, id |-> id]

Read == MkPacket(BASIC_IO, 3, 2, 0, NULL, 1)
Toggle == MkPacket(BASIC_IO, 4, 8, 0, NULL, 2)

Event(interval, action, id) ==
    MkPacket(EVENT, CONF, interval, 6 + action.size, mcs_to_usb(action), id)

\* A command, one with an error and more data than seven bits count, one
\* without an answer; events whose period does and does not divide the range of
\* time, one of period 0 and one whose action configures another event.
Commands ==
    {Read,
     MkPacket(COMMS, 2, 5, 200, "data", 127),
     MkPacket(COMMS, 3, 0, 0, NULL, 9),
     Event(2, Toggle, 5), Event(5, Read, 6), Event(0, Toggle, 7),
     Event(2, Event(5, Toggle, 10), 11)}

\* The actions of these events, and those of their actions.
EventActions == {mcs_to_usb(a) : a \in {Toggle, Read, Event(5, Toggle, 10)}}

=============================================================================
