------------------------------ MODULE MCSdbUsb ------------------------------
(***************************************************************************)
(* An instance of SdbUsb for TLC.                                          *)
(***************************************************************************)
EXTENDS SdbUsb

CONSTANTS a, b

Request(id, m, prio, ok) == [id |-> id, id_process |-> m, priority |-> prio, valid |-> ok]

\* Two modules of different groups; one request is not for the device.
Mixed == {Request(1, a, 0, TRUE), Request(2, b, 1, TRUE), Request(3, b, 2, TRUE),
          Request(4, a, 1, TRUE), Request(5, a, 2, FALSE)}
Two == {a, b}

=============================================================================
