----------------------------- MODULE MCMcsCodec -----------------------------
(***************************************************************************)
(* An instance of McsCodec for TLC: every kind of packet, well formed and  *)
(* not.                                                                    *)
(***************************************************************************)
EXTENDS McsCodec

Of(id, type, cmd) == [Empty EXCEPT !.id = <<id, 0, 1, 0>>, !.type = type, !.cmd = cmd]

\* A name as long as it may be, and one byte longer.
Name == [i \in 1..SDB_MODULE_NAME_SIZE |-> 97]
Long == Append(Name, 97)

Sound ==
    { [Of(1, MCS_TYPE_MESSAGE, 0) EXCEPT !.dest = Name],
      [Of(2, MCS_TYPE_MESSAGE, 0) EXCEPT !.dest = <<>>],
      [Of(3, MCS_TYPE_MESSAGE, 1) EXCEPT !.data = <<97, 58, 97>>],
      Of(4, MCS_TYPE_MESSAGE, 5),
      [Of(5, MCS_TYPE_STATE, 0) EXCEPT !.args = <<253>>],
      [Of(6, MCS_TYPE_PAYLOAD, 0) EXCEPT !.args = <<0>>],
      Of(7, MCS_TYPE_OK, 0),
      [Of(8, MCS_TYPE_OK_DATA, 0) EXCEPT !.data = [i \in 1..259 |-> 255]],
      [Of(9, MCS_TYPE_ERR, 0) EXCEPT !.data = <<253, 255, 255, 255>>] }

Unsound ==
    { Of(10, MCS_TYPE_MESSAGE, 0),
      [Of(11, MCS_TYPE_MESSAGE, 0) EXCEPT !.dest = Long],
      [Of(12, MCS_TYPE_MESSAGE, 5) EXCEPT !.dest = Name],
      [Of(13, MCS_TYPE_STATE, 0) EXCEPT !.args = <<1, 2>>],
      Of(14, MCS_TYPE_MESSAGE, 6),
      Of(15, MCS_TYPE_OK_DATA, 0) }

AllPackets == Sound \cup Unsound

=============================================================================
