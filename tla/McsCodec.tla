------------------------------ MODULE McsCodec ------------------------------
(***************************************************************************)
(* The packets of the MCS on a connection (Libraries/MCS/mcs.c): the bytes *)
(* mcs_write_command makes of a packet, and mcs_read_command taking them   *)
(* apart again field by field, each with abs_read and its deadline         *)
(* (Libraries/ABS/abs.c).                                                  *)
(*                                                                         *)
(* A byte is a number below 256, text and data are sequences of bytes, an  *)
(* id is its four bytes.  todo is what mcs_read_command still has to read; *)
(* it is empty when nobody reads.                                          *)
(***************************************************************************)
EXTENDS McsCommands, Integers, SequencesExt

CONSTANTS
    Packets,        \* packets a program may try to write
    MaxPackets,     \* packets written (bound)
    MaxTimeouts,    \* reads that end before the bytes written arrive (bound)
    Arrived         \* how many bytes such a read may have got (bound)

VARIABLES
    sent,           \* the packets written
    stream,         \* bytes written and not read
    todo,           \* fields mcs_read_command has still to read
    pkt,            \* the packet it fills in
    size,           \* the size read last
    got,            \* the packets read
    answers,        \* ids of the EBADFORMAT answers
    timeouts,       \* reads that ended early
    first_bad       \* the packets read before the first failure and the answers after
                    \* it; NULL before

vars == <<sent, stream, todo, pkt, size, got, answers, timeouts, first_bad>>

MCS_TYPE_MESSAGE == 0
MCS_TYPE_STATE == 1
MCS_TYPE_PAYLOAD == 2
MCS_TYPE_OK == 253
MCS_TYPE_OK_DATA == 254
MCS_TYPE_ERR == 255
MCS_COMMAND_TYPES == 3
SDB_MODULE_NAME_SIZE == 10

Byte == 0..255
Packet == [id : Seq(Byte), type : Byte, cmd : Nat, args : Seq(Byte),
           dest : Seq(Byte) \cup {NULL}, data : Seq(Byte)]

\* What mcs_create_packet and its siblings make: four bytes of id, two for the
\* command and for the size of the data; an answer has neither command nor
\* destination, and an error code is an int.
Made(p) ==
    /\ p \in Packet /\ Len(p.id) = 4 /\ p.cmd < 65536 /\ Len(p.data) < 65536
    /\ p.type >= MCS_COMMAND_TYPES => p.cmd = 0 /\ p.dest = NULL
    /\ p.type = MCS_TYPE_ERR => Len(p.data) = 4

ASSUME CodecAssumption ==
    /\ MaxPackets \in Nat /\ MaxTimeouts \in Nat /\ Arrived \subseteq Nat
    /\ \A p \in Packets : Made(p)
    /\ NULL \notin Seq(Byte) /\ NULL # "@"
    /\ NULL \notin [read : Nat, answers : Seq(Seq(Byte))]

\* abs_malloc0
Empty == [id |-> <<0, 0, 0, 0>>, type |-> 0, cmd |-> 0, args |-> <<>>, dest |-> NULL, data |-> <<>>]

\* Integers are written as they are in memory, least significant byte first.
Bytes(n, width) == SubSeq(<<n % 256, (n \div 256) % 256>>, 1, width)
Value(b) == b[1] + 256 * b[2]

CommandList(type) ==
    CASE type = MCS_TYPE_MESSAGE -> mcs_command_message_list
      [] type = MCS_TYPE_STATE -> mcs_command_state_list
      [] type = MCS_TYPE_PAYLOAD -> mcs_command_payload_list

Exists(p) == p.type < MCS_COMMAND_TYPES /\ p.cmd < Len(CommandList(p.type))
CommandOf(p) == CommandList(p.type)[p.cmd + 1]

\* Mutant: the number of arguments is not checked.
check_packet_nargs(p) ==
    IF p.type \in {MCS_TYPE_ERR, MCS_TYPE_OK, MCS_TYPE_OK_DATA}
    THEN p.args = <<>>
    ELSE Exists(p) /\ (raw_data(CommandOf(p)) <=> p.data # <<>>)

check_packet(p) ==
    IF p.type \in {MCS_TYPE_ERR, MCS_TYPE_OK, MCS_TYPE_OK_DATA}
    THEN /\ p.args = <<>>
         /\ p.type = MCS_TYPE_OK_DATA => p.data # <<>>
         /\ p.type = MCS_TYPE_OK => p.data = <<>>
    ELSE /\ Exists(p)
         /\ Len(p.args) = nargs(CommandOf(p))
         /\ raw_data(CommandOf(p)) <=> p.data # <<>>

WithSize(s, width) == Bytes(Len(s), width) \o s

\* The bytes of a packet: a destination is written when there is one, data when
\* it is not empty.
Encode(p) ==
    p.id \o <<p.type>> \o
    CASE p.type = MCS_TYPE_OK -> <<>>
      [] p.type = MCS_TYPE_OK_DATA -> WithSize(p.data, 2)
      [] p.type = MCS_TYPE_ERR -> p.data
      [] OTHER -> Bytes(p.cmd, 2) \o p.args
                  \o (IF p.dest = NULL THEN <<>> ELSE WithSize(p.dest, 1))
                  \o (IF p.data = <<>> THEN <<>> ELSE WithSize(p.data, 2))

Init ==
    /\ sent = <<>> /\ stream = <<>>
    /\ todo = <<>> /\ pkt = Empty /\ size = 0
    /\ got = <<>> /\ answers = <<>>
    /\ timeouts = 0 /\ first_bad = NULL

\* A packet check_packet refuses is not written.
mcs_write_command(p) ==
    /\ Len(sent) < MaxPackets
    /\ check_packet(p)
    /\ sent' = Append(sent, p)
    /\ stream' = stream \o Encode(p)
    /\ UNCHANGED <<todo, pkt, size, got, answers, timeouts, first_bad>>

\* The descriptor is readable.
mcs_read_command ==
    /\ todo = <<>> /\ stream # <<>>
    /\ todo' = <<"id", "type">>
    /\ pkt' = Empty
    /\ UNCHANGED <<sent, stream, size, got, answers, timeouts, first_bad>>

\* The bytes abs_read is asked for.
Need(field) ==
    CASE field \in {"id", "code"} -> 4
      [] field \in {"type", "dest_size"} -> 1
      [] field \in {"cmd", "data_size"} -> 2
      [] field = "args" -> nargs(CommandOf(pkt))
      [] field \in {"dest", "data"} -> size

\* The packet with a field filled in with bytes b.
Filled(field, b) ==
    CASE field = "id" -> [pkt EXCEPT !.id = b]
      [] field = "type" -> [pkt EXCEPT !.type = b[1]]
      [] field = "cmd" -> [pkt EXCEPT !.cmd = Value(b)]
      [] field = "args" -> [pkt EXCEPT !.args = b]
      [] field = "dest" -> [pkt EXCEPT !.dest = b]
      [] field \in {"data", "code"} -> [pkt EXCEPT !.data = b]
      [] OTHER -> pkt

\* What follows the type of a packet, and the command, if it exists.
AfterType(type) ==
    CASE type < MCS_COMMAND_TYPES -> <<"cmd">>
      [] type = MCS_TYPE_ERR -> <<"code">>
      [] type = MCS_TYPE_OK_DATA -> <<"data_size", "data">>
      [] OTHER -> <<>>

\* Mutant: a destination is expected of every command that has one.
read_check_config_dest(p) ==
    LET c == CommandOf(p) IN
    (IF nargs(c) > 0 THEN <<"args">> ELSE <<>>)
    \o (IF destination(c) # NULL THEN <<"dest_size", "dest">> ELSE <<>>)
    \o (IF raw_data(c) THEN <<"data_size", "data">> ELSE <<>>)

read_check_config(p) ==
    LET c == CommandOf(p) IN
    (IF nargs(c) > 0 THEN <<"args">> ELSE <<>>)
    \o (IF destination(c) = "@" THEN <<"dest_size", "dest">> ELSE <<>>)
    \o (IF raw_data(c) THEN <<"data_size", "data">> ELSE <<>>)

\* A type or a command that does not exist, or a name that is too long.
Refused(field, p, n) ==
    \/ field = "type" /\ p.type \notin {MCS_TYPE_OK, MCS_TYPE_OK_DATA, MCS_TYPE_ERR}
                      /\ p.type >= MCS_COMMAND_TYPES
    \/ field = "cmd" /\ ~Exists(p)
    \/ field = "dest_size" /\ n > SDB_MODULE_NAME_SIZE

\* Mutant: a packet whose id was not read is answered, too.
Answer_always(p, known) == <<p.id>>

\* The answer to a packet that cannot be read: none if its id is not known.
Answer(p, known) == IF known THEN <<p.id>> ELSE <<>>

\* Mutant: the packet is freed before its answer is made, and the id is gone.
error_freed(p, known) ==
    /\ answers' = IF known THEN Append(answers, NULL) ELSE answers
    /\ first_bad' = IF first_bad = NULL THEN [read |-> Len(got), answers |-> answers'] ELSE first_bad
    /\ todo' = <<>> /\ pkt' = Empty
    /\ UNCHANGED got

\* The labels error and error_no_notify of mcs_read_command.  What is left of the
\* packet stays in the stream.
error(p, known) ==
    /\ answers' = answers \o Answer(p, known)
    /\ first_bad' = IF first_bad = NULL THEN [read |-> Len(got), answers |-> answers'] ELSE first_bad
    /\ todo' = <<>> /\ pkt' = Empty
    /\ UNCHANGED got

\* abs_read gets all its bytes.
abs_read ==
    LET field == Head(todo)
        n == Need(field)
        b == SubSeq(stream, 1, n)
        p == Filled(field, b)
        rest == Tail(todo) \o (CASE field = "type" -> AfterType(p.type)
                                 [] field = "cmd" /\ Exists(p) -> read_check_config(p)
                                 [] OTHER -> <<>>)
    IN
    /\ todo # <<>> /\ Len(stream) >= n
    /\ stream' = SubSeq(stream, n + 1, Len(stream))
    /\ size' = CASE field = "dest_size" -> b[1] [] field = "data_size" -> Value(b) [] OTHER -> size
    /\ IF Refused(field, p, size')
       THEN error(p, TRUE)
       ELSE /\ todo' = rest
            /\ pkt' = IF rest = <<>> THEN Empty ELSE p
            /\ got' = IF rest = <<>> THEN Append(got, p) ELSE got
            /\ UNCHANGED <<answers, first_bad>>
    /\ UNCHANGED <<sent, timeouts>>

\* Mutant: an incomplete field leaves the loop where it is.
read_timeout_stuck ==
    /\ todo # <<>> /\ Len(stream) < Need(Head(todo))
    /\ stream' = <<>>
    /\ UNCHANGED <<todo, pkt, got, answers, first_bad, sent, size, timeouts>>

\* The bytes never come (the end of the stream, or the deadline): those that did
\* are lost.
read_timeout ==
    /\ todo # <<>> /\ Len(stream) < Need(Head(todo))
    /\ stream' = <<>>
    /\ error(pkt, Head(todo) # "id")
    /\ UNCHANGED <<sent, size, timeouts>>

\* The deadline passes with k bytes read and the others on their way.
read_late(k) ==
    /\ todo # <<>> /\ timeouts < MaxTimeouts
    /\ k < Need(Head(todo)) /\ k <= Len(stream)
    /\ timeouts' = timeouts + 1
    /\ stream' = SubSeq(stream, k + 1, Len(stream))
    /\ error(pkt, Head(todo) # "id")
    /\ UNCHANGED <<sent, size>>

Reading == mcs_read_command \/ abs_read \/ read_timeout

Next ==
    \/ \E p \in Packets : mcs_write_command(p)
    \/ Reading
    \/ \E k \in Arrived : read_late(k)

\* The thread that reads keeps running, and deadlines pass.
Spec == Init /\ [][Next]_vars /\ WF_vars(Reading)

-----------------------------------------------------------------------------
(* Properties.                                                             *)

TypeOK ==
    /\ sent \in Seq(Packet) /\ got \in Seq(Packet) /\ pkt \in Packet
    /\ stream \in Seq(Byte) /\ answers \in Seq(Seq(Byte))
    /\ size \in Nat /\ timeouts \in 0..MaxTimeouts
    /\ first_bad \in [read : Nat, answers : Seq(Seq(Byte))] \cup {NULL}

\* What programs should write: a destination with the commands that take one,
\* and no longer than a name can be.
WellFormed(p) ==
    p.type < MCS_COMMAND_TYPES =>
        /\ p.dest # NULL <=> destination(CommandOf(p)) = "@"
        /\ p.dest # NULL => Len(p.dest) <= SDB_MODULE_NAME_SIZE

\* Packets arrive whole, in order, and none is refused, as long as they are well
\* formed and arrive in time: reader and writer agree on every field, on its
\* width and on when it is there.
InOrder ==
    timeouts = 0 /\ (\A i \in DOMAIN sent : WellFormed(sent[i]))
        => IsPrefix(got, sent) /\ answers = <<>>

\* When the first read fails, be it late, refused in the middle of the packet or
\* short of bytes, what was read until then was written so, and the EBADFORMAT
\* answer, if there is one, has the id of the packet that failed.  Only the
\* packets read before it need to be well formed.
ErrorNamesPacket ==
    first_bad # NULL /\ (\A i \in 1..first_bad.read : i \in DOMAIN sent => WellFormed(sent[i])) =>
        /\ IsPrefix(SubSeq(got, 1, first_bad.read), sent)
        /\ first_bad.answers \in {<<>>, <<sent[first_bad.read + 1].id>>}

\* Reading ends, in a packet or in a failure, whatever the bytes are.
ReadEnds == todo # <<>> ~> todo = <<>>

\* Everything that is written is read, as long as nothing goes wrong.
AllRead == [](timeouts = 0 /\ (\A i \in DOMAIN sent : WellFormed(sent[i]))) => <>[](Len(got) = Len(sent))

=============================================================================
