-------------------------- MODULE McsCodec_proofs ---------------------------
(***************************************************************************)
(* The codec, for any packets the constructors of mcs.c make and any       *)
(* number of them: TypeCorrect, ReadsInOrder and ErrorsNamePacket.         *)
(*                                                                         *)
(* Until the first failure the stream is the packets written and not read, *)
(* one after the other, and mcs_read_command is within the first of them:  *)
(* Carries says where each packet ends, Stage what is known of the one     *)
(* that is read and which of its bytes are left.                           *)
(***************************************************************************)
EXTENDS McsCodec, SequenceTheorems, TLAPS

-----------------------------------------------------------------------------
(* What abs_read does with each field.                                     *)

\* What mcs_read_command may have left to read.
Todos == {<<>>, <<"id", "type">>, <<"type">>, <<"cmd">>, <<"args">>, <<"dest_size", "dest">>,
          <<"dest">>, <<"data_size", "data">>, <<"data">>, <<"code">>}

\* The next n bytes are taken from the stream.
Taken(n) == SubSeq(stream, 1, n)
Takes(n) ==
    /\ Len(stream) >= n
    /\ stream' = SubSeq(stream, n + 1, Len(stream))
    /\ UNCHANGED <<sent, timeouts>>

\* The packet read so far is p, rest is still to be read, and n is the size.
GoesOn(rest, p, n) ==
    /\ todo' = rest /\ size' = n
    /\ pkt' = IF rest = <<>> THEN Empty ELSE p
    /\ got' = IF rest = <<>> THEN Append(got, p) ELSE got
    /\ UNCHANGED <<answers, first_bad>>

LEMMA ReadId ==
    ASSUME abs_read, todo = <<"id", "type">>
    PROVE  Takes(4) /\ GoesOn(<<"type">>, [pkt EXCEPT !.id = Taken(4)], size)
<1>1. Head(todo) = "id" /\ Tail(todo) \o <<>> = <<"type">> /\ <<"type">> # <<>>
  OBVIOUS
<1>2. Need("id") = 4 /\ \A b : Filled("id", b) = [pkt EXCEPT !.id = b]
  BY DEF Need, Filled
<1>3. \A p, n : ~Refused("id", p, n)
  BY DEF Refused
<1> QED BY <1>1, <1>2, <1>3 DEF abs_read, Takes, GoesOn, Taken

LEMMA ReadType ==
    ASSUME abs_read, todo = <<"type">>, NEW p, p = [pkt EXCEPT !.type = Taken(1)[1]]
    PROVE  /\ Takes(1)
           /\ IF Refused("type", p, size) THEN error(p, TRUE) /\ size' = size
              ELSE GoesOn(AfterType(p.type), p, size)
<1>1. Head(todo) = "type" /\ Tail(todo) = <<>>
  OBVIOUS
<1>2. Need("type") = 1 /\ \A b : Filled("type", b) = [pkt EXCEPT !.type = b[1]]
  BY DEF Need, Filled
<1>3. <<>> \o AfterType(p.type) = AfterType(p.type)
  BY DEF AfterType
<1> QED BY <1>1, <1>2, <1>3 DEF abs_read, Takes, GoesOn, Taken

LEMMA ReadCmd ==
    ASSUME abs_read, todo = <<"cmd">>, NEW p, p = [pkt EXCEPT !.cmd = Value(Taken(2))]
    PROVE  /\ Takes(2)
           /\ IF Exists(p) THEN GoesOn(read_check_config(p), p, size)
              ELSE error(p, TRUE) /\ size' = size
<1>1. Head(todo) = "cmd" /\ Tail(todo) = <<>>
  OBVIOUS
<1>2. Need("cmd") = 2 /\ \A b : Filled("cmd", b) = [pkt EXCEPT !.cmd = Value(b)]
  BY DEF Need, Filled
<1>3. <<>> \o read_check_config(p) = read_check_config(p)
  BY DEF read_check_config
<1>4. \A n : Refused("cmd", p, n) <=> ~Exists(p)
  BY DEF Refused
<1>5. Takes(2) /\ size' = size
  BY <1>1, <1>2 DEF abs_read, Takes
<1>6. CASE Exists(p)
  <2>1. ~Refused("cmd", p, size)
    BY <1>4, <1>6
  <2>2. GoesOn(<<>> \o read_check_config(p), p, size)
    BY <1>1, <1>2, <1>5, <1>6, <2>1 DEF abs_read, GoesOn, Taken
  <2> QED BY <1>3, <1>5, <1>6, <2>2
<1>7. CASE ~Exists(p)
  <2>1. Refused("cmd", p, size)
    BY <1>4, <1>7
  <2>2. error(p, TRUE)
    BY <1>1, <1>2, <1>5, <2>1 DEF abs_read, Taken
  <2> QED BY <1>5, <1>7, <2>2
<1> QED BY <1>6, <1>7

LEMMA ReadDestSize ==
    ASSUME abs_read, todo = <<"dest_size", "dest">>, NEW n, n = Taken(1)[1]
    PROVE  /\ Takes(1) /\ size' = n
           /\ IF n > SDB_MODULE_NAME_SIZE THEN error(pkt, TRUE) ELSE GoesOn(<<"dest">>, pkt, n)
<1>1. Head(todo) = "dest_size" /\ Tail(todo) \o <<>> = <<"dest">> /\ <<"dest">> # <<>>
  OBVIOUS
<1>2. Need("dest_size") = 1 /\ \A b : Filled("dest_size", b) = pkt
  BY DEF Need, Filled
<1>3. Refused("dest_size", pkt, n) <=> n > SDB_MODULE_NAME_SIZE
  BY DEF Refused
<1> QED BY <1>1, <1>2, <1>3 DEF abs_read, Takes, GoesOn, Taken

LEMMA ReadDataSize ==
    ASSUME abs_read, todo = <<"data_size", "data">>
    PROVE  Takes(2) /\ GoesOn(<<"data">>, pkt, Value(Taken(2)))
<1>1. Head(todo) = "data_size" /\ Tail(todo) \o <<>> = <<"data">> /\ <<"data">> # <<>>
  OBVIOUS
<1>2. Need("data_size") = 2 /\ \A b : Filled("data_size", b) = pkt
  BY DEF Need, Filled
<1>3. \A p, n : ~Refused("data_size", p, n)
  BY DEF Refused
<1> QED BY <1>1, <1>2, <1>3 DEF abs_read, Takes, GoesOn, Taken

\* The fields that end a packet.
LEMMA ReadLast ==
    ASSUME abs_read
    PROVE  /\ todo = <<"args">> =>
                LET n == nargs(CommandOf(pkt))
                IN Takes(n) /\ GoesOn(<<>>, [pkt EXCEPT !.args = Taken(n)], size)
           /\ todo = <<"dest">> => Takes(size) /\ GoesOn(<<>>, [pkt EXCEPT !.dest = Taken(size)], size)
           /\ todo = <<"data">> => Takes(size) /\ GoesOn(<<>>, [pkt EXCEPT !.data = Taken(size)], size)
           /\ todo = <<"code">> => Takes(4) /\ GoesOn(<<>>, [pkt EXCEPT !.data = Taken(4)], size)
<1>1. ASSUME NEW f \in {"args", "dest", "data", "code"}, todo = <<f>>
      PROVE  Takes(Need(f)) /\ GoesOn(<<>>, Filled(f, Taken(Need(f))), size)
  <2>1. Head(todo) = f /\ Tail(todo) = <<>> /\ <<>> \o <<>> = <<>> /\ todo # <<>>
    BY <1>1
  <2>2. \A p, n : ~Refused(f, p, n)
    BY DEF Refused
  <2> HIDE <1>1
  <2>3. f \notin {"type", "cmd", "dest_size", "data_size"}
    OBVIOUS
  <2> QED BY <2>1, <2>2, <2>3 DEF abs_read, Takes, GoesOn, Taken
<1>2. /\ Need("args") = nargs(CommandOf(pkt)) /\ Need("dest") = size
      /\ Need("data") = size /\ Need("code") = 4
  BY DEF Need
<1>3. \A b : /\ Filled("args", b) = [pkt EXCEPT !.args = b]
             /\ Filled("dest", b) = [pkt EXCEPT !.dest = b]
             /\ Filled("data", b) = [pkt EXCEPT !.data = b]
             /\ Filled("code", b) = [pkt EXCEPT !.data = b]
  BY DEF Filled
<1> QED BY <1>1, <1>2, <1>3

-----------------------------------------------------------------------------
(* Types.                                                                  *)

LEMMA ByteNat == Byte \subseteq Nat
BY DEF Byte

LEMMA BytesAre ==
    ASSUME NEW n \in Nat
    PROVE  /\ Bytes(n, 1) = <<n % 256>> /\ Bytes(n, 2) = <<n % 256, (n \div 256) % 256>>
           /\ n % 256 \in Byte /\ (n \div 256) % 256 \in Byte
<1>1. n % 256 \in Byte /\ (n \div 256) % 256 \in Byte
  BY DEF Byte
<1>2. PICK x, y : x = n % 256 /\ y = (n \div 256) % 256
  OBVIOUS
<1>3. SubSeq(<<x, y>>, 1, 1) = <<x>> /\ SubSeq(<<x, y>>, 1, 2) = <<x, y>>
  <2>0. <<x, y>> \in Seq({x, y}) /\ Len(<<x, y>>) = 2 /\ <<x, y>>[1] = x
    OBVIOUS
  <2>1. PICK s \in Seq({x, y}) : s = <<x, y>> /\ Len(s) = 2 /\ s[1] = x
    BY <2>0
  <2>2. SubSeq(s, 1, 2) = s
    BY <2>1, SubSeqFull
  <2>3. SubSeq(s, 1, 1) = <<s[1]>> \o SubSeq(s, 1 + 1, 1)
    <3>1. 1 \in 1..Len(s) /\ 1 \in 1..Len(s)
      BY <2>1
    <3> QED BY <2>1, <3>1, SubSeqRecursiveFirst
  <2>4. SubSeq(s, 1 + 1, 1) = <<>>
    BY SubSeqEmpty
  <2>5. <<x>> \o <<>> = <<x>>
    OBVIOUS
  <2> QED BY <2>1, <2>2, <2>3, <2>4, <2>5
<1> QED BY <1>1, <1>2, <1>3 DEF Bytes

\* What follows the type.
LEMMA BodyBytes ==
    ASSUME NEW p \in Packet
    PROVE  (CASE p.type = MCS_TYPE_OK -> <<>>
              [] p.type = MCS_TYPE_OK_DATA -> WithSize(p.data, 2)
              [] p.type = MCS_TYPE_ERR -> p.data
              [] OTHER -> Bytes(p.cmd, 2) \o p.args
                          \o (IF p.dest = NULL THEN <<>> ELSE WithSize(p.dest, 1))
                          \o (IF p.data = <<>> THEN <<>> ELSE WithSize(p.data, 2))) \in Seq(Byte)
<1>1. /\ p.id \in Seq(Byte) /\ p.type \in Byte /\ p.cmd \in Nat /\ p.args \in Seq(Byte)
      /\ p.data \in Seq(Byte) /\ (p.dest # NULL => p.dest \in Seq(Byte))
  BY DEF Packet
<1>2. \A n \in Nat : Bytes(n, 1) \in Seq(Byte) /\ Bytes(n, 2) \in Seq(Byte)
  <2> SUFFICES ASSUME NEW n \in Nat PROVE Bytes(n, 1) \in Seq(Byte) /\ Bytes(n, 2) \in Seq(Byte)
    OBVIOUS
  <2>1. PICK x \in Byte, y \in Byte : Bytes(n, 1) = <<x>> /\ Bytes(n, 2) = <<x, y>>
    BY BytesAre
  <2>2. <<x>> \in Seq(Byte) /\ <<x, y>> \in Seq(Byte)
    OBVIOUS
  <2> QED BY <2>1, <2>2
<1>3. \A s \in Seq(Byte) : WithSize(s, 1) \in Seq(Byte) /\ WithSize(s, 2) \in Seq(Byte)
  <2> SUFFICES ASSUME NEW s \in Seq(Byte)
               PROVE  WithSize(s, 1) \in Seq(Byte) /\ WithSize(s, 2) \in Seq(Byte)
    OBVIOUS
  <2>1. Bytes(Len(s), 1) \in Seq(Byte) /\ Bytes(Len(s), 2) \in Seq(Byte)
    BY <1>2
  <2> HIDE DEF Byte
  <2> QED BY <2>1 DEF WithSize
<1>5. (IF p.dest = NULL THEN <<>> ELSE WithSize(p.dest, 1)) \in Seq(Byte)
  BY <1>1, <1>3
<1>6. (IF p.data = <<>> THEN <<>> ELSE WithSize(p.data, 2)) \in Seq(Byte)
  BY <1>1, <1>3
<1>7. Bytes(p.cmd, 2) \o p.args \in Seq(Byte)
  <2>1. Bytes(p.cmd, 2) \in Seq(Byte)
    BY <1>1, <1>2
  <2> QED BY <1>1, <2>1
<1>8. Bytes(p.cmd, 2) \o p.args
      \o (IF p.dest = NULL THEN <<>> ELSE WithSize(p.dest, 1))
      \o (IF p.data = <<>> THEN <<>> ELSE WithSize(p.data, 2)) \in Seq(Byte)
  BY <1>5, <1>6, <1>7
<1>9. WithSize(p.data, 2) \in Seq(Byte) /\ <<>> \in Seq(Byte)
  BY <1>1, <1>3
<1> QED BY <1>1, <1>8, <1>9 DEF MCS_TYPE_OK, MCS_TYPE_OK_DATA, MCS_TYPE_ERR

LEMMA EncodeType ==
    ASSUME NEW p \in Packet
    PROVE  Encode(p) \in Seq(Byte)
<1>1. p.id \in Seq(Byte) /\ p.type \in Byte
  BY DEF Packet
<1>2. p.id \o <<p.type>> \in Seq(Byte)
  BY <1>1
<1>3. \A s \in Seq(Byte), t \in Seq(Byte) : s \o t \in Seq(Byte)
  OBVIOUS
<1> QED BY <1>2, <1>3, BodyBytes DEF Encode

\* Each command has arguments, or a destination, or data, or none of them.
LEMMA CommandTable ==
    ASSUME NEW p, p.type \in Byte, p.cmd \in Nat, Exists(p)
    PROVE  /\ nargs(CommandOf(p)) \in {0, 1}
           /\ \/ /\ read_check_config(p) = <<"args">> /\ nargs(CommandOf(p)) = 1
                 /\ destination(CommandOf(p)) # "@" /\ ~raw_data(CommandOf(p))
              \/ /\ read_check_config(p) = <<"dest_size", "dest">> /\ nargs(CommandOf(p)) = 0
                 /\ destination(CommandOf(p)) = "@" /\ ~raw_data(CommandOf(p))
              \/ /\ read_check_config(p) = <<"data_size", "data">> /\ nargs(CommandOf(p)) = 0
                 /\ destination(CommandOf(p)) # "@" /\ raw_data(CommandOf(p))
              \/ /\ read_check_config(p) = <<>> /\ nargs(CommandOf(p)) = 0
                 /\ destination(CommandOf(p)) # "@" /\ ~raw_data(CommandOf(p))
<1> DEFINE c == CommandOf(p)
<1>1. c \in Command
  <2>1. p.type \in {0, 1, 2}
    <3>1. p.type < 3
      BY DEF Exists, MCS_COMMAND_TYPES
    <3> QED BY <3>1 DEF Byte
  <2>2. CASE p.type = 0
    <3>1. CommandList(p.type) = mcs_command_message_list
      BY <2>2 DEF CommandList, MCS_TYPE_MESSAGE, MCS_TYPE_STATE, MCS_TYPE_PAYLOAD
    <3>2. p.cmd < 6
      BY <3>1 DEF Exists, mcs_command_message_list
    <3> QED BY <3>1, <3>2 DEF CommandOf, mcs_command_message_list, Command, Message
  <2>3. CASE p.type = 1
    <3>1. CommandList(p.type) = mcs_command_state_list
      BY <2>3 DEF CommandList, MCS_TYPE_MESSAGE, MCS_TYPE_STATE, MCS_TYPE_PAYLOAD
    <3>2. p.cmd = 0
      BY <3>1 DEF Exists, mcs_command_state_list
    <3> QED BY <3>1, <3>2 DEF CommandOf, mcs_command_state_list, Command
  <2>4. CASE p.type = 2
    <3>1. CommandList(p.type) = mcs_command_payload_list
      BY <2>4 DEF CommandList, MCS_TYPE_MESSAGE, MCS_TYPE_STATE, MCS_TYPE_PAYLOAD
    <3>2. p.cmd = 0
      BY <3>1 DEF Exists, mcs_command_payload_list
    <3> QED BY <3>1, <3>2 DEF CommandOf, mcs_command_payload_list, Command
  <2> QED BY <2>1, <2>2, <2>3, <2>4
<1>2. read_check_config(p) = (IF nargs(c) > 0 THEN <<"args">> ELSE <<>>)
                             \o (IF destination(c) = "@" THEN <<"dest_size", "dest">> ELSE <<>>)
                             \o (IF raw_data(c) THEN <<"data_size", "data">> ELSE <<>>)
  BY DEF read_check_config
<1> HIDE DEF c
<1>3. CASE c = "test"
  <2>1. nargs(c) = 0 /\ destination(c) = "@" /\ ~raw_data(c)
    BY <1>3 DEF nargs, destination, raw_data, Message
  <2>2. read_check_config(p) = <<>> \o <<"dest_size", "dest">> \o <<>>
    BY <1>2, <2>1
  <2> QED BY <2>1, <2>2 DEF c
<1>4. CASE c = "sdb_handshake"
  <2>1. nargs(c) = 0 /\ destination(c) # "@" /\ raw_data(c)
    BY <1>4, CodecAssumption DEF nargs, destination, raw_data, Message
  <2>2. read_check_config(p) = <<>> \o <<>> \o <<"data_size", "data">>
    BY <1>2, <2>1
  <2> QED BY <2>1, <2>2 DEF c
<1>5. CASE c \in {"temperature_arduino", "arduino_get_pin"}
  <2>1. nargs(c) = 1 /\ destination(c) # "@" /\ ~raw_data(c)
    BY <1>5, CodecAssumption DEF nargs, destination, raw_data, Message
  <2>2. read_check_config(p) = <<"args">> \o <<>> \o <<>>
    BY <1>2, <2>1
  <2> QED BY <2>1, <2>2 DEF c
<1>6. CASE c \in Message \ {"test", "sdb_handshake"}
  <2>1. nargs(c) = 0 /\ destination(c) # "@" /\ ~raw_data(c)
    BY <1>6, CodecAssumption DEF nargs, destination, raw_data, Message
  <2>2. read_check_config(p) = <<>> \o <<>> \o <<>>
    BY <1>2, <2>1
  <2> QED BY <2>1, <2>2 DEF c
<1> QED BY <1>1, <1>3, <1>4, <1>5, <1>6 DEF Command

TypeInv == TypeOK /\ todo \in Todos

LEMMA TakenType ==
    ASSUME TypeInv, NEW n \in Nat, n <= Len(stream)
    PROVE  /\ Taken(n) \in Seq(Byte) /\ Len(Taken(n)) = n
           /\ SubSeq(stream, n + 1, Len(stream)) \in Seq(Byte)
           /\ \A k \in 1..n : Taken(n)[k] \in Byte
BY DEF TypeInv, TypeOK, Taken

LEMMA FilledType ==
    ASSUME NEW p \in Packet, NEW b \in Seq(Byte)
    PROVE  /\ [p EXCEPT !.id = b] \in Packet /\ [p EXCEPT !.args = b] \in Packet
           /\ [p EXCEPT !.dest = b] \in Packet /\ [p EXCEPT !.data = b] \in Packet
           /\ \A n \in Byte : [p EXCEPT !.type = n] \in Packet
           /\ \A n \in Nat : [p EXCEPT !.cmd = n] \in Packet
BY DEF Packet

LEMMA EmptyType == Empty \in Packet /\ Empty.dest = NULL
BY DEF Empty, Packet, Byte

LEMMA ErrorType ==
    ASSUME TypeInv, NEW p \in Packet, NEW known \in BOOLEAN, error(p, known)
    PROVE  /\ got' = got /\ pkt' = Empty /\ todo' = <<>> /\ pkt' \in Packet
           /\ answers' \in Seq(Seq(Byte))
           /\ first_bad' \in [read : Nat, answers : Seq(Seq(Byte))] \cup {NULL}
<1>1. p.id \in Seq(Byte) /\ Answer(p, TRUE) = <<p.id>> /\ Answer(p, FALSE) = <<>>
  BY DEF Packet, Answer
<1>2. answers' \in Seq(Seq(Byte))
  <2>1. answers \in Seq(Seq(Byte))
    BY DEF TypeInv, TypeOK
  <2>2. Answer(p, known) \in Seq(Seq(Byte))
    <3>1. <<p.id>> \in Seq(Seq(Byte)) /\ <<>> \in Seq(Seq(Byte))
      BY <1>1
    <3>2. CASE known = TRUE
      BY <1>1, <3>1, <3>2
    <3>3. CASE known = FALSE
      BY <1>1, <3>1, <3>3
    <3> QED BY <3>2, <3>3
  <2>3. answers \o Answer(p, known) \in Seq(Seq(Byte))
    BY <2>1, <2>2
  <2> QED BY <2>3 DEF error
<1>3. Len(got) \in Nat
  BY DEF TypeInv, TypeOK
<1> QED BY <1>1, <1>2, <1>3, EmptyType DEF error, TypeInv, TypeOK

LEMMA GoesOnType ==
    ASSUME TypeInv, NEW n \in Nat, Takes(n), NEW p \in Packet, NEW m \in Nat,
           NEW rest \in Todos, GoesOn(rest, p, m)
    PROVE  TypeInv'
<1>1. stream' \in Seq(Byte)
  BY TakenType DEF Takes
<1>2. got' \in Seq(Packet) /\ pkt' \in Packet
  BY EmptyType DEF GoesOn, TypeInv, TypeOK
<1> QED BY <1>1, <1>2 DEF GoesOn, Takes, TypeInv, TypeOK

LEMMA FailsType ==
    ASSUME TypeInv, NEW p \in Packet, NEW known \in BOOLEAN, error(p, known),
           stream' \in Seq(Byte), size' \in Nat, sent' = sent, timeouts' \in 0..MaxTimeouts
    PROVE  TypeInv'
<1>1. /\ got' = got /\ todo' = <<>> /\ pkt' \in Packet /\ answers' \in Seq(Seq(Byte))
      /\ first_bad' \in [read : Nat, answers : Seq(Seq(Byte))] \cup {NULL}
  BY ErrorType
<1>2. <<>> \in Todos
  BY DEF Todos
<1> QED BY <1>1, <1>2 DEF TypeInv, TypeOK

LEMMA AbsReadType == TypeInv /\ abs_read => TypeInv'
<1> SUFFICES ASSUME TypeInv, abs_read PROVE TypeInv'
  OBVIOUS
<1>0. /\ pkt \in Packet /\ size \in Nat /\ stream \in Seq(Byte) /\ timeouts \in 0..MaxTimeouts
      /\ todo \in Todos /\ todo # <<>>
  BY DEF TypeInv, TypeOK, abs_read
<1>1. CASE todo = <<"id", "type">>
  <2>1. Takes(4) /\ GoesOn(<<"type">>, [pkt EXCEPT !.id = Taken(4)], size)
    BY <1>1, ReadId
  <2>2. Taken(4) \in Seq(Byte)
    BY <2>1, TakenType DEF Takes
  <2>3. [pkt EXCEPT !.id = Taken(4)] \in Packet /\ <<"type">> \in Todos
    BY <1>0, <2>2, FilledType DEF Todos
  <2> QED BY <1>0, <2>1, <2>3, GoesOnType
<1>2. CASE todo = <<"type">>
  <2>1. PICK p : p = [pkt EXCEPT !.type = Taken(1)[1]]
    OBVIOUS
  <2>2. /\ Takes(1)
        /\ IF Refused("type", p, size) THEN error(p, TRUE) /\ size' = size
           ELSE GoesOn(AfterType(p.type), p, size)
    BY <1>2, <2>1, ReadType
  <2>3. Taken(1)[1] \in Byte /\ stream' \in Seq(Byte)
    BY <2>2, TakenType DEF Takes
  <2>4. p \in Packet
    BY <1>0, <2>1, <2>3, FilledType, EmptySeq
  <2>5. AfterType(p.type) \in Todos
    BY DEF AfterType, Todos
  <2>6. CASE Refused("type", p, size)
    BY <1>0, <2>2, <2>3, <2>4, <2>6, FailsType DEF Takes
  <2>7. CASE ~Refused("type", p, size)
    BY <1>0, <2>2, <2>4, <2>5, <2>7, GoesOnType
  <2> QED BY <2>6, <2>7
<1>3. CASE todo = <<"cmd">>
  <2>1. PICK p : p = [pkt EXCEPT !.cmd = Value(Taken(2))]
    OBVIOUS
  <2>2. /\ Takes(2)
        /\ IF Exists(p) THEN GoesOn(read_check_config(p), p, size)
           ELSE error(p, TRUE) /\ size' = size
    BY <1>3, <2>1, ReadCmd
  <2>3. Value(Taken(2)) \in Nat /\ stream' \in Seq(Byte)
    <3>1. Taken(2)[1] \in Nat /\ Taken(2)[2] \in Nat
      <4>1. 1 \in 1..2 /\ 2 \in 1..2 /\ 2 \in Nat
        OBVIOUS
      <4>2. Taken(2)[1] \in Byte /\ Taken(2)[2] \in Byte
        BY <2>2, <4>1, TakenType DEF Takes
      <4> QED BY <4>2, ByteNat
    <3> QED BY <2>2, <3>1, TakenType DEF Value, Takes
  <2>4. p \in Packet
    BY <1>0, <2>1, <2>3, FilledType, EmptySeq
  <2>5. CASE ~Exists(p)
    BY <1>0, <2>2, <2>3, <2>4, <2>5, FailsType DEF Takes
  <2>6. CASE Exists(p)
    <3>1. read_check_config(p) \in Todos
      <4>1. p.type \in Byte /\ p.cmd \in Nat
        BY <2>4 DEF Packet
      <4> QED BY <2>6, <4>1, CommandTable DEF Todos
    <3> QED BY <1>0, <2>2, <2>4, <2>6, <3>1, GoesOnType
  <2> QED BY <2>5, <2>6
<1>4. CASE todo = <<"dest_size", "dest">>
  <2>1. PICK n : n = Taken(1)[1]
    OBVIOUS
  <2>2. /\ Takes(1) /\ size' = n
        /\ IF n > SDB_MODULE_NAME_SIZE THEN error(pkt, TRUE) ELSE GoesOn(<<"dest">>, pkt, n)
    BY <1>4, <2>1, ReadDestSize
  <2>3. n \in Nat /\ stream' \in Seq(Byte)
    <3>1. Taken(1)[1] \in Byte /\ stream' \in Seq(Byte)
      BY <2>2, TakenType DEF Takes
    <3> QED BY <2>1, <3>1, ByteNat
  <2>4. CASE n > SDB_MODULE_NAME_SIZE
    BY <1>0, <2>2, <2>3, <2>4, FailsType DEF Takes
  <2>5. CASE ~(n > SDB_MODULE_NAME_SIZE)
    <3>1. <<"dest">> \in Todos
      BY DEF Todos
    <3> QED BY <1>0, <2>2, <2>3, <2>5, <3>1, GoesOnType
  <2> QED BY <2>4, <2>5
<1>5. CASE todo = <<"data_size", "data">>
  <2>1. Takes(2) /\ GoesOn(<<"data">>, pkt, Value(Taken(2)))
    BY <1>5, ReadDataSize
  <2>2. Taken(2)[1] \in Nat /\ Taken(2)[2] \in Nat
    <3>1. 1 \in 1..2 /\ 2 \in 1..2 /\ 2 \in Nat
      OBVIOUS
    <3>2. Taken(2)[1] \in Byte /\ Taken(2)[2] \in Byte
      BY <2>1, <3>1, TakenType DEF Takes
    <3> QED BY <3>2, ByteNat
  <2>3. Value(Taken(2)) \in Nat /\ <<"data">> \in Todos
    BY <2>2 DEF Value, Todos
  <2> QED BY <1>0, <2>1, <2>3, GoesOnType
<1>6. CASE todo \in {<<"args">>, <<"dest">>, <<"data">>, <<"code">>}
  <2>1. PICK n \in Nat :
          /\ Takes(n)
          /\ \/ GoesOn(<<>>, [pkt EXCEPT !.args = Taken(n)], size)
             \/ GoesOn(<<>>, [pkt EXCEPT !.dest = Taken(n)], size)
             \/ GoesOn(<<>>, [pkt EXCEPT !.data = Taken(n)], size)
    <3>1. nargs(CommandOf(pkt)) \in Nat /\ 4 \in Nat
      BY DEF nargs
    <3>2. CASE todo = <<"args">>
      BY <3>1, <3>2, ReadLast
    <3>3. CASE todo = <<"dest">>
      BY <1>0, <3>3, ReadLast
    <3>4. CASE todo = <<"data">>
      BY <1>0, <3>4, ReadLast
    <3>5. CASE todo = <<"code">>
      BY <3>1, <3>5, ReadLast
    <3> QED BY <1>6, <3>2, <3>3, <3>4, <3>5
  <2>2. Taken(n) \in Seq(Byte)
    BY <2>1, TakenType DEF Takes
  <2>3. PICK p \in Packet : GoesOn(<<>>, p, size)
    BY <1>0, <2>1, <2>2, FilledType
  <2>4. <<>> \in Todos
    BY DEF Todos
  <2> QED BY <1>0, <2>1, <2>3, <2>4, GoesOnType
<1> QED BY <1>0, <1>1, <1>2, <1>3, <1>4, <1>5, <1>6 DEF Todos

LEMMA TypeInit == Init => TypeInv
<1> SUFFICES ASSUME Init PROVE TypeInv
  OBVIOUS
<1>1. <<>> \in Seq(Packet) /\ <<>> \in Seq(Byte) /\ <<>> \in Seq(Seq(Byte)) /\ <<>> \in Todos
  BY DEF Todos
<1> QED BY <1>1, EmptyType, CodecAssumption DEF Init, TypeInv, TypeOK

LEMMA TypeStep == TypeInv /\ [Next]_vars => TypeInv'
<1> SUFFICES ASSUME TypeInv, [Next]_vars PROVE TypeInv'
  OBVIOUS
<1>1. ASSUME NEW p \in Packets, mcs_write_command(p) PROVE TypeInv'
  <2>1. p \in Packet
    BY CodecAssumption DEF Made
  <2>2. Encode(p) \in Seq(Byte)
    BY <2>1, EncodeType
  <2>3. sent' \in Seq(Packet) /\ stream' \in Seq(Byte)
    BY <1>1, <2>1, <2>2 DEF mcs_write_command, TypeInv, TypeOK
  <2> QED BY <1>1, <2>3 DEF mcs_write_command, TypeInv, TypeOK
<1>2. CASE mcs_read_command
  BY <1>2, EmptyType DEF mcs_read_command, TypeInv, TypeOK, Todos
<1>3. CASE abs_read
  BY <1>3, AbsReadType
<1>4. CASE read_timeout
  <2>1. /\ pkt \in Packet /\ (Head(todo) # "id") \in BOOLEAN /\ error(pkt, Head(todo) # "id")
        /\ stream' \in Seq(Byte) /\ size' \in Nat /\ sent' = sent /\ timeouts' \in 0..MaxTimeouts
    BY <1>4 DEF read_timeout, TypeInv, TypeOK
  <2> QED BY <2>1, FailsType
<1>5. ASSUME NEW k \in Arrived, read_late(k) PROVE TypeInv'
  <2>1. k \in Nat /\ MaxTimeouts \in Nat
    BY CodecAssumption
  <2>2. stream' \in Seq(Byte)
    BY <1>5, <2>1, TakenType DEF read_late
  <2>3. /\ pkt \in Packet /\ (Head(todo) # "id") \in BOOLEAN /\ error(pkt, Head(todo) # "id")
        /\ size' \in Nat /\ sent' = sent /\ timeouts' \in 0..MaxTimeouts
    BY <1>5, <2>1 DEF read_late, TypeInv, TypeOK
  <2> QED BY <2>2, <2>3, FailsType
<1>6. CASE UNCHANGED vars
  BY <1>6 DEF vars, TypeInv, TypeOK
<1> QED BY <1>1, <1>2, <1>3, <1>4, <1>5, <1>6 DEF Next, Reading

\* Every variable of the codec keeps its type, whatever bytes are read, also when
\* the reader is out of step with the writer: each read asks for a number of bytes.
THEOREM TypeCorrect == Spec => []TypeOK
<1>1. Init => TypeInv
  BY TypeInit
<1>2. TypeInv /\ [Next]_vars => TypeInv'
  BY TypeStep
<1>3. TypeInv => TypeOK
  BY DEF TypeInv
<1> QED BY <1>1, <1>2, <1>3, PTL DEF Spec

-----------------------------------------------------------------------------
(* Bytes and packets.                                                      *)

\* The bytes s are those of the packets ps, one after the other; the k-th ends
\* at off[k].
Carries(s, ps) == \E off \in [0..Len(ps) -> 0..Len(s)] :
    /\ off[0] = 0 /\ off[Len(ps)] = Len(s)
    /\ \A k, m \in 0..Len(ps) : k <= m => off[k] <= off[m]
    /\ \A k \in 1..Len(ps) : off[k] = off[k - 1] + Len(Encode(ps[k]))
    /\ \A k \in 1..Len(ps) : \A j \in 1..Len(Encode(ps[k])) : s[off[k - 1] + j] = Encode(ps[k])[j]

LEMMA CarriesNone ==
    /\ Carries(<<>>, <<>>)
    /\ \A s \in Seq(Byte) : Carries(s, <<>>) => s = <<>>
<1>1. Carries(<<>>, <<>>)
  <2> DEFINE off == [k \in 0..0 |-> 0]
  <2>1. Len(<<>>) = 0 /\ off \in [0..0 -> 0..0] /\ off[0] = 0
    OBVIOUS
  <2>2. \A k, m \in 0..0 : k <= m => off[k] <= off[m]
    OBVIOUS
  <2> HIDE DEF off
  <2>3. \A k \in 1..0 : FALSE
    OBVIOUS
  <2> QED BY <2>1, <2>2, <2>3 DEF Carries
<1>2. ASSUME NEW s \in Seq(Byte), Carries(s, <<>>) PROVE s = <<>>
  <2>1. PICK off : off[0] = 0 /\ off[Len(<<>>)] = Len(s)
    BY <1>2 DEF Carries
  <2>2. Len(s) = 0
    BY <2>1
  <2> QED BY <2>2, EmptySeq
<1> QED BY <1>1, <1>2

LEMMA CarriesMore ==
    ASSUME NEW s \in Seq(Byte), NEW ps \in Seq(Packet), Carries(s, ps), NEW p \in Packet
    PROVE  Carries(s \o Encode(p), Append(ps, p))
<1> DEFINE n == Len(ps)
<1>1. PICK e \in Seq(Byte) : e = Encode(p)
  BY EncodeType
<1>2. PICK off \in [0..n -> 0..Len(s)] :
        /\ off[0] = 0 /\ off[n] = Len(s)
        /\ \A k, m \in 0..n : k <= m => off[k] <= off[m]
        /\ \A k \in 1..n : off[k] = off[k - 1] + Len(Encode(ps[k]))
        /\ \A k \in 1..n : \A j \in 1..Len(Encode(ps[k])) : s[off[k - 1] + j] = Encode(ps[k])[j]
  BY DEF Carries
<1>3. PICK u, qs : u = s \o e /\ qs = Append(ps, p)
  OBVIOUS
<1>4. /\ n \in Nat /\ Len(qs) = n + 1 /\ (\A k \in 1..n : qs[k] = ps[k]) /\ qs[n + 1] = p
      /\ \A k \in 1..n : ps[k] \in Packet
  BY <1>3
<1>5. /\ Len(s) \in Nat /\ Len(e) \in Nat /\ Len(u) = Len(s) + Len(e)
      /\ \A j \in 1..Len(s) : u[j] = s[j]
      /\ \A j \in 1..Len(e) : u[Len(s) + j] = e[j]
  BY <1>3
<1> HIDE DEF n
<1> DEFINE of2 == [k \in 0..(n + 1) |-> IF k = n + 1 THEN Len(u) ELSE off[k]]
<1>6. of2[n + 1] = Len(u) /\ \A k \in 0..n : of2[k] = off[k]
  BY <1>4
<1>7. of2 \in [0..(n + 1) -> 0..Len(u)]
  <2>1. ASSUME NEW k \in 0..(n + 1) PROVE (IF k = n + 1 THEN Len(u) ELSE off[k]) \in 0..Len(u)
    <3>1. k = n + 1 \/ k \in 0..n
      BY <1>4
    <3>2. CASE k = n + 1
      BY <1>5, <3>2
    <3>3. CASE k # n + 1
      <4>1. off[k] \in 0..Len(s)
        BY <1>2, <3>1, <3>3
      <4> QED BY <1>5, <3>3, <4>1
    <3> QED BY <3>2, <3>3
  <2> QED BY <2>1
<1> HIDE DEF of2
<1>8. of2[0] = 0
  BY <1>2, <1>4, <1>6
<1>9. ASSUME NEW k \in 0..(n + 1), NEW m \in 0..(n + 1), k <= m PROVE of2[k] <= of2[m]
  <2>1. CASE m = n + 1
    <3>1. of2[k] \in 0..Len(u) /\ of2[m] = Len(u)
      BY <1>6, <1>7, <2>1
    <3> QED BY <1>5, <3>1
  <2>2. CASE m # n + 1
    <3>1. k \in 0..n /\ m \in 0..n
      BY <1>4, <1>9, <2>2
    <3> QED BY <1>2, <1>6, <1>9, <3>1
  <2> QED BY <2>1, <2>2
<1>10. ASSUME NEW k \in 1..(n + 1)
       PROVE  /\ of2[k] = of2[k - 1] + Len(Encode(qs[k]))
              /\ \A j \in 1..Len(Encode(qs[k])) : u[of2[k - 1] + j] = Encode(qs[k])[j]
  <2>1. CASE k = n + 1
    <3>1. k - 1 = n /\ of2[k - 1] = Len(s) /\ of2[k] = Len(u) /\ Encode(qs[k]) = e
      BY <1>1, <1>2, <1>4, <1>6, <2>1
    <3> QED BY <1>5, <3>1
  <2>2. CASE k # n + 1
    <3>1. k \in 1..n /\ k - 1 \in 0..n /\ k \in 0..n
      BY <1>4, <2>2
    <3>2. PICK f : f = Encode(ps[k])
      OBVIOUS
    <3>3. f \in Seq(Byte)
      BY <1>4, <3>1, <3>2, EncodeType
    <3>4. /\ of2[k] = off[k] /\ of2[k - 1] = off[k - 1] /\ Encode(qs[k]) = f
          /\ off[k] = off[k - 1] + Len(f) /\ off[k] \in 0..Len(s) /\ off[k - 1] \in 0..Len(s)
          /\ \A j \in 1..Len(f) : s[off[k - 1] + j] = f[j]
      BY <1>2, <1>4, <1>6, <3>1, <3>2
    <3>5. \A j \in 1..Len(f) : u[off[k - 1] + j] = f[j]
      <4> SUFFICES ASSUME NEW j \in 1..Len(f) PROVE u[off[k - 1] + j] = f[j]
        OBVIOUS
      <4>1. off[k - 1] + j \in 1..Len(s)
        <5>1. Len(f) \in Nat
          BY <3>3
        <5> QED BY <1>5, <3>4, <5>1
      <4> QED BY <1>5, <3>4, <4>1
    <3> QED BY <3>4, <3>5
  <2> QED BY <2>1, <2>2
<1>11. Carries(u, qs)
  <2>1. /\ of2 \in [0..Len(qs) -> 0..Len(u)] /\ of2[0] = 0 /\ of2[Len(qs)] = Len(u)
        /\ \A k, m \in 0..Len(qs) : k <= m => of2[k] <= of2[m]
    BY <1>4, <1>6, <1>7, <1>8, <1>9
  <2>2. \A k \in 1..Len(qs) : of2[k] = of2[k - 1] + Len(Encode(qs[k]))
    BY <1>4, <1>10
  <2>3. \A k \in 1..Len(qs) : \A j \in 1..Len(Encode(qs[k])) : u[of2[k - 1] + j] = Encode(qs[k])[j]
    BY <1>4, <1>10
  <2> QED BY <2>1, <2>2, <2>3 DEF Carries
<1> QED BY <1>1, <1>3, <1>11

LEMMA CarriesFirst ==
    ASSUME NEW s \in Seq(Byte), NEW ps \in Seq(Packet), NEW p \in Packet, Carries(s, <<p>> \o ps)
    PROVE  \E t \in Seq(Byte) : s = Encode(p) \o t /\ Carries(t, ps)
<1> DEFINE n == Len(ps)
<1>1. PICK e \in Seq(Byte) : e = Encode(p)
  BY EncodeType
<1>2. PICK qs : qs = <<p>> \o ps
  OBVIOUS
<1>3. /\ n \in Nat /\ Len(qs) = n + 1 /\ qs[1] = p /\ \A k \in 1..n : qs[k + 1] = ps[k] /\ ps[k] \in Packet
  BY <1>2
<1>4. Carries(s, qs)
  BY <1>2
<1>5. PICK off \in [0..(n + 1) -> 0..Len(s)] :
        /\ off[0] = 0 /\ off[n + 1] = Len(s)
        /\ \A k, m \in 0..(n + 1) : k <= m => off[k] <= off[m]
        /\ \A k \in 1..(n + 1) : off[k] = off[k - 1] + Len(Encode(qs[k]))
        /\ \A k \in 1..(n + 1) : \A j \in 1..Len(Encode(qs[k])) : s[off[k - 1] + j] = Encode(qs[k])[j]
  <2> HIDE DEF n
  <2>1. PICK off \in [0..Len(qs) -> 0..Len(s)] :
          /\ off[0] = 0 /\ off[Len(qs)] = Len(s)
          /\ \A k, m \in 0..Len(qs) : k <= m => off[k] <= off[m]
          /\ \A k \in 1..Len(qs) : off[k] = off[k - 1] + Len(Encode(qs[k]))
          /\ \A k \in 1..Len(qs) : \A j \in 1..Len(Encode(qs[k])) : s[off[k - 1] + j] = Encode(qs[k])[j]
    BY <1>4 DEF Carries
  <2>2. Len(qs) = n + 1
    BY <1>3
  <2>3. /\ off \in [0..(n + 1) -> 0..Len(s)] /\ off[0] = 0 /\ off[n + 1] = Len(s)
        /\ \A k, m \in 0..(n + 1) : k <= m => off[k] <= off[m]
    BY <2>1, <2>2
  <2>4. \A k \in 1..(n + 1) : off[k] = off[k - 1] + Len(Encode(qs[k]))
    BY <2>1, <2>2
  <2>5. \A k \in 1..(n + 1) : \A j \in 1..Len(Encode(qs[k])) : s[off[k - 1] + j] = Encode(qs[k])[j]
    BY <2>1, <2>2
  <2> QED BY <2>3, <2>4, <2>5
<1> HIDE DEF n
<1>6. off[1] = Len(e) /\ Len(e) \in Nat /\ Len(s) \in Nat /\ Len(e) <= Len(s) /\ \A j \in 1..Len(e) : s[j] = e[j]
  <2>1. 1 \in 1..(n + 1) /\ 1 - 1 = 0 /\ 1 \in 0..(n + 1) /\ Len(e) \in Nat /\ Len(s) \in Nat
    BY <1>3
  <2>2. off[1] \in 0..Len(s) /\ Encode(qs[1]) = e
    BY <1>1, <1>3, <1>5, <2>1
  <2>3. off[1] = off[1 - 1] + Len(Encode(qs[1]))
    BY <1>5, <2>1
  <2>4. \A j \in 1..Len(Encode(qs[1])) : s[off[1 - 1] + j] = Encode(qs[1])[j]
    BY <1>5, <2>1
  <2>5. \A j \in 1..Len(e) : s[j] = e[j]
    <3> SUFFICES ASSUME NEW j \in 1..Len(e) PROVE s[j] = e[j]
      OBVIOUS
    <3>1. s[0 + j] = e[j]
      BY <1>5, <2>1, <2>2, <2>4
    <3> QED BY <3>1
  <2>6. off[1] = 0 + Len(e)
    BY <1>5, <2>1, <2>2, <2>3
  <2> QED BY <2>1, <2>2, <2>5, <2>6
<1> DEFINE t == SubSeq(s, Len(e) + 1, Len(s))
<1>7. /\ t \in Seq(Byte) /\ Len(t) = Len(s) - Len(e)
      /\ \A j \in 1..(Len(s) - Len(e)) : t[j] = s[Len(e) + j]
  BY <1>6
<1> HIDE DEF t
<1>8. s = e \o t
  <2>1. PICK u : u = e \o t
    OBVIOUS
  <2>2. u \in Seq(Byte) /\ Len(u) = Len(s)
    BY <1>6, <1>7, <2>1
  <2>3. ASSUME NEW j \in 1..Len(s) PROVE s[j] = u[j]
    <3>1. CASE j <= Len(e)
      BY <1>6, <1>7, <2>1, <3>1
    <3>2. CASE j > Len(e)
      <4>1. PICK m \in 1..(Len(s) - Len(e)) : j = Len(e) + m
        <5>1. j - Len(e) \in 1..(Len(s) - Len(e)) /\ j = Len(e) + (j - Len(e))
          BY <1>6, <3>2
        <5> QED BY <5>1
      <4>2. u[Len(e) + m] = t[m]
        BY <1>6, <1>7, <2>1
      <4> QED BY <1>7, <4>1, <4>2
    <3> QED BY <1>6, <3>1, <3>2
  <2> QED BY <2>1, <2>2, <2>3, SeqEqual
<1> DEFINE of2 == [k \in 0..n |-> off[k + 1] - Len(e)]
<1>9. \A k \in 0..n : /\ k + 1 \in 0..(n + 1) /\ off[k + 1] \in 0..Len(s) /\ off[k + 1] >= Len(e)
                      /\ of2[k] = off[k + 1] - Len(e)
  <2> SUFFICES ASSUME NEW k \in 0..n
               PROVE  k + 1 \in 0..(n + 1) /\ off[k + 1] \in 0..Len(s) /\ off[k + 1] >= Len(e)
    OBVIOUS
  <2>1. k + 1 \in 0..(n + 1) /\ 1 \in 0..(n + 1) /\ 1 <= k + 1
    BY <1>3
  <2>2. off[1] <= off[k + 1] /\ off[k + 1] \in 0..Len(s)
    BY <1>5, <2>1
  <2> QED BY <1>6, <2>1, <2>2
<1>10. of2 \in [0..n -> 0..Len(t)]
  <2>1. ASSUME NEW k \in 0..n PROVE off[k + 1] - Len(e) \in 0..Len(t)
    BY <1>6, <1>7, <1>9
  <2> QED BY <2>1
<1> HIDE DEF of2
<1>11. of2[0] = 0 /\ of2[n] = Len(t)
  <2>1. 0 \in 0..n /\ n \in 0..n /\ 0 + 1 = 1
    BY <1>3
  <2>2. of2[0] = off[0 + 1] - Len(e) /\ of2[n] = off[n + 1] - Len(e)
    BY <1>9, <2>1
  <2> QED BY <1>5, <1>6, <1>7, <2>1, <2>2
<1>12. ASSUME NEW k \in 0..n, NEW m \in 0..n, k <= m PROVE of2[k] <= of2[m]
  <2>1. k + 1 <= m + 1
    BY <1>3, <1>12
  <2>2. off[k + 1] <= off[m + 1]
    BY <1>5, <1>9, <2>1
  <2>3. /\ of2[k] = off[k + 1] - Len(e) /\ of2[m] = off[m + 1] - Len(e)
        /\ off[k + 1] \in 0..Len(s) /\ off[m + 1] \in 0..Len(s)
    BY <1>9
  <2>4. Len(e) \in Nat
    BY <1>6
  <2> QED BY <2>2, <2>3, <2>4
<1>13. ASSUME NEW k \in 1..n
       PROVE  /\ of2[k] = of2[k - 1] + Len(Encode(ps[k]))
              /\ \A j \in 1..Len(Encode(ps[k])) : t[of2[k - 1] + j] = Encode(ps[k])[j]
  <2>1. /\ k \in 0..n /\ k - 1 \in 0..n /\ k - 1 + 1 = k /\ k + 1 - 1 = k
        /\ k + 1 \in 1..(n + 1) /\ k \in 0..(n + 1)
    BY <1>3
  <2>2. PICK f : f = Encode(ps[k])
    OBVIOUS
  <2>3. f \in Seq(Byte) /\ Encode(qs[k + 1]) = f
    BY <1>3, <2>2, EncodeType
  <2>4. /\ off[k + 1] = off[k] + Len(f) /\ Len(f) \in Nat
        /\ \A j \in 1..Len(f) : s[off[k] + j] = f[j]
    BY <1>5, <2>1, <2>3
  <2>5. of2[k] = off[k + 1] - Len(e) /\ of2[k - 1] = off[k] - Len(e) /\ off[k] >= Len(e)
    BY <1>9, <2>1
  <2>6. off[k] \in 0..Len(s) /\ off[k + 1] \in 0..Len(s)
    BY <1>5, <2>1, SMTT(30)
  <2>7. of2[k] = of2[k - 1] + Len(f)
    BY <1>6, <2>4, <2>5, <2>6
  <2>8. ASSUME NEW j \in 1..Len(f) PROVE t[of2[k - 1] + j] = f[j]
    <3>1. PICK m : m = of2[k - 1] + j
      OBVIOUS
    <3>2. m \in 1..(Len(s) - Len(e)) /\ Len(e) + m = off[k] + j
      <4>1. PICK a \in Nat, b \in Nat, c \in Nat : a = off[k] /\ b = Len(f) /\ c = Len(e)
        BY <1>6, <2>4, <2>6
      <4>2. Len(s) \in Nat /\ a + b <= Len(s) /\ a >= c /\ m = a - c + j /\ j \in 1..b
        BY <1>6, <2>4, <2>5, <2>6, <3>1, <4>1
      <4> QED BY <4>1, <4>2, SMTT(30)
    <3> QED BY <1>7, <2>4, <3>1, <3>2
  <2> QED BY <2>2, <2>7, <2>8
<1>14. Carries(t, ps)
  BY <1>10, <1>11, <1>12, <1>13 DEF Carries, n
<1> QED BY <1>1, <1>7, <1>8, <1>14

\* Taking the bytes of the first part leaves the second.
LEMMA TakesPart ==
    ASSUME NEW f \in Seq(Byte), NEW r \in Seq(Byte), stream = f \o r
    PROVE  /\ Len(stream) >= Len(f) /\ Taken(Len(f)) = f
           /\ Takes(Len(f)) => stream' = r
<1>1. Len(f) \in Nat /\ Len(r) \in Nat /\ Len(stream) = Len(f) + Len(r)
  OBVIOUS
<1>2. SubSeq(stream, 1, Len(f)) = f
  OBVIOUS
<1>3. SubSeq(stream, Len(f) + 1, Len(stream)) = r
  OBVIOUS
<1>4. Taken(Len(f)) = f
  BY <1>2 DEF Taken
<1>5. Takes(Len(f)) => stream' = SubSeq(stream, Len(f) + 1, Len(stream))
  BY DEF Takes
<1>6. Len(stream) >= Len(f)
  BY <1>1
<1> QED BY <1>3, <1>4, <1>5, <1>6

-----------------------------------------------------------------------------
(* The parts of a packet.                                                  *)

LEMMA ValueBytes ==
    ASSUME NEW n \in Nat, n < 65536
    PROVE  Value(Bytes(n, 2)) = n /\ Len(Bytes(n, 2)) = 2 /\ Bytes(n, 2) \in Seq(Byte)
<1>1. PICK x \in Byte, y \in Byte : x = n % 256 /\ y = (n \div 256) % 256 /\ Bytes(n, 2) = <<x, y>>
  BY BytesAre
<1>2. PICK q \in Nat : q = n \div 256 /\ n = 256 * q + (n % 256) /\ q < 256
  <2>1. n \div 256 \in Nat
    OBVIOUS
  <2>2. n = 256 * (n \div 256) + (n % 256)
    OBVIOUS
  <2>3. n % 256 \in 0..255
    OBVIOUS
  <2>4. n \div 256 < 256
    BY <2>1, <2>2, <2>3
  <2> QED BY <2>1, <2>2, <2>4
<1>3. q % 256 = q
  BY <1>2
<1>4. x + 256 * y = n
  BY <1>1, <1>2, <1>3
<1>5. Value(<<x, y>>) = x + 256 * y /\ Len(<<x, y>>) = 2 /\ <<x, y>> \in Seq(Byte)
  BY DEF Value
<1>6. Value(<<x, y>>) = n
  BY <1>4, <1>5
<1>7. Value(Bytes(n, 2)) = Value(<<x, y>>) /\ Len(Bytes(n, 2)) = Len(<<x, y>>)
  BY <1>1
<1>8. Bytes(n, 2) \in Seq(Byte)
  <2>1. \A s : s = <<x, y>> => s \in Seq(Byte)
    OBVIOUS
  <2> QED BY <1>1, <2>1
<1> QED BY <1>5, <1>6, <1>7, <1>8

LEMMA SmallByte ==
    ASSUME NEW n \in Nat, n <= SDB_MODULE_NAME_SIZE
    PROVE  Bytes(n, 1) = <<n>> /\ <<n>> \in Seq(Byte) /\ Len(<<n>>) = 1 /\ <<n>>[1] = n
<1>1. n % 256 = n /\ n \in Byte
  BY DEF SDB_MODULE_NAME_SIZE, Byte
<1>2. <<n>> \in Seq(Byte) /\ Len(<<n>>) = 1 /\ <<n>>[1] = n
  BY <1>1
<1> QED BY <1>1, <1>2, BytesAre, SMTT(30)

LEMMA SamePacket ==
    ASSUME NEW p \in Packet, NEW q \in Packet, p.id = q.id, p.type = q.type, p.cmd = q.cmd,
           p.args = q.args, p.dest = q.dest, p.data = q.data
    PROVE  p = q
BY SMTT(30) DEF Packet

LEMMA PacketFields ==
    ASSUME NEW p \in Packet
    PROVE  /\ p.id \in Seq(Byte) /\ p.type \in Byte /\ p.cmd \in Nat /\ p.args \in Seq(Byte)
           /\ p.data \in Seq(Byte) /\ p.dest \in Seq(Byte) \cup {NULL}
BY DEF Packet

\* A packet without one of its parts.
LEMMA Without ==
    ASSUME NEW p \in Packet
    PROVE  /\ \E q \in Packet : /\ q = [p EXCEPT !.args = <<>>] /\ q.id = p.id /\ q.type = p.type
                               /\ q.cmd = p.cmd /\ q.args = <<>> /\ q.dest = p.dest /\ q.data = p.data
           /\ \E q \in Packet : /\ q = [p EXCEPT !.dest = NULL] /\ q.id = p.id /\ q.type = p.type
                               /\ q.cmd = p.cmd /\ q.args = p.args /\ q.dest = NULL /\ q.data = p.data
           /\ \E q \in Packet : /\ q = [p EXCEPT !.data = <<>>] /\ q.id = p.id /\ q.type = p.type
                               /\ q.cmd = p.cmd /\ q.args = p.args /\ q.dest = p.dest /\ q.data = <<>>
<1>0. <<>> \in Seq(Byte)
  OBVIOUS
<1>1. [p EXCEPT !.args = <<>>] \in Packet /\ [p EXCEPT !.data = <<>>] \in Packet
  BY <1>0, FilledType
<1>2. [p EXCEPT !.dest = NULL] \in Packet
  BY DEF Packet
<1>3. \A x, y : y = [p EXCEPT !.args = x] => /\ y.id = p.id /\ y.type = p.type /\ y.cmd = p.cmd
                                         /\ y.args = x /\ y.dest = p.dest /\ y.data = p.data
  BY DEF Packet
<1>4. \A x, y : y = [p EXCEPT !.dest = x] => /\ y.id = p.id /\ y.type = p.type /\ y.cmd = p.cmd
                                         /\ y.args = p.args /\ y.dest = x /\ y.data = p.data
  BY DEF Packet
<1>5. \A x, y : y = [p EXCEPT !.data = x] => /\ y.id = p.id /\ y.type = p.type /\ y.cmd = p.cmd
                                         /\ y.args = p.args /\ y.dest = p.dest /\ y.data = x
  BY DEF Packet
<1>6. PICK q : q = [p EXCEPT !.args = <<>>]
  OBVIOUS
<1>7. PICK r : r = [p EXCEPT !.dest = NULL]
  OBVIOUS
<1>8. PICK t : t = [p EXCEPT !.data = <<>>]
  OBVIOUS
<1>9. /\ q \in Packet /\ q.id = p.id /\ q.type = p.type
      /\ q.cmd = p.cmd /\ q.args = <<>> /\ q.dest = p.dest /\ q.data = p.data
  BY <1>1, <1>3, <1>6
<1>10. /\ r \in Packet /\ r.id = p.id /\ r.type = p.type
       /\ r.cmd = p.cmd /\ r.args = p.args /\ r.dest = NULL /\ r.data = p.data
  BY <1>2, <1>4, <1>7
<1>11. /\ t \in Packet /\ t.id = p.id /\ t.type = p.type
       /\ t.cmd = p.cmd /\ t.args = p.args /\ t.dest = p.dest /\ t.data = <<>>
  BY <1>1, <1>5, <1>8
<1> QED BY <1>6, <1>7, <1>8, <1>9, <1>10, <1>11

\* What follows the type.
Body(p) ==
    CASE p.type = MCS_TYPE_OK -> <<>>
      [] p.type = MCS_TYPE_OK_DATA -> WithSize(p.data, 2)
      [] p.type = MCS_TYPE_ERR -> p.data
      [] OTHER -> Bytes(p.cmd, 2) \o p.args
                  \o (IF p.dest = NULL THEN <<>> ELSE WithSize(p.dest, 1))
                  \o (IF p.data = <<>> THEN <<>> ELSE WithSize(p.data, 2))

\* The packets the reader can take apart.
Sound(p) == p \in Packet /\ Made(p) /\ check_packet(p) /\ WellFormed(p)

\* What is known of a packet when its first fields have been read.
Part(id, type, cmd) == [id |-> id, type |-> type, cmd |-> cmd, args |-> <<>>, dest |-> NULL, data |-> <<>>]
Base(p) == Part(p.id, p.type, p.cmd)

LEMMA PartFields ==
    /\ \A x, y, z, w : /\ [Part(x, y, z) EXCEPT !.id = w] = Part(w, y, z)
                       /\ [Part(x, y, z) EXCEPT !.type = w] = Part(x, w, z)
                       /\ [Part(x, y, z) EXCEPT !.cmd = w] = Part(x, y, w)
                       /\ Part(x, y, z).id = x /\ Part(x, y, z).type = y
    /\ Empty = Part(<<0, 0, 0, 0>>, 0, 0)
<1>1. ASSUME NEW x, NEW y, NEW z, NEW w
      PROVE  /\ [Part(x, y, z) EXCEPT !.id = w] = Part(w, y, z)
             /\ [Part(x, y, z) EXCEPT !.type = w] = Part(x, w, z)
             /\ [Part(x, y, z) EXCEPT !.cmd = w] = Part(x, y, w)
             /\ Part(x, y, z).id = x /\ Part(x, y, z).type = y
  <2>1. [Part(x, y, z) EXCEPT !.id = w] = Part(w, y, z)
    BY DEF Part
  <2>2. [Part(x, y, z) EXCEPT !.type = w] = Part(x, w, z)
    BY DEF Part
  <2>3. [Part(x, y, z) EXCEPT !.cmd = w] = Part(x, y, w)
    BY DEF Part
  <2> QED BY <2>1, <2>2, <2>3 DEF Part
<1>2. Empty = Part(<<0, 0, 0, 0>>, 0, 0)
  BY DEF Part, Empty
<1> QED BY <1>1, <1>2

LEMMA BaseFields ==
    ASSUME NEW p \in Packet
    PROVE  /\ Base(p) \in Packet /\ Base(p).id = p.id /\ Base(p).type = p.type /\ Base(p).cmd = p.cmd
           /\ Base(p).args = <<>> /\ Base(p).dest = NULL /\ Base(p).data = <<>>
<1>1. <<>> \in Seq(Byte)
  OBVIOUS
<1> QED BY <1>1, PacketFields DEF Base, Part, Packet

LEMMA AnswerParts ==
    ASSUME NEW p, Sound(p), ~(p.type < MCS_COMMAND_TYPES)
    PROVE  \/ /\ p.type = MCS_TYPE_OK /\ Body(p) = <<>> /\ p = Base(p)
           \/ /\ p.type = MCS_TYPE_OK_DATA /\ Body(p) = Bytes(Len(p.data), 2) \o p.data
              /\ Base(p) = [p EXCEPT !.data = <<>>]
           \/ /\ p.type = MCS_TYPE_ERR /\ Body(p) = p.data /\ Len(p.data) = 4
              /\ Base(p) = [p EXCEPT !.data = <<>>]
<1>1. p.type \in {MCS_TYPE_ERR, MCS_TYPE_OK, MCS_TYPE_OK_DATA}
  BY DEF Sound, check_packet, Exists
<1>2. p \in Packet /\ p.args = <<>> /\ p.dest = NULL
  <2>1. p.type >= MCS_COMMAND_TYPES
    BY <1>1 DEF MCS_COMMAND_TYPES, MCS_TYPE_ERR, MCS_TYPE_OK, MCS_TYPE_OK_DATA
  <2> QED BY <1>1, <2>1 DEF Sound, Made, check_packet
<1>3. MCS_TYPE_OK # MCS_TYPE_OK_DATA /\ MCS_TYPE_OK # MCS_TYPE_ERR /\ MCS_TYPE_OK_DATA # MCS_TYPE_ERR
  BY DEF MCS_TYPE_OK, MCS_TYPE_OK_DATA, MCS_TYPE_ERR
<1>4. CASE p.type = MCS_TYPE_OK
  <2>1. p.data = <<>>
    BY <1>1, <1>4 DEF Sound, check_packet
  <2>2. p = Base(p)
    BY <1>2, <2>1, BaseFields, SamePacket
  <2> QED BY <1>3, <1>4, <2>2 DEF Body
<1>5. Base(p) = [p EXCEPT !.data = <<>>]
  <2>1. PICK q \in Packet : /\ q = [p EXCEPT !.data = <<>>] /\ q.id = p.id /\ q.type = p.type /\ q.cmd = p.cmd
                            /\ q.args = p.args /\ q.dest = p.dest /\ q.data = <<>>
    BY <1>2, Without
  <2>2. Base(p) = q
    <3>1. /\ Base(p) \in Packet /\ Base(p).id = q.id /\ Base(p).type = q.type /\ Base(p).cmd = q.cmd
          /\ Base(p).args = q.args /\ Base(p).dest = q.dest /\ Base(p).data = q.data
      BY <1>2, <2>1, BaseFields
    <3> QED BY <3>1, SamePacket
  <2> QED BY <2>1, <2>2
<1>6. CASE p.type = MCS_TYPE_OK_DATA
  BY <1>3, <1>5, <1>6 DEF Body, WithSize
<1>7. CASE p.type = MCS_TYPE_ERR
  <2>1. Len(p.data) = 4
    BY <1>7 DEF Sound, Made
  <2>2. Body(p) = p.data
    BY <1>3, <1>7 DEF Body
  <2> QED BY <1>5, <1>7, <2>1, <2>2
<1> QED BY <1>1, <1>4, <1>6, <1>7

LEMMA CommandParts ==
    ASSUME NEW p, Sound(p), p.type < MCS_COMMAND_TYPES
    PROVE  /\ Exists(p)
           /\ \/ /\ read_check_config(p) = <<"args">> /\ Body(p) = Bytes(p.cmd, 2) \o p.args
                 /\ Len(p.args) = nargs(CommandOf(p)) /\ Base(p) = [p EXCEPT !.args = <<>>]
              \/ /\ read_check_config(p) = <<"dest_size", "dest">>
                 /\ p.dest \in Seq(Byte) /\ Len(p.dest) <= SDB_MODULE_NAME_SIZE
                 /\ Body(p) = Bytes(p.cmd, 2) \o (Bytes(Len(p.dest), 1) \o p.dest)
                 /\ Base(p) = [p EXCEPT !.dest = NULL]
              \/ /\ read_check_config(p) = <<"data_size", "data">>
                 /\ Body(p) = Bytes(p.cmd, 2) \o (Bytes(Len(p.data), 2) \o p.data)
                 /\ Base(p) = [p EXCEPT !.data = <<>>]
              \/ read_check_config(p) = <<>> /\ Body(p) = Bytes(p.cmd, 2) /\ p = Base(p)
<1> DEFINE c == CommandOf(p)
<1>1. p \in Packet /\ p.type \notin {MCS_TYPE_ERR, MCS_TYPE_OK, MCS_TYPE_OK_DATA}
  BY DEF Sound, MCS_COMMAND_TYPES, MCS_TYPE_ERR, MCS_TYPE_OK, MCS_TYPE_OK_DATA
<1>2. /\ Exists(p) /\ Len(p.args) = nargs(c) /\ (raw_data(c) <=> p.data # <<>>)
      /\ (p.dest # NULL <=> destination(c) = "@") /\ (p.dest # NULL => Len(p.dest) <= SDB_MODULE_NAME_SIZE)
  BY <1>1 DEF Sound, check_packet, WellFormed
<1>3. PICK b \in Seq(Byte) : b = Bytes(p.cmd, 2)
  BY <1>1, PacketFields, ValueBytes DEF Sound, Made
<1>4. Body(p) = b \o p.args \o (IF p.dest = NULL THEN <<>> ELSE WithSize(p.dest, 1))
                \o (IF p.data = <<>> THEN <<>> ELSE WithSize(p.data, 2))
  BY <1>1, <1>3 DEF Body
<1>5. \A s \in Seq(Byte) : s \o <<>> = s /\ <<>> \o s = s
  OBVIOUS
<1>6. p.args \in Seq(Byte) /\ p.data \in Seq(Byte) /\ b \o p.args \in Seq(Byte) /\ p.type \in Byte /\ p.cmd \in Nat
  BY <1>1, PacketFields
<1>7. nargs(c) = 0 => p.args = <<>>
  BY <1>2, <1>6, EmptySeq
<1> HIDE DEF c
<1>8. CASE /\ read_check_config(p) = <<"args">> /\ nargs(c) = 1 /\ destination(c) # "@" /\ ~raw_data(c)
  <2>1. p.dest = NULL /\ p.data = <<>>
    BY <1>2, <1>8
  <2>2. Body(p) = b \o p.args \o <<>> \o <<>>
    BY <1>4, <2>1
  <2>3. Body(p) = b \o p.args
    BY <1>5, <1>6, <2>2
  <2>4. PICK q \in Packet : /\ q = [p EXCEPT !.args = <<>>] /\ q.id = p.id /\ q.type = p.type /\ q.cmd = p.cmd
                            /\ q.args = <<>> /\ q.dest = p.dest /\ q.data = p.data
    BY <1>1, Without
  <2>5. Base(p) = q
    <3>1. /\ Base(p) \in Packet /\ Base(p).id = q.id /\ Base(p).type = q.type /\ Base(p).cmd = q.cmd
          /\ Base(p).args = q.args /\ Base(p).dest = q.dest /\ Base(p).data = q.data
      BY <1>1, <2>1, <2>4, BaseFields
    <3> QED BY <3>1, SamePacket
  <2> QED BY <1>2, <1>3, <1>8, <2>3, <2>4, <2>5 DEF c
<1>9. CASE /\ read_check_config(p) = <<"dest_size", "dest">> /\ nargs(c) = 0 /\ destination(c) = "@" /\ ~raw_data(c)
  <2>1. p.dest # NULL /\ p.data = <<>> /\ p.args = <<>> /\ p.dest \in Seq(Byte) /\ Len(p.dest) <= SDB_MODULE_NAME_SIZE
    BY <1>1, <1>2, <1>7, <1>9, PacketFields
  <2>2. Body(p) = b \o <<>> \o WithSize(p.dest, 1) \o <<>>
    BY <1>4, <2>1
  <2>3. WithSize(p.dest, 1) \in Seq(Byte) /\ WithSize(p.dest, 1) = Bytes(Len(p.dest), 1) \o p.dest
    <3>1. Len(p.dest) \in Nat
      BY <2>1
    <3>2. PICK x \in Seq(Byte) : x = Bytes(Len(p.dest), 1)
      BY <2>1, <3>1, SmallByte
    <3> QED BY <2>1, <3>2 DEF WithSize
  <2>4. Body(p) = b \o WithSize(p.dest, 1)
    <3>1. b \o WithSize(p.dest, 1) \in Seq(Byte)
      BY <2>3
    <3> QED BY <1>5, <2>2, <3>1
  <2>5. PICK q \in Packet : /\ q = [p EXCEPT !.dest = NULL] /\ q.id = p.id /\ q.type = p.type /\ q.cmd = p.cmd
                            /\ q.args = p.args /\ q.dest = NULL /\ q.data = p.data
    BY <1>1, Without
  <2>6. Base(p) = q
    <3>1. /\ Base(p) \in Packet /\ Base(p).id = q.id /\ Base(p).type = q.type /\ Base(p).cmd = q.cmd
          /\ Base(p).args = q.args /\ Base(p).dest = q.dest /\ Base(p).data = q.data
      BY <1>1, <2>1, <2>5, BaseFields
    <3> QED BY <3>1, SamePacket
  <2> QED BY <1>2, <1>3, <1>9, <2>1, <2>3, <2>4, <2>5, <2>6
<1>10. CASE /\ read_check_config(p) = <<"data_size", "data">> /\ nargs(c) = 0 /\ destination(c) # "@" /\ raw_data(c)
  <2>1. p.dest = NULL /\ p.data # <<>> /\ p.args = <<>>
    BY <1>2, <1>7, <1>10
  <2>2. Body(p) = b \o <<>> \o <<>> \o WithSize(p.data, 2)
    BY <1>4, <2>1
  <2>3. WithSize(p.data, 2) = Bytes(Len(p.data), 2) \o p.data
    BY DEF WithSize
  <2>4. Body(p) = b \o WithSize(p.data, 2)
    BY <1>5, <2>2
  <2>5. PICK q \in Packet : /\ q = [p EXCEPT !.data = <<>>] /\ q.id = p.id /\ q.type = p.type /\ q.cmd = p.cmd
                            /\ q.args = p.args /\ q.dest = p.dest /\ q.data = <<>>
    BY <1>1, Without
  <2>6. Base(p) = q
    <3>1. /\ Base(p) \in Packet /\ Base(p).id = q.id /\ Base(p).type = q.type /\ Base(p).cmd = q.cmd
          /\ Base(p).args = q.args /\ Base(p).dest = q.dest /\ Base(p).data = q.data
      BY <1>1, <2>1, <2>5, BaseFields
    <3> QED BY <3>1, SamePacket
  <2> QED BY <1>2, <1>3, <1>10, <2>3, <2>4, <2>5, <2>6
<1>11. CASE /\ read_check_config(p) = <<>> /\ nargs(c) = 0 /\ destination(c) # "@" /\ ~raw_data(c)
  <2>1. p.dest = NULL /\ p.data = <<>> /\ p.args = <<>>
    BY <1>2, <1>7, <1>11
  <2>2. Body(p) = b \o <<>> \o <<>> \o <<>>
    BY <1>4, <2>1
  <2>3. Body(p) = b
    BY <1>5, <2>2
  <2>4. p = Base(p)
    BY <1>1, <2>1, BaseFields, SamePacket
  <2> QED BY <1>2, <1>3, <1>11, <2>3, <2>4
<1> QED BY <1>2, <1>6, <1>8, <1>9, <1>10, <1>11, CommandTable DEF c

-----------------------------------------------------------------------------
(* Reading in step with the writer.                                        *)

\* mcs_read_command is within packet p: pkt has what is read of it, and the
\* stream the rest, followed by t.
Stage(p, t) ==
    \/ /\ todo = <<"id", "type">> /\ pkt = Empty
       /\ stream = p.id \o (<<p.type>> \o (Body(p) \o t))
    \/ /\ todo = <<"type">> /\ pkt = Part(p.id, 0, 0)
       /\ stream = <<p.type>> \o (Body(p) \o t)
    \/ /\ todo = <<"cmd">> /\ pkt = Part(p.id, p.type, 0) /\ p.type < MCS_COMMAND_TYPES
       /\ stream = Body(p) \o t
    \/ /\ todo = <<"args">> /\ pkt = [p EXCEPT !.args = <<>>] /\ Len(p.args) = nargs(CommandOf(p))
       /\ stream = p.args \o t
    \/ /\ todo = <<"dest_size", "dest">> /\ pkt = [p EXCEPT !.dest = NULL]
       /\ p.dest \in Seq(Byte) /\ Len(p.dest) <= SDB_MODULE_NAME_SIZE
       /\ stream = Bytes(Len(p.dest), 1) \o (p.dest \o t)
    \/ /\ todo = <<"dest">> /\ pkt = [p EXCEPT !.dest = NULL]
       /\ p.dest \in Seq(Byte) /\ size = Len(p.dest)
       /\ stream = p.dest \o t
    \/ /\ todo = <<"data_size", "data">> /\ pkt = [p EXCEPT !.data = <<>>]
       /\ stream = Bytes(Len(p.data), 2) \o (p.data \o t)
    \/ /\ todo = <<"data">> /\ pkt = [p EXCEPT !.data = <<>>] /\ size = Len(p.data)
       /\ stream = p.data \o t
    \/ /\ todo = <<"code">> /\ pkt = [p EXCEPT !.data = <<>>] /\ Len(p.data) = 4
       /\ stream = p.data \o t

LEMMA SameCommand ==
    ASSUME NEW p, NEW q, q.type = p.type, q.cmd = p.cmd
    PROVE  /\ Exists(q) <=> Exists(p)
           /\ CommandOf(q) = CommandOf(p) /\ read_check_config(q) = read_check_config(p)
<1>1. CommandOf(q) = CommandOf(p)
  BY DEF CommandOf
<1>2. Exists(q) <=> Exists(p)
  BY DEF Exists
<1> QED BY <1>1, <1>2 DEF read_check_config

LEMMA TypesDiffer ==
    /\ MCS_TYPE_OK # MCS_TYPE_OK_DATA /\ MCS_TYPE_OK # MCS_TYPE_ERR /\ MCS_TYPE_OK_DATA # MCS_TYPE_ERR
    /\ \A n \in {MCS_TYPE_OK, MCS_TYPE_OK_DATA, MCS_TYPE_ERR} : ~(n < MCS_COMMAND_TYPES) /\ n >= MCS_COMMAND_TYPES
BY DEF MCS_COMMAND_TYPES, MCS_TYPE_ERR, MCS_TYPE_OK, MCS_TYPE_OK_DATA

LEMMA ConcatBytes ==
    ASSUME NEW x \in Seq(Byte), NEW y \in Seq(Byte), NEW z \in Seq(Byte)
    PROVE  x \o y \in Seq(Byte) /\ (x \o y) \o z = x \o (y \o z)
BY ConcatAssociative

LEMMA BodyType ==
    ASSUME NEW p, Sound(p), NEW t \in Seq(Byte)
    PROVE  Body(p) \in Seq(Byte) /\ Body(p) \o t \in Seq(Byte)
<1>0. p \in Packet /\ p.data \in Seq(Byte) /\ p.args \in Seq(Byte) /\ p.cmd \in Nat /\ p.cmd < 65536
      /\ Len(p.data) \in Nat /\ Len(p.data) < 65536
  <2>1. p \in Packet /\ p.cmd < 65536 /\ Len(p.data) < 65536
    BY DEF Sound, Made
  <2>2. p.data \in Seq(Byte) /\ p.args \in Seq(Byte) /\ p.cmd \in Nat
    BY <2>1, PacketFields
  <2> QED BY <2>1, <2>2
<1>1. Bytes(p.cmd, 2) \in Seq(Byte) /\ Bytes(Len(p.data), 2) \in Seq(Byte)
  BY <1>0, ValueBytes
<1>2. Bytes(Len(p.data), 2) \o p.data \in Seq(Byte) /\ Bytes(p.cmd, 2) \o p.args \in Seq(Byte)
  BY <1>0, <1>1
<1>3. ASSUME p.dest \in Seq(Byte), Len(p.dest) <= SDB_MODULE_NAME_SIZE
      PROVE  Bytes(Len(p.dest), 1) \o p.dest \in Seq(Byte)
  <2>1. Len(p.dest) \in Nat
    BY <1>3
  <2>2. Bytes(Len(p.dest), 1) \in Seq(Byte)
    BY <1>3, <2>1, SmallByte
  <2> QED BY <1>3, <2>2
<1>4. \A x, y \in Seq(Byte) : x \o y \in Seq(Byte)
  OBVIOUS
<1>5. Body(p) \in Seq(Byte)
  <2>1. CASE p.type < MCS_COMMAND_TYPES
    BY <1>1, <1>2, <1>3, <1>4, <2>1, CommandParts
  <2>2. CASE ~(p.type < MCS_COMMAND_TYPES)
    <3>1. <<>> \in Seq(Byte)
      OBVIOUS
    <3>2. Body(p) = <<>> \/ Body(p) = Bytes(Len(p.data), 2) \o p.data \/ Body(p) = p.data
      BY <2>2, AnswerParts
    <3>3. CASE Body(p) = <<>>
      BY <3>1, <3>3
    <3>4. CASE Body(p) = Bytes(Len(p.data), 2) \o p.data
      BY <1>2, <3>4
    <3>5. CASE Body(p) = p.data
      BY <1>0, <3>5
    <3> QED BY <3>2, <3>3, <3>4, <3>5
  <2> QED BY <2>1, <2>2
<1> QED BY <1>4, <1>5

LEMMA SizedParts ==
    ASSUME NEW p, Sound(p), NEW t \in Seq(Byte)
    PROVE  /\ p.data \in Seq(Byte) /\ p.args \in Seq(Byte)
           /\ Bytes(Len(p.data), 2) \in Seq(Byte) /\ Len(Bytes(Len(p.data), 2)) = 2
           /\ Value(Bytes(Len(p.data), 2)) = Len(p.data)
           /\ (Bytes(Len(p.data), 2) \o p.data) \o t = Bytes(Len(p.data), 2) \o (p.data \o t)
<1>1. p \in Packet /\ Len(p.data) < 65536
  BY DEF Sound, Made
<1>2. p.data \in Seq(Byte) /\ p.args \in Seq(Byte)
  BY <1>1, PacketFields
<1>3. Len(p.data) \in Nat
  BY <1>2
<1>4. /\ Bytes(Len(p.data), 2) \in Seq(Byte) /\ Len(Bytes(Len(p.data), 2)) = 2
      /\ Value(Bytes(Len(p.data), 2)) = Len(p.data)
  BY <1>1, <1>3, ValueBytes
<1> QED BY <1>2, <1>4, ConcatBytes

LEMMA EncodeParts ==
    ASSUME NEW p, Sound(p), NEW t \in Seq(Byte)
    PROVE  Encode(p) \o t = p.id \o (<<p.type>> \o (Body(p) \o t))
<1>1. PICK x \in Seq(Byte), y \in Seq(Byte), z \in Seq(Byte) : x = p.id /\ y = <<p.type>> /\ z = Body(p)
  <2>1. p \in Packet
    BY DEF Sound
  <2>2. p.id \in Seq(Byte) /\ p.type \in Byte
    BY <2>1, PacketFields
  <2>3. <<p.type>> \in Seq(Byte)
    BY <2>2
  <2> QED BY <2>2, <2>3, BodyType
<1>2. Encode(p) = (x \o y) \o z
  BY <1>1 DEF Encode, Body
<1>3. ((x \o y) \o z) \o t = (x \o y) \o (z \o t)
  <2>1. x \o y \in Seq(Byte)
    OBVIOUS
  <2> QED BY <2>1, ConcatAssociative, SMTT(30)
<1>4. (x \o y) \o (z \o t) = x \o (y \o (z \o t))
  <2>1. z \o t \in Seq(Byte)
    OBVIOUS
  <2> QED BY <2>1, ConcatAssociative, SMTT(30)
<1> QED BY <1>1, <1>2, <1>3, <1>4

\* A step of the reader within packet p: p is complete, or the reader goes on.
InStep(p, t) ==
    /\ UNCHANGED <<answers, first_bad, sent, timeouts>>
    /\ \/ todo' = <<>> /\ stream' = t /\ got' = Append(got, p)
       \/ got' = got /\ Stage(p, t)'

LEMMA StepId ==
    ASSUME NEW p, Sound(p), NEW t \in Seq(Byte), abs_read, todo = <<"id", "type">>, pkt = Empty,
           stream = p.id \o (<<p.type>> \o (Body(p) \o t))
    PROVE  InStep(p, t)
<1>1. Takes(4) /\ GoesOn(<<"type">>, [pkt EXCEPT !.id = Taken(4)], size)
  BY ReadId
<1>2. p \in Packet /\ p.id \in Seq(Byte) /\ Len(p.id) = 4 /\ p.type \in Byte
  BY PacketFields DEF Sound, Made
<1>3. PICK r \in Seq(Byte) : r = <<p.type>> \o (Body(p) \o t)
  <2>1. <<p.type>> \in Seq(Byte) /\ Body(p) \o t \in Seq(Byte)
    BY <1>2, BodyType
  <2>2. <<p.type>> \o (Body(p) \o t) \in Seq(Byte)
    BY <2>1, ConcatBytes
  <2> QED BY <2>2
<1>4. Taken(4) = p.id /\ stream' = r
  BY <1>1, <1>2, <1>3, TakesPart
<1>5. [pkt EXCEPT !.id = Taken(4)] = Part(p.id, 0, 0)
  BY <1>4, PartFields
<1>6. <<"type">> # <<>>
  OBVIOUS
<1>7. got' = got /\ todo' = <<"type">> /\ pkt' = Part(p.id, 0, 0)
  BY <1>1, <1>5, <1>6 DEF GoesOn
<1>8. Stage(p, t)'
  BY <1>3, <1>4, <1>7 DEF Stage
<1> QED BY <1>1, <1>7, <1>8 DEF InStep, GoesOn, Takes

LEMMA StepType ==
    ASSUME NEW p, Sound(p), NEW t \in Seq(Byte), abs_read, todo = <<"type">>, pkt = Part(p.id, 0, 0),
           stream = <<p.type>> \o (Body(p) \o t)
    PROVE  InStep(p, t)
<1>1. p \in Packet /\ p.type \in Byte
  BY PacketFields DEF Sound
<1>2. <<p.type>> \in Seq(Byte) /\ Len(<<p.type>>) = 1 /\ <<p.type>>[1] = p.type /\ Body(p) \o t \in Seq(Byte)
  BY <1>1, BodyType
<1>3. Taken(1) = <<p.type>> /\ (Takes(1) => stream' = Body(p) \o t)
  BY <1>2, TakesPart
<1>4. PICK q : q = [pkt EXCEPT !.type = Taken(1)[1]]
  OBVIOUS
<1>5. q = Part(p.id, p.type, 0) /\ q.type = p.type
  BY <1>2, <1>3, <1>4, PartFields
<1>6. /\ Takes(1)
      /\ IF Refused("type", q, size) THEN error(q, TRUE) /\ size' = size
         ELSE GoesOn(AfterType(q.type), q, size)
  BY <1>4, ReadType
<1>7. stream' = Body(p) \o t /\ UNCHANGED <<sent, timeouts>>
  BY <1>3, <1>6 DEF Takes
<1>8. CASE p.type < MCS_COMMAND_TYPES
  <2>1. ~Refused("type", q, size) /\ AfterType(q.type) = <<"cmd">> /\ <<"cmd">> # <<>>
    <3>1. ~(p.type >= MCS_COMMAND_TYPES)
      <4>1. p.type \in Nat
        BY <1>1, ByteNat
      <4> QED BY <1>8, <4>1 DEF MCS_COMMAND_TYPES
    <3>2. ~Refused("type", q, size)
      BY <1>5, <3>1 DEF Refused
    <3>3. AfterType(q.type) = <<"cmd">>
      BY <1>5, <1>8, TypesDiffer DEF AfterType
    <3> QED BY <3>2, <3>3
  <2>2. got' = got /\ todo' = <<"cmd">> /\ pkt' = q /\ UNCHANGED <<answers, first_bad>>
    BY <1>6, <2>1 DEF GoesOn
  <2>3. Stage(p, t)'
    BY <1>5, <1>7, <1>8, <2>2 DEF Stage
  <2> QED BY <1>7, <2>2, <2>3 DEF InStep
<1>9. CASE ~(p.type < MCS_COMMAND_TYPES)
  <2>1. p.type \in {MCS_TYPE_OK, MCS_TYPE_OK_DATA, MCS_TYPE_ERR}
    BY <1>9, AnswerParts
  <2>2. ~Refused("type", q, size)
    BY <1>5, <2>1 DEF Refused
  <2>3. GoesOn(AfterType(q.type), q, size)
    BY <1>6, <2>2
  <2>4. q = Base(p)
    <3>1. p.type >= MCS_COMMAND_TYPES
      BY <2>1 DEF MCS_COMMAND_TYPES, MCS_TYPE_ERR, MCS_TYPE_OK, MCS_TYPE_OK_DATA
    <3>2. p.cmd = 0
      BY <3>1 DEF Sound, Made
    <3> QED BY <1>5, <3>2 DEF Base
  <2>5. CASE p.type = MCS_TYPE_OK
    <3>1. AfterType(q.type) = <<>>
      BY <1>5, <2>5, TypesDiffer DEF AfterType
    <3>2. Body(p) = <<>> /\ p = Base(p)
      BY <1>9, <2>5, AnswerParts, TypesDiffer
    <3>3. todo' = <<>> /\ got' = Append(got, p) /\ UNCHANGED <<answers, first_bad>>
      BY <2>3, <2>4, <3>1, <3>2 DEF GoesOn
    <3>4. <<>> \o t = t
      OBVIOUS
    <3> QED BY <1>7, <3>2, <3>3, <3>4 DEF InStep
  <2>6. CASE p.type = MCS_TYPE_OK_DATA
    <3>1. AfterType(q.type) = <<"data_size", "data">> /\ <<"data_size", "data">> # <<>>
      BY <1>5, <2>6, TypesDiffer DEF AfterType
    <3>2. Body(p) = Bytes(Len(p.data), 2) \o p.data /\ q = [p EXCEPT !.data = <<>>]
      BY <1>9, <2>4, <2>6, AnswerParts, TypesDiffer
    <3>3. got' = got /\ todo' = <<"data_size", "data">> /\ pkt' = q /\ UNCHANGED <<answers, first_bad>>
      BY <2>3, <3>1 DEF GoesOn
    <3>4. (Bytes(Len(p.data), 2) \o p.data) \o t = Bytes(Len(p.data), 2) \o (p.data \o t)
      BY SizedParts
    <3>5. Stage(p, t)'
      BY <1>7, <3>2, <3>3, <3>4 DEF Stage
    <3> QED BY <1>7, <3>3, <3>5 DEF InStep
  <2>7. CASE p.type = MCS_TYPE_ERR
    <3>1. AfterType(q.type) = <<"code">> /\ <<"code">> # <<>>
      BY <1>5, <2>7, TypesDiffer DEF AfterType
    <3>2. Body(p) = p.data /\ Len(p.data) = 4 /\ q = [p EXCEPT !.data = <<>>]
      BY <1>9, <2>4, <2>7, AnswerParts, TypesDiffer
    <3>3. got' = got /\ todo' = <<"code">> /\ pkt' = q /\ UNCHANGED <<answers, first_bad>>
      BY <2>3, <3>1 DEF GoesOn
    <3>4. Stage(p, t)'
      BY <1>7, <3>2, <3>3 DEF Stage
    <3> QED BY <1>7, <3>3, <3>4 DEF InStep
  <2> QED BY <2>1, <2>5, <2>6, <2>7
<1> QED BY <1>8, <1>9

\* The bytes of a command: its number, then one of what read_check_config asks for.
LEMMA CommandBody ==
    ASSUME NEW p, Sound(p), p.type < MCS_COMMAND_TYPES, NEW b \in Seq(Byte), b = Bytes(p.cmd, 2)
    PROVE  \E x \in Seq(Byte) :
            /\ Body(p) = b \o x
            /\ \/ /\ read_check_config(p) = <<"args">> /\ x = p.args
                  /\ Len(p.args) = nargs(CommandOf(p)) /\ Base(p) = [p EXCEPT !.args = <<>>]
               \/ /\ read_check_config(p) = <<"dest_size", "dest">>
                  /\ p.dest \in Seq(Byte) /\ Len(p.dest) <= SDB_MODULE_NAME_SIZE
                  /\ x = Bytes(Len(p.dest), 1) \o p.dest
                  /\ Base(p) = [p EXCEPT !.dest = NULL]
               \/ /\ read_check_config(p) = <<"data_size", "data">>
                  /\ x = Bytes(Len(p.data), 2) \o p.data
                  /\ Base(p) = [p EXCEPT !.data = <<>>]
               \/ read_check_config(p) = <<>> /\ x = <<>> /\ p = Base(p)
<1>1. p.args \in Seq(Byte) /\ Bytes(Len(p.data), 2) \o p.data \in Seq(Byte) /\ <<>> \in Seq(Byte)
  <2>1. p.data \in Seq(Byte) /\ p.args \in Seq(Byte) /\ Bytes(Len(p.data), 2) \in Seq(Byte)
    BY SizedParts
  <2> QED BY <2>1, ConcatBytes
<1>2. ASSUME p.dest \in Seq(Byte), Len(p.dest) <= SDB_MODULE_NAME_SIZE
      PROVE  Bytes(Len(p.dest), 1) \o p.dest \in Seq(Byte)
  <2>1. Len(p.dest) \in Nat
    BY <1>2
  <2>2. Bytes(Len(p.dest), 1) \in Seq(Byte)
    BY <1>2, <2>1, SmallByte
  <2> QED BY <1>2, <2>2
<1>3. b \o <<>> = b
  OBVIOUS
<1> QED BY <1>1, <1>2, <1>3, CommandParts

LEMMA StepCmd ==
    ASSUME NEW p, Sound(p), NEW t \in Seq(Byte), abs_read, todo = <<"cmd">>,
           pkt = Part(p.id, p.type, 0), p.type < MCS_COMMAND_TYPES, stream = Body(p) \o t
    PROVE  InStep(p, t)
<1>1. p \in Packet /\ p.cmd \in Nat /\ p.cmd < 65536
  BY PacketFields DEF Sound, Made
<1>2. PICK b \in Seq(Byte) : b = Bytes(p.cmd, 2) /\ Len(b) = 2 /\ Value(b) = p.cmd
  BY <1>1, ValueBytes
<1>3. PICK x \in Seq(Byte) :
        /\ Body(p) = b \o x
        /\ \/ /\ read_check_config(p) = <<"args">> /\ x = p.args
              /\ Len(p.args) = nargs(CommandOf(p)) /\ Base(p) = [p EXCEPT !.args = <<>>]
           \/ /\ read_check_config(p) = <<"dest_size", "dest">>
              /\ p.dest \in Seq(Byte) /\ Len(p.dest) <= SDB_MODULE_NAME_SIZE
              /\ x = Bytes(Len(p.dest), 1) \o p.dest
              /\ Base(p) = [p EXCEPT !.dest = NULL]
           \/ /\ read_check_config(p) = <<"data_size", "data">>
              /\ x = Bytes(Len(p.data), 2) \o p.data
              /\ Base(p) = [p EXCEPT !.data = <<>>]
           \/ read_check_config(p) = <<>> /\ x = <<>> /\ p = Base(p)
  BY <1>2, CommandBody
<1>4. stream = b \o (x \o t) /\ x \o t \in Seq(Byte)
  BY <1>3, ConcatBytes
<1>5. Taken(2) = b /\ (Takes(2) => stream' = x \o t)
  BY <1>2, <1>4, TakesPart
<1>6. PICK q : q = [pkt EXCEPT !.cmd = Value(Taken(2))]
  OBVIOUS
<1>7. q = Base(p)
  BY <1>2, <1>5, <1>6, PartFields DEF Base
<1>8. Exists(q) /\ read_check_config(q) = read_check_config(p)
  <2>1. q.type = p.type /\ q.cmd = p.cmd
    BY <1>1, <1>7, BaseFields
  <2>2. Exists(p)
    BY CommandParts
  <2> QED BY <2>1, <2>2, SameCommand
<1>9. Takes(2) /\ GoesOn(read_check_config(p), q, size)
  BY <1>6, <1>8, ReadCmd
<1>10. stream' = x \o t /\ UNCHANGED <<sent, timeouts, answers, first_bad>>
  BY <1>5, <1>9 DEF Takes, GoesOn
<1>11. <<"args">> # <<>> /\ <<"dest_size", "dest">> # <<>> /\ <<"data_size", "data">> # <<>>
  OBVIOUS
<1>12. CASE /\ read_check_config(p) = <<"args">> /\ x = p.args
            /\ Len(p.args) = nargs(CommandOf(p)) /\ Base(p) = [p EXCEPT !.args = <<>>]
  <2>1. got' = got /\ todo' = <<"args">> /\ pkt' = q
    BY <1>9, <1>11, <1>12 DEF GoesOn
  <2>2. Stage(p, t)'
    BY <1>7, <1>10, <1>12, <2>1 DEF Stage
  <2> QED BY <1>10, <2>1, <2>2 DEF InStep
<1>13. CASE /\ read_check_config(p) = <<"dest_size", "dest">>
            /\ p.dest \in Seq(Byte) /\ Len(p.dest) <= SDB_MODULE_NAME_SIZE
            /\ x = Bytes(Len(p.dest), 1) \o p.dest /\ Base(p) = [p EXCEPT !.dest = NULL]
  <2>1. got' = got /\ todo' = <<"dest_size", "dest">> /\ pkt' = q
    BY <1>9, <1>11, <1>13 DEF GoesOn
  <2>2. Len(p.dest) \in Nat
    BY <1>13
  <2>3. Bytes(Len(p.dest), 1) \in Seq(Byte)
    BY <1>13, <2>2, SmallByte
  <2>4. x \o t = Bytes(Len(p.dest), 1) \o (p.dest \o t)
    BY <1>13, <2>3, ConcatBytes
  <2>5. Stage(p, t)'
    BY <1>7, <1>10, <1>13, <2>1, <2>4 DEF Stage
  <2> QED BY <1>10, <2>1, <2>5 DEF InStep
<1>14. CASE /\ read_check_config(p) = <<"data_size", "data">>
            /\ x = Bytes(Len(p.data), 2) \o p.data /\ Base(p) = [p EXCEPT !.data = <<>>]
  <2>1. got' = got /\ todo' = <<"data_size", "data">> /\ pkt' = q
    BY <1>9, <1>11, <1>14 DEF GoesOn
  <2>2. x \o t = Bytes(Len(p.data), 2) \o (p.data \o t)
    BY <1>14, SizedParts
  <2>3. Stage(p, t)'
    BY <1>7, <1>10, <1>14, <2>1, <2>2 DEF Stage
  <2> QED BY <1>10, <2>1, <2>3 DEF InStep
<1>15. CASE read_check_config(p) = <<>> /\ x = <<>> /\ p = Base(p)
  <2>1. todo' = <<>> /\ got' = Append(got, p)
    BY <1>7, <1>9, <1>15 DEF GoesOn
  <2>2. <<>> \o t = t
    OBVIOUS
  <2> QED BY <1>10, <1>15, <2>1, <2>2 DEF InStep
<1> QED BY <1>3, <1>12, <1>13, <1>14, <1>15

LEMMA StepDestSize ==
    ASSUME NEW p, Sound(p), NEW t \in Seq(Byte), abs_read, todo = <<"dest_size", "dest">>,
           pkt = [p EXCEPT !.dest = NULL], p.dest \in Seq(Byte), Len(p.dest) <= SDB_MODULE_NAME_SIZE,
           stream = Bytes(Len(p.dest), 1) \o (p.dest \o t)
    PROVE  InStep(p, t)
<1>1. PICK n \in Nat : n = Len(p.dest)
  OBVIOUS
<1>2. Bytes(n, 1) = <<n>> /\ <<n>> \in Seq(Byte) /\ Len(<<n>>) = 1 /\ <<n>>[1] = n
  BY <1>1, SmallByte
<1>3. p.dest \o t \in Seq(Byte)
  BY ConcatBytes
<1>4. Taken(1) = <<n>> /\ (Takes(1) => stream' = p.dest \o t)
  BY <1>1, <1>2, <1>3, TakesPart
<1>5. n = Taken(1)[1]
  BY <1>2, <1>4
<1>6. Takes(1) /\ IF n > SDB_MODULE_NAME_SIZE THEN error(pkt, TRUE) ELSE GoesOn(<<"dest">>, pkt, n)
  BY <1>5, ReadDestSize
<1>7. ~(n > SDB_MODULE_NAME_SIZE)
  BY <1>1 DEF SDB_MODULE_NAME_SIZE
<1>8. GoesOn(<<"dest">>, pkt, n) /\ <<"dest">> # <<>>
  BY <1>6, <1>7
<1>9. /\ got' = got /\ todo' = <<"dest">> /\ pkt' = pkt /\ size' = n
      /\ stream' = p.dest \o t /\ UNCHANGED <<sent, timeouts, answers, first_bad>>
  BY <1>4, <1>6, <1>8 DEF GoesOn, Takes
<1>10. Stage(p, t)'
  BY <1>1, <1>9 DEF Stage
<1> QED BY <1>9, <1>10 DEF InStep

LEMMA StepDataSize ==
    ASSUME NEW p, Sound(p), NEW t \in Seq(Byte), abs_read, todo = <<"data_size", "data">>,
           pkt = [p EXCEPT !.data = <<>>], stream = Bytes(Len(p.data), 2) \o (p.data \o t)
    PROVE  InStep(p, t)
<1>1. PICK b \in Seq(Byte) : b = Bytes(Len(p.data), 2) /\ Len(b) = 2 /\ Value(b) = Len(p.data)
  BY SizedParts
<1>2. p.data \o t \in Seq(Byte)
  BY SizedParts, ConcatBytes
<1>3. Taken(2) = b /\ (Takes(2) => stream' = p.data \o t)
  BY <1>1, <1>2, TakesPart
<1>4. Takes(2) /\ GoesOn(<<"data">>, pkt, Value(Taken(2))) /\ <<"data">> # <<>>
  BY ReadDataSize
<1>5. /\ got' = got /\ todo' = <<"data">> /\ pkt' = pkt /\ size' = Len(p.data)
      /\ stream' = p.data \o t /\ UNCHANGED <<sent, timeouts, answers, first_bad>>
  BY <1>1, <1>3, <1>4 DEF GoesOn, Takes
<1>6. Stage(p, t)'
  BY <1>5 DEF Stage
<1> QED BY <1>5, <1>6 DEF InStep

\* Filling in the part that was missing gives the packet.
LEMMA Whole ==
    ASSUME NEW p \in Packet
    PROVE  /\ [[p EXCEPT !.args = <<>>] EXCEPT !.args = p.args] = p
           /\ [[p EXCEPT !.dest = NULL] EXCEPT !.dest = p.dest] = p
           /\ [[p EXCEPT !.data = <<>>] EXCEPT !.data = p.data] = p
<1>1. [[p EXCEPT !.args = <<>>] EXCEPT !.args = p.args] = p
  BY DEF Packet
<1>2. [[p EXCEPT !.dest = NULL] EXCEPT !.dest = p.dest] = p
  BY DEF Packet
<1>3. [[p EXCEPT !.data = <<>>] EXCEPT !.data = p.data] = p
  BY DEF Packet
<1> QED BY <1>1, <1>2, <1>3

\* The last field completes the packet.
LEMMA StepLast ==
    ASSUME NEW p, Sound(p), NEW t \in Seq(Byte), NEW f \in Seq(Byte), stream = f \o t,
           Takes(Len(f)), GoesOn(<<>>, p, size)
    PROVE  InStep(p, t)
<1>1. stream' = t
  BY TakesPart
<1>2. todo' = <<>> /\ got' = Append(got, p) /\ UNCHANGED <<answers, first_bad, sent, timeouts>>
  BY DEF GoesOn, Takes
<1> QED BY <1>1, <1>2 DEF InStep

LEMMA StageRead ==
    ASSUME NEW p, Sound(p), NEW t \in Seq(Byte), Stage(p, t), abs_read
    PROVE  InStep(p, t)
<1>0. p \in Packet /\ p.args \in Seq(Byte) /\ p.data \in Seq(Byte)
  BY PacketFields DEF Sound
<1>1. CASE /\ todo = <<"id", "type">> /\ pkt = Empty /\ stream = p.id \o (<<p.type>> \o (Body(p) \o t))
  BY <1>1, StepId
<1>2. CASE /\ todo = <<"type">> /\ pkt = Part(p.id, 0, 0) /\ stream = <<p.type>> \o (Body(p) \o t)
  BY <1>2, StepType
<1>3. CASE /\ todo = <<"cmd">> /\ pkt = Part(p.id, p.type, 0) /\ p.type < MCS_COMMAND_TYPES
           /\ stream = Body(p) \o t
  BY <1>3, StepCmd
<1>4. CASE /\ todo = <<"args">> /\ pkt = [p EXCEPT !.args = <<>>] /\ Len(p.args) = nargs(CommandOf(p))
           /\ stream = p.args \o t
  <2>1. CommandOf(pkt) = CommandOf(p)
    <3>1. PICK q \in Packet : q = pkt /\ q.type = p.type /\ q.cmd = p.cmd
      BY <1>0, <1>4, Without
    <3> QED BY <3>1, SameCommand
  <2>2. PICK n : n = Len(p.args) /\ Takes(n) /\ GoesOn(<<>>, [pkt EXCEPT !.args = Taken(n)], size)
    BY <1>4, <2>1, ReadLast
  <2>3. Taken(n) = p.args
    BY <1>0, <1>4, <2>2, TakesPart
  <2>4. GoesOn(<<>>, p, size)
    BY <1>0, <1>4, <2>2, <2>3, Whole
  <2> QED BY <1>0, <1>4, <2>2, <2>4, StepLast
<1>5. CASE /\ todo = <<"dest_size", "dest">> /\ pkt = [p EXCEPT !.dest = NULL]
           /\ p.dest \in Seq(Byte) /\ Len(p.dest) <= SDB_MODULE_NAME_SIZE
           /\ stream = Bytes(Len(p.dest), 1) \o (p.dest \o t)
  BY <1>5, StepDestSize
<1>6. CASE /\ todo = <<"dest">> /\ pkt = [p EXCEPT !.dest = NULL]
           /\ p.dest \in Seq(Byte) /\ size = Len(p.dest) /\ stream = p.dest \o t
  <2>1. Takes(size) /\ GoesOn(<<>>, [pkt EXCEPT !.dest = Taken(size)], size)
    BY <1>6, ReadLast
  <2>2. Taken(size) = p.dest
    BY <1>6, TakesPart
  <2>3. GoesOn(<<>>, p, size)
    BY <1>0, <1>6, <2>1, <2>2, Whole
  <2> QED BY <1>6, <2>1, <2>3, StepLast
<1>7. CASE /\ todo = <<"data_size", "data">> /\ pkt = [p EXCEPT !.data = <<>>]
           /\ stream = Bytes(Len(p.data), 2) \o (p.data \o t)
  BY <1>7, StepDataSize
<1>8. CASE /\ todo = <<"data">> /\ pkt = [p EXCEPT !.data = <<>>] /\ size = Len(p.data)
           /\ stream = p.data \o t
  <2>1. Takes(size) /\ GoesOn(<<>>, [pkt EXCEPT !.data = Taken(size)], size)
    BY <1>8, ReadLast
  <2>2. Taken(size) = p.data
    BY <1>0, <1>8, TakesPart
  <2>3. GoesOn(<<>>, p, size)
    BY <1>0, <1>8, <2>1, <2>2, Whole
  <2> QED BY <1>0, <1>8, <2>1, <2>3, StepLast
<1>9. CASE /\ todo = <<"code">> /\ pkt = [p EXCEPT !.data = <<>>] /\ Len(p.data) = 4
           /\ stream = p.data \o t
  <2>1. Takes(4) /\ GoesOn(<<>>, [pkt EXCEPT !.data = Taken(4)], size)
    BY <1>9, ReadLast
  <2>2. Taken(4) = p.data
    BY <1>0, <1>9, TakesPart
  <2>3. GoesOn(<<>>, p, size)
    BY <1>0, <1>9, <2>1, <2>2, Whole
  <2> QED BY <1>0, <1>9, <2>1, <2>3, StepLast
<1> QED BY <1>1, <1>2, <1>3, <1>4, <1>5, <1>6, <1>7, <1>8, <1>9 DEF Stage

\* Within a packet the bytes the reader asks for are there, and once the id is read
\* it is the id of the packet.
LEMMA StageNeed ==
    ASSUME NEW p, Sound(p), NEW t \in Seq(Byte), Stage(p, t)
    PROVE  /\ todo # <<>> /\ Need(Head(todo)) <= Len(stream)
           /\ Head(todo) # "id" => pkt.id = p.id
<1>0. /\ p \in Packet /\ p.args \in Seq(Byte) /\ p.data \in Seq(Byte) /\ p.id \in Seq(Byte) /\ Len(p.id) = 4
      /\ p.type \in Byte /\ p.cmd \in Nat /\ p.cmd < 65536
  BY PacketFields DEF Sound, Made
<1>1. <<p.type>> \in Seq(Byte) /\ Len(<<p.type>>) = 1 /\ Body(p) \o t \in Seq(Byte)
      /\ <<p.type>> \o (Body(p) \o t) \in Seq(Byte)
  <2>1. <<p.type>> \in Seq(Byte) /\ Len(<<p.type>>) = 1 /\ Body(p) \o t \in Seq(Byte)
    BY <1>0, BodyType
  <2> QED BY <2>1, ConcatBytes
<1>2. \A f, r \in Seq(Byte) : stream = f \o r => Len(f) <= Len(stream)
  OBVIOUS
<1>3. pkt = [p EXCEPT !.args = <<>>] => pkt.id = p.id /\ pkt.type = p.type /\ pkt.cmd = p.cmd
  BY <1>0, Without
<1>4. pkt = [p EXCEPT !.dest = NULL] => pkt.id = p.id
  BY <1>0, Without
<1>5. pkt = [p EXCEPT !.data = <<>>] => pkt.id = p.id
  BY <1>0, Without
<1>6. \A y : pkt = Part(p.id, y, 0) => pkt.id = p.id
  BY PartFields
<1>7. \A f : Head(<<f>>) = f /\ <<f>> # <<>>
  OBVIOUS
<1>8. \A f, g : Head(<<f, g>>) = f /\ <<f, g>> # <<>>
  OBVIOUS
<1>9. /\ Need("id") = 4 /\ Need("code") = 4 /\ Need("type") = 1 /\ Need("dest_size") = 1 /\ Need("cmd") = 2
      /\ Need("data_size") = 2 /\ Need("args") = nargs(CommandOf(pkt)) /\ Need("dest") = size /\ Need("data") = size
  BY DEF Need
<1>11. CASE /\ todo = <<"id", "type">> /\ pkt = Empty /\ stream = p.id \o (<<p.type>> \o (Body(p) \o t))
  <2>1. Len(p.id) <= Len(stream)
    <3>1. PICK f \in Seq(Byte), r \in Seq(Byte) : f = p.id /\ r = <<p.type>> \o (Body(p) \o t)
      <4>1. p.id \in Seq(Byte)
        BY <1>0
      <4>2. <<p.type>> \o (Body(p) \o t) \in Seq(Byte)
        BY <1>1
      <4> QED BY <4>1, <4>2
    <3>2. stream = f \o r
      BY <1>11, <3>1
    <3>3. Len(f) <= Len(stream)
      BY <1>2, <3>2
    <3> QED BY <3>1, <3>3
  <2>2. Head(todo) = "id" /\ todo # <<>>
    BY <1>8, <1>11
  <2>3. Len(p.id) = 4
    BY <1>0
  <2> QED BY <1>9, <2>1, <2>2, <2>3
<1>12. CASE /\ todo = <<"type">> /\ pkt = Part(p.id, 0, 0) /\ stream = <<p.type>> \o (Body(p) \o t)
  <2>1. Len(<<p.type>>) <= Len(stream)
    BY <1>1, <1>2, <1>12
  <2> QED BY <1>1, <1>6, <1>7, <1>9, <1>12, <2>1
<1>13. CASE /\ todo = <<"cmd">> /\ pkt = Part(p.id, p.type, 0) /\ p.type < MCS_COMMAND_TYPES
            /\ stream = Body(p) \o t
  <2>1. PICK b \in Seq(Byte) : b = Bytes(p.cmd, 2) /\ Len(b) = 2
    BY <1>0, ValueBytes
  <2>2. PICK x \in Seq(Byte) : Body(p) = b \o x
    BY <1>13, <2>1, CommandBody
  <2>3. stream = b \o (x \o t) /\ x \o t \in Seq(Byte)
    BY <1>13, <2>2, ConcatBytes
  <2>4. Len(b) <= Len(stream)
    BY <1>2, <2>3
  <2> QED BY <1>6, <1>7, <1>9, <1>13, <2>1, <2>4
<1>14. CASE /\ todo = <<"args">> /\ pkt = [p EXCEPT !.args = <<>>] /\ Len(p.args) = nargs(CommandOf(p))
            /\ stream = p.args \o t
  <2>1. Len(p.args) <= Len(stream)
    BY <1>0, <1>2, <1>14
  <2>2. CommandOf(pkt) = CommandOf(p)
    BY <1>3, <1>14, SameCommand
  <2> QED BY <1>3, <1>7, <1>9, <1>14, <2>1, <2>2
<1>15. CASE /\ todo = <<"dest_size", "dest">> /\ pkt = [p EXCEPT !.dest = NULL]
            /\ p.dest \in Seq(Byte) /\ Len(p.dest) <= SDB_MODULE_NAME_SIZE
            /\ stream = Bytes(Len(p.dest), 1) \o (p.dest \o t)
  <2>1. Len(p.dest) \in Nat
    BY <1>15
  <2>2. PICK b \in Seq(Byte) : b = Bytes(Len(p.dest), 1) /\ Len(b) = 1
    BY <1>15, <2>1, SmallByte
  <2>3. p.dest \o t \in Seq(Byte)
    BY <1>15, ConcatBytes
  <2>4. Len(b) <= Len(stream)
    BY <1>2, <1>15, <2>2, <2>3
  <2> QED BY <1>4, <1>8, <1>9, <1>15, <2>2, <2>4
<1>16. CASE /\ todo = <<"dest">> /\ pkt = [p EXCEPT !.dest = NULL]
            /\ p.dest \in Seq(Byte) /\ size = Len(p.dest) /\ stream = p.dest \o t
  <2>1. Len(p.dest) <= Len(stream)
    BY <1>2, <1>16
  <2> QED BY <1>4, <1>7, <1>9, <1>16, <2>1
<1>17. CASE /\ todo = <<"data_size", "data">> /\ pkt = [p EXCEPT !.data = <<>>]
            /\ stream = Bytes(Len(p.data), 2) \o (p.data \o t)
  <2>1. PICK b \in Seq(Byte) : b = Bytes(Len(p.data), 2) /\ Len(b) = 2
    BY SizedParts
  <2>2. p.data \o t \in Seq(Byte)
    BY <1>0, ConcatBytes
  <2>3. Len(b) <= Len(stream)
    BY <1>2, <1>17, <2>1, <2>2
  <2> QED BY <1>5, <1>8, <1>9, <1>17, <2>1, <2>3
<1>18. CASE /\ todo = <<"data">> /\ pkt = [p EXCEPT !.data = <<>>] /\ size = Len(p.data)
            /\ stream = p.data \o t
  <2>1. Len(p.data) <= Len(stream)
    BY <1>0, <1>2, <1>18
  <2> QED BY <1>5, <1>7, <1>9, <1>18, <2>1
<1>19. CASE /\ todo = <<"code">> /\ pkt = [p EXCEPT !.data = <<>>] /\ Len(p.data) = 4
            /\ stream = p.data \o t
  <2>1. Len(p.data) <= Len(stream)
    <3>1. p.data \in Seq(Byte) /\ stream = p.data \o t
      BY <1>0, <1>19
    <3> QED BY <1>2, <3>1
  <2> QED BY <1>5, <1>7, <1>9, <1>19, <2>1
<1> QED BY <1>11, <1>12, <1>13, <1>14, <1>15, <1>16, <1>17, <1>18, <1>19 DEF Stage

-----------------------------------------------------------------------------
(* Packets are read in the order in which they were written.               *)

\* What check_packet let pass.
SentInv == \A k \in 1..Len(sent) : Made(sent[k]) /\ check_packet(sent[k])

\* What was read before the first failure was well formed.
WellFormedSoFar ==
    \A i \in 1..Len(sent) :
        i <= (IF first_bad = NULL THEN Len(got) ELSE first_bad.read) => WellFormed(sent[i])

\* Within a packet that is not well formed the reader may be anywhere, but it has
\* read the id if it is past it.
Astray(p) ==
    \/ todo = <<"id", "type">> /\ \E r \in Seq(Byte) : stream = p.id \o r
    \/ todo \notin {<<>>, <<"id", "type">>} /\ pkt.id = p.id

\* The stream has the packets written and not read, one of which may be read in part.
Aligned ==
    \E ps \in Seq(Packet) :
        \/ todo = <<>> /\ sent = got \o ps /\ Carries(stream, ps)
        \/ \E p \in Packet, t \in Seq(Byte) :
              sent = (got \o <<p>>) \o ps /\ Carries(t, ps) /\ WellFormed(p) /\ Stage(p, t)
        \/ \E p \in Packet : sent = (got \o <<p>>) \o ps /\ ~WellFormed(p) /\ Astray(p)

\* Until something fails reader and writer are in step; what fails first is a read
\* that came too late or a packet that is not well formed, in either case the packet
\* that follows those read.
Failed ==
    /\ timeouts > 0 \/ ~WellFormed(sent[first_bad.read + 1])
    /\ first_bad.read < Len(sent) /\ first_bad.read <= Len(got)
    /\ \A k \in 1..first_bad.read : got[k] = sent[k]
    /\ first_bad.answers \in {<<>>, <<sent[first_bad.read + 1].id>>}

OrderInv ==
    WellFormedSoFar => IF first_bad = NULL THEN answers = <<>> /\ Aligned ELSE Failed

LEMMA NeedType ==
    ASSUME TypeInv, todo # <<>>
    PROVE  Need(Head(todo)) \in Nat
<1>1. nargs(CommandOf(pkt)) \in Nat /\ size \in Nat
  BY DEF nargs, TypeInv, TypeOK
<1>2. Head(todo) \in {"id", "code", "type", "dest_size", "cmd", "data_size", "args", "dest", "data"}
  BY DEF TypeInv, Todos
<1> QED BY <1>1, <1>2 DEF Need

\* A packet that is being read is one that was written.
LEMMA StageSound ==
    ASSUME TypeInv, SentInv, NEW p \in Packet, NEW ps \in Seq(Packet), sent = (got \o <<p>>) \o ps
    PROVE  /\ Made(p) /\ (WellFormed(p) => Sound(p)) /\ Len(got) < Len(sent) /\ sent[Len(got) + 1] = p
           /\ \A k \in 1..Len(got) : got[k] = sent[k]
<1>1. got \in Seq(Packet) /\ Len(got) \in Nat
  BY DEF TypeInv, TypeOK
<1>2. Len(got) + 1 \in 1..Len(sent) /\ sent[Len(got) + 1] = p /\ Len(got) < Len(sent)
  BY <1>1
<1>3. \A k \in 1..Len(got) : got[k] = sent[k]
  BY <1>1
<1>5. Made(p) /\ check_packet(p)
  BY <1>2 DEF SentInv
<1> QED BY <1>2, <1>3, <1>5 DEF Sound

\* Bytes e are written while mcs_read_command waits.
Grows(e) == stream' = stream \o e /\ UNCHANGED <<todo, pkt, size>>

\* What is written later follows what is there.
LEMMA StageMore ==
    ASSUME NEW p, Sound(p), NEW t \in Seq(Byte), Stage(p, t), NEW e \in Seq(Byte),
           Grows(e)
    PROVE  Stage(p, t \o e)'
<1>0. p \in Packet /\ p.args \in Seq(Byte) /\ p.data \in Seq(Byte) /\ p.id \in Seq(Byte) /\ p.type \in Byte
  BY PacketFields DEF Sound
<1>1. <<p.type>> \in Seq(Byte) /\ Body(p) \in Seq(Byte) /\ Body(p) \o t \in Seq(Byte)
  BY <1>0, BodyType
<1>2. <<p.type>> \o (Body(p) \o t) \in Seq(Byte)
  BY <1>1, ConcatBytes
<1>3. (Body(p) \o t) \o e = Body(p) \o (t \o e)
  BY <1>1, ConcatBytes
<1>4. (<<p.type>> \o (Body(p) \o t)) \o e = <<p.type>> \o (Body(p) \o (t \o e))
  BY <1>1, <1>3, ConcatBytes
<1>5. (p.id \o (<<p.type>> \o (Body(p) \o t))) \o e = p.id \o (<<p.type>> \o (Body(p) \o (t \o e)))
  <2>1. PICK f \in Seq(Byte), h \in Seq(Byte) : f = p.id /\ h = <<p.type>> \o (Body(p) \o t)
    <3>1. p.id \in Seq(Byte)
      BY <1>0
    <3> QED BY <1>2, <3>1
  <2>2. (f \o h) \o e = f \o (h \o e)
    BY ConcatBytes
  <2> QED BY <1>4, <2>1, <2>2
<1>6. \A f \in Seq(Byte) : (f \o t) \o e = f \o (t \o e) /\ f \o t \in Seq(Byte)
  BY ConcatBytes
<1>8. (Bytes(Len(p.data), 2) \o (p.data \o t)) \o e = Bytes(Len(p.data), 2) \o (p.data \o (t \o e))
  <2>1. Bytes(Len(p.data), 2) \in Seq(Byte) /\ p.data \in Seq(Byte)
    BY SizedParts
  <2>2. PICK f \in Seq(Byte), g \in Seq(Byte) : f = Bytes(Len(p.data), 2) /\ g = p.data
    BY <2>1
  <2>3. (f \o (g \o t)) \o e = f \o (g \o (t \o e))
    <3>1. PICK h \in Seq(Byte) : h = g \o t /\ h \o e = g \o (t \o e)
      <4>1. g \o t \in Seq(Byte) /\ (g \o t) \o e = g \o (t \o e)
        BY ConcatBytes
      <4> QED BY <4>1
    <3>2. (f \o h) \o e = f \o (h \o e)
      BY ConcatBytes, SMTT(30)
    <3> QED BY <3>1, <3>2
  <2> QED BY <2>2, <2>3
<1>9. ASSUME p.dest \in Seq(Byte), Len(p.dest) <= SDB_MODULE_NAME_SIZE
      PROVE  (Bytes(Len(p.dest), 1) \o (p.dest \o t)) \o e = Bytes(Len(p.dest), 1) \o (p.dest \o (t \o e))
  <2>1. Len(p.dest) \in Nat
    BY <1>9
  <2>2. Bytes(Len(p.dest), 1) \in Seq(Byte)
    BY <1>9, <2>1, SmallByte
  <2>3. PICK f \in Seq(Byte), g \in Seq(Byte) : f = Bytes(Len(p.dest), 1) /\ g = p.dest
    BY <1>9, <2>2
  <2>4. (f \o (g \o t)) \o e = f \o (g \o (t \o e))
    <3>1. PICK h \in Seq(Byte) : h = g \o t /\ h \o e = g \o (t \o e)
      <4>1. g \o t \in Seq(Byte) /\ (g \o t) \o e = g \o (t \o e)
        BY ConcatBytes
      <4> QED BY <4>1
    <3>2. (f \o h) \o e = f \o (h \o e)
      BY ConcatBytes, SMTT(30)
    <3> QED BY <3>1, <3>2
  <2> QED BY <2>3, <2>4
<1>10. /\ (p.args \o t) \o e = p.args \o (t \o e) /\ (p.data \o t) \o e = p.data \o (t \o e)
       /\ p.dest \in Seq(Byte) => (p.dest \o t) \o e = p.dest \o (t \o e)
  BY <1>0, <1>6
<1>11. CASE /\ todo = <<"id", "type">> /\ pkt = Empty /\ stream = p.id \o (<<p.type>> \o (Body(p) \o t))
  BY <1>5, <1>11 DEF Stage, Grows
<1>12. CASE /\ todo = <<"type">> /\ pkt = Part(p.id, 0, 0) /\ stream = <<p.type>> \o (Body(p) \o t)
  BY <1>4, <1>12 DEF Stage, Grows
<1>13. CASE /\ todo = <<"cmd">> /\ pkt = Part(p.id, p.type, 0) /\ p.type < MCS_COMMAND_TYPES
            /\ stream = Body(p) \o t
  BY <1>3, <1>13 DEF Stage, Grows
<1>14. CASE /\ todo = <<"args">> /\ pkt = [p EXCEPT !.args = <<>>] /\ Len(p.args) = nargs(CommandOf(p))
            /\ stream = p.args \o t
  BY <1>10, <1>14 DEF Stage, Grows
<1>15. CASE /\ todo = <<"dest_size", "dest">> /\ pkt = [p EXCEPT !.dest = NULL]
            /\ p.dest \in Seq(Byte) /\ Len(p.dest) <= SDB_MODULE_NAME_SIZE
            /\ stream = Bytes(Len(p.dest), 1) \o (p.dest \o t)
  BY <1>9, <1>15 DEF Stage, Grows
<1>16. CASE /\ todo = <<"dest">> /\ pkt = [p EXCEPT !.dest = NULL]
            /\ p.dest \in Seq(Byte) /\ size = Len(p.dest) /\ stream = p.dest \o t
  BY <1>10, <1>16 DEF Stage, Grows
<1>17. CASE /\ todo = <<"data_size", "data">> /\ pkt = [p EXCEPT !.data = <<>>]
            /\ stream = Bytes(Len(p.data), 2) \o (p.data \o t)
  BY <1>8, <1>17 DEF Stage, Grows
<1>18. CASE /\ todo = <<"data">> /\ pkt = [p EXCEPT !.data = <<>>] /\ size = Len(p.data)
            /\ stream = p.data \o t
  BY <1>10, <1>18 DEF Stage, Grows
<1>19. CASE /\ todo = <<"code">> /\ pkt = [p EXCEPT !.data = <<>>] /\ Len(p.data) = 4
            /\ stream = p.data \o t
  BY <1>10, <1>19 DEF Stage, Grows
<1> QED BY <1>11, <1>12, <1>13, <1>14, <1>15, <1>16, <1>17, <1>18, <1>19 DEF Stage, Grows

\* A failure is the first or one that follows it.
LEMMA ErrorFirst ==
    ASSUME NEW p, NEW known \in BOOLEAN, error(p, known)
    PROVE  /\ got' = got
           /\ first_bad # NULL => first_bad' = first_bad
           /\ first_bad = NULL /\ answers = <<>> =>
                first_bad' = [read |-> Len(got), answers |-> IF known THEN <<p.id>> ELSE <<>>]
<1>1. <<>> \o Answer(p, known) = IF known THEN <<p.id>> ELSE <<>>
  BY DEF Answer
<1> QED BY <1>1 DEF error

\* Packets read after the first failure do not change what is known of it.
LEMMA AbsReadFailed ==
    ASSUME abs_read, first_bad # NULL
    PROVE  first_bad' = first_bad /\ UNCHANGED <<sent, timeouts>> /\ (got' = got \/ \E p : got' = Append(got, p))
BY DEF abs_read, error

LEMMA SentStep == TypeInv /\ SentInv /\ [Next]_vars => SentInv'
<1> SUFFICES ASSUME TypeInv, SentInv, [Next]_vars PROVE SentInv'
  OBVIOUS
<1>1. ASSUME NEW p \in Packets, mcs_write_command(p) PROVE SentInv'
  <2>1. Made(p) /\ check_packet(p) /\ sent' = Append(sent, p)
    BY <1>1, CodecAssumption DEF mcs_write_command
  <2>2. /\ Len(sent) \in Nat /\ Len(sent') = Len(sent) + 1 /\ sent'[Len(sent) + 1] = p
        /\ \A k \in 1..Len(sent) : sent'[k] = sent[k]
    BY <2>1 DEF TypeInv, TypeOK
  <2>3. ASSUME NEW k \in 1..(Len(sent) + 1) PROVE Made(sent'[k]) /\ check_packet(sent'[k])
    <3>1. k \in 1..Len(sent) \/ k = Len(sent) + 1
      BY <2>2
    <3> QED BY <2>1, <2>2, <3>1 DEF SentInv
  <2> QED BY <2>2, <2>3 DEF SentInv
<1>2. CASE UNCHANGED sent
  BY <1>2 DEF SentInv
<1> QED BY <1>1, <1>2 DEF Next, Reading, mcs_read_command, abs_read, read_timeout, read_late, vars

LEMMA AppendPackets ==
    ASSUME NEW s \in Seq(Packet), NEW ps \in Seq(Packet), NEW p \in Packet
    PROVE  Append(ps, p) \in Seq(Packet) /\ Append(s \o ps, p) = s \o Append(ps, p)
OBVIOUS

\* A packet that is written joins those that are to be read.
LEMMA OrderWrite ==
    ASSUME TypeInv, SentInv, WellFormedSoFar, OrderInv, NEW p \in Packets, mcs_write_command(p)
    PROVE  IF first_bad' = NULL THEN answers' = <<>> /\ Aligned' ELSE Failed'
<1>1. /\ p \in Packet /\ sent' = Append(sent, p) /\ stream' = stream \o Encode(p)
      /\ UNCHANGED <<todo, pkt, size, got, answers, timeouts, first_bad>>
  BY CodecAssumption DEF mcs_write_command, Made
<1>2. PICK e \in Seq(Byte) : e = Encode(p)
  BY <1>1, EncodeType
<1>3. sent \in Seq(Packet) /\ got \in Seq(Packet) /\ stream \in Seq(Byte)
  BY DEF TypeInv, TypeOK
<1>4. CASE first_bad = NULL
  <2>1. answers' = <<>> /\ Aligned
    BY <1>1, <1>4 DEF OrderInv
  <2>2. PICK ps \in Seq(Packet) :
          \/ todo = <<>> /\ sent = got \o ps /\ Carries(stream, ps)
          \/ \E q \in Packet, t \in Seq(Byte) :
                sent = (got \o <<q>>) \o ps /\ Carries(t, ps) /\ WellFormed(q) /\ Stage(q, t)
          \/ \E q \in Packet : sent = (got \o <<q>>) \o ps /\ ~WellFormed(q) /\ Astray(q)
    BY <2>1 DEF Aligned
  <2>3. PICK qs \in Seq(Packet) : qs = Append(ps, p)
    BY <1>1, <1>3, AppendPackets
  <2>4. ASSUME NEW s \in Seq(Packet), sent = s \o ps PROVE sent' = s \o qs
    <3>1. Append(s \o ps, p) = s \o Append(ps, p)
      BY <1>1, AppendPackets
    <3> QED BY <1>1, <2>3, <2>4, <3>1
  <2>5. CASE todo = <<>> /\ sent = got \o ps /\ Carries(stream, ps)
    <3>1. sent' = got' \o qs
      BY <1>1, <1>3, <2>4, <2>5
    <3>2. Carries(stream', qs)
      BY <1>1, <1>3, <2>3, <2>5, CarriesMore
    <3> QED BY <1>1, <1>4, <2>1, <2>5, <3>1, <3>2 DEF Aligned
  <2>6. CASE \E q \in Packet, t \in Seq(Byte) :
               sent = (got \o <<q>>) \o ps /\ Carries(t, ps) /\ WellFormed(q) /\ Stage(q, t)
    <3>1. PICK q \in Packet, t \in Seq(Byte) :
            sent = (got \o <<q>>) \o ps /\ Carries(t, ps) /\ WellFormed(q) /\ Stage(q, t)
      BY <2>6
    <3>2. Sound(q)
      BY <3>1, StageSound
    <3>3. Stage(q, t \o e)'
      <4>1. Grows(e)
        BY <1>1, <1>2 DEF Grows
      <4> QED BY <3>1, <3>2, <4>1, StageMore
    <3>4. PICK u \in Seq(Byte) : u = t \o e
      BY ConcatBytes
    <3>5. Carries(u, qs)
      BY <1>1, <1>2, <2>3, <3>1, <3>4, CarriesMore
    <3>6. sent' = (got' \o <<q>>) \o qs
      <4>1. got \o <<q>> \in Seq(Packet)
        BY <1>3
      <4> QED BY <1>1, <2>4, <3>1, <4>1
    <3>7. Stage(q, u)'
      BY <3>3, <3>4
    <3>8. Aligned'
      BY <3>1, <3>5, <3>6, <3>7 DEF Aligned
    <3> QED BY <1>1, <1>4, <2>1, <3>8
  <2>7. CASE \E q \in Packet : sent = (got \o <<q>>) \o ps /\ ~WellFormed(q) /\ Astray(q)
    <3>1. PICK q \in Packet : sent = (got \o <<q>>) \o ps /\ ~WellFormed(q) /\ Astray(q)
      BY <2>7
    <3>2. Astray(q)'
      <4>1. CASE todo = <<"id", "type">> /\ \E z \in Seq(Byte) : stream = q.id \o z
        <5>1. PICK z \in Seq(Byte) : stream = q.id \o z
          BY <4>1
        <5>2. q.id \in Seq(Byte)
          BY PacketFields
        <5>3. PICK f \in Seq(Byte) : f = q.id
          BY <5>2
        <5>4. z \o e \in Seq(Byte) /\ (f \o z) \o e = f \o (z \o e)
          BY ConcatBytes
        <5>5. stream' = q.id \o (z \o e)
          BY <1>1, <1>2, <5>1, <5>3, <5>4
        <5> QED BY <1>1, <4>1, <5>4, <5>5 DEF Astray
      <4>2. CASE todo \notin {<<>>, <<"id", "type">>} /\ pkt.id = q.id
        BY <1>1, <4>2 DEF Astray
      <4> QED BY <3>1, <4>1, <4>2 DEF Astray
    <3>3. sent' = (got' \o <<q>>) \o qs
      <4>1. got \o <<q>> \in Seq(Packet)
        BY <1>3
      <4> QED BY <1>1, <2>4, <3>1, <4>1
    <3>4. Aligned'
      BY <3>1, <3>2, <3>3 DEF Aligned
    <3> QED BY <1>1, <1>4, <2>1, <3>4
  <2> QED BY <2>2, <2>5, <2>6, <2>7
<1>5. CASE first_bad # NULL
  <2>1. Failed
    BY <1>5 DEF OrderInv
  <2>2. first_bad.read \in Nat
    BY <1>5 DEF TypeInv, TypeOK
  <2>3. Len(sent) \in Nat /\ Len(sent') = Len(sent) + 1 /\ \A k \in 1..Len(sent) : sent'[k] = sent[k]
    BY <1>1, <1>3
  <2>4. /\ timeouts > 0 \/ ~WellFormed(sent[first_bad.read + 1])
        /\ first_bad.read < Len(sent) /\ first_bad.read <= Len(got)
        /\ \A k \in 1..first_bad.read : got[k] = sent[k]
        /\ first_bad.answers \in {<<>>, <<sent[first_bad.read + 1].id>>}
    BY <2>1 DEF Failed
  <2>5. /\ first_bad.read < Len(sent') /\ sent'[first_bad.read + 1] = sent[first_bad.read + 1]
        /\ \A k \in 1..first_bad.read : sent'[k] = sent[k]
    BY <2>2, <2>3, <2>4
  <2>6. Failed'
    BY <1>1, <2>4, <2>5 DEF Failed
  <2> QED BY <1>1, <1>5, <2>6
<1> QED BY <1>4, <1>5

\* The id comes first.
LEMMA EncodeId ==
    ASSUME NEW p \in Packet, NEW t \in Seq(Byte)
    PROVE  \E z \in Seq(Byte) : Encode(p) \o t = p.id \o z
<1> DEFINE B == CASE p.type = MCS_TYPE_OK -> <<>>
                  [] p.type = MCS_TYPE_OK_DATA -> WithSize(p.data, 2)
                  [] p.type = MCS_TYPE_ERR -> p.data
                  [] OTHER -> Bytes(p.cmd, 2) \o p.args
                              \o (IF p.dest = NULL THEN <<>> ELSE WithSize(p.dest, 1))
                              \o (IF p.data = <<>> THEN <<>> ELSE WithSize(p.data, 2))
<1>1. Encode(p) = (p.id \o <<p.type>>) \o B
  BY DEF Encode
<1>2. B \in Seq(Byte)
  BY BodyBytes
<1> HIDE DEF B
<1>3. PICK x \in Seq(Byte), y \in Seq(Byte), z \in Seq(Byte) : x = p.id /\ y = <<p.type>> /\ z = B
  <2>1. p.id \in Seq(Byte) /\ p.type \in Byte
    BY PacketFields
  <2>2. <<p.type>> \in Seq(Byte)
    BY <2>1
  <2> QED BY <1>2, <2>1, <2>2
<1>4. ((x \o y) \o z) \o t = (x \o y) \o (z \o t) /\ z \o t \in Seq(Byte)
  <2>1. PICK w \in Seq(Byte) : w = x \o y
    BY ConcatBytes
  <2>2. (w \o z) \o t = w \o (z \o t) /\ z \o t \in Seq(Byte)
    BY ConcatBytes
  <2> QED BY <2>1, <2>2
<1>5. (x \o y) \o (z \o t) = x \o (y \o (z \o t)) /\ y \o (z \o t) \in Seq(Byte)
  <2>1. PICK w \in Seq(Byte) : w = z \o t
    BY <1>4
  <2> HIDE <1>4
  <2>2. (x \o y) \o w = x \o (y \o w)
    BY ConcatBytes, SMTT(30)
  <2>3. y \o w \in Seq(Byte)
    BY ConcatBytes, SMTT(30)
  <2> QED BY <2>1, <2>2, <2>3
<1> QED BY <1>1, <1>3, <1>4, <1>5

\* The packet at the head of the stream is the one to be read.
LEMMA OrderBegin ==
    ASSUME TypeInv, SentInv, WellFormedSoFar, OrderInv, mcs_read_command
    PROVE  IF first_bad' = NULL THEN answers' = <<>> /\ Aligned' ELSE Failed'
<1>1. /\ todo = <<>> /\ stream # <<>> /\ todo' = <<"id", "type">> /\ pkt' = Empty
      /\ UNCHANGED <<sent, stream, size, got, answers, timeouts, first_bad>>
  BY DEF mcs_read_command
<1>2. sent \in Seq(Packet) /\ got \in Seq(Packet) /\ stream \in Seq(Byte)
  BY DEF TypeInv, TypeOK
<1>3. CASE first_bad = NULL
  <2>1. answers' = <<>> /\ Aligned
    BY <1>1, <1>3 DEF OrderInv
  <2>2. \A q, t : ~Stage(q, t)
    BY <1>1 DEF Stage
  <2>a. \A q : ~Astray(q)
    <3>1. <<>> # <<"id", "type">>
      OBVIOUS
    <3> QED BY <1>1, <3>1 DEF Astray
  <2>3. PICK ps \in Seq(Packet) : sent = got \o ps /\ Carries(stream, ps)
    BY <2>1, <2>2, <2>a DEF Aligned
  <2>4. ps # <<>>
    BY <1>1, <1>2, <2>3, CarriesNone
  <2>5. PICK p \in Packet, qs \in Seq(Packet) : ps = <<p>> \o qs
    <3>1. Head(ps) \in Packet /\ Tail(ps) \in Seq(Packet) /\ ps = <<Head(ps)>> \o Tail(ps)
      BY <2>4
    <3> QED BY <3>1
  <2>6. PICK t \in Seq(Byte) : stream = Encode(p) \o t /\ Carries(t, qs)
    BY <1>2, <2>3, <2>5, CarriesFirst
  <2>7. sent = (got \o <<p>>) \o qs
    BY <1>2, <2>3, <2>5
  <2>8. CASE WellFormed(p)
    <3>1. Sound(p)
      BY <2>7, <2>8, StageSound
    <3>2. stream = p.id \o (<<p.type>> \o (Body(p) \o t))
      BY <2>6, <3>1, EncodeParts
    <3>3. Stage(p, t)'
      BY <1>1, <3>2 DEF Stage
    <3>4. Aligned'
      BY <1>1, <2>6, <2>7, <2>8, <3>3 DEF Aligned
    <3> QED BY <1>1, <1>3, <2>1, <3>4
  <2>9. CASE ~WellFormed(p)
    <3>1. PICK z \in Seq(Byte) : Encode(p) \o t = p.id \o z
      BY EncodeId
    <3>2. Astray(p)'
      BY <1>1, <2>6, <3>1 DEF Astray
    <3>3. Aligned'
      BY <1>1, <2>7, <2>9, <3>2 DEF Aligned
    <3> QED BY <1>1, <1>3, <2>1, <3>3
  <2> QED BY <2>8, <2>9
<1>4. CASE first_bad # NULL
  BY <1>1, <1>4 DEF OrderInv, Failed
<1> QED BY <1>3, <1>4

\* The packet a reader that is in step is within.
LEMMA InPacket ==
    ASSUME TypeInv, SentInv, WellFormedSoFar, OrderInv, first_bad = NULL, todo # <<>>
    PROVE  /\ answers = <<>>
           /\ \E ps \in Seq(Packet), p \in Packet, t \in Seq(Byte) :
                /\ sent = (got \o <<p>>) \o ps /\ Made(p)
                /\ \/ WellFormed(p) /\ Carries(t, ps) /\ Stage(p, t) /\ Sound(p)
                   \/ ~WellFormed(p) /\ Astray(p)
                /\ Len(got) < Len(sent) /\ sent[Len(got) + 1] = p
                /\ \A k \in 1..Len(got) : got[k] = sent[k]
<1>1. answers = <<>> /\ Aligned
  BY DEF OrderInv
<1>2. PICK ps \in Seq(Packet), p \in Packet, t \in Seq(Byte) :
        /\ sent = (got \o <<p>>) \o ps
        /\ \/ WellFormed(p) /\ Carries(t, ps) /\ Stage(p, t)
           \/ ~WellFormed(p) /\ Astray(p)
  <2>1. <<>> \in Seq(Byte)
    OBVIOUS
  <2> QED BY <1>1, <2>1 DEF Aligned
<1>3. /\ Made(p) /\ (WellFormed(p) => Sound(p)) /\ Len(got) < Len(sent) /\ sent[Len(got) + 1] = p
      /\ \A k \in 1..Len(got) : got[k] = sent[k]
  BY <1>2, StageSound
<1> QED BY <1>1, <1>2, <1>3

\* After the first failure nothing that is read changes what was read before.
LEMMA FailedStays ==
    ASSUME TypeInv, Failed, first_bad # NULL, first_bad' = first_bad, sent' = sent,
           timeouts' \in Nat, timeouts' >= timeouts, got' = got \/ \E p : got' = Append(got, p)
    PROVE  Failed'
<1>1. /\ got \in Seq(Packet) /\ first_bad.read \in Nat /\ timeouts \in 0..MaxTimeouts /\ MaxTimeouts \in Nat
  BY CodecAssumption DEF TypeInv, TypeOK
<1>2. Len(got) \in Nat /\ Len(got') >= Len(got) /\ Len(got') \in Nat /\ \A k \in 1..Len(got) : got'[k] = got[k]
  <2>1. CASE got' = got
    BY <1>1, <2>1
  <2>2. ASSUME NEW p, got' = Append(got, p)
        PROVE  Len(got') = Len(got) + 1 /\ \A k \in 1..Len(got) : got'[k] = got[k]
    <3>1. PICK S : got \in Seq(S) /\ p \in S
      <4>1. got \in Seq(Packet \cup {p})
        BY <1>1
      <4> QED BY <4>1
    <3> QED BY <2>2, <3>1
  <2> QED BY <1>1, <2>1, <2>2
<1>3. /\ timeouts > 0 \/ ~WellFormed(sent[first_bad.read + 1])
      /\ first_bad.read < Len(sent) /\ first_bad.read <= Len(got)
      /\ \A k \in 1..first_bad.read : got[k] = sent[k]
      /\ first_bad.answers \in {<<>>, <<sent[first_bad.read + 1].id>>}
  BY DEF Failed
<1>4. (timeouts > 0 => timeouts' > 0) /\ first_bad.read <= Len(got')
  BY <1>1, <1>2, <1>3
<1>5. \A k \in 1..first_bad.read : got'[k] = sent[k]
  BY <1>1, <1>2, <1>3
<1> QED BY <1>3, <1>4, <1>5 DEF Failed

\* A read within a packet that is not well formed: the reader stays astray in it, or
\* takes it for a packet, or gives it up, and knows its id in each case.
StaysAstray(p) ==
    /\ UNCHANGED <<sent, timeouts>>
    /\ \/ got' = got /\ Astray(p)' /\ UNCHANGED <<answers, first_bad>>
       \/ (\E q : got' = Append(got, q)) /\ UNCHANGED <<answers, first_bad>>
       \/ \E q : q.id = p.id /\ error(q, TRUE)

LEMMA AstrayGoes ==
    ASSUME NEW p, NEW q, q.id = p.id, NEW n, Takes(n), NEW rest, rest # <<"id", "type">>,
           NEW m, GoesOn(rest, q, m)
    PROVE  StaysAstray(p)
<1>1. UNCHANGED <<sent, timeouts>> /\ UNCHANGED <<answers, first_bad>>
  BY DEF Takes, GoesOn
<1>2. CASE rest = <<>>
  BY <1>1, <1>2 DEF GoesOn, StaysAstray
<1>3. CASE rest # <<>>
  <2>1. todo' = rest /\ pkt' = q /\ got' = got
    BY <1>3 DEF GoesOn
  <2>2. Astray(p)'
    BY <1>3, <2>1 DEF Astray
  <2> QED BY <1>1, <2>1, <2>2 DEF StaysAstray
<1> QED BY <1>2, <1>3

LEMMA AstrayFails ==
    ASSUME NEW p, NEW q, q.id = p.id, NEW n, Takes(n), error(q, TRUE)
    PROVE  StaysAstray(p)
BY DEF Takes, StaysAstray

LEMMA AstrayRead ==
    ASSUME TypeInv, abs_read, NEW p \in Packet, Len(p.id) = 4, Astray(p)
    PROVE  StaysAstray(p)
<1>0. pkt \in Packet /\ todo \in Todos /\ todo # <<>> /\ p.id \in Seq(Byte)
  BY PacketFields DEF TypeInv, TypeOK, abs_read
<1>1. /\ <<"type">> # <<"id", "type">> /\ <<"dest">> # <<"id", "type">> /\ <<"data">> # <<"id", "type">>
      /\ <<"args">> # <<"id", "type">> /\ <<"dest_size", "dest">> # <<"id", "type">>
      /\ <<"data_size", "data">> # <<"id", "type">> /\ <<>> # <<"id", "type">>
      /\ <<"cmd">> # <<"id", "type">> /\ <<"code">> # <<"id", "type">>
  OBVIOUS
<1>2. \A x : /\ [pkt EXCEPT !.id = x].id = x
             /\ [pkt EXCEPT !.type = x].id = pkt.id /\ [pkt EXCEPT !.cmd = x].id = pkt.id
             /\ [pkt EXCEPT !.args = x].id = pkt.id /\ [pkt EXCEPT !.dest = x].id = pkt.id
             /\ [pkt EXCEPT !.data = x].id = pkt.id
  BY <1>0 DEF Packet
<1>3. CASE todo = <<"id", "type">>
  <2>1. Takes(4) /\ GoesOn(<<"type">>, [pkt EXCEPT !.id = Taken(4)], size)
    BY <1>3, ReadId
  <2>2. PICK r \in Seq(Byte) : stream = p.id \o r
    BY <1>3 DEF Astray
  <2>3. Taken(4) = p.id
    BY <1>0, <2>1, <2>2, TakesPart
  <2>4. PICK q : q = [pkt EXCEPT !.id = Taken(4)]
    OBVIOUS
  <2>5. q.id = p.id
    BY <1>2, <2>3, <2>4
  <2> QED BY <1>1, <2>1, <2>4, <2>5, AstrayGoes
<1>4. CASE todo # <<"id", "type">>
  <2>0. pkt.id = p.id
    BY <1>4 DEF Astray
  <2>1. CASE todo = <<"type">>
    <3>1. PICK q : q = [pkt EXCEPT !.type = Taken(1)[1]]
      OBVIOUS
    <3>2. q.id = p.id
      BY <1>2, <2>0, <3>1
    <3>3. /\ Takes(1)
          /\ IF Refused("type", q, size) THEN error(q, TRUE) /\ size' = size
             ELSE GoesOn(AfterType(q.type), q, size)
      BY <2>1, <3>1, ReadType
    <3>4. AfterType(q.type) # <<"id", "type">>
      BY <1>1 DEF AfterType
    <3> QED BY <3>2, <3>3, <3>4, AstrayGoes, AstrayFails
  <2>2. CASE todo = <<"cmd">>
    <3>1. PICK q : q = [pkt EXCEPT !.cmd = Value(Taken(2))]
      OBVIOUS
    <3>2. q.id = p.id
      BY <1>2, <2>0, <3>1
    <3>3. /\ Takes(2)
          /\ IF Exists(q) THEN GoesOn(read_check_config(q), q, size)
             ELSE error(q, TRUE) /\ size' = size
      BY <2>2, <3>1, ReadCmd
    <3>4. CASE ~Exists(q)
      BY <3>2, <3>3, <3>4, AstrayFails
    <3>5. CASE Exists(q)
      <4>1. Value(Taken(2)) \in Nat
        <5>1. 1 \in 1..2 /\ 2 \in 1..2 /\ 2 \in Nat
          OBVIOUS
        <5>2. Taken(2)[1] \in Byte /\ Taken(2)[2] \in Byte
          BY <3>3, <5>1, TakenType DEF Takes
        <5>3. Taken(2)[1] \in Nat /\ Taken(2)[2] \in Nat
          BY <5>2, ByteNat
        <5> QED BY <5>3 DEF Value
      <4>2. q \in Packet
        BY <1>0, <3>1, <4>1, FilledType, EmptySeq
      <4>3. q.type \in Byte /\ q.cmd \in Nat
        BY <4>2, PacketFields
      <4>4. read_check_config(q) # <<"id", "type">>
        BY <1>1, <3>5, <4>3, CommandTable
      <4> QED BY <3>2, <3>3, <3>5, <4>4, AstrayGoes
    <3> QED BY <3>4, <3>5
  <2>3. CASE todo = <<"dest_size", "dest">>
    <3>1. PICK n : n = Taken(1)[1]
      OBVIOUS
    <3>2. /\ Takes(1)
          /\ IF n > SDB_MODULE_NAME_SIZE THEN error(pkt, TRUE) ELSE GoesOn(<<"dest">>, pkt, n)
      BY <2>3, <3>1, ReadDestSize
    <3> QED BY <1>1, <2>0, <3>2, AstrayGoes, AstrayFails
  <2>4. CASE todo = <<"data_size", "data">>
    <3>1. Takes(2) /\ GoesOn(<<"data">>, pkt, Value(Taken(2)))
      BY <2>4, ReadDataSize
    <3> QED BY <1>1, <2>0, <3>1, AstrayGoes
  <2>5. CASE todo \in {<<"args">>, <<"dest">>, <<"data">>, <<"code">>}
    <3>1. PICK n, q : Takes(n) /\ q.id = p.id /\ GoesOn(<<>>, q, size)
      <4>1. CASE todo = <<"args">>
        BY <1>2, <2>0, <4>1, ReadLast
      <4>2. CASE todo = <<"dest">>
        BY <1>2, <2>0, <4>2, ReadLast
      <4>3. CASE todo = <<"data">>
        BY <1>2, <2>0, <4>3, ReadLast
      <4>4. CASE todo = <<"code">>
        BY <1>2, <2>0, <4>4, ReadLast
      <4> QED BY <2>5, <4>1, <4>2, <4>3, <4>4
    <3> QED BY <1>1, <3>1, AstrayGoes
  <2> QED BY <1>0, <1>4, <2>1, <2>2, <2>3, <2>4, <2>5 DEF Todos
<1> QED BY <1>3, <1>4

\* The first failure, in packet p, answered or not.
LEMMA FirstFailure ==
    ASSUME TypeInv, first_bad = NULL, answers = <<>>, sent' = sent,
           NEW p \in Packet, Len(got) < Len(sent), sent[Len(got) + 1] = p,
           \A k \in 1..Len(got) : got[k] = sent[k],
           timeouts' > 0 \/ ~WellFormed(p),
           NEW q, NEW known \in BOOLEAN, known => q.id = p.id, error(q, known)
    PROVE  first_bad' # NULL /\ Failed'
<1>1. PICK x : x = IF known THEN <<p.id>> ELSE <<>>
  OBVIOUS
<1>2. got' = got /\ first_bad' = [read |-> Len(got), answers |-> x]
  BY <1>1, ErrorFirst
<1>3. first_bad'.read = Len(got) /\ first_bad'.answers = x
  BY <1>2
<1>4. Len(got) \in Nat /\ p.id \in Seq(Byte)
  BY PacketFields DEF TypeInv, TypeOK
<1>5. first_bad' # NULL
  <2>1. x \in Seq(Seq(Byte))
    BY <1>1, <1>4
  <2>2. [read |-> Len(got), answers |-> x] \in [read : Nat, answers : Seq(Seq(Byte))]
    BY <1>4, <2>1
  <2> QED BY <1>2, <2>2, CodecAssumption
<1>6. Failed'
  <2>1. first_bad'.read < Len(sent') /\ first_bad'.read <= Len(got')
    BY <1>2, <1>3, <1>4
  <2>2. \A j \in 1..first_bad'.read : got'[j] = sent'[j]
    BY <1>2, <1>3
  <2>3. sent'[first_bad'.read + 1] = p
    BY <1>3
  <2>4. first_bad'.answers \in {<<>>, <<sent'[first_bad'.read + 1].id>>}
    BY <1>1, <1>3, <2>3
  <2> QED BY <2>1, <2>2, <2>3, <2>4 DEF Failed
<1> QED BY <1>5, <1>6

\* A packet that is not well formed is not among those read.
LEMMA NotReadYet ==
    ASSUME TypeInv, WellFormedSoFar', sent' = sent, first_bad' = NULL, NEW q, got' = Append(got, q),
           Len(got) < Len(sent)
    PROVE  WellFormed(sent[Len(got) + 1])
<1>1. got \in Seq(Packet) /\ sent \in Seq(Packet)
  BY DEF TypeInv, TypeOK
<1>2. Len(got') = Len(got) + 1 /\ Len(got) \in Nat
  <2>1. got \in Seq(Packet \cup {q})
    BY <1>1
  <2> QED BY <2>1
<1>3. Len(got) + 1 \in 1..Len(sent') /\ Len(got) + 1 <= Len(got')
  BY <1>1, <1>2
<1> QED BY <1>3 DEF WellFormedSoFar

LEMMA OrderRead ==
    ASSUME TypeInv, SentInv, WellFormedSoFar, WellFormedSoFar', OrderInv, abs_read
    PROVE  IF first_bad' = NULL THEN answers' = <<>> /\ Aligned' ELSE Failed'
<1>1. CASE first_bad = NULL
  <2>1. todo # <<>>
    BY DEF abs_read
  <2>2. answers = <<>>
    BY <1>1, <2>1, InPacket
  <2>3. PICK ps \in Seq(Packet), p \in Packet, t \in Seq(Byte) :
          /\ sent = (got \o <<p>>) \o ps /\ Made(p)
          /\ \/ WellFormed(p) /\ Carries(t, ps) /\ Stage(p, t) /\ Sound(p)
             \/ ~WellFormed(p) /\ Astray(p)
          /\ Len(got) < Len(sent) /\ sent[Len(got) + 1] = p
          /\ \A k \in 1..Len(got) : got[k] = sent[k]
    BY <1>1, <2>1, InPacket
  <2>4. CASE WellFormed(p) /\ Carries(t, ps) /\ Stage(p, t) /\ Sound(p)
    <3>1. InStep(p, t)
      BY <2>4, StageRead
    <3>2. answers' = <<>> /\ first_bad' = NULL /\ sent' = sent
      BY <1>1, <2>2, <3>1 DEF InStep
    <3>3. CASE todo' = <<>> /\ stream' = t /\ got' = Append(got, p)
      <4>1. got' = got \o <<p>>
        <5>1. got \in Seq(Packet)
          BY DEF TypeInv, TypeOK
        <5>2. Append(got, p) = got \o <<p>>
          BY <5>1
        <5> QED BY <3>3, <5>2
      <4>2. Aligned'
        BY <2>3, <2>4, <3>2, <3>3, <4>1 DEF Aligned
      <4> QED BY <3>2, <4>2
    <3>4. CASE got' = got /\ Stage(p, t)'
      <4>1. Aligned'
        BY <2>3, <2>4, <3>2, <3>4 DEF Aligned
      <4> QED BY <3>2, <4>1
    <3> QED BY <3>1, <3>3, <3>4 DEF InStep
  <2>5. CASE ~WellFormed(p) /\ Astray(p)
    <3>1. StaysAstray(p)
      <4>1. Len(p.id) = 4
        BY <2>3 DEF Made
      <4> QED BY <2>5, <4>1, AstrayRead
    <3>2. sent' = sent /\ timeouts' = timeouts
      BY <3>1 DEF StaysAstray
    <3>3. CASE got' = got /\ Astray(p)' /\ UNCHANGED <<answers, first_bad>>
      <4>1. Aligned'
        BY <2>3, <2>5, <3>2, <3>3 DEF Aligned
      <4> QED BY <1>1, <2>2, <3>3, <4>1
    <3>4. CASE (\E q : got' = Append(got, q)) /\ UNCHANGED <<answers, first_bad>>
      <4>1. PICK q : got' = Append(got, q)
        BY <3>4
      <4>2. WellFormed(p)
        BY <1>1, <2>3, <3>2, <3>4, <4>1, NotReadYet
      <4> QED BY <2>5, <4>2
    <3>5. CASE \E q : q.id = p.id /\ error(q, TRUE)
      <4>1. PICK q : q.id = p.id /\ error(q, TRUE)
        BY <3>5
      <4>2. first_bad' # NULL /\ Failed'
        BY <1>1, <2>2, <2>3, <2>5, <3>2, <4>1, FirstFailure
      <4> QED BY <4>2
    <3> QED BY <3>1, <3>3, <3>4, <3>5 DEF StaysAstray
  <2> QED BY <2>3, <2>4, <2>5
<1>2. CASE first_bad # NULL
  <2>1. first_bad' = first_bad /\ UNCHANGED <<sent, timeouts>> /\ (got' = got \/ \E p : got' = Append(got, p))
    BY <1>2, AbsReadFailed
  <2>2. Failed /\ timeouts' \in Nat /\ timeouts' >= timeouts
    <3>1. timeouts \in 0..MaxTimeouts /\ MaxTimeouts \in Nat
      BY CodecAssumption DEF TypeInv, TypeOK
    <3>2. timeouts' \in Nat /\ timeouts' >= timeouts
      BY <2>1, <3>1
    <3> QED BY <1>2, <3>2 DEF OrderInv
  <2>3. Failed'
    BY <1>2, <2>1, <2>2, FailedStays
  <2> QED BY <1>2, <2>1, <2>3
<1> QED BY <1>1, <1>2

\* What is known of the packet an error is about: its id, unless that is missing.
LEMMA IdKnown ==
    ASSUME TypeInv, NEW p \in Packet, NEW t \in Seq(Byte), todo # <<>>,
           (Sound(p) /\ Stage(p, t)) \/ Astray(p)
    PROVE  Head(todo) # "id" => pkt.id = p.id
<1>1. CASE Sound(p) /\ Stage(p, t)
  BY <1>1, StageNeed
<1>2. CASE Astray(p)
  <2>1. Head(<<"id", "type">>) = "id"
    OBVIOUS
  <2> QED BY <1>2, <2>1 DEF Astray
<1> QED BY <1>1, <1>2

\* Without a failure before, the bytes a read asks for run out only within a packet
\* that is not well formed.
LEMMA OrderTimeout ==
    ASSUME TypeInv, SentInv, WellFormedSoFar, OrderInv, read_timeout
    PROVE  IF first_bad' = NULL THEN answers' = <<>> /\ Aligned' ELSE Failed'
<1>1. /\ todo # <<>> /\ Len(stream) < Need(Head(todo)) /\ error(pkt, Head(todo) # "id")
      /\ UNCHANGED <<sent, timeouts>>
  BY DEF read_timeout
<1>2. CASE first_bad = NULL
  <2>1. answers = <<>>
    BY <1>1, <1>2, InPacket
  <2>2. PICK ps \in Seq(Packet), p \in Packet, t \in Seq(Byte) :
          /\ sent = (got \o <<p>>) \o ps /\ Made(p)
          /\ \/ WellFormed(p) /\ Carries(t, ps) /\ Stage(p, t) /\ Sound(p)
             \/ ~WellFormed(p) /\ Astray(p)
          /\ Len(got) < Len(sent) /\ sent[Len(got) + 1] = p
          /\ \A k \in 1..Len(got) : got[k] = sent[k]
    BY <1>1, <1>2, InPacket
  <2>3. Need(Head(todo)) \in Nat /\ Len(stream) \in Nat
    BY <1>1, NeedType DEF TypeInv, TypeOK
  <2>4. CASE Stage(p, t) /\ Sound(p)
    <3>1. Need(Head(todo)) <= Len(stream)
      BY <2>4, StageNeed
    <3> QED BY <1>1, <2>3, <3>1
  <2>5. CASE ~WellFormed(p) /\ Astray(p)
    <3>1. Head(todo) # "id" => pkt.id = p.id
      BY <1>1, <2>5, IdKnown
    <3>2. first_bad' # NULL /\ Failed'
      BY <1>1, <1>2, <2>1, <2>2, <2>5, <3>1, FirstFailure
    <3> QED BY <3>2
  <2> QED BY <2>2, <2>4, <2>5
<1>3. CASE first_bad # NULL
  <2>1. got' = got /\ first_bad' = first_bad
    BY <1>1, <1>3, ErrorFirst
  <2>2. Failed /\ timeouts' \in Nat /\ timeouts' >= timeouts
    <3>1. timeouts \in 0..MaxTimeouts /\ MaxTimeouts \in Nat
      BY CodecAssumption DEF TypeInv, TypeOK
    <3>2. timeouts' \in Nat /\ timeouts' >= timeouts
      BY <1>1, <3>1
    <3> QED BY <1>3, <3>2 DEF OrderInv
  <2>3. Failed'
    BY <1>1, <1>3, <2>1, <2>2, FailedStays
  <2> QED BY <1>3, <2>1, <2>3
<1> QED BY <1>2, <1>3

\* The first read that is too late is of the packet after those read.
LEMMA OrderLate ==
    ASSUME TypeInv, SentInv, WellFormedSoFar, OrderInv, NEW k \in Arrived, read_late(k)
    PROVE  IF first_bad' = NULL THEN answers' = <<>> /\ Aligned' ELSE Failed'
<1>1. /\ todo # <<>> /\ timeouts' = timeouts + 1 /\ error(pkt, Head(todo) # "id") /\ UNCHANGED sent
  BY DEF read_late
<1>2. timeouts \in Nat /\ timeouts' > 0 /\ timeouts' \in Nat /\ timeouts' >= timeouts
  <2>1. timeouts \in 0..MaxTimeouts /\ MaxTimeouts \in Nat
    BY CodecAssumption DEF TypeInv, TypeOK
  <2> QED BY <1>1, <2>1
<1>3. CASE first_bad = NULL
  <2>1. answers = <<>>
    BY <1>1, <1>3, InPacket
  <2>2. PICK ps \in Seq(Packet), p \in Packet, t \in Seq(Byte) :
          /\ sent = (got \o <<p>>) \o ps /\ Made(p)
          /\ \/ WellFormed(p) /\ Carries(t, ps) /\ Stage(p, t) /\ Sound(p)
             \/ ~WellFormed(p) /\ Astray(p)
          /\ Len(got) < Len(sent) /\ sent[Len(got) + 1] = p
          /\ \A j \in 1..Len(got) : got[j] = sent[j]
    BY <1>1, <1>3, InPacket
  <2>3. Head(todo) # "id" => pkt.id = p.id
    BY <1>1, <2>2, IdKnown
  <2>4. first_bad' # NULL /\ Failed'
    BY <1>1, <1>2, <1>3, <2>1, <2>2, <2>3, FirstFailure
  <2> QED BY <2>4
<1>4. CASE first_bad # NULL
  <2>1. got' = got /\ first_bad' = first_bad
    BY <1>1, <1>4, ErrorFirst
  <2>2. Failed
    BY <1>4 DEF OrderInv
  <2>3. Failed'
    BY <1>1, <1>2, <1>4, <2>1, <2>2, FailedStays
  <2> QED BY <1>4, <2>1, <2>3
<1> QED BY <1>3, <1>4

\* How a step of the reader changes what is read and what is known of failures.
LEMMA ReaderStep ==
    ASSUME mcs_read_command \/ abs_read \/ read_timeout \/ \E k \in Arrived : read_late(k)
    PROVE  /\ sent' = sent
           /\ \/ first_bad' = first_bad /\ (got' = got \/ \E p : got' = Append(got, p))
              \/ first_bad = NULL /\ got' = got /\ first_bad' = [read |-> Len(got), answers |-> answers']
BY DEF mcs_read_command, abs_read, read_timeout, read_late, error

\* What was well formed until now was so before.
LEMMA WellFormedBefore ==
    ASSUME TypeInv, [Next]_vars, WellFormedSoFar'
    PROVE  WellFormedSoFar
<1>1. ASSUME NEW p \in Packets, mcs_write_command(p) PROVE WellFormedSoFar
  <2>1. /\ sent' = Append(sent, p) /\ sent \in Seq(Packet) /\ p \in Packet
        /\ got' = got /\ first_bad' = first_bad
    BY <1>1, CodecAssumption DEF mcs_write_command, TypeInv, TypeOK, Made
  <2>2. ASSUME NEW i \in 1..Len(sent) PROVE i \in 1..Len(sent') /\ sent'[i] = sent[i]
    BY <2>1
  <2> QED BY <2>1, <2>2 DEF WellFormedSoFar
<1>2. CASE mcs_read_command \/ abs_read \/ read_timeout \/ \E k \in Arrived : read_late(k)
  <2>1. /\ sent' = sent
        /\ \/ first_bad' = first_bad /\ (got' = got \/ \E p : got' = Append(got, p))
           \/ first_bad = NULL /\ got' = got /\ first_bad' = [read |-> Len(got), answers |-> answers']
    BY <1>2, ReaderStep
  <2>2. CASE first_bad' = first_bad /\ got' = got
    BY <2>1, <2>2 DEF WellFormedSoFar
  <2>3. ASSUME NEW p, first_bad' = first_bad, got' = Append(got, p) PROVE WellFormedSoFar
    <3>1. Len(got') = Len(got) + 1 /\ Len(got) \in Nat
      <4>1. got \in Seq(Packet \cup {p})
        BY DEF TypeInv, TypeOK
      <4> QED BY <2>3, <4>1
    <3>2. \A i \in 1..Len(sent) : i <= Len(got) => i <= Len(got')
      BY <3>1
    <3> QED BY <2>1, <2>3, <3>2 DEF WellFormedSoFar
  <2>4. CASE first_bad = NULL /\ got' = got /\ first_bad' = [read |-> Len(got), answers |-> answers']
    <3>1. first_bad' = NULL \/ first_bad'.read = Len(got)
      BY <2>4
    <3> QED BY <2>1, <2>4, <3>1 DEF WellFormedSoFar
  <2> QED BY <2>1, <2>2, <2>3, <2>4
<1>3. CASE UNCHANGED vars
  BY <1>3 DEF WellFormedSoFar, vars
<1> QED BY <1>1, <1>2, <1>3 DEF Next, Reading

CodecInv == TypeInv /\ SentInv /\ OrderInv

LEMMA CodecInit == Init => CodecInv
<1> SUFFICES ASSUME Init PROVE CodecInv
  OBVIOUS
<1>1. sent = <<>> /\ got = <<>> /\ todo = <<>> /\ stream = <<>> /\ answers = <<>> /\ first_bad = NULL
  BY DEF Init
<1>2. SentInv
  BY <1>1 DEF SentInv
<1>3. <<>> \in Seq(Packet) /\ <<>> = <<>> \o <<>>
  OBVIOUS
<1>4. Aligned
  BY <1>1, <1>3, CarriesNone DEF Aligned
<1> QED BY <1>1, <1>2, <1>4, TypeInit DEF CodecInv, OrderInv

LEMMA CodecStep == CodecInv /\ [Next]_vars => CodecInv'
<1> SUFFICES ASSUME CodecInv, [Next]_vars PROVE CodecInv'
  OBVIOUS
<1>0. TypeInv /\ SentInv /\ OrderInv
  BY DEF CodecInv
<1>1. TypeInv' /\ SentInv'
  BY <1>0, TypeStep, SentStep
<1>2. SUFFICES ASSUME WellFormedSoFar'
               PROVE  IF first_bad' = NULL THEN answers' = <<>> /\ Aligned' ELSE Failed'
  BY <1>1 DEF CodecInv, OrderInv
<1>3. WellFormedSoFar
  BY <1>0, <1>2, WellFormedBefore
<1>4. ASSUME NEW p \in Packets, mcs_write_command(p)
      PROVE  IF first_bad' = NULL THEN answers' = <<>> /\ Aligned' ELSE Failed'
  BY <1>0, <1>3, <1>4, OrderWrite
<1>5. CASE mcs_read_command
  BY <1>0, <1>3, <1>5, OrderBegin
<1>6. CASE abs_read
  BY <1>0, <1>2, <1>3, <1>6, OrderRead
<1>7. CASE read_timeout
  BY <1>0, <1>3, <1>7, OrderTimeout
<1>8. ASSUME NEW k \in Arrived, read_late(k)
      PROVE  IF first_bad' = NULL THEN answers' = <<>> /\ Aligned' ELSE Failed'
  BY <1>0, <1>3, <1>8, OrderLate
<1>9. CASE UNCHANGED vars
  <2>1. /\ sent' = sent /\ stream' = stream /\ todo' = todo /\ pkt' = pkt /\ size' = size
        /\ got' = got /\ answers' = answers /\ timeouts' = timeouts /\ first_bad' = first_bad
    BY <1>9 DEF vars
  <2>2. \A p, t : Stage(p, t) => Stage(p, t)'
    BY <2>1, ZenonT(30) DEF Stage
  <2>3. \A p : Astray(p) => Astray(p)'
    BY <2>1 DEF Astray
  <2>4. Aligned => Aligned'
    <3>1. SUFFICES ASSUME Aligned PROVE Aligned'
      OBVIOUS
    <3>2. PICK ps \in Seq(Packet) :
            \/ todo = <<>> /\ sent = got \o ps /\ Carries(stream, ps)
            \/ \E p \in Packet, t \in Seq(Byte) :
                  sent = (got \o <<p>>) \o ps /\ Carries(t, ps) /\ WellFormed(p) /\ Stage(p, t)
            \/ \E p \in Packet : sent = (got \o <<p>>) \o ps /\ ~WellFormed(p) /\ Astray(p)
      BY <3>1 DEF Aligned
    <3> QED BY <2>1, <2>2, <2>3, <3>2 DEF Aligned
  <2>5. Failed => Failed'
    BY <2>1 DEF Failed
  <2> QED BY <1>0, <1>3, <2>1, <2>4, <2>5 DEF OrderInv
<1> QED BY <1>4, <1>5, <1>6, <1>7, <1>8, <1>9 DEF Next, Reading

LEMMA SamePrefix ==
    ASSUME NEW s \in Seq(Packet), NEW u \in Seq(Packet), Len(s) <= Len(u),
           \A k \in 1..Len(s) : s[k] = u[k]
    PROVE  IsPrefix(s, u)
<1>1. SubSeq(s, 1, Len(s)) = SubSeq(u, 1, Len(s))
  OBVIOUS
<1> QED BY <1>1 DEF IsPrefix

\* Packets arrive whole, in order, and none is refused, as long as they are well
\* formed and arrive in time: whatever packets the constructors make, however many,
\* mcs_read_command takes from the bytes mcs_write_command wrote the same packets.
THEOREM ReadsInOrder == Spec => []InOrder
<1>1. CodecInv => InOrder
  <2> SUFFICES ASSUME CodecInv, timeouts = 0, \A i \in DOMAIN sent : WellFormed(sent[i])
               PROVE  IsPrefix(got, sent) /\ answers = <<>>
    BY DEF InOrder
  <2>1. got \in Seq(Packet) /\ sent \in Seq(Packet)
    BY DEF CodecInv, TypeInv, TypeOK
  <2>2. (\A i \in 1..Len(sent) : WellFormed(sent[i])) /\ WellFormedSoFar
    BY <2>1 DEF WellFormedSoFar
  <2>3. first_bad = NULL
    <3>1. SUFFICES ASSUME first_bad # NULL PROVE FALSE
      OBVIOUS
    <3>2. ~WellFormed(sent[first_bad.read + 1]) /\ first_bad.read < Len(sent) /\ first_bad.read \in Nat
      BY <2>2, <3>1 DEF CodecInv, OrderInv, Failed, TypeInv, TypeOK
    <3>3. first_bad.read + 1 \in 1..Len(sent)
      BY <2>1, <3>2
    <3> QED BY <2>2, <3>2, <3>3
  <2>4. answers = <<>> /\ Aligned
    BY <2>2, <2>3 DEF CodecInv, OrderInv
  <2>5. PICK ps \in Seq(Packet) : sent = got \o ps \/ \E p \in Packet : sent = (got \o <<p>>) \o ps
    BY <2>4 DEF Aligned
  <2>6. CASE sent = got \o ps
    <3>1. Len(got) <= Len(sent) /\ \A k \in 1..Len(got) : got[k] = sent[k]
      BY <2>1, <2>6
    <3> QED BY <2>1, <2>4, <3>1, SamePrefix
  <2>7. ASSUME NEW p \in Packet, sent = (got \o <<p>>) \o ps PROVE IsPrefix(got, sent)
    <3>1. Len(got) < Len(sent) /\ \A k \in 1..Len(got) : got[k] = sent[k]
      BY <2>7, StageSound DEF CodecInv
    <3>2. Len(got) \in Nat /\ Len(sent) \in Nat
      BY <2>1
    <3> QED BY <2>1, <3>1, <3>2, SamePrefix
  <2> QED BY <2>4, <2>5, <2>6, <2>7
<1> QED BY <1>1, CodecInit, CodecStep, PTL DEF Spec

\* When the first read fails, be it late, refused in the middle of the packet or
\* short of bytes, what was read until then was written so, and the EBADFORMAT
\* answer, if there is one, has the id of the packet that failed: the label error
\* never answers with the id of another packet.  The packet that fails need not be
\* well formed, only those before it.
THEOREM ErrorsNamePacket == Spec => []ErrorNamesPacket
<1>1. CodecInv => ErrorNamesPacket
  <2> SUFFICES ASSUME CodecInv, first_bad # NULL,
                      \A i \in 1..first_bad.read : i \in DOMAIN sent => WellFormed(sent[i])
               PROVE  /\ IsPrefix(SubSeq(got, 1, first_bad.read), sent)
                      /\ first_bad.answers \in {<<>>, <<sent[first_bad.read + 1].id>>}
    BY DEF ErrorNamesPacket
  <2>1. got \in Seq(Packet) /\ sent \in Seq(Packet) /\ first_bad.read \in Nat
    BY DEF CodecInv, TypeInv, TypeOK
  <2>2. PICK n \in Nat : n = first_bad.read
    BY <2>1
  <2>3. WellFormedSoFar
    <3>1. ASSUME NEW i \in 1..Len(sent), i <= n PROVE WellFormed(sent[i])
      <4>1. i \in 1..n /\ i \in DOMAIN sent
        BY <2>1, <3>1
      <4> QED BY <2>2, <4>1
    <3> QED BY <2>2, <3>1 DEF WellFormedSoFar
  <2>4. Failed
    BY <2>3 DEF CodecInv, OrderInv
  <2>5. n < Len(sent) /\ n <= Len(got) /\ \A k \in 1..n : got[k] = sent[k]
    BY <2>2, <2>4 DEF Failed
  <2>6. PICK s \in Seq(Packet) : s = SubSeq(got, 1, n) /\ Len(s) = n /\ \A k \in 1..n : s[k] = got[k]
    <3>1. /\ SubSeq(got, 1, n) \in Seq(Packet) /\ Len(SubSeq(got, 1, n)) = n
          /\ \A k \in 1..n : SubSeq(got, 1, n)[k] = got[k]
      BY <2>1, <2>5
    <3> QED BY <3>1
  <2>7. IsPrefix(s, sent)
    <3>1. Len(s) <= Len(sent) /\ \A k \in 1..Len(s) : s[k] = sent[k]
      BY <2>1, <2>5, <2>6
    <3> QED BY <2>1, <3>1, SamePrefix
  <2> QED BY <2>2, <2>4, <2>6, <2>7 DEF Failed
<1> QED BY <1>1, CodecInit, CodecStep, PTL DEF Spec

=============================================================================
