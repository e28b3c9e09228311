----------------------------- MODULE UsbFormat -----------------------------
(***************************************************************************)
(* The bytes of a packet between the daemon and the Arduino, as each side  *)
(* writes and reads them: SDB/sdb_usb.c here, abs/assets.ino there.        *)
(*                                                                         *)
(* A packet is [command, parameters, arg1, arg2, size, data, id].  On the  *)
(* cable it is head, its five first bytes (head[1] is byte 0), data, last, *)
(* the byte after the data, and len, the number of bytes.  The lowest bit  *)
(* of every byte but the data says whether another one follows.            *)
(***************************************************************************)
EXTENDS Naturals, Sequences

CONSTANT NULL

SDB_USB_DATA_SIZE == 256

Byte(n) == n % 256

\* What a reader of the byte at index k of raw finds: the id byte is the last.
IdAt(raw, k) == IF k = raw.len - 1 THEN raw.last \div 2 ELSE 0

\* What mcs_to_usb accepts (a packet is no longer than SDB_USB_DATA_SIZE) and
\* what fits into its bytes; a packet without data has a null pointer.  That an
\* argument is below 128 is not tested: the format gives the two of them 14 bits
\* (doc/firmware/firmware.tex:40), and a caller has to keep to it.
Fits(p) ==
    /\ p = [command |-> p.command, parameters |-> p.parameters, arg1 |-> p.arg1,
            arg2 |-> p.arg2, size |-> p.size, data |-> p.data, id |-> p.id]
    /\ p.command \in 0..7 /\ p.parameters \in 0..15
    /\ p.arg1 \in 0..127 /\ p.arg2 \in 0..127 /\ p.id \in 0..127
    /\ p.size \in 0..(SDB_USB_DATA_SIZE - 6)
    /\ p.size = 0 => p.data = NULL

\* mcs_to_usb (packets without an argument have 0 there).
mcs_to_usb(p) ==
    [head |-> << Byte(p.command * 32) + ((p.parameters * 2) % 32) + 1,
                 Byte(p.arg1 * 2 + 1),
                 Byte(p.arg2 * 2 + 1),
                 (((p.size \div 128) * 2) % 256) + 1,
                 Byte(p.size * 2) + 1 >>,
     data |-> p.data,
     last |-> Byte(p.id * 2),
     len |-> 6 + p.size]

\* Mutant: the high bits of the size are taken as those of to_raw are.
process_packet_size(raw) ==
    LET size == raw.head[5] \div 2 + (raw.head[4] \div 2) * 256 IN
    [command |-> (raw.head[1] \div 32) % 8,
     parameters |-> (raw.head[1] \div 2) % 16,
     arg1 |-> raw.head[2] \div 2,
     arg2 |-> raw.head[3] \div 2,
     size |-> size,
     data |-> IF size > 0 THEN raw.data ELSE NULL,
     id |-> IdAt(raw, 5 + size)]

process_packet(raw) ==
    LET size == raw.head[5] \div 2 + (raw.head[4] \div 2) * 128 IN
    [command |-> (raw.head[1] \div 32) % 8,
     parameters |-> (raw.head[1] \div 2) % 16,
     arg1 |-> raw.head[2] \div 2,
     arg2 |-> raw.head[3] \div 2,
     size |-> size,
     data |-> IF size > 0 THEN raw.data ELSE NULL,
     id |-> IdAt(raw, 5 + size)]

\* to_raw shifts the high bits of the size by 7, not by 6 as mcs_to_usb.
to_raw(p) ==
    [head |-> << Byte(p.command * 32) + ((p.parameters * 2) % 32) + 1,
                 Byte(p.arg1 * 2 + 1),
                 Byte(p.arg2 * 2 + 1),
                 Byte(p.size \div 128 + 1),
                 Byte(p.size * 2 + 1) >>,
     data |-> p.data,
     last |-> Byte(p.id * 2),
     len |-> 6 + p.size]

\* Types of an answer.
OK == 0
OK_DATA == 1
ERRORS == 2

\* usb_to_mcs: the answer for the module, or NULL.
usb_to_mcs(raw) ==
    LET type == raw.head[1] \div 2
        size == (raw.head[4] \div 2) * 256 + raw.head[5] \div 2
    IN IF raw.len < 6 \/ (size > 0 /\ raw.len # size + 6)
       THEN NULL
       ELSE [type |-> IF type \in {OK, OK_DATA} THEN type ELSE ERRORS,
             size |-> IF type = OK_DATA THEN size ELSE 0,
             id |-> IdAt(raw, 5 + size)]

=============================================================================
