----------------------------- MODULE McsCommands -----------------------------
(***************************************************************************)
(* The command table that mcsg generates from MCS/mcsg.json, as the SDB    *)
(* reads it: for each command its type, its destination and the groups     *)
(* that may send and receive it.                                           *)
(***************************************************************************)
EXTENDS Naturals, Sequences

CONSTANTS
    NULL,       \* the null pointer
    ListNum     \* sizeof(groups) / sizeof(groups[0]) of a pointer to groups

\* 8 / 4 on a 64-bit build and 4 / 4 on a 32-bit one.
ASSUME ListNumAssumption == ListNum \in {1, 2}

\* SDBGroup, without the two values nobody can be in.
Group == {"syscore", "procman", "sdb", "hwmod", "app"}

Message == {"test", "sdb_handshake", "sdb_qos_start", "sdb_qos_dump",
            "sdb_qos_stop", "procman_start"}
Command == Message \cup {"temperature_arduino", "arduino_get_pin"}

\* The lists of the commands of each type, in the order of their numbers.
mcs_command_message_list ==
    <<"test", "sdb_handshake", "sdb_qos_start", "sdb_qos_dump", "sdb_qos_stop", "procman_start">>
mcs_command_state_list == <<"temperature_arduino">>
mcs_command_payload_list == <<"arduino_get_pin">>

nargs(c) == IF c \in Message THEN 0 ELSE 1
raw_data(c) == c = "sdb_handshake"

\* "@" is a destination given by the packet, NULL the SDB itself.
destination(c) ==
    CASE c = "test" -> "@" [] c = "procman_start" -> "procman" [] OTHER -> NULL

\* The array of SDB_GROUP_MAX groups an initialiser leaves: C fills the rest
\* with 0, which is SDB_GROUP_SYSCORE.
GroupArray(list) ==
    [i \in 1..5 |-> IF i <= Len(list) THEN list[i] ELSE "syscore"]

origin_groups(c) ==
    GroupArray(IF c = "procman_start" THEN <<"syscore">> ELSE <<"any">>)

destination_groups(c) == GroupArray(IF c = "test" THEN <<"any">> ELSE <<>>)

\* The permission check of process_pkt_message, for origin and destination.
group_allowed(groups, g) ==
    groups[1] = "any" \/ \E i \in 1..ListNum : groups[i] = g

=============================================================================
