---------------------------- MODULE SdbQos_proofs ---------------------------
(***************************************************************************)
(* Proofs about SdbQos: the lists of the event table are intact, a dump    *)
(* never writes past its buffer, and the table implements one log per      *)
(* module, for any number of modules, events and line lengths.             *)
(***************************************************************************)
EXTENDS SdbQos, SequenceTheorems, FiniteSetTheorems, TLAPS

\* Every module has a list.
LEMMA HashType == \A a \in Agents : table_hash(a) \in Buckets
  BY QosAssumption DEF table_hash, Buckets, SDB_QOS_TABLE_MAX

\* Events are positive numbers, so none is the null pointer.
LEMMA IdsFacts ==
    /\ Ids \subseteq Nat /\ NIL \notin Ids /\ MaxEvents \in Nat
    /\ NIL = 0 /\ NULL \notin Agents
    /\ \A e \in Ids : e > 0 /\ e < MaxEvents + 1
<1>1. MaxEvents \in Nat /\ NIL = 0
  BY QosAssumption DEF NIL
<1>2. NULL \notin Agents
  BY QosAssumption
<1>3. \A e \in Ids : e \in Nat /\ e > 0 /\ e < MaxEvents + 1
  BY <1>1 DEF Ids
<1> QED
  BY <1>1, <1>2, <1>3

LEMMA MembersIds == \A b : Members(b) \subseteq Ids
  BY DEF Members

\* The lists do not share events.
LEMMA MembersDisjoint ==
    ASSUME NEW b, NEW c, b # c, NEW e \in Members(b) PROVE e \notin Members(c)
  BY DEF Members

\* What appending does to the set of elements and to the order of a sequence.
LEMMA AppendFacts ==
    ASSUME NEW s \in Seq(Ids), NEW x \in Ids,
           \A i \in 1..Len(s) : s[i] < x,
           \A i, j \in 1..Len(s) : i < j => s[i] < s[j],
           NEW t, t = Append(s, x)
    PROVE  /\ t \in Seq(Ids)
           /\ {t[i] : i \in 1..Len(t)} = {s[i] : i \in 1..Len(s)} \cup {x}
           /\ \A i \in 1..Len(t) : t[i] <= x
           /\ \A i, j \in 1..Len(t) : i < j => t[i] < t[j]
<1> USE IdsFacts
<1>1. t \in Seq(Ids) /\ Len(t) = Len(s) + 1 /\ Len(s) \in Nat
  OBVIOUS
<1>2. t[Len(s) + 1] = x /\ \A i \in 1..Len(s) : t[i] = s[i] /\ s[i] \in Ids
  OBVIOUS
<1>3. {t[i] : i \in 1..Len(t)} = {s[i] : i \in 1..Len(s)} \cup {x}
  <2>1. ASSUME NEW i \in 1..Len(t) PROVE t[i] \in {s[k] : k \in 1..Len(s)} \cup {x}
    BY <1>1, <1>2
  <2>2. ASSUME NEW i \in 1..Len(s) PROVE s[i] \in {t[k] : k \in 1..Len(t)}
    BY <1>1, <1>2
  <2>3. x \in {t[k] : k \in 1..Len(t)}
    BY <1>1, <1>2
  <2>4. ASSUME NEW y, y \in {t[k] : k \in 1..Len(t)}
        PROVE  y \in {s[k] : k \in 1..Len(s)} \cup {x}
    BY <2>1, <2>4
  <2>5. ASSUME NEW y, y \in {s[k] : k \in 1..Len(s)} \cup {x}
        PROVE  y \in {t[k] : k \in 1..Len(t)}
    BY <2>2, <2>3, <2>5
  <2> QED
    BY <2>4, <2>5
<1>4. \A i \in 1..Len(t) : i \in 1..Len(s) \/ i = Len(s) + 1
  BY <1>1
<1>5. ASSUME NEW i \in 1..Len(t) PROVE t[i] <= x
  <2>1. x \in Nat
    OBVIOUS
  <2>2. CASE i \in 1..Len(s)
    <3>1. s[i] \in Nat /\ s[i] < x /\ t[i] = s[i]
      BY <1>2, <2>2
    <3> QED
      BY <2>1, <3>1
  <2>3. CASE i = Len(s) + 1
    BY <1>2, <2>1, <2>3
  <2> QED
    BY <1>4, <2>2, <2>3
<1>6. ASSUME NEW i \in 1..Len(t), NEW j \in 1..Len(t), i < j PROVE t[i] < t[j]
  <2>1. i \in 1..Len(s)
    BY <1>1, <1>6
  <2>2. CASE j \in 1..Len(s)
    BY <1>2, <1>6, <2>1, <2>2
  <2>3. CASE j = Len(s) + 1
    BY <1>2, <2>1, <2>3
  <2> QED
    BY <1>4, <2>2, <2>3
<1> QED
  BY <1>1, <1>3, <1>5, <1>6

-----------------------------------------------------------------------------
(* Lists.                                                                  *)

\* The list that starts at first links the events of S, oldest first.
Linked(S, first, next) ==
    /\ After(S, 0, first)
    /\ \A e \in S : After(S, e, next[e])

\* Appending event e behind the last one.
AppendFirst(first, last, e) == IF last = NIL THEN e ELSE first
AppendNext(next, last, e) == IF last = NIL THEN next ELSE [next EXCEPT ![last] = e]

LEMMA ListAppend ==
    ASSUME NEW S, S \subseteq Ids, NEW e \in Ids, \A g \in S : g < e,
           NEW first, NEW last, NEW next \in [Ids -> Ids \cup {NIL}],
           Linked(S, first, next), next[e] = NIL, Before(S, MaxEvents + 1, last)
    PROVE  /\ Linked(S \cup {e}, AppendFirst(first, last, e), AppendNext(next, last, e))
           /\ Before(S \cup {e}, MaxEvents + 1, e)
           /\ last # NIL => last \in S
<1> USE IdsFacts
<1> DEFINE T == S \cup {e}
           first2 == AppendFirst(first, last, e)
           next2 == AppendNext(next, last, e)
<1>0. /\ T = S \cup {e}
      /\ first2 = IF last = NIL THEN e ELSE first
      /\ next2 = IF last = NIL THEN next ELSE [next EXCEPT ![last] = e]
  BY DEF AppendFirst, AppendNext
<1> HIDE DEF T, first2, next2
<1> USE <1>0
<1>1. ASSUME last = NIL PROVE S = {}
  <2>1. ASSUME NEW g \in S PROVE FALSE
    <3>1. g \in Nat /\ g < MaxEvents + 1
      OBVIOUS
    <3>2. g >= MaxEvents + 1
      BY <1>1, <3>1 DEF Before
    <3> QED
      BY <3>1, <3>2
  <2> QED
    BY <2>1
<1>2. last # NIL => last \in S /\ \A g \in S : g <= last
  BY DEF Before
<1>3. After(T, 0, first2)
  <2>1. CASE last = NIL
    BY <1>1, <2>1 DEF After
  <2>2. CASE last # NIL
    <3>0. last \in S /\ ~(last <= 0) /\ \A g \in S : g > 0
      <4>1. last \in S /\ \A g \in S : g > 0 /\ g \in Nat
        BY <1>2, <2>2
      <4>2. last > 0 /\ last \in Nat
        BY <4>1
      <4> QED
        BY <4>1, <4>2
    <3>1. first \in S /\ \A g \in S : first <= g
      BY <3>0 DEF Linked, After
    <3>2. first \in Nat /\ first > 0 /\ first < e /\ e \in Nat
      BY <3>1
    <3> QED
      BY <2>2, <3>1, <3>2 DEF After
  <2> QED
    BY <2>1, <2>2
<1>4. ASSUME NEW g \in T PROVE After(T, g, next2[g])
  <2>0. g \in Nat /\ e \in Nat /\ \A h \in S : h \in Nat
    OBVIOUS
  <2>1. CASE g = e
    <3>1. next2[g] = NIL
      BY <1>2, <2>0, <2>1
    <3>2. \A h \in T : h <= g
      BY <2>0, <2>1
    <3> QED
      BY <3>1, <3>2 DEF After
  <2>2. CASE g # e /\ g = last
    <3>1. next2[g] = e /\ g \in S /\ \A h \in S : h <= g
      BY <1>2, <2>2
    <3>2. e > g /\ \A h \in T : h > g => e <= h
      BY <2>0, <3>1
    <3> QED
      BY <3>1, <3>2 DEF After
  <2>3. CASE g # e /\ g # last
    <3>1. g \in S /\ last # NIL /\ last \in S /\ next2[g] = next[g]
      BY <1>1, <1>2, <2>3
    <3>2. last > g
      BY <1>2, <2>0, <2>3, <3>1
    <3>3. next[g] \in S /\ next[g] > g /\ \A h \in S : h > g => next[g] <= h
      BY <2>0, <3>1, <3>2 DEF Linked, After
    <3>4. next[g] \in Nat /\ next[g] < e
      BY <2>0, <3>3
    <3>5. next[g] <= e
      BY <2>0, <3>4
    <3> QED
      BY <3>1, <3>3, <3>5 DEF After
  <2> QED
    BY <2>1, <2>2, <2>3
<1>5. Before(T, MaxEvents + 1, e)
  BY DEF Before
<1> QED
  BY <1>2, <1>3, <1>4, <1>5 DEF Linked, T, first2, next2

\* Taking out event e, given the one before it.
RemoveFirst(first, next, old, e) == IF old = NIL THEN next[e] ELSE first
RemoveNext(next, old, e) ==
    IF old = NIL THEN [next EXCEPT ![e] = NIL] ELSE [next EXCEPT ![old] = next[e], ![e] = NIL]

LEMMA ListRemove ==
    ASSUME NEW S, S \subseteq Ids, NEW e \in S, NEW old, Before(S, e, old),
           NEW first, NEW next \in [Ids -> Ids \cup {NIL}], Linked(S, first, next)
    PROVE  /\ Linked(S \ {e}, RemoveFirst(first, next, old, e), RemoveNext(next, old, e))
           /\ next[e] \in (S \ {e}) \cup {NIL}
           /\ next[e] # NIL => next[e] > e
           /\ Before(S \ {e}, IF next[e] = NIL THEN MaxEvents + 1 ELSE next[e], old)
           /\ old # NIL => old \in S \ {e}
<1> USE IdsFacts
<1> DEFINE T == S \ {e}
           first2 == RemoveFirst(first, next, old, e)
           next2 == RemoveNext(next, old, e)
<1>a. /\ T = S \ {e}
      /\ first2 = IF old = NIL THEN next[e] ELSE first
      /\ next2 = IF old = NIL THEN [next EXCEPT ![e] = NIL]
                             ELSE [next EXCEPT ![old] = next[e], ![e] = NIL]
  BY DEF RemoveFirst, RemoveNext
<1> HIDE DEF T, first2, next2
<1> USE <1>a
<1>0. /\ e \in Nat /\ e > 0 /\ e \in Ids
      /\ \A h \in S : h \in Nat /\ h > 0 /\ h < MaxEvents + 1 /\ h \in Ids /\ h # NIL
  OBVIOUS
<1>1. \/ next[e] = NIL /\ \A g \in S : g <= e
      \/ next[e] \in S /\ next[e] > e /\ \A g \in S : g > e => next[e] <= g
  BY DEF Linked, After
<1>2. \/ old = NIL /\ \A g \in S : g >= e
      \/ old \in S /\ old < e /\ \A g \in S : g < e => g <= old
  BY DEF Before
<1>3. next[e] \in T \cup {NIL} /\ (next[e] # NIL => next[e] > e)
  BY <1>0, <1>1
<1>4. old # NIL => old \in T
  BY <1>0, <1>2
<1>5. After(T, 0, first2)
  <2>1. CASE old = NIL
    <3>1. \A g \in T : g > e
      BY <1>0, <1>2, <2>1
    <3>2. CASE next[e] = NIL
      <4>1. T = {}
        BY <1>0, <1>1, <3>1, <3>2
      <4> QED
        BY <2>1, <3>2, <4>1 DEF After
    <3>3. CASE next[e] # NIL
      BY <1>0, <1>1, <1>3, <2>1, <3>1, <3>3 DEF After
    <3> QED
      BY <3>2, <3>3
  <2>2. CASE old # NIL
    <3>1. old \in S /\ old < e
      BY <1>2, <2>2
    <3>2. first \in S /\ first > 0 /\ \A g \in S : g > 0 => first <= g
      BY <1>0, <3>1 DEF Linked, After
    <3>3. first # e
      BY <1>0, <3>1, <3>2
    <3> QED
      BY <2>2, <3>2, <3>3 DEF After
  <2> QED
    BY <2>1, <2>2
<1>6. ASSUME NEW g \in T PROVE After(T, g, next2[g])
  <2>0. g \in S /\ g # e
    OBVIOUS
  <2>1. CASE g = old
    <3>1. old # NIL /\ next2[g] = next[e] /\ old < e
      BY <1>0, <1>2, <2>0, <2>1
    <3>2. CASE next[e] = NIL
      <4>1. \A h \in T : h <= g
        BY <1>0, <1>1, <1>2, <2>1, <3>1, <3>2
      <4> QED
        BY <3>1, <3>2, <4>1 DEF After
    <3>3. CASE next[e] # NIL
      <4>1. \A h \in T : h > g => next[e] <= h
        BY <1>0, <1>1, <1>2, <2>1, <3>1, <3>3
      <4>2. next[e] \in T /\ next[e] > e
        BY <1>3, <3>3
      <4>3. next[e] \in Nat /\ g \in Nat /\ g < e
        BY <1>0, <2>0, <2>1, <3>1, <4>2
      <4>4. next[e] > g
        BY <1>0, <4>2, <4>3
      <4> QED
        BY <3>1, <4>1, <4>2, <4>4 DEF After
    <3> QED
      BY <3>2, <3>3
  <2>2. CASE g # old
    <3>1. next2[g] = next[g]
      BY <1>0, <2>0, <2>2
    <3>2. \/ next[g] = NIL /\ \A h \in S : h <= g
          \/ next[g] \in S /\ next[g] > g /\ \A h \in S : h > g => next[g] <= h
      BY <2>0 DEF Linked, After
    <3>3. next[g] # e
      \* otherwise g would be the last before e
      <4>1. SUFFICES ASSUME next[g] = e PROVE FALSE
        OBVIOUS
      <4>2. e > g /\ \A h \in S : h > g => e <= h
        BY <1>0, <3>2, <4>1
      <4>3. old \in S /\ old < e /\ g <= old
        BY <1>0, <1>2, <2>0, <4>2
      <4> QED
        BY <1>0, <2>0, <2>2, <4>2, <4>3
    <3> QED
      BY <3>1, <3>2, <3>3 DEF After
  <2> QED
    BY <2>1, <2>2
<1>7. Before(T, IF next[e] = NIL THEN MaxEvents + 1 ELSE next[e], old)
  <2>1. CASE next[e] = NIL
    <3>1. CASE old = NIL
      <4>1. T = {}
        BY <1>0, <1>1, <1>2, <2>1, <3>1
      <4> QED
        BY <2>1, <3>1, <4>1 DEF Before
    <3>2. CASE old # NIL
      <4>0. old \in S /\ \A g \in S : g < e => g <= old
        BY <1>2, <3>2
      <4>2. ASSUME NEW g \in T PROVE g <= old
        <5>1. g \in S /\ g # e /\ g <= e /\ g \in Nat
          BY <1>0, <1>1, <2>1
        <5>2. g < e
          BY <1>0, <5>1
        <5> QED
          BY <4>0, <5>1, <5>2
      <4>1. old \in T /\ old < MaxEvents + 1 /\ \A g \in T : g <= old
        BY <1>0, <1>4, <3>2, <4>0, <4>2
      <4> QED
        BY <2>1, <4>1 DEF Before
    <3> QED
      BY <3>1, <3>2
  <2>2. CASE next[e] # NIL
    <3>0. next[e] \in S /\ next[e] > e /\ \A g \in S : g > e => next[e] <= g
      BY <1>1, <2>2
    <3>1. CASE old = NIL
      <4>1. \A g \in T : g >= next[e]
        BY <1>0, <1>2, <3>0, <3>1
      <4> QED
        BY <2>2, <3>1, <4>1 DEF Before
    <3>2. CASE old # NIL
      <4>0. old \in S /\ old < e /\ \A g \in S : g < e => g <= old
        BY <1>2, <3>2
      <4>2. ASSUME NEW g \in T, g < next[e] PROVE g <= old
        <5>1. g \in S /\ g # e /\ g \in Nat /\ next[e] \in Nat
          BY <1>0, <3>0
        <5>2. ~(g > e)
          BY <3>0, <4>2, <5>1
        <5>3. g < e
          BY <1>0, <5>1, <5>2
        <5> QED
          BY <4>0, <5>1, <5>3
      <4>3. old \in Nat /\ next[e] \in Nat
        BY <1>0, <3>0, <4>0
      <4>4. old < next[e]
        BY <1>0, <3>0, <4>0, <4>3
      <4>1. old \in T /\ old < next[e] /\ \A g \in T : g < next[e] => g <= old
        BY <1>4, <3>2, <4>2, <4>4
      <4> QED
        BY <2>2, <4>1 DEF Before
    <3> QED
      BY <3>1, <3>2
  <2> QED
    BY <2>1, <2>2
<1> QED
  BY <1>3, <1>4, <1>5, <1>6, <1>7 DEF Linked, T, first2, next2

-----------------------------------------------------------------------------

LEMMA InitIInv == Init => TableInv
<1> SUFFICES ASSUME Init PROVE TableInv
  OBVIOUS
<1> USE QosAssumption, IdsFacts
<1>1. TypeOK
  BY DEF Init, TypeOK, LINE_MAX, SDB_MODULE_NAME_SIZE
<1>2. \A b : Members(b) = {}
  BY DEF Init, Members
<1>3. ListIntact
  BY <1>2 DEF Init, ListIntact, After, Before
<1>4. DumpInv
  BY DEF Init, DumpInv
<1>5. CountInv
  BY DEF Init, CountInv
<1> QED
  BY <1>1, <1>3, <1>4, <1>5 DEF TableInv

\* An agent that does nothing keeps its part of DumpInv if its list, when it
\* is in a dump, stays the same.
DumpPart(a) ==
    /\ event[a] # NIL => pc[a] = "dump"
    /\ pc[a] = "idle" => output[a] = <<>>
    /\ \A b \in Buckets : ei_lock[b] = a => pc[a] = "dump" /\ b = table_hash(a)
    /\ pc[a] = "dump" =>
        /\ qos_enabled[a]
        /\ ei_lock[table_hash(a)] = a
        /\ event[a] \in Members(table_hash(a)) \cup {NIL}
        /\ Before(Members(table_hash(a)), Place(a), old_event[a])
        /\ \A e \in Ids : se_agent[e] = a => e >= Place(a)
        /\ \A i \in 1..Len(output[a]) : output[a][i] < Place(a)
        /\ \A i, j \in 1..Len(output[a]) : i < j => output[a][i] < output[a][j]
        /\ output_pos[a] <= output_size[a] - 50
        /\ output_size[a] >= 500

LEMMA DumpParts == DumpInv <=> \A a \in Agents : DumpPart(a)
  BY DEF DumpInv, DumpPart

LEMMA DumpPartKept ==
    ASSUME NEW a \in Agents, DumpPart(a),
           <<pc[a], event[a], old_event[a], output[a], output_pos[a], output_size[a], qos_enabled[a]>>'
             = <<pc[a], event[a], old_event[a], output[a], output_pos[a], output_size[a], qos_enabled[a]>>,
           \A b \in Buckets : ei_lock'[b] = a => ei_lock[b] = a,
           pc[a] = "dump" => /\ ei_lock'[table_hash(a)] = a
                             /\ Members(table_hash(a))' = Members(table_hash(a)),
           \A e \in Ids : pc[a] = "dump" /\ se_agent'[e] = a => se_agent[e] = a
    PROVE  DumpPart(a)'
<1>1. Place(a)' = Place(a)
  BY DEF Place
<1>2. table_hash(a)' = table_hash(a)
  BY DEF table_hash
<1>3. CASE pc[a] = "dump"
  <2>1. Before(Members(table_hash(a)), Place(a), old_event[a])'
    BY <1>1, <1>2, <1>3 DEF DumpPart, Before
  <2> QED
    BY <1>1, <1>2, <1>3, <2>1 DEF DumpPart
<1>4. CASE pc[a] # "dump"
  BY <1>2, <1>4 DEF DumpPart
<1> QED
  BY <1>3, <1>4


-----------------------------------------------------------------------------
(* register_event                                                          *)

LEMMA RegisterMembers ==
    ASSUME TableInv, NEW a \in Agents, NEW n \in Lengths, register_event(a, n)
    PROVE  /\ count + 1 \in Ids
           /\ \A b \in Buckets : \A e \in Members(b) : e <= count
           /\ Members(table_hash(a))' = Members(table_hash(a)) \cup {count + 1}
           /\ \A b \in Buckets : b # table_hash(a) => Members(b)' = Members(b)
           /\ se_agent[count + 1] = NULL /\ se_next[count + 1] = NIL
<1> USE IdsFacts
<1>1. count + 1 \in Ids /\ count \in Nat
  BY DEF TableInv, TypeOK, register_event, Ids
<1>2. se_agent[count + 1] = NULL /\ se_next[count + 1] = NIL
  BY <1>1 DEF TableInv, CountInv
<1>3. \A e \in Ids : se_agent'[e] = IF e = count + 1 THEN a ELSE se_agent[e]
  BY <1>1 DEF TableInv, TypeOK, register_event
<1>4. ASSUME NEW b \in Buckets, NEW e \in Members(b) PROVE e <= count
  <2>1. e \in Ids /\ se_agent[e] # NULL
    BY DEF Members
  <2>2. ~(e > count)
    BY <2>1 DEF TableInv, CountInv
  <2> QED
    BY <1>1, <2>1, <2>2
<1>5. Members(table_hash(a))' = Members(table_hash(a)) \cup {count + 1}
  <2>1. ASSUME NEW e \in Ids
        PROVE  e \in Members(table_hash(a))' <=> e \in Members(table_hash(a)) \cup {count + 1}
    <3>1. CASE e = count + 1
      BY <1>1, <1>3, <3>1 DEF Members, table_hash
    <3>2. CASE e # count + 1
      BY <1>3, <3>2 DEF Members, table_hash
    <3> QED
      BY <3>1, <3>2
  <2>2. Members(table_hash(a))' \subseteq Ids
    BY DEF Members
  <2> QED
    BY <1>1, <2>1, <2>2, MembersIds
<1>6. ASSUME NEW b \in Buckets, b # table_hash(a) PROVE Members(b)' = Members(b)
  <2>1. ASSUME NEW e \in Ids PROVE e \in Members(b)' <=> e \in Members(b)
    <3>1. CASE e = count + 1
      BY <1>2, <1>3, <1>6, <3>1 DEF Members, table_hash
    <3>2. CASE e # count + 1
      BY <1>3, <3>2 DEF Members, table_hash
    <3> QED
      BY <3>1, <3>2
  <2>2. Members(b)' \subseteq Ids
    BY DEF Members
  <2> QED
    BY <2>1, <2>2, MembersIds
<1> QED
  BY <1>1, <1>2, <1>4, <1>5, <1>6

LEMMA RegisterList ==
    ASSUME TableInv, NEW a \in Agents, NEW n \in Lengths, register_event(a, n)
    PROVE  ListIntact'
<1> USE IdsFacts
<1> DEFINE b == table_hash(a)
           e == count + 1
           last == ei_last[b]
<1>1. /\ b \in Buckets /\ e \in Ids /\ Members(b) \subseteq Ids
      /\ Members(b)' = Members(b) \cup {e}
      /\ se_next[e] = NIL
  BY RegisterMembers, HashType, MembersIds
<1>2. \A g \in Members(b) : g < e
  <2>1. count \in Nat
    BY DEF TableInv, TypeOK
  <2> QED
    <3> SUFFICES ASSUME NEW g \in Members(b) PROVE g < e
      OBVIOUS
    <3>1. g <= count /\ g \in Nat
      BY <1>1, RegisterMembers
    <3> QED
      BY <2>1, <3>1
<1>3. Linked(Members(b), ei_first[b], se_next) /\ Before(Members(b), MaxEvents + 1, last)
  BY <1>1 DEF TableInv, ListIntact, Linked, register_event
<1>4. /\ se_next' = IF last = NIL THEN se_next ELSE [se_next EXCEPT ![last] = e]
      /\ ei_first' = IF last = NIL THEN [ei_first EXCEPT ![b] = e] ELSE ei_first
      /\ ei_last' = [ei_last EXCEPT ![b] = e]
      /\ ei_lock' = ei_lock
      /\ ei_first \in [Buckets -> Ids \cup {NIL}]
      /\ ei_last \in [Buckets -> Ids \cup {NIL}]
      /\ se_next \in [Ids -> Ids \cup {NIL}]
  BY DEF register_event, TableInv, TypeOK
<1>5. /\ ei_first'[b] = AppendFirst(ei_first[b], last, e)
      /\ se_next' = AppendNext(se_next, last, e)
      /\ ei_last'[b] = e
  BY <1>1, <1>4 DEF AppendFirst, AppendNext
<1>6. /\ Linked(Members(b)', ei_first'[b], se_next')
      /\ Before(Members(b)', MaxEvents + 1, ei_last'[b])
      /\ last # NIL => last \in Members(b)
  <2>1. /\ Linked(Members(b) \cup {e}, AppendFirst(ei_first[b], last, e), AppendNext(se_next, last, e))
        /\ Before(Members(b) \cup {e}, MaxEvents + 1, e)
        /\ last # NIL => last \in Members(b)
    <3> HIDE DEF b, e, last
    <3> QED
      BY <1>1, <1>2, <1>3, <1>4, ListAppend
  <2> QED
    BY <1>1, <1>5, <2>1
<1>7. ASSUME NEW c \in Buckets, c # b
      PROVE  /\ Linked(Members(c)', ei_first'[c], se_next')
             /\ ei_lock'[c] = NULL => Before(Members(c)', MaxEvents + 1, ei_last'[c])
  <2>1. Members(c)' = Members(c)
    BY <1>7, RegisterMembers
  <2>2. \A g \in Members(c) : g # e /\ g # last
    <3>1. \A g \in Members(c) : g # e
      BY RegisterMembers DEF Members
    <3>2. \A g \in Members(c) : g \in Ids /\ g # NIL
      BY MembersIds
    <3> QED
      BY <1>6, <1>7, <3>1, <3>2, MembersDisjoint
  <2>3. \A g \in Members(c) : se_next'[g] = se_next[g]
    BY <1>4, <2>2, MembersIds
  <2>4. ei_first'[c] = ei_first[c] /\ ei_last'[c] = ei_last[c] /\ ei_lock'[c] = ei_lock[c]
    BY <1>4, <1>7
  <2>5. /\ Linked(Members(c), ei_first[c], se_next)
        /\ ei_lock[c] = NULL => Before(Members(c), MaxEvents + 1, ei_last[c])
    BY DEF TableInv, ListIntact, Linked
  <2> QED
    BY <2>1, <2>3, <2>4, <2>5 DEF Linked
<1> QED
  BY <1>6, <1>7 DEF ListIntact, Linked

LEMMA RegisterIInv ==
    ASSUME TableInv, NEW a \in Agents, NEW n \in Lengths, register_event(a, n)
    PROVE  TableInv'
<1> USE IdsFacts
<1>1. TypeOK'
  <2>1. count + 1 \in Ids /\ n \in 0..LINE_MAX /\ table_hash(a) \in Buckets
    BY RegisterMembers, HashType, QosAssumption DEF LINE_MAX, SDB_MODULE_NAME_SIZE
  <2>2. count' \in 0..MaxEvents
    BY DEF register_event, TableInv, TypeOK
  <2> QED
    BY <2>1, <2>2 DEF register_event, TableInv, TypeOK, dumpVars
<1>2. ListIntact'
  BY RegisterList
<1>3. DumpInv'
  <2> SUFFICES ASSUME NEW c \in Agents PROVE DumpPart(c)'
    BY DEF DumpInv, DumpPart
  <2>1. DumpPart(c)
    BY DumpParts DEF TableInv
  <2>2. pc[c] = "dump" => c # a /\ table_hash(c) # table_hash(a)
    BY <2>1 DEF register_event, DumpPart
  <2>3. pc[c] = "dump" => Members(table_hash(c))' = Members(table_hash(c))
    BY <2>2, RegisterMembers, HashType
  <2>4. \A b \in Buckets : ei_lock'[b] = c => ei_lock[b] = c
    BY <2>1 DEF register_event, DumpPart
  <2>5. pc[c] = "dump" => ei_lock'[table_hash(c)] = c
    BY <2>1 DEF register_event, DumpPart
  <2>6. \A e \in Ids : pc[c] = "dump" /\ se_agent'[e] = c => se_agent[e] = c
    BY <2>2 DEF register_event, TableInv, TypeOK
  <2>7. <<pc[c], event[c], old_event[c], output[c], output_pos[c], output_size[c], qos_enabled[c]>>'
          = <<pc[c], event[c], old_event[c], output[c], output_pos[c], output_size[c], qos_enabled[c]>>
    BY DEF register_event, dumpVars
  <2> QED
    BY <2>1, <2>3, <2>4, <2>5, <2>6, <2>7, DumpPartKept
<1>4. CountInv'
  <2> SUFFICES ASSUME NEW e \in Ids, e > count' PROVE se_agent'[e] = NULL /\ se_next'[e] = NIL
    BY DEF CountInv
  <2>0. count \in Nat /\ count' = count + 1
    BY DEF register_event, TableInv, TypeOK
  <2>1. count \in Nat /\ count' = count + 1 /\ count + 1 \in Ids
    BY <2>0, RegisterMembers
  <2>2. e > count /\ e # count + 1
    BY <2>1
  <2>3. se_agent[e] = NULL /\ se_next[e] = NIL
    BY <2>2 DEF TableInv, CountInv
  <2>4. ei_last[table_hash(a)] # NIL => ei_last[table_hash(a)] \in Members(table_hash(a))
    BY HashType DEF TableInv, ListIntact, register_event, Before
  <2>5. ei_last[table_hash(a)] # e
    BY <2>3, <2>4 DEF Members
  <2> QED
    BY <2>2, <2>3, <2>5 DEF register_event, TableInv, TypeOK
<1> QED
  BY <1>1, <1>2, <1>3, <1>4 DEF TableInv

-----------------------------------------------------------------------------
(* The steps of a dump.                                                    *)

\* What a step keeps when it leaves the lists alone.
LEMMA ListKept ==
    ASSUME ListIntact, UNCHANGED <<se_agent, se_next, ei_first>>,
           \A b \in Buckets : ei_lock'[b] = NULL =>
               ei_lock[b] = NULL /\ ei_last'[b] = ei_last[b]
    PROVE  ListIntact'
<1>1. \A b : Members(b)' = Members(b)
  BY DEF Members, table_hash
<1> SUFFICES ASSUME NEW b \in Buckets
             PROVE  /\ Linked(Members(b)', ei_first'[b], se_next')
                    /\ ei_lock'[b] = NULL => Before(Members(b)', MaxEvents + 1, ei_last'[b])
  BY DEF ListIntact, Linked
<1> QED
  BY <1>1 DEF ListIntact, Linked

LEMMA StartIInv ==
    ASSUME TableInv, NEW a \in Agents, sdb_qos_start(a)
    PROVE  TableInv'
<1>1. TypeOK'
  BY DEF sdb_qos_start, TableInv, TypeOK, listVars, dumpVars
<1>2. ListIntact'
  BY ListKept DEF TableInv, sdb_qos_start, listVars
<1>3. \A b : Members(b)' = Members(b)
  BY DEF Members, table_hash, sdb_qos_start, listVars
<1>4. ASSUME NEW c \in Agents PROVE DumpPart(c)'
  <2>1. DumpPart(c)
    BY DumpParts DEF TableInv
  <2>2. CASE c = a
    BY <2>1, <2>2 DEF DumpPart, sdb_qos_start, listVars, dumpVars
  <2>3. CASE c # a
    <3>1. <<pc[c], event[c], old_event[c], output[c], output_pos[c], output_size[c], qos_enabled[c]>>'
            = <<pc[c], event[c], old_event[c], output[c], output_pos[c], output_size[c], qos_enabled[c]>>
      BY <2>3 DEF sdb_qos_start, dumpVars, TableInv, TypeOK
    <3>2. ei_lock' = ei_lock /\ se_agent' = se_agent
      BY DEF sdb_qos_start, listVars
    <3>3. pc[c] = "dump" => ei_lock'[table_hash(c)] = c
      BY <2>1, <3>2 DEF DumpPart
    <3>4. \A b \in Buckets : ei_lock'[b] = c => ei_lock[b] = c
      BY <2>1, <3>2 DEF DumpPart
    <3> QED
      BY <1>3, <2>1, <3>1, <3>2, <3>3, <3>4, DumpPartKept
  <2> QED
    BY <2>2, <2>3
<1>5. DumpInv'
  BY <1>4 DEF DumpInv, DumpPart
<1>6. CountInv'
  BY DEF CountInv, TableInv, sdb_qos_start, listVars
<1> QED
  BY <1>1, <1>2, <1>5, <1>6 DEF TableInv

LEMMA UnchangedIInv ==
    ASSUME TableInv, UNCHANGED <<pc, qos_enabled, listVars, ei_lock, dumpVars>>,
           out' \in [Agents -> Seq(Ids) \cup {NULL}]
    PROVE  TableInv'
<1>1. TypeOK'
  BY DEF TableInv, TypeOK, listVars, dumpVars
<1>2. ListIntact'
  BY ListKept DEF TableInv, listVars
<1>3. \A b : Members(b)' = Members(b)
  BY DEF Members, table_hash, listVars
<1>4. ASSUME NEW c \in Agents PROVE DumpPart(c)'
  <2>1. DumpPart(c)
    BY DumpParts DEF TableInv
  <2>2. <<pc[c], event[c], old_event[c], output[c], output_pos[c], output_size[c], qos_enabled[c]>>'
          = <<pc[c], event[c], old_event[c], output[c], output_pos[c], output_size[c], qos_enabled[c]>>
    BY DEF dumpVars
  <2>3. ei_lock' = ei_lock /\ se_agent' = se_agent
    BY DEF listVars
  <2>4. pc[c] = "dump" => ei_lock'[table_hash(c)] = c
    BY <2>1, <2>3 DEF DumpPart
  <2>5. \A b \in Buckets : ei_lock'[b] = c => ei_lock[b] = c
    BY <2>1, <2>3 DEF DumpPart
  <2> QED
    BY <1>3, <2>1, <2>2, <2>3, <2>4, <2>5, DumpPartKept
<1>5. DumpInv'
  BY <1>4 DEF DumpInv, DumpPart
<1>6. CountInv'
  BY DEF CountInv, TableInv, listVars
<1> QED
  BY <1>1, <1>2, <1>5, <1>6 DEF TableInv

LEMMA RefusedIInv ==
    ASSUME TableInv, NEW a \in Agents, dump_refused(a)
    PROVE  TableInv'
<1>1. out' \in [Agents -> Seq(Ids) \cup {NULL}]
  BY DEF TableInv, TypeOK, dump_refused
<1> QED
  BY <1>1, UnchangedIInv DEF dump_refused

LEMMA DumpIInv ==
    ASSUME TableInv, NEW a \in Agents, NEW stop \in BOOLEAN, sdb_qos_dump_module(a, stop)
    PROVE  TableInv'
<1> USE IdsFacts
<1> DEFINE b == table_hash(a)
<1>0. b \in Buckets /\ ei_lock[b] = NULL /\ pc[a] = "idle"
  BY HashType DEF sdb_qos_dump_module
<1>1. TypeOK'
  BY <1>0 DEF sdb_qos_dump_module, TableInv, TypeOK, listVars
<1>2. ListIntact'
  <2>1. UNCHANGED <<se_agent, se_next, ei_first, ei_last>>
    BY DEF sdb_qos_dump_module, listVars
  <2>2. \A c \in Buckets : ei_lock'[c] = NULL => ei_lock[c] = NULL
    BY DEF sdb_qos_dump_module, TableInv, TypeOK
  <2> QED
    BY <2>1, <2>2, ListKept DEF TableInv
<1>3. \A c : Members(c)' = Members(c)
  BY DEF Members, table_hash, sdb_qos_dump_module, listVars
<1>4. DumpPart(a)'
  <2>1. /\ pc'[a] = "dump" /\ event'[a] = ei_first[b] /\ old_event'[a] = NIL
        /\ output'[a] = <<>> /\ output_pos'[a] = 0 /\ output_size'[a] = 500
        /\ qos_enabled'[a] /\ ei_lock'[b] = a /\ se_agent' = se_agent
    BY <1>0 DEF sdb_qos_dump_module, TableInv, TypeOK, listVars
  <2>2. After(Members(b), 0, ei_first[b]) /\ Members(b) \subseteq Ids
    BY <1>0, MembersIds DEF TableInv, ListIntact
  <2>3. event'[a] \in Members(b) \cup {NIL}
    BY <2>1, <2>2 DEF After
  <2>4. \A e \in Members(b) : e >= Place(a)'
    <3> SUFFICES ASSUME NEW e \in Members(b) PROVE e >= Place(a)'
      OBVIOUS
    <3>1. e \in Nat /\ e > 0
      BY <2>2
    <3>2. ei_first[b] # NIL /\ ei_first[b] <= e
      BY <2>2, <3>1 DEF After
    <3> QED
      BY <2>1, <2>2, <3>1, <3>2 DEF Place, After
  <2>5. Before(Members(b), Place(a)', NIL)
    BY <2>4 DEF Before
  <2>6. \A e \in Ids : se_agent'[e] = a => e >= Place(a)'
    BY <2>1, <2>4 DEF Members
  <2>7. Before(Members(b)', Place(a)', old_event'[a])
    BY <1>3, <2>1, <2>5
  <2>8. Len(output'[a]) = 0
    BY <2>1
  <2> QED
    <3>1. \A d \in Buckets : ei_lock'[d] = a => d = b
      <4>1. \A d \in Buckets : ei_lock[d] # a
        BY <1>0, DumpParts DEF TableInv, DumpPart
      <4> QED
        BY <4>1, <1>0 DEF sdb_qos_dump_module, TableInv, TypeOK
    <3> QED
      BY <1>3, <2>1, <2>3, <2>6, <2>7, <2>8, <3>1 DEF DumpPart, table_hash
<1>5. ASSUME NEW c \in Agents, c # a PROVE DumpPart(c)'
  <2>1. DumpPart(c)
    BY DumpParts DEF TableInv
  <2>2. <<pc[c], event[c], old_event[c], output[c], output_pos[c], output_size[c], qos_enabled[c]>>'
          = <<pc[c], event[c], old_event[c], output[c], output_pos[c], output_size[c], qos_enabled[c]>>
    BY <1>5 DEF sdb_qos_dump_module, TableInv, TypeOK
  <2>3. se_agent' = se_agent /\ \A d \in Buckets : ei_lock'[d] = IF d = b THEN a ELSE ei_lock[d]
    BY <1>0 DEF sdb_qos_dump_module, TableInv, TypeOK, listVars
  <2>4. pc[c] = "dump" => ei_lock'[table_hash(c)] = c
    BY <1>0, <2>1, <2>3, HashType DEF DumpPart
  <2>5. \A d \in Buckets : ei_lock'[d] = c => ei_lock[d] = c
    BY <1>5, <2>1, <2>3 DEF DumpPart
  <2> QED
    BY <1>3, <2>1, <2>2, <2>3, <2>4, <2>5, DumpPartKept
<1>6. DumpInv'
  BY <1>4, <1>5 DEF DumpInv, DumpPart
<1>7. CountInv'
  BY DEF CountInv, TableInv, sdb_qos_dump_module, listVars
<1> QED
  BY <1>1, <1>2, <1>6, <1>7 DEF TableInv

\* Where the loop of a dump stands.
LEMMA DumpFacts ==
    ASSUME TableInv, NEW a \in Agents, pc[a] = "dump"
    PROVE  /\ table_hash(a) \in Buckets
           /\ ei_lock[table_hash(a)] = a
           /\ Members(table_hash(a)) \subseteq Ids
           /\ event[a] \in Members(table_hash(a)) \cup {NIL}
           /\ Before(Members(table_hash(a)), Place(a), old_event[a])
           /\ Linked(Members(table_hash(a)), ei_first[table_hash(a)], se_next)
           /\ \A e \in Ids : se_agent[e] = a => e >= Place(a)
<1>1. DumpPart(a)
  BY DumpParts DEF TableInv
<1> QED
  BY <1>1, HashType, MembersIds DEF DumpPart, TableInv, ListIntact, Linked

LEMMA OtherIInv ==
    ASSUME TableInv, NEW a \in Agents, dump_other(a)
    PROVE  TableInv'
<1> USE IdsFacts
<1> DEFINE b == table_hash(a)
           cur == event[a]
<1>0. pc[a] = "dump" /\ cur # NIL /\ se_agent[cur] # a
  BY DEF dump_other
<1>1. /\ b \in Buckets /\ ei_lock[b] = a /\ Members(b) \subseteq Ids /\ cur \in Members(b)
      /\ Linked(Members(b), ei_first[b], se_next)
      /\ cur \in Ids
      /\ \A e \in Ids : se_agent[e] = a => e >= cur
  BY <1>0, DumpFacts DEF Place
<1>2. TypeOK'
  BY <1>1 DEF dump_other, TableInv, TypeOK, listVars
<1>3. UNCHANGED <<pc, se_agent, se_next, ei_first, ei_last, ei_lock>>
  BY DEF dump_other, listVars
<1>4. ListIntact'
  BY <1>3, ListKept DEF TableInv
<1>5. \A c : Members(c)' = Members(c)
  BY <1>3 DEF Members, table_hash
<1>6. /\ event'[a] = se_next[cur] /\ old_event'[a] = cur
      /\ output'[a] = output[a] /\ output_pos'[a] = output_pos[a]
      /\ output_size'[a] = output_size[a] /\ qos_enabled'[a] = qos_enabled[a]
  BY DEF dump_other, TableInv, TypeOK
<1>7. DumpPart(a)'
  <2>0. DumpPart(a)
    BY DumpParts DEF TableInv
  <2>1. After(Members(b), cur, se_next[cur])
    BY <1>1 DEF Linked
  <2>2. event'[a] \in Members(b) \cup {NIL}
    BY <1>6, <2>1 DEF After
  <2>3. Place(a)' \in Nat /\ Place(a)' > cur /\ \A g \in Members(b) : g > cur => g >= Place(a)'
    <3>1. CASE se_next[cur] = NIL
      <4>1. Place(a)' = MaxEvents + 1
        BY <1>6, <3>1 DEF Place
      <4>2. \A g \in Members(b) : g <= cur /\ g \in Nat
        BY <1>1, <2>1, <3>1 DEF After
      <4>3. cur \in Nat /\ cur < MaxEvents + 1
        BY <1>1
      <4> QED
        BY <4>1, <4>2, <4>3
    <3>2. CASE se_next[cur] # NIL
      <4>1. Place(a)' = se_next[cur]
        BY <1>6, <3>2 DEF Place
      <4>2. se_next[cur] \in Members(b) /\ se_next[cur] > cur
            /\ \A g \in Members(b) : g > cur => se_next[cur] <= g
        BY <2>1, <3>2 DEF After
      <4>3. \A g \in Members(b) : g \in Nat
        BY <1>1
      <4> QED
        BY <4>1, <4>2, <4>3
    <3> QED
      BY <3>1, <3>2
  <2>4. Before(Members(b), Place(a)', cur)
    <3>1. ASSUME NEW g \in Members(b), g < Place(a)' PROVE g <= cur
      <4>1. g \in Nat /\ cur \in Nat
        BY <1>1
      <4>2. ~(g > cur)
        BY <2>3, <3>1, <4>1
      <4> QED
        BY <4>1, <4>2
    <3>2. cur < Place(a)'
      BY <1>1, <2>3
    <3> QED
      BY <1>1, <3>1, <3>2 DEF Before
  <2>5. ASSUME NEW e \in Ids, se_agent'[e] = a PROVE e >= Place(a)'
    <3>1. se_agent[e] = a /\ e # cur /\ e >= cur /\ e \in Nat /\ cur \in Nat
      BY <1>0, <1>1, <1>3, <2>5
    <3>2. e \in Members(b) /\ e > cur
      BY <3>1 DEF Members
    <3> QED
      BY <2>3, <3>2
  <2>6. ASSUME NEW i \in 1..Len(output[a]) PROVE output[a][i] < Place(a)'
    <3>1. output[a][i] < cur
      BY <1>0, <2>0, <2>6 DEF DumpPart, Place
    <3>2. output[a][i] \in Ids
      BY DEF TableInv, TypeOK
    <3>3. output[a][i] \in Nat /\ cur \in Nat
      BY <1>1, <3>2
    <3> QED
      BY <2>3, <3>1, <3>3
  <2>7. /\ (event[a] # NIL => pc[a] = "dump")' /\ pc'[a] = "dump" /\ qos_enabled'[a]
        /\ ei_lock'[b] = a
        /\ event'[a] \in Members(b)' \cup {NIL}
        /\ Before(Members(b)', Place(a)', old_event'[a])
    BY <1>0, <1>1, <1>3, <1>5, <1>6, <2>0, <2>2, <2>4 DEF DumpPart
  <2>8. /\ \A i \in 1..Len(output'[a]) : output'[a][i] < Place(a)'
        /\ \A i, j \in 1..Len(output'[a]) : i < j => output'[a][i] < output'[a][j]
        /\ output_pos'[a] <= output_size'[a] - 50 /\ output_size'[a] >= 500
    BY <1>0, <1>6, <2>0, <2>6 DEF DumpPart
  <2> QED
    <3>1. \A d \in Buckets : ei_lock'[d] = a => d = b
      BY <1>3, <2>0 DEF DumpPart
    <3> QED
      BY <2>5, <2>7, <2>8, <3>1 DEF DumpPart, table_hash
<1>8. ASSUME NEW c \in Agents, c # a PROVE DumpPart(c)'
  <2>1. DumpPart(c)
    BY DumpParts DEF TableInv
  <2>2. <<pc[c], event[c], old_event[c], output[c], output_pos[c], output_size[c], qos_enabled[c]>>'
          = <<pc[c], event[c], old_event[c], output[c], output_pos[c], output_size[c], qos_enabled[c]>>
    BY <1>8 DEF dump_other, TableInv, TypeOK
  <2>3. pc[c] = "dump" => ei_lock'[table_hash(c)] = c
    BY <1>3, <2>1 DEF DumpPart
  <2>4. \A d \in Buckets : ei_lock'[d] = c => ei_lock[d] = c
    BY <1>3, <2>1 DEF DumpPart
  <2> QED
    BY <1>3, <1>5, <2>1, <2>2, <2>3, <2>4, DumpPartKept
<1>9. DumpInv'
  BY <1>7, <1>8 DEF DumpInv, DumpPart
<1>10. CountInv'
  BY DEF CountInv, TableInv, dump_other, listVars
<1> QED
  BY <1>2, <1>4, <1>9, <1>10 DEF TableInv

\* After a line at least 50 bytes of the buffer are left.
LEMMA GrowFacts ==
    ASSUME NEW pos \in Nat, NEW n \in 0..LINE_MAX, NEW size \in Nat,
           pos <= size - 50, size >= 500
    PROVE  /\ Grow(pos + n, size) \in Nat
           /\ Grow(pos + n, size) >= 500
           /\ pos + n <= Grow(pos + n, size) - 50
<1>1. LINE_MAX = 49
  BY DEF LINE_MAX, SDB_MODULE_NAME_SIZE
<1>2. n \in Nat /\ n <= 49
  BY <1>1
<1>3. CASE pos + n > size - 50
  <2>1. PICK h \in Nat : h = (3 * size) \div 2 /\ 2 * h >= 3 * size - 1
    OBVIOUS
  <2>2. Grow(pos + n, size) = h
    BY <1>3, <2>1 DEF Grow
  <2> QED
    BY <1>2, <2>1, <2>2
<1>4. CASE ~(pos + n > size - 50)
  BY <1>2, <1>4 DEF Grow
<1> QED
  BY <1>3, <1>4

LEMMA OwnMembers ==
    ASSUME TableInv, NEW a \in Agents, dump_own(a)
    PROVE  /\ event[a] \in Members(table_hash(a)) /\ event[a] \in Ids
           /\ Members(table_hash(a))' = Members(table_hash(a)) \ {event[a]}
           /\ \A b \in Buckets : b # table_hash(a) => Members(b)' = Members(b)
           /\ \A e \in Ids : se_agent'[e] = IF e = event[a] THEN NULL ELSE se_agent[e]
<1> USE IdsFacts
<1>1. event[a] \in Members(table_hash(a)) /\ event[a] \in Ids
  BY DumpFacts DEF dump_own
<1>2. \A e \in Ids : se_agent'[e] = IF e = event[a] THEN NULL ELSE se_agent[e]
  BY <1>1 DEF dump_own, TableInv, TypeOK
<1>3. se_agent[event[a]] = a
  BY DEF dump_own
<1>4. Members(table_hash(a))' = Members(table_hash(a)) \ {event[a]}
  <2>1. ASSUME NEW e \in Ids
        PROVE  e \in Members(table_hash(a))' <=> e \in Members(table_hash(a)) \ {event[a]}
    BY <1>2 DEF Members, table_hash
  <2>2. Members(table_hash(a))' \subseteq Ids
    BY DEF Members
  <2> QED
    BY <2>1, <2>2, MembersIds
<1>5. ASSUME NEW b \in Buckets, b # table_hash(a) PROVE Members(b)' = Members(b)
  <2>1. ASSUME NEW e \in Ids PROVE e \in Members(b)' <=> e \in Members(b)
    BY <1>2, <1>3, <1>5 DEF Members, table_hash
  <2>2. Members(b)' \subseteq Ids
    BY DEF Members
  <2> QED
    BY <2>1, <2>2, MembersIds
<1> QED
  BY <1>1, <1>2, <1>4, <1>5

LEMMA OwnList ==
    ASSUME TableInv, NEW a \in Agents, dump_own(a)
    PROVE  /\ ListIntact'
           /\ se_next[event[a]] \in Members(table_hash(a))' \cup {NIL}
           /\ se_next[event[a]] # NIL => se_next[event[a]] > event[a]
           /\ Before(Members(table_hash(a))', Place(a)', old_event[a])
           /\ event'[a] = se_next[event[a]]
<1> USE IdsFacts
<1> DEFINE b == table_hash(a)
           cur == event[a]
           old == old_event[a]
<1>1. /\ pc[a] = "dump" /\ b \in Buckets /\ ei_lock[b] = a /\ Members(b) \subseteq Ids
      /\ Before(Members(b), cur, old) /\ Linked(Members(b), ei_first[b], se_next)
  BY DumpFacts DEF dump_own, Place
<1>2. /\ cur \in Members(b) /\ cur \in Ids /\ Members(b)' = Members(b) \ {cur}
  BY OwnMembers
<1>3. /\ se_next \in [Ids -> Ids \cup {NIL}] /\ ei_first \in [Buckets -> Ids \cup {NIL}]
      /\ ei_last' = ei_last /\ ei_lock' = ei_lock
      /\ event'[a] = se_next[cur]
  BY DEF TableInv, TypeOK, dump_own
<1>4. /\ Linked(Members(b) \ {cur}, RemoveFirst(ei_first[b], se_next, old, cur), RemoveNext(se_next, old, cur))
      /\ se_next[cur] \in (Members(b) \ {cur}) \cup {NIL}
      /\ se_next[cur] # NIL => se_next[cur] > cur
      /\ Before(Members(b) \ {cur}, IF se_next[cur] = NIL THEN MaxEvents + 1 ELSE se_next[cur], old)
      /\ old # NIL => old \in Members(b) \ {cur}
  <2> HIDE DEF b, cur, old
  <2> QED
    BY <1>1, <1>2, <1>3, ListRemove
<1>5. /\ ei_first'[b] = RemoveFirst(ei_first[b], se_next, old, cur)
      /\ se_next' = RemoveNext(se_next, old, cur)
      /\ \A c \in Buckets : c # b => ei_first'[c] = ei_first[c]
  BY <1>1, <1>3 DEF dump_own, RemoveFirst, RemoveNext
<1>6. Place(a)' = IF se_next[cur] = NIL THEN MaxEvents + 1 ELSE se_next[cur]
  BY <1>3 DEF Place
<1>7. Linked(Members(b)', ei_first'[b], se_next')
  BY <1>2, <1>4, <1>5
<1>8. ASSUME NEW c \in Buckets, c # b
      PROVE  /\ Linked(Members(c)', ei_first'[c], se_next')
             /\ ei_lock'[c] = NULL => Before(Members(c)', MaxEvents + 1, ei_last'[c])
  <2>1. Members(c)' = Members(c)
    BY <1>8, OwnMembers
  <2>2. \A g \in Members(c) : g # cur /\ g # old
    <3>1. \A g \in Members(c) : g \in Ids /\ g # NIL
      BY MembersIds
    <3> QED
      BY <1>2, <1>4, <1>8, <3>1, MembersDisjoint
  <2>3. \A g \in Members(c) : se_next'[g] = se_next[g]
    BY <1>3, <1>5, <2>2, MembersIds DEF RemoveNext
  <2>4. /\ Linked(Members(c), ei_first[c], se_next)
        /\ ei_lock[c] = NULL => Before(Members(c), MaxEvents + 1, ei_last[c])
    BY DEF TableInv, ListIntact, Linked
  <2> QED
    BY <1>3, <1>5, <1>8, <2>1, <2>3, <2>4 DEF Linked
<1>9. ListIntact'
  <2>1. ei_lock'[b] # NULL
    BY <1>1, <1>3
  <2> QED
    BY <1>7, <1>8, <2>1 DEF ListIntact, Linked
<1> QED
  BY <1>2, <1>3, <1>4, <1>6, <1>9

LEMMA OwnIInv ==
    ASSUME TableInv, NEW a \in Agents, dump_own(a)
    PROVE  TableInv'
<1> USE IdsFacts
<1> DEFINE b == table_hash(a)
           cur == event[a]
           pos == output_pos[a] + se_len[cur]
<1>0. /\ pc[a] = "dump" /\ cur # NIL /\ se_agent[cur] = a /\ DumpPart(a)
      /\ b \in Buckets /\ ei_lock[b] = a
      /\ \A e \in Ids : se_agent[e] = a => e >= cur
  BY DumpFacts, DumpParts DEF dump_own, Place, TableInv
<1>1. /\ cur \in Members(b) /\ cur \in Ids /\ Members(b)' = Members(b) \ {cur}
      /\ \A e \in Ids : se_agent'[e] = IF e = cur THEN NULL ELSE se_agent[e]
  BY OwnMembers
<1>2. /\ output[a] \in Seq(Ids) /\ se_len[cur] \in 0..LINE_MAX
      /\ output_pos[a] \in Nat /\ output_size[a] \in Nat
      /\ se_next[cur] \in Ids \cup {NIL}
      /\ output_pos[a] <= output_size[a] - 50 /\ output_size[a] >= 500
  BY <1>0, <1>1 DEF TableInv, TypeOK, DumpPart
<1>3. /\ event'[a] = se_next[cur] /\ old_event'[a] = old_event[a] /\ pc' = pc
      /\ output'[a] = Append(output[a], cur) /\ output_pos'[a] = pos
      /\ output_size'[a] = Grow(pos, output_size[a]) /\ qos_enabled' = qos_enabled
      /\ ei_lock' = ei_lock
  BY DEF dump_own, TableInv, TypeOK
<1>4. /\ Grow(pos, output_size[a]) \in Nat
      /\ Grow(pos, output_size[a]) >= 500
      /\ pos <= Grow(pos, output_size[a]) - 50
  BY <1>2, GrowFacts
<1>5. /\ output'[a] \in Seq(Ids)
      /\ \A i \in 1..Len(output'[a]) : output'[a][i] <= cur
      /\ \A i, j \in 1..Len(output'[a]) : i < j => output'[a][i] < output'[a][j]
  <2>1. \A i \in 1..Len(output[a]) : output[a][i] < cur
    BY <1>0 DEF DumpPart, Place
  <2>2. \A i, j \in 1..Len(output[a]) : i < j => output[a][i] < output[a][j]
    BY <1>0 DEF DumpPart
  <2> HIDE DEF cur
  <2> QED
    BY <1>1, <1>2, <1>3, <2>1, <2>2, AppendFacts
<1>6. TypeOK'
  <2>1. pos \in Nat
    BY <1>2, <1>3, <1>4
  <2>2. old_event[a] # NIL => old_event[a] \in Ids
    BY DEF TableInv, TypeOK
  <2>3. se_next' \in [Ids -> Ids \cup {NIL}]
    BY <1>1, <1>2, <2>2 DEF dump_own, TableInv, TypeOK
  <2>4. ei_first' \in [Buckets -> Ids \cup {NIL}]
    <3>1. ei_first \in [Buckets -> Ids \cup {NIL}]
      BY DEF TableInv, TypeOK
    <3>2. ei_first' = [ei_first EXCEPT ![b] = se_next[cur]] \/ ei_first' = ei_first
      BY DEF dump_own
    <3> QED
      BY <1>2, <3>1, <3>2
  <2>5. output' \in [Agents -> Seq(Ids)]
    BY <1>1, <1>2 DEF dump_own, TableInv, TypeOK
  <2>6. output_pos' \in [Agents -> Nat] /\ output_size' \in [Agents -> Nat]
    BY <1>4, <2>1 DEF dump_own, TableInv, TypeOK
  <2>7. event' \in [Agents -> Ids \cup {NIL}] /\ se_agent' \in [Ids -> Agents \cup {NULL}]
    BY <1>1, <1>2 DEF dump_own, TableInv, TypeOK
  <2>8. UNCHANGED <<pc, qos_enabled, count, se_len, ei_last, ei_lock, old_event, stopping, out>>
    BY DEF dump_own
  <2> QED
    BY <2>3, <2>4, <2>5, <2>6, <2>7, <2>8 DEF TableInv, TypeOK
<1>7. /\ ListIntact'
      /\ event'[a] \in Members(b)' \cup {NIL}
      /\ se_next[cur] # NIL => se_next[cur] > cur
      /\ Before(Members(b)', Place(a)', old_event'[a])
  BY <1>3, OwnList
<1>8. DumpPart(a)'
  <2>1. Place(a)' \in Nat /\ Place(a)' > cur
    <3>1. CASE se_next[cur] = NIL
      <4>1. cur \in Nat /\ cur < MaxEvents + 1
        BY <1>1
      <4>2. Place(a)' = MaxEvents + 1
        BY <1>3, <3>1 DEF Place
      <4> QED
        BY <4>1, <4>2
    <3>2. CASE se_next[cur] # NIL
      <4>1. Place(a)' = se_next[cur] /\ se_next[cur] \in Ids /\ se_next[cur] > cur
        BY <1>2, <1>3, <1>7, <3>2 DEF Place
      <4> QED
        BY <4>1
    <3> QED
      BY <3>1, <3>2
  <2>2. ASSUME NEW i \in 1..Len(output'[a]) PROVE output'[a][i] < Place(a)'
    <3>1. output'[a][i] \in Ids /\ output'[a][i] <= cur
      BY <1>5
    <3>2. output'[a][i] \in Nat /\ cur \in Nat
      BY <1>1, <3>1
    <3> QED
      BY <2>1, <3>1, <3>2
  <2>3. ASSUME NEW e \in Ids, se_agent'[e] = a PROVE e >= Place(a)'
    <3>1. se_agent[e] = a /\ e # cur
      BY <1>1, <2>3
    <3>2. e \in Members(b) /\ e > cur
      <4>1. e \in Members(b)
        BY <3>1 DEF Members
      <4>2. e >= cur /\ e \in Nat /\ cur \in Nat
        BY <1>0, <1>1, <3>1
      <4> QED
        BY <3>1, <4>1, <4>2
    <3>3. After(Members(b), cur, se_next[cur])
      BY <1>0, <1>1, DumpFacts DEF Linked
    <3>4. se_next[cur] \in Members(b) /\ se_next[cur] <= e
      <4>0. e \in Nat /\ cur \in Nat
        BY <1>1
      <4>1. ~(e <= cur)
        BY <3>2, <4>0
      <4> QED
        BY <3>2, <3>3, <4>1 DEF After
    <3>5. se_next[cur] \in Nat /\ se_next[cur] # NIL
      BY <3>4, MembersIds
    <3> QED
      BY <1>3, <3>4, <3>5 DEF Place
  <2> QED
    <3>1. \A d \in Buckets : ei_lock'[d] = a => d = b
      BY <1>0, <1>3 DEF DumpPart
    <3> QED
      BY <1>0, <1>3, <1>4, <1>5, <1>7, <2>2, <2>3, <3>1 DEF DumpPart, table_hash
<1>9. ASSUME NEW c \in Agents, c # a PROVE DumpPart(c)'
  <2>1. DumpPart(c)
    BY DumpParts DEF TableInv
  <2>2. <<pc[c], event[c], old_event[c], output[c], output_pos[c], output_size[c], qos_enabled[c]>>'
          = <<pc[c], event[c], old_event[c], output[c], output_pos[c], output_size[c], qos_enabled[c]>>
    BY <1>9 DEF dump_own, TableInv, TypeOK
  <2>3. pc[c] = "dump" => ei_lock'[table_hash(c)] = c /\ table_hash(c) # b
    BY <1>0, <1>3, <1>9, <2>1 DEF DumpPart
  <2>4. \A d \in Buckets : ei_lock'[d] = c => ei_lock[d] = c
    BY <1>3, <2>1 DEF DumpPart
  <2>5. pc[c] = "dump" => Members(table_hash(c))' = Members(table_hash(c))
    BY <2>3, HashType, OwnMembers
  <2>6. \A e \in Ids : se_agent'[e] = c => se_agent[e] = c
    BY <1>1
  <2> QED
    BY <2>1, <2>2, <2>3, <2>4, <2>5, <2>6, DumpPartKept
<1>10. DumpInv'
  BY <1>8, <1>9 DEF DumpInv, DumpPart
<1>11. CountInv'
  <2> SUFFICES ASSUME NEW e \in Ids, e > count PROVE se_agent'[e] = NULL /\ se_next'[e] = NIL
    BY DEF CountInv, dump_own
  <2>1. se_agent[e] = NULL /\ se_next[e] = NIL
    BY DEF TableInv, CountInv
  <2>2. e # old_event[a] \/ old_event[a] = NIL
    <3>1. old_event[a] # NIL => old_event[a] \in Members(b)
      BY <1>0 DEF DumpPart, Before
    <3> QED
      BY <2>1, <3>1 DEF Members
  <2> QED
    BY <1>1, <2>1, <2>2 DEF dump_own, TableInv, TypeOK
<1> QED
  BY <1>6, <1>7, <1>10, <1>11 DEF TableInv

LEMMA EndIInv ==
    ASSUME TableInv, NEW a \in Agents, dump_end(a)
    PROVE  TableInv'
<1> USE IdsFacts
<1> DEFINE b == table_hash(a)
<1>0. pc[a] = "dump" /\ event[a] = NIL
  BY DEF dump_end
<1>1. /\ b \in Buckets /\ ei_lock[b] = a /\ Before(Members(b), MaxEvents + 1, old_event[a])
  BY <1>0, DumpFacts DEF Place
<1>2. TypeOK'
  <2>1. old_event[a] \in Ids \cup {NIL} /\ output[a] \in Seq(Ids) /\ <<>> \in Seq(Ids)
    BY DEF TableInv, TypeOK
  <2> QED
    BY <1>1, <2>1 DEF dump_end, TableInv, TypeOK
<1>3. \A c : Members(c)' = Members(c)
  BY DEF Members, table_hash, dump_end
<1>4. \A c \in Buckets : /\ ei_lock'[c] = IF c = b THEN NULL ELSE ei_lock[c]
                         /\ ei_last'[c] = IF c = b THEN old_event[a] ELSE ei_last[c]
  BY <1>1 DEF dump_end, TableInv, TypeOK
<1>5. ListIntact'
  <2> SUFFICES ASSUME NEW c \in Buckets
               PROVE  /\ Linked(Members(c)', ei_first'[c], se_next')
                      /\ ei_lock'[c] = NULL => Before(Members(c)', MaxEvents + 1, ei_last'[c])
    BY DEF ListIntact, Linked
  <2>1. Linked(Members(c), ei_first[c], se_next)
    BY DEF TableInv, ListIntact, Linked
  <2>2. ei_first' = ei_first /\ se_next' = se_next
    BY DEF dump_end
  <2>3. ei_lock'[c] = NULL => Before(Members(c), MaxEvents + 1, ei_last'[c])
    BY <1>1, <1>4 DEF TableInv, ListIntact
  <2> QED
    BY <1>3, <2>1, <2>2, <2>3
<1>6. DumpPart(a)'
  <2>1. /\ pc'[a] = "idle" /\ output'[a] = <<>> /\ event'[a] = NIL
    BY <1>0 DEF dump_end, TableInv, TypeOK
  <2>2. ASSUME NEW c \in Buckets PROVE ei_lock'[c] # a
    <3>1. CASE c = b
      BY <1>4, <3>1
    <3>2. CASE c # b
      <4>1. DumpPart(a)
        BY DumpParts DEF TableInv
      <4> QED
        BY <1>4, <3>2, <4>1 DEF DumpPart
    <3> QED
      BY <3>1, <3>2
  <2> QED
    BY <2>1, <2>2 DEF DumpPart
<1>7. ASSUME NEW c \in Agents, c # a PROVE DumpPart(c)'
  <2>1. DumpPart(c)
    BY DumpParts DEF TableInv
  <2>2. <<pc[c], event[c], old_event[c], output[c], output_pos[c], output_size[c], qos_enabled[c]>>'
          = <<pc[c], event[c], old_event[c], output[c], output_pos[c], output_size[c], qos_enabled[c]>>
    BY <1>7 DEF dump_end, TableInv, TypeOK
  <2>3. pc[c] = "dump" => ei_lock'[table_hash(c)] = c
    BY <1>1, <1>4, <1>7, <2>1, HashType DEF DumpPart
  <2>4. \A d \in Buckets : ei_lock'[d] = c => ei_lock[d] = c
    BY <1>4, <2>1 DEF DumpPart
  <2>5. se_agent' = se_agent
    BY DEF dump_end
  <2> QED
    BY <1>3, <2>1, <2>2, <2>3, <2>4, <2>5, DumpPartKept
<1>8. DumpInv'
  BY <1>6, <1>7 DEF DumpInv, DumpPart
<1>9. CountInv'
  BY DEF CountInv, TableInv, dump_end
<1> QED
  BY <1>2, <1>5, <1>8, <1>9 DEF TableInv

-----------------------------------------------------------------------------
(* Theorems.                                                               *)

LEMMA NextIInv == TableInv /\ [Next]_vars => TableInv'
<1> SUFFICES ASSUME TableInv, [Next]_vars PROVE TableInv'
  OBVIOUS
<1>1. ASSUME NEW a \in Agents, NEW n \in Lengths, register_event(a, n) PROVE TableInv'
  BY <1>1, RegisterIInv
<1>2. ASSUME NEW a \in Agents, sdb_qos_start(a) PROVE TableInv'
  BY <1>2, StartIInv
<1>3. ASSUME NEW a \in Agents, dump_refused(a) PROVE TableInv'
  BY <1>3, RefusedIInv
<1>4. ASSUME NEW a \in Agents, NEW stop \in BOOLEAN, sdb_qos_dump_module(a, stop) PROVE TableInv'
  BY <1>4, DumpIInv
<1>5. ASSUME NEW a \in Agents, dump_own(a) PROVE TableInv'
  BY <1>5, OwnIInv
<1>6. ASSUME NEW a \in Agents, dump_other(a) PROVE TableInv'
  BY <1>6, OtherIInv
<1>7. ASSUME NEW a \in Agents, dump_end(a) PROVE TableInv'
  BY <1>7, EndIInv
<1>8. ASSUME UNCHANGED vars PROVE TableInv'
  BY <1>8, UnchangedIInv DEF vars, TableInv, TypeOK
<1> QED
  BY <1>1, <1>2, <1>3, <1>4, <1>5, <1>6, <1>7, <1>8 DEF Next, Dumping

LEMMA TableInductive == Spec => []TableInv
  BY InitIInv, NextIInv, PTL DEF Spec

LEMMA EndsInit == Init => EndsInv
<1> SUFFICES ASSUME Init PROVE EndsInv
  OBVIOUS
<1>1. ends = [a \in Agents |-> <<>>] /\ output = [a \in Agents |-> <<>>]
      /\ output_pos = [a \in Agents |-> 0]
  BY DEF Init
<1>2. <<>> \in Seq(Nat) /\ Len(<<>>) = 0 /\ 0 <= LINE_MAX * 0
  BY DEF LINE_MAX, SDB_MODULE_NAME_SIZE
<1> QED
  BY <1>1, <1>2 DEF EndsInv

\* The part of EndsInv about one module, its variables given.
LinesEnd(es, os, p) ==
    /\ es \in Seq(Nat)
    /\ Len(es) = Len(os)
    /\ \A i \in 1..Len(es) : es[i] <= p
    /\ p <= LINE_MAX * Len(os)

LEMMA EndsParts ==
    ASSUME ends \in [Agents -> Seq(Nat)]
    PROVE  EndsInv <=> \A a \in Agents : LinesEnd(ends[a], output[a], output_pos[a])
  BY DEF EndsInv, LinesEnd

\* A line is added.
LEMMA LinesAppend ==
    ASSUME NEW es, NEW os \in Seq(Ids), NEW p \in Nat, NEW n \in 0..LINE_MAX, NEW e \in Ids,
           LinesEnd(es, os, p)
    PROVE  LinesEnd(Append(es, p + n), Append(os, e), p + n)
<1>1. es \in Seq(Nat) /\ Len(es) = Len(os) /\ Len(os) \in Nat
  BY DEF LinesEnd
<1>2. n \in Nat /\ n <= 49 /\ LINE_MAX = 49
  BY DEF LINE_MAX, SDB_MODULE_NAME_SIZE
<1>3. p + n \in Nat /\ p <= p + n
  BY <1>2
<1>4. Append(es, p + n) \in Seq(Nat) /\ Len(Append(es, p + n)) = Len(es) + 1
      /\ Len(Append(os, e)) = Len(os) + 1
  BY <1>1, <1>3
<1>5. ASSUME NEW i \in 1..Len(Append(es, p + n)) PROVE Append(es, p + n)[i] <= p + n
  <2>1. CASE i = Len(es) + 1
    BY <1>1, <1>3, <2>1
  <2>2. CASE i # Len(es) + 1
    <3>1. i \in 1..Len(es) /\ Append(es, p + n)[i] = es[i]
      BY <1>1, <1>3, <1>4, <2>2
    <3>2. es[i] <= p /\ es[i] \in Nat
      BY <1>1, <3>1 DEF LinesEnd
    <3> QED
      BY <1>2, <3>1, <3>2
  <2> QED
    BY <2>1, <2>2
<1>6. p + n <= LINE_MAX * (Len(os) + 1)
  <2>1. p <= 49 * Len(os)
    BY <1>2 DEF LinesEnd
  <2> QED
    BY <1>1, <1>2, <2>1
<1> QED
  BY <1>1, <1>4, <1>5, <1>6 DEF LinesEnd

LEMMA LinesNone == LinesEnd(<<>>, <<>>, 0)
  BY DEF LinesEnd, LINE_MAX, SDB_MODULE_NAME_SIZE

LEMMA EndsStep == TableInv /\ EndsInv /\ [Next]_vars => EndsInv'
<1> SUFFICES ASSUME TableInv, EndsInv, [Next]_vars PROVE EndsInv'
  OBVIOUS
<1>a. ends \in [Agents -> Seq(Nat)] /\ output \in [Agents -> Seq(Ids)] /\ output_pos \in [Agents -> Nat]
  BY DEF TableInv, TypeOK, EndsInv
<1>b. \A a \in Agents : LinesEnd(ends[a], output[a], output_pos[a])
  BY EndsParts DEF EndsInv
<1>1. ASSUME UNCHANGED <<ends, output, output_pos>> PROVE EndsInv'
  BY <1>1 DEF EndsInv
<1>2. ASSUME NEW a \in Agents, ends' = [ends EXCEPT ![a] = <<>>],
             output' = [output EXCEPT ![a] = <<>>], output_pos' = [output_pos EXCEPT ![a] = 0]
      PROVE  EndsInv'
  <2>1. ends' \in [Agents -> Seq(Nat)]
    BY <1>a, <1>2
  <2>2. \A c \in Agents : LinesEnd(ends'[c], output'[c], output_pos'[c])
    BY <1>a, <1>b, <1>2, LinesNone
  <2> QED
    BY <2>1, <2>2 DEF EndsInv, LinesEnd
<1>3. ASSUME NEW a \in Agents, dump_own(a) PROVE EndsInv'
  <2> DEFINE p == output_pos[a]
             n == se_len[event[a]]
  <2>1. event[a] \in Ids
    BY <1>3 DEF dump_own, TableInv, TypeOK
  <2>2. n \in 0..LINE_MAX /\ p \in Nat
    BY <1>a, <2>1 DEF TableInv, TypeOK
  <2>3. /\ ends' = [ends EXCEPT ![a] = Append(ends[a], p + n)]
        /\ output' = [output EXCEPT ![a] = Append(output[a], event[a])]
        /\ output_pos' = [output_pos EXCEPT ![a] = p + n]
    BY <1>3 DEF dump_own
  <2> HIDE DEF p, n
  <2>4. LinesEnd(Append(ends[a], p + n), Append(output[a], event[a]), p + n)
    <3>1. LinesEnd(ends[a], output[a], p)
      BY <1>b DEF p
    <3>2. output[a] \in Seq(Ids)
      BY <1>a
    <3> QED
      BY <2>1, <2>2, <3>1, <3>2, LinesAppend
  <2>5. ends' \in [Agents -> Seq(Nat)]
    <3>1. Append(ends[a], p + n) \in Seq(Nat)
      BY <2>4 DEF LinesEnd
    <3> QED
      BY <1>a, <2>3, <3>1
  <2>6. \A c \in Agents : LinesEnd(ends'[c], output'[c], output_pos'[c])
    BY <1>a, <1>b, <2>3, <2>4
  <2> QED
    BY <2>5, <2>6 DEF EndsInv, LinesEnd
<1>4. ASSUME NEW a \in Agents, NEW n \in Lengths, register_event(a, n) PROVE EndsInv'
  BY <1>1, <1>4 DEF register_event, dumpVars
<1>5. ASSUME NEW a \in Agents, sdb_qos_start(a) PROVE EndsInv'
  BY <1>1, <1>5 DEF sdb_qos_start, dumpVars
<1>6. ASSUME NEW a \in Agents, dump_refused(a) PROVE EndsInv'
  BY <1>1, <1>6 DEF dump_refused, dumpVars
<1>7. ASSUME NEW a \in Agents, NEW stop \in BOOLEAN, sdb_qos_dump_module(a, stop) PROVE EndsInv'
  BY <1>2, <1>7 DEF sdb_qos_dump_module
<1>8. ASSUME NEW a \in Agents, dump_other(a) PROVE EndsInv'
  BY <1>1, <1>8 DEF dump_other
<1>9. ASSUME NEW a \in Agents, dump_end(a) PROVE EndsInv'
  BY <1>2, <1>9 DEF dump_end
<1>10. ASSUME UNCHANGED vars PROVE EndsInv'
  BY <1>1, <1>10 DEF vars, dumpVars
<1> QED
  BY <1>3, <1>4, <1>5, <1>6, <1>7, <1>8, <1>9, <1>10 DEF Next, Dumping

\* The inductive invariant of the event table: the lists are intact, and every
\* dump has printed, in order, the events of its module it has passed, on lines
\* of bounded length.
THEOREM Inductive == Spec => []IInv
  BY TableInductive, EndsInit, EndsStep, PTL DEF Spec, IInv

\* The list of a bucket links exactly the events registered for it and not yet
\* dumped, however the modules that share it append and take events out.
THEOREM ListsIntact == Spec => []ListIntact
<1>1. TableInv => ListIntact
  BY DEF TableInv
<1> QED
  BY <1>1, TableInductive, PTL

\* The buffer sprintf writes the events of a dump to is never overrun.
THEOREM BufferFits == Spec => []OutputFits
<1>1. TableInv => OutputFits
  <2> SUFFICES ASSUME TableInv, NEW a \in Agents, pc[a] = "dump", event[a] # NIL
               PROVE  output_pos[a] + se_len[event[a]] + 1 <= output_size[a]
    BY DEF OutputFits
  <2>1. event[a] \in Ids
    BY DEF TableInv, TypeOK
  <2>2. /\ output_pos[a] \in Nat /\ output_size[a] \in Nat /\ se_len[event[a]] \in 0..LINE_MAX
        /\ output_pos[a] <= output_size[a] - 50
    BY <2>1 DEF TableInv, TypeOK, DumpInv
  <2>3. se_len[event[a]] \in Nat /\ se_len[event[a]] <= 49
    BY <2>2 DEF LINE_MAX, SDB_MODULE_NAME_SIZE
  <2> QED
    BY <2>2, <2>3
<1> QED
  BY <1>1, TableInductive, PTL

-----------------------------------------------------------------------------
(* The table implements one log per module.                                *)

Logs == [a \in Agents |-> LogOf(a)]

LEMMA LogInit == Init => Log!Init
<1> SUFFICES ASSUME Init PROVE Log!Init
  OBVIOUS
<1>1. ASSUME NEW a \in Agents PROVE LogOf(a) = {}
  <2>1. {e \in Ids : se_agent[e] = a} = {}
    BY IdsFacts DEF Init
  <2>2. Len(output[a]) = 0
    BY DEF Init
  <2>3. \A i \in 1..Len(output[a]) : FALSE
    BY <2>2
  <2> QED
    BY <2>1, <2>3 DEF LogOf
<1>2. count = 0
  BY DEF Init
<1>3. [a \in Agents |-> LogOf(a)] \in [Agents -> SUBSET (1..count)]
  BY <1>1
<1> QED
  BY <1>2, <1>3 DEF Init, Log!Init

\* A log stays the same when neither the events in memory nor the output of
\* the module change.
LEMMA LogKept ==
    ASSUME NEW a \in Agents, output'[a] = output[a],
           \A e \in Ids : se_agent'[e] = a <=> se_agent[e] = a
    PROVE  LogOf(a)' = LogOf(a)
  BY DEF LogOf

LEMMA LogRegister ==
    ASSUME TableInv, NEW a \in Agents, NEW n \in Lengths, register_event(a, n)
    PROVE  Log!Register(a)
<1> USE IdsFacts
<1>1. /\ qos_enabled[a] /\ count' = count + 1 /\ qos_enabled' = qos_enabled /\ out' = out
      /\ output' = output
  BY DEF register_event, dumpVars
<1>2. count + 1 \in Ids /\ \A e \in Ids : se_agent'[e] = IF e = count + 1 THEN a ELSE se_agent[e]
  <2>1. count + 1 \in Ids
    BY RegisterMembers
  <2> QED
    BY <2>1 DEF TableInv, TypeOK, register_event
<1>3. LogOf(a)' = LogOf(a) \cup {count + 1}
  <2>1. {e \in Ids : se_agent'[e] = a} = {e \in Ids : se_agent[e] = a} \cup {count + 1}
    BY <1>2
  <2> QED
    BY <1>1, <2>1 DEF LogOf
<1>4. ASSUME NEW c \in Agents, c # a PROVE LogOf(c)' = LogOf(c)
  <2>1. se_agent[count + 1] = NULL
    BY RegisterMembers
  <2>2. \A e \in Ids : se_agent'[e] = c <=> se_agent[e] = c
    BY <1>2, <1>4, <2>1
  <2> QED
    BY <1>1, <2>2, LogKept
<1>5. [c \in Agents |-> LogOf(c)'] = [[c \in Agents |-> LogOf(c)] EXCEPT ![a] = @ \cup {count + 1}]
  BY <1>3, <1>4
<1> QED
  BY <1>1, <1>5 DEF Log!Register

LEMMA LogOwn ==
    ASSUME TableInv, NEW a \in Agents, dump_own(a)
    PROVE  UNCHANGED Logs
<1> USE IdsFacts
<1>1. /\ event[a] \in Ids /\ se_agent[event[a]] = a
      /\ \A e \in Ids : se_agent'[e] = IF e = event[a] THEN NULL ELSE se_agent[e]
  BY OwnMembers DEF dump_own
<1>2. output'[a] = Append(output[a], event[a]) /\ output[a] \in Seq(Ids)
      /\ \A c \in Agents : c # a => output'[c] = output[c]
  BY DEF dump_own, TableInv, TypeOK
<1>3. DumpPart(a) /\ Place(a) = event[a] /\ pc[a] = "dump"
  BY DumpParts DEF TableInv, dump_own, Place
<1>4. {output'[a][i] : i \in 1..Len(output'[a])}
        = {output[a][i] : i \in 1..Len(output[a])} \cup {event[a]}
  <2>1. \A i \in 1..Len(output[a]) : output[a][i] < event[a]
    BY <1>3 DEF DumpPart
  <2>2. \A i, j \in 1..Len(output[a]) : i < j => output[a][i] < output[a][j]
    BY <1>3 DEF DumpPart
  <2> QED
    BY <1>1, <1>2, <2>1, <2>2, AppendFacts
<1>5. {e \in Ids : se_agent'[e] = a} = {e \in Ids : se_agent[e] = a} \ {event[a]}
  BY <1>1
<1>6. event[a] \in {e \in Ids : se_agent[e] = a}
  BY <1>1
<1>7. LogOf(a)' = LogOf(a)
  <2> DEFINE O == {output[a][i] : i \in 1..Len(output[a])}
             E == {e \in Ids : se_agent[e] = a}
             O2 == {output'[a][i] : i \in 1..Len(output'[a])}
             E2 == {e \in Ids : se_agent'[e] = a}
  <2>1. O2 = O \cup {event[a]} /\ E2 = E \ {event[a]} /\ event[a] \in E
    BY <1>4, <1>5, <1>6
  <2>2. LogOf(a) = E \cup O /\ LogOf(a)' = E2 \cup O2
    BY DEF LogOf
  <2> HIDE DEF O, E, O2, E2
  <2> QED
    BY <2>1, <2>2
<1>8. ASSUME NEW c \in Agents, c # a PROVE LogOf(c)' = LogOf(c)
  <2>1. \A e \in Ids : se_agent'[e] = c <=> se_agent[e] = c
    BY <1>1, <1>8
  <2> QED
    BY <1>2, <1>8, <2>1, LogKept
<1> QED
  BY <1>7, <1>8 DEF Logs

\* The instance has its own copy of Cardinality.
LEMMA SameCardinality == \A S : Log!Cardinality(S) = Cardinality(S)
  BY DEF Cardinality, Log!Cardinality

\* The elements of an increasing sequence are as many as its length.
LEMMA CountIncreasing ==
    ASSUME NEW s \in Seq(Nat), \A i, j \in 1..Len(s) : i < j => s[i] < s[j]
    PROVE  Cardinality({s[i] : i \in 1..Len(s)}) = Len(s)
<1> DEFINE S == {s[i] : i \in 1..Len(s)}
           f == [i \in 1..Len(s) |-> s[i]]
<1>1. \A i, j \in 1..Len(s) : s[i] = s[j] => i = j
  <2> SUFFICES ASSUME NEW i \in 1..Len(s), NEW j \in 1..Len(s), s[i] = s[j], i # j
               PROVE  FALSE
    OBVIOUS
  <2>1. s[i] \in Nat /\ s[j] \in Nat /\ i \in Nat /\ j \in Nat
    OBVIOUS
  <2> QED
    BY <2>1
<1>2. f \in Bijection(1..Len(s), S)
  BY <1>1, Zenon DEF Bijection, Injection, Surjection, IsInjective
<1> HIDE DEF S, f
<1>3. ExistsBijection(1..Len(s), S)
  BY <1>2, Zenon DEF ExistsBijection
<1>4. Cardinality(S) = Len(s)
  <2>1. Len(s) \in Nat
    OBVIOUS
  <2> QED
    BY <1>3, <2>1, FS_CountingElements
<1> QED
  BY <1>4 DEF S

\* The front of an increasing sequence lists the elements up to one of them.
LEMMA FrontLists ==
    ASSUME NEW s \in Seq(Nat), \A i, j \in 1..Len(s) : i < j => s[i] < s[j],
           NEW k \in 0..Len(s), NEW S, S = {s[i] : i \in 1..Len(s)}, \A e \in S : e > 0
    PROVE  \E t \in S \cup {0} : Log!Lists(SubSeq(s, 1, k), {e \in S : e <= t})
<1> DEFINE u == SubSeq(s, 1, k)
<1>1. Len(s) \in Nat /\ k \in Nat /\ k <= Len(s)
  OBVIOUS
<1>2. u \in Seq(Nat) /\ Len(u) = k /\ \A i \in 1..k : u[i] = s[i]
  BY <1>1
<1> HIDE DEF u
<1>3. \A i, j \in 1..Len(u) : i < j => u[i] < u[j]
  <2> SUFFICES ASSUME NEW i \in 1..Len(u), NEW j \in 1..Len(u), i < j PROVE u[i] < u[j]
    OBVIOUS
  <2>1. i \in 1..Len(s) /\ j \in 1..Len(s) /\ u[i] = s[i] /\ u[j] = s[j]
    BY <1>1, <1>2
  <2> QED
    BY <2>1
<1>4. CASE k = 0
  <2>1. {u[i] : i \in 1..Len(u)} = {}
    BY <1>2, <1>4
  <2>2. {e \in S : e <= 0} = {}
    <3>1. ASSUME NEW e \in S, e <= 0 PROVE FALSE
      <4>1. e \in Nat /\ e > 0
        OBVIOUS
      <4> QED
        BY <3>1, <4>1
    <3> QED
      BY <3>1, Zenon
  <2>3. Log!Lists(u, {e \in S : e <= 0})
    BY <1>2, <1>3, <2>1, <2>2 DEF Log!Lists
  <2> QED
    BY <2>3 DEF u
<1>5. CASE k # 0
  <2>1. k \in 1..Len(s) /\ s[k] \in S /\ s[k] \in Nat
    BY <1>1, <1>5
  <2>2. ASSUME NEW i \in 1..k PROVE u[i] \in S /\ u[i] <= s[k]
    <3>1. i \in 1..Len(s) /\ u[i] = s[i] /\ s[i] \in Nat
      BY <1>1, <1>2
    <3>2. s[i] <= s[k]
      BY <2>1, <3>1
    <3> QED
      BY <3>1, <3>2
  <2>3. ASSUME NEW e \in S, e <= s[k] PROVE \E i \in 1..k : u[i] = e
    <3>1. PICK i \in 1..Len(s) : s[i] = e
      OBVIOUS
    <3>2. i <= k
      <4>1. ASSUME i > k PROVE FALSE
        <5>1. s[k] < s[i] /\ s[i] \in Nat
          BY <2>1, <4>1
        <5> QED
          BY <2>1, <2>3, <3>1, <5>1
      <4> QED
        BY <1>1, <4>1
    <3> QED
      BY <1>1, <1>2, <3>1, <3>2
  <2>4. {u[i] : i \in 1..Len(u)} = {e \in S : e <= s[k]}
    <3>1. Len(u) = k
      BY <1>2
    <3>2. ASSUME NEW e \in {u[i] : i \in 1..k} PROVE e \in S /\ e <= s[k]
      BY <2>2
    <3> HIDE DEF u
    <3> QED
      BY <2>3, <3>1, <3>2, Zenon
  <2>5. Log!Lists(u, {e \in S : e <= s[k]})
    BY <1>2, <1>3, <2>4 DEF Log!Lists
  <2> QED
    BY <2>1, <2>5 DEF u
<1> QED
  BY <1>4, <1>5

\* Of at most Whole lines none is cut off.
LEMMA WholeKept ==
    ASSUME TableInv, EndsInv, NEW a \in Agents, NEW k \in 0..Len(output[a]),
           mcs_ok_packet_data(a, k), Len(output[a]) <= Whole
    PROVE  k = Len(output[a])
<1> DEFINE p == output_pos[a]
           n == Len(output[a])
<1>1. p \in Nat /\ n \in Nat /\ k \in 0..n
  BY DEF TableInv, TypeOK
<1>2. p <= 49 * n /\ ends[a] \in Seq(Nat) /\ Len(ends[a]) = n
      /\ \A i \in 1..n : ends[a][i] <= p
  BY DEF EndsInv, LINE_MAX, SDB_MODULE_NAME_SIZE
<1>3. SizeRange \in Nat /\ n <= (SizeRange - 2) \div 49
  BY QosAssumption DEF Whole, LINE_MAX, SDB_MODULE_NAME_SIZE
<1>4. \A i \in 1..n : i <= k <=> ends[a][i] <= (p + 1) % SizeRange
  BY DEF mcs_ok_packet_data
<1> HIDE DEF p, n
<1>5. p + 1 < SizeRange
  BY <1>1, <1>2, <1>3
<1>6. (p + 1) % SizeRange = p + 1
  BY <1>1, <1>3, <1>5
<1>7. ASSUME n # 0 PROVE k = n
  <2>1. n \in 1..n /\ ends[a][n] <= p /\ ends[a][n] \in Nat
    BY <1>1, <1>2, <1>7
  <2>2. ends[a][n] <= p + 1
    BY <1>1, <2>1
  <2>3. n <= k
    BY <1>4, <1>6, <2>1, <2>2
  <2> QED
    BY <1>1, <2>3
<1> QED
  BY <1>1, <1>7 DEF n

LEMMA LogDump ==
    ASSUME TableInv, EndsInv, NEW a \in Agents, dump_end(a)
    PROVE  Log!Dump(a)
<1> USE IdsFacts
<1>0. PICK k \in 0..Len(output[a]) :
        mcs_ok_packet_data(a, k) /\ out' = [out EXCEPT ![a] = SubSeq(output[a], 1, k)]
  BY DEF dump_end
<1>1. /\ qos_enabled[a] /\ count' = count /\ se_agent' = se_agent
      /\ qos_enabled' = [qos_enabled EXCEPT ![a] = ~stopping[a]]
      /\ output'[a] = <<>> /\ \A c \in Agents : c # a => output'[c] = output[c]
  BY DEF dump_end, TableInv, TypeOK, DumpInv
<1>b. out'[a] = SubSeq(output[a], 1, k) /\ out' = [out EXCEPT ![a] = out'[a]]
  BY <1>0 DEF TableInv, TypeOK
<1>a. (~stopping[a]) \in BOOLEAN
  OBVIOUS
<1>2. DumpPart(a) /\ pc[a] = "dump" /\ Place(a) = MaxEvents + 1
  BY DumpParts DEF TableInv, dump_end, Place
<1>3. {e \in Ids : se_agent[e] = a} = {}
  <2>1. ASSUME NEW e \in Ids, se_agent[e] = a PROVE FALSE
    <3>1. e >= MaxEvents + 1
      BY <1>2, <2>1 DEF DumpPart
    <3>2. e \in Nat /\ e < MaxEvents + 1
      OBVIOUS
    <3> QED
      BY <3>1, <3>2
  <2> QED
    BY <2>1
<1>4. LogOf(a) = {output[a][i] : i \in 1..Len(output[a])}
  BY <1>3 DEF LogOf
<1>5. LogOf(a)' = {}
  <2>1. Len(output'[a]) = 0
    BY <1>1
  <2>2. \A i \in 1..Len(output'[a]) : FALSE
    BY <2>1
  <2> QED
    BY <1>1, <1>3, <2>2 DEF LogOf
<1>6. ASSUME NEW c \in Agents, c # a PROVE LogOf(c)' = LogOf(c)
  BY <1>1, <1>6, LogKept
<1>7. [c \in Agents |-> LogOf(c)'] = [[c \in Agents |-> LogOf(c)] EXCEPT ![a] = {}]
  BY <1>5, <1>6
<1>8. Log!Lists(output[a], LogOf(a))
  <2>1. output[a] \in Seq(Nat)
    <3>1. output[a] \in Seq(Ids)
      BY DEF TableInv, TypeOK
    <3>2. Ids \subseteq Nat
      OBVIOUS
    <3> QED
      BY <3>1, <3>2, SeqMonotonic
  <2>2. \A i, j \in 1..Len(output[a]) : i < j => output[a][i] < output[a][j]
    BY <1>2 DEF DumpPart
  <2> QED
    BY <1>4, <2>1, <2>2 DEF Log!Lists
<1>9. [c \in Agents |-> LogOf(c)][a] = LogOf(a)
  OBVIOUS
<1>10. \/ Log!Lists(out'[a], LogOf(a))
       \/ /\ Cardinality(LogOf(a)) > Whole
          /\ \E t \in LogOf(a) \cup {0} : Log!Lists(out'[a], {e \in LogOf(a) : e <= t})
  <2> DEFINE s == output[a]
  <2>1. s \in Seq(Nat) /\ s \in Seq(Ids) /\ \A i, j \in 1..Len(s) : i < j => s[i] < s[j]
    BY <1>8 DEF Log!Lists, TableInv, TypeOK
  <2>2. Len(s) \in Nat /\ Whole \in Int
    BY <2>1, QosAssumption DEF Whole, LINE_MAX, SDB_MODULE_NAME_SIZE
  <2>3. CASE k = Len(s)
    <3>1. SubSeq(s, 1, Len(s)) = s
      BY <2>1
    <3> QED
      BY <1>b, <1>8, <2>3, <3>1
  <2>4. CASE k # Len(s)
    <3>1. Len(s) > Whole
      BY <1>0, <2>2, <2>4, WholeKept
    <3>2. Cardinality(LogOf(a)) = Len(s)
      BY <1>4, <2>1, CountIncreasing
    <3>3. \A e \in LogOf(a) : e > 0
      <4>1. \A i \in 1..Len(s) : s[i] \in Ids
        BY <2>1
      <4> QED
        BY <1>4, <4>1
    <3>4. \E t \in LogOf(a) \cup {0} : Log!Lists(SubSeq(s, 1, k), {e \in LogOf(a) : e <= t})
      <4> HIDE DEF s
      <4>1. k \in 0..Len(s) /\ LogOf(a) = {s[i] : i \in 1..Len(s)}
        BY <1>4 DEF s
      <4> QED
        BY <2>1, <3>3, <4>1, FrontLists
    <3> QED
      BY <1>b, <3>1, <3>2, <3>4
  <2> QED
    BY <2>3, <2>4
<1> QED
  <2>1. \E on \in BOOLEAN : qos_enabled' = [qos_enabled EXCEPT ![a] = on]
    BY <1>1, <1>a
  <2>2. out' = [out EXCEPT ![a] = out'[a]]
    BY <1>b
  <2>3. \/ Log!Lists(out'[a], [c \in Agents |-> LogOf(c)][a])
        \/ /\ Log!Cardinality([c \in Agents |-> LogOf(c)][a]) > Whole
           /\ \E t \in [c \in Agents |-> LogOf(c)][a] \cup {0} :
                Log!Lists(out'[a], {e \in [c \in Agents |-> LogOf(c)][a] : e <= t})
    BY <1>9, <1>10, SameCardinality, Zenon
  <2> QED
    BY <1>1, <1>7, <2>1, <2>2, <2>3, Zenon DEF Log!Dump

LEMMA LogNext == IInv /\ [Next]_vars => [Log!Next]_Log!vars
<1> SUFFICES ASSUME TableInv, EndsInv, [Next]_vars PROVE [Log!Next]_Log!vars
  BY DEF IInv
<1>1. ASSUME NEW a \in Agents, NEW n \in Lengths, register_event(a, n) PROVE Log!Next
  BY <1>1, LogRegister DEF Log!Next
<1>2. ASSUME NEW a \in Agents, sdb_qos_start(a) PROVE Log!Next
  <2>1. count' = count /\ out' = out /\ qos_enabled' = [qos_enabled EXCEPT ![a] = TRUE]
        /\ se_agent' = se_agent /\ output' = output
    BY <1>2 DEF sdb_qos_start, listVars, dumpVars
  <2>2. [c \in Agents |-> LogOf(c)'] = [c \in Agents |-> LogOf(c)]
    BY <2>1 DEF LogOf
  <2>3. Log!Start(a)
    BY <2>1, <2>2 DEF Log!Start
  <2> QED
    BY <2>3 DEF Log!Next
<1>3. ASSUME NEW a \in Agents, dump_refused(a) PROVE Log!Next
  <2>1. count' = count /\ out' = [out EXCEPT ![a] = NULL] /\ qos_enabled' = qos_enabled
        /\ ~qos_enabled[a] /\ se_agent' = se_agent /\ output' = output
    BY <1>3 DEF dump_refused, listVars, dumpVars
  <2>2. [c \in Agents |-> LogOf(c)'] = [c \in Agents |-> LogOf(c)]
    BY <2>1 DEF LogOf
  <2>3. Log!Refuse(a)
    BY <2>1, <2>2 DEF Log!Refuse
  <2> QED
    BY <2>3 DEF Log!Next
<1>4. ASSUME NEW a \in Agents, NEW stop \in BOOLEAN, sdb_qos_dump_module(a, stop)
      PROVE  UNCHANGED Log!vars
  <2>1. count' = count /\ out' = out /\ qos_enabled' = qos_enabled /\ se_agent' = se_agent
    BY <1>4 DEF sdb_qos_dump_module, listVars
  <2>2. ASSUME NEW c \in Agents PROVE output'[c] = output[c]
    <3>1. pc[a] = "idle" /\ output[a] = <<>>
      BY <1>4 DEF sdb_qos_dump_module, TableInv, DumpInv
    <3> QED
      BY <1>4, <3>1 DEF sdb_qos_dump_module, TableInv, TypeOK
  <2>3. ASSUME NEW c \in Agents PROVE LogOf(c)' = LogOf(c)
    BY <2>1, <2>2, LogKept
  <2> QED
    BY <2>1, <2>3 DEF Log!vars
<1>5. ASSUME NEW a \in Agents, dump_own(a) PROVE UNCHANGED Log!vars
  <2>1. count' = count /\ out' = out /\ qos_enabled' = qos_enabled
    BY <1>5 DEF dump_own
  <2> QED
    BY <1>5, <2>1, LogOwn DEF Logs, Log!vars
<1>6. ASSUME NEW a \in Agents, dump_other(a) PROVE UNCHANGED Log!vars
  <2>1. count' = count /\ out' = out /\ qos_enabled' = qos_enabled /\ se_agent' = se_agent
        /\ output' = output
    BY <1>6 DEF dump_other, listVars
  <2> QED
    BY <2>1 DEF Log!vars, LogOf
<1>7. ASSUME NEW a \in Agents, dump_end(a) PROVE Log!Next
  BY <1>7, LogDump DEF Log!Next
<1>8. ASSUME UNCHANGED vars PROVE UNCHANGED Log!vars
  BY <1>8 DEF vars, listVars, dumpVars, Log!vars, LogOf
<1> QED
  BY <1>1, <1>2, <1>3, <1>4, <1>5, <1>6, <1>7, <1>8 DEF Next, Dumping

\* The event table implements one log per module: a dump returns all the
\* module has registered since its last one, in order, and nothing else, as long
\* as these are at most Whole (1337 in the code); of more it returns the oldest,
\* because the size of the answer is an unsigned short.
THEOREM ImplementsLog == Spec => LogSpec
<1>1. Init => Log!Init
  BY LogInit
<1>2. IInv /\ [Next]_vars => [Log!Next]_Log!vars
  BY LogNext
<1> QED
  BY <1>1, <1>2, Inductive, PTL DEF Spec, LogSpec, Log!Spec

=============================================================================
