--------------------------- MODULE SdbUsb_proofs ----------------------------
(***************************************************************************)
(* The lists of the bridge are priority queues, and an answer of the       *)
(* device finds its request.  An inductive invariant says of each list     *)
(* which elements it is made of, in order (Chains): the links lead through *)
(* them in both directions, and the packets are those of the queue, except *)
(* that the element of a push in progress stands behind its place.  Another *)
(* one gives every id on its way to the device and back a request of its   *)
(* own (Matched).                                                          *)
(***************************************************************************)
EXTENDS SdbUsb, SdbQueue_proofs, FiniteSetTheorems

-----------------------------------------------------------------------------
(* Following the links.                                                    *)

Distinct(es) == \A i, j \in 1..Len(es) : es[i] = es[j] => i = j

\* The first k elements of a sequence.
FirstOf(es, k) == [i \in 1..k |-> es[i]]

LEMMA ElemsFinite ==
    /\ Cardinality(Elems) \in Nat /\ IsFiniteSet(Elems) /\ NULL \notin Elems
    /\ Elems \subseteq Nat
<1>1. Cardinality(Requests) \in Nat
  BY UsbAssumption, FS_CardinalityType
<1>2. 2 * Cardinality(Requests) \in Int /\ 1 \in Int
  BY <1>1
<1>3. IsFiniteSet(Elems)
  BY <1>2, FS_Interval DEF Elems
<1>4. Cardinality(Elems) \in Nat
  BY <1>3, FS_CardinalityType
<1>5. Elems \subseteq Nat
  BY <1>1 DEF Elems
<1> QED BY <1>3, <1>4, <1>5, UsbAssumption

\* Elements in a list without repetition are no more than there are.
LEMMA DistinctLength ==
    ASSUME NEW es \in Seq(Elems), Distinct(es)
    PROVE  Len(es) <= Cardinality(Elems)
<1>1. es \in Injection(1..Len(es), Elems)
  BY DEF Injection, IsInjective, Distinct
<1>2. Cardinality(1..Len(es)) <= Cardinality(Elems)
  BY <1>1, ElemsFinite, FS_Injection
<1>3. Cardinality(1..Len(es)) = Len(es)
  <2>1. 1 \in Int /\ Len(es) \in Int /\ Len(es) >= 0
    OBVIOUS
  <2>2. Cardinality(1..Len(es)) = IF 1 > Len(es) THEN 0 ELSE Len(es) - 1 + 1
    BY <2>1, FS_Interval
  <2> QED BY <2>1, <2>2
<1> QED BY <1>2, <1>3

\* Walk gives the elements the links lead through.
LEMMA WalkLinked ==
    ASSUME NEW es \in Seq(Elems), Distinct(es), NEW start, NEW step,
           start = IF Len(es) = 0 THEN NULL ELSE es[1],
           \A i \in 1..Len(es) : step[es[i]] = IF i = Len(es) THEN NULL ELSE es[i + 1]
    PROVE  Walk(start, step) = es
<1> DEFINE N == Cardinality(Elems)
           From(s, n) == IF n = 1 THEN start ELSE step[Last(s)]
           Turn(s, n) == IF n = 0 \/ Len(s) < n - 1 \/ From(s, n) = NULL THEN s
                         ELSE Append(s, From(s, n))
           Body(w, n) == Turn(IF n = 0 THEN <<>> ELSE w[n - 1], n)
           g == [n \in 0..N |-> FirstOf(es, IF n <= Len(es) THEN n ELSE Len(es))]
           v == CHOOSE w : w = [n \in 0..N |-> Body(w, n)]
<1>1. Walk(start, step) = v[N]
  BY DEF Walk
<1>2. N \in Nat /\ Len(es) <= N /\ NULL \notin Elems
  BY ElemsFinite, DistinctLength
<1> HIDE DEF N
<1>3. ASSUME NEW k \in 0..Len(es)
      PROVE  /\ FirstOf(es, k) \in Seq(Elems) /\ Len(FirstOf(es, k)) = k
             /\ \A i \in 1..k : FirstOf(es, k)[i] = es[i]
  BY DEF FirstOf
<1>4. FirstOf(es, 0) = <<>>
  BY DEF FirstOf
<1>5. ASSUME NEW k \in 1..Len(es) PROVE Append(FirstOf(es, k - 1), es[k]) = FirstOf(es, k)
  BY <1>3 DEF FirstOf
<1>6. ASSUME NEW n \in 1..N
      PROVE  Turn(g[n - 1], n) = g[n]
  <2>1. CASE n <= Len(es)
    <3>1. g[n - 1] = FirstOf(es, n - 1) /\ g[n] = FirstOf(es, n)
      BY <1>2, <2>1
    <3>2. Len(FirstOf(es, n - 1)) = n - 1
      BY <1>3, <2>1
    <3>3. From(FirstOf(es, n - 1), n) = es[n]
      <4>1. CASE n = 1
        BY <2>1, <4>1
      <4>2. CASE n # 1
        <5>1. Last(FirstOf(es, n - 1)) = es[n - 1]
          BY <1>3, <2>1, <4>2 DEF Last
        <5> QED BY <2>1, <4>2, <5>1
      <4> QED BY <4>1, <4>2
    <3>4. es[n] # NULL
      BY <1>2, <2>1
    <3>5. Append(FirstOf(es, n - 1), es[n]) = FirstOf(es, n)
      BY <1>5, <2>1
    <3> HIDE DEF g, From
    <3>6. Turn(FirstOf(es, n - 1), n) = FirstOf(es, n)
      BY <3>2, <3>3, <3>4, <3>5
    <3> QED BY <3>1, <3>6
  <2>2. CASE n = Len(es) + 1
    <3>1. g[n - 1] = FirstOf(es, n - 1) /\ g[n] = FirstOf(es, n - 1)
      BY <1>2, <2>2
    <3>2. From(FirstOf(es, n - 1), n) = NULL
      <4>1. CASE n = 1
        BY <2>2, <4>1
      <4>2. CASE n # 1
        <5>1. Last(FirstOf(es, n - 1)) = es[n - 1]
          BY <1>3, <2>2, <4>2 DEF Last
        <5> QED BY <2>2, <4>2, <5>1
      <4> QED BY <4>1, <4>2
    <3> HIDE DEF g, From
    <3> QED BY <3>1, <3>2
  <2>3. CASE n > Len(es) + 1
    <3>1. g[n - 1] = FirstOf(es, Len(es)) /\ g[n] = FirstOf(es, Len(es))
      BY <1>2, <2>3
    <3>2. Len(FirstOf(es, Len(es))) < n - 1
      BY <1>3, <2>3
    <3> HIDE DEF g, From
    <3> QED BY <3>1, <3>2
  <2> QED BY <2>1, <2>2, <2>3
<1>7. g[0] = <<>>
  BY <1>2, <1>4
<1>8. g = [n \in 0..N |-> Body(g, n)]
  <2>1. \A n \in 0..N : Body(g, n) = g[n]
    <3> HIDE DEF g
    <3> QED BY <1>2, <1>6, <1>7
  <2>2. g = [n \in 0..N |-> g[n]]
    OBVIOUS
  <2> HIDE DEF g, Body
  <2> QED BY <2>1, <2>2
<1>9. v = [n \in 0..N |-> Body(v, n)]
  <2> HIDE DEF g, Body
  <2> QED BY <1>8
<1> HIDE DEF g, v
<1>10. \A n \in 0..N : v[n] = g[n]
  <2> DEFINE T == {n \in 0..N : v[n] # g[n]}
  <2> SUFFICES ASSUME T # {} PROVE FALSE
    OBVIOUS
  <2>1. T \subseteq Nat
    BY <1>2
  <2>2. PICK n \in T : \A k \in T : n <= k
    <3> HIDE DEF T
    <3> QED BY <2>1, LeastNatural
  <2>3. v[n] = Body(v, n)
    BY <1>9
  <2>4. n # 0
    BY <1>7, <2>2, <2>3
  <2>5. n - 1 \in 0..N /\ n - 1 \notin T
    BY <1>2, <2>2, <2>4
  <2>6. v[n - 1] = g[n - 1]
    BY <2>5
  <2> QED BY <1>6, <2>2, <2>3, <2>4, <2>6
<1>11. g[N] = es
  BY <1>2, <1>3 DEF g, FirstOf
<1> QED BY <1>1, <1>2, <1>10, <1>11

-----------------------------------------------------------------------------
(* Changing the links.                                                     *)

\* The links of a list: its first and last element, and what next and prev are
\* at its elements.
Linked(es, f, l, nx, pv) ==
    /\ f = IF Len(es) = 0 THEN NULL ELSE es[1]
    /\ l = IF Len(es) = 0 THEN NULL ELSE es[Len(es)]
    /\ \A i \in 1..Len(es) : nx[es[i]] = IF i = Len(es) THEN NULL ELSE es[i + 1]
    /\ \A i \in 1..Len(es) : pv[es[i]] = IF i = 1 THEN NULL ELSE es[i - 1]

\* The element at place p has changed places with the one before it.
Swapped(es, p) ==
    [i \in 1..Len(es) |-> IF i = p - 1 THEN es[p] ELSE IF i = p THEN es[p - 1] ELSE es[i]]

\* What the first statements of sdb_queue_push_nolock do to the links.
Appends(e, f, l, nx, pv, f2, nx2, pv2) ==
    /\ f2 = IF f = NULL THEN e ELSE f
    /\ \A x \in Elems : nx2[x] = IF f # NULL /\ x = l THEN e ELSE IF x = e THEN NULL ELSE nx[x]
    /\ \A x \in Elems : pv2[x] = IF x = e THEN (IF f = NULL THEN NULL ELSE l) ELSE pv[x]

LEMMA LinkedAppend ==
    ASSUME NEW es \in Seq(Elems), Distinct(es), NEW f, NEW l, NEW nx, NEW pv,
           Linked(es, f, l, nx, pv),
           NEW e \in Elems, \A i \in 1..Len(es) : es[i] # e,
           NEW nx2, NEW pv2, NEW f2, Appends(e, f, l, nx, pv, f2, nx2, pv2)
    PROVE  /\ Append(es, e) \in Seq(Elems) /\ Distinct(Append(es, e))
           /\ Linked(Append(es, e), f2, e, nx2, pv2)
<1> USE DEF Appends
<1> DEFINE s == Append(es, e)  n == Len(es)
<1>1. /\ s \in Seq(Elems) /\ Len(s) = n + 1 /\ n \in Nat
      /\ \A i \in 1..n : s[i] = es[i] /\ es[i] \in Elems
      /\ s[n + 1] = e
  OBVIOUS
<1>2. NULL \notin Elems
  BY ElemsFinite
<1>3. f = NULL <=> n = 0
  BY <1>1, <1>2 DEF Linked
<1> HIDE DEF s
<1>4. Distinct(s)
  BY <1>1 DEF Distinct
<1>5. \A i \in 1..(n + 1) : nx2[s[i]] = IF i = n + 1 THEN NULL ELSE s[i + 1]
  <2> SUFFICES ASSUME NEW i \in 1..(n + 1)
               PROVE  nx2[s[i]] = IF i = n + 1 THEN NULL ELSE s[i + 1]
    OBVIOUS
  <2>1. CASE i = n + 1
    BY <1>1, <1>3, <2>1 DEF Linked
  <2>2. CASE i = n
    BY <1>1, <1>3, <2>2 DEF Linked
  <2>3. CASE i < n
    <3>1. es[i] # l
      BY <1>1, <2>3 DEF Linked, Distinct
    <3>2. nx2[es[i]] = nx[es[i]]
      BY <1>1, <2>3, <3>1
    <3> QED BY <1>1, <2>3, <3>2 DEF Linked
  <2> QED BY <1>1, <2>1, <2>2, <2>3
<1>6. \A i \in 1..(n + 1) : pv2[s[i]] = IF i = 1 THEN NULL ELSE s[i - 1]
  <2> SUFFICES ASSUME NEW i \in 1..(n + 1)
               PROVE  pv2[s[i]] = IF i = 1 THEN NULL ELSE s[i - 1]
    OBVIOUS
  <2>1. CASE i = n + 1
    BY <1>1, <1>3, <2>1 DEF Linked
  <2>2. CASE i # n + 1
    <3>1. i \in 1..n /\ es[i] # e
      BY <1>1, <2>2
    <3>2. pv2[es[i]] = pv[es[i]] /\ pv[es[i]] = IF i = 1 THEN NULL ELSE es[i - 1]
      BY <1>1, <3>1 DEF Linked
    <3> QED BY <1>1, <3>1, <3>2
  <2> QED BY <2>1, <2>2
<1> QED BY <1>1, <1>3, <1>4, <1>5, <1>6 DEF Linked, s

\* What one turn of the loop of swaps does to the links.
Swaps(es, p, f, l, nx, pv, f2, l2, nx2, pv2) ==
    /\ f2 = IF pv[es[p - 1]] = NULL THEN es[p] ELSE f
    /\ l2 = IF nx[es[p]] = NULL THEN es[p - 1] ELSE l
    /\ \A x \in Elems : nx2[x] = IF x = es[p] THEN es[p - 1] ELSE
                                  IF x = es[p - 1] THEN nx[es[p]] ELSE
                                  IF x = pv[es[p - 1]] THEN es[p] ELSE nx[x]
    /\ \A x \in Elems : pv2[x] = IF x = es[p] THEN pv[es[p - 1]] ELSE
                                  IF x = es[p - 1] THEN es[p] ELSE
                                  IF x = nx[es[p]] THEN es[p - 1] ELSE pv[x]

LEMMA LinkedSwap ==
    ASSUME NEW es \in Seq(Elems), Distinct(es), NEW f, NEW l, NEW nx, NEW pv,
           Linked(es, f, l, nx, pv),
           NEW p \in 2..Len(es), NEW nx2, NEW pv2, NEW f2, NEW l2,
           Swaps(es, p, f, l, nx, pv, f2, l2, nx2, pv2)
    PROVE  /\ Swapped(es, p) \in Seq(Elems) /\ Distinct(Swapped(es, p))
           /\ Linked(Swapped(es, p), f2, l2, nx2, pv2)
<1> USE DEF Swaps
<1> DEFINE s == Swapped(es, p)  n == Len(es)
<1>1. /\ s \in Seq(Elems) /\ Len(s) = n /\ n \in Nat /\ p \in 2..n
      /\ \A i \in 1..n : s[i] = IF i = p - 1 THEN es[p] ELSE IF i = p THEN es[p - 1] ELSE es[i]
      /\ \A i \in 1..n : es[i] \in Elems
  BY DEF Swapped
<1>2. NULL \notin Elems
  BY ElemsFinite
<1> HIDE DEF s
<1>3. Distinct(s)
  <2> SUFFICES ASSUME NEW i \in 1..n, NEW j \in 1..n, s[i] = s[j] PROVE i = j
    BY <1>1 DEF Distinct
  <2> DEFINE h(k) == IF k = p - 1 THEN p ELSE IF k = p THEN p - 1 ELSE k
  <2>1. \A k \in 1..n : h(k) \in 1..n /\ s[k] = es[h(k)]
    BY <1>1
  <2>2. h(i) = h(j)
    <3>1. h(i) \in 1..n /\ h(j) \in 1..n /\ es[h(i)] = es[h(j)]
      BY <2>1
    <3> HIDE DEF h
    <3> QED BY <3>1 DEF Distinct
  <2> QED BY <2>2
<1>4. /\ nx[es[p]] = IF p = n THEN NULL ELSE es[p + 1]
      /\ pv[es[p - 1]] = IF p = 2 THEN NULL ELSE es[p - 2]
  BY <1>1 DEF Linked
<1>5. \A i \in 1..n : nx2[s[i]] = IF i = n THEN NULL ELSE s[i + 1]
  <2> SUFFICES ASSUME NEW i \in 1..n PROVE nx2[s[i]] = IF i = n THEN NULL ELSE s[i + 1]
    OBVIOUS
  <2>1. CASE i = p - 1
    BY <1>1, <2>1
  <2>2. CASE i = p
    <3>1. es[p - 1] # es[p]
      BY <1>1 DEF Distinct
    <3> QED BY <1>1, <1>4, <2>2, <3>1
  <2>3. CASE i = p - 2
    <3>1. es[i] # es[p] /\ es[i] # es[p - 1] /\ pv[es[p - 1]] = es[i]
      BY <1>1, <1>4, <2>3 DEF Distinct
    <3>2. nx2[es[i]] = es[p]
      BY <1>1, <3>1
    <3> QED BY <1>1, <2>3, <3>2
  <2>4. CASE i \notin {p - 2, p - 1, p}
    <3>1. es[i] # es[p] /\ es[i] # es[p - 1] /\ pv[es[p - 1]] # es[i]
      BY <1>1, <1>2, <1>4, <2>4 DEF Distinct
    <3>2. nx2[es[i]] = nx[es[i]]
      BY <1>1, <3>1
    <3>3. nx[es[i]] = IF i = n THEN NULL ELSE es[i + 1]
      BY DEF Linked
    <3> QED BY <1>1, <2>4, <3>2, <3>3
  <2> QED BY <2>1, <2>2, <2>3, <2>4
<1>6. \A i \in 1..n : pv2[s[i]] = IF i = 1 THEN NULL ELSE s[i - 1]
  <2> SUFFICES ASSUME NEW i \in 1..n PROVE pv2[s[i]] = IF i = 1 THEN NULL ELSE s[i - 1]
    OBVIOUS
  <2>1. CASE i = p - 1
    <3>1. s[i] = es[p] /\ pv2[es[p]] = pv[es[p - 1]]
      BY <1>1, <2>1
    <3>2. p # 2 => s[p - 2] = es[p - 2]
      BY <1>1
    <3> QED BY <1>4, <2>1, <3>1, <3>2
  <2>2. CASE i = p
    <3>1. es[p - 1] # es[p]
      BY <1>1 DEF Distinct
    <3> QED BY <1>1, <2>2, <3>1
  <2>3. CASE i = p + 1
    <3>1. es[i] # es[p] /\ es[i] # es[p - 1] /\ nx[es[p]] = es[i]
      BY <1>1, <1>4, <2>3 DEF Distinct
    <3>2. pv2[es[i]] = es[p - 1]
      BY <1>1, <3>1
    <3> QED BY <1>1, <2>3, <3>2
  <2>4. CASE i \notin {p + 1, p - 1, p}
    <3>1. es[i] # es[p] /\ es[i] # es[p - 1] /\ nx[es[p]] # es[i]
      BY <1>1, <1>2, <1>4, <2>4 DEF Distinct
    <3>2. pv2[es[i]] = pv[es[i]]
      BY <1>1, <3>1
    <3>3. pv[es[i]] = IF i = 1 THEN NULL ELSE es[i - 1]
      BY DEF Linked
    <3> QED BY <1>1, <2>4, <3>2, <3>3
  <2> QED BY <2>1, <2>2, <2>3, <2>4
<1>7. (IF pv[es[p - 1]] = NULL THEN es[p] ELSE f) = s[1]
  <2>1. f = es[1]
    BY <1>1 DEF Linked
  <2> QED BY <1>1, <1>2, <1>4, <2>1
<1>8. (IF nx[es[p]] = NULL THEN es[p - 1] ELSE l) = s[n]
  <2>1. l = es[n]
    BY <1>1 DEF Linked
  <2> QED BY <1>1, <1>2, <1>4, <2>1
<1> QED BY <1>1, <1>3, <1>5, <1>6, <1>7, <1>8 DEF Linked, s

\* What sdb_queue_delete does to the links.
Deletes(es, m, f, l, nx, pv, f2, l2, nx2, pv2) ==
    /\ f2 = IF pv[es[m]] = NULL THEN nx[es[m]] ELSE f
    /\ l2 = IF nx[es[m]] = NULL THEN pv[es[m]] ELSE l
    /\ \A x \in Elems : nx2[x] = IF x = pv[es[m]] THEN nx[es[m]] ELSE nx[x]
    /\ \A x \in Elems : pv2[x] = IF x = nx[es[m]] THEN pv[es[m]] ELSE pv[x]

LEMMA LinkedDelete ==
    ASSUME NEW es \in Seq(Elems), Distinct(es), NEW f, NEW l, NEW nx, NEW pv,
           Linked(es, f, l, nx, pv),
           NEW m \in 1..Len(es), NEW nx2, NEW pv2, NEW f2, NEW l2,
           Deletes(es, m, f, l, nx, pv, f2, l2, nx2, pv2)
    PROVE  /\ Delete(es, m) \in Seq(Elems) /\ Distinct(Delete(es, m))
           /\ Linked(Delete(es, m), f2, l2, nx2, pv2)
<1> USE DEF Deletes
<1> DEFINE s == Delete(es, m)  n == Len(es)
<1>1. /\ s \in Seq(Elems) /\ Len(s) = n - 1 /\ n \in Nat /\ m \in 1..n
      /\ \A i \in 1..(n - 1) : s[i] = IF i < m THEN es[i] ELSE es[i + 1]
      /\ \A i \in 1..n : es[i] \in Elems
  BY DeleteElements DEF Delete
<1>2. NULL \notin Elems
  BY ElemsFinite
<1> HIDE DEF s
<1>3. Distinct(s)
  <2> SUFFICES ASSUME NEW i \in 1..(n - 1), NEW j \in 1..(n - 1), s[i] = s[j] PROVE i = j
    BY <1>1 DEF Distinct
  <2> DEFINE h(k) == IF k < m THEN k ELSE k + 1
  <2>1. \A k \in 1..(n - 1) : h(k) \in 1..n /\ s[k] = es[h(k)]
    BY <1>1
  <2>2. h(i) = h(j)
    <3>1. h(i) \in 1..n /\ h(j) \in 1..n /\ es[h(i)] = es[h(j)]
      BY <2>1
    <3> HIDE DEF h
    <3> QED BY <3>1 DEF Distinct
  <2> QED BY <2>2
<1>4. /\ nx[es[m]] = IF m = n THEN NULL ELSE es[m + 1]
      /\ pv[es[m]] = IF m = 1 THEN NULL ELSE es[m - 1]
  BY <1>1 DEF Linked
<1>5. \A i \in 1..(n - 1) : nx2[s[i]] = IF i = n - 1 THEN NULL ELSE s[i + 1]
  <2> SUFFICES ASSUME NEW i \in 1..(n - 1) PROVE nx2[s[i]] = IF i = n - 1 THEN NULL ELSE s[i + 1]
    OBVIOUS
  <2>1. CASE i = m - 1
    <3>1. nx2[es[i]] = nx[es[m]]
      BY <1>1, <1>4, <2>1
    <3> QED BY <1>1, <1>4, <2>1, <3>1
  <2>2. CASE i < m - 1
    <3>1. pv[es[m]] # es[i]
      BY <1>1, <1>2, <1>4, <2>2 DEF Distinct
    <3>2. nx2[es[i]] = nx[es[i]]
      BY <1>1, <2>2, <3>1
    <3>3. nx[es[i]] = es[i + 1]
      BY <1>1, <2>2 DEF Linked
    <3> QED BY <1>1, <2>2, <3>2, <3>3
  <2>3. CASE i >= m
    <3>1. pv[es[m]] # es[i + 1]
      BY <1>1, <1>2, <1>4, <2>3 DEF Distinct
    <3>2. nx2[es[i + 1]] = nx[es[i + 1]] /\ nx[es[i + 1]] = IF i + 1 = n THEN NULL ELSE es[i + 2]
      BY <1>1, <2>3, <3>1 DEF Linked
    <3> QED BY <1>1, <2>3, <3>2
  <2> QED BY <1>1, <2>1, <2>2, <2>3
<1>6. \A i \in 1..(n - 1) : pv2[s[i]] = IF i = 1 THEN NULL ELSE s[i - 1]
  <2> SUFFICES ASSUME NEW i \in 1..(n - 1) PROVE pv2[s[i]] = IF i = 1 THEN NULL ELSE s[i - 1]
    OBVIOUS
  <2>1. CASE i = m
    <3>1. pv2[es[i + 1]] = pv[es[m]]
      BY <1>1, <1>4, <2>1
    <3> QED BY <1>1, <1>4, <2>1, <3>1
  <2>2. CASE i < m
    <3>1. nx[es[m]] # es[i]
      BY <1>1, <1>2, <1>4, <2>2 DEF Distinct
    <3>2. pv2[es[i]] = pv[es[i]] /\ pv[es[i]] = IF i = 1 THEN NULL ELSE es[i - 1]
      BY <1>1, <2>2, <3>1 DEF Linked
    <3> QED BY <1>1, <2>2, <3>2
  <2>3. CASE i > m
    <3>1. nx[es[m]] # es[i + 1]
      BY <1>1, <1>2, <1>4, <2>3 DEF Distinct
    <3>2. pv2[es[i + 1]] = pv[es[i + 1]] /\ pv[es[i + 1]] = es[i]
      BY <1>1, <2>3, <3>1 DEF Linked
    <3> QED BY <1>1, <2>3, <3>2
  <2> QED BY <1>1, <2>1, <2>2, <2>3
<1>7. (IF pv[es[m]] = NULL THEN nx[es[m]] ELSE f) = IF n = 1 THEN NULL ELSE s[1]
  <2>1. f = es[1]
    BY <1>1 DEF Linked
  <2> QED BY <1>1, <1>2, <1>4, <2>1
<1>8. (IF nx[es[m]] = NULL THEN pv[es[m]] ELSE l) = IF n = 1 THEN NULL ELSE s[n - 1]
  <2>1. l = es[n]
    BY <1>1 DEF Linked
  <2> QED BY <1>1, <1>2, <1>4, <2>1
<1> QED BY <1>1, <1>3, <1>5, <1>6, <1>7, <1>8 DEF Linked, s

-----------------------------------------------------------------------------
(* The lists.                                                              *)

\* What a queue has in its list: what it should hold or, in the middle of a push,
\* that with the new packet on its way forward at place p.
Content(s, q) ==
    IF lock[q] = NULL THEN abs[q] = Packets(s)
    ELSE \E p \in 1..Len(s) :
            /\ s[p] = elem[lock[q]]
            /\ \A j \in (p + 1)..Len(s) : pkt[s[j]].priority < pkt[s[p]].priority
            /\ abs[q] = Push(Delete(Packets(s), p), pkt[s[p]])

\* The elements of both queues, list by list.
Chains(es) ==
    /\ es \in [Queues -> Seq(Elems)]
    /\ \A q \in Queues :
          /\ Distinct(es[q])
          /\ Linked(es[q], first[q], last[q], next, prev)
          /\ \A i \in 1..Len(es[q]) : pkt[es[q][i]] \in Requests
          /\ Content(es[q], q)
    /\ \A q, o \in Queues : q # o =>
          \A i \in 1..Len(es[q]), j \in 1..Len(es[o]) : es[q][i] # es[o][j]

ListInv == \E es : Chains(es)

\* Only modules push on the one queue and only the writing thread on the other,
\* which has its packet in hand then.
ThreadInv ==
    /\ DOMAIN pc = Threads /\ DOMAIN elem = Threads
    /\ DOMAIN first = Queues /\ DOMAIN last = Queues /\ DOMAIN lock = Queues
    /\ DOMAIN next = Elems /\ DOMAIN prev = Elems /\ DOMAIN pkt = Elems
    /\ abs \in [Queues -> Seq(Requests)]
    /\ lock["send"] \in Modules \cup {NULL}
    /\ lock["receive"] \in {WRITER, NULL}
    /\ \A q \in Queues : lock[q] # NULL => pc[lock[q]] = "swap"
    /\ pc[WRITER] \in {"convert", "swap", "write"} => hand \in Requests

LEMMA ContentKept ==
    ASSUME NEW s \in Seq(Elems), NEW q \in Queues, Content(s, q),
           lock'[q] = lock[q], abs'[q] = abs[q], lock[q] # NULL => elem'[lock[q]] = elem[lock[q]],
           \A i \in 1..Len(s) : pkt'[s[i]] = pkt[s[i]]
    PROVE  Content(s, q)'
<1>1. Packets(s)' = Packets(s)
  BY DEF Packets
<1>2. CASE lock[q] = NULL
  BY <1>1, <1>2 DEF Content
<1>3. CASE lock[q] # NULL
  <2>1. PICK p \in 1..Len(s) :
            /\ s[p] = elem[lock[q]]
            /\ \A j \in (p + 1)..Len(s) : pkt[s[j]].priority < pkt[s[p]].priority
            /\ abs[q] = Push(Delete(Packets(s), p), pkt[s[p]])
    BY <1>3 DEF Content
  <2>2. /\ s[p] = elem'[lock'[q]]
        /\ \A j \in (p + 1)..Len(s) : pkt'[s[j]].priority < pkt'[s[p]].priority
        /\ abs'[q] = Push(Delete(Packets(s)', p), pkt'[s[p]])
    BY <1>1, <1>3, <2>1
  <2> QED BY <1>3, <2>2 DEF Content
<1> QED BY <1>2, <1>3

\* A step leaves the list s of queue o alone.
Alone(s, o) ==
    /\ first'[o] = first[o] /\ last'[o] = last[o] /\ lock'[o] = lock[o] /\ abs'[o] = abs[o]
    /\ lock[o] # NULL => elem'[lock[o]] = elem[lock[o]]
    /\ \A j \in 1..Len(s) : /\ next'[s[j]] = next[s[j]] /\ prev'[s[j]] = prev[s[j]]
                            /\ pkt'[s[j]] = pkt[s[j]]

\* A step that gives queue q the list s, made of its elements and of free ones,
\* and leaves the other queue alone.
LEMMA ListChange ==
    ASSUME NEW es, Chains(es), NEW q \in Queues, NEW o \in Queues, o # q,
           NEW s \in Seq(Elems), Distinct(s), Linked(s, first'[q], last'[q], next', prev'),
           \A i \in 1..Len(s) : pkt'[s[i]] \in Requests,
           Content(s, q)',
           \A i \in 1..Len(s) : pkt[s[i]] = NULL \/ \E j \in 1..Len(es[q]) : s[i] = es[q][j],
           Alone(es[o], o)
    PROVE  ListInv'
<1> DEFINE z == [es EXCEPT ![q] = s]
<1>1. /\ z \in [Queues -> Seq(Elems)] /\ z[q] = s /\ z[o] = es[o]
      /\ Queues = {q, o} /\ es[o] \in Seq(Elems)
  BY DEF Chains, Queues
<1>2. /\ Distinct(es[o]) /\ Linked(es[o], first'[o], last'[o], next', prev')
      /\ \A i \in 1..Len(es[o]) : pkt'[es[o][i]] \in Requests
  <2>1. /\ Distinct(es[o]) /\ Linked(es[o], first[o], last[o], next, prev)
        /\ \A i \in 1..Len(es[o]) : pkt[es[o][i]] \in Requests
    BY DEF Chains
  <2> QED BY <2>1 DEF Linked, Alone
<1>3. Content(es[o], o)'
  <2>1. Content(es[o], o)
    BY DEF Chains
  <2> QED BY <1>1, <2>1, ContentKept DEF Alone
<1>4. \A i \in 1..Len(s), j \in 1..Len(es[o]) : s[i] # es[o][j]
  <2>1. NULL \notin Requests
    BY UsbAssumption
  <2>2. \A j \in 1..Len(es[o]) : pkt[es[o][j]] # NULL
    BY <2>1 DEF Chains
  <2>3. \A i \in 1..Len(es[q]), j \in 1..Len(es[o]) : es[q][i] # es[o][j]
    BY DEF Chains
  <2> QED BY <2>2, <2>3
<1> HIDE DEF z
<1>5. \A x \in Queues :
        /\ Distinct(z[x]) /\ Linked(z[x], first'[x], last'[x], next', prev')
        /\ \A i \in 1..Len(z[x]) : pkt'[z[x][i]] \in Requests
        /\ Content(z[x], x)'
  BY <1>1, <1>2, <1>3
<1>6. \A x, y \in Queues : x # y =>
        \A i \in 1..Len(z[x]), j \in 1..Len(z[y]) : z[x][i] # z[y][j]
  BY <1>1, <1>4
<1>7. Chains(z)'
  BY <1>1, <1>5, <1>6 DEF Chains
<1> QED BY <1>7 DEF ListInv

\* A step that changes no list.
LEMMA ListKept ==
    ASSUME ListInv, UNCHANGED <<list, abs>>,
           \A q \in Queues : lock'[q] = lock[q] /\ (lock[q] # NULL => elem'[lock[q]] = elem[lock[q]])
    PROVE  ListInv'
<1>1. PICK es : Chains(es)
  BY DEF ListInv
<1>2. \A q \in Queues : Content(es[q], q)'
  BY <1>1, ContentKept DEF Chains, list
<1>3. Chains(es)'
  BY <1>1, <1>2 DEF Chains, list
<1> QED BY <1>3 DEF ListInv

\* The first part of sdb_queue_push.
LEMMA ListAppend ==
    ASSUME ListInv, ThreadInv, NEW t \in Threads, NEW q \in Queues, NEW r \in Requests,
           push_append(t, q, r), \A o \in Queues : lock[o] # t
    PROVE  ListInv'
<1>1. PICK es : Chains(es)
  BY DEF ListInv
<1>2. PICK o \in Queues : o # q
  BY DEF Queues
<1>3. PICK e \in Elems : e = Fresh /\ pkt[e] = NULL
  BY DEF push_append, Fresh
<1> DEFINE s == Append(es[q], e)  n == Len(es[q])
<1>4. NULL \notin Requests /\ NULL \notin Elems
  BY UsbAssumption, ElemsFinite
<1>5. /\ es[q] \in Seq(Elems) /\ n \in Nat /\ Distinct(es[q])
      /\ Linked(es[q], first[q], last[q], next, prev)
      /\ \A i \in 1..n : pkt[es[q][i]] \in Requests /\ es[q][i] \in Elems
      /\ \A i \in 1..n : es[q][i] # e
      /\ es[o] \in Seq(Elems)
      /\ \A j \in 1..Len(es[o]) : pkt[es[o][j]] \in Requests /\ es[o][j] \in Elems
      /\ \A j \in 1..Len(es[o]) : es[o][j] # e
      /\ \A i \in 1..n, j \in 1..Len(es[o]) : es[q][i] # es[o][j]
  BY <1>1, <1>2, <1>3, <1>4 DEF Chains
<1>6. /\ lock[q] = NULL /\ lock' = [lock EXCEPT ![q] = t]
      /\ pkt' = [pkt EXCEPT ![e] = r]
      /\ next' = IF first[q] = NULL THEN [next EXCEPT ![e] = NULL]
                 ELSE [next EXCEPT ![e] = NULL, ![last[q]] = e]
      /\ prev' = [prev EXCEPT ![e] = IF first[q] = NULL THEN NULL ELSE last[q]]
      /\ first' = IF first[q] = NULL THEN [first EXCEPT ![q] = e] ELSE first
      /\ last' = [last EXCEPT ![q] = e]
      /\ elem' = [elem EXCEPT ![t] = e]
      /\ abs' = [abs EXCEPT ![q] = Push(@, r)]
  BY <1>3 DEF push_append
<1>7. first[q] # NULL => n > 0 /\ last[q] = es[q][n]
  BY <1>5 DEF Linked
<1>8. /\ \A x \in Elems : next'[x] = IF first[q] # NULL /\ x = last[q] THEN e
                                     ELSE IF x = e THEN NULL ELSE next[x]
      /\ \A x \in Elems : prev'[x] = IF x = e THEN (IF first[q] = NULL THEN NULL ELSE last[q])
                                     ELSE prev[x]
      /\ \A x \in Elems : pkt'[x] = IF x = e THEN r ELSE pkt[x]
      /\ last'[q] = e /\ first'[q] = (IF first[q] = NULL THEN e ELSE first[q])
      /\ last'[o] = last[o] /\ first'[o] = first[o] /\ abs'[o] = abs[o] /\ lock'[o] = lock[o]
      /\ lock'[q] = t /\ elem'[t] = e /\ abs'[q] = Push(abs[q], r)
      /\ lock[o] # NULL => elem'[lock[o]] = elem[lock[o]]
  <2>1. /\ DOMAIN next = Elems /\ DOMAIN prev = Elems /\ DOMAIN pkt = Elems
        /\ DOMAIN first = Queues /\ DOMAIN last = Queues /\ DOMAIN lock = Queues
        /\ DOMAIN elem = Threads /\ DOMAIN abs = Queues
    BY DEF ThreadInv
  <2>2. \A x \in Elems : next'[x] = IF first[q] # NULL /\ x = last[q] THEN e
                                    ELSE IF x = e THEN NULL ELSE next[x]
    <3>1. CASE first[q] = NULL
      BY <1>6, <2>1, <3>1
    <3>2. CASE first[q] # NULL
      BY <1>6, <2>1, <3>2
    <3> QED BY <3>1, <3>2
  <2>3. /\ \A x \in Elems : prev'[x] = IF x = e THEN (IF first[q] = NULL THEN NULL ELSE last[q])
                                       ELSE prev[x]
        /\ \A x \in Elems : pkt'[x] = IF x = e THEN r ELSE pkt[x]
    BY <1>6, <2>1
  <2>4. /\ last'[q] = e /\ first'[q] = (IF first[q] = NULL THEN e ELSE first[q])
        /\ last'[o] = last[o] /\ first'[o] = first[o]
    BY <1>2, <1>6, <2>1
  <2>5. /\ abs'[o] = abs[o] /\ lock'[o] = lock[o]
        /\ lock'[q] = t /\ elem'[t] = e /\ abs'[q] = Push(abs[q], r)
    BY <1>2, <1>6, <2>1
  <2>6. lock[o] # NULL => elem'[lock[o]] = elem[lock[o]]
    <3>1. lock[o] # t /\ lock[o] \in Threads \cup {NULL}
      BY <1>2 DEF ThreadInv, Queues, Threads
    <3> QED BY <1>6, <2>1, <3>1
  <2> QED BY <2>2, <2>3, <2>4, <2>5, <2>6
<1>9. s \in Seq(Elems) /\ Distinct(s) /\ Linked(s, first'[q], last'[q], next', prev')
  <2>1. Appends(e, first[q], last[q], next, prev, first'[q], next', prev')
    BY <1>8 DEF Appends
  <2>2. /\ es[q] \in Seq(Elems) /\ Distinct(es[q]) /\ Linked(es[q], first[q], last[q], next, prev)
        /\ e \in Elems /\ \A i \in 1..Len(es[q]) : es[q][i] # e
    BY <1>3, <1>5
  <2>3. last'[q] = e
    BY <1>8
  <2> QED BY ONLY <2>1, <2>2, <2>3, LinkedAppend
<1>10. /\ Len(s) = n + 1 /\ s[n + 1] = e /\ \A i \in 1..n : s[i] = es[q][i]
  BY <1>3, <1>5
<1> HIDE DEF s
<1>11. \A i \in 1..Len(s) : pkt'[s[i]] \in Requests
  BY <1>3, <1>5, <1>8, <1>10
<1>12. Content(s, q)'
  <2>1. abs[q] = Packets(es[q])
    BY <1>1, <1>6 DEF Chains, Content
  <2>2. Delete(Packets(s)', n + 1) = Packets(es[q])
    <3>1. Len(Packets(s)') = n + 1 /\ Len(Packets(es[q])) = n
      BY <1>5, <1>10 DEF Packets
    <3>2. \A i \in 1..n : Packets(s)'[i] = Packets(es[q])[i]
      BY <1>5, <1>8, <1>10 DEF Packets
    <3>3. Packets(es[q]) = [i \in 1..n |-> Packets(es[q])[i]]
      BY DEF Packets
    <3>4. Delete(Packets(s)', n + 1) =
            [j \in 1..(n + 1 - 1) |-> IF j < n + 1 THEN Packets(s)'[j] ELSE Packets(s)'[j + 1]]
      BY <3>1 DEF Delete
    <3>5. n + 1 - 1 = n /\ \A j \in 1..n : j < n + 1
      BY <1>5
    <3> QED BY <3>2, <3>3, <3>4, <3>5
  <2>3. t # NULL
    BY UsbAssumption DEF Threads
  <2>4. pkt'[s[n + 1]] = r
    BY <1>3, <1>8, <1>10
  <2>5. n + 1 \in 1..Len(s) /\ \A j \in (n + 1 + 1)..Len(s) : FALSE
    BY <1>5, <1>10
  <2> QED BY <1>8, <1>10, <2>1, <2>2, <2>3, <2>4, <2>5 DEF Content
<1>13. \A i \in 1..Len(s) : pkt[s[i]] = NULL \/ \E j \in 1..Len(es[q]) : s[i] = es[q][j]
  BY <1>3, <1>5, <1>10
<1>14. \A j \in 1..Len(es[o]) : /\ next'[es[o][j]] = next[es[o][j]]
                                /\ prev'[es[o][j]] = prev[es[o][j]]
                                /\ pkt'[es[o][j]] = pkt[es[o][j]]
  BY <1>5, <1>7, <1>8
<1>15. Alone(es[o], o)
  BY <1>8, <1>14 DEF Alone
<1> QED BY ONLY <1>1, <1>2, <1>9, <1>11, <1>12, <1>13, <1>15, ListChange

\* What the place of a pushed element must satisfy determines it.
LEMMA AheadUnique ==
    ASSUME NEW S, IsElemSet(S), NEW q \in Seq(S), NEW e \in S, NEW k \in 0..Len(q),
           k # 0 => e.priority <= q[k].priority,
           \A j \in (k + 1)..Len(q) : e.priority > q[j].priority
    PROVE  Ahead(q, e) = k
<1> DEFINE a == Ahead(q, e)
<1>1. /\ a \in 0..Len(q)
      /\ a # 0 => e.priority <= q[a].priority
      /\ \A j \in (a + 1)..Len(q) : e.priority > q[j].priority
  BY AheadPlace
<1>2. e.priority \in Int /\ \A i \in 1..Len(q) : q[i].priority \in Int
  BY DEF IsElemSet
<1> HIDE DEF a
<1>3. ~(a < k)
  <2> SUFFICES ASSUME a < k PROVE FALSE
    OBVIOUS
  <2>1. k \in (a + 1)..Len(q) /\ k \in 1..Len(q)
    BY <1>1
  <2>2. e.priority > q[k].priority /\ e.priority <= q[k].priority
    BY <1>1, <2>1
  <2> QED BY <1>2, <2>1, <2>2
<1>4. ~(k < a)
  <2> SUFFICES ASSUME k < a PROVE FALSE
    OBVIOUS
  <2>1. a \in (k + 1)..Len(q) /\ a \in 1..Len(q)
    BY <1>1
  <2>2. e.priority > q[a].priority /\ e.priority <= q[a].priority
    BY <1>1, <2>1
  <2> QED BY <1>2, <2>1, <2>2
<1> QED BY <1>1, <1>3, <1>4 DEF a

\* Where the loop of swaps ends the element is where a push puts it.
LEMMA PushUndoesDelete ==
    ASSUME NEW S, IsElemSet(S), NEW c \in Seq(S), NEW p \in 1..Len(c),
           p # 1 => c[p].priority <= c[p - 1].priority,
           \A j \in (p + 1)..Len(c) : c[j].priority < c[p].priority
    PROVE  Push(Delete(c, p), c[p]) = c
<1> DEFINE d == Delete(c, p)  n == Len(c)
<1>1. /\ d \in Seq(S) /\ Len(d) = n - 1 /\ n \in Nat /\ c[p] \in S
      /\ \A j \in 1..(n - 1) : d[j] = IF j < p THEN c[j] ELSE c[j + 1]
  BY DeleteElements DEF Delete
<1> HIDE DEF d
<1>2. \A i \in 1..n : c[i].priority \in Int
  BY DEF IsElemSet
<1>3. Ahead(d, c[p]) = p - 1
  <2>1. p - 1 \in 0..Len(d)
    BY <1>1
  <2>2. p - 1 # 0 => c[p].priority <= d[p - 1].priority
    BY <1>1
  <2>3. \A j \in ((p - 1) + 1)..Len(d) : c[p].priority > d[j].priority
    <3> SUFFICES ASSUME NEW j \in p..(n - 1) PROVE c[p].priority > d[j].priority
      BY <1>1
    <3>1. d[j] = c[j + 1] /\ j + 1 \in (p + 1)..n /\ j + 1 \in 1..n
      BY <1>1
    <3> QED BY <1>2, <3>1
  <2> QED BY <1>1, <2>1, <2>2, <2>3, AheadUnique
<1>4. Push(d, c[p]) = [i \in 1..n |-> IF i <= p - 1 THEN d[i] ELSE
                                      IF i = p - 1 + 1 THEN c[p] ELSE d[i - 1]]
  <2>1. Len(d) + 1 = n
    BY <1>1
  <2> QED BY <1>3, <2>1 DEF Push
<1>5. \A i \in 1..n : (IF i <= p - 1 THEN d[i] ELSE IF i = p - 1 + 1 THEN c[p] ELSE d[i - 1]) = c[i]
  BY <1>1
<1>6. c = [i \in 1..n |-> c[i]]
  OBVIOUS
<1> QED BY <1>4, <1>5, <1>6 DEF d

\* A turn of the loop of swaps.
LEMMA ListSwap ==
    ASSUME ListInv, ThreadInv, NEW t \in Threads, NEW q \in Queues, push_swap(t, q)
    PROVE  ListInv'
<1>1. PICK es : Chains(es)
  BY DEF ListInv
<1>2. PICK o \in Queues : o # q
  BY DEF Queues
<1> DEFINE c == es[q]  n == Len(c)
<1>3. NULL \notin Elems /\ t # NULL
  BY UsbAssumption, ElemsFinite DEF Threads
<1>4. /\ c \in Seq(Elems) /\ n \in Nat /\ Distinct(c)
      /\ Linked(c, first[q], last[q], next, prev)
      /\ \A i \in 1..n : pkt[c[i]] \in Requests /\ c[i] \in Elems
      /\ es[o] \in Seq(Elems)
      /\ \A j \in 1..Len(es[o]) : es[o][j] \in Elems
      /\ \A i \in 1..n, j \in 1..Len(es[o]) : c[i] # es[o][j]
  BY <1>1, <1>2 DEF Chains
<1>5. pc[t] = "swap" /\ lock[q] = t /\ Overtakes(elem[t])
  BY DEF push_swap
<1>6. PICK p \in 1..n :
            /\ c[p] = elem[t]
            /\ \A j \in (p + 1)..n : pkt[c[j]].priority < pkt[c[p]].priority
            /\ abs[q] = Push(Delete(Packets(c), p), pkt[c[p]])
  <2>1. Content(c, q)
    BY <1>1 DEF Chains
  <2> QED BY <1>3, <1>5, <2>1 DEF Content
<1>7. p \in 2..n /\ prev[c[p]] = c[p - 1] /\ pkt[c[p]].priority > pkt[c[p - 1]].priority
  BY <1>4, <1>5, <1>6 DEF Overtakes, Linked
<1>a. /\ next[c[p]] = (IF p = n THEN NULL ELSE c[p + 1])
      /\ prev[c[p - 1]] = (IF p = 2 THEN NULL ELSE c[p - 2])
  <2>1. /\ p \in 1..n /\ p - 1 \in 1..n /\ (p - 1 = 1 <=> p = 2) /\ (p - 1) - 1 = p - 2
    BY <1>4, <1>7
  <2>2. Linked(c, first[q], last[q], next, prev)
    BY <1>4
  <2> HIDE DEF c
  <2> QED BY ONLY <2>1, <2>2 DEF Linked, n
<1>8. /\ first' = IF prev[c[p - 1]] = NULL THEN [first EXCEPT ![q] = c[p]] ELSE first
      /\ last' = IF next[c[p]] = NULL THEN [last EXCEPT ![q] = c[p - 1]] ELSE last
      /\ \A x \in Elems : next'[x] = IF x = c[p] THEN c[p - 1] ELSE
                                     IF x = c[p - 1] THEN next[c[p]] ELSE
                                     IF x = prev[c[p - 1]] THEN c[p] ELSE next[x]
      /\ \A x \in Elems : prev'[x] = IF x = c[p] THEN prev[c[p - 1]] ELSE
                                     IF x = c[p - 1] THEN c[p] ELSE
                                     IF x = next[c[p]] THEN c[p - 1] ELSE prev[x]
      /\ UNCHANGED <<pkt, lock, elem, abs>>
  <2> DEFINE e == c[p]  tmp == c[p - 1]  before == prev[tmp]  after == next[e]
  <2>1. elem[t] = e /\ prev[elem[t]] = tmp
    BY <1>6, <1>7
  <2> HIDE DEF e, tmp
  <2>2. /\ first' = IF before = NULL THEN [first EXCEPT ![q] = e] ELSE first
        /\ last' = IF after = NULL THEN [last EXCEPT ![q] = tmp] ELSE last
        /\ next' = [x \in Elems |-> CASE x = e -> tmp [] x = tmp -> after [] x = before -> e
                                      [] OTHER -> next[x]]
        /\ prev' = [x \in Elems |-> CASE x = e -> before [] x = tmp -> e [] x = after -> tmp
                                      [] OTHER -> prev[x]]
        /\ UNCHANGED <<pkt, lock, elem, abs>>
    BY <2>1 DEF push_swap
  <2>3. e # tmp /\ before # e /\ before # tmp /\ after # e /\ after # tmp
    <3>1. /\ next[c[p]] = (IF p = n THEN NULL ELSE c[p + 1])
          /\ prev[c[p - 1]] = (IF p = 2 THEN NULL ELSE c[p - 2])
      BY <1>a
    <3>2. c[p] # c[p - 1] /\ c[p] # NULL /\ c[p - 1] # NULL
      BY <1>3, <1>4, <1>7 DEF Distinct
    <3>a. \A i, j \in 1..n : i # j => c[i] # c[j]
      BY <1>4 DEF Distinct
    <3>b. /\ p \in 1..n /\ p - 1 \in 1..n /\ (p # n => p + 1 \in 1..n) /\ (p # 2 => p - 2 \in 1..n)
          /\ p + 1 # p /\ p + 1 # p - 1 /\ p - 2 # p /\ p - 2 # p - 1
      BY <1>4, <1>7
    <3>3. p # n => c[p + 1] # c[p] /\ c[p + 1] # c[p - 1]
      BY <3>a, <3>b
    <3>4. p # 2 => c[p - 2] # c[p] /\ c[p - 2] # c[p - 1]
      BY <3>a, <3>b
    <3> QED BY <3>1, <3>2, <3>3, <3>4 DEF e, tmp
  <2>4. ASSUME NEW x \in Elems
        PROVE  /\ next'[x] = IF x = e THEN tmp ELSE IF x = tmp THEN after ELSE
                             IF x = before THEN e ELSE next[x]
               /\ prev'[x] = IF x = e THEN before ELSE IF x = tmp THEN e ELSE
                             IF x = after THEN tmp ELSE prev[x]
    BY <2>2, <2>3
  <2> QED BY <2>2, <2>4 DEF e, tmp
<1>9. DOMAIN first = Queues /\ DOMAIN last = Queues
  BY DEF ThreadInv
<1>10. /\ first'[q] = (IF prev[c[p - 1]] = NULL THEN c[p] ELSE first[q])
       /\ last'[q] = (IF next[c[p]] = NULL THEN c[p - 1] ELSE last[q])
       /\ first'[o] = first[o] /\ last'[o] = last[o]
  BY <1>2, <1>8, <1>9
<1>11. PICK s : s = Swapped(c, p)
  OBVIOUS
<1>12. s \in Seq(Elems) /\ Distinct(s) /\ Linked(s, first'[q], last'[q], next', prev')
  <2>1. Swaps(c, p, first[q], last[q], next, prev, first'[q], last'[q], next', prev')
    BY <1>8, <1>10 DEF Swaps
  <2>2. /\ c \in Seq(Elems) /\ Distinct(c) /\ Linked(c, first[q], last[q], next, prev)
        /\ p \in 2..Len(c)
    BY <1>4, <1>7
  <2> HIDE DEF c
  <2> QED BY ONLY <1>11, <2>1, <2>2, LinkedSwap
<1>13. /\ Len(s) = n
       /\ \A i \in 1..n : s[i] = IF i = p - 1 THEN c[p] ELSE IF i = p THEN c[p - 1] ELSE c[i]
  BY <1>4, <1>11 DEF Swapped
<1>14. \A i \in 1..Len(s) : pkt'[s[i]] \in Requests /\ \E j \in 1..n : s[i] = c[j]
  <2> SUFFICES ASSUME NEW i \in 1..n PROVE pkt'[s[i]] \in Requests /\ \E j \in 1..n : s[i] = c[j]
    BY <1>13
  <2>1. \E j \in 1..n : s[i] = c[j]
    <3>1. p \in 1..n /\ p - 1 \in 1..n
      BY <1>4, <1>7
    <3>2. s[i] = IF i = p - 1 THEN c[p] ELSE IF i = p THEN c[p - 1] ELSE c[i]
      BY <1>13
    <3> HIDE DEF c, n
    <3> QED BY ONLY <3>1, <3>2, i \in 1..n
  <2> QED BY <1>4, <1>8, <2>1
<1>15. Content(s, q)'
  <2>1. p - 1 \in 1..n /\ s[p - 1] = elem'[lock'[q]] /\ s[p - 1] = c[p]
    BY <1>5, <1>6, <1>7, <1>8, <1>13
  <2>2. \A j \in (p - 1 + 1)..n : pkt[s[j]].priority < pkt[c[p]].priority
    <3> SUFFICES ASSUME NEW j \in p..n PROVE pkt[s[j]].priority < pkt[c[p]].priority
      BY <1>7
    <3>1. CASE j = p
      <4>1. s[j] = c[p - 1]
        BY <1>7, <1>13, <3>1
      <4>2. pkt[c[p]].priority \in Nat /\ pkt[c[p - 1]].priority \in Nat
        BY <1>4, <1>7, UsbAssumption
      <4> QED BY <1>7, <4>1, <4>2
    <3>2. CASE j # p
      BY <1>6, <1>7, <1>13, <3>2
    <3> QED BY <3>1, <3>2
  <2>3. Delete(Packets(s)', p - 1) = Delete(Packets(c), p)
    <3>1. /\ Len(Packets(s)') = n /\ Len(Packets(c)) = n
          /\ \A i \in 1..n : Packets(s)'[i] = pkt[s[i]] /\ Packets(c)[i] = pkt[c[i]]
      BY <1>4, <1>8, <1>13 DEF Packets
    <3>2. \A i \in 1..(n - 1) : (IF i < p - 1 THEN Packets(s)'[i] ELSE Packets(s)'[i + 1])
                              = (IF i < p THEN Packets(c)[i] ELSE Packets(c)[i + 1])
      <4> SUFFICES ASSUME NEW i \in 1..(n - 1)
                   PROVE  (IF i < p - 1 THEN Packets(s)'[i] ELSE Packets(s)'[i + 1])
                        = (IF i < p THEN Packets(c)[i] ELSE Packets(c)[i + 1])
        OBVIOUS
      <4>0. /\ i \in 1..n /\ i + 1 \in 1..n
            /\ Packets(s)'[i] = pkt[s[i]] /\ Packets(s)'[i + 1] = pkt[s[i + 1]]
            /\ Packets(c)[i] = pkt[c[i]] /\ Packets(c)[i + 1] = pkt[c[i + 1]]
        BY <1>4, <3>1
      <4>1. CASE i < p - 1
        BY <1>7, <1>13, <4>0, <4>1
      <4>2. CASE i = p - 1
        BY <1>7, <1>13, <4>0, <4>2
      <4>3. CASE i > p - 1
        BY <1>7, <1>13, <4>0, <4>3
      <4> QED BY <1>7, <4>1, <4>2, <4>3
    <3> QED BY <3>1, <3>2 DEF Delete
  <2>4. /\ s[p - 1] = elem'[lock'[q]]
        /\ \A j \in (p - 1 + 1)..Len(s) : pkt'[s[j]].priority < pkt'[s[p - 1]].priority
        /\ abs'[q] = Push(Delete(Packets(s)', p - 1), pkt'[s[p - 1]])
        /\ p - 1 \in 1..Len(s) /\ lock'[q] # NULL
    BY <1>3, <1>5, <1>6, <1>8, <1>13, <2>1, <2>2, <2>3
  <2> QED BY <2>4 DEF Content
<1>16. \A j \in 1..Len(es[o]) : /\ next'[es[o][j]] = next[es[o][j]]
                                /\ prev'[es[o][j]] = prev[es[o][j]]
  <2>1. /\ next[c[p]] = (IF p = n THEN NULL ELSE c[p + 1])
        /\ prev[c[p - 1]] = (IF p = 2 THEN NULL ELSE c[p - 2])
    BY <1>a
  <2> SUFFICES ASSUME NEW j \in 1..Len(es[o])
               PROVE  /\ next'[es[o][j]] = next[es[o][j]]
                      /\ prev'[es[o][j]] = prev[es[o][j]]
    OBVIOUS
  <2>2. /\ es[o][j] \in Elems /\ es[o][j] # c[p] /\ es[o][j] # c[p - 1]
        /\ es[o][j] # next[c[p]] /\ es[o][j] # prev[c[p - 1]]
    <3>1. es[o][j] \in Elems /\ es[o][j] # NULL
      BY <1>3, <1>4
    <3>2. \A i \in 1..n : es[o][j] # c[i]
      BY <1>4
    <3>3. p \in 1..n /\ p - 1 \in 1..n /\ (p # n => p + 1 \in 1..n) /\ (p # 2 => p - 2 \in 1..n)
      BY <1>4, <1>7
    <3> QED BY <2>1, <3>1, <3>2, <3>3
  <2> QED BY <1>8, <2>2
<1> HIDE DEF c
<1>17. Alone(es[o], o)
  BY <1>8, <1>10, <1>16 DEF Alone
<1>18. \A i \in 1..Len(s) : pkt'[s[i]] \in Requests /\ \E j \in 1..Len(es[q]) : s[i] = es[q][j]
  BY <1>14 DEF c
<1> QED BY ONLY <1>1, <1>2, <1>12, <1>15, <1>17, <1>18, ListChange

\* The end of the loop.
LEMMA ListSettled ==
    ASSUME ListInv, ThreadInv, NEW t \in Threads, NEW q \in Queues, push_end(t, q)
    PROVE  ListInv'
<1>1. PICK es : Chains(es)
  BY DEF ListInv
<1>2. PICK o \in Queues : o # q
  BY DEF Queues
<1> DEFINE c == es[q]  n == Len(c)
<1>3. t # NULL
  BY UsbAssumption DEF Threads
<1>4. /\ c \in Seq(Elems) /\ n \in Nat /\ Distinct(c)
      /\ Linked(c, first[q], last[q], next, prev)
      /\ \A i \in 1..n : pkt[c[i]] \in Requests
  BY <1>1, <1>2 DEF Chains
<1>5. /\ lock[q] = t /\ ~Overtakes(elem[t])
      /\ lock' = [lock EXCEPT ![q] = NULL] /\ elem' = [elem EXCEPT ![t] = NULL]
      /\ UNCHANGED <<first, last, next, prev, pkt, abs>>
  BY DEF push_end, list
<1>6. PICK p \in 1..n :
            /\ c[p] = elem[t]
            /\ \A j \in (p + 1)..n : pkt[c[j]].priority < pkt[c[p]].priority
            /\ abs[q] = Push(Delete(Packets(c), p), pkt[c[p]])
  <2>1. Content(c, q)
    BY <1>1 DEF Chains
  <2> QED BY <1>3, <1>5, <2>1 DEF Content
<1>7. /\ Packets(c) \in Seq(Requests) /\ Len(Packets(c)) = n
      /\ \A i \in 1..n : Packets(c)[i] = pkt[c[i]]
  BY <1>4 DEF Packets
<1>8. IsElemSet(Requests)
  BY UsbAssumption DEF IsElemSet
<1>9. p # 1 => Packets(c)[p].priority <= Packets(c)[p - 1].priority
  <2> SUFFICES ASSUME p # 1 PROVE pkt[c[p]].priority <= pkt[c[p - 1]].priority
    BY <1>4, <1>7
  <2>1. prev[c[p]] = c[p - 1] /\ p - 1 \in 1..n
    BY <1>4 DEF Linked
  <2>2. c[p - 1] # NULL
    BY <1>4, <2>1, ElemsFinite
  <2>3. ~(pkt[c[p]].priority > pkt[c[p - 1]].priority)
    BY <1>5, <1>6, <2>1, <2>2 DEF Overtakes
  <2>4. pkt[c[p]].priority \in Nat /\ pkt[c[p - 1]].priority \in Nat
    BY <1>4, <2>1, UsbAssumption
  <2> QED BY <2>3, <2>4
<1>10. abs[q] = Packets(c)
  <2>1. \A j \in (p + 1)..Len(Packets(c)) : Packets(c)[j].priority < Packets(c)[p].priority
    BY <1>4, <1>6, <1>7
  <2>2. Push(Delete(Packets(c), p), Packets(c)[p]) = Packets(c)
    BY <1>7, <1>8, <1>9, <2>1, PushUndoesDelete
  <2> QED BY <1>6, <1>7, <2>2
<1>11. Content(c, q)'
  <2>1. Packets(c)' = Packets(c)
    BY <1>5 DEF Packets
  <2>2. lock'[q] = NULL
    BY <1>5 DEF ThreadInv
  <2> QED BY <1>5, <1>10, <2>1, <2>2 DEF Content
<1>12. lock'[o] = lock[o] /\ (lock[o] # NULL => elem'[lock[o]] = elem[lock[o]])
  <2>1. lock'[o] = lock[o]
    BY <1>2, <1>5 DEF ThreadInv
  <2>2. lock[o] # NULL => lock[o] \in Threads /\ lock[o] # t
    BY <1>2, <1>5, UsbAssumption DEF ThreadInv, Queues, Threads
  <2> QED BY <1>5, <2>1, <2>2 DEF ThreadInv
<1>13. Linked(c, first'[q], last'[q], next', prev') /\ \A i \in 1..n : pkt'[c[i]] \in Requests
  BY <1>4, <1>5
<1> HIDE DEF c
<1>14. Alone(es[o], o)
  BY <1>5, <1>12 DEF Alone
<1>15. /\ c \in Seq(Elems) /\ Distinct(c)
       /\ \A i \in 1..Len(c) : pkt'[c[i]] \in Requests /\ \E j \in 1..Len(es[q]) : c[i] = es[q][j]
  BY <1>4, <1>13 DEF c
<1> QED BY ONLY <1>1, <1>2, <1>11, <1>13, <1>14, <1>15, ListChange

\* sdb_queue_delete of the element at place m.
LEMMA ListDelete ==
    ASSUME ThreadInv, NEW es, Chains(es), NEW q \in Queues, lock[q] = NULL,
           NEW m \in 1..Len(es[q]), sdb_queue_delete(q, es[q][m]),
           UNCHANGED <<lock, elem>>, abs' = [abs EXCEPT ![q] = Delete(@, m)]
    PROVE  ListInv'
<1>2. PICK o \in Queues : o # q
  BY DEF Queues
<1> DEFINE c == es[q]  n == Len(c)  e == c[m]
<1>3. NULL \notin Elems
  BY ElemsFinite
<1>4. /\ c \in Seq(Elems) /\ n \in Nat /\ Distinct(c) /\ m \in 1..n
      /\ Linked(c, first[q], last[q], next, prev)
      /\ \A i \in 1..n : pkt[c[i]] \in Requests /\ c[i] \in Elems
      /\ es[o] \in Seq(Elems)
      /\ \A j \in 1..Len(es[o]) : es[o][j] \in Elems
      /\ \A i \in 1..n, j \in 1..Len(es[o]) : c[i] # es[o][j]
      /\ abs[q] = Packets(c)
  BY <1>2 DEF Chains, Content
<1>5. /\ next[e] = (IF m = n THEN NULL ELSE c[m + 1])
      /\ prev[e] = (IF m = 1 THEN NULL ELSE c[m - 1])
  BY <1>4 DEF Linked
<1>6. /\ DOMAIN next = Elems /\ DOMAIN prev = Elems /\ DOMAIN pkt = Elems
      /\ DOMAIN first = Queues /\ DOMAIN last = Queues /\ DOMAIN abs = Queues
  BY DEF ThreadInv
<1>7. /\ next' = IF prev[e] # NULL THEN [next EXCEPT ![prev[e]] = next[e]] ELSE next
      /\ first' = IF prev[e] = NULL THEN [first EXCEPT ![q] = next[e]] ELSE first
      /\ last' = IF next[e] = NULL THEN [last EXCEPT ![q] = prev[e]] ELSE last
      /\ prev' = IF next[e] # NULL THEN [prev EXCEPT ![next[e]] = prev[e]] ELSE prev
      /\ pkt' = [pkt EXCEPT ![e] = NULL]
  BY DEF sdb_queue_delete
<1>8. /\ \A x \in Elems : next'[x] = IF x = prev[e] THEN next[e] ELSE next[x]
      /\ \A x \in Elems : prev'[x] = IF x = next[e] THEN prev[e] ELSE prev[x]
      /\ \A x \in Elems : x # e => pkt'[x] = pkt[x]
  BY <1>3, <1>6, <1>7
<1>9. /\ first'[q] = (IF prev[e] = NULL THEN next[e] ELSE first[q])
      /\ last'[q] = (IF next[e] = NULL THEN prev[e] ELSE last[q])
      /\ first'[o] = first[o] /\ last'[o] = last[o]
      /\ abs'[q] = Delete(abs[q], m) /\ abs'[o] = abs[o]
  BY <1>2, <1>6, <1>7
<1>10. PICK s : s = Delete(c, m)
  OBVIOUS
<1>11. s \in Seq(Elems) /\ Distinct(s) /\ Linked(s, first'[q], last'[q], next', prev')
  <2>1. Deletes(c, m, first[q], last[q], next, prev, first'[q], last'[q], next', prev')
    BY <1>8, <1>9 DEF Deletes
  <2>2. /\ c \in Seq(Elems) /\ Distinct(c) /\ Linked(c, first[q], last[q], next, prev)
        /\ m \in 1..Len(c)
    BY <1>4
  <2> HIDE DEF c
  <2> QED BY ONLY <1>10, <2>1, <2>2, LinkedDelete
<1>12. /\ Len(s) = n - 1
       /\ \A i \in 1..(n - 1) : s[i] = IF i < m THEN c[i] ELSE c[i + 1]
  BY <1>4, <1>10, DeleteElements DEF Delete
<1>13. \A i \in 1..(n - 1) : /\ pkt'[s[i]] = pkt[s[i]] /\ pkt[s[i]] \in Requests
                             /\ \E j \in 1..n : s[i] = c[j]
  <2> SUFFICES ASSUME NEW i \in 1..(n - 1)
               PROVE  /\ pkt'[s[i]] = pkt[s[i]] /\ pkt[s[i]] \in Requests
                      /\ \E j \in 1..n : s[i] = c[j]
    OBVIOUS
  <2>1. PICK j \in 1..n : j # m /\ s[i] = c[j]
    <3>1. CASE i < m
      BY <1>4, <1>12, <3>1
    <3>2. CASE i >= m
      <4>1. i + 1 \in 1..n /\ i + 1 # m /\ s[i] = c[i + 1]
        BY <1>4, <1>12, <3>2
      <4> QED BY <4>1
    <3> QED BY <1>4, <3>1, <3>2
  <2>2. c[j] # e
    BY <1>4, <2>1 DEF Distinct
  <2> QED BY <1>4, <1>8, <2>1, <2>2
<1>14. Content(s, q)'
  <2>1. Delete(Packets(c), m) = Packets(s)'
    <3>1. /\ Len(Packets(c)) = n
          /\ \A i \in 1..n : Packets(c)[i] = pkt[c[i]]
      BY <1>4 DEF Packets
    <3>2. Packets(s)' = [i \in 1..(n - 1) |-> pkt'[s[i]]]
      BY <1>12 DEF Packets
    <3>3. \A i \in 1..(n - 1) : pkt'[s[i]] = IF i < m THEN Packets(c)[i] ELSE Packets(c)[i + 1]
      <4> SUFFICES ASSUME NEW i \in 1..(n - 1)
                   PROVE  pkt[s[i]] = IF i < m THEN Packets(c)[i] ELSE Packets(c)[i + 1]
        BY <1>13
      <4>1. i \in 1..n /\ i + 1 \in 1..n
        BY <1>4
      <4> QED BY <1>12, <3>1, <4>1
    <3> QED BY <3>1, <3>2, <3>3 DEF Delete
  <2> QED BY <1>4, <1>9, <2>1 DEF Content
<1>15. \A j \in 1..Len(es[o]) : /\ next'[es[o][j]] = next[es[o][j]]
                                /\ prev'[es[o][j]] = prev[es[o][j]]
                                /\ pkt'[es[o][j]] = pkt[es[o][j]]
  <2> SUFFICES ASSUME NEW j \in 1..Len(es[o])
               PROVE  /\ next'[es[o][j]] = next[es[o][j]]
                      /\ prev'[es[o][j]] = prev[es[o][j]]
                      /\ pkt'[es[o][j]] = pkt[es[o][j]]
    OBVIOUS
  <2>2. /\ es[o][j] \in Elems /\ es[o][j] # e
        /\ es[o][j] # next[e] /\ es[o][j] # prev[e]
    <3>1. es[o][j] \in Elems /\ es[o][j] # NULL
      BY <1>3, <1>4
    <3>2. \A i \in 1..n : es[o][j] # c[i]
      BY <1>4
    <3>3. m \in 1..n /\ (m # n => m + 1 \in 1..n) /\ (m # 1 => m - 1 \in 1..n)
      BY <1>4
    <3> QED BY <1>5, <3>1, <3>2, <3>3
  <2> QED BY <1>8, <2>2
<1>16. \A i \in 1..Len(s) : pkt'[s[i]] \in Requests /\ \E j \in 1..n : s[i] = c[j]
  BY <1>12, <1>13
<1> HIDE DEF c
<1>17. Alone(es[o], o)
  BY <1>9, <1>15 DEF Alone
<1>18. \A i \in 1..Len(s) : pkt'[s[i]] \in Requests /\ \E j \in 1..Len(es[q]) : s[i] = es[q][j]
  BY <1>16 DEF c
<1> QED BY <1>2, <1>11, <1>14, <1>17, <1>18, ListChange

\* The links lead through the elements of a queue, from either end.
LEMMA ListElements ==
    ASSUME NEW es, Chains(es), NEW q \in Queues
    PROVE  /\ List(q) = es[q]
           /\ Walk(last[q], prev) = Reverse(es[q])
<1> DEFINE c == es[q]  n == Len(c)  r == Reverse(c)
<1>1. c \in Seq(Elems) /\ n \in Nat /\ Distinct(c) /\ Linked(c, first[q], last[q], next, prev)
  BY DEF Chains
<1>2. Walk(first[q], next) = c
  <2>1. /\ first[q] = IF n = 0 THEN NULL ELSE c[1]
        /\ \A i \in 1..n : next[c[i]] = IF i = n THEN NULL ELSE c[i + 1]
    BY <1>1 DEF Linked
  <2> QED BY <1>1, <2>1, WalkLinked
<1>3. r \in Seq(Elems) /\ Len(r) = n /\ \A i \in 1..n : r[i] = c[(n - i) + 1]
  BY <1>1 DEF Reverse
<1> HIDE DEF r
<1>4. Distinct(r)
  <2> SUFFICES ASSUME NEW i \in 1..n, NEW j \in 1..n, r[i] = r[j] PROVE i = j
    BY <1>3 DEF Distinct
  <2>1. (n - i) + 1 \in 1..n /\ (n - j) + 1 \in 1..n /\ c[(n - i) + 1] = c[(n - j) + 1]
    BY <1>1, <1>3
  <2>2. (n - i) + 1 = (n - j) + 1
    BY <1>1, <2>1 DEF Distinct
  <2> QED BY <1>1, <2>2
<1>5. last[q] = IF Len(r) = 0 THEN NULL ELSE r[1]
  <2>1. last[q] = IF n = 0 THEN NULL ELSE c[n]
    BY <1>1 DEF Linked
  <2>2. n # 0 => r[1] = c[(n - 1) + 1] /\ (n - 1) + 1 = n
    BY <1>1, <1>3
  <2> QED BY <1>3, <2>1, <2>2
<1>6. \A i \in 1..Len(r) : prev[r[i]] = IF i = Len(r) THEN NULL ELSE r[i + 1]
  <2> SUFFICES ASSUME NEW i \in 1..n PROVE prev[r[i]] = IF i = n THEN NULL ELSE r[i + 1]
    BY <1>3
  <2> DEFINE k == (n - i) + 1
  <2>1. k \in 1..n /\ r[i] = c[k] /\ (k = 1 <=> i = n)
    BY <1>1, <1>3
  <2>2. prev[c[k]] = IF k = 1 THEN NULL ELSE c[k - 1]
    BY <1>1, <2>1 DEF Linked
  <2>3. i # n => r[i + 1] = c[k - 1]
    <3>1. i # n => i + 1 \in 1..n /\ (n - (i + 1)) + 1 = k - 1
      BY <1>1
    <3> QED BY <1>3, <3>1
  <2> QED BY <2>1, <2>2, <2>3
<1>7. Walk(last[q], prev) = r
  BY <1>3, <1>4, <1>5, <1>6, WalkLinked
<1> QED BY <1>2, <1>7 DEF List, r

LEMMA ThreadInit == Init => ThreadInv
BY UsbAssumption DEF Init, ThreadInv, Queues, Threads

LEMMA ListInit == Init => ListInv
<1> SUFFICES ASSUME Init PROVE ListInv
  OBVIOUS
<1>1. PICK es : es = [q \in Queues |-> <<>>]
  OBVIOUS
<1>2. es \in [Queues -> Seq(Elems)] /\ \A q \in Queues : es[q] = <<>> /\ Len(es[q]) = 0
  BY <1>1
<1>3. \A q \in Queues : Content(es[q], q)
  <2>1. Packets(<<>>) = <<>>
    BY DEF Packets
  <2> QED BY <1>2, <2>1 DEF Content, Init
<1>4. \A q \in Queues : Linked(es[q], first[q], last[q], next, prev) /\ Distinct(es[q])
  BY <1>2 DEF Linked, Distinct, Init
<1>5. Chains(es)
  BY <1>2, <1>3, <1>4 DEF Chains
<1> QED BY <1>5 DEF ListInv

\* The first element of a queue that has one.
LEMMA FirstElement ==
    ASSUME NEW es, Chains(es), NEW q \in Queues, first[q] # NULL
    PROVE  /\ 1 \in 1..Len(es[q]) /\ first[q] = es[q][1] /\ pkt[first[q]] \in Requests
<1>1. es[q] \in Seq(Elems) /\ Linked(es[q], first[q], last[q], next, prev)
  BY DEF Chains
<1>2. 1 \in 1..Len(es[q]) /\ first[q] = es[q][1]
  BY <1>1 DEF Linked
<1> QED BY <1>2 DEF Chains

\* The request an answer is for, in a queue nobody is changing.
LEMMA AnswerElement ==
    ASSUME NEW es, Chains(es), NEW q \in Queues, lock[q] = NULL, NEW id,
           Expects(Packets(List(q)), id)
    PROVE  /\ List(q) = es[q] /\ Packets(es[q]) = abs[q] /\ abs[q] \in Seq(Requests)
           /\ Len(abs[q]) = Len(es[q])
           /\ Expects(abs[q], id)
           /\ Match(abs[q], id) \in 1..Len(abs[q])
<1>1. List(q) = es[q] /\ Packets(es[q]) = abs[q]
  BY ListElements DEF Chains, Content
<1>2. abs[q] \in Seq(Requests) /\ Len(abs[q]) = Len(es[q])
  <2>1. es[q] \in Seq(Elems) /\ \A i \in 1..Len(es[q]) : pkt[es[q][i]] \in Requests
    BY DEF Chains
  <2>2. Packets(es[q]) \in Seq(Requests) /\ Len(Packets(es[q])) = Len(es[q])
    BY <2>1 DEF Packets
  <2> QED BY <1>1, <2>2
<1>3. Expects(abs[q], id)
  BY <1>1
<1> QED BY <1>1, <1>2, <1>3, MatchPlace

LEMMA ListStep == ListInv /\ ThreadInv /\ [Next]_vars => ListInv'
<1> SUFFICES ASSUME ListInv, ThreadInv, [Next]_vars PROVE ListInv'
  OBVIOUS
<1>0. "send" \in Queues /\ "receive" \in Queues /\ WRITER \in Threads /\ Modules \subseteq Threads
  BY DEF Queues, Threads
<1>1. ASSUME NEW r \in Requests, process_pkt_payload(r) PROVE ListInv'
  <2>1. r.id_process \in Modules /\ pc[r.id_process] = "idle" /\ push_append(r.id_process, "send", r)
    BY <1>1, UsbAssumption DEF process_pkt_payload
  <2>2. \A o \in Queues : lock[o] # r.id_process
    <3>1. r.id_process # NULL
      BY <2>1, UsbAssumption
    <3> QED BY <2>1, <3>1 DEF ThreadInv
  <2> QED BY <1>0, <2>1, <2>2, ListAppend
<1>2. ASSUME NEW t \in Threads, NEW q \in Queues, push_swap(t, q) PROVE ListInv'
  BY <1>2, ListSwap
<1>3. ASSUME NEW t \in Threads, NEW q \in Queues, push_end(t, q) PROVE ListInv'
  BY <1>3, ListSettled
<1>4. CASE sdb_queue_pop_block
  <2>1. CASE first["send"] = NULL
    BY <1>4, <2>1, ListKept DEF sdb_queue_pop_block
  <2>2. CASE first["send"] # NULL
    <3>1. PICK es : Chains(es)
      BY DEF ListInv
    <3>2. 1 \in 1..Len(es["send"]) /\ first["send"] = es["send"][1]
      BY <1>0, <2>2, <3>1, FirstElement
    <3>3. /\ lock["send"] = NULL /\ sdb_queue_delete("send", es["send"][1])
          /\ UNCHANGED <<lock, elem>> /\ abs' = [abs EXCEPT !["send"] = Tail(@)]
      BY <1>4, <2>2, <3>2 DEF sdb_queue_pop_block
    <3>4. Tail(abs["send"]) = Delete(abs["send"], 1)
      <4>1. abs["send"] = Packets(es["send"]) /\ es["send"] \in Seq(Elems)
        BY <1>0, <3>1, <3>3 DEF Chains, Content
      <4>2. Len(abs["send"]) = Len(es["send"]) /\ abs["send"] \in Seq(Requests)
        BY <1>0, <4>1 DEF Packets, ThreadInv
      <4>3. abs["send"] # <<>>
        BY <3>2, <4>2
      <4> QED BY <4>2, <4>3 DEF Delete
    <3>5. abs' = [abs EXCEPT !["send"] = Delete(@, 1)]
      BY <3>3, <3>4
    <3> QED BY <1>0, <3>1, <3>2, <3>3, <3>5, ListDelete
  <2> QED BY <2>1, <2>2
<1>5. CASE pop_block_woken
  BY <1>5, ListKept DEF pop_block_woken
<1>6. CASE mcs_to_usb
  <2>1. pc[WRITER] = "convert" /\ hand \in Requests /\ push_append(WRITER, "receive", hand)
    BY <1>6 DEF mcs_to_usb, ThreadInv
  <2>2. \A o \in Queues : lock[o] # WRITER
    <3>1. WRITER # NULL
      BY UsbAssumption
    <3> QED BY <2>1, <3>1 DEF ThreadInv
  <2> QED BY <1>0, <2>1, <2>2, ListAppend
<1>7. CASE mcs_to_usb_error
  BY <1>7, ListKept DEF mcs_to_usb_error
<1>8. CASE usb_write
  BY <1>8, ListKept DEF usb_write
<1>9. CASE device
  BY <1>9, ListKept DEF device
<1>10. CASE usb_read
  <2> DEFINE id == Head(up)  m == Match(abs["receive"], id)
  <2>1. CASE id = NULL \/ ~Expects(Packets(List("receive")), id)
    BY <1>10, <2>1, ListKept DEF usb_read
  <2>2. CASE ~(id = NULL \/ ~Expects(Packets(List("receive")), id))
    <3>1. PICK es : Chains(es)
      BY DEF ListInv
    <3>2. lock["receive"] = NULL
      BY <1>10 DEF usb_read
    <3>3. /\ List("receive") = es["receive"] /\ Packets(es["receive"]) = abs["receive"]
          /\ m \in 1..Len(es["receive"])
      BY <1>0, <2>2, <3>1, <3>2, AnswerElement
    <3>4. /\ sdb_queue_delete("receive", es["receive"][m])
          /\ abs' = [abs EXCEPT !["receive"] = Delete(@, m)]
          /\ UNCHANGED <<lock, elem>>
      BY <1>10, <2>2, <3>3 DEF usb_read
    <3>5. PICK k : k = m
      OBVIOUS
    <3> HIDE DEF m
    <3> QED BY <1>0, <3>1, <3>2, <3>3, <3>4, <3>5, ListDelete
  <2> QED BY <2>1, <2>2
<1>11. CASE UNCHANGED vars
  BY <1>11, ListKept DEF vars
<1> QED
  BY <1>1, <1>2, <1>3, <1>4, <1>5, <1>6, <1>7, <1>8, <1>9, <1>10, <1>11 DEF Next, sdb_usb_thread_write

\* A push takes a lock nobody has and leaves the threads of the other queue alone.
LEMMA ThreadAppend ==
    ASSUME ThreadInv, NEW t \in Threads, NEW q \in Queues, NEW r \in Requests,
           push_append(t, q, r), t = WRITER <=> q = "receive",
           t = WRITER => hand' \in Requests, t # WRITER => hand' = hand
    PROVE  ThreadInv'
<1>1. /\ lock' = [lock EXCEPT ![q] = t] /\ pc' = [pc EXCEPT ![t] = "swap"]
      /\ DOMAIN first' = DOMAIN first /\ DOMAIN last' = DOMAIN last
      /\ DOMAIN next' = DOMAIN next /\ DOMAIN prev' = DOMAIN prev /\ DOMAIN pkt' = DOMAIN pkt
      /\ DOMAIN elem' = DOMAIN elem
      /\ abs' = [abs EXCEPT ![q] = Push(abs[q], r)]
  BY DEF push_append
<1>2. abs' \in [Queues -> Seq(Requests)]
  <2>1. IsElemSet(Requests)
    BY UsbAssumption DEF IsElemSet
  <2>2. Push(abs[q], r) \in Seq(Requests)
    BY <2>1, PushElements DEF ThreadInv
  <2> QED BY <1>1, <2>2 DEF ThreadInv
<1>3. /\ DOMAIN pc = Threads /\ DOMAIN lock = Queues
      /\ Queues = {"send", "receive"} /\ Threads = Modules \cup {WRITER}
      /\ WRITER \notin Modules /\ NULL \notin Threads
  BY UsbAssumption DEF ThreadInv, Queues, Threads
<1>4. lock'["send"] \in Modules \cup {NULL} /\ lock'["receive"] \in {WRITER, NULL}
  BY <1>1, <1>3 DEF ThreadInv
<1>5. \A x \in Queues : lock'[x] # NULL => pc'[lock'[x]] = "swap"
  <2> SUFFICES ASSUME NEW x \in Queues, lock'[x] # NULL PROVE pc'[lock'[x]] = "swap"
    OBVIOUS
  <2>1. lock'[x] \in Threads
    BY <1>3, <1>4
  <2>2. CASE x = q
    BY <1>1, <1>3, <2>2
  <2>3. CASE x # q
    <3>1. lock'[x] = lock[x] /\ pc[lock[x]] = "swap"
      BY <1>1, <1>3, <2>3 DEF ThreadInv
    <3> QED BY <1>1, <1>3, <2>1, <3>1
  <2> QED BY <2>2, <2>3
<1>6. pc'[WRITER] \in {"convert", "swap", "write"} => hand' \in Requests
  BY <1>1, <1>3 DEF ThreadInv
<1> QED BY <1>1, <1>2, <1>3, <1>4, <1>5, <1>6 DEF ThreadInv

\* A step that takes or releases no lock.
LEMMA ThreadKept ==
    ASSUME ThreadInv, UNCHANGED <<lock, elem>>,
           DOMAIN pc' = DOMAIN pc, \A t \in Modules : pc'[t] = pc[t],
           pc[WRITER] # "swap" \/ pc'[WRITER] = "swap",
           DOMAIN first' = Queues, DOMAIN last' = Queues,
           DOMAIN next' = Elems, DOMAIN prev' = Elems, DOMAIN pkt' = Elems,
           abs' \in [Queues -> Seq(Requests)],
           pc'[WRITER] \in {"convert", "swap", "write"} => hand' \in Requests
    PROVE  ThreadInv'
<1>1. \A q \in Queues : lock[q] # NULL => pc'[lock[q]] = "swap"
  BY DEF ThreadInv, Queues
<1> QED BY <1>1 DEF ThreadInv

LEMMA ThreadStep == ThreadInv /\ ListInv /\ [Next]_vars => ThreadInv'
<1> SUFFICES ASSUME ThreadInv, ListInv, [Next]_vars PROVE ThreadInv'
  OBVIOUS
<1>0. "send" \in Queues /\ "receive" \in Queues /\ WRITER \in Threads /\ Modules \subseteq Threads
  BY DEF Queues, Threads
<1>a. /\ DOMAIN first = Queues /\ DOMAIN last = Queues /\ DOMAIN pc = Threads
      /\ DOMAIN next = Elems /\ DOMAIN prev = Elems /\ DOMAIN pkt = Elems
      /\ abs \in [Queues -> Seq(Requests)] /\ WRITER \notin Modules
  BY UsbAssumption DEF ThreadInv
<1>1. ASSUME NEW r \in Requests, process_pkt_payload(r) PROVE ThreadInv'
  <2>1. r.id_process \in Modules /\ push_append(r.id_process, "send", r) /\ hand' = hand
    BY <1>1, UsbAssumption DEF process_pkt_payload
  <2>2. r.id_process # WRITER
    BY <2>1, <1>a
  <2> QED BY <1>0, <2>1, <2>2, ThreadAppend
<1>2. ASSUME NEW t \in Threads, NEW q \in Queues, push_swap(t, q) PROVE ThreadInv'
  <2>1. /\ DOMAIN first' = Queues /\ DOMAIN last' = Queues
        /\ DOMAIN next' = Elems /\ DOMAIN prev' = Elems
        /\ UNCHANGED <<pc, pkt, lock, elem, hand, abs>>
    BY <1>2, <1>a DEF push_swap
  <2> QED BY <1>a, <2>1, ThreadKept DEF ThreadInv
<1>3. ASSUME NEW t \in Threads, NEW q \in Queues, push_end(t, q) PROVE ThreadInv'
  <2>1. /\ lock[q] = t /\ lock' = [lock EXCEPT ![q] = NULL] /\ DOMAIN elem' = DOMAIN elem
        /\ UNCHANGED <<first, last, next, prev, pkt, hand, abs>> /\ pc[t] = "swap"
        /\ pc' = [pc EXCEPT ![t] = IF t = WRITER THEN "write" ELSE "idle",
                            ![WRITER] = IF q = "send" /\ @ = "wait" THEN "woken"
                                        ELSE IF t = WRITER THEN "write" ELSE @]
    BY <1>3 DEF push_end, list
  <2>2. PICK o \in Queues : o # q
    BY DEF Queues
  <2>3. /\ lock'[q] = NULL /\ lock'[o] = lock[o] /\ Queues = {q, o}
        /\ DOMAIN lock' = Queues /\ DOMAIN pc' = Threads
    BY <1>a, <2>1, <2>2 DEF ThreadInv, Queues
  <2>4. lock[o] # NULL => lock[o] # t /\ lock[o] \in Threads
    BY <2>1, <2>2, UsbAssumption DEF ThreadInv, Queues, Threads
  <2>5. \A x \in Threads : pc[x] = "swap" /\ x # t => pc'[x] = "swap"
    BY <1>0, <1>a, <2>1
  <2>6. lock[o] # NULL => pc'[lock[o]] = "swap"
    BY <2>4, <2>5 DEF ThreadInv
  <2>7. pc'[WRITER] \in {"convert", "swap", "write"} => pc[WRITER] \in {"convert", "swap", "write"}
    BY <1>0, <1>a, <2>1
  <2>8. lock'["send"] \in Modules \cup {NULL} /\ lock'["receive"] \in {WRITER, NULL}
    BY <1>0, <2>3 DEF ThreadInv
  <2> QED BY <2>1, <2>3, <2>6, <2>7, <2>8 DEF ThreadInv
<1>4. CASE sdb_queue_pop_block
  <2>1. CASE first["send"] = NULL
    <3>1. UNCHANGED <<list, hand, abs, lock, elem>> /\ pc' = [pc EXCEPT ![WRITER] = "wait"]
          /\ pc[WRITER] = "pop"
      BY <1>4, <2>1 DEF sdb_queue_pop_block
    <3> QED BY <1>0, <1>a, <3>1, ThreadKept DEF list
  <2>2. CASE first["send"] # NULL
    <3>1. PICK es : Chains(es)
      BY DEF ListInv
    <3>2. pkt[first["send"]] \in Requests
      BY <1>0, <2>2, <3>1, FirstElement
    <3>3. /\ pc[WRITER] = "pop" /\ lock["send"] = NULL
          /\ hand' = pkt[first["send"]] /\ sdb_queue_delete("send", first["send"])
          /\ pc' = [pc EXCEPT ![WRITER] = "convert"] /\ UNCHANGED <<lock, elem>>
          /\ abs' = [abs EXCEPT !["send"] = Tail(@)]
      BY <1>4, <2>2 DEF sdb_queue_pop_block
    <3>4. /\ DOMAIN first' = Queues /\ DOMAIN last' = Queues
          /\ DOMAIN next' = Elems /\ DOMAIN prev' = Elems /\ DOMAIN pkt' = Elems
      BY <1>a, <3>3 DEF sdb_queue_delete
    <3>5. abs["send"] # <<>>
      <4>1. abs["send"] = Packets(es["send"]) /\ es["send"] \in Seq(Elems)
        BY <1>0, <3>1, <3>3 DEF Chains, Content
      <4>2. Len(abs["send"]) = Len(es["send"]) /\ 1 \in 1..Len(es["send"])
        BY <1>0, <2>2, <3>1, <4>1, FirstElement DEF Packets
      <4> QED BY <4>1, <4>2
    <3>6. Tail(abs["send"]) \in Seq(Requests)
      BY <1>0, <1>a, <3>5
    <3>7. abs' \in [Queues -> Seq(Requests)]
      BY <1>a, <3>3, <3>6
    <3> QED BY <1>0, <1>a, <3>2, <3>3, <3>4, <3>7, ThreadKept
  <2> QED BY <2>1, <2>2
<1>5. CASE pop_block_woken
  BY <1>a, <1>5, ThreadKept DEF pop_block_woken, list, ThreadInv
<1>6. CASE mcs_to_usb
  <2>1. hand \in Requests /\ push_append(WRITER, "receive", hand) /\ hand' = hand
    BY <1>6 DEF mcs_to_usb, ThreadInv
  <2> QED BY <1>0, <2>1, ThreadAppend
<1>7. CASE mcs_to_usb_error
  BY <1>a, <1>7, ThreadKept DEF mcs_to_usb_error, list, ThreadInv
<1>8. CASE usb_write
  BY <1>0, <1>a, <1>8, ThreadKept DEF usb_write, list
<1>9. CASE device
  BY <1>a, <1>9, ThreadKept DEF device, list, ThreadInv
<1>10. CASE usb_read
  <2> DEFINE id == Head(up)  m == Match(abs["receive"], id)
  <2>0. UNCHANGED <<pc, lock, elem, hand>> /\ lock["receive"] = NULL
    BY <1>10 DEF usb_read
  <2>1. CASE id = NULL \/ ~Expects(Packets(List("receive")), id)
    BY <1>a, <1>10, <2>0, <2>1, ThreadKept DEF usb_read, list, ThreadInv
  <2>2. CASE ~(id = NULL \/ ~Expects(Packets(List("receive")), id))
    <3>1. PICK es : Chains(es)
      BY DEF ListInv
    <3>2. m \in 1..Len(abs["receive"])
      BY <1>0, <2>0, <2>2, <3>1, AnswerElement
    <3>3. /\ abs' = [abs EXCEPT !["receive"] = Delete(@, m)]
          /\ \E e : sdb_queue_delete("receive", e)
      BY <1>10, <2>2 DEF usb_read
    <3>4. /\ DOMAIN first' = Queues /\ DOMAIN last' = Queues
          /\ DOMAIN next' = Elems /\ DOMAIN prev' = Elems /\ DOMAIN pkt' = Elems
      BY <1>a, <3>3 DEF sdb_queue_delete
    <3>5. Delete(abs["receive"], m) \in Seq(Requests)
      BY <1>0, <1>a, <3>2, DeleteElements
    <3>6. abs' \in [Queues -> Seq(Requests)]
      BY <1>a, <3>3, <3>5
    <3> QED BY <1>a, <2>0, <3>4, <3>6, ThreadKept DEF ThreadInv
  <2> QED BY <2>1, <2>2
<1>11. CASE UNCHANGED vars
  BY <1>a, <1>11, ThreadKept DEF vars, list, ThreadInv
<1> QED
  BY <1>1, <1>2, <1>3, <1>4, <1>5, <1>6, <1>7, <1>8, <1>9, <1>10, <1>11 DEF Next, sdb_usb_thread_write

\* Whatever the swaps and deletions do to the links, the list of a queue nobody is
\* changing holds what pushes and pops of a priority queue give, from either end.
THEOREM ListsAreQueues == Spec => []ListIsQueue
<1>1. Init => ThreadInv /\ ListInv
  BY ThreadInit, ListInit
<1>2. ThreadInv /\ ListInv /\ [Next]_vars => ThreadInv' /\ ListInv'
  BY ThreadStep, ListStep
<1>3. ListInv => ListIsQueue
  <2> SUFFICES ASSUME ListInv, NEW q \in Queues, lock[q] = NULL
               PROVE  /\ Packets(List(q)) = abs[q]
                      /\ Walk(last[q], prev) = Reverse(List(q))
    BY DEF ListIsQueue
  <2>1. PICK es : Chains(es)
    BY DEF ListInv
  <2>2. List(q) = es[q] /\ Walk(last[q], prev) = Reverse(es[q])
    BY <2>1, ListElements
  <2>3. abs[q] = Packets(es[q])
    BY <2>1 DEF Chains, Content
  <2> QED BY <2>2, <2>3
<1> QED BY <1>1, <1>2, <1>3, PTL DEF Spec

-----------------------------------------------------------------------------
(* Answers find their requests.                                            *)

\* Every id has a packet of the queue of its own.
MatchedBy(f, ids, q) ==
    /\ f \in [1..Len(ids) -> 1..Len(q)]
    /\ \A i, j \in 1..Len(ids) : f[i] = f[j] => i = j
    /\ \A i \in 1..Len(ids) : ids[i] # NULL => Closes(q[f[i]], ids[i])
Matched(ids, q) == \E f : MatchedBy(f, ids, q)

LEMMA MatchedPush ==
    ASSUME NEW S, NEW T, NEW ids \in Seq(T), NEW q \in Seq(S), NEW r \in Seq(S), NEW k, NEW e,
           Inserted(q, k, e, r), Matched(ids, q), e.id \in T
    PROVE  Matched(Append(ids, e.id), r)
<1>1. PICK f : MatchedBy(f, ids, q)
  BY DEF Matched
<1> DEFINE n == Len(ids)
           g == [i \in 1..(n + 1) |-> IF i = n + 1 THEN k ELSE IF f[i] < k THEN f[i] ELSE f[i] + 1]
<1>2. /\ n \in Nat /\ Len(q) \in Nat /\ Len(r) = Len(q) + 1 /\ k \in 1..(Len(q) + 1)
      /\ \A i \in 1..Len(r) : r[i] = IF i < k THEN q[i] ELSE IF i = k THEN e ELSE q[i - 1]
      /\ \A i \in 1..n : f[i] \in 1..Len(q)
      /\ \A i, j \in 1..n : f[i] = f[j] => i = j
      /\ \A i \in 1..n : ids[i] # NULL => Closes(q[f[i]], ids[i])
  BY <1>1 DEF MatchedBy, Inserted
<1>3. /\ g[n + 1] = k
      /\ \A i \in 1..n : g[i] = IF f[i] < k THEN f[i] ELSE f[i] + 1
      /\ g \in [1..(n + 1) -> 1..Len(r)]
  BY <1>2
<1> HIDE DEF g
<1>4. \A i, j \in 1..(n + 1) : g[i] = g[j] => i = j
  <2> SUFFICES ASSUME NEW i \in 1..(n + 1), NEW j \in 1..(n + 1), g[i] = g[j] PROVE i = j
    OBVIOUS
  <2>0. ASSUME NEW x \in 1..n PROVE g[x] # k
    <3>1. f[x] \in Nat /\ k \in Nat /\ g[x] = IF f[x] < k THEN f[x] ELSE f[x] + 1
      BY <1>2, <1>3
    <3> QED BY <3>1
  <2>1. CASE i = n + 1 /\ j # n + 1
    BY <1>2, <1>3, <2>0, <2>1
  <2>2. CASE i # n + 1 /\ j = n + 1
    BY <1>2, <1>3, <2>0, <2>2
  <2>3. CASE i # n + 1 /\ j # n + 1
    <3>1. i \in 1..n /\ j \in 1..n
      BY <1>2, <2>3
    <3>2. f[i] = f[j]
      BY <1>2, <1>3, <3>1
    <3> QED BY <1>2, <3>1, <3>2
  <2> QED BY <2>1, <2>2, <2>3
<1>5. \A i \in 1..n : r[g[i]] = q[f[i]]
  BY <1>2, <1>3
<1>6. /\ Len(Append(ids, e.id)) = n + 1 /\ Append(ids, e.id)[n + 1] = e.id
      /\ \A i \in 1..n : Append(ids, e.id)[i] = ids[i]
  OBVIOUS
<1>7. r[g[n + 1]] = e
  BY <1>2, <1>3
<1>8. \A i \in 1..(n + 1) : Append(ids, e.id)[i] # NULL => Closes(r[g[i]], Append(ids, e.id)[i])
  <2> SUFFICES ASSUME NEW i \in 1..(n + 1), Append(ids, e.id)[i] # NULL
               PROVE  Closes(r[g[i]], Append(ids, e.id)[i])
    OBVIOUS
  <2>1. CASE i = n + 1
    BY <1>6, <1>7, <2>1 DEF Closes
  <2>2. CASE i # n + 1
    <3>1. i \in 1..n
      BY <1>2, <2>2
    <3> QED BY <1>2, <1>5, <1>6, <3>1
  <2> QED BY <2>1, <2>2
<1>9. MatchedBy(g, Append(ids, e.id), r)
  BY <1>3, <1>4, <1>6, <1>8 DEF MatchedBy
<1> QED BY <1>9 DEF Matched

\* Ids may become NULL, and the first one may go.
LEMMA MatchedLess ==
    ASSUME NEW T, NEW ids \in Seq(T), NEW ids2 \in Seq(T), NEW q, Matched(ids, q),
           Len(ids2) = Len(ids), \A i \in 1..Len(ids) : ids2[i] \in {ids[i], NULL}
    PROVE  Matched(ids2, q)
<1>1. PICK f : MatchedBy(f, ids, q)
  BY DEF Matched
<1>2. MatchedBy(f, ids2, q)
  BY <1>1 DEF MatchedBy
<1> QED BY <1>2 DEF Matched

LEMMA MatchedTail ==
    ASSUME NEW T, NEW ids \in Seq(T), ids # <<>>, NEW q, Matched(ids, q)
    PROVE  Matched(Tail(ids), q)
<1>1. PICK f : MatchedBy(f, ids, q)
  BY DEF Matched
<1> DEFINE n == Len(ids)  g == [i \in 1..(n - 1) |-> f[i + 1]]
<1>2. /\ n \in Nat /\ Len(Tail(ids)) = n - 1
      /\ \A i \in 1..(n - 1) : Tail(ids)[i] = ids[i + 1] /\ i + 1 \in 1..n
  OBVIOUS
<1>3. MatchedBy(g, Tail(ids), q)
  <2>1. g \in [1..(n - 1) -> 1..Len(q)]
    BY <1>1, <1>2 DEF MatchedBy
  <2>2. \A i, j \in 1..(n - 1) : g[i] = g[j] => i = j
    <3> SUFFICES ASSUME NEW i \in 1..(n - 1), NEW j \in 1..(n - 1), g[i] = g[j] PROVE i = j
      OBVIOUS
    <3>1. f[i + 1] = f[j + 1] /\ i + 1 \in 1..n /\ j + 1 \in 1..n
      BY <1>2
    <3>2. i + 1 = j + 1
      BY <1>1, <3>1 DEF MatchedBy
    <3> QED BY <3>2
  <2>3. \A i \in 1..(n - 1) : Tail(ids)[i] # NULL => Closes(q[g[i]], Tail(ids)[i])
    BY <1>1, <1>2 DEF MatchedBy
  <2> QED BY <1>2, <2>1, <2>2, <2>3 DEF MatchedBy
<1> QED BY <1>3 DEF Matched

\* The first id goes with a packet it closes: if that was the packet of another id,
\* that one has the same id and gets the packet of the first.
LEMMA MatchedDelete ==
    ASSUME NEW S, NEW T, NEW ids \in Seq(T), ids # <<>>, NEW q \in Seq(S), Matched(ids, q),
           ids[1] # NULL, NEW m \in 1..Len(q), Closes(q[m], ids[1])
    PROVE  Matched(Tail(ids), Delete(q, m))
<1>1. PICK f : MatchedBy(f, ids, q)
  BY DEF Matched
<1> DEFINE n == Len(ids)
           h == [i \in 1..n |-> IF f[i] = m THEN f[1] ELSE f[i]]
           g == [i \in 1..(n - 1) |-> IF h[i + 1] < m THEN h[i + 1] ELSE h[i + 1] - 1]
           d == Delete(q, m)
<1>2. /\ n \in Nat /\ 1 \in 1..n /\ Len(Tail(ids)) = n - 1
      /\ \A i \in 1..(n - 1) : Tail(ids)[i] = ids[i + 1] /\ i + 1 \in 1..n /\ i + 1 # 1
  OBVIOUS
<1>3. /\ Len(q) \in Nat /\ Len(d) = Len(q) - 1
      /\ \A i \in 1..(Len(q) - 1) : d[i] = IF i < m THEN q[i] ELSE q[i + 1]
  BY DeleteElements DEF Delete
<1>4. /\ \A i \in 1..n : f[i] \in 1..Len(q)
      /\ \A i, j \in 1..n : f[i] = f[j] => i = j
      /\ \A i \in 1..n : ids[i] # NULL => Closes(q[f[i]], ids[i])
  BY <1>1 DEF MatchedBy
<1>5. \A i \in 1..n : h[i] = (IF f[i] = m THEN f[1] ELSE f[i]) /\ h[i] \in 1..Len(q)
  BY <1>2, <1>4
<1> HIDE DEF h, d
<1>6. \A i \in 1..n : i # 1 => h[i] # m /\ (ids[i] # NULL => Closes(q[h[i]], ids[i]))
  <2> SUFFICES ASSUME NEW i \in 1..n, i # 1
               PROVE  h[i] # m /\ (ids[i] # NULL => Closes(q[h[i]], ids[i]))
    OBVIOUS
  <2>1. CASE f[i] = m
    <3>1. h[i] = f[1] /\ f[1] # f[i]
      BY <1>2, <1>4, <1>5, <2>1
    <3>2. Closes(q[f[1]], ids[1])
      BY <1>2, <1>4
    <3>3. ids[i] # NULL => Closes(q[m], ids[i])
      BY <1>4, <2>1
    <3> QED BY <2>1, <3>1, <3>2, <3>3 DEF Closes
  <2>2. CASE f[i] # m
    BY <1>4, <1>5, <2>2
  <2> QED BY <2>1, <2>2
<1>7. \A i, j \in 1..n : i # 1 /\ j # 1 /\ h[i] = h[j] => i = j
  BY <1>2, <1>4, <1>5
<1>8. /\ g \in [1..(n - 1) -> 1..(Len(q) - 1)]
      /\ \A i \in 1..(n - 1) : g[i] = IF h[i + 1] < m THEN h[i + 1] ELSE h[i + 1] - 1
  BY <1>2, <1>3, <1>5, <1>6
<1> HIDE DEF g
<1>9. \A i \in 1..(n - 1) : d[g[i]] = q[h[i + 1]]
  <2> SUFFICES ASSUME NEW i \in 1..(n - 1) PROVE d[g[i]] = q[h[i + 1]]
    OBVIOUS
  <2>1. PICK k \in 1..Len(q) : k = h[i + 1] /\ k # m
    BY <1>2, <1>5, <1>6
  <2>2. g[i] = (IF k < m THEN k ELSE k - 1) /\ g[i] \in 1..(Len(q) - 1)
    BY <1>8, <2>1
  <2>3. CASE k < m
    BY <1>3, <2>1, <2>2, <2>3
  <2>4. CASE k > m
    <3>1. g[i] = k - 1 /\ ~(g[i] < m) /\ g[i] + 1 = k
      BY <1>3, <2>2, <2>4
    <3> QED BY <1>3, <2>1, <2>2, <3>1
  <2> QED BY <1>3, <2>1, <2>3, <2>4
<1>10. \A i, j \in 1..(n - 1) : g[i] = g[j] => i = j
  <2> SUFFICES ASSUME NEW i \in 1..(n - 1), NEW j \in 1..(n - 1), g[i] = g[j] PROVE i = j
    OBVIOUS
  <2>1. /\ i + 1 \in 1..n /\ j + 1 \in 1..n /\ i + 1 # 1 /\ j + 1 # 1
        /\ h[i + 1] # m /\ h[j + 1] # m /\ h[i + 1] \in Nat /\ h[j + 1] \in Nat
    BY <1>2, <1>5, <1>6
  <2>2. h[i + 1] = h[j + 1]
    BY <1>8, <2>1
  <2>3. i + 1 = j + 1
    BY <1>7, <2>1, <2>2
  <2> QED BY <2>3
<1>11. MatchedBy(g, Tail(ids), d)
  BY <1>2, <1>3, <1>6, <1>8, <1>9, <1>10 DEF MatchedBy
<1> QED BY <1>11 DEF Matched, d

\* The ids the reading thread and the device have not dealt with, and the one of
\* the request that is remembered and not yet written.
Remembered == pc[WRITER] \in {"swap", "write"}
Unwritten == IF Remembered THEN <<hand.id>> ELSE <<>>
Flight == (up \o down) \o Unwritten

Ids == Nat \cup {NULL}

FlightInv ==
    /\ up \in Seq(Ids) /\ down \in Seq(Nat)
    /\ Matched(Flight, abs["receive"])

LEMMA Concatenated ==
    ASSUME NEW T, NEW a \in Seq(T), NEW b \in Seq(T)
    PROVE  /\ a \o b \in Seq(T) /\ Len(a \o b) = Len(a) + Len(b)
           /\ \A i \in 1..(Len(a) + Len(b)) :
                 (a \o b)[i] = IF i <= Len(a) THEN a[i] ELSE b[i - Len(a)]
OBVIOUS

LEMMA WayIds ==
    ASSUME NEW u \in Seq(Ids), NEW d \in Seq(Ids), NEW x \in Seq(Ids)
    PROVE  /\ (u \o d) \o x \in Seq(Ids)
           /\ Len((u \o d) \o x) = Len(u) + Len(d) + Len(x)
           /\ \A i \in 1..(Len(u) + Len(d) + Len(x)) :
                 ((u \o d) \o x)[i] = IF i <= Len(u) THEN u[i]
                                     ELSE IF i <= Len(u) + Len(d) THEN d[i - Len(u)]
                                     ELSE x[i - (Len(u) + Len(d))]
<1> DEFINE y == u \o d  z == y \o x
<1>1. /\ y \in Seq(Ids) /\ Len(y) = Len(u) + Len(d)
      /\ \A i \in 1..(Len(u) + Len(d)) : y[i] = IF i <= Len(u) THEN u[i] ELSE d[i - Len(u)]
  BY Concatenated
<1> HIDE DEF y
<1>2. /\ z \in Seq(Ids) /\ Len(z) = Len(y) + Len(x)
      /\ \A i \in 1..(Len(y) + Len(x)) : z[i] = IF i <= Len(y) THEN y[i] ELSE x[i - Len(y)]
  <2>1. y \in Seq(Ids) /\ x \in Seq(Ids)
    BY <1>1
  <2> HIDE DEF Ids
  <2> QED BY ONLY <2>1, Concatenated
<1>a. Len(u) \in Nat /\ Len(d) \in Nat /\ Len(x) \in Nat
  OBVIOUS
<1> HIDE DEF z
<1>3. \A i \in 1..(Len(u) + Len(d) + Len(x)) :
         z[i] = IF i <= Len(u) THEN u[i] ELSE IF i <= Len(u) + Len(d) THEN d[i - Len(u)]
                ELSE x[i - (Len(u) + Len(d))]
  <2> DEFINE n == Len(u) + Len(d)
  <2> SUFFICES ASSUME NEW i \in 1..(n + Len(x))
               PROVE  z[i] = IF i <= Len(u) THEN u[i] ELSE IF i <= n THEN d[i - Len(u)] ELSE x[i - n]
    OBVIOUS
  <2>1. z[i] = IF i <= n THEN y[i] ELSE x[i - n]
    BY <1>1, <1>2
  <2>2. n \in Nat /\ (i <= n => i \in 1..n) /\ (i <= Len(u) => i <= n)
    BY <1>a
  <2>3. i <= n => y[i] = IF i <= Len(u) THEN u[i] ELSE d[i - Len(u)]
    BY <1>1, <2>2
  <2> HIDE DEF n
  <2> QED BY <2>1, <2>2, <2>3
<1> QED BY <1>1, <1>2, <1>3 DEF y, z

\* A request is remembered: its id is added.  It is written: its id moves on.
LEMMA WayWritten ==
    ASSUME NEW u \in Seq(Ids), NEW d \in Seq(Ids), NEW id \in Ids, NEW q
    PROVE  /\ Matched(Append((u \o d) \o <<>>, id), q) => Matched((u \o d) \o <<id>>, q)
           /\ Matched((u \o d) \o <<id>>, q) => Matched((u \o Append(d, id)) \o <<>>, q)
<1> DEFINE e == Append(d, id)  a == (u \o d) \o <<>>  b == (u \o d) \o <<id>>
           c == (u \o e) \o <<>>  n == Len(u) + Len(d)
<1>1. e \in Seq(Ids) /\ Len(e) = Len(d) + 1 /\ e[Len(d) + 1] = id /\ \A i \in 1..Len(d) : e[i] = d[i]
  OBVIOUS
<1>2. <<>> \in Seq(Ids) /\ Len(<<>>) = 0 /\ <<id>> \in Seq(Ids) /\ Len(<<id>>) = 1 /\ <<id>>[1] = id
  OBVIOUS
<1>3. Len(u) \in Nat /\ Len(d) \in Nat
  OBVIOUS
<1>4. /\ a \in Seq(Ids) /\ Len(a) = n
      /\ \A i \in 1..n : a[i] = IF i <= Len(u) THEN u[i] ELSE d[i - Len(u)]
  <2>1. /\ a \in Seq(Ids) /\ Len(a) = n + Len(<<>>)
        /\ \A i \in 1..(n + Len(<<>>)) :
              a[i] = IF i <= Len(u) THEN u[i] ELSE IF i <= n THEN d[i - Len(u)] ELSE <<>>[i - n]
    BY <1>2, WayIds
  <2> HIDE DEF a
  <2> QED BY <1>2, <1>3, <2>1
<1>5. /\ b \in Seq(Ids) /\ Len(b) = n + 1
      /\ \A i \in 1..(n + 1) : b[i] = IF i <= Len(u) THEN u[i] ELSE IF i <= n THEN d[i - Len(u)]
                                       ELSE id
  <2>1. /\ b \in Seq(Ids) /\ Len(b) = n + Len(<<id>>)
        /\ \A i \in 1..(n + Len(<<id>>)) :
              b[i] = IF i <= Len(u) THEN u[i] ELSE IF i <= n THEN d[i - Len(u)] ELSE <<id>>[i - n]
    BY <1>2, WayIds
  <2> HIDE DEF b
  <2> QED BY <1>2, <1>3, <2>1
<1> HIDE DEF e
<1>6. /\ c \in Seq(Ids) /\ Len(c) = n + 1
      /\ \A i \in 1..(n + 1) : c[i] = IF i <= Len(u) THEN u[i] ELSE e[i - Len(u)]
  <2>1. /\ c \in Seq(Ids) /\ Len(c) = Len(u) + Len(e) + Len(<<>>)
        /\ \A i \in 1..(Len(u) + Len(e) + Len(<<>>)) :
              c[i] = IF i <= Len(u) THEN u[i] ELSE IF i <= Len(u) + Len(e) THEN e[i - Len(u)]
                     ELSE <<>>[i - (Len(u) + Len(e))]
    BY <1>1, <1>2, WayIds
  <2> HIDE DEF c
  <2> QED BY <1>1, <1>2, <1>3, <2>1
<1> HIDE DEF a, b, c
<1>7. /\ Append(a, id) \in Seq(Ids) /\ Len(Append(a, id)) = n + 1
      /\ \A i \in 1..(n + 1) : b[i] = Append(a, id)[i]
  <2>1. n \in Nat
    BY <1>3
  <2>2. /\ Append(a, id) \in Seq(Ids) /\ Len(Append(a, id)) = n + 1
        /\ Append(a, id)[n + 1] = id /\ \A i \in 1..n : Append(a, id)[i] = a[i]
    BY <1>4, <2>1
  <2>3. ASSUME NEW i \in 1..(n + 1) PROVE b[i] = Append(a, id)[i]
    <3>1. CASE i = n + 1
      <4>1. ~(i <= Len(u)) /\ ~(i <= n)
        BY <1>3, <3>1
      <4> QED BY <1>5, <2>2, <3>1, <4>1
    <3>2. CASE i # n + 1
      <4>1. i \in 1..n /\ i <= n
        BY <2>1, <3>2
      <4> QED BY <1>4, <1>5, <2>2, <4>1
    <3> QED BY <3>1, <3>2
  <2> QED BY <2>2, <2>3
<1>8. \A i \in 1..(n + 1) : c[i] = b[i]
  <2> SUFFICES ASSUME NEW i \in 1..(n + 1) PROVE c[i] = b[i]
    OBVIOUS
  <2>1. CASE i <= Len(u)
    BY <1>5, <1>6, <2>1
  <2>2. CASE i > Len(u) /\ i <= n
    <3>1. i - Len(u) \in 1..Len(d)
      BY <1>3, <2>2
    <3> QED BY <1>1, <1>3, <1>5, <1>6, <2>2, <3>1
  <2>3. CASE i = n + 1
    <3>1. i - Len(u) = Len(d) + 1 /\ ~(i <= Len(u)) /\ ~(i <= n)
      BY <1>3, <2>3
    <3> QED BY <1>1, <1>5, <1>6, <3>1
  <2> QED BY <1>3, <2>1, <2>2, <2>3
<1>9. Matched(Append(a, id), q) => Matched(b, q)
  BY <1>5, <1>7, MatchedLess
<1>10. Matched(b, q) => Matched(c, q)
  BY <1>5, <1>6, <1>8, MatchedLess
<1> QED BY <1>9, <1>10 DEF a, b, c, e

\* The device answers.
LEMMA WayAnswered ==
    ASSUME NEW u \in Seq(Ids), NEW d \in Seq(Ids), d # <<>>, NEW x \in Seq(Ids),
           NEW id \in {Head(d), NULL}, NEW q, Matched((u \o d) \o x, q)
    PROVE  Matched((Append(u, id) \o Tail(d)) \o x, q)
<1> DEFINE v == Append(u, id)  e == Tail(d)  a == (u \o d) \o x  b == (v \o e) \o x
           n == Len(u) + Len(d)
<1>1. Len(u) \in Nat /\ Len(d) \in Nat /\ Len(x) \in Nat
  OBVIOUS
<1>2. e \in Seq(Ids) /\ Len(e) = Len(d) - 1 /\ Len(d) >= 1 /\ \A i \in 1..Len(e) : e[i] = d[i + 1]
  OBVIOUS
<1>3. id \in Ids /\ id \in {d[1], NULL}
  BY DEF Ids
<1>4. v \in Seq(Ids) /\ Len(v) = Len(u) + 1 /\ v[Len(u) + 1] = id /\ \A i \in 1..Len(u) : v[i] = u[i]
  BY <1>3
<1>5. /\ a \in Seq(Ids) /\ Len(a) = n + Len(x)
      /\ \A i \in 1..(n + Len(x)) : a[i] = IF i <= Len(u) THEN u[i] ELSE IF i <= n THEN d[i - Len(u)]
                                            ELSE x[i - n]
  BY WayIds
<1> HIDE DEF e, v
<1>6. /\ b \in Seq(Ids) /\ Len(b) = n + Len(x)
      /\ \A i \in 1..(n + Len(x)) : b[i] = IF i <= Len(u) + 1 THEN v[i]
                                            ELSE IF i <= n THEN e[i - (Len(u) + 1)] ELSE x[i - n]
  <2>1. /\ b \in Seq(Ids) /\ Len(b) = Len(v) + Len(e) + Len(x)
        /\ \A i \in 1..(Len(v) + Len(e) + Len(x)) :
              b[i] = IF i <= Len(v) THEN v[i] ELSE IF i <= Len(v) + Len(e) THEN e[i - Len(v)]
                     ELSE x[i - (Len(v) + Len(e))]
    <3>1. v \in Seq(Ids) /\ e \in Seq(Ids) /\ x \in Seq(Ids)
      BY <1>2, <1>4
    <3> QED BY ONLY <3>1, WayIds
  <2>2. Len(v) + Len(e) = n
    BY <1>1, <1>2, <1>4
  <2> HIDE DEF b
  <2> QED BY <1>4, <2>1, <2>2
<1> HIDE DEF a, b
<1>7. \A i \in 1..(n + Len(x)) : b[i] \in {a[i], NULL}
  <2> SUFFICES ASSUME NEW i \in 1..(n + Len(x)) PROVE b[i] \in {a[i], NULL}
    OBVIOUS
  <2>1. CASE i <= Len(u)
    <3>1. i \in 1..Len(u) /\ i <= Len(u) + 1
      BY <1>1, <2>1
    <3>2. b[i] = v[i] /\ a[i] = u[i]
      BY <1>5, <1>6, <2>1, <3>1
    <3> QED BY <1>4, <3>1, <3>2
  <2>2. CASE i = Len(u) + 1
    <3>1. b[i] = id
      BY <1>1, <1>4, <1>6, <2>2
    <3>2. a[i] = d[1]
      <4>1. ~(i <= Len(u)) /\ i <= n /\ i - Len(u) = 1
        BY <1>1, <1>2, <2>2
      <4> QED BY <1>5, <4>1
    <3> QED BY <1>3, <3>1, <3>2
  <2>3. CASE i > Len(u) + 1 /\ i <= n
    <3> DEFINE j == i - (Len(u) + 1)
    <3>1. j \in 1..Len(e) /\ i - Len(u) = j + 1 /\ ~(i <= Len(u)) /\ ~(i <= Len(u) + 1)
      BY <1>1, <1>2, <2>3
    <3>2. b[i] = e[j] /\ a[i] = d[i - Len(u)]
      BY <1>5, <1>6, <2>3, <3>1
    <3> QED BY <1>2, <3>1, <3>2
  <2>4. CASE i > n
    <3>1. ~(i <= Len(u)) /\ ~(i <= Len(u) + 1) /\ ~(i <= n)
      BY <1>1, <1>2, <2>4
    <3> QED BY <1>5, <1>6, <3>1
  <2> QED BY <1>1, <2>1, <2>2, <2>3, <2>4
<1>8. Matched(b, q)
  BY <1>5, <1>6, <1>7, MatchedLess DEF a
<1> QED BY <1>8 DEF b, v, e

\* An answer is read.
LEMMA WayRead ==
    ASSUME NEW u \in Seq(Ids), u # <<>>, NEW d \in Seq(Ids), NEW x \in Seq(Ids)
    PROVE  /\ (u \o d) \o x \in Seq(Ids) /\ (u \o d) \o x # <<>> /\ ((u \o d) \o x)[1] = Head(u)
           /\ \A q : Matched(Tail((u \o d) \o x), q) => Matched((Tail(u) \o d) \o x, q)
<1> DEFINE v == Tail(u)  a == (u \o d) \o x  b == (v \o d) \o x  n == Len(u) + Len(d)
<1>1. Len(u) \in Nat /\ Len(d) \in Nat /\ Len(x) \in Nat
  OBVIOUS
<1>2. v \in Seq(Ids) /\ Len(v) = Len(u) - 1 /\ Len(u) >= 1 /\ \A i \in 1..Len(v) : v[i] = u[i + 1]
  OBVIOUS
<1>3. /\ a \in Seq(Ids) /\ Len(a) = n + Len(x)
      /\ \A i \in 1..(n + Len(x)) : a[i] = IF i <= Len(u) THEN u[i] ELSE IF i <= n THEN d[i - Len(u)]
                                            ELSE x[i - n]
  BY WayIds
<1> HIDE DEF v
<1>4. /\ b \in Seq(Ids) /\ Len(b) = n - 1 + Len(x)
      /\ \A i \in 1..(n - 1 + Len(x)) : b[i] = IF i <= Len(u) - 1 THEN v[i] ELSE
                                                IF i <= n - 1 THEN d[i - (Len(u) - 1)]
                                                ELSE x[i - (n - 1)]
  <2>1. /\ b \in Seq(Ids) /\ Len(b) = Len(v) + Len(d) + Len(x)
        /\ \A i \in 1..(Len(v) + Len(d) + Len(x)) :
              b[i] = IF i <= Len(v) THEN v[i] ELSE IF i <= Len(v) + Len(d) THEN d[i - Len(v)]
                     ELSE x[i - (Len(v) + Len(d))]
    <3>1. v \in Seq(Ids) /\ d \in Seq(Ids) /\ x \in Seq(Ids)
      BY <1>2
    <3> QED BY ONLY <3>1, WayIds
  <2>2. Len(v) + Len(d) = n - 1
    BY <1>1, <1>2
  <2> HIDE DEF b
  <2> QED BY <1>2, <2>1, <2>2
<1> HIDE DEF a, b
<1>5. a # <<>> /\ a[1] = Head(u)
  BY <1>1, <1>2, <1>3
<1>6. /\ Tail(a) \in Seq(Ids) /\ Len(Tail(a)) = n - 1 + Len(x)
      /\ \A i \in 1..(n - 1 + Len(x)) : Tail(a)[i] = a[i + 1]
  BY <1>1, <1>3, <1>5
<1>7. \A i \in 1..(n - 1 + Len(x)) : b[i] = a[i + 1]
  <2> SUFFICES ASSUME NEW i \in 1..(n - 1 + Len(x)) PROVE b[i] = a[i + 1]
    OBVIOUS
  <2>0. i + 1 \in 1..(n + Len(x))
    BY <1>1
  <2>1. CASE i <= Len(u) - 1
    <3>1. i \in 1..Len(v) /\ i + 1 <= Len(u)
      BY <1>1, <1>2, <2>1
    <3> QED BY <1>2, <1>3, <1>4, <2>0, <2>1, <3>1
  <2>2. CASE i > Len(u) - 1 /\ i <= n - 1
    <3>1. ~(i + 1 <= Len(u)) /\ i + 1 <= n /\ i + 1 - Len(u) = i - (Len(u) - 1) /\ ~(i <= Len(u) - 1)
      BY <1>1, <2>2
    <3>2. b[i] = d[i - (Len(u) - 1)]
      BY <1>4, <2>2, <3>1
    <3>3. a[i + 1] = d[i + 1 - Len(u)]
      BY <1>3, <2>0, <3>1
    <3> QED BY <3>1, <3>2, <3>3
  <2>3. CASE i > n - 1
    <3>1. ~(i + 1 <= Len(u)) /\ ~(i + 1 <= n) /\ i + 1 - n = i - (n - 1)
          /\ ~(i <= Len(u) - 1) /\ ~(i <= n - 1)
      BY <1>1, <2>3
    <3> QED BY <1>3, <1>4, <2>0, <3>1
  <2> QED BY <1>1, <2>1, <2>2, <2>3
<1>8. Len(b) = Len(Tail(a)) /\ \A i \in 1..Len(Tail(a)) : b[i] \in {Tail(a)[i], NULL}
  BY <1>4, <1>6, <1>7
<1>9. \A q : Matched(Tail(a), q) => Matched(b, q)
  BY <1>4, <1>6, <1>8, MatchedLess
<1> QED BY <1>3, <1>5, <1>9 DEF a, b, v

-----------------------------------------------------------------------------
(* The steps of the bridge.                                                *)

\* A step that leaves the queue of the requests and the ids alone.
LEMMA FlightKept ==
    ASSUME FlightInv, abs'["receive"] = abs["receive"], UNCHANGED <<up, down>>,
           Remembered' = Remembered, Remembered => hand' = hand
    PROVE  FlightInv'
BY DEF FlightInv, Flight, Unwritten

LEMMA FlightInit == Init => FlightInv
<1> SUFFICES ASSUME Init PROVE FlightInv
  OBVIOUS
<1>1. up = <<>> /\ down = <<>> /\ abs["receive"] = <<>> /\ pc[WRITER] = "pop"
  BY DEF Init, Queues, Threads
<1>2. up \in Seq(Ids) /\ down \in Seq(Nat)
  BY <1>1
<1>3. Flight = <<>>
  BY <1>1 DEF Flight, Unwritten, Remembered
<1>4. MatchedBy(<<>>, <<>>, <<>>)
  BY DEF MatchedBy
<1> QED BY <1>1, <1>2, <1>3, <1>4 DEF FlightInv, Matched

\* What is on its way, as the lemmas above take it.
LEMMA FlightParts ==
    ASSUME ThreadInv, FlightInv
    PROVE  /\ up \in Seq(Ids) /\ down \in Seq(Ids) /\ Unwritten \in Seq(Ids)
           /\ Flight \in Seq(Ids)
           /\ hand \in Requests => hand.id \in Nat /\ hand.id \in Ids
<1>1. up \in Seq(Ids) /\ down \in Seq(Ids)
  BY DEF FlightInv, Ids
<1>2. hand \in Requests => hand.id \in Nat /\ hand.id \in Ids
  BY UsbAssumption DEF Ids
<1>3. Unwritten \in Seq(Ids)
  <2>1. CASE Remembered
    <3>1. hand.id \in Ids
      BY <1>2, <2>1 DEF ThreadInv, Remembered
    <3> QED BY <2>1, <3>1 DEF Unwritten
  <2>2. CASE ~Remembered
    BY <2>2 DEF Unwritten
  <2> QED BY <2>1, <2>2
<1>4. Flight \in Seq(Ids)
  BY <1>1, <1>3, WayIds DEF Flight
<1> QED BY <1>1, <1>2, <1>3, <1>4

LEMMA FlightStep == FlightInv /\ ThreadInv /\ ListInv /\ [Next]_vars => FlightInv'
<1> SUFFICES ASSUME FlightInv, ThreadInv, ListInv, [Next]_vars PROVE FlightInv'
  OBVIOUS
<1>0. "send" \in Queues /\ "receive" \in Queues /\ "send" # "receive" /\ WRITER \in Threads
      /\ Modules \subseteq Threads
  BY DEF Queues, Threads
<1>a. /\ DOMAIN pc = Threads /\ abs \in [Queues -> Seq(Requests)] /\ WRITER \notin Modules
  BY UsbAssumption DEF ThreadInv
<1>b. /\ up \in Seq(Ids) /\ down \in Seq(Ids) /\ Unwritten \in Seq(Ids) /\ Flight \in Seq(Ids)
      /\ hand \in Requests => hand.id \in Nat /\ hand.id \in Ids
      /\ down \in Seq(Nat) /\ Matched(Flight, abs["receive"])
  BY FlightParts DEF FlightInv
<1>1. ASSUME NEW r \in Requests, process_pkt_payload(r) PROVE FlightInv'
  <2>1. /\ r.id_process \in Modules /\ pc' = [pc EXCEPT ![r.id_process] = "swap"]
        /\ abs' = [abs EXCEPT !["send"] = Push(@, r)] /\ UNCHANGED <<hand, up, down>>
    BY <1>1, UsbAssumption DEF process_pkt_payload, push_append
  <2>2. pc'[WRITER] = pc[WRITER] /\ abs'["receive"] = abs["receive"]
    BY <1>0, <1>a, <2>1
  <2> QED BY <2>1, <2>2, FlightKept DEF Remembered
<1>2. ASSUME NEW t \in Threads, NEW q \in Queues, push_swap(t, q) PROVE FlightInv'
  BY <1>2, FlightKept DEF push_swap, Remembered
<1>3. ASSUME NEW t \in Threads, NEW q \in Queues, push_end(t, q) PROVE FlightInv'
  <2>1. /\ pc' = [pc EXCEPT ![t] = IF t = WRITER THEN "write" ELSE "idle",
                            ![WRITER] = IF q = "send" /\ @ = "wait" THEN "woken"
                                        ELSE IF t = WRITER THEN "write" ELSE @]
        /\ pc[t] = "swap" /\ UNCHANGED <<hand, up, down, abs>>
    BY <1>3 DEF push_end
  <2>2. Remembered' = Remembered
    BY <1>0, <1>a, <2>1 DEF Remembered
  <2> QED BY <2>1, <2>2, FlightKept
<1>4. CASE sdb_queue_pop_block
  <2>1. /\ pc[WRITER] = "pop" /\ pc'[WRITER] \in {"wait", "convert"} /\ UNCHANGED <<up, down>>
        /\ abs'["receive"] = abs["receive"]
    BY <1>0, <1>4, <1>a DEF sdb_queue_pop_block
  <2> QED BY <2>1, FlightKept DEF Remembered
<1>5. CASE pop_block_woken
  BY <1>5, FlightKept DEF pop_block_woken, Remembered
<1>6. CASE mcs_to_usb
  <2>1. /\ pc[WRITER] = "convert" /\ hand \in Requests
        /\ pc' = [pc EXCEPT ![WRITER] = "swap"]
        /\ abs' = [abs EXCEPT !["receive"] = Push(@, hand)] /\ UNCHANGED <<hand, up, down>>
    BY <1>6 DEF mcs_to_usb, push_append, ThreadInv
  <2>2. pc'[WRITER] = "swap" /\ abs'["receive"] = Push(abs["receive"], hand)
    BY <1>0, <1>a, <2>1
  <2>3. Flight = (up \o down) \o <<>> /\ Flight' = (up \o down) \o <<hand.id>>
    BY <2>1, <2>2 DEF Flight, Unwritten, Remembered
  <2>4. IsElemSet(Requests) /\ abs["receive"] \in Seq(Requests)
    BY <1>0, <1>a, UsbAssumption DEF IsElemSet
  <2>5. PICK q : q = Push(abs["receive"], hand)
    OBVIOUS
  <2>6. q \in Seq(Requests) /\ \E k : Inserted(abs["receive"], k, hand, q)
    BY <2>1, <2>4, <2>5, PushElements, PushInserted
  <2>7. Matched(Append(Flight, hand.id), q)
    BY <1>b, <2>1, <2>4, <2>6, MatchedPush
  <2>8. Matched((up \o down) \o <<hand.id>>, q)
    BY <1>b, <2>1, <2>3, <2>7, WayWritten
  <2> QED BY <1>b, <2>1, <2>2, <2>3, <2>5, <2>8 DEF FlightInv
<1>7. CASE mcs_to_usb_error
  BY <1>7, FlightKept DEF mcs_to_usb_error, Remembered
<1>8. CASE usb_write
  <2>1. /\ pc[WRITER] = "write" /\ hand \in Requests /\ down' = Append(down, hand.id)
        /\ pc'[WRITER] = "pop" /\ UNCHANGED <<up, abs>>
    BY <1>0, <1>8, <1>a DEF usb_write, ThreadInv
  <2>2. Flight = (up \o down) \o <<hand.id>>
    BY <2>1 DEF Flight, Unwritten, Remembered
  <2>3. Flight' = (up \o Append(down, hand.id)) \o <<>>
    BY <2>1 DEF Flight, Unwritten, Remembered
  <2>4. Matched(Flight', abs["receive"])
    BY <1>b, <2>1, <2>2, <2>3, WayWritten
  <2>5. down' \in Seq(Nat)
    BY <1>b, <2>1
  <2> QED BY <1>b, <2>1, <2>4, <2>5 DEF FlightInv
<1>9. CASE device
  <2>1. PICK answer \in {Head(down), NULL} :
           /\ down # <<>> /\ up' = Append(up, answer) /\ down' = Tail(down)
           /\ UNCHANGED <<pc, hand, abs>>
    BY <1>9 DEF device
  <2>2. Flight' = (Append(up, answer) \o Tail(down)) \o Unwritten
    BY <2>1 DEF Flight, Unwritten, Remembered
  <2>3. Matched(Flight', abs["receive"])
    BY <1>b, <2>1, <2>2, WayAnswered DEF Flight
  <2>4. down' \in Seq(Nat) /\ answer \in Ids
    BY <1>b, <2>1 DEF Ids
  <2>5. up' \in Seq(Ids)
    BY <1>b, <2>1, <2>4
  <2> QED BY <2>1, <2>3, <2>4, <2>5 DEF FlightInv
<1>10. CASE usb_read
  <2>0. /\ up # <<>> /\ up' = Tail(up) /\ UNCHANGED <<pc, hand, down>> /\ lock["receive"] = NULL
    BY <1>10 DEF usb_read
  <2>1. /\ Flight # <<>> /\ Flight[1] = Head(up)
        /\ \A q : Matched(Tail(Flight), q) => Matched((Tail(up) \o down) \o Unwritten, q)
    BY <1>b, <2>0, WayRead DEF Flight
  <2>2. Flight' = (Tail(up) \o down) \o Unwritten
    BY <2>0 DEF Flight, Unwritten, Remembered
  <2>3. Matched(Tail(Flight), abs'["receive"])
    <3> DEFINE id == Head(up)  m == Match(abs["receive"], id)
    <3>1. CASE id = NULL \/ ~Expects(Packets(List("receive")), id)
      <4>1. abs' = abs
        BY <1>10, <3>1 DEF usb_read
      <4> QED BY <1>b, <2>1, <4>1, MatchedTail
    <3>2. CASE ~(id = NULL \/ ~Expects(Packets(List("receive")), id))
      <4>1. PICK es : Chains(es)
        BY DEF ListInv
      <4>2. /\ abs["receive"] \in Seq(Requests) /\ Expects(abs["receive"], id)
        BY <1>0, <2>0, <3>2, <4>1, AnswerElement
      <4>3. m \in 1..Len(abs["receive"]) /\ Closes(abs["receive"][m], id)
        BY <4>2, MatchPlace
      <4>4. abs' = [abs EXCEPT !["receive"] = Delete(@, m)]
        BY <1>10, <3>2 DEF usb_read
      <4>5. abs'["receive"] = Delete(abs["receive"], m)
        BY <1>0, <1>a, <4>4
      <4> HIDE DEF m
      <4>6. Matched(Tail(Flight), Delete(abs["receive"], m))
        BY <1>b, <2>1, <3>2, <4>2, <4>3, MatchedDelete
      <4> QED BY <4>5, <4>6
    <3> QED BY <3>1, <3>2
  <2>4. Matched(Flight', abs'["receive"])
    BY <2>1, <2>2, <2>3
  <2>5. up' \in Seq(Ids) /\ down' \in Seq(Nat)
    BY <1>b, <2>0
  <2> QED BY <2>4, <2>5 DEF FlightInv
<1>11. CASE UNCHANGED vars
  BY <1>11, FlightKept DEF vars, Remembered
<1> QED
  BY <1>1, <1>2, <1>3, <1>4, <1>5, <1>6, <1>7, <1>8, <1>9, <1>10, <1>11 DEF Next, sdb_usb_thread_write

\* A request is remembered before it is written and stays until an answer with its
\* id is read, also when several requests have the same id: what the device may still
\* answer to is in the queue of the requests.
THEOREM AnswersFindRequests == Spec => []AnswerFindsRequest
<1>1. Init => ThreadInv /\ ListInv /\ FlightInv
  BY ThreadInit, ListInit, FlightInit
<1>2. ThreadInv /\ ListInv /\ FlightInv /\ [Next]_vars => ThreadInv' /\ ListInv' /\ FlightInv'
  BY ThreadStep, ListStep, FlightStep
<1>3. ThreadInv /\ FlightInv => AnswerFindsRequest
  <2> SUFFICES ASSUME ThreadInv, FlightInv,
                      NEW id \in Range(down) \cup (Range(up) \ {NULL})
               PROVE  Expects(abs["receive"], id)
    BY DEF AnswerFindsRequest
  <2>1. /\ up \in Seq(Ids) /\ down \in Seq(Nat) /\ down \in Seq(Ids) /\ Unwritten \in Seq(Ids)
        /\ Flight \in Seq(Ids)
    BY FlightParts DEF FlightInv
  <2>2. /\ Len(Flight) = Len(up) + Len(down) + Len(Unwritten)
        /\ \A i \in 1..(Len(up) + Len(down) + Len(Unwritten)) :
              Flight[i] = IF i <= Len(up) THEN up[i]
                          ELSE IF i <= Len(up) + Len(down) THEN down[i - Len(up)]
                          ELSE Unwritten[i - (Len(up) + Len(down))]
    BY <2>1, WayIds DEF Flight
  <2>3. Len(up) \in Nat /\ Len(down) \in Nat /\ Len(Unwritten) \in Nat
    BY <2>1
  <2>4. id # NULL /\ \E i \in 1..Len(Flight) : Flight[i] = id
    <3>1. CASE id \in Range(down)
      <4>1. PICK j \in 1..Len(down) : down[j] = id
        BY <2>1, <3>1 DEF Range
      <4>2. id # NULL
        BY <2>1, <4>1, UsbAssumption
      <4>3. /\ j + Len(up) \in 1..(Len(up) + Len(down) + Len(Unwritten))
            /\ ~(j + Len(up) <= Len(up)) /\ j + Len(up) <= Len(up) + Len(down)
            /\ (j + Len(up)) - Len(up) = j
        BY <2>3
      <4>4. Flight[j + Len(up)] = id
        BY <2>2, <4>1, <4>3
      <4> QED BY <2>2, <4>2, <4>3, <4>4
    <3>2. CASE id \in Range(up) \ {NULL}
      <4>1. PICK j \in 1..Len(up) : up[j] = id
        BY <2>1, <3>2 DEF Range
      <4>2. j \in 1..(Len(up) + Len(down) + Len(Unwritten)) /\ j <= Len(up)
        BY <2>3
      <4> QED BY <2>2, <3>2, <4>1, <4>2
    <3> QED BY <3>1, <3>2
  <2>5. PICK f : MatchedBy(f, Flight, abs["receive"])
    BY DEF FlightInv, Matched
  <2> QED BY <2>4, <2>5 DEF MatchedBy, Expects
<1> QED BY <1>1, <1>2, <1>3, PTL DEF Spec

=============================================================================
