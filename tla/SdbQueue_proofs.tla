--------------------------- MODULE SdbQueue_proofs ---------------------------
(***************************************************************************)
(* What the queue operations return, for a queue of any length and any     *)
(* priorities.                                                             *)
(***************************************************************************)
EXTENDS SdbQueue, Integers, WellFoundedInduction, TLAPS

\* Elements as sdb_queue.c sees them.
IsElemSet(S) == \A e \in S : e.priority \in Int

\* A set of naturals that is not empty has a least element.
LEMMA LeastNatural ==
    ASSUME NEW T, T \subseteq Nat, T # {}
    PROVE  \E n \in T : \A k \in T : n <= k
<1>1. PICK n \in T : \A k \in T : ~ (<<k, n>> \in OpToRel(<, Nat))
  BY NatLessThanWellFounded, WFMin
<1>2. \A k \in T : ~ (k < n)
  BY <1>1 DEF OpToRel
<1> QED
  BY <1>2

\* The place where the swaps of sdb_queue_push_nolock stop exists.
LEMMA AheadPlace ==
    ASSUME NEW S, IsElemSet(S), NEW q \in Seq(S), NEW e \in S
    PROVE  /\ Ahead(q, e) \in 0..Len(q)
           /\ Ahead(q, e) # 0 => e.priority <= q[Ahead(q, e)].priority
           /\ \A j \in (Ahead(q, e) + 1)..Len(q) : e.priority > q[j].priority
<1> DEFINE T == {k \in 0..Len(q) : \A j \in (k + 1)..Len(q) : e.priority > q[j].priority}
<1>1. T \subseteq Nat /\ Len(q) \in T
  OBVIOUS
<1>2. PICK k \in T : \A i \in T : k <= i
  <2> HIDE DEF T
  <2> QED BY <1>1, LeastNatural
<1>3. k # 0 => e.priority <= q[k].priority
  <2> SUFFICES ASSUME k # 0, ~ (e.priority <= q[k].priority) PROVE FALSE
    OBVIOUS
  <2>1. k \in 1..Len(q) /\ q[k] \in S
    OBVIOUS
  <2>2. e.priority > q[k].priority
    BY <2>1 DEF IsElemSet
  <2>3. \A j \in ((k - 1) + 1)..Len(q) : j = k \/ j \in (k + 1)..Len(q)
    OBVIOUS
  <2>4. k - 1 \in T
    BY <2>1, <2>2, <2>3
  <2>5. k <= k - 1
    <3> HIDE DEF T
    <3> QED BY <1>2, <2>4
  <2> QED
    BY <2>1, <2>5
<1>4. \E i \in 0..Len(q) : /\ i # 0 => e.priority <= q[i].priority
                           /\ \A j \in (i + 1)..Len(q) : e.priority > q[j].priority
  BY <1>3
<1> QED
  BY <1>4 DEF Ahead

\* sdb_queue_push_nolock adds the element and loses or makes up no other.
LEMMA PushElements ==
    ASSUME NEW S, IsElemSet(S), NEW q \in Seq(S), NEW e \in S
    PROVE  /\ Push(q, e) \in Seq(S)
           /\ Len(Push(q, e)) = Len(q) + 1
           /\ \A i \in 1..Len(Push(q, e)) :
                Push(q, e)[i] = e \/ \E j \in 1..Len(q) : Push(q, e)[i] = q[j]
           /\ \E i \in 1..Len(Push(q, e)) : Push(q, e)[i] = e
           /\ \A j \in 1..Len(q) : \E i \in 1..Len(Push(q, e)) : Push(q, e)[i] = q[j]
<1> DEFINE k == Ahead(q, e)
           p == [i \in 1..(Len(q) + 1) |->
                    IF i <= k THEN q[i] ELSE IF i = k + 1 THEN e ELSE q[i - 1]]
<1>1. k \in 0..Len(q)
  BY AheadPlace
<1>2. Push(q, e) = p
  BY DEF Push
<1> HIDE DEF k
<1>3. \A i \in 1..(Len(q) + 1) : p[i] \in S
  BY <1>1
<1>4. p \in Seq(S) /\ Len(p) = Len(q) + 1
  BY <1>3
<1>5. \A i \in 1..(Len(q) + 1) : p[i] = e \/ \E j \in 1..Len(q) : p[i] = q[j]
  <2> TAKE i \in 1..(Len(q) + 1)
  <2>1. CASE i <= k
    BY <1>1, <2>1
  <2>2. CASE i = k + 1
    BY <1>1, <2>2
  <2>3. CASE i > k + 1
    <3>1. p[i] = q[i - 1] /\ i - 1 \in 1..Len(q)
      BY <1>1, <2>3
    <3> QED BY <3>1
  <2> QED BY <1>1, <2>1, <2>2, <2>3
<1>6. k + 1 \in 1..(Len(q) + 1) /\ p[k + 1] = e
  BY <1>1
<1>7. \A j \in 1..Len(q) : \E i \in 1..(Len(q) + 1) : p[i] = q[j]
  <2> TAKE j \in 1..Len(q)
  <2>1. CASE j <= k
    <3>1. j \in 1..(Len(q) + 1) /\ p[j] = q[j]
      BY <1>1, <2>1
    <3> QED BY <3>1
  <2>2. CASE j > k
    <3>1. j + 1 \in 1..(Len(q) + 1) /\ p[j + 1] = q[j]
      BY <1>1, <2>2
    <3> QED BY <3>1
  <2> QED BY <1>1, <2>1, <2>2
<1> HIDE DEF p
<1> QED
  BY <1>2, <1>4, <1>5, <1>6, <1>7

\* A queue whose priorities never increase from front to back.
Sorted(q) == \A i, j \in 1..Len(q) : i < j => q[i].priority >= q[j].priority

\* sdb_queue_push_nolock keeps the queue sorted by priority, and an element is
\* behind every element of its own priority that was there before it.
THEOREM PushSorted ==
    ASSUME NEW S, IsElemSet(S), NEW q \in Seq(S), NEW e \in S, Sorted(q)
    PROVE  /\ Sorted(Push(q, e))
           /\ \A i \in 1..Len(q) :
                q[i].priority >= e.priority <=> i <= Ahead(q, e)
<1> DEFINE k == Ahead(q, e)
           p == Push(q, e)
<1>1. /\ k \in 0..Len(q)
      /\ k # 0 => e.priority <= q[k].priority
      /\ \A j \in (k + 1)..Len(q) : e.priority > q[j].priority
  BY AheadPlace
<1>2. /\ Len(p) = Len(q) + 1
      /\ \A i \in 1..(Len(q) + 1) :
            p[i] = IF i <= k THEN q[i] ELSE IF i = k + 1 THEN e ELSE q[i - 1]
  BY PushElements DEF Push
<1>3. e.priority \in Int /\ \A i \in 1..Len(q) : q[i].priority \in Int
  BY DEF IsElemSet
<1> HIDE DEF k, p
<1>4. \A i \in 1..Len(q) : i <= k => q[i].priority >= e.priority
  <2> SUFFICES ASSUME NEW i \in 1..Len(q), i <= k PROVE q[i].priority >= e.priority
    OBVIOUS
  <2>1. k \in 1..Len(q) /\ q[k].priority >= e.priority
    BY <1>1, <1>3
  <2>2. i = k \/ q[i].priority >= q[k].priority
    BY <2>1 DEF Sorted
  <2> QED BY <1>3, <2>1, <2>2
<1>5. \A i \in 1..Len(q) : i > k => q[i].priority < e.priority
  BY <1>1, <1>3
<1>6. Sorted(p)
  <2> SUFFICES ASSUME NEW i \in 1..(Len(q) + 1), NEW j \in 1..(Len(q) + 1), i < j
               PROVE  p[i].priority >= p[j].priority
    BY <1>2 DEF Sorted
  <2>1. CASE j <= k
    BY <1>1, <1>2, <2>1 DEF Sorted
  <2>2. CASE j = k + 1
    BY <1>1, <1>2, <1>4, <2>2
  <2>3. CASE j > k + 1 /\ i <= k
    <3>1. p[i] = q[i] /\ p[j] = q[j - 1] /\ i < j - 1 /\ i \in 1..Len(q) /\ j - 1 \in 1..Len(q)
      BY <1>1, <1>2, <2>3
    <3> QED BY <3>1 DEF Sorted
  <2>4. CASE j > k + 1 /\ i = k + 1
    <3>1. p[i] = e /\ p[j] = q[j - 1] /\ j - 1 \in 1..Len(q) /\ j - 1 > k
      BY <1>1, <1>2, <2>4
    <3> QED BY <1>3, <1>5, <3>1
  <2>5. CASE j > k + 1 /\ i > k + 1
    <3>1. /\ p[i] = q[i - 1] /\ p[j] = q[j - 1] /\ i - 1 < j - 1
          /\ i - 1 \in 1..Len(q) /\ j - 1 \in 1..Len(q)
      BY <1>1, <1>2, <2>5
    <3> QED BY <3>1 DEF Sorted
  <2> QED BY <1>1, <2>1, <2>2, <2>3, <2>4, <2>5
<1> QED
  BY <1>1, <1>3, <1>4, <1>5, <1>6 DEF k, p

\* sdb_queue_get_nolock finds the packet of the answer if it is there.
LEMMA MatchPlace ==
    ASSUME NEW S, NEW q \in Seq(S), NEW id, Expects(q, id)
    PROVE  Match(q, id) \in 1..Len(q) /\ Closes(q[Match(q, id)], id)
<1> DEFINE T == {i \in 1..Len(q) : Closes(q[i], id)}
<1>1. T \subseteq Nat /\ T # {}
  BY DEF Expects
<1>2. PICK n \in T : \A k \in T : n <= k
  <2> HIDE DEF T
  <2> QED BY <1>1, LeastNatural
<1>3. \A j \in 1..(n - 1) : ~Closes(q[j], id)
  BY <1>2
<1>4. \E i \in 1..Len(q) : Closes(q[i], id) /\ \A j \in 1..(i - 1) : ~Closes(q[j], id)
  BY <1>3
<1> QED
  BY <1>4 DEF Match

\* sdb_queue_delete takes out one element and makes up none.
LEMMA DeleteElements ==
    ASSUME NEW S, NEW q \in Seq(S), NEW i \in 1..Len(q)
    PROVE  /\ Delete(q, i) \in Seq(S)
           /\ Len(Delete(q, i)) = Len(q) - 1
           /\ \A j \in 1..Len(Delete(q, i)) : \E k \in 1..Len(q) : Delete(q, i)[j] = q[k]
<1> DEFINE d == [j \in 1..(Len(q) - 1) |-> IF j < i THEN q[j] ELSE q[j + 1]]
<1>1. \A j \in 1..(Len(q) - 1) : d[j] \in S
  OBVIOUS
<1>2. d \in Seq(S) /\ Len(d) = Len(q) - 1
  BY <1>1
<1>3. \A j \in 1..(Len(q) - 1) : \E k \in 1..Len(q) : d[j] = q[k]
  <2> TAKE j \in 1..(Len(q) - 1)
  <2>1. j \in 1..Len(q) /\ j + 1 \in 1..Len(q)
    OBVIOUS
  <2> QED BY <2>1
<1> QED
  BY <1>2, <1>3 DEF Delete

-----------------------------------------------------------------------------
(* Counting the elements of a sequence that are in a set.                  *)

\* How many elements of a sequence are in a set: one, two or three at least.
In(q, S) == \E i \in 1..Len(q) : q[i] \in S
TwoIn(q, S) == \E i, j \in 1..Len(q) : i # j /\ q[i] \in S /\ q[j] \in S
ThreeIn(q, S) ==
    \E i, j, k \in 1..Len(q) :
        i # j /\ j # k /\ i # k /\ q[i] \in S /\ q[j] \in S /\ q[k] \in S

\* r is q with e put in at place k.
Inserted(q, k, e, r) ==
    /\ k \in 1..(Len(q) + 1) /\ Len(r) = Len(q) + 1
    /\ \A i \in 1..Len(r) : r[i] = IF i < k THEN q[i] ELSE IF i = k THEN e ELSE q[i - 1]

\* What insertion does to the count.
LEMMA InsertedCount ==
    ASSUME NEW T, NEW q \in Seq(T), NEW r \in Seq(T), NEW k, NEW e, Inserted(q, k, e, r), NEW S
    PROVE  /\ In(r, S) <=> In(q, S) \/ e \in S
           /\ TwoIn(r, S) <=> TwoIn(q, S) \/ (e \in S /\ In(q, S))
           /\ ThreeIn(r, S) <=> ThreeIn(q, S) \/ (e \in S /\ TwoIn(q, S))
<1> DEFINE f(i) == IF i < k THEN i ELSE i + 1
           g(i) == IF i < k THEN i ELSE i - 1
<1>0. Len(q) \in Nat /\ Len(r) = Len(q) + 1 /\ k \in 1..Len(r)
  BY DEF Inserted
<1>1. \A i \in 1..Len(q) : f(i) \in 1..Len(r) /\ f(i) # k /\ g(f(i)) = i /\ r[f(i)] = q[i]
  BY <1>0 DEF Inserted
<1>2. \A i \in 1..Len(r) : i # k => g(i) \in 1..Len(q) /\ f(g(i)) = i /\ r[i] = q[g(i)]
  BY <1>0 DEF Inserted
<1>3. k \in 1..Len(r) /\ r[k] = e
  BY <1>0 DEF Inserted
<1> HIDE DEF f, g
<1>4. In(r, S) <=> In(q, S) \/ e \in S
  BY <1>1, <1>2, <1>3 DEF In
<1>5. TwoIn(r, S) <=> TwoIn(q, S) \/ (e \in S /\ In(q, S))
  <2>1. ASSUME TwoIn(q, S) PROVE TwoIn(r, S)
    <3>1. PICK i, j \in 1..Len(q) : i # j /\ q[i] \in S /\ q[j] \in S
      BY <2>1 DEF TwoIn
    <3> QED BY <1>1, <3>1 DEF TwoIn
  <2>2. ASSUME e \in S, In(q, S) PROVE TwoIn(r, S)
    BY <1>1, <1>3, <2>2 DEF TwoIn, In
  <2>3. ASSUME TwoIn(r, S) PROVE TwoIn(q, S) \/ (e \in S /\ In(q, S))
    <3>1. PICK i, j \in 1..Len(r) : i # j /\ r[i] \in S /\ r[j] \in S
      BY <2>3 DEF TwoIn
    <3>2. CASE i = k \/ j = k
      BY <1>2, <1>3, <3>1, <3>2 DEF In
    <3>3. CASE i # k /\ j # k
      BY <1>2, <3>1, <3>3 DEF TwoIn
    <3> QED BY <3>2, <3>3
  <2> QED BY <2>1, <2>2, <2>3
<1>6. ThreeIn(r, S) <=> ThreeIn(q, S) \/ (e \in S /\ TwoIn(q, S))
  <2>1. ASSUME ThreeIn(q, S) PROVE ThreeIn(r, S)
    <3>1. PICK i, j, l \in 1..Len(q) :
            i # j /\ j # l /\ i # l /\ q[i] \in S /\ q[j] \in S /\ q[l] \in S
      BY <2>1 DEF ThreeIn
    <3>2. f(i) # f(j) /\ f(j) # f(l) /\ f(i) # f(l)
      BY <1>1, <3>1
    <3> QED BY <1>1, <3>1, <3>2 DEF ThreeIn
  <2>2. ASSUME e \in S, TwoIn(q, S) PROVE ThreeIn(r, S)
    <3>1. PICK i, j \in 1..Len(q) : i # j /\ q[i] \in S /\ q[j] \in S
      BY <2>2 DEF TwoIn
    <3>2. f(i) # f(j)
      BY <1>1, <3>1
    <3> QED BY <1>1, <1>3, <2>2, <3>1, <3>2 DEF ThreeIn
  <2>3. ASSUME ThreeIn(r, S) PROVE ThreeIn(q, S) \/ (e \in S /\ TwoIn(q, S))
    <3>1. PICK i, j, l \in 1..Len(r) :
            i # j /\ j # l /\ i # l /\ r[i] \in S /\ r[j] \in S /\ r[l] \in S
      BY <2>3 DEF ThreeIn
    <3>2. CASE i = k
      BY <1>2, <1>3, <3>1, <3>2 DEF TwoIn
    <3>3. CASE j = k
      BY <1>2, <1>3, <3>1, <3>3 DEF TwoIn
    <3>4. CASE l = k
      BY <1>2, <1>3, <3>1, <3>4 DEF TwoIn
    <3>5. CASE i # k /\ j # k /\ l # k
      <4>1. g(i) # g(j) /\ g(j) # g(l) /\ g(i) # g(l)
        BY <1>2, <3>1, <3>5
      <4> QED BY <1>2, <3>1, <3>5, <4>1 DEF ThreeIn
    <3> QED BY <3>2, <3>3, <3>4, <3>5
  <2> QED BY <2>1, <2>2, <2>3
<1> QED BY <1>4, <1>5, <1>6

\* A push puts its element in at one place.
LEMMA PushInserted ==
    ASSUME NEW S, IsElemSet(S), NEW q \in Seq(S), NEW e \in S
    PROVE  \E k : Inserted(q, k, e, Push(q, e))
<1>1. Ahead(q, e) \in 0..Len(q)
  BY AheadPlace
<1>2. Push(q, e) \in Seq(S) /\ Len(Push(q, e)) = Len(q) + 1
  BY PushElements
<1>3. Inserted(q, Ahead(q, e) + 1, e, Push(q, e))
  BY <1>1, <1>2 DEF Inserted, Push
<1> QED BY <1>3

\* A deletion undoes an insertion.
LEMMA DeleteInserted ==
    ASSUME NEW S, NEW q \in Seq(S), NEW i \in 1..Len(q)
    PROVE  Inserted(Delete(q, i), i, q[i], q)
<1>1. Len(Delete(q, i)) = Len(q) - 1
  BY DeleteElements
<1>2. \A j \in 1..(Len(q) - 1) : Delete(q, i)[j] = IF j < i THEN q[j] ELSE q[j + 1]
  BY DEF Delete
<1> QED BY <1>1, <1>2 DEF Inserted

LEMMA AppendInserted ==
    ASSUME NEW T, NEW q \in Seq(T), NEW e \in T
    PROVE  Inserted(q, Len(q) + 1, e, Append(q, e))
BY DEF Inserted

LEMMA TailInserted ==
    ASSUME NEW T, NEW q \in Seq(T), q # <<>>
    PROVE  Inserted(Tail(q), 1, Head(q), q)
BY DEF Inserted

=============================================================================
