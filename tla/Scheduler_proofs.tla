-------------------------- MODULE Scheduler_proofs --------------------------
(***************************************************************************)
(* The scheduler, for any number of satellites, tasks and local solutions: *)
(* SortsSolutions, KeepsBest and, for as many combinations as an int can   *)
(* count, TriesAllOnce and with it SolvesTask: solve returns the best      *)
(* combination there is.                                                   *)
(*                                                                         *)
(* The loops of the code are recursive functions.  What such a function    *)
(* computes is shown by induction over the set of turns after which it     *)
(* holds (Induction), and that it is the function the definition names,    *)
(* by LoopExists.                                                          *)
(***************************************************************************)
EXTENDS Scheduler, WellFoundedInduction, FiniteSetTheorems, FunctionTheorems, TLAPS

-----------------------------------------------------------------------------
(* Loops.                                                                  *)

LEMMA Induction ==
    ASSUME NEW n \in Nat, NEW P, 0 \in P, \A k \in 1..n : k - 1 \in P => k \in P
    PROVE  \A k \in 0..n : k \in P
<1> DEFINE T == {k \in 0..n : k \notin P}
<1> SUFFICES ASSUME T # {} PROVE FALSE
  OBVIOUS
<1>1. T \subseteq Nat
  OBVIOUS
<1>2. PICK m \in T : \A k \in T : ~ (<<k, m>> \in OpToRel(<, Nat))
  <2> HIDE DEF T
  <2> QED BY <1>1, NatLessThanWellFounded, WFMin
<1>3. \A k \in T : ~ (k < m)
  <2> HIDE DEF T
  <2> QED BY <1>1, <1>2 DEF OpToRel
<1>4. m \in 1..n /\ m - 1 \in 0..n /\ m - 1 < m /\ m \notin P
  OBVIOUS
<1>5. m - 1 \notin T
  <2> HIDE DEF T
  <2> QED BY <1>3, <1>4
<1> QED BY <1>4, <1>5

\* A loop that takes a value of S to a value of S computes something.
Steps(n, S) == [1..n -> [S -> S]]
Computes(f, n, S, b, step) ==
    f \in [0..n -> S] /\ f[0] = b /\ \A k \in 1..n : f[k] = step[k][f[k - 1]]

LEMMA LoopExists ==
    ASSUME NEW n \in Nat, NEW S, NEW b \in S, NEW step \in Steps(n, S)
    PROVE  \E f : Computes(f, n, S, b, step)
<1> USE DEF Steps, Computes
<1> DEFINE Q(m) == \E f \in [0..m -> S] : f[0] = b /\ \A k \in 1..m : f[k] = step[k][f[k - 1]]
           P == {m \in 0..n : Q(m)}
<1>1. 0 \in P
  <2> DEFINE f == [k \in 0..0 |-> b]
  <2>1. f \in [0..0 -> S] /\ f[0] = b /\ \A k \in 1..0 : f[k] = step[k][f[k - 1]]
    OBVIOUS
  <2>2. Q(0)
    BY <2>1
  <2> QED BY <2>2
<1>2. ASSUME NEW m \in 1..n, m - 1 \in P PROVE m \in P
  <2>1. PICK f \in [0..(m - 1) -> S] : f[0] = b /\ \A k \in 1..(m - 1) : f[k] = step[k][f[k - 1]]
    BY <1>2
  <2> DEFINE g == [k \in 0..m |-> IF k = m THEN step[m][f[m - 1]] ELSE f[k]]
  <2>2. step[m][f[m - 1]] \in S
    BY <2>1
  <2>3. g \in [0..m -> S]
    BY <2>1, <2>2
  <2>4. g[0] = b
    BY <2>1
  <2>5. ASSUME NEW k \in 1..m PROVE g[k] = step[k][g[k - 1]]
    <3>1. k - 1 \in 0..(m - 1) /\ g[k - 1] = f[k - 1]
      OBVIOUS
    <3>2. CASE k = m
      BY <3>1, <3>2
    <3>3. CASE k # m
      <4>1. k \in 1..(m - 1) /\ g[k] = f[k]
        BY <3>3
      <4> QED BY <2>1, <3>1, <4>1
    <3> QED BY <3>2, <3>3
  <2>6. Q(m)
    <3> HIDE DEF g
    <3> QED BY <2>3, <2>4, <2>5
  <2> HIDE DEF Q
  <2> QED BY <2>6
<1>3. n \in P
  <2> HIDE DEF P
  <2>1. \A k \in 0..n : k \in P
    BY <1>1, <1>2, Induction
  <2> QED BY <2>1
<1>4. Q(n)
  BY <1>3
<1> QED BY <1>4

LEMMA TotalNat ==
    ASSUME NEW n \in Nat, NEW v \in [1..n -> Nat]
    PROVE  Total(v, n) \in Nat
<1> DEFINE Body(s, k) == IF k = 0 THEN 0 ELSE s[k - 1] + v[k]
           w == CHOOSE s : s = [k \in 0..n |-> Body(s, k)]
           step == [k \in 1..n |-> [x \in Nat |-> x + v[k]]]
<1>1. Total(v, n) = w[n]
  BY DEF Total
<1>2. step \in [1..n -> [Nat -> Nat]]
  OBVIOUS
<1>3. PICK f \in [0..n -> Nat] : f[0] = 0 /\ \A k \in 1..n : f[k] = step[k][f[k - 1]]
  <2>1. PICK S : S = Nat
    OBVIOUS
  <2>2. 0 \in S /\ step \in Steps(n, S)
    BY <1>2, <2>1 DEF Steps
  <2>3. \E f : Computes(f, n, S, 0, step)
    <3> HIDE DEF step
    <3> QED BY <2>2, LoopExists
  <2> QED BY <2>1, <2>3 DEF Computes
<1>4. \A k \in 0..n : f[k] = Body(f, k)
  <2> SUFFICES ASSUME NEW k \in 1..n PROVE f[k] = f[k - 1] + v[k]
    BY <1>3
  <2>1. f[k - 1] \in Nat /\ f[k] = step[k][f[k - 1]]
    <3> HIDE DEF step
    <3>1. k - 1 \in 0..n
      OBVIOUS
    <3> QED BY <1>3, <3>1
  <2> QED BY <2>1
<1>5. f = [k \in 0..n |-> Body(f, k)]
  <2> HIDE DEF Body
  <2> QED BY <1>4
<1>6. w = [k \in 0..n |-> Body(w, k)]
  <2> HIDE DEF Body
  <2> QED BY <1>5
<1> HIDE DEF w
<1>7. w[0] = 0 /\ \A k \in 1..n : w[k] = w[k - 1] + v[k]
  BY <1>6
<1> DEFINE P == {k \in 0..n : w[k] \in Nat}
<1>8. 0 \in P /\ \A k \in 1..n : k - 1 \in P => k \in P
  <2>1. 0 \in P
    BY <1>7
  <2>2. ASSUME NEW k \in 1..n, k - 1 \in P PROVE k \in P
    <3>1. w[k - 1] \in Nat /\ v[k] \in Nat
      BY <2>2
    <3> QED BY <1>7, <3>1
  <2> QED BY <2>1, <2>2
<1>9. n \in P
  <2> HIDE DEF P
  <2>1. \A k \in 0..n : k \in P
    BY <1>8, Induction
  <2> QED BY <2>1
<1> QED BY <1>1, <1>9

-----------------------------------------------------------------------------
(* The bubble sort.                                                        *)

Arrays == [1..golden_index -> Nat \ {0}]

\* Nothing before place p is less than what is there.
Least(F, p) == \A j \in 1..(p - 1) : F[j] >= F[p]

LEMMA ExchangeEffect ==
    ASSUME NEW F \in Arrays, NEW d \in 1..(golden_index - 1)
    PROVE  /\ Exchange(F, d) \in Arrays
           /\ Least(F, d) => Least(Exchange(F, d), d + 1)
           /\ \A p \in (d + 2)..golden_index : Least(F, p) => Least(Exchange(F, d), p)
<1> DEFINE G == Exchange(F, d)
<1>0. golden_index \in Nat /\ d \in 1..golden_index /\ d + 1 \in 1..golden_index /\ d # d + 1
  BY SchedulerAssumption
<1>1. G \in Arrays
  BY <1>0 DEF Exchange, Arrays
<1>2. /\ \A j \in 1..golden_index : j # d /\ j # d + 1 => G[j] = F[j]
      /\ IF F[d] < F[d + 1] THEN G[d] = F[d + 1] /\ G[d + 1] = F[d] ELSE G[d] = F[d] /\ G[d + 1] = F[d + 1]
  <2>1. CASE F[d] < F[d + 1]
    BY <1>0, <2>1 DEF Exchange, Arrays
  <2>2. CASE ~(F[d] < F[d + 1])
    BY <2>2 DEF Exchange
  <2> QED BY <2>1, <2>2
<1>3. \A j \in 1..golden_index : F[j] \in Nat
  BY DEF Arrays
<1> HIDE DEF G
<1>4. ASSUME Least(F, d) PROVE Least(G, d + 1)
  <2> SUFFICES ASSUME NEW j \in 1..d PROVE G[j] >= G[d + 1]
    BY <1>0 DEF Least
  <2>1. CASE j = d
    BY <1>0, <1>2, <1>3, <2>1
  <2>2. CASE j # d
    <3>1. j \in 1..(d - 1) /\ j \in 1..golden_index /\ j # d + 1
      BY <1>0, <2>2
    <3>2. F[j] >= F[d] /\ G[j] = F[j]
      BY <1>2, <1>4, <2>2, <3>1 DEF Least
    <3> QED BY <1>0, <1>2, <1>3, <3>1, <3>2
  <2> QED BY <2>1, <2>2
<1>5. ASSUME NEW p \in (d + 2)..golden_index, Least(F, p) PROVE Least(G, p)
  <2> SUFFICES ASSUME NEW j \in 1..(p - 1) PROVE G[j] >= G[p]
    BY DEF Least
  <2>1. /\ p \in 1..golden_index /\ p # d /\ p # d + 1 /\ j \in 1..golden_index
        /\ d \in 1..(p - 1) /\ d + 1 \in 1..(p - 1)
    BY <1>0
  <2>2. G[p] = F[p] /\ F[j] >= F[p] /\ F[d] >= F[p] /\ F[d + 1] >= F[p]
    BY <1>2, <1>5, <2>1 DEF Least
  <2>3. G[j] = F[j] \/ G[j] = F[d] \/ G[j] = F[d + 1]
    BY <1>2, <2>1
  <2> QED BY <2>2, <2>3
<1> QED BY <1>1, <1>4, <1>5 DEF G

LEMMA PassLoop ==
    ASSUME NEW F \in Arrays, NEW c \in 1..golden_index
    PROVE  \E w : /\ Pass(F, c) = w[golden_index - c] /\ w[0] = F
                  /\ \A d \in 1..(golden_index - c) : w[d] = Exchange(w[d - 1], d)
<1> DEFINE n == golden_index - c
           Body(G, d) == IF d = 0 THEN F ELSE Exchange(G[d - 1], d)
           w == CHOOSE G : G = [d \in 0..n |-> Body(G, d)]
           step == [d \in 1..n |-> [x \in Arrays |-> Exchange(x, d)]]
<1>0. n \in Nat /\ n <= golden_index - 1
  BY SchedulerAssumption
<1>1. Pass(F, c) = w[n]
  BY DEF Pass
<1>2. step \in Steps(n, Arrays)
  <2>1. \A d \in 1..n : d \in 1..(golden_index - 1)
    BY <1>0, SchedulerAssumption
  <2>2. \A d \in 1..n, x \in Arrays : Exchange(x, d) \in Arrays
    BY <2>1, ExchangeEffect
  <2> HIDE DEF n
  <2> QED BY <2>2 DEF Steps
<1> HIDE DEF n
<1>3. PICK f : Computes(f, n, Arrays, F, step)
  <2> HIDE DEF step
  <2> QED BY <1>0, <1>2, LoopExists
<1>4. \A d \in 0..n : f[d] = Body(f, d)
  <2> SUFFICES ASSUME NEW d \in 1..n PROVE f[d] = Exchange(f[d - 1], d)
    BY <1>0, <1>3 DEF Computes
  <2>1. f[d - 1] \in Arrays /\ f[d] = step[d][f[d - 1]]
    <3> HIDE DEF step
    <3>1. d - 1 \in 0..n
      BY <1>0
    <3> QED BY <1>3, <3>1 DEF Computes
  <2> QED BY <2>1
<1>5. f = [d \in 0..n |-> Body(f, d)]
  <2> HIDE DEF Body
  <2> QED BY <1>3, <1>4 DEF Computes
<1>6. w = [d \in 0..n |-> Body(w, d)]
  <2> HIDE DEF Body
  <2> QED BY <1>5
<1> HIDE DEF w
<1>7. w[0] = F /\ \A d \in 1..n : w[d] = Exchange(w[d - 1], d)
  BY <1>0, <1>6
<1> QED BY <1>1, <1>7 DEF n

\* After the pass the place golden_index - c + 1 has the least of what is before
\* it, and the places after it still have.
LEMMA PassEffect ==
    ASSUME NEW F \in Arrays, NEW c \in 1..golden_index
    PROVE  /\ Pass(F, c) \in Arrays
           /\ (\A p \in (golden_index - c + 2)..golden_index : Least(F, p))
                => \A p \in (golden_index - c + 1)..golden_index : Least(Pass(F, c), p)
<1> DEFINE n == golden_index - c
<1>0. n \in Nat /\ n <= golden_index - 1 /\ golden_index \in Nat
  BY SchedulerAssumption
<1>1. PICK w : /\ Pass(F, c) = w[n] /\ w[0] = F /\ \A d \in 1..n : w[d] = Exchange(w[d - 1], d)
  BY PassLoop
<1> HIDE DEF n
<1>2. \A d \in 0..n : w[d] \in Arrays
  <2> DEFINE P == {d \in 0..n : w[d] \in Arrays}
  <2>1. 0 \in P
    BY <1>0, <1>1
  <2>2. ASSUME NEW d \in 1..n, d - 1 \in P PROVE d \in P
    <3>1. d \in 1..(golden_index - 1) /\ w[d - 1] \in Arrays /\ w[d] = Exchange(w[d - 1], d)
      BY <1>0, <1>1, <2>2
    <3>2. w[d] \in Arrays
      BY <3>1, ExchangeEffect
    <3> QED BY <1>0, <3>2
  <2>3. \A d \in 0..n : d \in P
    <3> HIDE DEF P
    <3> QED BY <1>0, <2>1, <2>2, Induction
  <2> QED BY <2>3
<1>3. ASSUME \A p \in (n + 2)..golden_index : Least(F, p)
      PROVE  \A p \in (n + 1)..golden_index : Least(Pass(F, c), p)
  <2> DEFINE P == {d \in 0..n : Least(w[d], d + 1) /\ \A p \in (n + 2)..golden_index : Least(w[d], p)}
  <2>1. 0 \in P
    <3>1. Least(F, 0 + 1)
      BY DEF Least
    <3> QED BY <1>0, <1>1, <1>3, <3>1
  <2>2. ASSUME NEW d \in 1..n, d - 1 \in P PROVE d \in P
    <3>1. PICK x \in Arrays : x = w[d - 1]
      BY <1>0, <1>2
    <3>2. d \in 1..(golden_index - 1) /\ w[d] = Exchange(x, d) /\ d - 1 + 1 = d
      BY <1>0, <1>1, <3>1
    <3>3. Least(x, d) /\ \A p \in (n + 2)..golden_index : Least(x, p)
      BY <2>2, <3>1, <3>2
    <3>4. \A p \in (n + 2)..golden_index : p \in (d + 2)..golden_index
      BY <1>0
    <3>5. Least(w[d], d + 1) /\ \A p \in (n + 2)..golden_index : Least(w[d], p)
      BY <3>2, <3>3, <3>4, ExchangeEffect
    <3> QED BY <1>0, <3>5
  <2>3. \A d \in 0..n : d \in P
    <3> HIDE DEF P
    <3> QED BY <1>0, <2>1, <2>2, Induction
  <2>4. Least(w[n], n + 1) /\ \A p \in (n + 2)..golden_index : Least(w[n], p)
    BY <1>0, <2>3
  <2>5. \A p \in (n + 1)..golden_index : p = n + 1 \/ p \in (n + 2)..golden_index
    BY <1>0
  <2> QED BY <1>1, <2>4, <2>5
<1> QED BY <1>0, <1>1, <1>2, <1>3 DEF n

LEMMA SortLoop ==
    ASSUME NEW F \in Arrays
    PROVE  \E w : /\ Sort(F) = w[IF golden_index = 0 THEN 0 ELSE golden_index - 1] /\ w[0] = F
                  /\ \A c \in 1..golden_index : w[c] = Pass(w[c - 1], c)
<1> DEFINE Body(G, c) == IF c = 0 THEN F ELSE Pass(G[c - 1], c)
           w == CHOOSE G : G = [c \in 0..golden_index |-> Body(G, c)]
           step == [c \in 1..golden_index |-> [x \in Arrays |-> Pass(x, c)]]
<1>0. golden_index \in Nat
  BY SchedulerAssumption
<1>1. Sort(F) = w[IF golden_index = 0 THEN 0 ELSE golden_index - 1]
  BY DEF Sort
<1>2. step \in Steps(golden_index, Arrays)
  <2>1. \A c \in 1..golden_index, x \in Arrays : Pass(x, c) \in Arrays
    BY PassEffect
  <2> QED BY <2>1 DEF Steps
<1>3. PICK f : Computes(f, golden_index, Arrays, F, step)
  <2> HIDE DEF step
  <2> QED BY <1>0, <1>2, LoopExists
<1>4. \A c \in 0..golden_index : f[c] = Body(f, c)
  <2> SUFFICES ASSUME NEW c \in 1..golden_index PROVE f[c] = Pass(f[c - 1], c)
    BY <1>0, <1>3 DEF Computes
  <2>1. f[c - 1] \in Arrays /\ f[c] = step[c][f[c - 1]]
    <3> HIDE DEF step
    <3>1. c - 1 \in 0..golden_index
      BY <1>0
    <3> QED BY <1>3, <3>1 DEF Computes
  <2> QED BY <2>1
<1>5. f = [c \in 0..golden_index |-> Body(f, c)]
  <2> HIDE DEF Body
  <2> QED BY <1>3, <1>4 DEF Computes
<1>6. w = [c \in 0..golden_index |-> Body(w, c)]
  <2> HIDE DEF Body
  <2> QED BY <1>5
<1> HIDE DEF w
<1>7. w[0] = F /\ \A c \in 1..golden_index : w[c] = Pass(w[c - 1], c)
  BY <1>0, <1>6
<1> QED BY <1>1, <1>7

\* The rewards come out sorted.
LEMMA SortEffect ==
    ASSUME NEW F \in Arrays
    PROVE  Sort(F) \in Arrays /\ \A j \in 1..(golden_index - 1) : Sort(F)[j] >= Sort(F)[j + 1]
<1> DEFINE g == golden_index  m == IF g = 0 THEN 0 ELSE g - 1
<1>0. g \in Nat /\ m \in 0..g
  BY SchedulerAssumption
<1>1. PICK w : Sort(F) = w[m] /\ w[0] = F /\ \A c \in 1..g : w[c] = Pass(w[c - 1], c)
  BY SortLoop
<1> DEFINE P == {c \in 0..g : w[c] \in Arrays /\ \A p \in (g - c + 1)..g : Least(w[c], p)}
<1>2. 0 \in P
  BY <1>0, <1>1
<1>3. ASSUME NEW c \in 1..g, c - 1 \in P PROVE c \in P
  <2>1. PICK x \in Arrays : x = w[c - 1]
    BY <1>3
  <2>2. w[c] = Pass(x, c) /\ g - (c - 1) + 1 = g - c + 2
    BY <1>0, <1>1, <2>1
  <2>3. \A p \in (g - c + 2)..g : Least(x, p)
    BY <1>3, <2>1, <2>2
  <2>4. w[c] \in Arrays /\ \A p \in (g - c + 1)..g : Least(w[c], p)
    BY <2>2, <2>3, PassEffect
  <2> QED BY <1>0, <2>4
<1>4. \A c \in 0..g : c \in P
  <2> HIDE DEF P
  <2> QED BY <1>0, <1>2, <1>3, Induction
<1>5. w[m] \in Arrays /\ \A p \in (g - m + 1)..g : Least(w[m], p)
  BY <1>0, <1>4
<1>6. ASSUME NEW j \in 1..(g - 1) PROVE w[m][j] >= w[m][j + 1]
  <2>1. j + 1 \in (g - m + 1)..g /\ j \in 1..(j + 1 - 1)
    BY <1>0
  <2> QED BY <1>5, <2>1 DEF Least
<1> QED BY <1>1, <1>5, <1>6

-----------------------------------------------------------------------------
(* The local solutions.                                                    *)

SatsInv ==
    /\ DOMAIN sats = Sats
    /\ \A k \in Sats : sats[k] # NULL => \A j \in 1..golden_index : sats[k][j].F \in Nat \ {0}
    /\ SolutionsSorted

LEMMA SatsInit == Init => SatsInv
BY DEF Init, SatsInv, SolutionsSorted

LEMMA SatsStep == SatsInv /\ [Next]_vars => SatsInv'
<1> SUFFICES ASSUME SatsInv, [Next]_vars PROVE SatsInv'
  OBVIOUS
<1>1. ASSUME NEW k \in Sats, generate_solutions(k) PROVE SatsInv'
  <2>1. PICK F \in [1..golden_index -> Rewards], tasks \in [1..golden_index -> TaskSets] :
          sats' = [sats EXCEPT ![k] = [j \in 1..golden_index |-> [F |-> Sort(F)[j], tasks |-> tasks[j]]]]
    BY <1>1 DEF generate_solutions
  <2>2. F \in Arrays
    BY SchedulerAssumption DEF Arrays
  <2>3. Sort(F) \in Arrays /\ \A j \in 1..(golden_index - 1) : Sort(F)[j] >= Sort(F)[j + 1]
    BY <2>2, SortEffect
  <2>4. /\ DOMAIN sats' = Sats /\ \A n \in Sats : n # k => sats'[n] = sats[n]
        /\ \A j \in 1..golden_index : sats'[k][j].F = Sort(F)[j]
    BY <2>1 DEF SatsInv
  <2>5. golden_index \in Nat /\ \A j \in 1..(golden_index - 1) : j \in 1..golden_index /\ j + 1 \in 1..golden_index
    BY SchedulerAssumption
  <2>6. \A j \in 1..golden_index : sats'[k][j].F \in Nat \ {0}
    BY <2>3, <2>4 DEF Arrays
  <2>7. \A j \in 1..(golden_index - 1) : sats'[k][j].F >= sats'[k][j + 1].F
    BY <2>3, <2>4, <2>5
  <2> QED BY <2>4, <2>6, <2>7 DEF SatsInv, SolutionsSorted
<1>2. CASE UNCHANGED sats
  BY <1>2 DEF SatsInv, SolutionsSorted
<1> QED BY <1>1, <1>2 DEF Next, solve_begin, solve_step, vars

\* Whatever rewards are drawn, generate_solutions sorts them, best first.
THEOREM SortsSolutions == Spec => []SolutionsSorted
<1>1. Init => SatsInv
  BY SatsInit
<1>2. SatsInv /\ [Next]_vars => SatsInv'
  BY SatsStep
<1>3. SatsInv => SolutionsSorted
  BY DEF SatsInv
<1> QED BY <1>1, <1>2, <1>3, PTL DEF Spec

-----------------------------------------------------------------------------
(* The next combination.                                                   *)

LEMMA GreatestSat ==
    ASSUME NEW T \in SUBSET Sats, T # {}
    PROVE  Max(T) \in T /\ \A k \in T : k <= Max(T)
<1> DEFINE Q(m) == \A k \in T : k <= m
<1>0. nsats \in Nat /\ nsats # 0 /\ \A k \in T : k \in 1..nsats
  BY SchedulerAssumption DEF Sats
<1>1. \E m \in T : \A k \in T : k <= m
  <2> SUFFICES ASSUME ~ \E m \in T : Q(m) PROVE FALSE
    OBVIOUS
  <2> DEFINE R == {n \in 0..nsats : Q(nsats - n)}
  <2>1. 0 \in R
    BY <1>0
  <2>2. ASSUME NEW n \in 1..nsats, n - 1 \in R PROVE n \in R
    <3>1. Q(nsats - n + 1)
      <4>1. nsats - (n - 1) = nsats - n + 1
        BY <1>0
      <4> QED BY <2>2, <4>1
    <3>2. nsats - n + 1 \notin T
      BY <3>1
    <3>3. Q(nsats - n)
      <4> SUFFICES ASSUME NEW k \in T PROVE k <= nsats - n
        OBVIOUS
      <4>1. k <= nsats - n + 1 /\ k # nsats - n + 1 /\ k \in Nat
        BY <1>0, <3>1, <3>2
      <4> QED BY <1>0, <4>1
    <3> HIDE DEF Q
    <3> QED BY <3>3
  <2>3. nsats \in R
    <3> HIDE DEF R
    <3>1. \A n \in 0..nsats : n \in R
      BY <1>0, <2>1, <2>2, Induction
    <3> QED BY <1>0, <3>1
  <2>4. \A k \in T : k <= 0
    BY <1>0, <2>3
  <2> QED BY <1>0, <2>4
<1>2. \A x, y \in T : x <= y <=> y >= x
  BY <1>0
<1>3. \E x \in T : \A y \in T : x >= y
  BY <1>1, <1>2
<1>4. Max(T) \in T /\ \A y \in T : Max(T) >= y
  BY <1>3 DEF Max
<1> QED BY <1>2, <1>4

\* Adding 1 at place m carries past the places after it.
CarriesTo(c, m, d) ==
    /\ m \in Sats /\ c[m] < golden_index /\ \A k \in Sats : k > m => c[k] = golden_index
    /\ d = [k \in Sats |-> IF k > m THEN 0 ELSE IF k = m THEN c[k] + 1 ELSE c[k]]

LEMMA NextCombination ==
    ASSUME NEW c \in Combinations
    PROVE  /\ next_combination(c) \in Combinations
           /\ \/ \A k \in Sats : c[k] = golden_index
              \/ \E m : CarriesTo(c, m, next_combination(c))
<1> DEFINE carry == {k \in Sats : c[k] < golden_index}
           d == next_combination(c)
<1>0. /\ golden_index \in Nat /\ Sats \subseteq Nat
      /\ \A k \in Sats : c[k] \in Nat /\ c[k] <= golden_index
  BY SchedulerAssumption DEF Sats, Combinations
<1>1. d = [k \in Sats |-> IF carry = {} \/ k > Max(carry) THEN 0
                         ELSE IF k = Max(carry) THEN c[k] + 1 ELSE c[k]]
  BY DEF next_combination
<1>2. CASE carry = {}
  <2>1. d = [k \in Sats |-> 0]
    BY <1>1, <1>2
  <2> QED BY <1>0, <1>2, <2>1 DEF Combinations
<1>3. CASE carry # {}
  <2>1. PICK m : m = Max(carry)
    OBVIOUS
  <2>2. m \in carry /\ \A k \in carry : k <= m
    <3>1. carry \in SUBSET Sats
      OBVIOUS
    <3> HIDE DEF carry
    <3> QED BY <1>3, <2>1, <3>1, GreatestSat
  <2>3. \A k \in Sats : k > m => c[k] = golden_index
    BY <1>0, <2>2
  <2>5. d = [k \in Sats |-> IF k > m THEN 0 ELSE IF k = m THEN c[k] + 1 ELSE c[k]]
    <3> HIDE DEF carry
    <3> QED BY <1>1, <1>3, <2>1
  <2>6. CarriesTo(c, m, d)
    BY <2>2, <2>3, <2>5 DEF CarriesTo
  <2>7. d \in Combinations
    <3>1. ASSUME NEW k \in Sats
          PROVE  (IF k > m THEN 0 ELSE IF k = m THEN c[k] + 1 ELSE c[k]) \in 0..golden_index
      BY <1>0, <2>2
    <3> QED BY <2>5, <3>1 DEF Combinations
  <2> QED BY <2>6, <2>7
<1> QED BY <1>2, <1>3

-----------------------------------------------------------------------------
(* The best combination.                                                   *)

Fractions == Nat \X (Nat \ {0})

LEMMA GreaterOrder ==
    ASSUME NEW x \in Fractions, NEW y \in Fractions, NEW z \in Fractions,
           ~Greater(x, y), Greater(z, y)
    PROVE  ~Greater(x, z)
<1>1. PICK a \in Nat, b \in Nat \ {0} : x[1] = a /\ x[2] = b
  BY DEF Fractions
<1>2. PICK m \in Nat, n \in Nat \ {0} : y[1] = m /\ y[2] = n
  BY DEF Fractions
<1>3. PICK p \in Nat, q \in Nat \ {0} : z[1] = p /\ z[2] = q
  BY DEF Fractions
<1>4. a * n <= m * b /\ p * n > m * q
  BY <1>1, <1>2, <1>3 DEF Greater
<1>5. (a * n) * q <= (m * b) * q
  <2>1. a * n \in Nat /\ m * b \in Nat
    OBVIOUS
  <2>2. \A u, v, w \in Nat : u <= v => u * w <= v * w
    OBVIOUS
  <2> QED BY <1>4, <2>1, <2>2
<1>6. (m * q) * b <= (p * n) * b
  <2>1. m * q \in Nat /\ p * n \in Nat /\ m * q <= p * n
    BY <1>4
  <2>2. \A u, v, w \in Nat : u <= v => u * w <= v * w
    OBVIOUS
  <2> QED BY <2>1, <2>2
<1>7. (a * q) * n <= (p * b) * n
  <2>1. (a * n) * q = (a * q) * n /\ (m * b) * q = (m * q) * b /\ (p * n) * b = (p * b) * n
    OBVIOUS
  <2>2. (a * q) * n \in Nat /\ (p * b) * n \in Nat /\ (m * q) * b \in Nat
    OBVIOUS
  <2> QED BY <1>5, <1>6, <2>1, <2>2
<1>8. a * q <= p * b
  <2>1. a * q \in Nat /\ p * b \in Nat
    OBVIOUS
  <2>2. \A u, v \in Nat, w \in Nat \ {0} : u > v => u * w > v * w
    OBVIOUS
  <2>3. (a * q) * n \in Nat /\ (p * b) * n \in Nat
    OBVIOUS
  <2> QED BY <1>7, <2>1, <2>2, <2>3
<1>9. a * q \in Nat /\ p * b \in Nat
  OBVIOUS
<1> QED BY <1>1, <1>3, <1>8, <1>9 DEF Greater

LEMMA RewardType ==
    ASSUME SatsInv, \A k \in Sats : sats[k] # NULL, NEW c \in Combinations
    PROVE  /\ Reward(c) \in Fractions
           /\ Occurrences(c) \in Nat \ {0} /\ Tic(c) \in Nat
           /\ \A t \in Nat : total_reward(c, t) \in Nat
<1>0. ntasks \in Nat /\ ntasks > 0 /\ nsats \in Nat
  BY SchedulerAssumption
<1>1. IsFiniteSet(Sats) /\ IsFiniteSet(1..ntasks) /\ Cardinality(1..ntasks) = ntasks
  <2>1. 1 \in Int /\ nsats \in Int /\ ntasks \in Int /\ ~(1 > ntasks) /\ ntasks - 1 + 1 = ntasks
    BY <1>0
  <2> QED BY <2>1, FS_Interval DEF Sats
<1>2. \A t : sum(c, t) \in Nat
  <2> TAKE t
  <2> DEFINE T == {k \in Used(c) : t \in sats[k][c[k]].tasks}
  <2>1. T \in SUBSET Sats
    BY DEF Used
  <2> HIDE DEF T
  <2>2. Cardinality(T) \in Nat
    BY <1>1, <2>1, FS_Subset, FS_CardinalityType
  <2> QED BY <2>2 DEF sum, T
<1>3. nzeros(c) \in Nat /\ nzeros(c) <= ntasks
  <2> DEFINE T == {t \in 1..ntasks : sum(c, t) = 0}
  <2>1. T \in SUBSET (1..ntasks)
    OBVIOUS
  <2> HIDE DEF T
  <2>2. Cardinality(T) \in Nat /\ Cardinality(T) <= ntasks
    BY <1>1, <2>1, FS_Subset, FS_CardinalityType
  <2> QED BY <2>2 DEF nzeros, T
<1>4. Occurrences(c) \in Nat \ {0}
  <2> DEFINE v == [t \in 1..ntasks |-> IF sum(c, t) > 1 THEN sum(c, t) ELSE 0]
  <2>1. v \in [1..ntasks -> Nat]
    BY <1>2
  <2> HIDE DEF v
  <2>2. Total(v, ntasks) \in Nat
    BY <1>0, <2>1, TotalNat
  <2> QED BY <2>2 DEF Occurrences, v
<1>5. Tic(c) \in Nat
  <2>1. (ntasks - nzeros(c)) * 10 \in Nat
    BY <1>0, <1>3
  <2> QED BY <1>0, <2>1 DEF Tic
<1>6. ASSUME NEW t \in Nat PROVE total_reward(c, t) \in Nat
  <2> DEFINE v == [k \in Sats |-> IF c[k] = 0 THEN 0 ELSE sats[k][c[k]].F]
  <2>1. v \in [1..nsats -> Nat]
    <3>1. ASSUME NEW k \in Sats PROVE (IF c[k] = 0 THEN 0 ELSE sats[k][c[k]].F) \in Nat
      <4>1. c[k] = 0 \/ c[k] \in 1..golden_index
        BY SchedulerAssumption DEF Combinations
      <4> QED BY <4>1 DEF SatsInv
    <3> QED BY <3>1 DEF Sats
  <2> HIDE DEF v
  <2>2. Total(v, nsats) \in Nat
    BY <1>0, <2>1, TotalNat
  <2>3. t * Total(v, nsats) \in Nat
    BY <2>2
  <2> QED BY <2>3 DEF total_reward, v
<1> QED BY <1>4, <1>5, <1>6 DEF Reward, Fractions

LEMMA RewardKept ==
    ASSUME UNCHANGED sats, NEW c
    PROVE  Reward(c)' = Reward(c)
BY DEF Reward, total_reward, Occurrences, Tic, nzeros, sum

\* A combination counts with its own tic, or not at all.
LEMMA RateEffect ==
    ASSUME SatsInv, \A k \in Sats : sats[k] # NULL, tic \in Nat, max \in Fractions,
           NEW c \in Combinations, NEW memory \in BOOLEAN, Rate(c, memory)
    PROVE  /\ tic' \in Nat /\ rated' = IF memory THEN rated \cup {c} ELSE rated
           /\ IF memory /\ Greater(Reward(c), max)
              THEN max' = Reward(c) /\ solution' = c ELSE UNCHANGED <<max, solution>>
<1>1. /\ Occurrences(c) \in Nat \ {0} /\ Tic(c) \in Nat
      /\ \A t \in Nat : total_reward(c, t) \in Nat
  BY RewardType
<1>2. CASE memory
  <2>1. tic' = Tic(c) /\ total_occurrences(c, memory) = Occurrences(c) /\ rated' = rated \cup {c}
    BY <1>2 DEF Rate, total_occurrences
  <2>2. Quotient(total_reward(c, tic'), total_occurrences(c, memory)) = Reward(c)
    BY <1>1, <2>1 DEF Quotient, Reward
  <2>3. IF Greater(Reward(c), max) THEN max' = Reward(c) /\ solution' = c ELSE UNCHANGED <<max, solution>>
    BY <2>2 DEF Rate
  <2> QED BY <1>1, <1>2, <2>1, <2>3
<1>3. CASE ~memory
  <2>1. tic' = tic /\ total_occurrences(c, memory) = -1 /\ rated' = rated
    BY <1>3 DEF Rate, total_occurrences
  <2>2. PICK r \in Nat : r = total_reward(c, tic')
    BY <1>1, <2>1
  <2>3. Quotient(total_reward(c, tic'), total_occurrences(c, memory)) = <<-r, 1>>
    <3>1. PICK n : n = total_occurrences(c, memory)
      OBVIOUS
    <3>a. n \in Int /\ n + 1 = 0
      BY <2>1, <3>1
    <3>b. \A m \in Int : m + 1 = 0 => m < 0 /\ -m = 1
      OBVIOUS
    <3>2. n < 0 /\ -n = 1
      BY <3>a, <3>b
    <3>3. Quotient(r, n) = <<-r, -n>>
      BY <3>2 DEF Quotient
    <3> QED BY <2>2, <3>1, <3>2, <3>3
  <2>4. PICK p \in Nat, q \in Nat : max[1] = p /\ max[2] = q
    BY DEF Fractions
  <2>5. ~Greater(<<-r, 1>>, max)
    <3>1. <<-r, 1>>[1] * q = -(r * q) /\ r * q \in Nat /\ p * <<-r, 1>>[2] = p
      OBVIOUS
    <3>2. ~(-(r * q) > p)
      BY <3>1
    <3> QED BY <2>4, <3>1, <3>2 DEF Greater
  <2>6. UNCHANGED <<max, solution>>
    BY <2>3, <2>5 DEF Rate
  <2> QED BY <1>3, <2>1, <2>6
<1> QED BY <1>2, <1>3

BestInv ==
    /\ i # NULL => i \in Int /\ \A k \in Sats : sats[k] # NULL
    /\ i = NULL => rated = {} /\ solution = NULL
    /\ combination \in Combinations /\ rated \subseteq Combinations
    /\ max \in Fractions /\ tic \in Nat
    /\ BestOfRated

LEMMA BestInit == Init => BestInv
<1> SUFFICES ASSUME Init PROVE BestInv
  OBVIOUS
<1>1. combination \in Combinations
  BY SchedulerAssumption DEF Init, Combinations
<1>2. max \in Fractions /\ tic \in Nat
  BY DEF Init, Fractions
<1>3. BestOfRated
  BY DEF Init, BestOfRated
<1> QED BY <1>1, <1>2, <1>3 DEF Init, BestInv

LEMMA IncrementedType ==
    ASSUME NEW n \in Int, NEW m \in Incremented(n)
    PROVE  m \in Int /\ m # NULL /\ (n < INT_MAX => m = n + 1)
<1>1. INT_MAX \in Nat /\ NULL \notin Int
  BY SchedulerAssumption
<1>2. m = -INT_MAX - 1 \/ m = n + 1
  BY DEF Incremented
<1>3. n < INT_MAX => m = n + 1
  BY <1>1 DEF Incremented
<1>4. m \in Int
  BY <1>1, <1>2
<1> QED BY <1>1, <1>3, <1>4

LEMMA BestStep == SatsInv /\ BestInv /\ [Next]_vars => BestInv'
<1> SUFFICES ASSUME SatsInv, BestInv, [Next]_vars PROVE BestInv'
  OBVIOUS
<1>1. ASSUME NEW k \in Sats, generate_solutions(k) PROVE BestInv'
  <2>1. sats[k] = NULL /\ UNCHANGED <<combination, solution, max, tic, i, tried, rated>>
    BY <1>1 DEF generate_solutions
  <2>2. i = NULL /\ rated = {} /\ solution = NULL
    BY <2>1 DEF BestInv
  <2>3. BestOfRated'
    BY <2>1, <2>2 DEF BestInv, BestOfRated
  <2> QED BY <2>1, <2>2, <2>3 DEF BestInv
<1>2. CASE solve_begin
  <2>1. /\ i = NULL /\ i' = 1 /\ (\A k \in Sats : sats[k] # NULL)
        /\ combination' = [k \in Sats |-> 0] /\ UNCHANGED <<sats, solution, max, tic, tried, rated>>
    BY <1>2 DEF solve_begin
  <2>2. combination' \in Combinations
    BY <2>1, SchedulerAssumption DEF Combinations
  <2>3. rated = {} /\ solution = NULL
    BY <2>1 DEF BestInv
  <2>4. BestOfRated'
    BY <2>1, <2>3 DEF BestInv, BestOfRated
  <2>5. i' # NULL
    BY <2>1, SchedulerAssumption
  <2> QED BY <2>1, <2>2, <2>4, <2>5 DEF BestInv
<1>3. ASSUME NEW memory \in BOOLEAN, solve_step(memory) PROVE BestInv'
  <2>1. PICK c : c = next_combination(combination)
    OBVIOUS
  <2>2. /\ i # NULL /\ i' \in Incremented(i) /\ combination' = c /\ UNCHANGED sats
        /\ IF check_solution(c) THEN Rate(c, memory) ELSE UNCHANGED <<max, tic, solution, rated>>
    BY <1>3, <2>1 DEF solve_step
  <2>3. c \in Combinations
    BY <2>1, NextCombination DEF BestInv
  <2>4. /\ i \in Int /\ (\A k \in Sats : sats[k] # NULL) /\ rated \subseteq Combinations
        /\ max \in Fractions /\ tic \in Nat /\ BestOfRated
    BY <2>2 DEF BestInv
  <2>5. \A d \in Combinations : Reward(d) \in Fractions
    BY <2>4, RewardType
  <2>6. \A d \in Combinations : Reward(d)' = Reward(d)
    BY <2>2, RewardKept
  <2>a. check_solution(c)
    <3> SUFFICES ASSUME NEW k \in Used(c) PROVE sats[k][c[k]].F # 0
      BY DEF check_solution
    <3>1. k \in Sats /\ c[k] \in 1..golden_index
      BY <2>3, SchedulerAssumption DEF Used, Combinations
    <3> QED BY <2>4, <3>1 DEF SatsInv
  <2>b. /\ tic' \in Nat /\ rated' = IF memory THEN rated \cup {c} ELSE rated
        /\ IF memory /\ Greater(Reward(c), max)
           THEN max' = Reward(c) /\ solution' = c ELSE UNCHANGED <<max, solution>>
    BY <2>2, <2>3, <2>4, <2>a, RateEffect
  <2>7. /\ max' \in Fractions
        /\ \A d \in rated' : ~Greater(Reward(d), max')
        /\ IF solution' = NULL THEN max' = <<0, 1>>
           ELSE solution' \in rated' /\ max' = Reward(solution')
    <3>0. NULL # c
      BY <2>3, SchedulerAssumption DEF Combinations, Sats
    <3>1. CASE memory /\ Greater(Reward(c), max)
      <4>1. max' = Reward(c) /\ solution' = c /\ rated' = rated \cup {c}
        BY <2>b, <3>1
      <4>2. \A d \in rated : ~Greater(Reward(d), Reward(c))
        <5> SUFFICES ASSUME NEW d \in rated PROVE ~Greater(Reward(d), Reward(c))
          OBVIOUS
        <5>1. Reward(d) \in Fractions /\ Reward(c) \in Fractions /\ ~Greater(Reward(d), max)
          BY <2>3, <2>4, <2>5 DEF BestOfRated
        <5> QED BY <2>4, <3>1, <5>1, GreaterOrder
      <4>3. ~Greater(Reward(c), Reward(c))
        <5>1. Reward(c) \in Fractions
          BY <2>3, <2>5
        <5>2. PICK x \in Nat, y \in Nat : Reward(c)[1] = x /\ Reward(c)[2] = y
          BY <5>1 DEF Fractions
        <5>3. x * y \in Nat
          OBVIOUS
        <5> QED BY <5>2, <5>3 DEF Greater
      <4> QED BY <2>3, <2>5, <3>0, <4>1, <4>2, <4>3
    <3>2. CASE ~(memory /\ Greater(Reward(c), max))
      <4>1. UNCHANGED <<max, solution>>
        BY <2>b, <3>2
      <4>2. \A d \in rated' : ~Greater(Reward(d), max)
        BY <2>4, <2>b, <3>2 DEF BestOfRated
      <4>3. rated \subseteq rated'
        BY <2>b
      <4> QED BY <2>4, <4>1, <4>2, <4>3 DEF BestOfRated
    <3> QED BY <3>1, <3>2
  <2>9. rated' \subseteq Combinations /\ i' \in Int /\ i' # NULL
    BY <2>2, <2>3, <2>4, <2>b, IncrementedType
  <2>8. BestOfRated'
    <3>2. \A d \in rated' : ~Greater(Reward(d)', max')
      BY <2>6, <2>7, <2>9
    <3>3. solution' # NULL => max' = Reward(solution)'
      <4> SUFFICES ASSUME solution' # NULL PROVE max' = Reward(solution)'
        OBVIOUS
      <4>1. Reward(solution)' = Reward(solution')
        BY <2>2 DEF Reward, total_reward, Occurrences, Tic, nzeros, sum, Used
      <4> QED BY <2>7, <4>1
    <3>4. (\A d \in rated : ~Greater(Reward(d), max))'
      BY <3>2 DEF Greater
    <3> QED BY <2>7, <3>3, <3>4 DEF BestOfRated
  <2> QED BY <2>2, <2>3, <2>4, <2>7, <2>8, <2>9, <2>b DEF BestInv
<1>4. CASE UNCHANGED vars
  <2>1. BestOfRated'
    <3>1. BestOfRated' = BestOfRated
      BY <1>4 DEF vars, BestOfRated, Reward, total_reward, Occurrences, Tic, nzeros, sum, Used
    <3> QED BY <3>1 DEF BestInv
  <2> QED BY <1>4, <2>1 DEF BestInv, vars
<1> QED BY <1>1, <1>2, <1>3, <1>4 DEF Next

\* Whatever the local solutions, solve keeps the best combination it has rated, with
\* the reward that is its own: the global tic never carries over from another one.
THEOREM KeepsBest == Spec => []BestOfRated
<1>1. Init => SatsInv /\ BestInv
  BY SatsInit, BestInit
<1>2. SatsInv /\ BestInv /\ [Next]_vars => SatsInv' /\ BestInv'
  BY SatsStep, BestStep
<1>3. BestInv => BestOfRated
  BY DEF BestInv
<1> QED BY <1>1, <1>2, <1>3, PTL DEF Spec

-----------------------------------------------------------------------------
(* The number of combinations.                                             *)

\* One more satellite multiplies them.
LEMMA OneMore ==
    ASSUME NEW n \in Nat, NEW D, IsFiniteSet(D), IsFiniteSet([1..n -> D])
    PROVE  /\ IsFiniteSet([1..(n + 1) -> D])
           /\ Cardinality([1..(n + 1) -> D]) = Cardinality([1..n -> D]) * Cardinality(D)
<1> DEFINE A == [1..n -> D]
           B == [1..(n + 1) -> D]
           join == [x \in A \X D |-> [k \in 1..(n + 1) |-> IF k = n + 1 THEN x[2] ELSE x[1][k]]]
<1>0. \A k \in 1..(n + 1) : k # n + 1 => k \in 1..n
  OBVIOUS
<1>00. n + 1 \in 1..(n + 1) /\ \A k \in 1..n : k \in 1..(n + 1) /\ k # n + 1
  OBVIOUS
<1>1. \A a \in A, b \in D : /\ join[<<a, b>>] \in B /\ join[<<a, b>>][n + 1] = b
                            /\ \A k \in 1..n : join[<<a, b>>][k] = a[k]
  <2> TAKE a \in A, b \in D
  <2>1. join[<<a, b>>] = [k \in 1..(n + 1) |-> IF k = n + 1 THEN b ELSE a[k]]
    OBVIOUS
  <2> HIDE DEF join
  <2> QED BY <1>0, <1>00, <2>1
<1>2. join \in [A \X D -> B]
  <2>1. \A x \in A \X D : join[x] \in B
    <3> SUFFICES ASSUME NEW x \in A \X D PROVE join[x] \in B
      OBVIOUS
    <3>1. x = <<x[1], x[2]>> /\ x[1] \in A /\ x[2] \in D
      OBVIOUS
    <3> HIDE DEF join
    <3> QED BY <1>1, <3>1
  <2>2. DOMAIN join = A \X D /\ join = [x \in DOMAIN join |-> join[x]]
    OBVIOUS
  <2> HIDE DEF join
  <2> QED BY <2>1, <2>2
<1> HIDE DEF join
<1>3. \A x, y \in A \X D : join[x] = join[y] => x = y
  <2> SUFFICES ASSUME NEW x \in A \X D, NEW y \in A \X D, join[x] = join[y] PROVE x = y
    OBVIOUS
  <2>1. x = <<x[1], x[2]>> /\ x[1] \in A /\ x[2] \in D /\ y = <<y[1], y[2]>> /\ y[1] \in A /\ y[2] \in D
    OBVIOUS
  <2>2. x[2] = y[2] /\ \A k \in 1..n : x[1][k] = y[1][k]
    <3>1. PICK a, b : a = x[1] /\ b = x[2]
      OBVIOUS
    <3>2. PICK c, d : c = y[1] /\ d = y[2]
      OBVIOUS
    <3>3. a \in A /\ b \in D /\ c \in A /\ d \in D /\ join[<<a, b>>] = join[<<c, d>>]
      BY <2>1, <3>1, <3>2
    <3>4. b = d /\ \A k \in 1..n : a[k] = c[k]
      <4>1. join[<<a, b>>][n + 1] = b /\ \A k \in 1..n : join[<<a, b>>][k] = a[k]
        BY <1>1, <3>3
      <4>2. join[<<c, d>>][n + 1] = d /\ \A k \in 1..n : join[<<c, d>>][k] = c[k]
        BY <1>1, <3>3
      <4> QED BY <3>3, <4>1, <4>2
    <3> QED BY <3>1, <3>2, <3>4
  <2>3. x[1] = y[1]
    BY <2>1, <2>2
  <2> QED BY <2>1, <2>2, <2>3
<1>4. \A f \in B : \E x \in A \X D : join[x] = f
  <2> SUFFICES ASSUME NEW f \in B PROVE \E x \in A \X D : join[x] = f
    OBVIOUS
  <2> DEFINE a == [k \in 1..n |-> f[k]]
  <2>1. a \in A /\ f[n + 1] \in D /\ \A k \in 1..n : a[k] = f[k]
    BY <1>00
  <2> HIDE DEF a
  <2>2. /\ join[<<a, f[n + 1]>>] \in B /\ join[<<a, f[n + 1]>>][n + 1] = f[n + 1]
        /\ \A k \in 1..n : join[<<a, f[n + 1]>>][k] = f[k]
    BY <1>1, <2>1
  <2>3. \A k \in 1..(n + 1) : join[<<a, f[n + 1]>>][k] = f[k]
    BY <1>0, <2>2
  <2>4. join[<<a, f[n + 1]>>] = f
    <3>1. PICK g : g = join[<<a, f[n + 1]>>]
      OBVIOUS
    <3>2. g \in B /\ \A k \in 1..(n + 1) : g[k] = f[k]
      BY <2>2, <2>3, <3>1
    <3>3. g = f
      BY <3>2
    <3> QED BY <3>1, <3>3
  <2> QED BY <2>1, <2>4
<1> HIDE DEF A, B
<1>5. ExistsBijection(A \X D, B)
  <2>1. join \in Bijection(A \X D, B)
    BY <1>2, <1>3, <1>4, Fun_IsBij
  <2> QED BY <2>1 DEF ExistsBijection
<1>6. IsFiniteSet(A \X D) /\ Cardinality(A \X D) = Cardinality(A) * Cardinality(D)
  BY FS_Product DEF A
<1>7. IsFiniteSet(B) /\ Cardinality(B) = Cardinality(A \X D)
  BY <1>5, <1>6, FS_Bijection
<1> QED BY <1>6, <1>7 DEF A, B

LEMMA None ==
    ASSUME NEW D
    PROVE  IsFiniteSet([1..0 -> D]) /\ Cardinality([1..0 -> D]) = 1
<1> DEFINE e == [k \in 1..0 |-> 0]
<1>1. [1..0 -> D] = {e}
  <2>1. e \in [1..0 -> D]
    OBVIOUS
  <2>2. \A f \in [1..0 -> D] : f = e
    OBVIOUS
  <2> HIDE DEF e
  <2> QED BY <2>1, <2>2
<1> HIDE DEF e
<1>2. IsFiniteSet({e}) /\ Cardinality({e}) = 1
  BY FS_Singleton
<1> QED BY <1>1, <1>2

LEMMA CombsLoop ==
    \E w : /\ number_of_combinations = w[nsats] /\ w[1] = golden_index + 1
           /\ \A k \in 2..nsats : w[k] = w[k - 1] * (golden_index + 1)
<1> DEFINE Body(s, k) == IF k = 1 THEN golden_index + 1 ELSE s[k - 1] * (golden_index + 1)
           w == CHOOSE s : s = [k \in Sats |-> Body(s, k)]
           n == nsats - 1
           step == [k \in 1..n |-> [x \in Nat |-> x * (golden_index + 1)]]
<1>0. nsats \in Nat /\ nsats # 0 /\ golden_index \in Nat /\ n \in Nat /\ golden_index + 1 \in Nat
  BY SchedulerAssumption
<1>1. number_of_combinations = w[nsats]
  BY DEF number_of_combinations
<1>2. step \in [1..n -> [Nat -> Nat]]
  <2>1. \A x \in Nat : x * (golden_index + 1) \in Nat
    BY <1>0
  <2> QED BY <2>1
<1>3. PICK f \in [0..n -> Nat] : f[0] = golden_index + 1 /\ \A k \in 1..n : f[k] = step[k][f[k - 1]]
  <2>1. PICK S : S = Nat
    OBVIOUS
  <2>2. golden_index + 1 \in S /\ step \in Steps(n, S)
    BY <1>0, <1>2, <2>1 DEF Steps
  <2>3. \E f : Computes(f, n, S, golden_index + 1, step)
    <3> HIDE DEF step, n
    <3> QED BY <1>0, <2>2, LoopExists
  <2> QED BY <2>1, <2>3 DEF Computes
<1> DEFINE h == [k \in Sats |-> f[k - 1]]
<1>4. \A k \in Sats : h[k] = Body(h, k)
  <2> SUFFICES ASSUME NEW k \in Sats PROVE h[k] = Body(h, k)
    OBVIOUS
  <2>1. CASE k = 1
    BY <1>3, <2>1 DEF Sats
  <2>2. CASE k # 1
    <3>1. k - 1 \in 1..n /\ k - 1 \in Sats /\ k - 1 - 1 \in 0..n
      BY <1>0, <2>2 DEF Sats
    <3>2. h[k] = f[k - 1] /\ h[k - 1] = f[k - 1 - 1]
      BY <3>1
    <3>3. f[k - 1] = step[k - 1][f[k - 1 - 1]] /\ f[k - 1 - 1] \in Nat
      <4> HIDE DEF step, n
      <4> QED BY <1>3, <3>1
    <3>4. step[k - 1][f[k - 1 - 1]] = f[k - 1 - 1] * (golden_index + 1)
      <4> HIDE DEF n
      <4> QED BY <3>1, <3>3
    <3> HIDE DEF h
    <3> QED BY <2>2, <3>2, <3>3, <3>4
  <2> QED BY <2>1, <2>2
<1>5. h = [k \in Sats |-> Body(h, k)]
  <2> DOMAIN h = Sats /\ h = [k \in DOMAIN h |-> h[k]]
    OBVIOUS
  <2> HIDE DEF Body, h
  <2> QED BY <1>4
<1>6. w = [k \in Sats |-> Body(w, k)]
  <2> HIDE DEF Body, h
  <2> QED BY <1>5
<1> HIDE DEF w
<1>7. w[1] = golden_index + 1 /\ \A k \in 2..nsats : w[k] = w[k - 1] * (golden_index + 1)
  <2>1. 1 \in Sats /\ \A k \in 2..nsats : k \in Sats /\ k # 1
    BY <1>0 DEF Sats
  <2> QED BY <1>6, <2>1
<1> QED BY <1>1, <1>7

\* The bound of the loop is the number of combinations.
LEMMA CombinationsCount ==
    IsFiniteSet(Combinations) /\ Cardinality(Combinations) = number_of_combinations
<1> DEFINE D == 0..golden_index
           n == nsats - 1
<1>0. nsats \in Nat /\ nsats # 0 /\ golden_index \in Nat /\ n \in Nat /\ n + 1 = nsats
  BY SchedulerAssumption
<1>1. IsFiniteSet(D) /\ Cardinality(D) = golden_index + 1
  <2>1. 0 \in Int /\ golden_index \in Int /\ ~(0 > golden_index) /\ golden_index - 0 + 1 = golden_index + 1
    BY <1>0
  <2> QED BY <2>1, FS_Interval
<1>2. PICK w : /\ number_of_combinations = w[nsats] /\ w[1] = golden_index + 1
               /\ \A k \in 2..nsats : w[k] = w[k - 1] * (golden_index + 1)
  BY CombsLoop
<1> HIDE DEF D, n
<1> DEFINE P == {m \in 0..n : IsFiniteSet([1..(m + 1) -> D]) /\ Cardinality([1..(m + 1) -> D]) = w[m + 1]}
<1>3. 0 \in P
  <2>1. IsFiniteSet([1..0 -> D]) /\ Cardinality([1..0 -> D]) = 1
    BY None
  <2>2. IsFiniteSet([1..(0 + 1) -> D]) /\ Cardinality([1..(0 + 1) -> D]) = 1 * Cardinality(D)
    BY <1>1, <2>1, OneMore
  <2>3. 0 + 1 = 1 /\ 1 * (golden_index + 1) = golden_index + 1
    BY <1>0
  <2> QED BY <1>0, <1>1, <1>2, <2>2, <2>3
<1>4. ASSUME NEW m \in 1..n, m - 1 \in P PROVE m \in P
  <2>1. m \in Nat /\ m - 1 + 1 = m /\ m + 1 \in 2..nsats /\ m + 1 - 1 = m
    BY <1>0
  <2>2. IsFiniteSet([1..m -> D]) /\ Cardinality([1..m -> D]) = w[m]
    BY <1>4, <2>1
  <2>3. IsFiniteSet([1..(m + 1) -> D]) /\ Cardinality([1..(m + 1) -> D]) = w[m] * (golden_index + 1)
    BY <1>1, <2>1, <2>2, OneMore
  <2>4. w[m + 1] = w[m] * (golden_index + 1)
    BY <1>2, <2>1
  <2> QED BY <2>3, <2>4
<1>5. n \in P
  <2> HIDE DEF P
  <2>1. \A m \in 0..n : m \in P
    BY <1>0, <1>3, <1>4, Induction
  <2> QED BY <1>0, <2>1
<1>6. IsFiniteSet([1..nsats -> D]) /\ Cardinality([1..nsats -> D]) = w[nsats]
  BY <1>0, <1>5
<1> QED BY <1>2, <1>6 DEF Combinations, Sats, D

-----------------------------------------------------------------------------
(* The order in which combinations are tried.                              *)

Zero == [k \in Sats |-> 0]

\* c comes before d as numbers of nsats digits.
Before(c, d) == \E p \in Sats : c[p] < d[p] /\ \A k \in Sats : k < p => c[k] = d[k]

LEMMA FirstDifference ==
    ASSUME NEW c \in Combinations, NEW d \in Combinations, c # d
    PROVE  \E p \in Sats : c[p] # d[p] /\ \A k \in Sats : k < p => c[k] = d[k]
<1> DEFINE T == {k \in Sats : c[k] # d[k]}
<1>1. T # {}
  <2> SUFFICES ASSUME \A k \in Sats : c[k] = d[k] PROVE FALSE
    OBVIOUS
  <2> QED BY DEF Combinations
<1>2. T \subseteq Nat
  BY DEF Sats
<1>3. PICK p \in T : \A k \in T : ~ (<<k, p>> \in OpToRel(<, Nat))
  <2> HIDE DEF T
  <2> QED BY <1>1, <1>2, NatLessThanWellFounded, WFMin
<1>4. \A k \in T : ~ (k < p)
  <2> HIDE DEF T
  <2> QED BY <1>2, <1>3 DEF OpToRel
<1> QED BY <1>4

LEMMA Digits ==
    ASSUME NEW c \in Combinations
    PROVE  \A k \in Sats : c[k] \in Nat /\ c[k] <= golden_index
BY SchedulerAssumption DEF Combinations

LEMMA ZeroFirst == Zero \in Combinations /\ \A c \in Combinations : ~Before(c, Zero)
<1>1. Zero \in Combinations /\ \A k \in Sats : Zero[k] = 0
  BY SchedulerAssumption DEF Zero, Combinations
<1>2. ASSUME NEW c \in Combinations, Before(c, Zero) PROVE FALSE
  <2>1. PICK p \in Sats : c[p] < Zero[p]
    BY <1>2 DEF Before
  <2>2. c[p] \in Nat /\ Zero[p] = 0
    BY <1>1, Digits
  <2> QED BY <2>1, <2>2
<1> QED BY <1>1, <1>2

LEMMA FullLast ==
    ASSUME NEW a \in Combinations, \A k \in Sats : a[k] = golden_index, NEW c \in Combinations
    PROVE  c = a \/ Before(c, a)
<1> SUFFICES ASSUME c # a PROVE Before(c, a)
  OBVIOUS
<1>1. PICK p \in Sats : c[p] # a[p] /\ \A k \in Sats : k < p => c[k] = a[k]
  BY FirstDifference
<1>2. c[p] \in Nat /\ c[p] <= golden_index /\ a[p] = golden_index /\ golden_index \in Nat
  BY Digits, SchedulerAssumption
<1>3. c[p] < a[p]
  BY <1>1, <1>2
<1> QED BY <1>1, <1>3 DEF Before

\* Nothing lies between a combination and the next.
LEMMA NextInOrder ==
    ASSUME NEW a \in Combinations, NEW d \in Combinations, NEW m, CarriesTo(a, m, d)
    PROVE  /\ \A c \in Combinations : Before(c, d) <=> c = a \/ Before(c, a)
           /\ ~Before(d, a) /\ d # a /\ d # Zero
<1>0. /\ m \in Sats /\ a[m] < golden_index /\ d[m] = a[m] + 1 /\ a[m] \in Nat
      /\ \A k \in Sats : /\ k > m => a[k] = golden_index /\ d[k] = 0
                         /\ k < m => d[k] = a[k]
      /\ Sats \subseteq Nat /\ golden_index \in Nat
  <2>1. Sats \subseteq Nat /\ golden_index \in Nat
    BY SchedulerAssumption DEF Sats
  <2>2. a[m] \in Nat
    BY Digits DEF CarriesTo
  <2> QED BY <2>1, <2>2 DEF CarriesTo
<1>1. ASSUME NEW c \in Combinations PROVE Before(c, d) <=> c = a \/ Before(c, a)
  <2>0. \A k \in Sats : c[k] \in Nat /\ c[k] <= golden_index
    BY Digits
  <2>1. ASSUME c = a PROVE Before(c, d)
    BY <1>0, <2>1 DEF Before
  <2>2. ASSUME Before(c, a) PROVE Before(c, d)
    <3>1. PICK p \in Sats : c[p] < a[p] /\ \A k \in Sats : k < p => c[k] = a[k]
      BY <2>2 DEF Before
    <3>2. CASE p < m
      <4>1. c[p] < d[p] /\ \A k \in Sats : k < p => c[k] = d[k]
        BY <1>0, <3>1, <3>2
      <4> QED BY <4>1 DEF Before
    <3>3. CASE p = m
      <4>1. c[p] < d[p] /\ \A k \in Sats : k < p => c[k] = d[k]
        BY <1>0, <2>0, <3>1, <3>3
      <4> QED BY <4>1 DEF Before
    <3>4. CASE p > m
      <4>1. c[m] < d[m] /\ \A k \in Sats : k < m => c[k] = d[k]
        BY <1>0, <3>1, <3>4
      <4> QED BY <1>0, <4>1 DEF Before
    <3>5. p < m \/ p = m \/ p > m
      BY <1>0
    <3> QED BY <3>2, <3>3, <3>4, <3>5
  <2>3. ASSUME Before(c, d) PROVE c = a \/ Before(c, a)
    <3>1. PICK p \in Sats : c[p] < d[p] /\ \A k \in Sats : k < p => c[k] = d[k]
      BY <2>3 DEF Before
    <3>2. p \in Nat /\ m \in Nat /\ ~(p > m)
      BY <1>0, <2>0, <3>1
    <3>3. CASE p < m
      <4>1. c[p] < a[p] /\ \A k \in Sats : k < p => c[k] = a[k]
        BY <1>0, <3>1, <3>3
      <4> QED BY <4>1 DEF Before
    <3>4. CASE p = m /\ c[m] < a[m]
      <4>1. \A k \in Sats : k < m => c[k] = a[k]
        BY <1>0, <3>1, <3>4
      <4> QED BY <1>0, <3>4, <4>1 DEF Before
    <3>5. CASE p = m /\ ~(c[m] < a[m])
      <4> SUFFICES ASSUME c # a PROVE Before(c, a)
        OBVIOUS
      <4>1. c[m] = a[m] /\ \A k \in Sats : k < m => c[k] = a[k]
        BY <1>0, <2>0, <3>1, <3>5
      <4>2. PICK q \in Sats : c[q] # a[q] /\ \A k \in Sats : k < q => c[k] = a[k]
        BY FirstDifference
      <4>3. q > m
        BY <1>0, <4>1, <4>2
      <4>4. c[q] < a[q]
        BY <1>0, <2>0, <4>2, <4>3
      <4> QED BY <4>2, <4>4 DEF Before
    <3> QED BY <3>2, <3>3, <3>4, <3>5
  <2> QED BY <2>1, <2>2, <2>3
<1>2. ~Before(d, a)
  <2> SUFFICES ASSUME Before(d, a) PROVE FALSE
    OBVIOUS
  <2>1. Before(d, d)
    BY <1>1
  <2>2. PICK p \in Sats : d[p] < d[p]
    BY <2>1 DEF Before
  <2>3. d[p] \in Nat
    BY Digits
  <2> QED BY <2>2, <2>3
<1>3. d # a /\ d # Zero
  BY <1>0 DEF Zero
<1> QED BY <1>1, <1>2, <1>3

\* An int can count the combinations.
Countable == number_of_combinations <= INT_MAX

\* The combinations tried are those up to the present one.
TriedInv ==
    Countable =>
        /\ i # NULL => i \in Nat \ {0}
        /\ combination \in Combinations
        /\ i = NULL => tried = {}
        /\ i # NULL => /\ i <= number_of_combinations
                       /\ tried = {c \in Combinations : c # Zero /\ (c = combination \/ Before(c, combination))}
                       /\ Cardinality(tried) = i - 1

LEMMA CountType == number_of_combinations \in Nat /\ number_of_combinations > 0
<1>1. Zero \in Combinations
  BY ZeroFirst
<1>2. Cardinality(Combinations) \in Nat /\ (Cardinality(Combinations) = 0 <=> Combinations = {})
  BY CombinationsCount, FS_CardinalityType, FS_EmptySet
<1> QED BY <1>1, <1>2, CombinationsCount

LEMMA TriedInit == Init => TriedInv
<1> SUFFICES ASSUME Init PROVE TriedInv
  OBVIOUS
<1>1. combination \in Combinations
  BY ZeroFirst DEF Init, Zero
<1> QED BY <1>1 DEF Init, TriedInv

LEMMA TriedStep == TriedInv /\ [Next]_vars => TriedInv'
<1> SUFFICES ASSUME TriedInv, [Next]_vars PROVE TriedInv'
  OBVIOUS
<1>0. SUFFICES ASSUME Countable PROVE TriedInv'
  BY DEF TriedInv, Countable
<1>1. CASE UNCHANGED <<combination, i, tried>>
  BY <1>1 DEF TriedInv
<1>2. CASE solve_begin
  <2>1. i = NULL /\ i' = 1 /\ i' # NULL /\ combination' = Zero /\ tried' = {}
    BY <1>0, <1>2, SchedulerAssumption DEF solve_begin, Zero, TriedInv
  <2>2. {c \in Combinations : c # Zero /\ (c = Zero \/ Before(c, Zero))} = {}
    BY ZeroFirst
  <2>3. Cardinality({}) = 0
    BY FS_EmptySet
  <2>4. Zero \in Combinations /\ 1 <= number_of_combinations
    BY ZeroFirst, CountType
  <2> QED BY <2>1, <2>2, <2>3, <2>4 DEF TriedInv
<1>3. ASSUME NEW memory \in BOOLEAN, solve_step(memory) PROVE TriedInv'
  <2>1. PICK d : d = next_combination(combination)
    OBVIOUS
  <2>a. i # NULL /\ i \in Nat \ {0} /\ i < number_of_combinations /\ i' \in Incremented(i)
    BY <1>0, <1>3 DEF solve_step, TriedInv
  <2>b. i < INT_MAX
    BY <1>0, <2>a, CountType, SchedulerAssumption DEF Countable
  <2>c. i' = i + 1 /\ i' # NULL
    BY <2>a, <2>b, IncrementedType
  <2>2. /\ i \in Nat /\ i > 0 /\ i < number_of_combinations /\ i' = i + 1
        /\ combination' = d /\ tried' = tried \cup {d}
        /\ combination \in Combinations /\ Cardinality(tried) = i - 1
        /\ tried = {c \in Combinations : c # Zero /\ (c = combination \/ Before(c, combination))}
    BY <1>0, <1>3, <2>1, <2>a, <2>c DEF solve_step, TriedInv
  <2>3. ~ \A k \in Sats : combination[k] = golden_index
    <3> SUFFICES ASSUME \A k \in Sats : combination[k] = golden_index PROVE FALSE
      OBVIOUS
    <3>1. \A c \in Combinations : c = combination \/ Before(c, combination)
      BY <2>2, FullLast
    <3>2. tried = Combinations \ {Zero}
      BY <2>2, <3>1
    <3>3. Cardinality(tried) = number_of_combinations - 1
      BY <3>2, ZeroFirst, CombinationsCount, FS_RemoveElement
    <3> QED BY <2>2, <3>3, CountType
  <2>4. PICK m : d \in Combinations /\ CarriesTo(combination, m, d)
    BY <2>1, <2>2, <2>3, NextCombination
  <2>5. /\ \A c \in Combinations : Before(c, d) <=> c = combination \/ Before(c, combination)
        /\ ~Before(d, combination) /\ d # combination /\ d # Zero
    BY <2>2, <2>4, NextInOrder
  <2>6. tried' = {c \in Combinations : c # Zero /\ (c = d \/ Before(c, d))}
    BY <2>2, <2>4, <2>5
  <2>7. Cardinality(tried') = i
    <3>1. d \notin tried
      BY <2>2, <2>5
    <3>2. IsFiniteSet(tried)
      <4>1. tried \in SUBSET Combinations
        BY <2>2
      <4> QED BY <4>1, CombinationsCount, FS_Subset
    <3>3. Cardinality(tried \cup {d}) = Cardinality(tried) + 1
      BY <3>1, <3>2, FS_AddElement
    <3> QED BY <2>2, <3>3
  <2>8. i' \in Nat \ {0} /\ i' <= number_of_combinations /\ i' - 1 = i
    BY <2>2, CountType
  <2> QED BY <2>2, <2>4, <2>6, <2>7, <2>8, <2>c DEF TriedInv
<1> QED BY <1>1, <1>2, <1>3 DEF Next, generate_solutions, vars

LEMMA TriedAll == TriedInv => AllTriedOnce
<1> SUFFICES ASSUME TriedInv PROVE AllTriedOnce
  OBVIOUS
<1>0. SUFFICES ASSUME Countable
               PROVE  /\ Cardinality(tried) = IF i = NULL THEN 0 ELSE i - 1
                      /\ Done => tried = Combinations \ {Zero}
  BY DEF AllTriedOnce, Countable, Zero
<1>1. Cardinality(tried) = IF i = NULL THEN 0 ELSE i - 1
  BY <1>0, FS_EmptySet DEF TriedInv
<1>2. ASSUME Done PROVE tried = Combinations \ {Zero}
  <2>1. i = number_of_combinations /\ i # NULL
    BY <1>2, CountType, SchedulerAssumption DEF Done
  <2>2. IsFiniteSet(Combinations \ {Zero}) /\ Cardinality(Combinations \ {Zero}) = i - 1
    BY <2>1, ZeroFirst, CombinationsCount, FS_RemoveElement
  <2>3. tried \in SUBSET (Combinations \ {Zero}) /\ Cardinality(tried) = i - 1
    BY <1>0, <2>1 DEF TriedInv
  <2> QED BY <2>2, <2>3, FS_Subset
<1> QED BY <1>1, <1>2

\* solve tries every combination that uses a satellite, each of them once, whatever
\* the number of satellites and solutions, as long as an int can count them.
THEOREM TriesAllOnce == Spec => []AllTriedOnce
<1>1. Init => TriedInv
  BY TriedInit
<1>2. TriedInv /\ [Next]_vars => TriedInv'
  BY TriedStep
<1>3. TriedInv => AllTriedOnce
  BY TriedAll
<1> QED BY <1>1, <1>2, <1>3, PTL DEF Spec

-----------------------------------------------------------------------------
(* What solve returns.                                                     *)

\* When solve ends no combination has a greater reward than the one it kept, but for
\* those that could not be rated.
Optimal ==
    Countable /\ Done => \A c \in Combinations : c \in tried \ rated \/ ~Greater(Reward(c), max)

LEMMA NoRewardForNone ==
    ASSUME SatsInv, \A k \in Sats : sats[k] # NULL
    PROVE  Reward(Zero)[1] = 0
<1>0. ntasks \in Nat /\ ntasks > 0 /\ nsats \in Nat
  BY SchedulerAssumption
<1>1. Used(Zero) = {}
  BY DEF Used, Zero
<1>2. \A t : sum(Zero, t) = 0
  BY <1>1, FS_EmptySet DEF sum
<1>3. nzeros(Zero) = ntasks
  <2>1. {t \in 1..ntasks : sum(Zero, t) = 0} = 1..ntasks
    BY <1>2
  <2>2. 1 \in Int /\ ntasks \in Int /\ ~(1 > ntasks) /\ ntasks - 1 + 1 = ntasks
    BY <1>0
  <2>3. Cardinality(1..ntasks) = ntasks
    BY <2>2, FS_Interval
  <2> QED BY <2>1, <2>3 DEF nzeros
<1>4. Tic(Zero) = 0
  <2>1. (ntasks - ntasks) * 10 = 0 /\ 0 \div ntasks = 0
    BY <1>0
  <2> QED BY <1>3, <2>1 DEF Tic
<1> DEFINE v == [k \in Sats |-> IF Zero[k] = 0 THEN 0 ELSE sats[k][Zero[k]].F]
<1>5. v \in [1..nsats -> Nat]
  BY DEF Zero, Sats
<1>6. total_reward(Zero, Tic(Zero)) = Tic(Zero) * Total(v, nsats)
  BY DEF total_reward
<1> HIDE DEF v
<1>7. Total(v, nsats) \in Nat
  BY <1>0, <1>5, TotalNat
<1> QED BY <1>4, <1>6, <1>7 DEF Reward

LEMMA BestOfAll == SatsInv /\ BestInv /\ TriedInv => Optimal
<1> SUFFICES ASSUME SatsInv, BestInv, TriedInv, Countable, Done, NEW c \in Combinations
             PROVE  c \in tried \ rated \/ ~Greater(Reward(c), max)
  BY DEF Optimal
<1>1. i # NULL /\ (\A k \in Sats : sats[k] # NULL) /\ max \in Fractions /\ BestOfRated
  BY CountType, SchedulerAssumption DEF Done, BestInv
<1>2. tried = Combinations \ {Zero}
  BY TriedAll DEF AllTriedOnce, Zero, Countable
<1>3. CASE c # Zero
  BY <1>1, <1>2, <1>3 DEF BestOfRated
<1>4. CASE c = Zero
  <2>1. Reward(c)[1] = 0 /\ Reward(c) \in Fractions
    BY <1>1, <1>4, NoRewardForNone, RewardType
  <2>2. PICK n \in Nat, p \in Nat, q \in Nat : Reward(c)[2] = n /\ max[1] = p /\ max[2] = q
    BY <1>1, <2>1 DEF Fractions
  <2>3. 0 * q = 0 /\ p * n \in Nat
    OBVIOUS
  <2> QED BY <2>1, <2>2, <2>3 DEF Greater
<1> QED BY <1>3, <1>4

\* The search is exhaustive and keeps the best, so what solve returns is the best of
\* all combinations, as long as an int can count them and there is memory.
THEOREM SolvesTask == Spec => []Optimal
<1>1. Init => SatsInv /\ BestInv /\ TriedInv
  BY SatsInit, BestInit, TriedInit
<1>2. SatsInv /\ BestInv /\ TriedInv /\ [Next]_vars => SatsInv' /\ BestInv' /\ TriedInv'
  BY SatsStep, BestStep, TriedStep
<1>3. SatsInv /\ BestInv /\ TriedInv => Optimal
  BY BestOfAll
<1> QED BY <1>1, <1>2, <1>3, PTL DEF Spec

=============================================================================
