----------------------------- MODULE Scheduler -----------------------------
(***************************************************************************)
(* The task scheduler (Scheduler/shed.c, shed_local.c): every satellite    *)
(* has golden_index local solutions, a combination takes one of them, or   *)
(* none (0), from each satellite, and solve looks for the combination of   *)
(* the greatest reward by trying all of them.                              *)
(*                                                                         *)
(* F is in hundredths.  max and the reward of a combination are fractions, *)
(* <<numerator, denominator>>, compared exactly: the rounding of float is  *)
(* left out.  number_of_combinations is a long long; the counter of solve  *)
(* is an int, which cannot count to every long long.                       *)
(***************************************************************************)
EXTENDS Integers, FiniteSets, FiniteSetsExt

CONSTANTS
    nsats, ntasks, golden_index,
    Rewards,    \* values of F that rand() gives
    TaskSets,   \* the sets of tasks it gives
    INT_MAX,    \* the greatest int: 2^31 - 1 where the scheduler runs
    MaxFailures,    \* combinations for which malloc fails (bound)
    NULL

\* rand() % 99 + 1 is no less than 1, and generate_tasks puts at least one task.
ASSUME SchedulerAssumption ==
    /\ nsats \in Nat \ {0} /\ ntasks \in Nat \ {0} /\ golden_index \in Nat
    /\ Rewards \subseteq Nat \ {0}
    /\ \A T \in TaskSets : T \subseteq 1..ntasks /\ T # {}
    /\ INT_MAX \in Nat \ {0} /\ MaxFailures \in Nat
    /\ NULL \notin Int \cup [1..nsats -> 0..golden_index]

Sats == 1..nsats
Combinations == [Sats -> 0..golden_index]

VARIABLES
    sats,          \* local_solutions of each satellite; NULL before they are made
    combination,
    solution,      \* NULL while it is not initialised
    max, tic,      \* globals of shed.c
    i,             \* the counter of solve; NULL before it starts
    tried,         \* history: combinations tried
    rated          \* history: those of them for which there was memory

vars == <<sats, combination, solution, max, tic, i, tried, rated>>

Init ==
    /\ sats = [k \in Sats |-> NULL]
    /\ combination = [k \in Sats |-> 0]
    /\ solution = NULL
    /\ max = <<0, 1>> /\ tic = 0
    /\ i = NULL
    /\ tried = {} /\ rated = {}

-----------------------------------------------------------------------------
(* shed_local.c                                                            *)

\* The bubble sort of generate_solutions: one comparison; a pass, which compares
\* the first golden_index - c neighbours; all passes.
Exchange(F, d) == IF F[d] < F[d + 1] THEN [F EXCEPT ![d] = F[d + 1], ![d + 1] = F[d]] ELSE F

\* Mutant: a pass stops one comparison early.
Pass_short(F, c) ==
    LET G[d \in 0..(golden_index - c)] == IF d = 0 THEN F ELSE Exchange(G[d - 1], d)
    IN G[golden_index - c - 1]

Pass(F, c) ==
    LET G[d \in 0..(golden_index - c)] == IF d = 0 THEN F ELSE Exchange(G[d - 1], d)
    IN G[golden_index - c]

Sort(F) ==
    LET G[c \in 0..golden_index] == IF c = 0 THEN F ELSE Pass(G[c - 1], c)
    IN G[IF golden_index = 0 THEN 0 ELSE golden_index - 1]

generate_solutions(k) ==
    /\ sats[k] = NULL /\ \A j \in 1..(k - 1) : sats[j] # NULL
    /\ \E F \in [1..golden_index -> Rewards], tasks \in [1..golden_index -> TaskSets] :
          sats' = [sats EXCEPT ![k] = [j \in 1..golden_index |-> [F |-> Sort(F)[j], tasks |-> tasks[j]]]]
    /\ UNCHANGED <<combination, solution, max, tic, i, tried, rated>>

-----------------------------------------------------------------------------
(* shed.c                                                                  *)

number_of_combinations ==
    LET combs[k \in Sats] == IF k = 1 THEN golden_index + 1 ELSE combs[k - 1] * (golden_index + 1)
    IN combs[nsats]

\* Mutant: a satellite never goes past the solution before its last.
next_combination_short(c) ==
    LET carry == {k \in Sats : c[k] < golden_index - 1}
    IN [k \in Sats |-> IF carry = {} \/ k > Max(carry) THEN 0
                       ELSE IF k = Max(carry) THEN c[k] + 1 ELSE c[k]]

\* 1 is added to the last position and carried past those that are at their end.
next_combination(c) ==
    LET carry == {k \in Sats : c[k] < golden_index}
    IN [k \in Sats |-> IF carry = {} \/ k > Max(carry) THEN 0
                       ELSE IF k = Max(carry) THEN c[k] + 1 ELSE c[k]]

Used(c) == {k \in Sats : c[k] # 0}

check_solution(c) == \A k \in Used(c) : sats[k][c[k]].F # 0

\* Satellites that do a task, and the tasks nobody does.
sum(c, t) == Cardinality({k \in Used(c) : t \in sats[k][c[k]].tasks})
nzeros(c) == Cardinality({t \in 1..ntasks : sum(c, t) = 0})

\* A loop that adds up the first n numbers.
Total(v, n) == LET s[k \in 0..n] == IF k = 0 THEN 0 ELSE s[k - 1] + v[k] IN s[n]

\* Tasks that more than one satellite does count as often as they are done.
Occurrences(c) ==
    LET n == Total([t \in 1..ntasks |-> IF sum(c, t) > 1 THEN sum(c, t) ELSE 0], ntasks)
    IN IF n = 0 THEN 1 ELSE n

\* The share of the tasks that are done, in tenths, in integer arithmetic.
Tic(c) == ((ntasks - nzeros(c)) * 10) \div ntasks

\* What total_occurrences returns.  It sets tic, too; without memory for its array
\* it does neither.
total_occurrences(c, memory) == IF memory THEN Occurrences(c) ELSE -1

\* t is the value of tic that total_reward finds.
total_reward(c, t) == t * Total([k \in Sats |-> IF c[k] = 0 THEN 0 ELSE sats[k][c[k]].F], nsats)

\* r / n, with a denominator that is positive.
Quotient(r, n) == IF n < 0 THEN <<-r, -n>> ELSE <<r, n>>

Greater(x, y) == x[1] * y[2] > y[1] * x[2]

\* What i++ may give: past the greatest int, the least one, or, in a build that
\* counts in a wider register, the next number.
Incremented(n) == IF n = INT_MAX THEN {-INT_MAX - 1, n + 1} ELSE {n + 1}

\* solve starts when init_satellites has ended.
solve_begin ==
    /\ i = NULL /\ \A k \in Sats : sats[k] # NULL
    /\ i' = 1
    /\ combination' = [k \in Sats |-> 0]
    /\ UNCHANGED <<sats, solution, max, tic, tried, rated>>

\* Mutant: total_reward is called before total_occurrences, and reads the tic of the
\* combination before.
Rate_stale(c, memory) ==
    LET num == Quotient(total_reward(c, tic), total_occurrences(c, memory)) IN
    /\ tic' = IF memory THEN Tic(c) ELSE tic
    /\ rated' = IF memory THEN rated \cup {c} ELSE rated
    /\ IF Greater(num, max)
       THEN max' = num /\ solution' = c
       ELSE UNCHANGED <<max, solution>>

\* A valid combination is compared with the best so far.
Rate(c, memory) ==
    LET num == Quotient(total_reward(c, tic'), total_occurrences(c, memory)) IN
    /\ tic' = IF memory THEN Tic(c) ELSE tic
    /\ rated' = IF memory THEN rated \cup {c} ELSE rated
    /\ IF Greater(num, max)
       THEN max' = num /\ solution' = c
       ELSE UNCHANGED <<max, solution>>

\* One turn of its loop; memory is FALSE if malloc fails.
solve_step(memory) ==
    LET c == next_combination(combination) IN
    /\ i # NULL /\ i < number_of_combinations
    /\ memory \/ Cardinality(tried \ rated) < MaxFailures
    /\ i' \in Incremented(i)
    /\ combination' = c
    /\ tried' = tried \cup {c}
    /\ IF check_solution(c) THEN Rate(c, memory) ELSE UNCHANGED <<max, tic, solution, rated>>
    /\ UNCHANGED sats

Next ==
    \/ \E k \in Sats : generate_solutions(k)
    \/ solve_begin
    \/ \E memory \in BOOLEAN : solve_step(memory)

Spec == Init /\ [][Next]_vars

Done == i = number_of_combinations

-----------------------------------------------------------------------------
(* Properties.                                                             *)

\* The reward a combination should have, whatever was tried before it.
Reward(c) == <<total_reward(c, Tic(c)), Occurrences(c)>>

\* The solution so far is a combination that has been rated, max is its own reward
\* and none that has been rated has a greater one; until some reward is greater
\* than 0 there is no solution.  The tic of another combination, left in the global
\* when there is no memory, never counts.
BestOfRated ==
    /\ \A c \in rated : ~Greater(Reward(c), max)
    /\ IF solution = NULL THEN max = <<0, 1>> ELSE solution \in rated /\ max = Reward(solution)

\* When solve ends it has tried every combination that uses a satellite, each of
\* them once: the carry neither skips one nor meets one again.  This is so as long
\* as an int can count the combinations.
AllTriedOnce ==
    number_of_combinations <= INT_MAX =>
        /\ Cardinality(tried) = IF i = NULL THEN 0 ELSE i - 1
        /\ Done => tried = Combinations \ {[k \in Sats |-> 0]}

\* The local solutions of a satellite are sorted, best first, as
\* delete_duplicates assumes.
SolutionsSorted ==
    \A k \in Sats : sats[k] # NULL =>
        \A j \in 1..(golden_index - 1) : sats[k][j].F >= sats[k][j + 1].F

=============================================================================
