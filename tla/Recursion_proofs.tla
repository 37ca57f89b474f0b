--------------------------- MODULE Recursion_proofs ---------------------------
(***************************************************************************)
(* Induction and recursion over the natural numbers, as statements about    *)
(* sets and functions.                                                      *)
(***************************************************************************)
EXTENDS Integers, FiniteSets, WellFoundedInduction, FiniteSetTheorems, TLAPS

\* Every nonempty set of natural numbers has a least member.
LEMMA LeastMember ==
  ASSUME NEW T, T \subseteq Nat, T # {}
  PROVE  \E x \in T : \A y \in T : x <= y
<1> DEFINE Up == {0 .. x : x \in T}
<1>1. IsWellFoundedOn(StrictSubsetOrdering(Nat), FiniteSubsetsOf(Nat))
  BY FS_StrictSubsetOrderingWellFounded
<1>2. Up \subseteq FiniteSubsetsOf(Nat)
  <2> SUFFICES ASSUME NEW x \in T
               PROVE  0 .. x \in FiniteSubsetsOf(Nat)
    OBVIOUS
  <2>1. IsFiniteSet(0 .. x)
    BY FS_Interval
  <2> QED
    BY <2>1 DEF FiniteSubsetsOf
<1>3. Up # {}
  OBVIOUS
<1> HIDE DEF Up
<1>4. PICK s \in Up : \A t \in Up : ~(<<t, s>> \in StrictSubsetOrdering(Nat))
  BY <1>1, <1>2, <1>3, WFMin
<1> USE DEF Up
<1>5. PICK x \in T : s = 0 .. x
  OBVIOUS
<1>6. ASSUME NEW y \in T, y < x
      PROVE  FALSE
  <2>1. 0 .. y \in Up
    BY DEF Up
  <2>2. 0 .. y # 0 .. x
    BY <1>6
  <2>3. 0 .. y \subseteq 0 .. x
    BY <1>6
  <2>4. <<0 .. y, 0 .. x>> \in StrictSubsetOrdering(Nat)
    BY <2>2, <2>3 DEF StrictSubsetOrdering
  <2> QED
    BY <2>1, <2>4, <1>4, <1>5
<1> QED
  BY <1>6

\* Induction up to n.
LEMMA InductionUpTo ==
  ASSUME NEW n \in Nat, NEW S, 0 \in S, \A i \in 1 .. n : i - 1 \in S => i \in S
  PROVE  0 .. n \subseteq S
<1> DEFINE T == (0 .. n) \ S
<1> SUFFICES ASSUME T # {}
             PROVE  FALSE
  OBVIOUS
<1>1. T \subseteq Nat
  OBVIOUS
<1> HIDE DEF T
<1>2. PICK x \in T : \A y \in T : x <= y
  BY <1>1, LeastMember
<1> USE DEF T
<1>3. x \in 1 .. n /\ x - 1 \in 0 .. n
  OBVIOUS
<1>4. x - 1 \in S
  BY <1>2, <1>3
<1> QED
  BY <1>3, <1>4

\* Recursion up to n: a run of the functions next from a exists.
LEMMA RecursionUpTo ==
  ASSUME NEW R, NEW a \in R, NEW n \in Nat, NEW next \in [1 .. n -> [R -> R]]
  PROVE  \E f \in [0 .. n -> R] : f[0] = a /\ \A i \in 1 .. n : f[i] = next[i][f[i - 1]]
<1> DEFINE Run(f, k) == f[0] = a /\ \A i \in 1 .. k : f[i] = next[i][f[i - 1]]
           S == {k \in 0 .. n : \E f \in [0 .. k -> R] : Run(f, k)}
<1>1. 0 \in S
  <2> DEFINE f == [i \in 0 .. 0 |-> a]
  <2>1. f \in [0 .. 0 -> R] /\ f[0] = a
    OBVIOUS
  <2>2. 1 .. 0 = {}
    OBVIOUS
  <2> HIDE DEF f
  <2>3. Run(f, 0)
    BY <2>1, <2>2
  <2>4. 0 \in 0 .. n
    OBVIOUS
  <2> HIDE DEF Run
  <2> QED
    BY <2>1, <2>3, <2>4
<1>2. ASSUME NEW k \in 1 .. n, k - 1 \in S
      PROVE  k \in S
  <2>1. PICK f \in [0 .. k - 1 -> R] : Run(f, k - 1)
    BY <1>2
  <2> DEFINE g == [i \in 0 .. k |-> IF i = k THEN next[k][f[k - 1]] ELSE f[i]]
  <2>2. next[k] \in [R -> R] /\ f[k - 1] \in R
    OBVIOUS
  <2>3. next[k][f[k - 1]] \in R
    BY <2>2
  <2>4. g \in [0 .. k -> R]
    BY <2>3
  <2>5. g[0] = a
    BY <2>1
  <2>6. ASSUME NEW i \in 1 .. k
        PROVE  g[i] = next[i][g[i - 1]]
    <3>1. g[i - 1] = f[i - 1]
      OBVIOUS
    <3>2. CASE i = k
      BY <3>1, <3>2
    <3>3. CASE i # k
      <4>1. i \in 1 .. k - 1
        BY <3>3
      <4>2. f[i] = next[i][f[i - 1]]
        BY <2>1, <4>1
      <4> QED
        BY <3>1, <3>3, <4>2
    <3> QED
      BY <3>2, <3>3
  <2> HIDE DEF g
  <2>7. Run(g, k)
    BY <2>5, <2>6
  <2>8. k \in 0 .. n
    OBVIOUS
  <2> HIDE DEF Run
  <2> QED
    BY <2>4, <2>7, <2>8
<1>3. n \in S
  <2> HIDE DEF S
  <2>1. 0 .. n \subseteq S
    BY <1>1, <1>2, InductionUpTo
  <2> QED
    BY <2>1
<1> QED
  BY <1>3
\* What RecursionUpTo needs and gives, as names a prover can match.
Machine(R, a, n, next) == a \in R /\ n \in Nat /\ next \in [1 .. n -> [R -> R]]
HasRun(R, a, n, next) ==
  \E f \in [0 .. n -> R] : f[0] = a /\ \A i \in 1 .. n : f[i] = next[i][f[i - 1]]

\* RecursionUpTo in those names.
LEMMA MachineRuns ==
  ASSUME NEW R, NEW a, NEW n, NEW next, Machine(R, a, n, next)
  PROVE  HasRun(R, a, n, next)
<1>1. a \in R /\ n \in Nat /\ next \in [1 .. n -> [R -> R]]
  BY DEF Machine
<1>2. \E f \in [0 .. n -> R] : f[0] = a /\ \A i \in 1 .. n : f[i] = next[i][f[i - 1]]
  BY <1>1, RecursionUpTo
<1> QED
  BY <1>2 DEF HasRun

\* The same of one function applied n times.
Walker(R, a, n, step) == a \in R /\ n \in Nat /\ step \in [R -> R]
HasWalk(R, a, n, step) ==
  \E f \in [0 .. n -> R] : f[0] = a /\ \A i \in 1 .. n : f[i] = step[f[i - 1]]

\* A function of a set into itself can be applied n times.
LEMMA WalkerWalks ==
  ASSUME NEW R, NEW a, NEW n, NEW step, Walker(R, a, n, step)
  PROVE  HasWalk(R, a, n, step)
<1> DEFINE next == [i \in 1 .. n |-> step]
<1>1. next \in [1 .. n -> [R -> R]]
  BY DEF Walker
<1>2. \A i \in 1 .. n : next[i] = step
  OBVIOUS
<1>3. a \in R /\ n \in Nat
  BY DEF Walker
<1> HIDE DEF next
<1>4. Machine(R, a, n, next)
  BY <1>1, <1>3 DEF Machine
<1>5. HasRun(R, a, n, next)
  BY <1>4, MachineRuns
<1>6. PICK f \in [0 .. n -> R] : f[0] = a /\ \A i \in 1 .. n : f[i] = next[i][f[i - 1]]
  BY <1>5 DEF HasRun
<1>7. \A i \in 1 .. n : f[i] = step[f[i - 1]]
  BY <1>2, <1>6
<1> QED
  BY <1>6, <1>7 DEF HasWalk
=============================================================================
