---------------------------- MODULE RpSlab_proofs ----------------------------
(***************************************************************************)
(* What RpSlab keeps whatever is allocated and freed, for every width of    *)
(* the word, every page size and every pool.                                *)
(*                                                                         *)
(* The invariant says of the pool what no field of it says: the owner of a  *)
(* page (the head of its list, or none), its rank in that list, and the     *)
(* extent it is in.  Sound says that such owners, ranks and extents exist   *)
(* and that every page's word, type and links agree with them.  A walk      *)
(* along a list then meets its pages in the order of their ranks, so it     *)
(* ends (ChainEnds) and misses none (MembersOwn): that is where the lists   *)
(* of the properties come from.  The words are taken apart around a bit     *)
(* (AroundBit), which turns setting and clearing one into addition.         *)
(***************************************************************************)
EXTENDS RpSlab, Recursion_proofs

-----------------------------------------------------------------------------
(* Powers of two and the division by them.                                 *)

\* A table of powers of two, up to any of them.
LEMMA PowRun ==
  ASSUME NEW n \in Nat
  PROVE  \E f \in [0 .. n -> Nat] : f[0] = 1 /\ \A i \in 1 .. n : f[i] = 2 * f[i - 1]
<1> DEFINE step == [x \in Nat |-> 2 * x]
           begin == 1
           Values == Nat
<1>1. begin \in Values /\ begin = 1 /\ Values = Nat
  OBVIOUS
<1>2. step \in [Values -> Values] /\ \A x \in Nat : step[x] = 2 * x
  OBVIOUS
<1> HIDE DEF step, begin, Values
<1>3. HasWalk(Values, begin, n, step)
  <2>1. Walker(Values, begin, n, step)
    BY <1>1, <1>2 DEF Walker
  <2> QED
    BY <2>1, WalkerWalks
<1>4. PICK f \in [0 .. n -> Nat] : f[0] = 1 /\ \A i \in 1 .. n : f[i] = step[f[i - 1]]
  <2>1. \E f \in [0 .. n -> Values] : f[0] = begin /\ \A i \in 1 .. n : f[i] = step[f[i - 1]]
    BY <1>3 DEF HasWalk
  <2>2. PICK f \in [0 .. n -> Values] : f[0] = begin /\ \A i \in 1 .. n : f[i] = step[f[i - 1]]
    BY <2>1
  <2>3. f \in [0 .. n -> Nat] /\ f[0] = 1
    BY <1>1, <2>2
  <2> QED
    BY <2>2, <2>3
<1>5. ASSUME NEW i \in 1 .. n
      PROVE  f[i] = 2 * f[i - 1]
  <2>1. f[i - 1] \in Nat
    OBVIOUS
  <2> QED
    BY <2>1, <1>2, <1>4
<1> QED
  BY <1>4, <1>5

\* Two tables of powers agree as far as both go.
LEMMA PowRunsAgree ==
  ASSUME NEW m \in Nat, NEW n \in Nat, m <= n,
         NEW f \in [0 .. m -> Nat], f[0] = 1, \A i \in 1 .. m : f[i] = 2 * f[i - 1],
         NEW g \in [0 .. n -> Nat], g[0] = 1, \A i \in 1 .. n : g[i] = 2 * g[i - 1]
  PROVE  \A k \in 0 .. m : f[k] = g[k]
<1> DEFINE S == {k \in 0 .. m : f[k] = g[k]}
<1>1. 0 \in S
  OBVIOUS
<1>2. \A i \in 1 .. m : i - 1 \in S => i \in S
  OBVIOUS
<1>3. 0 .. m \subseteq S
  <2> HIDE DEF S
  <2> QED
    BY <1>1, <1>2, InductionUpTo
<1> QED
  BY <1>3

\* Pow2 is what its definition says: such a function exists.
LEMMA PowDef ==
  /\ Pow2[0] = 1
  /\ \A k \in Nat : Pow2[k] \in Nat /\ Pow2[k + 1] = 2 * Pow2[k]
<1> DEFINE Is(f, n) == /\ f \in [0 .. n -> Nat]
                       /\ f[0] = 1
                       /\ \A i \in 1 .. n : f[i] = 2 * f[i - 1]
           run == [n \in Nat |-> CHOOSE f : Is(f, n)]
           g == [n \in Nat |-> run[n][n]]
<1>1. ASSUME NEW n \in Nat
      PROVE  Is(run[n], n)
  <2>1. \E f : Is(f, n)
    BY PowRun
  <2>2. run[n] = CHOOSE f : Is(f, n)
    OBVIOUS
  <2> HIDE DEF Is, run
  <2> QED
    BY <2>1, <2>2
<1>2. \A n \in Nat : g[n] = run[n][n]
  OBVIOUS
<1>3. DOMAIN g = Nat /\ g = [n \in Nat |-> g[n]]
  OBVIOUS
<1> HIDE DEF run, g
<1>4. \A n \in Nat : g[n] \in Nat
  BY <1>1, <1>2
<1>5. g[0] = 1
  BY <1>1, <1>2
<1>6. ASSUME NEW n \in Nat
      PROVE  g[n + 1] = 2 * g[n]
  <2>1. Is(run[n + 1], n + 1) /\ Is(run[n], n)
    <3>1. n + 1 \in Nat
      OBVIOUS
    <3> HIDE DEF Is, run
    <3> QED
      BY <3>1, <1>1
  <2>2. \A k \in 0 .. n : run[n][k] = run[n + 1][k]
    <3> DEFINE a == run[n]
               b == run[n + 1]
    <3>1. a \in [0 .. n -> Nat] /\ a[0] = 1 /\ \A i \in 1 .. n : a[i] = 2 * a[i - 1]
      BY <2>1
    <3>2. b \in [0 .. n + 1 -> Nat] /\ b[0] = 1 /\ \A i \in 1 .. n + 1 : b[i] = 2 * b[i - 1]
      BY <2>1
    <3> HIDE DEF a, b
    <3>3. n + 1 \in Nat /\ n <= n + 1
      OBVIOUS
    <3>4. \A k \in 0 .. n : a[k] = b[k]
      BY <3>1, <3>2, <3>3, PowRunsAgree
    <3> QED
      BY <3>4 DEF a, b
  <2>3. run[n + 1][n + 1] = 2 * run[n + 1][n]
    BY <2>1
  <2> QED
    BY <2>2, <2>3, <1>2
<1>7. g = [k \in Nat |-> IF k = 0 THEN 1 ELSE 2 * g[k - 1]]
  <2>1. ASSUME NEW k \in Nat
        PROVE  g[k] = IF k = 0 THEN 1 ELSE 2 * g[k - 1]
    <3>1. CASE k = 0
      BY <3>1, <1>5
    <3>2. CASE k # 0
      <4>1. k - 1 \in Nat /\ k - 1 + 1 = k
        BY <3>2
      <4> QED
        BY <4>1, <3>2, <1>6
    <3> QED
      BY <3>1, <3>2
  <2> QED
    BY <2>1, <1>3
<1>8. Pow2 = [k \in Nat |-> IF k = 0 THEN 1 ELSE 2 * Pow2[k - 1]]
  BY <1>7 DEF Pow2
<1>9. Pow2[0] = 1 /\ \A k \in Nat : Pow2[k + 1] = 2 * Pow2[k]
  BY <1>8
<1>10. ASSUME NEW n \in Nat
       PROVE  Pow2[n] \in Nat
  <2> DEFINE S == {k \in 0 .. n : Pow2[k] \in Nat}
  <2>1. 0 \in S
    BY <1>9
  <2>2. \A i \in 1 .. n : i - 1 \in S => i \in S
    <3> SUFFICES ASSUME NEW i \in 1 .. n, i - 1 \in S
                 PROVE  i \in S
      OBVIOUS
    <3>1. i - 1 \in Nat /\ i - 1 + 1 = i
      OBVIOUS
    <3> QED
      BY <3>1, <1>9
  <2>3. 0 .. n \subseteq S
    <3> HIDE DEF S
    <3> QED
      BY <2>1, <2>2, InductionUpTo
  <2> QED
    BY <2>3
<1> QED
  BY <1>9, <1>10

\* Multiplication by a positive number keeps the order.
LEMMA TimesOrder ==
  ASSUME NEW d \in Nat \ {0}, NEW x \in Int, NEW y \in Int
  PROVE  /\ x <= y => x * d <= y * d
         /\ x < y => x * d + d <= y * d
         /\ x * d \in Int
OBVIOUS

\* Quotient and remainder put the number together again.
LEMMA DivMod ==
  ASSUME NEW a \in Int, NEW d \in Nat \ {0}
  PROVE  /\ a \div d \in Int
         /\ a % d \in 0 .. d - 1
         /\ a = (a \div d) * d + (a % d)
OBVIOUS

\* A number put together that way has no other quotient or remainder.
LEMMA DivModUnique ==
  ASSUME NEW d \in Nat \ {0}, NEW q \in Int, NEW r \in 0 .. d - 1, NEW a \in Int, a = q * d + r
  PROVE  a \div d = q /\ a % d = r
<1> DEFINE e == a \div d
           s == a % d
<1>1. e \in Int /\ s \in 0 .. d - 1 /\ a = e * d + s
  BY DivMod
<1> HIDE DEF e, s
<1>2. ~(e < q)
  <2> SUFFICES ASSUME e < q
               PROVE  FALSE
    OBVIOUS
  <2>1. e * d + d <= q * d
    BY <1>1, TimesOrder
  <2>2. e * d \in Int /\ q * d \in Int
    BY <1>1, TimesOrder
  <2> QED
    BY <1>1, <2>1, <2>2
<1>3. ~(q < e)
  <2> SUFFICES ASSUME q < e
               PROVE  FALSE
    OBVIOUS
  <2>1. q * d + d <= e * d
    BY <1>1, TimesOrder
  <2>2. e * d \in Int /\ q * d \in Int
    BY <1>1, TimesOrder
  <2> QED
    BY <1>1, <2>1, <2>2
<1>4. e = q
  BY <1>1, <1>2, <1>3
<1>5. q * d \in Int
  BY TimesOrder
<1>6. s = r
  BY <1>1, <1>4, <1>5
<1> QED
  BY <1>4, <1>6 DEF e, s

\* A power of two is positive.
LEMMA PowPositive ==
  ASSUME NEW n \in Nat
  PROVE  Pow2[n] \in Nat \ {0}
<1> DEFINE S == {k \in 0 .. n : Pow2[k] \in Nat \ {0}}
<1>1. 0 \in S
  BY PowDef
<1>2. \A i \in 1 .. n : i - 1 \in S => i \in S
  <2> SUFFICES ASSUME NEW i \in 1 .. n, i - 1 \in S
               PROVE  i \in S
    OBVIOUS
  <2>1. i - 1 \in Nat /\ i - 1 + 1 = i
    OBVIOUS
  <2> QED
    BY <2>1, PowDef
<1>3. 0 .. n \subseteq S
  <2> HIDE DEF S
  <2> QED
    BY <1>1, <1>2, InductionUpTo
<1> QED
  BY <1>3

\* Exponents add where powers are multiplied.
LEMMA PowAdd ==
  ASSUME NEW a \in Nat, NEW b \in Nat
  PROVE  Pow2[a + b] = Pow2[a] * Pow2[b]
<1> DEFINE S == {k \in 0 .. b : Pow2[a + k] = Pow2[a] * Pow2[k]}
<1>1. 0 \in S
  <2>1. Pow2[a] \in Nat
    BY PowDef
  <2> QED
    BY <2>1, PowDef
<1>2. \A i \in 1 .. b : i - 1 \in S => i \in S
  <2> SUFFICES ASSUME NEW i \in 1 .. b, i - 1 \in S
               PROVE  i \in S
    OBVIOUS
  <2> DEFINE x == Pow2[a]
             y == Pow2[i - 1]
  <2>1. i - 1 \in Nat /\ i - 1 + 1 = i /\ a + (i - 1) \in Nat /\ a + (i - 1) + 1 = a + i
    OBVIOUS
  <2>2. Pow2[a + i] = 2 * Pow2[a + (i - 1)] /\ Pow2[i] = 2 * y
    BY <2>1, PowDef
  <2>3. Pow2[a + (i - 1)] = x * y
    OBVIOUS
  <2>4. x \in Nat /\ y \in Nat
    BY <2>1, PowDef
  <2> HIDE DEF x, y
  <2>5. 2 * (x * y) = x * (2 * y)
    BY <2>4
  <2> QED
    BY <2>2, <2>3, <2>5 DEF x
<1>3. 0 .. b \subseteq S
  <2> HIDE DEF S
  <2> QED
    BY <1>1, <1>2, InductionUpTo
<1> QED
  BY <1>3

\* Powers grow with their exponents, by a factor of two at least.
LEMMA PowOrder ==
  ASSUME NEW a \in Nat, NEW b \in Nat
  PROVE  /\ a <= b => Pow2[a] <= Pow2[b]
         /\ a < b => 2 * Pow2[a] <= Pow2[b] /\ Pow2[a] < Pow2[b]
         /\ Pow2[a] = Pow2[b] => a = b
<1>1. ASSUME NEW x \in Nat, NEW y \in Nat, x <= y
      PROVE  Pow2[x] <= Pow2[y]
  <2> DEFINE p == Pow2[x]
             q == Pow2[y - x]
  <2>1. y - x \in Nat /\ x + (y - x) = y
    BY <1>1
  <2>2. Pow2[y] = p * q
    BY <2>1, PowAdd
  <2>3. p \in Nat \ {0} /\ q \in Nat \ {0}
    BY <2>1, PowPositive
  <2> HIDE DEF p, q
  <2>4. p <= p * q
    BY <2>3
  <2> QED
    BY <2>2, <2>4 DEF p
<1>2. ASSUME NEW x \in Nat, NEW y \in Nat, x < y
      PROVE  2 * Pow2[x] <= Pow2[y] /\ Pow2[x] < Pow2[y]
  <2>1. x + 1 \in Nat /\ x + 1 <= y
    BY <1>2
  <2>2. Pow2[x + 1] <= Pow2[y] /\ Pow2[x + 1] = 2 * Pow2[x] /\ Pow2[x] \in Nat \ {0} /\ Pow2[y] \in Nat
    BY <2>1, <1>1, PowDef, PowPositive
  <2> QED
    BY <2>2
<1>3. Pow2[a] \in Nat /\ Pow2[b] \in Nat
  BY PowDef
<1> QED
  BY <1>1, <1>2, <1>3

-----------------------------------------------------------------------------
(* Words as sums of bits: setting a bit and clearing one.                  *)

\* A number below q * p, cut at q.
LEMMA Digits ==
  ASSUME NEW p \in Nat \ {0}, NEW q \in Nat \ {0}, NEW d \in 0 .. q - 1, NEW b \in 0 .. p - 1
  PROVE  d * p + b \in 0 .. q * p - 1
<1>1. d * p + p <= q * p
  BY TimesOrder
<1>2. 0 * p <= d * p
  BY TimesOrder
<1>3. d * p \in Int /\ q * p \in Int
  BY TimesOrder
<1> QED
  BY <1>1, <1>2, <1>3

\* A word cut in two at p.
LEMMA Cut ==
  ASSUME NEW w \in Nat, NEW p \in Nat \ {0}
  PROVE  \E q \in Nat : \E b \in 0 .. p - 1 : w = q * p + b
<1>1. w \div p \in Int /\ w % p \in 0 .. p - 1 /\ w = (w \div p) * p + (w % p)
  BY DivMod
<1>2. ~(w \div p < 0)
  <2> DEFINE e == w \div p
  <2>1. e \in Int /\ e * p \in Int
    BY <1>1, TimesOrder
  <2>2. e < 0 => e * p + p <= 0 * p
    BY <2>1, TimesOrder
  <2>3. w = e * p + (w % p)
    BY <1>1
  <2> HIDE DEF e
  <2>4. ~(e < 0)
    BY <2>1, <2>2, <2>3, <1>1
  <2> QED
    BY <2>4 DEF e
<1> DEFINE e == w \div p
           b == w % p
<1>3. e \in Nat /\ b \in 0 .. p - 1 /\ w = e * p + b
  BY <1>1, <1>2
<1> HIDE DEF e, b
<1> QED
  BY <1>3

\* A word around its bit i.
LEMMA AroundBit ==
  ASSUME NEW w \in Nat, NEW i \in Nat
  PROVE  \E a \in Nat : \E c \in {0, 1} : \E b \in 0 .. Pow2[i] - 1 :
           w = (2 * a + c) * Pow2[i] + b
<1> DEFINE p == Pow2[i]
<1>1. p \in Nat \ {0}
  BY PowPositive
<1>2. PICK q \in Nat : \E b \in 0 .. p - 1 : w = q * p + b
  <2> HIDE DEF p
  <2> QED
    BY <1>1, Cut
<1>3. PICK a \in Nat : \E c \in 0 .. 1 : q = 2 * a + c
  <2>1. q = 2 * (q \div 2) + (q % 2) /\ q \div 2 \in Nat /\ q % 2 \in 0 .. 1
    OBVIOUS
  <2> QED
    BY <2>1
<1> HIDE DEF p
<1>4. PICK c \in {0, 1} : q = 2 * a + c
  BY <1>3
<1> QED
  BY <1>2, <1>4 DEF p

\* The bit of a word taken apart around it.
LEMMA BitAround ==
  ASSUME NEW i \in Nat, NEW a \in Nat, NEW c \in {0, 1}, NEW b \in 0 .. Pow2[i] - 1,
         NEW w, w = (2 * a + c) * Pow2[i] + b
  PROVE  Bit(w, i) <=> c = 1
<1> DEFINE p == Pow2[i]
           q == 2 * a + c
<1>1. p \in Nat \ {0}
  BY PowPositive
<1>2. q \in Int
  OBVIOUS
<1>3. w = q * p + b /\ b \in 0 .. p - 1
  OBVIOUS
<1>4. w \div p = q
  <2> HIDE DEF p, q
  <2>1. q * p \in Int
    BY <1>1, <1>2, TimesOrder
  <2>2. w \in Int
    BY <1>1, <1>3, <2>1
  <2> QED
    BY <1>1, <1>2, <1>3, <2>2, DivModUnique
<1>5. q % 2 = c
  OBVIOUS
<1> HIDE DEF q
<1> QED
  BY <1>4, <1>5 DEF Bit

\* Setting a bit that is clear changes that bit only.
LEMMA BitSet ==
  ASSUME NEW w \in Nat, NEW i \in Nat, ~Bit(w, i), NEW j \in Nat
  PROVE  Bit(w + Pow2[i], j) <=> j = i \/ Bit(w, j)
<1> DEFINE p == Pow2[i]
           v == w + p
<1>1. PICK a \in Nat : \E c \in {0, 1} : \E b \in 0 .. p - 1 : w = (2 * a + c) * p + b
  BY AroundBit
<1>2. PICK b \in 0 .. p - 1 : w = (2 * a + 0) * p + b
  <2>1. PICK c \in {0, 1} : \E b \in 0 .. p - 1 : w = (2 * a + c) * p + b
    BY <1>1
  <2>2. c # 1
    BY <2>1, BitAround
  <2>3. c = 0
    BY <2>2
  <2> QED
    BY <2>1, <2>3
<1>3. p \in Nat \ {0}
  BY PowPositive
<1>4. CASE j = i
  <2>1. v = (2 * a + 1) * p + b
    <3> HIDE DEF p
    <3> QED
      BY <1>2, <1>3
  <2>2. 1 \in {0, 1}
    OBVIOUS
  <2>3. Bit(v, i)
    BY <2>1, <2>2, BitAround
  <2> QED
    BY <2>3, <1>4
<1>5. CASE j < i
  <2> DEFINE q == Pow2[j]
             r == Pow2[i - j - 1]
  <2>1. PICK e \in Nat : \E c \in {0, 1} : \E d \in 0 .. q - 1 : w = (2 * e + c) * q + d
    BY AroundBit
  <2>2. PICK c \in {0, 1} : \E d \in 0 .. q - 1 : w = (2 * e + c) * q + d
    BY <2>1
  <2>3. PICK d \in 0 .. q - 1 : w = (2 * e + c) * q + d
    BY <2>2
  <2>4. p = 2 * (q * r) /\ r \in Nat /\ q \in Nat \ {0}
    <3>1. i - j - 1 \in Nat /\ i - j - 1 + 1 = i - j /\ i - j \in Nat /\ j + (i - j) = i
      BY <1>5
    <3>2. Pow2[i - j] = 2 * r /\ r \in Nat /\ q \in Nat \ {0}
      BY <3>1, PowDef, PowPositive
    <3>3. p = q * Pow2[i - j]
      BY <3>1, PowAdd
    <3> HIDE DEF p, q, r
    <3> QED
      BY <3>2, <3>3
  <2>5. e + r \in Nat
    BY <2>4
  <2>6. v = (2 * (e + r) + c) * q + d
    <3> HIDE DEF p, q, r
    <3> QED
      BY <2>3, <2>4
  <2>7. Bit(v, j) <=> c = 1
    BY <2>5, <2>6, BitAround
  <2>8. Bit(w, j) <=> c = 1
    BY <2>3, BitAround
  <2> QED
    BY <2>7, <2>8, <1>5
<1>6. CASE j > i
  <2> DEFINE q == Pow2[j]
             r == Pow2[j - i - 1]
  <2>1. q = 2 * (p * r) /\ r \in Nat \ {0}
    <3>1. j - i - 1 \in Nat /\ j - i - 1 + 1 = j - i /\ j - i \in Nat /\ i + (j - i) = j
      BY <1>6
    <3>2. Pow2[j - i] = 2 * r /\ r \in Nat \ {0}
      BY <3>1, PowDef, PowPositive
    <3>3. q = p * Pow2[j - i]
      BY <3>1, PowAdd
    <3> HIDE DEF p, q, r
    <3> QED
      BY <3>2, <3>3, <1>3
  <2>2. PICK f \in Nat : \E s \in 0 .. r - 1 : a = f * r + s
    <3> HIDE DEF r
    <3> QED
      BY <2>1, Cut
  <2>3. PICK s \in 0 .. r - 1 : a = f * r + s
    BY <2>2
  <2>4. PICK e \in Nat : \E c \in 0 .. 1 : f = 2 * e + c
    <3>1. f = 2 * (f \div 2) + (f % 2) /\ f \div 2 \in Nat /\ f % 2 \in 0 .. 1
      OBVIOUS
    <3> QED
      BY <3>1
  <2>5. PICK c \in {0, 1} : f = 2 * e + c
    BY <2>4
  <2> DEFINE d == s * (2 * p) + b
             g == s * (2 * p) + (b + p)
  <2>6. d \in 0 .. q - 1 /\ g \in 0 .. q - 1
    <3> DEFINE t == 2 * p
    <3>1. t \in Nat \ {0} /\ b \in 0 .. t - 1 /\ b + p \in 0 .. t - 1
      BY <1>3
    <3>2. r \in Nat \ {0} /\ s \in 0 .. r - 1
      BY <2>1
    <3>3. s * t + b \in 0 .. r * t - 1 /\ s * t + (b + p) \in 0 .. r * t - 1
      <4> HIDE DEF t, p, r
      <4> QED
        BY <3>1, <3>2, Digits
    <3>4. r * t = q
      <4> HIDE DEF p, q, r
      <4> QED
        BY <2>1, <1>3
    <3> QED
      BY <3>3, <3>4
  <2>7. w = (2 * e + c) * q + d /\ v = (2 * e + c) * q + g
    <3>1. w = (2 * (f * r + s)) * p + b /\ v = (2 * (f * r + s)) * p + b + p
      BY <1>2, <2>3
    <3>2. (2 * (f * r + s)) * p + b = f * q + d
      <4> HIDE DEF p, q, r
      <4> QED
        BY <2>1, <1>3
    <3>3. (2 * (f * r + s)) * p + b + p = f * q + g
      <4> HIDE DEF p, q, r
      <4> QED
        BY <2>1, <1>3
    <3> QED
      BY <3>1, <3>2, <3>3, <2>5
  <2> HIDE DEF d, g
  <2>8. Bit(w, j) <=> c = 1
    BY <2>6, <2>7, BitAround
  <2>9. Bit(v, j) <=> c = 1
    BY <2>6, <2>7, BitAround
  <2> QED
    BY <2>8, <2>9, <1>6
<1> QED
  BY <1>4, <1>5, <1>6

\* Clearing a bit that is set changes that bit only.
LEMMA BitClear ==
  ASSUME NEW w \in Nat, NEW i \in Nat, Bit(w, i)
  PROVE  /\ w - Pow2[i] \in Nat
         /\ \A j \in Nat : Bit(w - Pow2[i], j) <=> j # i /\ Bit(w, j)
<1> DEFINE p == Pow2[i]
           v == w - p
<1>1. PICK a \in Nat : \E c \in {0, 1} : \E b \in 0 .. p - 1 : w = (2 * a + c) * p + b
  BY AroundBit
<1>2. PICK b \in 0 .. p - 1 : w = (2 * a + 1) * p + b
  <2>1. PICK c \in {0, 1} : \E b \in 0 .. p - 1 : w = (2 * a + c) * p + b
    BY <1>1
  <2>2. c = 1
    BY <2>1, BitAround
  <2> QED
    BY <2>1, <2>2
<1>3. p \in Nat \ {0}
  BY PowPositive
<1>4. v = (2 * a + 0) * p + b /\ v \in Nat
  <2> HIDE DEF p
  <2>1. v = (2 * a + 0) * p + b
    BY <1>2, <1>3
  <2>2. (2 * a + 0) * p \in Nat
    BY <1>3
  <2> QED
    BY <2>1, <2>2
<1>5. 0 \in {0, 1}
  OBVIOUS
<1>6. ~Bit(v, i)
  BY <1>4, <1>5, BitAround
<1>7. v + p = w
  <2> HIDE DEF p
  <2> QED
    BY <1>3
<1>8. \A j \in Nat : Bit(w, j) <=> j = i \/ Bit(v, j)
  <2> HIDE DEF v
  <2>1. \A j \in Nat : Bit(v + p, j) <=> j = i \/ Bit(v, j)
    BY <1>4, <1>6, BitSet
  <2> QED
    BY <2>1, <1>7
<1> HIDE DEF v
<1> QED
  BY <1>4, <1>6, <1>8 DEF v

\* A word of n bits is one still with a bit of these set.
LEMMA BitBound ==
  ASSUME NEW n \in Nat, NEW w \in 0 .. Pow2[n] - 1, NEW i \in 0 .. n - 1, ~Bit(w, i)
  PROVE  w + Pow2[i] \in 0 .. Pow2[n] - 1
<1> DEFINE p == Pow2[i]
           r == Pow2[n - i - 1]
<1>1. PICK a \in Nat : \E c \in {0, 1} : \E b \in 0 .. p - 1 : w = (2 * a + c) * p + b
  BY AroundBit
<1>2. PICK b \in 0 .. p - 1 : w = (2 * a + 0) * p + b
  <2>1. PICK c \in {0, 1} : \E b \in 0 .. p - 1 : w = (2 * a + c) * p + b
    BY <1>1
  <2>2. c # 1
    BY <2>1, BitAround
  <2>3. c = 0
    BY <2>2
  <2> QED
    BY <2>1, <2>3
<1>3. Pow2[n] = r * (2 * p) /\ r \in Nat \ {0} /\ p \in Nat \ {0}
  <2>1. n - i - 1 \in Nat /\ n - i - 1 + 1 = n - i /\ n - i \in Nat /\ i + (n - i) = n
    OBVIOUS
  <2>2. Pow2[n - i] = 2 * r /\ r \in Nat \ {0} /\ p \in Nat \ {0}
    BY <2>1, PowDef, PowPositive
  <2>3. Pow2[n] = p * Pow2[n - i]
    BY <2>1, PowAdd
  <2> HIDE DEF p, r
  <2> QED
    BY <2>2, <2>3
<1> DEFINE t == 2 * p
<1>4. t \in Nat \ {0} /\ b \in 0 .. t - 1 /\ b + p \in 0 .. t - 1
  BY <1>3
<1>5. w = a * t + b /\ w + p = a * t + (b + p)
  <2> HIDE DEF p
  <2> QED
    BY <1>2, <1>3
<1>6. w < r * t
  BY <1>3
<1>7. a < r
  <2> HIDE DEF t, r, p
  <2>1. ~(r <= a)
    <3> SUFFICES ASSUME r <= a
                 PROVE  FALSE
      OBVIOUS
    <3>1. r * t <= a * t /\ r * t \in Int /\ a * t \in Int
      BY <1>3, <1>4, TimesOrder
    <3> QED
      BY <3>1, <1>4, <1>5, <1>6
  <2> QED
    BY <2>1, <1>3
<1>8. a * t + (b + p) \in 0 .. r * t - 1
  <2>1. a \in 0 .. r - 1
    BY <1>3, <1>7
  <2> HIDE DEF t, r, p
  <2> QED
    BY <2>1, <1>3, <1>4, Digits
<1> QED
  BY <1>3, <1>5, <1>8

\* A word of n bits has no other set.
LEMMA BitHigh ==
  ASSUME NEW n \in Nat, NEW w \in 0 .. Pow2[n] - 1, NEW j \in Nat, n <= j
  PROVE  ~Bit(w, j)
<1>1. Pow2[n] <= Pow2[j] /\ Pow2[n] \in Nat \ {0} /\ Pow2[j] \in Nat \ {0}
  BY PowOrder, PowPositive
<1>2. w \in 0 .. Pow2[j] - 1
  BY <1>1
<1>3. w = (2 * 0 + 0) * Pow2[j] + w
  BY <1>1
<1>4. 0 \in {0, 1} /\ 0 \in Nat
  OBVIOUS
<1>5. Bit(w, j) <=> 0 = 1
  BY <1>2, <1>3, <1>4, BitAround
<1> QED
  BY <1>5

\* The word with the first n bits set.
LEMMA AllBits ==
  ASSUME NEW n \in Nat, NEW w \in 0 .. Pow2[n] - 1
  PROVE  (\A i \in 0 .. n - 1 : Bit(w, i)) <=> w = Pow2[n] - 1
<1>1. ASSUME \A i \in 0 .. n - 1 : Bit(w, i)
      PROVE  w = Pow2[n] - 1
  <2> DEFINE S == {k \in 0 .. n : \E q \in Nat : w = q * Pow2[k] + (Pow2[k] - 1)}
  <2>1. 0 \in S
    <3>1. w = w * 1 + (1 - 1) /\ w \in Nat
      OBVIOUS
    <3> QED
      BY <3>1, PowDef
  <2>2. \A i \in 1 .. n : i - 1 \in S => i \in S
    <3> SUFFICES ASSUME NEW i \in 1 .. n, i - 1 \in S
                 PROVE  i \in S
      OBVIOUS
    <3> DEFINE k == i - 1
               p == Pow2[k]
    <3>1. k \in Nat /\ k \in 0 .. n - 1 /\ k + 1 = i
      OBVIOUS
    <3>2. PICK q \in Nat : w = q * p + (p - 1)
      OBVIOUS
    <3>3. Pow2[i] = 2 * p /\ p \in Nat \ {0}
      BY <3>1, PowDef, PowPositive
    <3>4. PICK e \in Nat : \E c \in 0 .. 1 : q = 2 * e + c
      <4>1. q = 2 * (q \div 2) + (q % 2) /\ q \div 2 \in Nat /\ q % 2 \in 0 .. 1
        OBVIOUS
      <4> QED
        BY <4>1
    <3>5. PICK c \in {0, 1} : q = 2 * e + c
      BY <3>4
    <3>6. c = 1
      <4>1. Bit(w, k)
        BY <1>1, <3>1
      <4>2. p - 1 \in 0 .. p - 1
        BY <3>3
      <4> DEFINE b == p - 1
      <4>3. w = (2 * e + c) * Pow2[k] + b /\ b \in 0 .. Pow2[k] - 1
        BY <3>2, <3>5, <4>2
      <4> HIDE DEF k, b
      <4> QED
        BY <4>1, <4>3, <3>1, BitAround
    <3>7. w = e * Pow2[i] + (Pow2[i] - 1)
      <4>1. w = (2 * e + 1) * p + (p - 1)
        BY <3>2, <3>5, <3>6
      <4> HIDE DEF p, k
      <4> QED
        BY <4>1, <3>3
    <3> QED
      BY <3>7
  <2>3. n \in S
    <3> HIDE DEF S
    <3>1. 0 .. n \subseteq S
      BY <2>1, <2>2, InductionUpTo
    <3> QED
      BY <3>1
  <2>4. PICK q \in Nat : w = q * Pow2[n] + (Pow2[n] - 1)
    BY <2>3
  <2>5. Pow2[n] \in Nat \ {0}
    BY PowPositive
  <2>6. q = 0
    <3>1. 0 < q => 0 * Pow2[n] + Pow2[n] <= q * Pow2[n]
      BY <2>5, TimesOrder
    <3>2. q * Pow2[n] \in Int
      BY <2>5, TimesOrder
    <3> QED
      BY <3>1, <3>2, <2>4, <2>5
  <2> QED
    BY <2>4, <2>5, <2>6
<1>2. ASSUME w = Pow2[n] - 1, NEW i \in 0 .. n - 1
      PROVE  Bit(w, i)
  <2> DEFINE p == Pow2[i]
             r == Pow2[n - i - 1]
             a == r - 1
             b == p - 1
  <2>1. Pow2[n] = r * (2 * p) /\ r \in Nat \ {0} /\ p \in Nat \ {0}
    <3>1. n - i - 1 \in Nat /\ n - i - 1 + 1 = n - i /\ n - i \in Nat /\ i + (n - i) = n
      OBVIOUS
    <3>2. Pow2[n - i] = 2 * r /\ r \in Nat \ {0} /\ p \in Nat \ {0}
      BY <3>1, PowDef, PowPositive
    <3>3. Pow2[n] = p * Pow2[n - i]
      BY <3>1, PowAdd
    <3> HIDE DEF p, r
    <3> QED
      BY <3>2, <3>3
  <2>2. a \in Nat /\ b \in 0 .. p - 1
    BY <2>1
  <2>3. w = (2 * a + 1) * p + b
    <3> HIDE DEF p, r
    <3> QED
      BY <1>2, <2>1
  <2>4. 1 \in {0, 1} /\ i \in Nat
    OBVIOUS
  <2> HIDE DEF a, b
  <2>5. Bit(w, i) <=> 1 = 1
    BY <2>2, <2>3, <2>4, BitAround
  <2> QED
    BY <2>5
<1> QED
  BY <1>1, <1>2

\* The bits of a number above m lower bits.
LEMMA BitAbove ==
  ASSUME NEW m \in Nat, NEW s \in 0 .. Pow2[m] - 1, NEW w \in Nat, NEW i \in Nat
  PROVE  Bit(w * Pow2[m] + s, m + i) <=> Bit(w, i)
<1> DEFINE p == Pow2[i]
           q == Pow2[m]
           v == w * q + s
<1>1. PICK a \in Nat : \E c \in {0, 1} : \E b \in 0 .. p - 1 : w = (2 * a + c) * p + b
  BY AroundBit
<1>2. PICK c \in {0, 1} : \E b \in 0 .. p - 1 : w = (2 * a + c) * p + b
  BY <1>1
<1>3. PICK b \in 0 .. p - 1 : w = (2 * a + c) * p + b
  BY <1>2
<1>4. p \in Nat \ {0} /\ q \in Nat \ {0} /\ Pow2[m + i] = q * p
  BY PowPositive, PowAdd
<1> DEFINE d == b * q + s
<1>5. d \in 0 .. Pow2[m + i] - 1
  <2> HIDE DEF p, q
  <2>1. b * q + s \in 0 .. p * q - 1
    BY <1>4, Digits DEF q
  <2>2. p * q = q * p
    BY <1>4
  <2> QED
    BY <2>1, <2>2, <1>4
<1>6. v = (2 * a + c) * Pow2[m + i] + d
  <2>1. v = ((2 * a + c) * p + b) * q + s
    BY <1>3
  <2> HIDE DEF p, q, v
  <2>2. ((2 * a + c) * p + b) * q + s = (2 * a + c) * (q * p) + (b * q + s)
    BY <1>4 DEF q
  <2> QED
    BY <2>1, <2>2, <1>4
<1>7. Bit(w, i) <=> c = 1
  BY <1>3, BitAround
<1>8. Bit(v, m + i) <=> c = 1
  <2> HIDE DEF d, v
  <2>1. m + i \in Nat
    OBVIOUS
  <2> QED
    BY <2>1, <1>5, <1>6, BitAround
<1> QED
  BY <1>7, <1>8

\* The word 1 has one bit.
LEMMA BitOne ==
  ASSUME NEW j \in Nat
  PROVE  Bit(1, j) <=> j = 0
<1> DEFINE w == 0
           i == 0
<1>1. ~Bit(w, i) /\ ~Bit(w, j)
  <2>1. Pow2[0] = 1 /\ w \in 0 .. Pow2[0] - 1 /\ 0 \in Nat
    BY PowDef
  <2> HIDE DEF w
  <2> QED
    BY <2>1, BitHigh DEF i
<1>2. w \in Nat /\ i \in Nat
  OBVIOUS
<1>3. w + Pow2[i] = 1
  BY PowDef
<1> HIDE DEF w, i
<1>4. Bit(w + Pow2[i], j) <=> j = i \/ Bit(w, j)
  BY <1>1, <1>2, BitSet
<1> QED
  BY <1>1, <1>3, <1>4 DEF i

-----------------------------------------------------------------------------
(* The constants: word, page, chunks and list heads.                       *)

\* The word and the page, as powers of two.
LEMMA WordShape ==
  /\ ExactShift \in 0 .. PageShift - 1
  /\ WordBits = Pow2[PageShift - ExactShift]
  /\ MapShift = Pow2[PageShift - ExactShift - 1]
  /\ WordBits = 2 * MapShift
  /\ MapShift \in Nat \ {0}
  /\ PageShift <= Pow2[MapShift]
<1>1. PICK k \in 1 .. PageShift : WordBits = Pow2[k] /\ PageShift <= Pow2[WordBits \div 2]
  BY SlabAssumption
<1>2. PageShift \in Nat /\ PageShift - k \in 0 .. PageShift - 1 /\ PageShift - (PageShift - k) = k /\ k \in Nat
  BY <1>1, SlabAssumption
<1>3. PageSize \div WordBits = Pow2[PageShift - k]
  <2> DEFINE p == Pow2[PageShift - k]
             q == Pow2[k]
  <2>1. PageShift - k \in Nat /\ PageShift - k + k = PageShift
    BY <1>2
  <2>2. p \in Nat \ {0} /\ q \in Nat \ {0} /\ Pow2[PageShift] = p * q
    BY <2>1, <1>2, PowPositive, PowAdd
  <2>3. (p * q) \div q = p
    <3> HIDE DEF p, q
    <3>1. p * q = p * q + 0 /\ p * q \in Int /\ 0 \in 0 .. q - 1 /\ p \in Int
      BY <2>2
    <3> QED
      BY <2>2, <3>1, DivModUnique
  <2> QED
    BY <2>2, <2>3, <1>1 DEF PageSize
<1>4. ExactShift = PageShift - k
  <2> DEFINE a == PageShift - k
  <2>1. a \in 0 .. PageShift /\ \A j \in 0 .. PageShift : Pow2[j] = Pow2[a] => j = a
    <3> SUFFICES ASSUME NEW j \in 0 .. PageShift, Pow2[j] = Pow2[a]
                 PROVE  j = a
      BY <1>2
    <3>1. j \in Nat /\ a \in Nat
      BY <1>2
    <3> HIDE DEF a
    <3> QED
      BY <3>1, PowOrder
  <2>2. ExactShift = CHOOSE j \in 0 .. PageShift : Pow2[j] = Pow2[a]
    BY <1>3 DEF ExactShift
  <2> HIDE DEF a
  <2>3. ExactShift = a
    BY <2>1, <2>2
  <2> QED
    BY <2>3 DEF a
<1>5. WordBits = 2 * Pow2[k - 1] /\ Pow2[k - 1] \in Nat \ {0}
  <2>1. k - 1 \in Nat /\ k - 1 + 1 = k
    BY <1>1
  <2> QED
    BY <2>1, <1>1, PowDef, PowPositive
<1>6. WordBits \div 2 = Pow2[k - 1]
  <2> DEFINE m == Pow2[k - 1]
  <2>1. WordBits = 2 * m /\ m \in Nat
    BY <1>5
  <2> HIDE DEF m
  <2>2. WordBits \div 2 = m
    BY <2>1
  <2> QED
    BY <2>2 DEF m
<1>7. PageShift - ExactShift = k
  BY <1>2, <1>4
<1> QED
  BY <1>1, <1>2, <1>4, <1>5, <1>6, <1>7 DEF MapShift

\* The marks of a page table entry and how they lie to each other.
LEMMA WordRange ==
  /\ RunStart \in Nat \ {0, 1}
  /\ AllOnes = 2 * RunStart - 1
  /\ AllOnes = Pow2[WordBits] - 1
  /\ Pages \in 1 .. RunStart - 2
  /\ WordBits \in Nat \ {0, 1}
<1>1. WordBits \in Nat \ {0, 1}
  BY WordShape
<1>2. WordBits - 1 \in Nat /\ WordBits - 1 + 1 = WordBits
  BY <1>1
<1>3. Pow2[WordBits] = 2 * Pow2[WordBits - 1] /\ Pow2[WordBits - 1] \in Nat \ {0}
  BY <1>2, PowDef, PowPositive
<1>4. Pages \in 1 .. RunStart - 2
  BY SlabAssumption
<1> QED
  BY <1>1, <1>3, <1>4 DEF RunStart, AllOnes

\* The chunks of a page fill it.
LEMMA ChunkCount ==
  ASSUME NEW s \in 0 .. PageShift
  PROVE  /\ Chunks(s) = Pow2[PageShift - s]
         /\ Chunks(s) * Pow2[s] = PageSize
         /\ Chunks(s) \in Nat \ {0}
<1> DEFINE p == Pow2[PageShift - s]
           q == Pow2[s]
<1>1. PageShift - s \in Nat /\ PageShift - s + s = PageShift /\ s \in Nat
  BY SlabAssumption
<1>2. p \in Nat \ {0} /\ q \in Nat \ {0} /\ Pow2[PageShift] = p * q
  BY <1>1, PowPositive, PowAdd
<1>3. (p * q) \div q = p
  <2> HIDE DEF p, q
  <2>1. p * q = p * q + 0 /\ p * q \in Int /\ 0 \in 0 .. q - 1 /\ p \in Int
    BY <1>2
  <2> QED
    BY <1>2, <2>1, DivModUnique
<1> QED
  BY <1>2, <1>3 DEF Chunks, PageSize

\* The sizes of chunks of the three classes, and how many a page has of them.
LEMMA ChunkRange ==
  ASSUME NEW s \in MinShift .. PageShift - 1
  PROVE  /\ s \in 0 .. PageShift - 1
         /\ Chunks(s) \in Nat \ {0, 1}
         /\ Chunks(s) <= Chunks(MinShift)
         /\ s < Pow2[MapShift]
         /\ s = ExactShift => Chunks(s) = WordBits
         /\ s > ExactShift => Chunks(s) <= MapShift
         /\ s < ExactShift => Chunks(s) >= 4
<1>1. PageShift \in Nat /\ MinShift \in 1 .. PageShift - 1
  BY SlabAssumption
<1>2. s \in 0 .. PageShift - 1 /\ s \in 0 .. PageShift /\ MinShift \in 0 .. PageShift
  BY <1>1
<1>3. Chunks(s) = Pow2[PageShift - s] /\ Chunks(MinShift) = Pow2[PageShift - MinShift]
  BY <1>2, ChunkCount
<1>4. /\ PageShift - s \in Nat
      /\ PageShift - MinShift \in Nat
      /\ PageShift - s <= PageShift - MinShift
      /\ PageShift - s - 1 \in Nat
      /\ PageShift - s - 1 + 1 = PageShift - s
  BY <1>1
<1>5. Chunks(s) <= Chunks(MinShift)
  BY <1>3, <1>4, PowOrder
<1>6. Chunks(s) = 2 * Pow2[PageShift - s - 1] /\ Pow2[PageShift - s - 1] \in Nat \ {0}
  BY <1>3, <1>4, PowDef, PowPositive
<1>7. s < Pow2[MapShift]
  <2>1. PageShift <= Pow2[MapShift] /\ Pow2[MapShift] \in Nat
    BY WordShape, PowPositive
  <2> QED
    BY <2>1, <1>1, <1>2
<1>8. ExactShift \in 0 .. PageShift - 1
  BY WordShape
<1>9. ASSUME s > ExactShift
      PROVE  Chunks(s) <= MapShift
  <2>1. PageShift - ExactShift - 1 \in Nat /\ PageShift - s <= PageShift - ExactShift - 1
    BY <1>1, <1>2, <1>8, <1>9
  <2> QED
    BY <2>1, <1>3, <1>4, WordShape, PowOrder
<1>10. ASSUME s < ExactShift
       PROVE  Chunks(s) >= 4
  <2>1. PageShift - s - 2 \in Nat /\ PageShift - s - 2 + 1 = PageShift - s - 1
    BY <1>1, <1>2, <1>8, <1>10
  <2>2. Pow2[PageShift - s - 1] = 2 * Pow2[PageShift - s - 2] /\ Pow2[PageShift - s - 2] \in Nat \ {0}
    BY <2>1, PowDef, PowPositive
  <2> QED
    BY <2>2, <1>6
<1>11. s = ExactShift => Chunks(s) = WordBits
  BY <1>3, WordShape
<1>12. Chunks(s) \in Nat \ {0, 1}
  BY <1>6
<1> QED
  BY <1>2, <1>5, <1>7, <1>9, <1>10, <1>11, <1>12

\* The bitmap of a small page takes chunks of its own, and leaves two or more.
LEMMA ReservedShape ==
  ASSUME NEW s \in MinShift .. PageShift - 1
  PROVE  \E n \in Nat :
           /\ Reserved(s) = 0 .. n - 1
           /\ Cardinality(Reserved(s)) = n
           /\ n + 1 < Chunks(s) \/ (n = 0 /\ Chunks(s) >= 2)
           /\ s < ExactShift => n >= 1
           /\ s >= ExactShift => n = 0
<1>1. Chunks(s) \in Nat \ {0, 1} /\ (s < ExactShift => Chunks(s) >= 4)
  BY ChunkRange
<1>2. s \in Nat /\ ExactShift \in Int
  BY ChunkRange, WordShape, SlabAssumption
<1>3. CASE s >= ExactShift
  <2>1. Reserved(s) = {}
    BY <1>3 DEF Reserved
  <2>2. Cardinality({}) = 0
    BY FS_EmptySet
  <2>3. {} = 0 .. 0 - 1 /\ 0 \in Nat
    OBVIOUS
  <2> QED
    BY <2>1, <2>2, <2>3, <1>1, <1>2, <1>3
<1>4. CASE ~(s >= ExactShift)
  <2> DEFINE m == (Chunks(s) \div ByteBits) \div Pow2[s]
             n == IF m = 0 THEN 1 ELSE m
             c == Chunks(s)
             p == Pow2[s]
  <2>1. Reserved(s) = 0 .. n - 1
    BY <1>4 DEF Reserved
  <2>2. c \in Nat /\ c >= 4
    BY <1>1, <1>2, <1>4
  <2>3. p \in Nat /\ p >= 2
    <3>1. s - 1 \in Nat /\ s - 1 + 1 = s
      BY SlabAssumption
    <3>2. p = 2 * Pow2[s - 1] /\ Pow2[s - 1] \in Nat \ {0}
      BY <3>1, PowDef, PowPositive
    <3> QED
      BY <3>2
  <2>4. ByteBits \in Nat \ {0}
    BY SlabAssumption
  <2> HIDE DEF c, p
  <2>5. PICK e \in Nat : e = c \div ByteBits /\ e <= c
    <3>1. PICK q \in Nat : \E b \in 0 .. ByteBits - 1 : c = q * ByteBits + b
      BY <2>2, <2>4, Cut
    <3>2. PICK b \in 0 .. ByteBits - 1 : c = q * ByteBits + b
      BY <3>1
    <3>3. q * ByteBits \in Nat /\ q <= q * ByteBits
      BY <2>4
    <3>4. c \div ByteBits = q
      BY <3>2, <2>2, <2>4, DivModUnique
    <3> QED
      BY <3>2, <3>3, <3>4
  <2>6. PICK f \in Nat : f = e \div p /\ 2 * f <= e
    <3>1. p \in Nat \ {0}
      BY <2>3
    <3>2. PICK q \in Nat : \E b \in 0 .. p - 1 : e = q * p + b
      BY <3>1, Cut
    <3>3. PICK b \in 0 .. p - 1 : e = q * p + b
      BY <3>2
    <3>4. q * p \in Nat /\ q * 2 <= q * p
      BY <2>3
    <3>5. e \div p = q
      BY <3>1, <3>3, DivModUnique
    <3> QED
      BY <3>3, <3>4, <3>5
  <2>7. m = f
    BY <2>5, <2>6 DEF c, p
  <2>8. n \in Nat /\ n >= 1 /\ n + 1 < c
    BY <2>2, <2>5, <2>6, <2>7
  <2> HIDE DEF n
  <2>9. Cardinality(0 .. n - 1) = n
    <3>1. Cardinality(0 .. n - 1) = IF 0 > n - 1 THEN 0 ELSE n - 1 - 0 + 1
      BY <2>8, FS_Interval
    <3> QED
      BY <2>8, <3>1
  <2> QED
    BY <2>1, <2>8, <2>9, <1>2, <1>4 DEF c
<1> QED
  BY <1>3, <1>4

\* The page numbers and the heads.
LEMMA NodeShape ==
  /\ Page = 0 .. Pages - 1
  /\ Pages \in Nat \ {0}
  /\ FreeHead \in Head
  /\ Null \notin Page /\ Null \notin Head
  /\ Page \cap Head = {}
  /\ \A s \in MinShift .. PageShift - 1 : SlotOf(s) \in Head \ {FreeHead}
  /\ \A s, t \in MinShift .. PageShift - 1 : SlotOf(s) = SlotOf(t) => s = t
<1>1. Pages \in Nat \ {0} /\ PageShift \in Nat /\ MinShift \in 1 .. PageShift - 1
  BY WordRange, SlabAssumption
<1> QED
  BY <1>1 DEF Page, FreeHead, Head, Null, SlotOf, Slots

-----------------------------------------------------------------------------
(* Linked lists: what Unlink, Push and Split do to links in general.       *)

\* After node, in the list of head, comes head itself or a page of the list
\* that points back and has a higher rank.
NextOK(next, prev, own, rank, head, node) ==
  next[node] # head =>
    /\ next[node] \in Page
    /\ own[next[node]] = head
    /\ prev[next[node]] = node
    /\ node \in Page => rank[node] < rank[next[node]]

\* Before a page of the list of head comes head or a page of the list.
PrevOK(next, prev, own, head, pg) ==
  /\ prev[pg] # head => prev[pg] \in Page /\ own[prev[pg]] = head
  /\ next[prev[pg]] = pg

(***************************************************************************)
(* Every page is in the list of its owner, or in none (Null), where its     *)
(* links are clear unless it is one of out, on its way from list to list.   *)
(***************************************************************************)
Linked(next, prev, own, rank, out) ==
  /\ next \in [Page \cup Head -> Page \cup Head \cup {Null}]
  /\ prev \in [Page -> Page \cup Head \cup {Null}]
  /\ own \in [Page -> Head \cup {Null}]
  /\ rank \in [Page -> Nat]
  /\ \A head \in Head : NextOK(next, prev, own, rank, head, head)
  /\ \A pg \in Page : own[pg] # Null => NextOK(next, prev, own, rank, own[pg], pg)
  /\ \A pg \in Page : own[pg] # Null => PrevOK(next, prev, own, own[pg], pg)
  /\ \A pg \in Page : own[pg] = Null /\ pg \notin out => next[pg] = Null /\ prev[pg] = Null

\* What SetPrev, Unlink, Push and Split do to the links.
SetLink(prev, node, to) == IF node \in Page THEN [prev EXCEPT ![node] = to] ELSE prev
UnlinkNext(next, prev, pg) == [next EXCEPT ![prev[pg]] = next[pg]]
UnlinkPrev(next, prev, pg) == SetLink(prev, next[pg], prev[pg])
PushNext(next, head, pg) == [next EXCEPT ![head] = pg, ![pg] = next[head]]
PushPrev(next, prev, head, pg) == SetLink([prev EXCEPT ![pg] = head], next[head], pg)
SplitNext(next, prev, pg, rest) == [next EXCEPT ![rest] = next[pg], ![prev[pg]] = rest]
SplitPrev(next, prev, pg, rest) == SetLink([prev EXCEPT ![rest] = prev[pg]], next[pg], rest)

\* Taking a page out of its list leaves every list linked.
LEMMA UnlinkLinked ==
  ASSUME NEW next, NEW prev, NEW own, NEW rank, NEW out, Linked(next, prev, own, rank, out),
         NEW pg \in Page, own[pg] # Null
  PROVE  Linked(UnlinkNext(next, prev, pg), UnlinkPrev(next, prev, pg),
                [own EXCEPT ![pg] = Null], rank, out \cup {pg})
<1> DEFINE before == prev[pg]
           after == next[pg]
           head == own[pg]
           n == UnlinkNext(next, prev, pg)
           v == UnlinkPrev(next, prev, pg)
           w == [own EXCEPT ![pg] = Null]
<1>1. /\ next \in [Page \cup Head -> Page \cup Head \cup {Null}]
      /\ prev \in [Page -> Page \cup Head \cup {Null}]
      /\ own \in [Page -> Head \cup {Null}]
      /\ rank \in [Page -> Nat]
  BY DEF Linked
<1>2. \A h \in Head : NextOK(next, prev, own, rank, h, h)
  BY DEF Linked
<1>3. \A p \in Page : own[p] # Null => NextOK(next, prev, own, rank, own[p], p)
  BY DEF Linked
<1>4. \A p \in Page : own[p] # Null => PrevOK(next, prev, own, own[p], p)
  BY DEF Linked
<1>5. \A p \in Page : own[p] = Null /\ p \notin out => next[p] = Null /\ prev[p] = Null
  BY DEF Linked
<1>6. head \in Head /\ head \notin Page /\ Page \cap Head = {} /\ Null \notin Page /\ Null \notin Head
  BY <1>1, NodeShape
<1>7. before # head => before \in Page /\ own[before] = head /\ before # Null
  BY <1>4, <1>6 DEF PrevOK
<1>8. next[before] = pg
  BY <1>4 DEF PrevOK
<1>9. after # head => /\ after \in Page /\ own[after] = head /\ prev[after] = pg
                      /\ rank[pg] < rank[after]
  BY <1>3 DEF NextOK
<1>10. before \in Page => rank[before] < rank[pg]
  BY <1>3, <1>6, <1>7, <1>8 DEF NextOK
<1>11. before \in Page \cup Head /\ after \in Page \cup Head
  BY <1>6, <1>7, <1>9
<1>12. before # pg /\ after # pg
  <2>1. ~(rank[pg] < rank[pg]) /\ pg # head
    BY <1>1, <1>6
  <2> HIDE DEF before, after, head
  <2> QED
    BY <2>1, <1>9, <1>10
<1>13. /\ n \in [Page \cup Head -> Page \cup Head \cup {Null}]
       /\ n[before] = after
       /\ \A x \in Page \cup Head : x # before => n[x] = next[x]
  BY <1>1, <1>11 DEF UnlinkNext
<1>14. /\ v \in [Page -> Page \cup Head \cup {Null}]
       /\ after \in Page => v[after] = before
       /\ \A x \in Page : x # after => v[x] = prev[x]
  BY <1>1, <1>11 DEF UnlinkPrev, SetLink
<1>15. /\ w \in [Page -> Head \cup {Null}]
       /\ w[pg] = Null
       /\ \A x \in Page : x # pg => w[x] = own[x]
  BY <1>1
<1> HIDE DEF n, v, w, before, after, head
<1>16. ASSUME NEW h \in Head
       PROVE  NextOK(n, v, w, rank, h, h)
  <2>1. NextOK(next, prev, own, rank, h, h) /\ h \notin Page
    BY <1>2, <1>6
  <2>2. CASE h = before
    <3>1. h = head
      BY <2>1, <2>2, <1>7 
    <3> QED
      BY <2>1, <2>2, <3>1, <1>9, <1>12, <1>13, <1>14, <1>15 DEF NextOK
  <2>3. CASE h # before
    <3>1. n[h] = next[h]
      BY <2>3, <1>13
    <3>2. next[h] # pg
      BY <2>1, <2>3 DEF NextOK, before
    <3>3. next[h] # after \/ next[h] = h
      BY <2>1, <2>3, <1>9, <1>6 DEF NextOK
    <3> QED
      BY <2>1, <3>1, <3>2, <3>3, <1>14, <1>15 DEF NextOK
  <2> QED
    BY <2>2, <2>3
<1>17. ASSUME NEW p \in Page, w[p] # Null
       PROVE  NextOK(n, v, w, rank, w[p], p)
  <2>1. p # pg /\ w[p] = own[p] /\ own[p] # Null
    BY <1>15, <1>17
  <2>2. NextOK(next, prev, own, rank, own[p], p)
    BY <1>3, <2>1
  <2>3. CASE p = before
    <3>1. own[p] = head
      BY <2>3, <1>6, <1>7
    <3> QED
      BY <2>1, <2>2, <2>3, <3>1, <1>1, <1>9, <1>10, <1>12, <1>13, <1>14, <1>15 DEF NextOK
  <2>4. CASE p # before
    <3>1. n[p] = next[p]
      BY <2>4, <1>13
    <3>2. next[p] # pg
      <4>1. own[p] # pg
        BY <1>1, <1>6, <2>1
      <4> QED
        BY <2>2, <2>4, <4>1 DEF NextOK, before
    <3>3. next[p] \in Page => next[p] # after
      <4>1. own[p] \notin Page
        BY <1>1, <1>6, <2>1
      <4> QED
        BY <2>1, <2>2, <4>1, <1>9, <1>6 DEF NextOK
    <3> QED
      BY <2>1, <2>2, <3>1, <3>2, <3>3, <1>14, <1>15 DEF NextOK
  <2> QED
    BY <2>3, <2>4
<1>18. ASSUME NEW p \in Page, w[p] # Null
       PROVE  PrevOK(n, v, w, w[p], p)
  <2>1. p # pg /\ w[p] = own[p] /\ own[p] # Null
    BY <1>15, <1>18
  <2>2. PrevOK(next, prev, own, own[p], p)
    BY <1>4, <2>1
  <2>3. CASE p = after
    <3>1. own[p] = head
      BY <2>3, <1>6, <1>9
    <3> QED
      BY <2>1, <2>3, <3>1, <1>7, <1>12, <1>13, <1>14, <1>15 DEF PrevOK
  <2>4. CASE p # after
    <3>1. v[p] = prev[p]
      BY <2>4, <1>14
    <3>2. prev[p] # pg
      BY <2>2, <2>4 DEF PrevOK, after
    <3>3. prev[p] # before
      BY <2>1, <2>2, <1>8 DEF PrevOK
    <3>4. prev[p] \in Page \cup Head
      BY <2>1, <2>2, <1>1 DEF PrevOK
    <3> QED
      BY <2>1, <2>2, <3>1, <3>2, <3>3, <3>4, <1>13, <1>15 DEF PrevOK
  <2> QED
    BY <2>3, <2>4
<1>19. ASSUME NEW p \in Page, w[p] = Null, p \notin out \cup {pg}
       PROVE  n[p] = Null /\ v[p] = Null
  <2>1. p # pg /\ own[p] = Null /\ p \notin out
    BY <1>15, <1>19
  <2>2. p # before /\ p # after
    BY <2>1, <1>6, <1>7, <1>9
  <2> QED
    BY <2>1, <2>2, <1>5, <1>13, <1>14
<1> QED
  BY <1>1, <1>13, <1>14, <1>15, <1>16, <1>17, <1>18, <1>19 DEF Linked, n, v, w

\* So does putting a page before the others of a list, which ranks them one higher.
LEMMA PushLinked ==
  ASSUME NEW next, NEW prev, NEW own, NEW rank, NEW out, Linked(next, prev, own, rank, out),
         NEW pg \in Page, own[pg] = Null, NEW head \in Head
  PROVE  Linked(PushNext(next, head, pg), PushPrev(next, prev, head, pg),
                [own EXCEPT ![pg] = head],
                [i \in Page |-> IF i = pg THEN 0 ELSE rank[i] + 1], out \ {pg})
<1> DEFINE first == next[head]
           n == PushNext(next, head, pg)
           v == PushPrev(next, prev, head, pg)
           w == [own EXCEPT ![pg] = head]
           r == [i \in Page |-> IF i = pg THEN 0 ELSE rank[i] + 1]
<1>1. /\ next \in [Page \cup Head -> Page \cup Head \cup {Null}]
      /\ prev \in [Page -> Page \cup Head \cup {Null}]
      /\ own \in [Page -> Head \cup {Null}]
      /\ rank \in [Page -> Nat]
  BY DEF Linked
<1>2. \A h \in Head : NextOK(next, prev, own, rank, h, h)
  BY DEF Linked
<1>3. \A p \in Page : own[p] # Null => NextOK(next, prev, own, rank, own[p], p)
  BY DEF Linked
<1>4. \A p \in Page : own[p] # Null => PrevOK(next, prev, own, own[p], p)
  BY DEF Linked
<1>5. \A p \in Page : own[p] = Null /\ p \notin out => next[p] = Null /\ prev[p] = Null
  BY DEF Linked
<1>6. head \notin Page /\ Page \cap Head = {} /\ Null \notin Page /\ Null \notin Head
  BY NodeShape
<1>7. first # head => first \in Page /\ own[first] = head /\ prev[first] = head
  BY <1>2 DEF NextOK
<1>8. first # pg /\ pg # head /\ pg \in Page \cup Head /\ head \in Page \cup Head
  BY <1>6, <1>7
<1>9. /\ n \in [Page \cup Head -> Page \cup Head \cup {Null}]
      /\ n[head] = pg
      /\ n[pg] = first
      /\ \A x \in Page \cup Head : x # head /\ x # pg => n[x] = next[x]
  BY <1>1, <1>8 DEF PushNext
<1>10. /\ v \in [Page -> Page \cup Head \cup {Null}]
       /\ v[pg] = head
       /\ first \in Page => v[first] = pg
       /\ \A x \in Page : x # first /\ x # pg => v[x] = prev[x]
  BY <1>1, <1>8 DEF PushPrev, SetLink
<1>11. /\ w \in [Page -> Head \cup {Null}]
       /\ w[pg] = head
       /\ \A x \in Page : x # pg => w[x] = own[x]
  BY <1>1
<1>12. /\ r \in [Page -> Nat]
       /\ r[pg] = 0
       /\ \A x \in Page : x # pg => r[x] = rank[x] + 1
  BY <1>1
<1>13. \A x \in Page : x # pg => 0 < r[x]
  BY <1>1, <1>12
<1>14. \A x, y \in Page : x # pg /\ y # pg /\ rank[x] < rank[y] => r[x] < r[y]
  BY <1>1, <1>12
<1> HIDE DEF n, v, w, r, first
<1>15. \A x \in Page : next[x] = pg => own[x] = Null
  <2> SUFFICES ASSUME NEW x \in Page, next[x] = pg, own[x] # Null
               PROVE  FALSE
    OBVIOUS
  <2>1. NextOK(next, prev, own, rank, own[x], x) /\ own[x] # pg /\ own[x] # Null
    BY <1>1, <1>3, <1>6
  <2> QED
    BY <2>1 DEF NextOK
<1>16. ASSUME NEW h \in Head
       PROVE  NextOK(n, v, w, r, h, h)
  <2>1. NextOK(next, prev, own, rank, h, h) /\ h \notin Page
    BY <1>2, <1>6
  <2>2. CASE h = head
    BY <2>1, <2>2, <1>9, <1>10, <1>11 DEF NextOK
  <2>3. CASE h # head
    <3>1. n[h] = next[h]
      BY <2>1, <2>3, <1>9
    <3>2. next[h] # pg
      BY <2>1, <1>6 DEF NextOK
    <3>3. next[h] # first \/ next[h] = h
      BY <2>1, <2>3, <1>6, <1>7 DEF NextOK
    <3> QED
      BY <2>1, <3>1, <3>2, <3>3, <1>10, <1>11 DEF NextOK
  <2> QED
    BY <2>2, <2>3
<1>17. ASSUME NEW p \in Page, w[p] # Null
       PROVE  NextOK(n, v, w, r, w[p], p)
  <2>1. CASE p = pg
    BY <2>1, <1>6, <1>7, <1>8, <1>9, <1>10, <1>11, <1>12, <1>13 DEF NextOK
  <2>2. CASE p # pg
    <3>1. w[p] = own[p] /\ own[p] # Null /\ n[p] = next[p] /\ own[p] # p
      BY <2>2, <1>1, <1>6, <1>9, <1>11, <1>17
    <3>2. NextOK(next, prev, own, rank, own[p], p)
      BY <3>1, <1>3
    <3>3. next[p] # pg
      BY <3>1, <1>15
    <3>4. next[p] # own[p] => next[p] # first
      <4>1. p # head
        BY <1>6
      <4> QED
        BY <3>2, <4>1, <1>7, <1>6, <3>1 DEF NextOK
    <3> QED
      BY <2>2, <3>1, <3>2, <3>3, <3>4, <1>10, <1>11, <1>14 DEF NextOK
  <2> QED
    BY <2>1, <2>2
<1>18. ASSUME NEW p \in Page, w[p] # Null
       PROVE  PrevOK(n, v, w, w[p], p)
  <2>1. CASE p = pg
    BY <2>1, <1>9, <1>10, <1>11 DEF PrevOK
  <2>2. CASE p # pg
    <3>1. w[p] = own[p] /\ own[p] # Null
      BY <2>2, <1>11, <1>18
    <3>2. PrevOK(next, prev, own, own[p], p)
      BY <3>1, <1>4
    <3>3. CASE p = first
      <4>1. p # head
        BY <1>6
      <4>2. own[p] = head
        BY <3>3, <4>1, <1>7
      <4> QED
        BY <2>2, <3>1, <3>3, <4>2, <1>8, <1>9, <1>10, <1>11 DEF PrevOK
    <3>4. CASE p # first
      <4>1. v[p] = prev[p]
        BY <2>2, <3>4, <1>10
      <4>2. prev[p] # head
        BY <3>2, <3>4 DEF PrevOK, first
      <4>3. prev[p] # pg
        BY <3>1, <3>2, <1>6, <1>1 DEF PrevOK
      <4>4. prev[p] \in Page \cup Head
        BY <3>1, <3>2, <1>1 DEF PrevOK
      <4> QED
        BY <3>1, <3>2, <4>1, <4>2, <4>3, <4>4, <1>9, <1>11 DEF PrevOK
    <3> QED
      BY <3>3, <3>4
  <2> QED
    BY <2>1, <2>2
<1>19. ASSUME NEW p \in Page, w[p] = Null, p \notin out \ {pg}
       PROVE  n[p] = Null /\ v[p] = Null
  <2>1. p # pg /\ own[p] = Null /\ p \notin out
    BY <1>6, <1>11, <1>19
  <2>2. p # first /\ p # head
    BY <2>1, <1>6, <1>7
  <2> QED
    BY <2>1, <2>2, <1>5, <1>9, <1>10
<1> QED
  BY <1>9, <1>10, <1>11, <1>12, <1>16, <1>17, <1>18, <1>19 DEF Linked, n, v, w, r

\* So does letting another page take the place of a page.
LEMMA SplitLinked ==
  ASSUME NEW next, NEW prev, NEW own, NEW rank, NEW out, Linked(next, prev, own, rank, out),
         NEW pg \in Page, own[pg] # Null, NEW rest \in Page, own[rest] = Null
  PROVE  Linked(SplitNext(next, prev, pg, rest), SplitPrev(next, prev, pg, rest),
                [own EXCEPT ![pg] = Null, ![rest] = own[pg]],
                [rank EXCEPT ![rest] = rank[pg]], out \cup {pg})
<1> DEFINE before == prev[pg]
           after == next[pg]
           head == own[pg]
           n == SplitNext(next, prev, pg, rest)
           v == SplitPrev(next, prev, pg, rest)
           w == [own EXCEPT ![pg] = Null, ![rest] = own[pg]]
           r == [rank EXCEPT ![rest] = rank[pg]]
<1>1. /\ next \in [Page \cup Head -> Page \cup Head \cup {Null}]
      /\ prev \in [Page -> Page \cup Head \cup {Null}]
      /\ own \in [Page -> Head \cup {Null}]
      /\ rank \in [Page -> Nat]
  BY DEF Linked
<1>2. \A h \in Head : NextOK(next, prev, own, rank, h, h)
  BY DEF Linked
<1>3. \A p \in Page : own[p] # Null => NextOK(next, prev, own, rank, own[p], p)
  BY DEF Linked
<1>4. \A p \in Page : own[p] # Null => PrevOK(next, prev, own, own[p], p)
  BY DEF Linked
<1>5. \A p \in Page : own[p] = Null /\ p \notin out => next[p] = Null /\ prev[p] = Null
  BY DEF Linked
<1>6. /\ head \in Head
      /\ head \notin Page
      /\ Page \cap Head = {}
      /\ Null \notin Page
      /\ Null \notin Head
      /\ rest # pg
      /\ rest \in Page \cup Head
  BY <1>1, NodeShape
<1>7. before # head => before \in Page /\ own[before] = head /\ before # Null
  BY <1>4, <1>6 DEF PrevOK
<1>8. next[before] = pg
  BY <1>4 DEF PrevOK
<1>9. after # head => /\ after \in Page /\ own[after] = head /\ prev[after] = pg
                      /\ rank[pg] < rank[after]
  BY <1>3 DEF NextOK
<1>10. before \in Page => rank[before] < rank[pg]
  BY <1>3, <1>6, <1>7, <1>8 DEF NextOK
<1>11. before \in Page \cup Head /\ after \in Page \cup Head
  BY <1>6, <1>7, <1>9
<1>12. before # pg /\ after # pg /\ before # rest /\ after # rest
  <2>1. ~(rank[pg] < rank[pg]) /\ pg # head /\ rest # head /\ own[rest] # head
    BY <1>1, <1>6
  <2> HIDE DEF before, after, head
  <2> QED
    BY <2>1, <1>7, <1>9, <1>10
<1>13. /\ n \in [Page \cup Head -> Page \cup Head \cup {Null}]
       /\ n[before] = rest
       /\ n[rest] = after
       /\ \A x \in Page \cup Head : x # before /\ x # rest => n[x] = next[x]
  BY <1>1, <1>6, <1>11, <1>12 DEF SplitNext
<1>14. /\ v \in [Page -> Page \cup Head \cup {Null}]
       /\ after \in Page => v[after] = rest
       /\ v[rest] = before
       /\ \A x \in Page : x # after /\ x # rest => v[x] = prev[x]
  BY <1>1, <1>6, <1>11, <1>12 DEF SplitPrev, SetLink
<1>15. /\ w \in [Page -> Head \cup {Null}]
       /\ w[pg] = Null
       /\ w[rest] = head
       /\ \A x \in Page : x # pg /\ x # rest => w[x] = own[x]
  BY <1>1, <1>6
<1>16. /\ r \in [Page -> Nat]
       /\ r[rest] = rank[pg]
       /\ \A x \in Page : x # rest => r[x] = rank[x]
  BY <1>1
<1> HIDE DEF n, v, w, r, before, after, head
<1>17. ASSUME NEW h \in Head
       PROVE  NextOK(n, v, w, r, h, h)
  <2>1. NextOK(next, prev, own, rank, h, h) /\ h \notin Page
    BY <1>2, <1>6
  <2>2. CASE h = before
    <3>1. h = head
      BY <2>1, <2>2, <1>7
    <3> QED
      BY <2>1, <2>2, <3>1, <1>13, <1>14, <1>15 DEF NextOK
  <2>3. CASE h # before
    <3>1. n[h] = next[h]
      BY <2>1, <2>3, <1>13
    <3>2. next[h] # pg
      BY <2>1, <2>3 DEF NextOK, before
    <3>3. next[h] # after \/ next[h] = h
      BY <2>1, <2>3, <1>9, <1>6 DEF NextOK
    <3>4. next[h] # rest
      BY <2>1, <1>6 DEF NextOK
    <3> QED
      BY <2>1, <3>1, <3>2, <3>3, <3>4, <1>14, <1>15 DEF NextOK
  <2> QED
    BY <2>2, <2>3
<1>18. ASSUME NEW p \in Page, w[p] # Null
       PROVE  NextOK(n, v, w, r, w[p], p)
  <2>1. p # pg
    BY <1>15, <1>18
  <2>2. CASE p = rest
    BY <2>2, <1>6, <1>9, <1>12, <1>13, <1>14, <1>15, <1>16 DEF NextOK
  <2>3. CASE p # rest
    <3>1. w[p] = own[p] /\ own[p] # Null
      BY <2>1, <2>3, <1>15, <1>18
    <3>2. NextOK(next, prev, own, rank, own[p], p)
      BY <1>3, <3>1
    <3>3. CASE p = before
      <4>1. own[p] = head
        BY <3>3, <1>6, <1>7
      <4> QED
        BY <2>1, <2>3, <3>1, <3>2, <3>3, <4>1, <1>10, <1>13, <1>14, <1>15, <1>16 DEF NextOK
    <3>4. CASE p # before
      <4>1. n[p] = next[p]
        BY <2>3, <3>4, <1>13
      <4>2. own[p] \notin Page
        BY <1>1, <1>6, <3>1
      <4>3. next[p] # pg
        BY <3>2, <3>4, <4>2 DEF NextOK, before
      <4>4. next[p] \in Page => next[p] # after
        BY <2>1, <3>2, <4>2, <1>9, <1>6 DEF NextOK
      <4>5. next[p] # rest
        BY <3>1, <3>2, <4>2 DEF NextOK
      <4> QED
        BY <2>1, <2>3, <3>1, <3>2, <4>1, <4>3, <4>4, <4>5, <1>14, <1>15, <1>16 DEF NextOK
    <3> QED
      BY <3>3, <3>4
  <2> QED
    BY <2>2, <2>3
<1>19. ASSUME NEW p \in Page, w[p] # Null
       PROVE  PrevOK(n, v, w, w[p], p)
  <2>1. p # pg
    BY <1>15, <1>19
  <2>2. CASE p = rest
    BY <2>2, <1>7, <1>12, <1>13, <1>14, <1>15 DEF PrevOK
  <2>3. CASE p # rest
    <3>1. w[p] = own[p] /\ own[p] # Null
      BY <2>1, <2>3, <1>15, <1>19
    <3>2. PrevOK(next, prev, own, own[p], p)
      BY <1>4, <3>1
    <3>3. CASE p = after
      <4>1. own[p] = head
        BY <3>3, <1>6, <1>9
      <4> QED
        BY <2>1, <3>1, <3>3, <4>1, <1>13, <1>14, <1>15 DEF PrevOK
    <3>4. CASE p # after
      <4>1. v[p] = prev[p]
        BY <2>3, <3>4, <1>14
      <4>2. prev[p] # pg
        BY <3>2, <3>4 DEF PrevOK, after
      <4>3. prev[p] # before
        BY <2>1, <3>2, <1>8 DEF PrevOK
      <4>4. prev[p] \in Page \cup Head
        BY <3>1, <3>2, <1>1 DEF PrevOK
      <4>5. prev[p] # rest
        <5>1. own[p] # rest
          BY <3>1, <1>1, <1>6
        <5> QED
          BY <3>1, <3>2, <5>1 DEF PrevOK
      <4> QED
        BY <3>1, <3>2, <4>1, <4>2, <4>3, <4>4, <4>5, <1>13, <1>15 DEF PrevOK
    <3> QED
      BY <3>3, <3>4
  <2> QED
    BY <2>2, <2>3
<1>20. ASSUME NEW p \in Page, w[p] = Null, p \notin out \cup {pg}
       PROVE  n[p] = Null /\ v[p] = Null
  <2>1. p # pg /\ p # rest /\ own[p] = Null /\ p \notin out
    BY <1>15, <1>20, <1>6
  <2>2. p # before /\ p # after
    BY <2>1, <1>6, <1>7, <1>9
  <2> QED
    BY <2>1, <2>2, <1>5, <1>13, <1>14
<1> QED
  BY <1>13, <1>14, <1>15, <1>16, <1>17, <1>18, <1>19, <1>20 DEF Linked, n, v, w, r

\* The pages of a set outside every list lose their links.
LEMMA ResetLinked ==
  ASSUME NEW next, NEW prev, NEW own, NEW rank, NEW out, Linked(next, prev, own, rank, out),
         NEW run, \A pg \in Page : pg \in run => own[pg] = Null
  PROVE  Linked([i \in Page \cup Head |-> IF i \in Page /\ i \in run THEN Null ELSE next[i]],
                [i \in Page |-> IF i \in run THEN Null ELSE prev[i]],
                own, rank, out \ run)
<1> DEFINE n == [i \in Page \cup Head |-> IF i \in Page /\ i \in run THEN Null ELSE next[i]]
           v == [i \in Page |-> IF i \in run THEN Null ELSE prev[i]]
<1>1. /\ next \in [Page \cup Head -> Page \cup Head \cup {Null}]
      /\ prev \in [Page -> Page \cup Head \cup {Null}]
      /\ own \in [Page -> Head \cup {Null}]
      /\ rank \in [Page -> Nat]
  BY DEF Linked
<1>2. \A h \in Head : NextOK(next, prev, own, rank, h, h)
  BY DEF Linked
<1>3. \A p \in Page : own[p] # Null => NextOK(next, prev, own, rank, own[p], p)
  BY DEF Linked
<1>4. \A p \in Page : own[p] # Null => PrevOK(next, prev, own, own[p], p)
  BY DEF Linked
<1>5. \A p \in Page : own[p] = Null /\ p \notin out => next[p] = Null /\ prev[p] = Null
  BY DEF Linked
<1>6. Page \cap Head = {} /\ Null \notin Page /\ Null \notin Head
  BY NodeShape
<1>7. /\ n \in [Page \cup Head -> Page \cup Head \cup {Null}]
      /\ \A x \in Head : n[x] = next[x]
      /\ \A x \in Page : own[x] # Null => n[x] = next[x]
      /\ \A x \in Page : x \notin run => n[x] = next[x]
      /\ \A x \in Page : x \in run => n[x] = Null
  BY <1>1, <1>6
<1>8. /\ v \in [Page -> Page \cup Head \cup {Null}]
      /\ \A x \in Page : own[x] # Null => v[x] = prev[x]
      /\ \A x \in Page : x \notin run => v[x] = prev[x]
      /\ \A x \in Page : x \in run => v[x] = Null
  BY <1>1
<1> HIDE DEF n, v
<1>9. ASSUME NEW h \in Head
      PROVE  NextOK(n, v, own, rank, h, h)
  <2>1. h # Null
    BY <1>6
  <2> QED
    BY <2>1, <1>2, <1>7, <1>8 DEF NextOK
<1>10. ASSUME NEW p \in Page, own[p] # Null
       PROVE  NextOK(n, v, own, rank, own[p], p)
  BY <1>3, <1>7, <1>8, <1>10 DEF NextOK
<1>11. ASSUME NEW p \in Page, own[p] # Null
       PROVE  PrevOK(n, v, own, own[p], p)
  <2>1. own[p] \in Head
    BY <1>1, <1>11
  <2> QED
    BY <2>1, <1>4, <1>7, <1>8, <1>11 DEF PrevOK
<1>12. ASSUME NEW p \in Page, own[p] = Null, p \notin out \ run
       PROVE  n[p] = Null /\ v[p] = Null
  BY <1>5, <1>7, <1>8, <1>12
<1> QED
  BY <1>1, <1>7, <1>8, <1>9, <1>10, <1>11, <1>12 DEF Linked, n, v

-----------------------------------------------------------------------------
(* The same of the fields of a pool, and what a walk along a list meets.   *)

\* A pool, whatever its words and bitmaps hold.
Pools ==
  [slab : [Page -> Int],
   next : [Page \cup Head -> Page \cup Head \cup {Null}],
   prev : [Page -> Page \cup Head \cup {Null}],
   type : [Page -> Type],
   bitmap : [Page -> SUBSET Int]]

\* What SetPrev changes of a pool.
LEMMA SetPrevFields ==
  ASSUME NEW table \in Pools, NEW node, NEW to \in Page \cup Head \cup {Null}
  PROVE  /\ SetPrev(table, node, to) \in Pools
         /\ SetPrev(table, node, to).slab = table.slab
         /\ SetPrev(table, node, to).next = table.next
         /\ SetPrev(table, node, to).prev = SetLink(table.prev, node, to)
         /\ SetPrev(table, node, to).type = table.type
         /\ SetPrev(table, node, to).bitmap = table.bitmap
BY DEF SetPrev, SetLink, Pools

\* What Unlink changes of a pool.
LEMMA UnlinkFields ==
  ASSUME NEW p \in Pools, NEW pg \in Page, p.prev[pg] \in Page \cup Head
  PROVE  /\ Unlink(p, pg) \in Pools
         /\ Unlink(p, pg).slab = p.slab
         /\ Unlink(p, pg).next = UnlinkNext(p.next, p.prev, pg)
         /\ Unlink(p, pg).prev = UnlinkPrev(p.next, p.prev, pg)
         /\ Unlink(p, pg).type = p.type
         /\ Unlink(p, pg).bitmap = p.bitmap
<1> DEFINE q == [p EXCEPT !.next[p.prev[pg]] = p.next[pg]]
<1>1. p.next[pg] \in Page \cup Head \cup {Null} /\ p.prev[pg] \in Page \cup Head \cup {Null}
  BY DEF Pools
<1>2. /\ q \in Pools
      /\ q.slab = p.slab
      /\ q.next = [p.next EXCEPT ![p.prev[pg]] = p.next[pg]]
      /\ q.prev = p.prev
      /\ q.type = p.type
      /\ q.bitmap = p.bitmap
  BY <1>1 DEF Pools
<1>3. Unlink(p, pg) = SetPrev(q, p.next[pg], p.prev[pg])
  BY DEF Unlink
<1> DEFINE after == p.next[pg]
           before == p.prev[pg]
           r == SetPrev(q, after, before)
<1>4. before \in Page \cup Head \cup {Null}
  BY <1>1
<1> HIDE DEF q, after, before
<1>5. /\ r \in Pools
      /\ r.slab = q.slab
      /\ r.next = q.next
      /\ r.prev = SetLink(q.prev, after, before)
      /\ r.type = q.type
      /\ r.bitmap = q.bitmap
  BY <1>2, <1>4, SetPrevFields
<1> HIDE DEF r
<1> QED
  BY <1>2, <1>3, <1>5 DEF UnlinkNext, UnlinkPrev, r, after, before

\* What Push changes of a pool.
LEMMA PushFields ==
  ASSUME NEW p \in Pools, NEW head \in Head, NEW pg \in Page
  PROVE  /\ Push(p, head, pg) \in Pools
         /\ Push(p, head, pg).slab = p.slab
         /\ Push(p, head, pg).next = PushNext(p.next, head, pg)
         /\ Push(p, head, pg).prev = PushPrev(p.next, p.prev, head, pg)
         /\ Push(p, head, pg).type = p.type
         /\ Push(p, head, pg).bitmap = p.bitmap
<1> DEFINE q == [p EXCEPT !.next[head] = pg, !.next[pg] = p.next[head], !.prev[pg] = head]
<1>1. p.next[head] \in Page \cup Head \cup {Null}
  BY DEF Pools
<1>2. /\ q \in Pools
      /\ q.slab = p.slab
      /\ q.next = [p.next EXCEPT ![head] = pg, ![pg] = p.next[head]]
      /\ q.prev = [p.prev EXCEPT ![pg] = head]
      /\ q.type = p.type
      /\ q.bitmap = p.bitmap
  BY <1>1 DEF Pools
<1>3. Push(p, head, pg) = SetPrev(q, p.next[head], pg)
  BY DEF Push
<1>4. pg \in Page \cup Head \cup {Null}
  OBVIOUS
<1> DEFINE after == p.next[head]
           before == pg
           r == SetPrev(q, after, before)
<1>5. before \in Page \cup Head \cup {Null}
  BY <1>4
<1> HIDE DEF q, after, before
<1>6. /\ r \in Pools
      /\ r.slab = q.slab
      /\ r.next = q.next
      /\ r.prev = SetLink(q.prev, after, before)
      /\ r.type = q.type
      /\ r.bitmap = q.bitmap
  BY <1>2, <1>5, SetPrevFields
<1> HIDE DEF r
<1> QED
  BY <1>2, <1>3, <1>6 DEF PushNext, PushPrev, r, after, before

\* What Split changes of a pool.
LEMMA SplitFields ==
  ASSUME NEW p \in Pools, NEW pg \in Page, p.prev[pg] \in Page \cup Head,
         NEW n \in Int, pg + n \in Page
  PROVE  /\ Split(p, pg, n) \in Pools
         /\ Split(p, pg, n).slab = [p.slab EXCEPT ![pg + n] = p.slab[pg] - n]
         /\ Split(p, pg, n).next = SplitNext(p.next, p.prev, pg, pg + n)
         /\ Split(p, pg, n).prev = SplitPrev(p.next, p.prev, pg, pg + n)
         /\ Split(p, pg, n).type = p.type
         /\ Split(p, pg, n).bitmap = p.bitmap
<1> DEFINE rest == pg + n
           left == p.slab[pg] - n
           q == [p EXCEPT !.slab[rest] = left,
                          !.next[rest] = p.next[pg], !.prev[rest] = p.prev[pg],
                          !.next[p.prev[pg]] = rest]
<1>1. p.next[pg] \in Page \cup Head \cup {Null} /\ p.prev[pg] \in Page \cup Head \cup {Null}
  BY DEF Pools
<1>2. rest \in Page /\ rest \in Page \cup Head \cup {Null} /\ left \in Int
  BY DEF Pools
<1>3. Split(p, pg, n) = SetPrev(q, p.next[pg], rest)
  BY DEF Split
<1> HIDE DEF rest, left
<1>4. /\ q \in Pools
      /\ q.slab = [p.slab EXCEPT ![rest] = left]
      /\ q.next = [p.next EXCEPT ![rest] = p.next[pg], ![p.prev[pg]] = rest]
      /\ q.prev = [p.prev EXCEPT ![rest] = p.prev[pg]]
      /\ q.type = p.type
      /\ q.bitmap = p.bitmap
  BY <1>1, <1>2 DEF Pools
<1> DEFINE after == p.next[pg]
           before == rest
           r == SetPrev(q, after, before)
<1>5. before \in Page \cup Head \cup {Null}
  BY <1>2
<1> HIDE DEF q, after, before
<1>6. /\ r \in Pools
      /\ r.slab = q.slab
      /\ r.next = q.next
      /\ r.prev = SetLink(q.prev, after, before)
      /\ r.type = q.type
      /\ r.bitmap = q.bitmap
  BY <1>4, <1>5, SetPrevFields
<1> HIDE DEF r
<1>7. /\ Split(p, pg, n) \in Pools
      /\ Split(p, pg, n).slab = [p.slab EXCEPT ![rest] = left]
      /\ Split(p, pg, n).next = SplitNext(p.next, p.prev, pg, rest)
      /\ Split(p, pg, n).prev = SplitPrev(p.next, p.prev, pg, rest)
      /\ Split(p, pg, n).type = p.type
      /\ Split(p, pg, n).bitmap = p.bitmap
  BY <1>3, <1>4, <1>6 DEF SplitNext, SplitPrev, r, after, before
<1> QED
  BY <1>7 DEF rest, left

-----------------------------------------------------------------------------

\* Chain is what its definition says: such a function exists.
LEMMA ChainDef ==
  ASSUME NEW p \in Pools, NEW head \in Head
  PROVE  /\ Chain(p, head) \in [0 .. Pages -> Page \cup Head \cup {Null}]
         /\ Chain(p, head)[0] = p.next[head]
         /\ \A k \in 1 .. Pages :
              Chain(p, head)[k] = IF Chain(p, head)[k - 1] \in Page
                                    THEN p.next[Chain(p, head)[k - 1]]
                                    ELSE Chain(p, head)[k - 1]
<1> DEFINE R == Page \cup Head \cup {Null}
           step == [x \in R |-> IF x \in Page THEN p.next[x] ELSE x]
           begin == p.next[head]
           n == Pages
           Is(f) == f = [k \in 0 .. Pages |->
                           IF k = 0 THEN p.next[head]
                           ELSE IF f[k - 1] \in Page THEN p.next[f[k - 1]] ELSE f[k - 1]]
<1>0. p.next \in [Page \cup Head -> Page \cup Head \cup {Null}]
  BY DEF Pools
<1>1. n \in Nat /\ Pages \in Nat
  BY NodeShape
<1>2. begin \in R
  BY <1>0
<1>3. step \in [R -> R]
  BY <1>0
<1>5. \A x \in R : step[x] = IF x \in Page THEN p.next[x] ELSE x
  OBVIOUS
<1>7. PICK f \in [0 .. n -> R] : f[0] = begin /\ \A i \in 1 .. n : f[i] = step[f[i - 1]]
  <2> HIDE DEF R, begin, n, step
  <2>1. Walker(R, begin, n, step)
    BY <1>1, <1>2, <1>3 DEF Walker
  <2>2. HasWalk(R, begin, n, step)
    BY <2>1, WalkerWalks
  <2> QED
    BY <2>2 DEF HasWalk
<1>8. \A i \in 1 .. Pages : f[i - 1] \in R
  BY <1>1
<1>9. Is(f)
  <2>1. \A k \in 0 .. Pages : k # 0 => k \in 1 .. Pages
    BY <1>1
  <2>2. DOMAIN f = 0 .. Pages /\ f = [k \in 0 .. Pages |-> f[k]]
    BY <1>7
  <2>3. \A k \in 0 .. Pages : k # 0 => f[k] = IF f[k - 1] \in Page THEN p.next[f[k - 1]] ELSE f[k - 1]
    <3> HIDE DEF R, step
    <3> QED
      BY <2>1, <1>5, <1>7, <1>8
  <2>4. f[0] = p.next[head]
    BY <1>7
  <2> QED
    BY <2>2, <2>3, <2>4
<1> DEFINE c == CHOOSE g : Is(g)
<1>10. Is(c)
  <2> HIDE DEF Is
  <2> QED
    BY <1>9
<1>11. Chain(p, head) = c
  BY DEF Chain
<1> HIDE DEF c
<1>12. DOMAIN c = 0 .. Pages /\ c[0] = p.next[head]
  BY <1>10, <1>1
<1>13. \A k \in 1 .. Pages : c[k] = IF c[k - 1] \in Page THEN p.next[c[k - 1]] ELSE c[k - 1]
  BY <1>10, <1>1
<1>14. \A k \in 0 .. Pages : c[k] = f[k]
  <2> DEFINE S == {k \in 0 .. Pages : c[k] = f[k]}
  <2>1. 0 \in S
    BY <1>1, <1>7, <1>12
  <2>2. \A i \in 1 .. Pages : i - 1 \in S => i \in S
    <3> SUFFICES ASSUME NEW i \in 1 .. Pages, i - 1 \in S
                 PROVE  i \in S
      OBVIOUS
    <3>1. c[i] = IF c[i - 1] \in Page THEN p.next[c[i - 1]] ELSE c[i - 1]
      BY <1>13
    <3>2. f[i] = IF f[i - 1] \in Page THEN p.next[f[i - 1]] ELSE f[i - 1]
      <4> HIDE DEF R, step
      <4> QED
        BY <1>5, <1>7, <1>8
    <3> QED
      BY <3>1, <3>2, <1>1
  <2> HIDE DEF S
  <2>3. 0 .. Pages \subseteq S
    BY <1>1, <2>1, <2>2, InductionUpTo
  <2> QED
    BY <2>3 DEF S
<1>15. c = [k \in 0 .. Pages |-> c[k]]
  BY <1>10
<1>16. \A k \in 0 .. Pages : f[k] \in R
  BY <1>7
<1>17. c \in [0 .. Pages -> R]
  <2> HIDE DEF R
  <2> QED
    BY <1>14, <1>15, <1>16
<1> QED
  BY <1>11, <1>12, <1>13, <1>17

\* The lists of a pool are linked.
Listed(p, own, rank, out) == Linked(p.next, p.prev, own, rank, out)

\* Walking a list meets its pages only, each from the one before it.
LEMMA ChainOwn ==
  ASSUME NEW p \in Pools, NEW own, NEW rank, NEW out, Listed(p, own, rank, out),
         NEW head \in Head, NEW k \in 0 .. Pages
  PROVE  LET node == Chain(p, head) IN
         /\ node[k] = head \/ node[k] \in Page
         /\ node[k] \in Page =>
              /\ own[node[k]] = head
              /\ p.prev[node[k]] = IF k = 0 THEN head ELSE node[k - 1]
              /\ k # 0 => node[k - 1] \in Page /\ rank[node[k - 1]] < rank[node[k]]
<1> DEFINE node == Chain(p, head)
           Good(i) ==
             /\ node[i] = head \/ node[i] \in Page
             /\ node[i] \in Page =>
                  /\ own[node[i]] = head
                  /\ p.prev[node[i]] = IF i = 0 THEN head ELSE node[i - 1]
                  /\ i # 0 => node[i - 1] \in Page /\ rank[node[i - 1]] < rank[node[i]]
           S == {i \in 0 .. Pages : Good(i)}
<1>1. /\ p.next \in [Page \cup Head -> Page \cup Head \cup {Null}]
      /\ NextOK(p.next, p.prev, own, rank, head, head)
      /\ \A pg \in Page : own[pg] # Null => NextOK(p.next, p.prev, own, rank, own[pg], pg)
  BY DEF Linked, Listed
<1>2. head \notin Page /\ head # Null
  BY NodeShape
<1>3. /\ node[0] = p.next[head]
      /\ \A i \in 1 .. Pages : node[i] = IF node[i - 1] \in Page THEN p.next[node[i - 1]] ELSE node[i - 1]
  BY ChainDef
<1> HIDE DEF node
<1>4. Pages \in Nat
  BY NodeShape
<1>5. 0 \in S
  BY <1>1, <1>2, <1>3, <1>4 DEF NextOK
<1>6. \A i \in 1 .. Pages : i - 1 \in S => i \in S
  <2> SUFFICES ASSUME NEW i \in 1 .. Pages, i - 1 \in S
               PROVE  i \in S
    OBVIOUS
  <2>1. Good(i - 1) /\ i \in 0 .. Pages /\ i # 0
    BY <1>4
  <2>2. CASE node[i - 1] \notin Page
    <3>1. node[i] = head
      BY <1>3, <2>1, <2>2
    <3> QED
      BY <3>1, <2>1, <1>2
  <2>3. CASE node[i - 1] \in Page
    <3>1. node[i] = p.next[node[i - 1]] /\ own[node[i - 1]] = head
      BY <1>3, <2>1, <2>3
    <3>2. NextOK(p.next, p.prev, own, rank, head, node[i - 1])
      BY <3>1, <2>3, <1>1, <1>2
    <3> QED
      BY <3>1, <3>2, <2>1, <2>3, <1>2 DEF NextOK
  <2> QED
    BY <2>2, <2>3
<1>7. 0 .. Pages \subseteq S
  <2> HIDE DEF S
  <2> QED
    BY <1>4, <1>5, <1>6, InductionUpTo
<1> QED
  BY <1>7 DEF node

\* A list is closed: more pages than there are cannot follow each other.
LEMMA ChainEnds ==
  ASSUME NEW p \in Pools, NEW own, NEW rank, NEW out, Listed(p, own, rank, out),
         NEW head \in Head
  PROVE  Chain(p, head)[Pages] = head
<1> DEFINE node == Chain(p, head)
<1>1. Pages \in Nat /\ Page = 0 .. Pages - 1
  BY NodeShape
<1>2. \A k \in 0 .. Pages :
        /\ node[k] = head \/ node[k] \in Page
        /\ node[k] \in Page /\ k # 0 => node[k - 1] \in Page /\ rank[node[k - 1]] < rank[node[k]]
  BY ChainOwn
<1>3. rank \in [Page -> Nat] /\ p.next \in [Page \cup Head -> Page \cup Head \cup {Null}]
  BY DEF Linked, Listed
<1>4. DOMAIN node = 0 .. Pages /\ node = [k \in 0 .. Pages |-> node[k]]
  <2>1. node \in [0 .. Pages -> Page \cup Head \cup {Null}]
    BY ChainDef
  <2> HIDE DEF node
  <2> QED
    BY <2>1
<1> HIDE DEF node
<1> SUFFICES ASSUME node[Pages] \in Page
             PROVE  FALSE
  BY <1>1, <1>2 DEF node
<1>5. \A k \in 0 .. Pages : node[k] \in Page
  <2> DEFINE S == {j \in 0 .. Pages : node[Pages - j] \in Page}
  <2>1. 0 \in S
    BY <1>1
  <2>2. \A i \in 1 .. Pages : i - 1 \in S => i \in S
    <3> SUFFICES ASSUME NEW i \in 1 .. Pages, i - 1 \in S
                 PROVE  i \in S
      OBVIOUS
    <3>1. Pages - (i - 1) \in 0 .. Pages /\ Pages - (i - 1) # 0 /\ Pages - (i - 1) - 1 = Pages - i
      BY <1>1
    <3>2. node[Pages - (i - 1)] \in Page
      OBVIOUS
    <3>3. node[Pages - (i - 1) - 1] \in Page
      BY <3>1, <3>2, <1>2
    <3> QED
      BY <3>1, <3>3, <1>1
  <2> HIDE DEF S
  <2>3. 0 .. Pages \subseteq S
    BY <1>1, <2>1, <2>2, InductionUpTo
  <2> USE DEF S
  <2> TAKE k \in 0 .. Pages
  <2>4. Pages - k \in 0 .. Pages /\ Pages - (Pages - k) = k
    BY <1>1
  <2> QED
    BY <2>3, <2>4
<1>6. \A m \in 0 .. Pages : \A k \in 0 .. Pages : k < m => rank[node[k]] < rank[node[m]]
  <2> DEFINE S == {m \in 0 .. Pages : \A k \in 0 .. Pages : k < m => rank[node[k]] < rank[node[m]]}
  <2>1. 0 \in S
    BY <1>1
  <2>2. \A i \in 1 .. Pages : i - 1 \in S => i \in S
    <3> SUFFICES ASSUME NEW i \in 1 .. Pages, i - 1 \in S, NEW k \in 0 .. Pages, k < i
                 PROVE  rank[node[k]] < rank[node[i]]
      BY <1>1
    <3>1. i \in 0 .. Pages /\ i - 1 \in 0 .. Pages /\ i # 0
      BY <1>1
    <3>2. node[i] \in Page /\ node[i - 1] \in Page /\ node[k] \in Page
      BY <3>1, <1>5
    <3>3. rank[node[i - 1]] < rank[node[i]]
      BY <3>1, <3>2, <1>2
    <3>4. rank[node[i]] \in Nat /\ rank[node[i - 1]] \in Nat /\ rank[node[k]] \in Nat
      BY <3>2, <1>3
    <3>5. CASE k = i - 1
      BY <3>3, <3>5
    <3>6. CASE k < i - 1
      <4>1. rank[node[k]] < rank[node[i - 1]]
        BY <3>6
      <4> QED
        BY <4>1, <3>3, <3>4
    <3> QED
      BY <3>1, <3>5, <3>6
  <2> HIDE DEF S
  <2>3. 0 .. Pages \subseteq S
    BY <1>1, <2>1, <2>2, InductionUpTo
  <2> QED
    BY <2>3 DEF S
<1>7. \A x, y \in 0 .. Pages : node[x] = node[y] => x = y
  <2> SUFFICES ASSUME NEW x \in 0 .. Pages, NEW y \in 0 .. Pages, node[x] = node[y], x # y
               PROVE  FALSE
    OBVIOUS
  <2>1. rank[node[x]] \in Nat /\ rank[node[y]] \in Nat
    BY <1>3, <1>5
  <2>2. x < y \/ y < x
    OBVIOUS
  <2> QED
    BY <2>1, <2>2, <1>6
<1>8. IsFiniteSet(0 .. Pages) /\ Cardinality(0 .. Pages) = Pages + 1
  <2>1. IsFiniteSet(0 .. Pages) /\ Cardinality(0 .. Pages) = IF 0 > Pages THEN 0 ELSE Pages - 0 + 1
    BY <1>1, FS_Interval
  <2> QED
    BY <2>1, <1>1
<1>9. IsFiniteSet(Page) /\ Cardinality(Page) = Pages
  <2>1. Pages - 1 \in Int /\ 0 \in Int
    BY <1>1
  <2>2. IsFiniteSet(0 .. Pages - 1) /\ Cardinality(0 .. Pages - 1) = IF 0 > Pages - 1 THEN 0 ELSE Pages - 1 - 0 + 1
    BY <2>1, FS_Interval
  <2> QED
    BY <2>2, <1>1
<1>10. node \in [0 .. Pages -> Page]
  BY <1>4, <1>5
<1> DEFINE dom == 0 .. Pages
<1>11. IsFiniteSet(dom) /\ Cardinality(Page) < Cardinality(dom) /\ node \in [dom -> Page]
  BY <1>1, <1>8, <1>9, <1>10
<1>12. \A x, y \in dom : node[x] = node[y] => x = y
  BY <1>7
<1> HIDE DEF dom
<1>13. \E x, y \in dom : x # y /\ node[x] = node[y]
  BY <1>9, <1>11, FS_PigeonHole
<1> QED
  BY <1>12, <1>13

\* A list holds the pages it owns.
LEMMA MembersOwn ==
  ASSUME NEW p \in Pools, NEW own, NEW rank, NEW out, Listed(p, own, rank, out),
         NEW head \in Head
  PROVE  Members(p, head) = {pg \in Page : own[pg] = head}
<1> DEFINE node == Chain(p, head)
           missed == {pg \in Page : own[pg] = head /\ \A k \in 0 .. Pages : node[k] # pg}
<1>1. ASSUME NEW k \in 0 .. Pages, node[k] \in Page
      PROVE  own[node[k]] = head
  BY <1>1, ChainOwn
<1>2. node[Pages] = head
  BY ChainEnds
<1>3. /\ p.next \in [Page \cup Head -> Page \cup Head \cup {Null}]
      /\ rank \in [Page -> Nat]
      /\ \A pg \in Page : own[pg] # Null => NextOK(p.next, p.prev, own, rank, own[pg], pg)
      /\ \A pg \in Page : own[pg] # Null => PrevOK(p.next, p.prev, own, own[pg], pg)
  BY DEF Linked, Listed
<1>4. /\ node[0] = p.next[head]
      /\ \A i \in 1 .. Pages : node[i] = IF node[i - 1] \in Page THEN p.next[node[i - 1]] ELSE node[i - 1]
  BY ChainDef
<1>5. Pages \in Nat /\ head # Null /\ head \notin Page
  BY NodeShape
<1>6. Members(p, head) = {node[k] : k \in 0 .. Pages} \cap Page
  BY DEF Members
<1> HIDE DEF node
<1>7. missed = {}
  <2> SUFFICES ASSUME missed # {}
               PROVE  FALSE
    OBVIOUS
  <2> DEFINE T == {rank[pg] : pg \in missed}
  <2>1. T \subseteq Nat /\ T # {}
    BY <1>3
  <2>2. PICK x \in T : \A y \in T : x <= y
    <3> HIDE DEF T
    <3> QED
      BY <2>1, LeastMember
  <2>3. PICK pg \in missed : \A other \in missed : rank[pg] <= rank[other]
    BY <2>2
  <2> HIDE DEF T
  <2>4. pg \in Page /\ own[pg] = head /\ \A k \in 0 .. Pages : node[k] # pg
    BY <2>3
  <2>5. PrevOK(p.next, p.prev, own, head, pg)
    BY <2>4, <1>3, <1>5
  <2>6. p.prev[pg] # head
    BY <2>4, <2>5, <1>4, <1>5 DEF PrevOK
  <2> DEFINE b == p.prev[pg]
  <2>7. b \in Page /\ own[b] = head /\ p.next[b] = pg
    BY <2>5, <2>6 DEF PrevOK
  <2>8. NextOK(p.next, p.prev, own, rank, head, b)
    BY <2>7, <1>3, <1>5
  <2>9. rank[b] < rank[pg]
    BY <2>4, <2>7, <2>8, <1>5 DEF NextOK
  <2>10. rank[b] \in Nat /\ rank[pg] \in Nat
    BY <2>4, <2>7, <1>3
  <2> HIDE DEF b
  <2>11. b \notin missed
    BY <2>3, <2>9, <2>10
  <2>12. PICK k \in 0 .. Pages : node[k] = b
    BY <2>7, <2>11
  <2>13. k # Pages
    BY <2>7, <2>12, <1>2, <1>5
  <2>14. k + 1 \in 1 .. Pages /\ k + 1 - 1 = k /\ k + 1 \in 0 .. Pages
    BY <2>13, <1>5
  <2>15. node[k + 1] = pg
    BY <2>7, <2>12, <2>14, <1>4
  <2> QED
    BY <2>4, <2>14, <2>15
<1> QED
  BY <1>1, <1>6, <1>7

\* The page that is taken is a page of the free list, and long enough.
LEMMA FirstFitOwn ==
  ASSUME NEW p \in Pools, NEW own, NEW rank, NEW out, Listed(p, own, rank, out),
         NEW n \in Int, NEW pg \in FirstFit(p, n)
  PROVE  pg \in Page /\ own[pg] = FreeHead /\ p.slab[pg] >= n
<1> DEFINE node == Chain(p, FreeHead)
<1>1. FreeHead \in Head
  BY NodeShape
<1>2. PICK k \in 0 .. Pages : pg = node[k] /\ node[k] \in Page /\ p.slab[node[k]] >= n
  BY DEF FirstFit
<1>3. own[node[k]] = FreeHead
  <2>1. node[k] \in Page
    BY <1>2
  <2> DEFINE head == FreeHead
  <2>2. head \in Head
    BY <1>1
  <2>3. own[Chain(p, head)[k]] = head
    <3>1. Chain(p, head)[k] \in Page
      BY <2>1
    <3> HIDE DEF head
    <3> QED
      BY <2>2, <3>1, ChainOwn
  <2> QED
    BY <2>3
<1> QED
  BY <1>2, <1>3

\* The lists of a pool are as ListsLinked has them.
LEMMA LinkedLists ==
  ASSUME NEW own, NEW rank, NEW out, Listed(pool, own, rank, out), pool \in Pools
  PROVE  ListsLinked
<1>1. ASSUME NEW head \in Head
      PROVE  Chain(pool, head)[Pages] = head
  BY ChainEnds
<1>2. ASSUME NEW head \in Head, NEW k \in 0 .. Pages, Chain(pool, head)[k] \in Page
      PROVE  pool.prev[Chain(pool, head)[k]] = IF k = 0 THEN head ELSE Chain(pool, head)[k - 1]
  BY <1>2, ChainOwn
<1>3. ASSUME NEW h1 \in Head, NEW h2 \in Head, h1 # h2
      PROVE  Members(pool, h1) \cap Members(pool, h2) = {}
  <2>1. \A head \in Head : Members(pool, head) = {pg \in Page : own[pg] = head}
    <3> TAKE head \in Head
    <3> QED
      BY MembersOwn
  <2>2. /\ Members(pool, h1) = {pg \in Page : own[pg] = h1}
        /\ Members(pool, h2) = {pg \in Page : own[pg] = h2}
    BY <2>1
  <2> QED
    BY <2>1, <2>2, <1>3
<1> QED
  BY <1>1, <1>2, <1>3 DEF ListsLinked

\* The owners once a page has another one.
Owned(own, pg, head) == [own EXCEPT ![pg] = head]

\* Unlink takes a page out of its list and nothing else.
LEMMA UnlinkListed ==
  ASSUME NEW p \in Pools, NEW own, NEW rank, NEW out, Listed(p, own, rank, out),
         NEW pg \in Page, own[pg] # Null
  PROVE  /\ Unlink(p, pg) \in Pools
         /\ Listed(Unlink(p, pg), Owned(own, pg, Null), rank, out \cup {pg})
         /\ Unlink(p, pg).slab = p.slab
         /\ Unlink(p, pg).type = p.type
         /\ Unlink(p, pg).bitmap = p.bitmap
<1> DEFINE next == p.next
           prev == p.prev
           w == [own EXCEPT ![pg] = Null]
           q == Unlink(p, pg)
           o == out \cup {pg}
<1>1. Linked(next, prev, own, rank, out)
  BY DEF Listed
<1>2. prev[pg] \in Page \cup Head
  <2>1. PrevOK(next, prev, own, own[pg], pg) /\ own[pg] \in Head \cup {Null}
    BY <1>1 DEF Linked
  <2> QED
    BY <2>1 DEF PrevOK
<1>3. /\ q \in Pools
      /\ q.slab = p.slab
      /\ q.next = UnlinkNext(next, prev, pg)
      /\ q.prev = UnlinkPrev(next, prev, pg)
      /\ q.type = p.type
      /\ q.bitmap = p.bitmap
  BY <1>2, UnlinkFields
<1>4. Linked(UnlinkNext(next, prev, pg), UnlinkPrev(next, prev, pg), w, rank, o)
  <2> HIDE DEF next, prev
  <2> QED
    BY <1>1, UnlinkLinked
<1> HIDE DEF q, w, o, next, prev
<1>5. Listed(q, w, rank, o)
  BY <1>3, <1>4 DEF Listed
<1> QED
  BY <1>3, <1>5 DEF q, w, o, Owned

\* Push puts a page that is in no list into one and does nothing else.
LEMMA PushListed ==
  ASSUME NEW p \in Pools, NEW own, NEW rank, NEW out, Listed(p, own, rank, out),
         NEW pg \in Page, own[pg] = Null, NEW head \in Head
  PROVE  /\ Push(p, head, pg) \in Pools
         /\ \E r : Listed(Push(p, head, pg), Owned(own, pg, head), r, out \ {pg})
         /\ Push(p, head, pg).slab = p.slab
         /\ Push(p, head, pg).type = p.type
         /\ Push(p, head, pg).bitmap = p.bitmap
<1> DEFINE next == p.next
           prev == p.prev
           w == [own EXCEPT ![pg] = head]
           q == Push(p, head, pg)
           r == [i \in Page |-> IF i = pg THEN 0 ELSE rank[i] + 1]
           o == out \ {pg}
<1>1. Linked(next, prev, own, rank, out)
  BY DEF Listed
<1>2. /\ q \in Pools
      /\ q.slab = p.slab
      /\ q.next = PushNext(next, head, pg)
      /\ q.prev = PushPrev(next, prev, head, pg)
      /\ q.type = p.type
      /\ q.bitmap = p.bitmap
  BY PushFields
<1>3. Linked(PushNext(next, head, pg), PushPrev(next, prev, head, pg), w, r, o)
  <2> HIDE DEF next, prev
  <2> QED
    BY <1>1, PushLinked
<1> HIDE DEF q, w, o, r, next, prev
<1>4. Listed(q, w, r, o)
  BY <1>2, <1>3 DEF Listed
<1> QED
  BY <1>2, <1>4 DEF q, w, o, Owned

\* The owners and the words after a split: the rest has taken the place of the head.
SplitOwn(own, pg, rest) == [own EXCEPT ![pg] = Null, ![rest] = own[pg]]
SplitSlab(slab, pg, n, rest) == [slab EXCEPT ![rest] = slab[pg] - n]

\* A split of n pages off pg: the rest begins at a page that is in no list.
Splits(own, pg, n, rest) ==
  /\ own[pg] # Null
  /\ n \in Int /\ rest = pg + n
  /\ rest \in Page /\ own[rest] = Null

\* Split puts the rest of a run into the place of its head.
LEMMA SplitListed ==
  ASSUME NEW p \in Pools, NEW own, NEW rank, NEW out, Listed(p, own, rank, out),
         NEW pg \in Page, NEW n, NEW rest, Splits(own, pg, n, rest)
  PROVE  /\ Split(p, pg, n) \in Pools
         /\ \E r : Listed(Split(p, pg, n), SplitOwn(own, pg, rest), r, out \cup {pg})
         /\ Split(p, pg, n).slab = SplitSlab(p.slab, pg, n, rest)
         /\ Split(p, pg, n).type = p.type
         /\ Split(p, pg, n).bitmap = p.bitmap
<1> DEFINE next == p.next
           prev == p.prev
           w == [own EXCEPT ![pg] = Null, ![rest] = own[pg]]
           q == Split(p, pg, n)
           r == [rank EXCEPT ![rest] = rank[pg]]
           o == out \cup {pg}
           slab == [p.slab EXCEPT ![rest] = p.slab[pg] - n]
<1>1. Linked(next, prev, own, rank, out)
  BY DEF Listed
<1>2. prev[pg] \in Page \cup Head
  <2>1. PrevOK(next, prev, own, own[pg], pg) /\ own[pg] \in Head \cup {Null}
    BY <1>1 DEF Linked, Splits
  <2> QED
    BY <2>1 DEF PrevOK, Splits
<1>3. /\ q \in Pools
      /\ q.slab = slab
      /\ q.next = SplitNext(next, prev, pg, rest)
      /\ q.prev = SplitPrev(next, prev, pg, rest)
      /\ q.type = p.type
      /\ q.bitmap = p.bitmap
  <2>1. n \in Int /\ pg + n \in Page /\ rest = pg + n
    BY DEF Splits
  <2> QED
    BY <2>1, <1>2, SplitFields
<1>4. rest \in Page /\ own[rest] = Null /\ own[pg] # Null
  BY DEF Splits
<1>5. Linked(SplitNext(next, prev, pg, rest), SplitPrev(next, prev, pg, rest), w, r, o)
  <2> HIDE DEF next, prev
  <2> QED
    BY <1>1, <1>4, SplitLinked
<1> HIDE DEF q, w, o, r, next, prev, slab
<1>6. Listed(q, w, r, o)
  BY <1>3, <1>5 DEF Listed
<1> QED
  BY <1>3, <1>6 DEF q, w, o, slab, SplitOwn, SplitSlab

-----------------------------------------------------------------------------

\* Every page is in the extent of one page, its home; a span of 0 is none.
Tiled(span, home) ==
  /\ span \in [Page -> 0 .. Pages]
  /\ home \in [Page -> Page]
  /\ \A pg \in Page : home[pg] <= pg /\ pg < home[pg] + span[home[pg]]
  /\ \A h, pg \in Page : h <= pg /\ pg < h + span[h] => home[pg] = h
  /\ \A h \in Page : h + span[h] <= Pages

\* No extent begins inside another.
LEMMA InsideExtent ==
  ASSUME NEW span, NEW home, Tiled(span, home), NEW pg \in Page,
         NEW x \in Int, pg < x, x < pg + span[pg]
  PROVE  x \in Page /\ span[x] = 0
<1>1. /\ span \in [Page -> 0 .. Pages]
      /\ \A h, i \in Page : h <= i /\ i < h + span[h] => home[i] = h
      /\ \A h \in Page : h + span[h] <= Pages
  BY DEF Tiled
<1>2. Page = 0 .. Pages - 1 /\ Pages \in Nat
  BY NodeShape
<1>3. x \in Page
  <2>1. span[pg] \in 0 .. Pages /\ pg + span[pg] <= Pages
    BY <1>1
  <2> QED
    BY <1>2, <2>1
<1>4. home[x] = pg
  BY <1>1, <1>2, <1>3
<1>5. span[x] \in 0 .. Pages
  BY <1>1, <1>3
<1>6. span[x] > 0 => home[x] = x
  BY <1>1, <1>2, <1>3, <1>5
<1> QED
  BY <1>2, <1>3, <1>4, <1>5, <1>6

\* Two extents in the place of one tile the table as it did.
LEMMA SplitTiled ==
  ASSUME NEW span, NEW home, Tiled(span, home), NEW pg \in Page, NEW n \in Nat \ {0}, n < span[pg]
  PROVE  Tiled([span EXCEPT ![pg] = n, ![pg + n] = span[pg] - n],
               [x \in Page |-> IF pg + n <= x /\ x < pg + span[pg] THEN pg + n ELSE home[x]])
<1> DEFINE rest == pg + n
           all == span[pg]
           s == [span EXCEPT ![pg] = n, ![rest] = all - n]
           m == [x \in Page |-> IF rest <= x /\ x < pg + all THEN rest ELSE home[x]]
<1>1. /\ span \in [Page -> 0 .. Pages]
      /\ home \in [Page -> Page]
      /\ \A i \in Page : home[i] <= i /\ i < home[i] + span[home[i]]
      /\ \A h, i \in Page : h <= i /\ i < h + span[h] => home[i] = h
      /\ \A h \in Page : h + span[h] <= Pages
  BY DEF Tiled
<1>2. Page = 0 .. Pages - 1 /\ Pages \in Nat
  BY NodeShape
<1>3. all \in 0 .. Pages /\ pg + all <= Pages /\ rest \in Int /\ pg < rest /\ rest < pg + all /\ n < all
  BY <1>1, <1>2
<1>4. rest \in Page /\ span[rest] = 0
  BY <1>3, InsideExtent
<1>5. /\ s \in [Page -> 0 .. Pages]
      /\ s[pg] = n
      /\ s[rest] = all - n
      /\ \A x \in Page : x # pg /\ x # rest => s[x] = span[x]
  <2>1. n \in 0 .. Pages /\ all - n \in 0 .. Pages
    BY <1>2, <1>3
  <2>2. rest # pg
    BY <1>3, <1>2
  <2> HIDE DEF rest, all
  <2> QED
    BY <1>1, <1>4, <2>1, <2>2
<1>6. m \in [Page -> Page]
  BY <1>1, <1>4
<1>7. \A x \in Page : m[x] = IF rest <= x /\ x < pg + all THEN rest ELSE home[x]
  OBVIOUS
<1>8. all = span[pg] /\ rest = pg + n
  OBVIOUS
<1> HIDE DEF s, m, rest, all
<1>9. ASSUME NEW x \in Page
      PROVE  m[x] <= x /\ x < m[x] + s[m[x]]
  <2>1. home[x] <= x /\ x < home[x] + span[home[x]] /\ home[x] \in Page
    BY <1>1
  <2>2. CASE rest <= x /\ x < pg + all
    BY <2>2, <1>2, <1>3, <1>5, <1>7, <1>8
  <2>3. CASE ~(rest <= x /\ x < pg + all)
    <3>1. m[x] = home[x]
      BY <2>3, <1>7
    <3>2. home[x] # rest
      <4>1. span[home[x]] \in 0 .. Pages
        BY <2>1, <1>1
      <4> QED
        BY <2>1, <4>1, <1>2, <1>4
    <3>3. CASE home[x] = pg
      BY <2>1, <2>3, <3>1, <3>3, <1>2, <1>3, <1>5, <1>8
    <3>4. CASE home[x] # pg
      BY <2>1, <3>1, <3>2, <3>4, <1>5
    <3> QED
      BY <3>3, <3>4
  <2> QED
    BY <2>2, <2>3
<1>10. ASSUME NEW h \in Page, NEW x \in Page, h <= x, x < h + s[h]
       PROVE  m[x] = h
  <2>1. CASE h = pg
    <3>1. home[x] = pg
      BY <2>1, <1>1, <1>2, <1>3, <1>5, <1>8, <1>10
    <3> QED
      BY <2>1, <3>1, <1>2, <1>5, <1>7, <1>8, <1>10
  <2>2. CASE h = rest
    BY <2>2, <1>2, <1>3, <1>5, <1>7, <1>8, <1>10
  <2>3. CASE h # pg /\ h # rest
    <3>1. home[x] = h
      BY <2>3, <1>1, <1>5, <1>10
    <3>2. ~(rest <= x /\ x < pg + all)
      <4>1. pg <= x /\ x < pg + span[pg] => home[x] = pg
        BY <1>1
      <4> QED
        BY <2>3, <3>1, <4>1, <1>2, <1>3, <1>8
    <3> QED
      BY <3>1, <3>2, <1>7
  <2> QED
    BY <2>1, <2>2, <2>3
<1>11. ASSUME NEW h \in Page
       PROVE  h + s[h] <= Pages
  <2>1. h + span[h] <= Pages /\ span[h] \in 0 .. Pages
    BY <1>1
  <2>2. CASE h = pg
    BY <2>2, <1>2, <1>3, <1>5
  <2>3. CASE h = rest
    BY <2>3, <1>2, <1>3, <1>5, <1>8
  <2>4. CASE h # pg /\ h # rest
    BY <2>1, <2>4, <1>5
  <2> QED
    BY <2>2, <2>3, <2>4
<1>12. Tiled(s, m)
  BY <1>5, <1>6, <1>9, <1>10, <1>11 DEF Tiled
<1> QED
  BY <1>12 DEF s, m, rest, all

-----------------------------------------------------------------------------
(* Pages cut into chunks: the three ways to keep a bitmap.                 *)

(***************************************************************************)
(* A page cut into chunks of 1 << s bytes.  A small one keeps its bitmap    *)
(* busy, an exact one is its word, a big one has the word above the shift.  *)
(***************************************************************************)
SmallWord(p, pg, s) ==
  /\ p.slab[pg] = s
  /\ Reserved(s) \subseteq p.bitmap[pg]
  /\ p.bitmap[pg] \subseteq 0 .. Chunks(s) - 1
BigWord(p, pg, s) ==
  \E w \in 0 .. Pow2[Chunks(s)] - 1 : p.slab[pg] = w * Pow2[MapShift] + s

\* A page is cut into chunks of 1 << s bytes.
Divided(p, pg, s) ==
  /\ s \in MinShift .. PageShift - 1
  /\ p.type[pg] = ClassOf(s)
  /\ s < ExactShift => SmallWord(p, pg, s)
  /\ s = ExactShift => p.slab[pg] \in 0 .. AllOnes
  /\ s > ExactShift => BigWord(p, pg, s)

\* The class of a chunk size is one of three, by its side of the exact one.
LEMMA ClassNames ==
  ASSUME NEW s \in MinShift .. PageShift - 1
  PROVE  /\ s < ExactShift => ClassOf(s) = "SMALL"
         /\ s = ExactShift => ClassOf(s) = "EXACT"
         /\ s > ExactShift => ClassOf(s) = "BIG"
         /\ ClassOf(s) \in {"SMALL", "EXACT", "BIG"}
         /\ s < ExactShift \/ s = ExactShift \/ s > ExactShift
<1>1. s \in Int /\ ExactShift \in Int
  BY ChunkRange, WordShape
<1>2. s < ExactShift \/ s = ExactShift \/ s > ExactShift
  BY <1>1
<1>3. s < ExactShift => ~(s = ExactShift) /\ ~(s > ExactShift)
  BY <1>1
<1>4. s > ExactShift => ~(s = ExactShift) /\ ~(s < ExactShift)
  BY <1>1
<1>5. s = ExactShift => ~(s > ExactShift) /\ ~(s < ExactShift)
  BY <1>1
<1>6. s < ExactShift => ClassOf(s) = "SMALL"
  BY <1>3 DEF ClassOf
<1>7. s > ExactShift => ClassOf(s) = "BIG"
  BY <1>4 DEF ClassOf
<1>8. s = ExactShift => ClassOf(s) = "EXACT"
  BY <1>5 DEF ClassOf
<1> QED
  BY <1>2, <1>6, <1>7, <1>8

\* The word of a big page, taken apart.
LEMMA BigParts ==
  ASSUME NEW s \in MinShift .. PageShift - 1, s > ExactShift,
         NEW w \in 0 .. Pow2[Chunks(s)] - 1, NEW v, v = w * Pow2[MapShift] + s
  PROVE  /\ v % Pow2[MapShift] = s
         /\ v \in 0 .. AllOnes
         /\ \A i \in Nat : Bit(v, MapShift + i) <=> Bit(w, i)
<1>1. /\ s \in Nat
      /\ s < Pow2[MapShift]
      /\ Chunks(s) <= MapShift
      /\ Chunks(s) \in Nat
  BY ChunkRange, SlabAssumption
<1>2. MapShift \in Nat /\ Pow2[MapShift] \in Nat \ {0} /\ WordBits = MapShift + MapShift
  BY WordShape, PowPositive
<1>3. s \in 0 .. Pow2[MapShift] - 1
  BY <1>1, <1>2
<1>4. Pow2[Chunks(s)] \in Nat \ {0} /\ Pow2[Chunks(s)] <= Pow2[MapShift]
  BY <1>1, <1>2, PowOrder, PowPositive
<1>5. w \in Nat /\ w \in 0 .. Pow2[MapShift] - 1
  BY <1>2, <1>4
<1>6. v % Pow2[MapShift] = s
  <2> DEFINE q == Pow2[MapShift]
  <2>1. q \in Nat \ {0} /\ s \in 0 .. q - 1 /\ v = w * q + s
    BY <1>2, <1>3
  <2> HIDE DEF q
  <2>2. w * q \in Int
    BY <1>5, <2>1, TimesOrder
  <2>3. v \in Int /\ w \in Int
    BY <1>1, <1>5, <2>1, <2>2
  <2>4. v % q = s
    BY <2>1, <2>3, DivModUnique
  <2> QED
    BY <2>4 DEF q
<1>7. v \in 0 .. AllOnes
  <2> DEFINE q == Pow2[MapShift]
  <2>1. q \in Nat \ {0} /\ s \in 0 .. q - 1 /\ w \in 0 .. q - 1 /\ v = w * q + s
    BY <1>2, <1>3, <1>5
  <2>2. Pow2[WordBits] = q * q
    BY <1>2, PowAdd
  <2> HIDE DEF q
  <2>3. w * q + s \in 0 .. q * q - 1
    BY <2>1, Digits
  <2> QED
    BY <2>1, <2>2, <2>3 DEF AllOnes
<1>8. ASSUME NEW i \in Nat
      PROVE  Bit(v, MapShift + i) <=> Bit(w, i)
  BY <1>2, <1>3, <1>5, BitAbove
<1> QED
  BY <1>6, <1>7, <1>8

\* The page table gives back the chunk size a page is cut into.
LEMMA DividedShift ==
  ASSUME NEW p \in Pools, NEW pg \in Page, NEW s, Divided(p, pg, s)
  PROVE  /\ ShiftOf(p, pg) = s
         /\ p.slab[pg] \in 0 .. AllOnes
         /\ p.type[pg] # "PAGE"
         /\ s \in MinShift .. PageShift - 1
<1>1. s \in MinShift .. PageShift - 1 /\ p.type[pg] = ClassOf(s)
  BY DEF Divided
<1>2. s \in Nat /\ s < Pow2[MapShift] /\ s <= AllOnes
  <2>1. s \in Nat /\ s < Pow2[MapShift] /\ MapShift \in Nat /\ WordBits \in Nat /\ MapShift <= WordBits
    BY <1>1, ChunkRange, WordShape, SlabAssumption
  <2>2. Pow2[MapShift] <= Pow2[WordBits] /\ Pow2[WordBits] \in Nat /\ Pow2[MapShift] \in Nat
    BY <2>1, PowOrder, PowDef
  <2> QED
    BY <2>1, <2>2 DEF AllOnes
<1>3. ClassOf(s) # "PAGE"
  BY <1>1, ClassNames
<1>4. CASE s < ExactShift
  <2>1. p.type[pg] = "SMALL" /\ p.slab[pg] = s
    BY <1>1, <1>4, ClassNames DEF Divided, SmallWord
  <2>2. s % Pow2[MapShift] = s
    <3>1. Pow2[MapShift] \in Nat \ {0}
      BY WordShape, PowPositive
    <3>2. s \in 0 .. Pow2[MapShift] - 1 /\ s = 0 * Pow2[MapShift] + s /\ 0 \in Int /\ s \in Int
      BY <3>1, <1>2
    <3> QED
      BY <3>1, <3>2, DivModUnique
  <2>3. ShiftOf(p, pg) = p.slab[pg] % Pow2[MapShift]
    BY <2>1 DEF ShiftOf
  <2>4. s \in 0 .. AllOnes
    BY <1>2, WordRange
  <2> QED
    BY <2>1, <2>2, <2>3, <2>4, <1>1, <1>3
<1>5. CASE s = ExactShift
  <2>1. p.type[pg] = "EXACT" /\ p.slab[pg] \in 0 .. AllOnes
    BY <1>1, <1>5, ClassNames DEF Divided
  <2>2. ShiftOf(p, pg) = s
    BY <2>1, <1>5 DEF ShiftOf
  <2> QED
    BY <2>1, <2>2, <1>1, <1>3
<1>6. CASE s > ExactShift
  <2>1. p.type[pg] = "BIG" /\ BigWord(p, pg, s)
    BY <1>1, <1>6, ClassNames DEF Divided
  <2>2. PICK w \in 0 .. Pow2[Chunks(s)] - 1 : p.slab[pg] = w * Pow2[MapShift] + s
    BY <2>1 DEF BigWord
  <2> DEFINE v == p.slab[pg]
  <2>3. v % Pow2[MapShift] = s /\ v \in 0 .. AllOnes
    <3>1. v = w * Pow2[MapShift] + s
      BY <2>2
    <3> HIDE DEF v
    <3> QED
      BY <3>1, <1>1, <1>6, BigParts
  <2>4. ShiftOf(p, pg) = p.slab[pg] % Pow2[MapShift]
    BY <2>1 DEF ShiftOf
  <2> QED
    BY <2>3, <2>4, <1>1, <1>3
<1> QED
  BY <1>1, <1>4, <1>5, <1>6, ClassNames

\* A busy chunk is one of the page's.
LEMMA BusyRange ==
  ASSUME NEW p \in Pools, NEW pg \in Page, NEW s, Divided(p, pg, s)
  PROVE  /\ Busy(p, pg) \subseteq 0 .. Chunks(s) - 1
         /\ Reserved(s) \subseteq Busy(p, pg)
<1>1. s \in MinShift .. PageShift - 1 /\ p.type[pg] = ClassOf(s)
  BY DEF Divided
<1>2. CASE s < ExactShift
  <2>1. p.type[pg] = "SMALL" /\ SmallWord(p, pg, s)
    BY <1>1, <1>2, ClassNames DEF Divided
  <2>2. Busy(p, pg) = p.bitmap[pg]
    BY <2>1 DEF Busy
  <2> QED
    BY <2>1, <2>2 DEF SmallWord
<1>3. CASE s = ExactShift
  <2>1. p.type[pg] = "EXACT" /\ Chunks(s) = WordBits
    BY <1>1, <1>3, ClassNames, ChunkRange
  <2>2. Busy(p, pg) = {i \in 0 .. WordBits - 1 : Bit(p.slab[pg], i)}
    BY <2>1 DEF Busy
  <2>3. Reserved(s) = {}
    <3>1. s >= ExactShift
      BY <1>3, WordShape
    <3> QED
      BY <3>1 DEF Reserved
  <2> QED
    BY <2>1, <2>2, <2>3
<1>4. CASE s > ExactShift
  <2>1. p.type[pg] = "BIG" /\ BigWord(p, pg, s)
    BY <1>1, <1>4, ClassNames DEF Divided
  <2>2. Busy(p, pg) = {i \in 0 .. MapShift - 1 : Bit(p.slab[pg], MapShift + i)}
    BY <2>1 DEF Busy
  <2>3. PICK w \in 0 .. Pow2[Chunks(s)] - 1 : p.slab[pg] = w * Pow2[MapShift] + s
    BY <2>1 DEF BigWord
  <2> DEFINE v == p.slab[pg]
             c == Chunks(s)
  <2>4. \A i \in Nat : Bit(v, MapShift + i) <=> Bit(w, i)
    <3>1. v = w * Pow2[MapShift] + s
      BY <2>3
    <3> HIDE DEF v
    <3> QED
      BY <3>1, <1>1, <1>4, BigParts
  <2>5. c \in Nat /\ MapShift \in Nat
    BY <1>1, ChunkRange, WordShape
  <2>6. \A i \in Nat : c <= i => ~Bit(w, i)
    <3>1. w \in 0 .. Pow2[c] - 1
      BY <2>3
    <3> HIDE DEF c
    <3> QED
      BY <2>5, <3>1, BitHigh
  <2>7. Reserved(s) = {}
    <3>1. s >= ExactShift
      BY <1>1, <1>4, WordShape, ChunkRange
    <3> QED
      BY <3>1 DEF Reserved
  <2>8. ASSUME NEW i \in Busy(p, pg)
        PROVE  i \in 0 .. c - 1
    <3>1. i \in 0 .. MapShift - 1 /\ Bit(v, MapShift + i)
      BY <2>2, <2>8
    <3>2. i \in Nat
      BY <3>1
    <3>3. Bit(w, i)
      BY <3>1, <3>2, <2>4
    <3> HIDE DEF c
    <3> QED
      BY <3>2, <3>3, <2>5, <2>6
  <2> QED
    BY <2>7, <2>8
<1> QED
  BY <1>1, <1>2, <1>3, <1>4, ClassNames

\* A page of one word of chunks is full when the word is all ones.
LEMMA ExactFull ==
  ASSUME NEW p \in Pools, NEW pg \in Page, NEW s, Divided(p, pg, s), p.type[pg] = "EXACT"
  PROVE  (0 .. Chunks(s) - 1) \ Busy(p, pg) = {} <=> p.slab[pg] = AllOnes
<1>1. s \in MinShift .. PageShift - 1 /\ p.type[pg] = ClassOf(s)
  BY DEF Divided
<1>2. s = ExactShift
  BY <1>1, ClassNames
<1>3. Chunks(s) = WordBits
  BY <1>1, <1>2, ChunkRange
<1>4. Busy(p, pg) = {i \in 0 .. WordBits - 1 : Bit(p.slab[pg], i)}
  BY DEF Busy
<1> DEFINE v == p.slab[pg]
           n == WordBits
<1>5. v \in 0 .. Pow2[n] - 1
  BY <1>1, <1>2 DEF Divided, AllOnes
<1>6. n \in Nat
  BY WordRange
<1>7. (\A i \in 0 .. n - 1 : Bit(v, i)) <=> v = Pow2[n] - 1
  <2> HIDE DEF v, n
  <2> QED
    BY <1>5, <1>6, AllBits
<1> QED
  BY <1>3, <1>4, <1>7 DEF AllOnes

\* Two pools that differ in the word and the bitmap of one page at most.
SameBut(p, q, pg) ==
  /\ q \in Pools
  /\ q.next = p.next
  /\ q.prev = p.prev
  /\ q.type = p.type
  /\ \A x \in Page : x # pg => q.slab[x] = p.slab[x] /\ q.bitmap[x] = p.bitmap[x]

\* A word written leaves the rest of the pool.
LEMMA WriteWord ==
  ASSUME NEW p \in Pools, NEW pg \in Page, NEW v \in Int
  PROVE  LET q == [p EXCEPT !.slab[pg] = v] IN
         /\ SameBut(p, q, pg)
         /\ q.slab[pg] = v
         /\ q.bitmap = p.bitmap
BY DEF Pools, SameBut

\* Marking a vacant chunk makes it busy and no other, whatever the class.
LEMMA MarkDivided ==
  ASSUME NEW p \in Pools, NEW pg \in Page, NEW s, Divided(p, pg, s),
         NEW i \in 0 .. Chunks(s) - 1, i \notin Busy(p, pg)
  PROVE  /\ SameBut(p, SetBusy(p, pg, i), pg)
         /\ Divided(SetBusy(p, pg, i), pg, s)
         /\ Busy(SetBusy(p, pg, i), pg) = Busy(p, pg) \cup {i}
         /\ \/ SetBusy(p, pg, i).bitmap[pg] = p.bitmap[pg]
            \/ SetBusy(p, pg, i).bitmap[pg] \subseteq 0 .. Chunks(s) - 1
<1> DEFINE q == SetBusy(p, pg, i)
<1>1. s \in MinShift .. PageShift - 1 /\ p.type[pg] = ClassOf(s)
  BY DEF Divided
<1>2. Chunks(s) \in Nat
  BY <1>1, ChunkRange
<1>3. i \in Int /\ i \in Nat
  BY <1>2
<1>4. CASE s < ExactShift
  <2>1. p.type[pg] = "SMALL" /\ SmallWord(p, pg, s)
    BY <1>1, <1>4, ClassNames DEF Divided
  <2> DEFINE b == p.bitmap[pg] \cup {i}
  <2>2. b \in SUBSET Int
    BY <1>3 DEF Pools
  <2>3. q = [p EXCEPT !.bitmap[pg] = b]
    BY <2>1 DEF SetBusy
  <2>4. SameBut(p, q, pg) /\ q.bitmap[pg] = b /\ q.slab = p.slab
    <3> HIDE DEF b, q
    <3> QED
      BY <2>2, <2>3 DEF Pools, SameBut
  <2>5. q.type[pg] = "SMALL"
    BY <2>1, <2>4 DEF SameBut
  <2> HIDE DEF q
  <2>6. SmallWord(q, pg, s)
    BY <2>1, <2>4 DEF SmallWord
  <2>7. Divided(q, pg, s)
    <3>1. ~(s = ExactShift) /\ ~(s > ExactShift)
      BY <1>4, ClassNames, ChunkRange, WordShape, <1>1
    <3> QED
      BY <2>1, <2>5, <2>6, <3>1, <1>1 DEF Divided
  <2>8. Busy(q, pg) = Busy(p, pg) \cup {i}
    BY <2>1, <2>4, <2>5 DEF Busy
  <2>9. q.bitmap[pg] \subseteq 0 .. Chunks(s) - 1
    BY <2>6 DEF SmallWord
  <2> QED
    BY <2>4, <2>7, <2>8, <2>9 DEF q
<1>5. CASE s = ExactShift
  <2>1. p.type[pg] = "EXACT" /\ Chunks(s) = WordBits /\ p.slab[pg] \in 0 .. AllOnes
    BY <1>1, <1>5, ClassNames, ChunkRange DEF Divided
  <2> DEFINE v == p.slab[pg]
             v2 == v + Pow2[i]
             n == WordBits
  <2>2. v \in 0 .. Pow2[n] - 1 /\ n \in Nat /\ i \in 0 .. n - 1 /\ v \in Nat
    BY <2>1, WordRange DEF AllOnes
  <2>3. Busy(p, pg) = {j \in 0 .. n - 1 : Bit(v, j)}
    BY <2>1 DEF Busy
  <2>4. ~Bit(v, i)
    BY <2>2, <2>3
  <2>5. v2 \in 0 .. Pow2[n] - 1 /\ \A j \in Nat : Bit(v2, j) <=> j = i \/ Bit(v, j)
    <3> HIDE DEF v, n
    <3> QED
      BY <2>2, <2>4, <1>3, BitBound, BitSet
  <2>6. q = [p EXCEPT !.slab[pg] = v2]
    BY <2>1 DEF SetBusy, BitValue
  <2>7. SameBut(p, q, pg) /\ q.slab[pg] = v2 /\ q.bitmap = p.bitmap
    <3>1. v2 \in Int
      BY <2>5
    <3> HIDE DEF v2
    <3> QED
      BY <2>6, <3>1, WriteWord
  <2>8. q.type[pg] = "EXACT"
    BY <2>1, <2>7 DEF SameBut
  <2> HIDE DEF q, v2
  <2>9. Divided(q, pg, s)
    <3>1. ~(s < ExactShift) /\ ~(s > ExactShift)
      BY <1>5, ClassNames, ChunkRange, WordShape, <1>1
    <3>2. q.slab[pg] \in 0 .. AllOnes
      BY <2>5, <2>7 DEF AllOnes
    <3> QED
      BY <2>1, <2>8, <3>1, <3>2, <1>1 DEF Divided
  <2>10. Busy(q, pg) = {j \in 0 .. n - 1 : Bit(v2, j)}
    BY <2>7, <2>8 DEF Busy
  <2>11. Busy(q, pg) = Busy(p, pg) \cup {i}
    <3>1. \A j \in 0 .. n - 1 : Bit(v2, j) <=> j = i \/ Bit(v, j)
      BY <2>5
    <3> HIDE DEF n, v
    <3> QED
      BY <2>2, <2>3, <2>10, <3>1
  <2> QED
    BY <2>7, <2>9, <2>11 DEF q
<1>6. CASE s > ExactShift
  <2>1. p.type[pg] = "BIG" /\ BigWord(p, pg, s)
    BY <1>1, <1>6, ClassNames DEF Divided
  <2>2. PICK w \in 0 .. Pow2[Chunks(s)] - 1 : p.slab[pg] = w * Pow2[MapShift] + s
    BY <2>1 DEF BigWord
  <2> DEFINE v == p.slab[pg]
             v2 == v + Pow2[MapShift + i]
             w2 == w + Pow2[i]
             c == Chunks(s)
             m == MapShift
  <2>3. c \in Nat /\ i \in 0 .. c - 1 /\ c <= m /\ m \in Nat
    BY <1>1, <1>2, <1>6, ChunkRange, WordShape
  <2>4. Busy(p, pg) = {j \in 0 .. m - 1 : Bit(v, m + j)}
    BY <2>1 DEF Busy
  <2>5. \A j \in Nat : Bit(v, m + j) <=> Bit(w, j)
    <3>1. v = w * Pow2[MapShift] + s
      BY <2>2
    <3> HIDE DEF v
    <3> QED
      BY <3>1, <1>1, <1>6, BigParts
  <2>6. ~Bit(w, i)
    <3>1. i \in 0 .. m - 1
      BY <2>3
    <3>2. ~Bit(v, m + i)
      BY <3>1, <2>4
    <3> HIDE DEF v, m
    <3> QED
      BY <3>2, <2>5, <1>3
  <2>7. w2 \in 0 .. Pow2[c] - 1 /\ \A j \in Nat : Bit(w2, j) <=> j = i \/ Bit(w, j)
    <3>1. w \in 0 .. Pow2[c] - 1 /\ w \in Nat
      <4>1. Pow2[c] \in Nat
        BY <2>3, PowDef
      <4> QED
        BY <4>1, <2>2
    <3> HIDE DEF c
    <3> QED
      BY <3>1, <2>3, <2>6, <1>3, BitBound, BitSet
  <2>8. v2 = w2 * Pow2[MapShift] + s
    <3> DEFINE a == Pow2[MapShift]
               b == Pow2[i]
    <3>1. Pow2[MapShift + i] = a * b /\ a \in Nat /\ b \in Nat
      BY <2>3, <1>3, PowAdd, PowDef
    <3>2. v2 = (w * a + s) + a * b
      BY <2>2, <3>1
    <3>3. w \in Int /\ s \in Int
      <4>1. Pow2[c] \in Nat
        BY <2>3, PowDef
      <4> QED
        BY <4>1, <2>2, <1>1, ChunkRange
    <3> HIDE DEF a, b, v2
    <3>4. (w * a + s) + a * b = (w + b) * a + s
      BY <3>1, <3>3
    <3> QED
      BY <3>2, <3>4 DEF a, b
  <2>9. \A j \in Nat : Bit(v2, m + j) <=> Bit(w2, j)
    <3>1. w2 \in 0 .. Pow2[Chunks(s)] - 1
      BY <2>7
    <3> HIDE DEF v2, w2
    <3> QED
      BY <3>1, <2>8, <1>1, <1>6, BigParts
  <2>10. v2 \in Int
    <3>1. Pow2[MapShift] \in Nat /\ w2 \in Nat /\ s \in Nat
      <4>1. Pow2[c] \in Nat
        BY <2>3, PowDef
      <4> QED
        BY <4>1, <2>7, <2>3, PowDef, <1>1, SlabAssumption
    <3> HIDE DEF v2, w2
    <3> QED
      BY <3>1, <2>8
  <2>11. q = [p EXCEPT !.slab[pg] = v2]
    BY <2>1 DEF SetBusy, BitValue
  <2>12. SameBut(p, q, pg) /\ q.slab[pg] = v2 /\ q.bitmap = p.bitmap
    <3> HIDE DEF v2
    <3> QED
      BY <2>10, <2>11, WriteWord
  <2>13. q.type[pg] = "BIG"
    BY <2>1, <2>12 DEF SameBut
  <2> HIDE DEF q, v2, w2
  <2>14. BigWord(q, pg, s)
    BY <2>7, <2>8, <2>12 DEF BigWord
  <2>15. Divided(q, pg, s)
    <3>1. ~(s < ExactShift) /\ ~(s = ExactShift)
      BY <1>6, ClassNames, ChunkRange, WordShape, <1>1
    <3> QED
      BY <2>1, <2>13, <2>14, <3>1, <1>1 DEF Divided
  <2>16. Busy(q, pg) = {j \in 0 .. m - 1 : Bit(v2, m + j)}
    BY <2>12, <2>13 DEF Busy
  <2>17. Busy(q, pg) = Busy(p, pg) \cup {i}
    <3>1. \A j \in 0 .. m - 1 : Bit(v2, m + j) <=> j = i \/ Bit(v, m + j)
      <4> TAKE j \in 0 .. m - 1
      <4>1. j \in Nat
        OBVIOUS
      <4> HIDE DEF v, m
      <4> QED
        BY <4>1, <2>5, <2>7, <2>9
    <3>2. i \in 0 .. m - 1
      BY <2>3
    <3> HIDE DEF m, v
    <3> QED
      BY <2>4, <2>16, <3>1, <3>2
  <2> QED
    BY <2>12, <2>15, <2>17 DEF q
<1> QED
  BY <1>1, <1>4, <1>5, <1>6, ClassNames

\* Clearing a busy chunk makes it vacant and no other, whatever the class.
LEMMA ClearDivided ==
  ASSUME NEW p \in Pools, NEW pg \in Page, NEW s, Divided(p, pg, s),
         NEW i \in Busy(p, pg), i \notin Reserved(s)
  PROVE  /\ SameBut(p, ClearBusy(p, pg, i), pg)
         /\ Divided(ClearBusy(p, pg, i), pg, s)
         /\ Busy(ClearBusy(p, pg, i), pg) = Busy(p, pg) \ {i}
         /\ \/ ClearBusy(p, pg, i).bitmap[pg] = p.bitmap[pg]
            \/ ClearBusy(p, pg, i).bitmap[pg] \subseteq 0 .. Chunks(s) - 1
<1> DEFINE q == ClearBusy(p, pg, i)
<1>1. s \in MinShift .. PageShift - 1 /\ p.type[pg] = ClassOf(s)
  BY DEF Divided
<1>2. Chunks(s) \in Nat /\ i \in 0 .. Chunks(s) - 1
  BY <1>1, ChunkRange, BusyRange
<1>3. i \in Int /\ i \in Nat
  BY <1>2
<1>4. CASE s < ExactShift
  <2>1. p.type[pg] = "SMALL" /\ SmallWord(p, pg, s)
    BY <1>1, <1>4, ClassNames DEF Divided
  <2> DEFINE b == p.bitmap[pg] \ {i}
  <2>2. b \in SUBSET Int
    BY <1>3 DEF Pools
  <2>3. q = [p EXCEPT !.bitmap[pg] = b]
    BY <2>1 DEF ClearBusy
  <2>4. SameBut(p, q, pg) /\ q.bitmap[pg] = b /\ q.slab = p.slab
    <3> HIDE DEF b, q
    <3> QED
      BY <2>2, <2>3 DEF Pools, SameBut
  <2>5. q.type[pg] = "SMALL"
    BY <2>1, <2>4 DEF SameBut
  <2> HIDE DEF q
  <2>6. SmallWord(q, pg, s)
    BY <2>1, <2>4 DEF SmallWord
  <2>7. Divided(q, pg, s)
    <3>1. ~(s = ExactShift) /\ ~(s > ExactShift)
      BY <1>4, ClassNames, ChunkRange, WordShape, <1>1
    <3> QED
      BY <2>1, <2>5, <2>6, <3>1, <1>1 DEF Divided
  <2>8. Busy(q, pg) = Busy(p, pg) \ {i}
    BY <2>1, <2>4, <2>5 DEF Busy
  <2>9. q.bitmap[pg] \subseteq 0 .. Chunks(s) - 1
    BY <2>6 DEF SmallWord
  <2> QED
    BY <2>4, <2>7, <2>8, <2>9 DEF q
<1>5. CASE s = ExactShift
  <2>1. p.type[pg] = "EXACT" /\ Chunks(s) = WordBits /\ p.slab[pg] \in 0 .. AllOnes
    BY <1>1, <1>5, ClassNames, ChunkRange DEF Divided
  <2> DEFINE v == p.slab[pg]
             v2 == v - Pow2[i]
             n == WordBits
  <2>2. v \in 0 .. Pow2[n] - 1 /\ n \in Nat /\ i \in 0 .. n - 1 /\ v \in Nat
    BY <2>1, <1>2, WordRange DEF AllOnes
  <2>3. Busy(p, pg) = {j \in 0 .. n - 1 : Bit(v, j)}
    BY <2>1 DEF Busy
  <2>4. Bit(v, i)
    BY <2>3
  <2>5. v2 \in Nat /\ \A j \in Nat : Bit(v2, j) <=> j # i /\ Bit(v, j)
    <3> HIDE DEF v, n
    <3> QED
      BY <2>2, <2>4, <1>3, BitClear
  <2>6. v2 \in 0 .. Pow2[n] - 1
    <3>1. Pow2[i] \in Nat
      BY <1>3, PowDef
    <3>2. Pow2[n] \in Nat
      BY <2>2, PowDef
    <3> HIDE DEF v, n
    <3> QED
      BY <2>2, <2>5, <3>1, <3>2
  <2>7. q = [p EXCEPT !.slab[pg] = v2]
    BY <2>1 DEF ClearBusy, BitValue
  <2>8. SameBut(p, q, pg) /\ q.slab[pg] = v2 /\ q.bitmap = p.bitmap
    <3>1. v2 \in Int
      BY <2>5
    <3> HIDE DEF v2
    <3> QED
      BY <2>7, <3>1, WriteWord
  <2>9. q.type[pg] = "EXACT"
    BY <2>1, <2>8 DEF SameBut
  <2> HIDE DEF q, v2
  <2>10. Divided(q, pg, s)
    <3>1. ~(s < ExactShift) /\ ~(s > ExactShift)
      BY <1>5, ClassNames, ChunkRange, WordShape, <1>1
    <3>2. q.slab[pg] \in 0 .. AllOnes
      BY <2>6, <2>8 DEF AllOnes
    <3> QED
      BY <2>1, <2>9, <3>1, <3>2, <1>1 DEF Divided
  <2>11. Busy(q, pg) = {j \in 0 .. n - 1 : Bit(v2, j)}
    BY <2>8, <2>9 DEF Busy
  <2>12. Busy(q, pg) = Busy(p, pg) \ {i}
    <3>1. \A j \in 0 .. n - 1 : Bit(v2, j) <=> j # i /\ Bit(v, j)
      BY <2>5
    <3> HIDE DEF n, v
    <3> QED
      BY <2>2, <2>3, <2>11, <3>1
  <2> QED
    BY <2>8, <2>10, <2>12 DEF q
<1>6. CASE s > ExactShift
  <2>1. p.type[pg] = "BIG" /\ BigWord(p, pg, s)
    BY <1>1, <1>6, ClassNames DEF Divided
  <2>2. PICK w \in 0 .. Pow2[Chunks(s)] - 1 : p.slab[pg] = w * Pow2[MapShift] + s
    BY <2>1 DEF BigWord
  <2> DEFINE v == p.slab[pg]
             v2 == v - Pow2[MapShift + i]
             w2 == w - Pow2[i]
             c == Chunks(s)
             m == MapShift
  <2>3. c \in Nat /\ i \in 0 .. c - 1 /\ c <= m /\ m \in Nat
    BY <1>1, <1>2, <1>6, ChunkRange, WordShape
  <2>4. Busy(p, pg) = {j \in 0 .. m - 1 : Bit(v, m + j)}
    BY <2>1 DEF Busy
  <2>5. \A j \in Nat : Bit(v, m + j) <=> Bit(w, j)
    <3>1. v = w * Pow2[MapShift] + s
      BY <2>2
    <3> HIDE DEF v
    <3> QED
      BY <3>1, <1>1, <1>6, BigParts
  <2>6. Bit(w, i)
    <3>1. i \in 0 .. m - 1
      BY <2>3
    <3>2. Bit(v, m + i)
      BY <3>1, <2>4
    <3> HIDE DEF v, m
    <3> QED
      BY <3>2, <2>5, <1>3
  <2>7. w2 \in 0 .. Pow2[c] - 1 /\ \A j \in Nat : Bit(w2, j) <=> j # i /\ Bit(w, j)
    <3>1. w \in 0 .. Pow2[c] - 1 /\ w \in Nat /\ Pow2[c] \in Nat
      <4>1. Pow2[c] \in Nat
        BY <2>3, PowDef
      <4> QED
        BY <4>1, <2>2
    <3>2. w2 \in Nat /\ \A j \in Nat : Bit(w2, j) <=> j # i /\ Bit(w, j)
      BY <3>1, <2>6, <1>3, BitClear
    <3>3. Pow2[i] \in Nat
      BY <1>3, PowDef
    <3> HIDE DEF c
    <3> QED
      BY <3>1, <3>2, <3>3
  <2>8. v2 = w2 * Pow2[MapShift] + s
    <3> DEFINE a == Pow2[MapShift]
               b == Pow2[i]
    <3>1. Pow2[MapShift + i] = a * b /\ a \in Nat /\ b \in Nat
      BY <2>3, <1>3, PowAdd, PowDef
    <3>2. v2 = (w * a + s) - a * b
      BY <2>2, <3>1
    <3>3. w \in Int /\ s \in Int
      <4>1. Pow2[c] \in Nat
        BY <2>3, PowDef
      <4> QED
        BY <4>1, <2>2, <1>1, ChunkRange
    <3> HIDE DEF a, b, v2
    <3>4. (w * a + s) - a * b = (w - b) * a + s
      BY <3>1, <3>3
    <3> QED
      BY <3>2, <3>4 DEF a, b
  <2>9. \A j \in Nat : Bit(v2, m + j) <=> Bit(w2, j)
    <3>1. w2 \in 0 .. Pow2[Chunks(s)] - 1
      BY <2>7
    <3> HIDE DEF v2, w2
    <3> QED
      BY <3>1, <2>8, <1>1, <1>6, BigParts
  <2>10. v2 \in Int
    <3>1. Pow2[MapShift] \in Nat /\ w2 \in Nat /\ s \in Nat
      <4>1. Pow2[c] \in Nat
        BY <2>3, PowDef
      <4> QED
        BY <4>1, <2>7, <2>3, PowDef, <1>1, SlabAssumption
    <3> HIDE DEF v2, w2
    <3> QED
      BY <3>1, <2>8
  <2>11. q = [p EXCEPT !.slab[pg] = v2]
    BY <2>1 DEF ClearBusy, BitValue
  <2>12. SameBut(p, q, pg) /\ q.slab[pg] = v2 /\ q.bitmap = p.bitmap
    <3> HIDE DEF v2
    <3> QED
      BY <2>10, <2>11, WriteWord
  <2>13. q.type[pg] = "BIG"
    BY <2>1, <2>12 DEF SameBut
  <2> HIDE DEF q, v2, w2
  <2>14. BigWord(q, pg, s)
    BY <2>7, <2>8, <2>12 DEF BigWord
  <2>15. Divided(q, pg, s)
    <3>1. ~(s < ExactShift) /\ ~(s = ExactShift)
      BY <1>6, ClassNames, ChunkRange, WordShape, <1>1
    <3> QED
      BY <2>1, <2>13, <2>14, <3>1, <1>1 DEF Divided
  <2>16. Busy(q, pg) = {j \in 0 .. m - 1 : Bit(v2, m + j)}
    BY <2>12, <2>13 DEF Busy
  <2>17. Busy(q, pg) = Busy(p, pg) \ {i}
    <3>1. \A j \in 0 .. m - 1 : Bit(v2, m + j) <=> j # i /\ Bit(v, m + j)
      <4> TAKE j \in 0 .. m - 1
      <4>1. j \in Nat
        OBVIOUS
      <4> HIDE DEF v, m
      <4> QED
        BY <4>1, <2>5, <2>7, <2>9
    <3>2. i \in 0 .. m - 1
      BY <2>3
    <3> HIDE DEF m, v
    <3> QED
      BY <2>4, <2>16, <3>1, <3>2
  <2> QED
    BY <2>12, <2>15, <2>17 DEF q
<1> QED
  BY <1>1, <1>4, <1>5, <1>6, ClassNames

\* A page is divided with its bitmap's chunks and one more busy.
LEMMA FirstDivided ==
  ASSUME NEW p \in Pools, NEW pg \in Page, NEW s \in MinShift .. PageShift - 1,
         p.type[pg] = ClassOf(s), p.slab[pg] = FirstSlab(s),
         s < ExactShift => p.bitmap[pg] = 0 .. Cardinality(Reserved(s))
  PROVE  /\ Divided(p, pg, s)
         /\ Busy(p, pg) = 0 .. Cardinality(Reserved(s))
         /\ Cardinality(Reserved(s)) \in 0 .. Chunks(s) - 2
         /\ Reserved(s) = 0 .. Cardinality(Reserved(s)) - 1
<1>1. PICK n \in Nat :
        /\ Reserved(s) = 0 .. n - 1
        /\ Cardinality(Reserved(s)) = n
        /\ n + 1 < Chunks(s) \/ (n = 0 /\ Chunks(s) >= 2)
        /\ s < ExactShift => n >= 1
        /\ s >= ExactShift => n = 0
  BY ReservedShape
<1>2. Chunks(s) \in Nat \ {0, 1} /\ s \in Nat
  BY ChunkRange, SlabAssumption
<1>3. n \in 0 .. Chunks(s) - 2
  BY <1>1, <1>2
<1>4. CASE s < ExactShift
  <2>1. p.type[pg] = "SMALL" /\ FirstSlab(s) = s
    BY <1>4, ClassNames DEF FirstSlab
  <2>2. SmallWord(p, pg, s)
    BY <2>1, <1>1, <1>2, <1>3, <1>4 DEF SmallWord
  <2>3. Divided(p, pg, s)
    <3>1. ~(s = ExactShift) /\ ~(s > ExactShift)
      BY <1>4, ChunkRange, WordShape
    <3> QED
      BY <2>2, <3>1 DEF Divided
  <2>4. Busy(p, pg) = 0 .. n
    BY <2>1, <1>1, <1>4 DEF Busy
  <2> QED
    BY <2>3, <2>4, <1>1, <1>3
<1>5. CASE s = ExactShift
  <2>1. p.type[pg] = "EXACT" /\ p.slab[pg] = 1 /\ Chunks(s) = WordBits
    BY <1>5, ClassNames, ChunkRange DEF FirstSlab
  <2>2. 1 \in 0 .. AllOnes
    BY WordRange
  <2>3. Divided(p, pg, s)
    <3>1. ~(s < ExactShift) /\ ~(s > ExactShift)
      BY <1>5, ChunkRange, WordShape
    <3> QED
      BY <2>1, <2>2, <3>1 DEF Divided
  <2>4. n = 0
    BY <1>1, <1>5, ChunkRange, WordShape
  <2>5. WordBits \in Nat \ {0, 1}
    BY WordRange
  <2>6. Busy(p, pg) = {j \in 0 .. WordBits - 1 : Bit(1, j)}
    BY <2>1 DEF Busy
  <2>7. \A j \in Nat : Bit(1, j) <=> j = 0
    BY BitOne
  <2>8. Busy(p, pg) = 0 .. 0
    <3>1. \A j \in 0 .. WordBits - 1 : j \in Nat
      BY <2>5
    <3>2. \A j \in 0 .. WordBits - 1 : Bit(1, j) <=> j = 0
      BY <3>1, <2>7
    <3>3. Busy(p, pg) = {j \in 0 .. WordBits - 1 : j = 0}
      BY <2>6, <3>2
    <3> QED
      BY <2>5, <3>3
  <2> QED
    BY <2>3, <2>4, <2>8, <1>1, <1>3
<1>6. CASE s > ExactShift
  <2>1. p.type[pg] = "BIG" /\ p.slab[pg] = Pow2[MapShift] + s /\ Chunks(s) <= MapShift
    BY <1>6, ClassNames, ChunkRange DEF FirstSlab
  <2>2. Pow2[MapShift] \in Nat /\ MapShift \in Nat \ {0}
    BY WordShape, PowDef
  <2>3. 1 \in 0 .. Pow2[Chunks(s)] - 1
    <3>1. Chunks(s) \in Nat /\ 0 \in Nat /\ 0 < Chunks(s)
      BY <1>2
    <3>2. Pow2[0] < Pow2[Chunks(s)] /\ Pow2[0] = 1 /\ Pow2[Chunks(s)] \in Nat
      BY <3>1, PowOrder, PowDef
    <3> QED
      BY <3>2
  <2>4. p.slab[pg] = 1 * Pow2[MapShift] + s
    BY <2>1, <2>2
  <2>5. Divided(p, pg, s)
    <3>1. ~(s < ExactShift) /\ ~(s = ExactShift)
      BY <1>6, ChunkRange, WordShape
    <3>2. BigWord(p, pg, s)
      BY <2>3, <2>4 DEF BigWord
    <3> QED
      BY <3>1, <3>2 DEF Divided
  <2>6. n = 0
    BY <1>1, <1>6, ChunkRange, WordShape
  <2>7. Busy(p, pg) = {j \in 0 .. MapShift - 1 : Bit(p.slab[pg], MapShift + j)}
    BY <2>1 DEF Busy
  <2>8. \A j \in Nat : Bit(p.slab[pg], MapShift + j) <=> Bit(1, j)
    <3> DEFINE v == p.slab[pg]
               w == 1
    <3>1. w \in 0 .. Pow2[Chunks(s)] - 1 /\ v = w * Pow2[MapShift] + s
      BY <2>3, <2>4
    <3>2. \A i \in Nat : Bit(v, MapShift + i) <=> Bit(w, i)
      <4> HIDE DEF v, w
      <4> QED
        BY <3>1, <1>6, BigParts
    <3> QED
      BY <3>2
  <2>9. \A j \in Nat : Bit(1, j) <=> j = 0
    BY BitOne
  <2>10. Busy(p, pg) = 0 .. 0
    <3>1. \A j \in 0 .. MapShift - 1 : j \in Nat
      BY <2>2
    <3>2. \A j \in 0 .. MapShift - 1 : Bit(p.slab[pg], MapShift + j) <=> j = 0
      BY <3>1, <2>8, <2>9
    <3>3. Busy(p, pg) = {j \in 0 .. MapShift - 1 : j = 0}
      BY <2>7, <3>2
    <3> QED
      BY <2>2, <3>3
  <2> QED
    BY <2>5, <2>6, <2>10, <1>1, <1>3
<1> QED
  BY <1>4, <1>5, <1>6, ClassNames

-----------------------------------------------------------------------------
(* The sound pool, and runs of pages taken and given back.                 *)

\* The links and the types of a run of pages cleared, and the words rewritten.
ResetRun(p, slab, run) ==
  [p EXCEPT !.slab = slab,
            !.next = [i \in Page \cup Head |-> IF i \in run THEN Null ELSE p.next[i]],
            !.prev = [i \in Page |-> IF i \in run THEN Null ELSE p.prev[i]],
            !.type = [i \in Page |-> IF i \in run THEN "PAGE" ELSE p.type[i]]]

\* The pages of a run can be reset when they are in no list.
Resettable(own, slab, run) ==
  /\ slab \in [Page -> Int]
  /\ run \subseteq Page
  /\ \A pg \in run : own[pg] = Null

\* The types once a run is reset.
ResetType(type, run) == [i \in Page |-> IF i \in run THEN "PAGE" ELSE type[i]]

\* Resetting pages that are in no list leaves the lists linked.
LEMMA ResetListed ==
  ASSUME NEW p \in Pools, NEW own, NEW rank, NEW out, Listed(p, own, rank, out),
         NEW slab, NEW run, Resettable(own, slab, run)
  PROVE  /\ ResetRun(p, slab, run) \in Pools
         /\ Listed(ResetRun(p, slab, run), own, rank, out \ run)
         /\ ResetRun(p, slab, run).slab = slab
         /\ ResetRun(p, slab, run).type = ResetType(p.type, run)
         /\ ResetRun(p, slab, run).bitmap = p.bitmap
<1> DEFINE next == p.next
           prev == p.prev
           n == [i \in Page \cup Head |-> IF i \in Page /\ i \in run THEN Null ELSE next[i]]
           v == [i \in Page |-> IF i \in run THEN Null ELSE prev[i]]
           q == ResetRun(p, slab, run)
           o == out \ run
           t == [i \in Page |-> IF i \in run THEN "PAGE" ELSE p.type[i]]
<1>1. Linked(next, prev, own, rank, out)
  BY DEF Listed
<1>2. \A pg \in Page : pg \in run => own[pg] = Null
  BY DEF Resettable
<1>3. Linked(n, v, own, rank, o)
  <2> HIDE DEF next, prev
  <2> QED
    BY <1>1, <1>2, ResetLinked
<1>4. n = [i \in Page \cup Head |-> IF i \in run THEN Null ELSE p.next[i]]
  BY DEF Resettable
<1>5. n \in [Page \cup Head -> Page \cup Head \cup {Null}] /\ v \in [Page -> Page \cup Head \cup {Null}]
  BY <1>3 DEF Linked
<1>6. t \in [Page -> Type]
  BY DEF Pools, Type
<1>7. q = [p EXCEPT !.slab = slab, !.next = n, !.prev = v, !.type = t]
  BY <1>4 DEF ResetRun
<1>8. t = ResetType(p.type, run)
  BY DEF ResetType
<1> HIDE DEF q, n, v, o, t
<1>9. /\ q \in Pools
      /\ q.slab = slab
      /\ q.next = n
      /\ q.prev = v
      /\ q.type = t
      /\ q.bitmap = p.bitmap
  BY <1>5, <1>6, <1>7 DEF Pools, Resettable
<1>10. Listed(q, own, rank, o)
  BY <1>3, <1>9 DEF Listed
<1> QED
  BY <1>8, <1>9, <1>10 DEF q, o

-----------------------------------------------------------------------------

\* The vacant chunks of a page cut into chunks of 1 << s bytes.
Room(p, pg, s) == (0 .. Chunks(s) - 1) \ Busy(p, pg)

\* What a page can be, by its span: inside an extent, the head of a free run
\* or of one handed out, or cut into chunks.
InsideAt(p, own, span, pg) ==
  /\ p.type[pg] = "PAGE"
  /\ span[pg] = 0
  /\ p.slab[pg] \in {0, AllOnes}
  /\ own[pg] = Null
FreeAt(p, own, span, pg) ==
  /\ p.type[pg] = "PAGE"
  /\ span[pg] \in 1 .. Pages
  /\ p.slab[pg] = span[pg]
  /\ own[pg] = FreeHead
BusyAt(p, own, span, pg) ==
  /\ p.type[pg] = "PAGE"
  /\ span[pg] \in 1 .. Pages
  /\ p.slab[pg] = RunStart + span[pg]
  /\ own[pg] = Null
CutAt(p, own, span, pg) ==
  \E s \in MinShift .. PageShift - 1 :
    /\ Divided(p, pg, s)
    /\ span[pg] = 1
    /\ own[pg] = IF Room(p, pg, s) = {} THEN Null ELSE SlotOf(s)
PageOK(p, own, span, pg) ==
  \/ InsideAt(p, own, span, pg)
  \/ FreeAt(p, own, span, pg)
  \/ BusyAt(p, own, span, pg)
  \/ CutAt(p, own, span, pg)

(***************************************************************************)
(* A sound pool: every page is in its owner's list, the extents tile the    *)
(* table, and each page's word, type and list agree on what it is.          *)
(***************************************************************************)
Sound(p, own, rank, span, home) ==
  /\ p \in Pools
  /\ Listed(p, own, rank, {})
  /\ Tiled(span, home)
  /\ \A pg \in Page : PageOK(p, own, span, pg)
  /\ \A pg \in Page : p.bitmap[pg] \subseteq 0 .. Chunks(MinShift) - 1

\* What a page is depends on its own fields only.
LEMMA PageKept ==
  ASSUME NEW p \in Pools, NEW q \in Pools, NEW own, NEW w, NEW span, NEW s, NEW pg \in Page,
         PageOK(p, own, span, pg),
         q.type[pg] = p.type[pg], q.slab[pg] = p.slab[pg], q.bitmap[pg] = p.bitmap[pg],
         w[pg] = own[pg], s[pg] = span[pg]
  PROVE  PageOK(q, w, s, pg)
<1>1. CASE InsideAt(p, own, span, pg)
  BY <1>1 DEF InsideAt, PageOK
<1>2. CASE FreeAt(p, own, span, pg)
  BY <1>2 DEF FreeAt, PageOK
<1>3. CASE BusyAt(p, own, span, pg)
  BY <1>3 DEF BusyAt, PageOK
<1>4. CASE CutAt(p, own, span, pg)
  <2>1. PICK c \in MinShift .. PageShift - 1 :
          /\ Divided(p, pg, c)
          /\ span[pg] = 1
          /\ own[pg] = IF Room(p, pg, c) = {} THEN Null ELSE SlotOf(c)
    BY <1>4 DEF CutAt
  <2>2. Divided(q, pg, c)
    BY <2>1 DEF Divided, SmallWord, BigWord
  <2>3. Busy(q, pg) = Busy(p, pg)
    BY DEF Busy
  <2>4. Room(q, pg, c) = Room(p, pg, c)
    BY <2>3 DEF Room
  <2>5. CutAt(q, w, s, pg)
    BY <2>1, <2>2, <2>4 DEF CutAt
  <2> QED
    BY <2>5 DEF PageOK
<1> QED
  BY <1>1, <1>2, <1>3, <1>4 DEF PageOK

\* What the type, the span and the owner of a page say it is.
LEMMA PageIs ==
  ASSUME NEW p \in Pools, NEW own, NEW span, NEW pg \in Page, PageOK(p, own, span, pg)
  PROVE  /\ own[pg] = FreeHead => FreeAt(p, own, span, pg)
         /\ span[pg] = 0 => InsideAt(p, own, span, pg)
         /\ p.type[pg] = "PAGE" => InsideAt(p, own, span, pg) \/ FreeAt(p, own, span, pg)
                                     \/ BusyAt(p, own, span, pg)
         /\ p.type[pg] # "PAGE" => CutAt(p, own, span, pg)
<1>1. ASSUME CutAt(p, own, span, pg)
      PROVE  own[pg] # FreeHead /\ span[pg] = 1 /\ p.type[pg] # "PAGE"
  <2>1. PICK c \in MinShift .. PageShift - 1 :
          /\ Divided(p, pg, c)
          /\ span[pg] = 1
          /\ own[pg] = IF Room(p, pg, c) = {} THEN Null ELSE SlotOf(c)
    BY <1>1 DEF CutAt
  <2>2. p.type[pg] # "PAGE"
    BY <2>1, DividedShift
  <2>3. SlotOf(c) # FreeHead /\ Null # FreeHead
    BY NodeShape
  <2> QED
    BY <2>1, <2>2, <2>3
<1>2. Null # FreeHead
  BY NodeShape
<1> QED
  BY <1>1, <1>2 DEF PageOK, InsideAt, FreeAt, BusyAt

\* Taking n pages off a free run, or all of it, leaves a sound pool with a run handed out.
LEMMA TakeRunSound ==
  ASSUME NEW p, NEW own, NEW rank, NEW span, NEW home, Sound(p, own, rank, span, home),
         NEW pg \in Page, own[pg] = FreeHead, NEW n \in Nat \ {0}, n <= p.slab[pg]
  PROVE  \E w, r, s, m :
           /\ Sound(TakeRun(p, pg, n), w, r, s, m)
           /\ BusyAt(TakeRun(p, pg, n), w, s, pg)
           /\ s[pg] = n
           /\ TakeRun(p, pg, n).bitmap = p.bitmap
           /\ \A x \in Page \ {pg} :
                \/ /\ TakeRun(p, pg, n).type[x] = p.type[x]
                   /\ TakeRun(p, pg, n).slab[x] = p.slab[x]
                   /\ w[x] = own[x]
                \/ /\ InsideAt(p, own, span, x)
                   /\ InsideAt(TakeRun(p, pg, n), w, s, x) \/ FreeAt(TakeRun(p, pg, n), w, s, x)
<1> DEFINE q == TakeRun(p, pg, n)
           run == pg .. pg + n - 1
           all == span[pg]
           rest == pg + n
           cut == all > n
           w == IF cut THEN [own EXCEPT ![pg] = Null, ![rest] = own[pg]] ELSE [own EXCEPT ![pg] = Null]
           s == IF cut THEN [span EXCEPT ![pg] = n, ![rest] = all - n] ELSE span
           m == IF cut THEN [x \in Page |-> IF rest <= x /\ x < pg + all THEN rest ELSE home[x]]
                       ELSE home
           t == IF cut THEN Split(p, pg, n) ELSE Unlink(p, pg)
           slab == [i \in Page |-> IF i = pg THEN RunStart + n
                                   ELSE IF i \in run THEN AllOnes ELSE t.slab[i]]
<1>1. /\ p \in Pools
      /\ Listed(p, own, rank, {})
      /\ Tiled(span, home)
      /\ \A x \in Page : PageOK(p, own, span, x)
      /\ \A x \in Page : p.bitmap[x] \subseteq 0 .. Chunks(MinShift) - 1
  BY DEF Sound
<1>2. FreeAt(p, own, span, pg)
  BY <1>1, PageIs
<1>3. all \in 1 .. Pages /\ p.slab[pg] = all /\ n <= all /\ p.type[pg] = "PAGE"
  BY <1>2 DEF FreeAt
<1>4. Page = 0 .. Pages - 1 /\ Pages \in Nat \ {0} /\ FreeHead # Null
  BY NodeShape
<1>5. own \in [Page -> Head \cup {Null}] /\ span \in [Page -> 0 .. Pages]
  BY <1>1 DEF Listed, Linked, Tiled
<1>6. \A x \in Int : pg < x /\ x < pg + all => x \in Page /\ InsideAt(p, own, span, x)
  <2> SUFFICES ASSUME NEW x \in Int, pg < x, x < pg + span[pg]
               PROVE  x \in Page /\ InsideAt(p, own, span, x)
    OBVIOUS
  <2>1. x \in Page /\ span[x] = 0
    BY <1>1, InsideExtent
  <2> QED
    BY <2>1, <1>1, PageIs
<1>7. cut => rest \in Int /\ pg < rest /\ rest < pg + all
  BY <1>3, <1>4
<1>8. cut => rest \in Page /\ rest # pg /\ InsideAt(p, own, span, rest)
  BY <1>6, <1>7, <1>4
<1>9. pg \in run /\ run \subseteq Page /\ \A x \in run : x # pg => InsideAt(p, own, span, x)
  <2>1. \A x \in run : x \in Int /\ (x = pg \/ (pg < x /\ x < pg + all))
    BY <1>3, <1>4
  <2>2. pg \in run
    BY <1>4
  <2> HIDE DEF run, all
  <2> QED
    BY <2>1, <2>2, <1>6
<1>10. cut => rest \notin run
  BY <1>4
<1>11. /\ w \in [Page -> Head \cup {Null}]
       /\ w[pg] = Null
       /\ cut => w[rest] = FreeHead
       /\ \A x \in Page : x # pg /\ ~(cut /\ x = rest) => w[x] = own[x]
  <2> HIDE DEF rest, all
  <2> QED
    BY <1>5, <1>8
<1>12. /\ s[pg] = n
       /\ cut => s[rest] = all - n
       /\ \A x \in Page : x # pg /\ ~(cut /\ x = rest) => s[x] = span[x]
  <2>1. all = span[pg]
    OBVIOUS
  <2> HIDE DEF rest, all
  <2> QED
    BY <2>1, <1>3, <1>5, <1>8
<1>13. Tiled(s, m)
  <2>1. CASE cut
    <3>1. n < span[pg]
      BY <2>1, <1>3
    <3>2. Tiled([span EXCEPT ![pg] = n, ![pg + n] = span[pg] - n],
               [x \in Page |-> IF pg + n <= x /\ x < pg + span[pg] THEN pg + n ELSE home[x]])
      BY <3>1, <1>1, SplitTiled
    <3> QED
      BY <2>1, <3>2
  <2>2. CASE ~cut
    BY <2>2, <1>1
  <2> QED
    BY <2>1, <2>2
<1>14. /\ t \in Pools
       /\ \E r : Listed(t, w, r, {pg})
       /\ cut => t.slab = [p.slab EXCEPT ![rest] = all - n]
       /\ ~cut => t.slab = p.slab
       /\ t.type = p.type
       /\ t.bitmap = p.bitmap
  <2> DEFINE none == {}
  <2>1. none \cup {pg} = {pg} /\ own[pg] # Null /\ Listed(p, own, rank, none)
    BY <1>1, <1>4
  <2>2. CASE cut
    <3>1. Splits(own, pg, n, rest)
      BY <2>1, <2>2, <1>8 DEF InsideAt, Splits
    <3>2. /\ Split(p, pg, n) \in Pools
          /\ \E r : Listed(Split(p, pg, n), SplitOwn(own, pg, rest), r, none \cup {pg})
          /\ Split(p, pg, n).slab = SplitSlab(p.slab, pg, n, rest)
          /\ Split(p, pg, n).type = p.type
          /\ Split(p, pg, n).bitmap = p.bitmap
      <4> HIDE DEF none, rest
      <4> QED
        BY <2>1, <3>1, <1>1, SplitListed
    <3> QED
      BY <2>1, <2>2, <3>2, <1>3 DEF SplitOwn, SplitSlab
  <2>3. CASE ~cut
    <3>1. /\ Unlink(p, pg) \in Pools
          /\ Listed(Unlink(p, pg), Owned(own, pg, Null), rank, none \cup {pg})
          /\ Unlink(p, pg).slab = p.slab
          /\ Unlink(p, pg).type = p.type
          /\ Unlink(p, pg).bitmap = p.bitmap
      <4> HIDE DEF none
      <4> QED
        BY <2>1, <1>1, UnlinkListed
    <3> QED
      BY <2>1, <2>3, <3>1 DEF Owned
  <2> QED
    BY <2>2, <2>3
<1>15. PICK r : Listed(t, w, r, {pg})
  BY <1>14
<1>16. q = ResetRun(t, slab, run)
  <2>1. t = IF p.slab[pg] > n THEN Split(p, pg, n) ELSE Unlink(p, pg)
    BY <1>3
  <2> HIDE DEF t
  <2> QED
    BY <2>1 DEF TakeRun, ResetRun
<1> HIDE DEF t, w, s, m, q
<1>17. slab \in [Page -> Int]
  BY <1>14, WordRange DEF Pools
<1>18. \A x \in run : w[x] = Null
  <2> SUFFICES ASSUME NEW x \in run
               PROVE  w[x] = Null
    OBVIOUS
  <2>1. CASE x = pg
    BY <2>1, <1>11
  <2>2. CASE x # pg
    <3>1. own[x] = Null /\ x \in Page /\ ~(cut /\ x = rest)
      BY <2>2, <1>9, <1>10 DEF InsideAt
    <3> QED
      BY <2>2, <3>1, <1>11
  <2> QED
    BY <2>1, <2>2
<1>19. \A x \in Page : slab[x] = IF x = pg THEN RunStart + n
                                 ELSE IF x \in run THEN AllOnes ELSE t.slab[x]
  OBVIOUS
<1> HIDE DEF slab, run
<1>20. /\ q \in Pools
       /\ Listed(q, w, r, {pg} \ run)
       /\ q.slab = slab
       /\ \A x \in Page : q.type[x] = IF x \in run THEN "PAGE" ELSE t.type[x]
       /\ q.bitmap = t.bitmap
  <2> DEFINE o == {pg}
  <2> HIDE DEF o
  <2>1. Listed(t, w, r, o)
    BY <1>15 DEF o
  <2>2. /\ ResetRun(t, slab, run) \in Pools
        /\ Listed(ResetRun(t, slab, run), w, r, o \ run)
        /\ ResetRun(t, slab, run).slab = slab
        /\ ResetRun(t, slab, run).type = ResetType(t.type, run)
        /\ ResetRun(t, slab, run).bitmap = t.bitmap
    <3>1. Resettable(w, slab, run)
      BY <1>9, <1>17, <1>18 DEF Resettable
    <3>2. t \in Pools
      BY <1>14
    <3> QED
      BY <2>1, <3>1, <3>2, ResetListed
  <2> QED
    BY <2>2, <1>16 DEF o, ResetType
<1>21. Listed(q, w, r, {})
  <2>1. {pg} \ run = {}
    BY <1>9
  <2> QED
    BY <2>1, <1>20
<1>22. BusyAt(q, w, s, pg)
  <2>1. n \in 1 .. Pages
    BY <1>3, <1>4
  <2> QED
    BY <2>1, <1>9, <1>11, <1>12, <1>19, <1>20 DEF BusyAt
<1>23. ASSUME NEW x \in Page \ {pg}
       PROVE  /\ PageOK(q, w, s, x)
              /\ \/ /\ q.type[x] = p.type[x]
                    /\ q.slab[x] = p.slab[x]
                    /\ w[x] = own[x]
                 \/ /\ InsideAt(p, own, span, x)
                    /\ InsideAt(q, w, s, x) \/ FreeAt(q, w, s, x)
  <2>1. CASE x \in run
    <3>1. InsideAt(p, own, span, x) /\ ~(cut /\ x = rest)
      BY <2>1, <1>9, <1>10
    <3>2. q.type[x] = "PAGE" /\ q.slab[x] = AllOnes /\ w[x] = Null /\ s[x] = 0
      BY <2>1, <3>1, <1>12, <1>18, <1>19, <1>20 DEF InsideAt
    <3>3. InsideAt(q, w, s, x)
      BY <3>2 DEF InsideAt
    <3> QED
      BY <3>1, <3>3 DEF PageOK
  <2>2. CASE cut /\ x = rest
    <3>1. InsideAt(p, own, span, x) /\ x \notin run
      BY <2>2, <1>8, <1>10
    <3>2. q.type[x] = "PAGE" /\ q.slab[x] = all - n /\ w[x] = FreeHead /\ s[x] = all - n
      <4>1. t.slab[x] = all - n
        <5>1. x \in DOMAIN p.slab
          BY <1>1 DEF Pools
        <5> QED
          BY <5>1, <2>2, <1>14
      <4>2. p.type[x] = "PAGE"
        BY <3>1 DEF InsideAt
      <4> QED
        BY <2>2, <3>1, <4>1, <4>2, <1>11, <1>12, <1>14, <1>19, <1>20
    <3>3. all - n \in 1 .. Pages
      BY <2>2, <1>3, <1>4
    <3>4. FreeAt(q, w, s, x)
      BY <3>2, <3>3 DEF FreeAt
    <3> QED
      BY <3>1, <3>4 DEF PageOK
  <2>3. CASE x \notin run /\ ~(cut /\ x = rest)
    <3>1. q.type[x] = p.type[x] /\ w[x] = own[x] /\ s[x] = span[x] /\ q.bitmap[x] = p.bitmap[x]
      BY <2>3, <1>11, <1>12, <1>14, <1>20
    <3>2. q.slab[x] = p.slab[x]
      <4>1. q.slab[x] = t.slab[x]
        BY <2>3, <1>9, <1>19, <1>20
      <4>2. t.slab[x] = p.slab[x]
        <5>1. CASE cut
          <6>1. x # rest
            BY <2>3, <5>1
          <6> QED
            BY <6>1, <5>1, <1>14, <1>1 DEF Pools
        <5>2. CASE ~cut
          BY <5>2, <1>14
        <5> QED
          BY <5>1, <5>2
      <4> QED
        BY <4>1, <4>2
    <3>3. PageOK(p, own, span, x)
      BY <1>1
    <3>4. PageOK(q, w, s, x)
      BY <3>1, <3>2, <3>3, <1>1, <1>20, PageKept
    <3> QED
      BY <3>1, <3>2, <3>4
  <2> QED
    BY <2>1, <2>2, <2>3
<1>24. Sound(q, w, r, s, m)
  <2>1. \A x \in Page : PageOK(q, w, s, x)
    BY <1>22, <1>23 DEF PageOK
  <2>2. q.bitmap = p.bitmap
    BY <1>14, <1>20
  <2> QED
    BY <2>1, <2>2, <1>1, <1>13, <1>20, <1>21 DEF Sound
<1>25. q.bitmap = p.bitmap
  BY <1>14, <1>20
<1> QED
  BY <1>12, <1>22, <1>23, <1>24, <1>25 DEF q

\* The pool with the type of a page, the last write of FreePages.
Typed(p, pg, type) == [p EXCEPT !.type[pg] = type]

\* What Typed changes of a pool.
LEMMA TypedFields ==
  ASSUME NEW p \in Pools, NEW pg \in Page, NEW type \in Type
  PROVE  /\ Typed(p, pg, type) \in Pools
         /\ Typed(p, pg, type).slab = p.slab
         /\ Typed(p, pg, type).next = p.next
         /\ Typed(p, pg, type).prev = p.prev
         /\ Typed(p, pg, type).bitmap = p.bitmap
         /\ Typed(p, pg, type).type[pg] = type
         /\ \A x \in Page : x # pg => Typed(p, pg, type).type[x] = p.type[x]
BY DEF Typed, Pools

\* A page is in a list when its next is not clear.
LEMMA InAList ==
  ASSUME NEW p \in Pools, NEW own, NEW rank, Listed(p, own, rank, {}), NEW pg \in Page
  PROVE  p.next[pg] = Null <=> own[pg] = Null
<1>1. /\ own \in [Page -> Head \cup {Null}]
      /\ own[pg] # Null => NextOK(p.next, p.prev, own, rank, own[pg], pg)
      /\ own[pg] = Null /\ pg \notin {} => p.next[pg] = Null
  BY DEF Listed, Linked
<1>2. own[pg] # Null => own[pg] \in Head
  BY <1>1
<1>3. Null \notin Page /\ Null \notin Head
  BY NodeShape
<1> QED
  BY <1>1, <1>2, <1>3 DEF NextOK

\* Freeing an extent leaves a sound pool, the extent in the free list: also when it was there.
LEMMA FreePagesSound ==
  ASSUME NEW p, NEW own, NEW rank, NEW span, NEW home, Sound(p, own, rank, span, home),
         NEW pg \in Page, NEW n \in Nat \ {0}, span[pg] = n
  PROVE  \E r :
           /\ Sound(FreePages(p, pg, n), Owned(own, pg, FreeHead), r, span, home)
           /\ FreeAt(FreePages(p, pg, n), Owned(own, pg, FreeHead), span, pg)
           /\ FreePages(p, pg, n).bitmap = p.bitmap
           /\ \A x \in Page \ {pg} :
                \/ /\ FreePages(p, pg, n).type[x] = p.type[x]
                   /\ FreePages(p, pg, n).slab[x] = p.slab[x]
                \/ /\ InsideAt(p, own, span, x)
                   /\ InsideAt(FreePages(p, pg, n), Owned(own, pg, FreeHead), span, x)
<1> DEFINE after == pg + 1 .. pg + n - 1
           slab == [i \in Page |-> IF i = pg THEN n ELSE IF i \in after THEN 0 ELSE p.slab[i]]
           q == ResetRun(p, slab, after)
           t == IF q.next[pg] # Null THEN Unlink(q, pg) ELSE q
           u == Push(t, FreeHead, pg)
           f == FreePages(p, pg, n)
           w == Owned(own, pg, FreeHead)
           none == {}
<1>1. /\ p \in Pools
      /\ Listed(p, own, rank, none)
      /\ Tiled(span, home)
      /\ \A x \in Page : PageOK(p, own, span, x)
      /\ \A x \in Page : p.bitmap[x] \subseteq 0 .. Chunks(MinShift) - 1
  BY DEF Sound
<1>2. Page = 0 .. Pages - 1 /\ Pages \in Nat \ {0} /\ FreeHead # Null /\ FreeHead \in Head
  BY NodeShape
<1>3. own \in [Page -> Head \cup {Null}] /\ span \in [Page -> 0 .. Pages]
  BY <1>1 DEF Listed, Linked, Tiled
<1>4. \A x \in after : x \in Page /\ x # pg /\ InsideAt(p, own, span, x)
  <2> SUFFICES ASSUME NEW x \in after
               PROVE  x \in Page /\ x # pg /\ InsideAt(p, own, span, x)
    OBVIOUS
  <2>1. x \in Int /\ pg < x /\ x < pg + span[pg]
    BY <1>2
  <2>2. x \in Page /\ span[x] = 0
    BY <2>1, <1>1, InsideExtent
  <2> QED
    BY <2>1, <2>2, <1>1, <1>2, PageIs
<1>5. \A x \in Page : slab[x] = IF x = pg THEN n ELSE IF x \in after THEN 0 ELSE p.slab[x]
  OBVIOUS
<1>6. slab \in [Page -> Int]
  BY <1>1 DEF Pools
<1>7. f = Typed(u, pg, "PAGE")
  BY DEF FreePages, Typed, ResetRun
<1> HIDE DEF after, slab, f, w
<1>8. Resettable(own, slab, after)
  BY <1>4, <1>6 DEF Resettable, InsideAt
<1>9. /\ q \in Pools
      /\ Listed(q, own, rank, none)
      /\ q.slab = slab
      /\ q.type = ResetType(p.type, after)
      /\ q.bitmap = p.bitmap
  <2>1. /\ ResetRun(p, slab, after) \in Pools
        /\ Listed(ResetRun(p, slab, after), own, rank, none \ after)
        /\ ResetRun(p, slab, after).slab = slab
        /\ ResetRun(p, slab, after).type = ResetType(p.type, after)
        /\ ResetRun(p, slab, after).bitmap = p.bitmap
    <3> HIDE DEF none
    <3> QED
      BY <1>1, <1>8, ResetListed
  <2>2. none \ after = none
    OBVIOUS
  <2> HIDE DEF none
  <2> QED
    BY <2>1, <2>2
<1>10. \A x \in Page : q.type[x] = p.type[x]
  BY <1>4, <1>9 DEF ResetType, InsideAt
<1> HIDE DEF q
<1>11. q.next[pg] = Null <=> own[pg] = Null
  BY <1>9, InAList
<1>12. \E o : /\ t \in Pools
              /\ Listed(t, Owned(own, pg, Null), rank, o)
              /\ o \ {pg} = {}
              /\ t.slab = q.slab
              /\ t.type = q.type
              /\ t.bitmap = q.bitmap
  <2>1. CASE own[pg] = Null
    <3>1. Owned(own, pg, Null) = own /\ t = q
      BY <2>1, <1>3, <1>11 DEF Owned
    <3> HIDE DEF t
    <3> QED
      BY <3>1, <1>9
  <2>2. CASE own[pg] # Null
    <3>1. /\ Unlink(q, pg) \in Pools
          /\ Listed(Unlink(q, pg), Owned(own, pg, Null), rank, none \cup {pg})
          /\ Unlink(q, pg).slab = q.slab
          /\ Unlink(q, pg).type = q.type
          /\ Unlink(q, pg).bitmap = q.bitmap
      <4> HIDE DEF none
      <4> QED
        BY <2>2, <1>9, UnlinkListed
    <3>2. t = Unlink(q, pg)
      BY <2>2, <1>11
    <3>3. (none \cup {pg}) \ {pg} = {}
      OBVIOUS
    <3> HIDE DEF t
    <3> QED
      BY <3>1, <3>2, <3>3
  <2> QED
    BY <2>1, <2>2
<1> HIDE DEF t
<1> DEFINE v == Owned(own, pg, Null)
<1>13. PICK o : Listed(t, v, rank, o) /\ o \ {pg} = {}
  BY <1>12
<1>14. v[pg] = Null
  BY <1>3 DEF Owned
<1> HIDE DEF v
<1>15. /\ u \in Pools
       /\ \E r : Listed(u, Owned(v, pg, FreeHead), r, o \ {pg})
       /\ u.slab = t.slab
       /\ u.type = t.type
       /\ u.bitmap = t.bitmap
  <2> DEFINE head == FreeHead
  <2>1. head \in Head
    BY <1>2
  <2>2. /\ Push(t, head, pg) \in Pools
        /\ \E r : Listed(Push(t, head, pg), Owned(v, pg, head), r, o \ {pg})
        /\ Push(t, head, pg).slab = t.slab
        /\ Push(t, head, pg).type = t.type
        /\ Push(t, head, pg).bitmap = t.bitmap
    <3>1. t \in Pools /\ Listed(t, v, rank, o)
      BY <1>12, <1>13
    <3> HIDE DEF head
    <3> QED
      BY <2>1, <3>1, <1>14, PushListed
  <2> QED
    BY <2>2
<1>16. Owned(v, pg, FreeHead) = w
  BY <1>3 DEF v, w, Owned
<1>17. PICK r : Listed(u, w, r, none)
  BY <1>13, <1>15, <1>16
<1> HIDE DEF u
<1>18. /\ f \in Pools
       /\ f.slab = u.slab
       /\ f.next = u.next
       /\ f.prev = u.prev
       /\ f.bitmap = u.bitmap
       /\ f.type[pg] = "PAGE"
       /\ \A x \in Page : x # pg => f.type[x] = u.type[x]
  <2> DEFINE type == "PAGE"
  <2>1. type \in Type
    BY DEF Type
  <2>2. /\ Typed(u, pg, type) \in Pools
        /\ Typed(u, pg, type).slab = u.slab
        /\ Typed(u, pg, type).next = u.next
        /\ Typed(u, pg, type).prev = u.prev
        /\ Typed(u, pg, type).bitmap = u.bitmap
        /\ Typed(u, pg, type).type[pg] = type
        /\ \A x \in Page : x # pg => Typed(u, pg, type).type[x] = u.type[x]
    <3> HIDE DEF type
    <3> QED
      BY <2>1, <1>15, TypedFields
  <2> QED
    BY <2>2, <1>7
<1>19. Listed(f, w, r, none)
  BY <1>17, <1>18 DEF Listed
<1>20. f.slab = slab /\ f.bitmap = p.bitmap /\ \A x \in Page : x # pg => f.type[x] = p.type[x]
  BY <1>9, <1>10, <1>12, <1>15, <1>18
<1>21. w[pg] = FreeHead /\ \A x \in Page : x # pg => w[x] = own[x]
  BY <1>3 DEF w, Owned
<1>22. FreeAt(f, w, span, pg)
  <2>1. span[pg] \in 0 .. Pages
    BY <1>3
  <2>2. span[pg] \in 1 .. Pages
    BY <2>1, <1>2
  <2> QED
    BY <2>2, <1>4, <1>5, <1>18, <1>20, <1>21 DEF FreeAt
<1>23. ASSUME NEW x \in Page \ {pg}
       PROVE  /\ PageOK(f, w, span, x)
              /\ \/ f.type[x] = p.type[x] /\ f.slab[x] = p.slab[x]
                 \/ InsideAt(p, own, span, x) /\ InsideAt(f, w, span, x)
  <2>1. CASE x \in after
    <3>1. InsideAt(p, own, span, x)
      BY <2>1, <1>4
    <3>2. f.type[x] = "PAGE" /\ f.slab[x] = 0 /\ w[x] = Null /\ span[x] = 0
      BY <2>1, <3>1, <1>5, <1>20, <1>21 DEF InsideAt
    <3>3. InsideAt(f, w, span, x)
      BY <3>2 DEF InsideAt
    <3> QED
      BY <3>1, <3>3 DEF PageOK
  <2>2. CASE x \notin after
    <3>1. f.type[x] = p.type[x] /\ f.slab[x] = p.slab[x] /\ f.bitmap[x] = p.bitmap[x] /\ w[x] = own[x]
      BY <2>2, <1>5, <1>20, <1>21
    <3>2. PageOK(p, own, span, x)
      BY <1>1
    <3>3. PageOK(f, w, span, x)
      BY <3>1, <3>2, <1>1, <1>18, PageKept
    <3> QED
      BY <3>1, <3>3
  <2> QED
    BY <2>1, <2>2
<1>24. Sound(f, w, r, span, home)
  <2>1. \A x \in Page : PageOK(f, w, span, x)
    BY <1>22, <1>23 DEF PageOK
  <2> QED
    BY <2>1, <1>1, <1>18, <1>19, <1>20 DEF Sound
<1> QED
  BY <1>20, <1>22, <1>23, <1>24 DEF f, w

-----------------------------------------------------------------------------
(* The sound pool, and chunks handed out and taken back.                   *)

\* What a page is cut into depends on its own fields only.
LEMMA DividedKept ==
  ASSUME NEW p, NEW q, NEW pg, NEW s, Divided(p, pg, s),
         q.type[pg] = p.type[pg], q.slab[pg] = p.slab[pg], q.bitmap[pg] = p.bitmap[pg]
  PROVE  Divided(q, pg, s) /\ Busy(q, pg) = Busy(p, pg)
<1>1. Divided(q, pg, s)
  BY DEF Divided, SmallWord, BigWord
<1>2. Busy(q, pg) = Busy(p, pg)
  BY DEF Busy
<1> QED
  BY <1>1, <1>2

\* A page cut into chunks is an extent of one page, in its slot's list if it has room.
LEMMA CutPage ==
  ASSUME NEW p, NEW own, NEW rank, NEW span, NEW home, Sound(p, own, rank, span, home),
         NEW pg \in Page, NEW s, Divided(p, pg, s)
  PROVE  /\ span[pg] = 1
         /\ own[pg] = IF Room(p, pg, s) = {} THEN Null ELSE SlotOf(s)
         /\ Vacant(p, pg) = Room(p, pg, s)
<1>1. p \in Pools /\ PageOK(p, own, span, pg)
  BY DEF Sound
<1>2. p.type[pg] # "PAGE" /\ ShiftOf(p, pg) = s
  BY <1>1, DividedShift
<1>3. CutAt(p, own, span, pg)
  BY <1>1, <1>2, PageIs
<1>4. PICK c \in MinShift .. PageShift - 1 :
        /\ Divided(p, pg, c)
        /\ span[pg] = 1
        /\ own[pg] = IF Room(p, pg, c) = {} THEN Null ELSE SlotOf(c)
  BY <1>3 DEF CutAt
<1>5. c = s
  BY <1>1, <1>2, <1>4, DividedShift
<1> QED
  BY <1>2, <1>4, <1>5 DEF Vacant, Room

\* A pool stays sound when one page becomes, or stays, cut into chunks.
LEMMA CutSound ==
  ASSUME NEW p, NEW own, NEW rank, NEW span, NEW home, Sound(p, own, rank, span, home),
         NEW pg \in Page, NEW s, NEW q \in Pools, NEW w, NEW r, Listed(q, w, r, {}),
         \A x \in Page : x # pg => /\ q.type[x] = p.type[x]
                                   /\ q.slab[x] = p.slab[x]
                                   /\ q.bitmap[x] = p.bitmap[x]
                                   /\ w[x] = own[x],
         Divided(q, pg, s), span[pg] = 1,
         w[pg] = IF Room(q, pg, s) = {} THEN Null ELSE SlotOf(s),
         q.bitmap[pg] = p.bitmap[pg] \/ q.bitmap[pg] \subseteq 0 .. Chunks(s) - 1
  PROVE  Sound(q, w, r, span, home)
<1>1. /\ p \in Pools
      /\ Tiled(span, home)
      /\ \A x \in Page : PageOK(p, own, span, x)
      /\ \A x \in Page : p.bitmap[x] \subseteq 0 .. Chunks(MinShift) - 1
  BY DEF Sound
<1>2. s \in MinShift .. PageShift - 1
  BY DEF Divided
<1>3. PageOK(q, w, span, pg)
  BY <1>2 DEF PageOK, CutAt
<1>4. ASSUME NEW x \in Page, x # pg
      PROVE  PageOK(q, w, span, x)
  <2>1. PageOK(p, own, span, x)
    BY <1>1
  <2> QED
    BY <2>1, <1>1, <1>4, PageKept
<1>5. 0 .. Chunks(s) - 1 \subseteq 0 .. Chunks(MinShift) - 1
  <2>1. MinShift \in MinShift .. PageShift - 1
    BY SlabAssumption
  <2>2. Chunks(s) <= Chunks(MinShift) /\ Chunks(s) \in Nat /\ Chunks(MinShift) \in Nat
    BY <1>2, <2>1, ChunkRange
  <2> QED
    BY <2>2
<1>6. ASSUME NEW x \in Page
      PROVE  q.bitmap[x] \subseteq 0 .. Chunks(MinShift) - 1
  BY <1>1, <1>5
<1> QED
  BY <1>1, <1>3, <1>4, <1>6 DEF Sound

-----------------------------------------------------------------------------

\* The pool with the links of a page cleared, as a page that has no room left.
Dropped(p, pg) == [p EXCEPT !.next[pg] = Null, !.prev[pg] = Null]

\* Clearing the links of a page that is in no list leaves the lists linked.
LEMMA DroppedListed ==
  ASSUME NEW p \in Pools, NEW own, NEW rank, NEW out, Listed(p, own, rank, out),
         NEW pg \in Page, own[pg] = Null
  PROVE  /\ Dropped(p, pg) \in Pools
         /\ Listed(Dropped(p, pg), own, rank, out \ {pg})
         /\ Dropped(p, pg).slab = p.slab
         /\ Dropped(p, pg).type = p.type
         /\ Dropped(p, pg).bitmap = p.bitmap
<1> DEFINE next == p.next
           prev == p.prev
           run == {pg}
           n == [i \in Page \cup Head |-> IF i \in Page /\ i \in run THEN Null ELSE next[i]]
           v == [i \in Page |-> IF i \in run THEN Null ELSE prev[i]]
           q == Dropped(p, pg)
           o == out \ run
<1>1. Linked(next, prev, own, rank, out)
  BY DEF Listed
<1>2. \A x \in Page : x \in run => own[x] = Null
  OBVIOUS
<1>3. Linked(n, v, own, rank, o)
  <2> HIDE DEF next, prev, run
  <2> QED
    BY <1>1, <1>2, ResetLinked
<1>4. n = [p.next EXCEPT ![pg] = Null] /\ v = [p.prev EXCEPT ![pg] = Null]
  BY DEF Pools
<1>5. n \in [Page \cup Head -> Page \cup Head \cup {Null}] /\ v \in [Page -> Page \cup Head \cup {Null}]
  BY <1>3 DEF Linked
<1>6. q = [p EXCEPT !.next = n, !.prev = v]
  BY <1>4 DEF Dropped, Pools
<1> HIDE DEF q, n, v, o
<1>7. /\ q \in Pools
      /\ q.slab = p.slab
      /\ q.next = n
      /\ q.prev = v
      /\ q.type = p.type
      /\ q.bitmap = p.bitmap
  BY <1>5, <1>6 DEF Pools
<1>8. Listed(q, own, rank, o)
  BY <1>3, <1>7 DEF Listed
<1> QED
  BY <1>7, <1>8 DEF q, o

\* Handing out a vacant chunk leaves a sound pool; a page that is full leaves its list.
LEMMA MarkSound ==
  ASSUME NEW p, NEW own, NEW rank, NEW span, NEW home, Sound(p, own, rank, span, home),
         NEW pg \in Page, NEW s, Divided(p, pg, s), NEW i \in Room(p, pg, s),
         NEW q, q = IF Room(SetBusy(p, pg, i), pg, s) # {} THEN SetBusy(p, pg, i)
                    ELSE Dropped(Unlink(SetBusy(p, pg, i), pg), pg)
  PROVE  /\ \E w : Sound(q, w, rank, span, home)
         /\ Divided(q, pg, s)
         /\ Busy(q, pg) = Busy(p, pg) \cup {i}
         /\ \A x \in Page \ {pg} : /\ q.type[x] = p.type[x]
                                   /\ q.slab[x] = p.slab[x]
                                   /\ q.bitmap[x] = p.bitmap[x]
<1> DEFINE m == SetBusy(p, pg, i)
           none == {}
<1>1. p \in Pools /\ Listed(p, own, rank, none) /\ own \in [Page -> Head \cup {Null}]
  BY DEF Sound, Listed, Linked
<1>2. s \in MinShift .. PageShift - 1
  BY DEF Divided
<1>3. span[pg] = 1 /\ own[pg] = SlotOf(s)
  BY CutPage
<1>4. own[pg] # Null
  BY <1>2, <1>3, NodeShape
<1>5. i \in 0 .. Chunks(s) - 1 /\ i \notin Busy(p, pg)
  BY DEF Room
<1>6. /\ SameBut(p, m, pg)
      /\ Divided(m, pg, s)
      /\ Busy(m, pg) = Busy(p, pg) \cup {i}
      /\ m.bitmap[pg] = p.bitmap[pg] \/ m.bitmap[pg] \subseteq 0 .. Chunks(s) - 1
  BY <1>1, <1>5, MarkDivided
<1>7. q = IF Room(m, pg, s) # {} THEN m ELSE Dropped(Unlink(m, pg), pg)
  OBVIOUS
<1> HIDE DEF m
<1>8. m \in Pools /\ Listed(m, own, rank, none)
  BY <1>1, <1>6 DEF SameBut, Listed
<1>9. \A x \in Page : x # pg => /\ m.type[x] = p.type[x]
                                /\ m.slab[x] = p.slab[x]
                                /\ m.bitmap[x] = p.bitmap[x]
  BY <1>6 DEF SameBut
<1>10. CASE Room(m, pg, s) # {}
  <2>1. q = m
    BY <1>7, <1>10
  <2>2. Sound(m, own, rank, span, home)
    BY <1>3, <1>6, <1>8, <1>9, <1>10, CutSound
  <2> QED
    BY <2>1, <2>2, <1>6, <1>9
<1>11. CASE Room(m, pg, s) = {}
  <2> DEFINE u == Unlink(m, pg)
             w == Owned(own, pg, Null)
             o == none \cup {pg}
  <2>1. /\ u \in Pools
        /\ Listed(u, w, rank, o)
        /\ u.slab = m.slab
        /\ u.type = m.type
        /\ u.bitmap = m.bitmap
    <3> HIDE DEF none
    <3> QED
      BY <1>4, <1>8, UnlinkListed
  <2>2. w[pg] = Null /\ \A x \in Page : x # pg => w[x] = own[x]
    BY <1>1 DEF Owned
  <2>3. q = Dropped(u, pg)
    BY <1>7, <1>11
  <2>4. o \ {pg} = {}
    OBVIOUS
  <2> HIDE DEF u, w, o
  <2>5. /\ q \in Pools
        /\ Listed(q, w, rank, o \ {pg})
        /\ q.slab = m.slab
        /\ q.type = m.type
        /\ q.bitmap = m.bitmap
    BY <2>1, <2>2, <2>3, DroppedListed
  <2>6. Divided(q, pg, s) /\ Busy(q, pg) = Busy(m, pg)
    BY <2>5, <1>6, DividedKept
  <2>7. Room(q, pg, s) = {}
    BY <2>6, <1>11 DEF Room
  <2>8. Sound(q, w, rank, span, home)
    <3>1. Listed(q, w, rank, {})
      BY <2>4, <2>5
    <3>2. \A x \in Page : x # pg => /\ q.type[x] = p.type[x]
                                    /\ q.slab[x] = p.slab[x]
                                    /\ q.bitmap[x] = p.bitmap[x]
                                    /\ w[x] = own[x]
      BY <2>2, <2>5, <1>9
    <3>3. q.bitmap[pg] = p.bitmap[pg] \/ q.bitmap[pg] \subseteq 0 .. Chunks(s) - 1
      BY <2>5, <1>6
    <3> QED
      BY <2>2, <2>5, <2>6, <2>7, <3>1, <3>2, <3>3, <1>3, CutSound
  <2> QED
    BY <2>5, <2>6, <2>8, <1>6, <1>9
<1> QED
  BY <1>10, <1>11

\* rp_slab_free tells a full page right, by its word or by its links.
LEMMA FullIsKnown ==
  ASSUME NEW p, NEW own, NEW rank, NEW span, NEW home, Sound(p, own, rank, span, home),
         NEW pg \in Page, NEW s, Divided(p, pg, s)
  PROVE  WasFull(p, pg) <=> Room(p, pg, s) = {}
<1> DEFINE none == {}
<1>1. p \in Pools /\ Listed(p, own, rank, none)
  BY DEF Sound
<1>2. s \in MinShift .. PageShift - 1
  BY DEF Divided
<1>3. CASE p.type[pg] = "EXACT"
  <2>1. (0 .. Chunks(s) - 1) \ Busy(p, pg) = {} <=> p.slab[pg] = AllOnes
    BY <1>1, <1>3, ExactFull
  <2> QED
    BY <2>1, <1>3 DEF WasFull, Room
<1>4. CASE p.type[pg] # "EXACT"
  <2>1. p.next[pg] = Null <=> own[pg] = Null
    BY <1>1, InAList
  <2>2. own[pg] = IF Room(p, pg, s) = {} THEN Null ELSE SlotOf(s)
    BY CutPage
  <2>3. SlotOf(s) # Null
    BY <1>2, NodeShape
  <2> QED
    BY <2>1, <2>2, <2>3, <1>4 DEF WasFull
<1> QED
  BY <1>3, <1>4

\* Taking a chunk back leaves a sound pool; a page that was full is in its list again.
LEMMA ClearSound ==
  ASSUME NEW p, NEW own, NEW rank, NEW span, NEW home, Sound(p, own, rank, span, home),
         NEW pg \in Page, NEW s, Divided(p, pg, s), NEW i \in Busy(p, pg), i \notin Reserved(s),
         NEW listed, listed = IF WasFull(p, pg) THEN Push(p, SlotOf(s), pg) ELSE p,
         NEW q, q = ClearBusy(listed, pg, i)
  PROVE  /\ \E w, r : Sound(q, w, r, span, home)
         /\ Divided(q, pg, s)
         /\ Busy(q, pg) = Busy(p, pg) \ {i}
         /\ \A x \in Page \ {pg} : /\ q.type[x] = p.type[x]
                                   /\ q.slab[x] = p.slab[x]
                                   /\ q.bitmap[x] = p.bitmap[x]
<1> DEFINE head == SlotOf(s)
           none == {}
           w == Owned(own, pg, head)
<1>1. p \in Pools /\ Listed(p, own, rank, none) /\ own \in [Page -> Head \cup {Null}]
  BY DEF Sound, Listed, Linked
<1>2. s \in MinShift .. PageShift - 1
  BY DEF Divided
<1>3. span[pg] = 1 /\ own[pg] = IF Room(p, pg, s) = {} THEN Null ELSE head
  BY CutPage
<1>4. head \in Head
  BY <1>2, NodeShape
<1>5. WasFull(p, pg) <=> Room(p, pg, s) = {}
  BY FullIsKnown
<1>6. w[pg] = head /\ \A x \in Page : x # pg => w[x] = own[x]
  BY <1>1 DEF Owned
<1>7. /\ listed \in Pools
      /\ \E r : Listed(listed, w, r, none)
      /\ listed.slab = p.slab
      /\ listed.type = p.type
      /\ listed.bitmap = p.bitmap
  <2>1. CASE WasFull(p, pg)
    <3>1. own[pg] = Null /\ listed = Push(p, head, pg)
      BY <2>1, <1>3, <1>5
    <3>2. none \ {pg} = none
      OBVIOUS
    <3> HIDE DEF head, none
    <3>3. /\ Push(p, head, pg) \in Pools
          /\ \E r : Listed(Push(p, head, pg), Owned(own, pg, head), r, none \ {pg})
          /\ Push(p, head, pg).slab = p.slab
          /\ Push(p, head, pg).type = p.type
          /\ Push(p, head, pg).bitmap = p.bitmap
      BY <3>1, <1>1, <1>4, PushListed
    <3> QED
      BY <3>1, <3>2, <3>3
  <2>2. CASE ~WasFull(p, pg)
    <3>1. own[pg] = head /\ listed = p
      BY <2>2, <1>3, <1>5
    <3>2. w = own
      BY <3>1, <1>1 DEF Owned
    <3> HIDE DEF w
    <3> QED
      BY <3>1, <3>2, <1>1
  <2> QED
    BY <2>1, <2>2
<1>8. PICK r : Listed(listed, w, r, none)
  BY <1>7
<1>9. Divided(listed, pg, s) /\ Busy(listed, pg) = Busy(p, pg)
  BY <1>7, DividedKept
<1>10. /\ SameBut(listed, q, pg)
       /\ Divided(q, pg, s)
       /\ Busy(q, pg) = Busy(p, pg) \ {i}
       /\ q.bitmap[pg] = listed.bitmap[pg] \/ q.bitmap[pg] \subseteq 0 .. Chunks(s) - 1
  BY <1>7, <1>9, ClearDivided
<1> HIDE DEF w
<1>11. q \in Pools /\ Listed(q, w, r, none)
  BY <1>8, <1>10 DEF SameBut, Listed
<1>12. \A x \in Page : x # pg => /\ q.type[x] = p.type[x]
                                 /\ q.slab[x] = p.slab[x]
                                 /\ q.bitmap[x] = p.bitmap[x]
                                 /\ w[x] = own[x]
  BY <1>6, <1>7, <1>10 DEF SameBut
<1>13. Room(q, pg, s) # {}
  <2>1. Busy(p, pg) \subseteq 0 .. Chunks(s) - 1
    BY <1>1, BusyRange
  <2> QED
    BY <2>1, <1>10 DEF Room
<1>14. Sound(q, w, r, span, home)
  BY <1>3, <1>6, <1>7, <1>10, <1>11, <1>12, <1>13, CutSound
<1> QED
  BY <1>10, <1>12, <1>14

-----------------------------------------------------------------------------

\* A list whose head is its own next holds no page.
LEMMA EmptyList ==
  ASSUME NEW p \in Pools, NEW own, NEW rank, NEW out, Listed(p, own, rank, out),
         NEW head \in Head, p.next[head] = head, NEW pg \in Page
  PROVE  own[pg] # head
<1> DEFINE node == Chain(p, head)
           S == {k \in 0 .. Pages : node[k] = head}
<1>1. Pages \in Nat /\ head \notin Page
  BY NodeShape
<1>2. p.next \in [Page \cup Head -> Page \cup Head \cup {Null}]
  BY DEF Pools
<1>3. /\ node[0] = p.next[head]
      /\ \A k \in 1 .. Pages : node[k] = IF node[k - 1] \in Page THEN p.next[node[k - 1]] ELSE node[k - 1]
  BY ChainDef
<1>4. 0 \in S
  BY <1>1, <1>3
<1>5. \A k \in 1 .. Pages : k - 1 \in S => k \in S
  <2> HIDE DEF node
  <2> SUFFICES ASSUME NEW k \in 1 .. Pages, k - 1 \in S
               PROVE  k \in S
    OBVIOUS
  <2> QED
    BY <1>1, <1>3
<1>6. 0 .. Pages \subseteq S
  <2> HIDE DEF S
  <2> QED
    BY <1>1, <1>4, <1>5, InductionUpTo
<1>7. Members(p, head) = {}
  BY <1>1, <1>6 DEF Members
<1>8. Members(p, head) = {x \in Page : own[x] = head}
  BY MembersOwn
<1> QED
  BY <1>7, <1>8

\* The pool with a page's words written for chunks of 1 << s bytes, the first handed out.
CutUp(p, pg, s) ==
  [p EXCEPT !.slab[pg] = FirstSlab(s),
            !.type[pg] = ClassOf(s),
            !.bitmap[pg] = IF ClassOf(s) = "SMALL" THEN 0 .. Cardinality(Reserved(s)) ELSE @]

\* What CutUp changes of a pool.
LEMMA CutUpFields ==
  ASSUME NEW p \in Pools, NEW pg \in Page, NEW s \in MinShift .. PageShift - 1
  PROVE  /\ CutUp(p, pg, s) \in Pools
         /\ CutUp(p, pg, s).next = p.next
         /\ CutUp(p, pg, s).prev = p.prev
         /\ CutUp(p, pg, s).slab[pg] = FirstSlab(s)
         /\ CutUp(p, pg, s).type[pg] = ClassOf(s)
         /\ CutUp(p, pg, s).bitmap[pg] = IF ClassOf(s) = "SMALL" THEN 0 .. Cardinality(Reserved(s))
                                         ELSE p.bitmap[pg]
         /\ \A x \in Page : x # pg => /\ CutUp(p, pg, s).slab[x] = p.slab[x]
                                      /\ CutUp(p, pg, s).type[x] = p.type[x]
                                      /\ CutUp(p, pg, s).bitmap[x] = p.bitmap[x]
<1> DEFINE v == FirstSlab(s)
           t == ClassOf(s)
           b == IF t = "SMALL" THEN 0 .. Cardinality(Reserved(s)) ELSE p.bitmap[pg]
           q == CutUp(p, pg, s)
<1>1. t \in {"SMALL", "EXACT", "BIG"}
  BY ClassNames
<1>2. t \in Type
  BY <1>1 DEF Type
<1>3. v \in Int
  <2>1. s \in Int /\ Pow2[MapShift] \in Int
    BY ChunkRange, WordShape, PowPositive
  <2> QED
    BY <1>1, <2>1 DEF FirstSlab
<1>4. b \in SUBSET Int
  <2>1. Cardinality(Reserved(s)) \in Int
    BY ReservedShape
  <2> QED
    BY <2>1 DEF Pools
<1>5. q = [p EXCEPT !.slab[pg] = v, !.type[pg] = t, !.bitmap[pg] = b]
  BY DEF CutUp, Pools
<1> HIDE DEF q, v, t, b
<1>6. /\ q \in Pools
      /\ q.next = p.next
      /\ q.prev = p.prev
      /\ q.slab = [p.slab EXCEPT ![pg] = v]
      /\ q.type = [p.type EXCEPT ![pg] = t]
      /\ q.bitmap = [p.bitmap EXCEPT ![pg] = b]
  BY <1>2, <1>3, <1>4, <1>5 DEF Pools
<1>7. DOMAIN p.slab = Page /\ DOMAIN p.type = Page /\ DOMAIN p.bitmap = Page
  BY DEF Pools
<1>8. q.slab[pg] = v /\ q.type[pg] = t /\ q.bitmap[pg] = b
  BY <1>6, <1>7
<1>9. \A x \in Page : x # pg => /\ q.slab[x] = p.slab[x]
                                /\ q.type[x] = p.type[x]
                                /\ q.bitmap[x] = p.bitmap[x]
  BY <1>6, <1>7
<1> QED
  BY <1>6, <1>8, <1>9 DEF q, v, t, b

\* The pool after the first chunk of a new page, as AllocNewPage writes it.
NewPage(p, pg, s) ==
  [TakeRun(p, pg, 1) EXCEPT
     !.slab[pg] = FirstSlab(s),
     !.type[pg] = ClassOf(s),
     !.bitmap[pg] = IF ClassOf(s) = "SMALL" THEN 0 .. Cardinality(Reserved(s)) ELSE @,
     !.next[pg] = SlotOf(s), !.prev[pg] = SlotOf(s), !.next[SlotOf(s)] = pg]

\* What the slot held is not looked at, and need not be: it is Push on an empty list.
LEMMA NewPagePushed ==
  ASSUME NEW p, NEW pg \in Page, NEW t, t = TakeRun(p, pg, 1), t \in Pools,
         NEW s \in MinShift .. PageShift - 1, t.next[SlotOf(s)] = SlotOf(s)
  PROVE  NewPage(p, pg, s) = CutUp(Push(t, SlotOf(s), pg), pg, s)
<1> DEFINE slot == SlotOf(s)
<1>1. slot \in Head /\ slot \notin Page /\ pg \notin Head
  BY NodeShape
<1>2. Push(t, slot, pg) = [t EXCEPT !.next[slot] = pg, !.next[pg] = slot, !.prev[pg] = slot]
  BY <1>1 DEF Push, SetPrev
<1> DEFINE u == [t EXCEPT !.next[slot] = pg, !.next[pg] = slot, !.prev[pg] = slot]
           v == FirstSlab(s)
           c == ClassOf(s)
           n == Cardinality(Reserved(s))
<1>3. CutUp(u, pg, s) =
        [t EXCEPT !.slab[pg] = v, !.type[pg] = c,
                  !.bitmap[pg] = IF c = "SMALL" THEN 0 .. n ELSE @,
                  !.next[pg] = slot, !.prev[pg] = slot, !.next[slot] = pg]
  <2>1. [t.next EXCEPT ![slot] = pg, ![pg] = slot] = [t.next EXCEPT ![pg] = slot, ![slot] = pg]
    <3>1. pg # slot
      BY <1>1
    <3> HIDE DEF slot
    <3> QED
      BY <3>1 DEF Pools
  <2> HIDE DEF slot, v, c, n
  <2> QED
    BY <2>1, ZenonT(60) DEF CutUp, Pools, v, c, n
<1> QED
  BY <1>2, <1>3 DEF NewPage

\* Cutting a free page into chunks leaves a sound pool, the page in its slot.
LEMMA FirstSound ==
  ASSUME NEW p, NEW own, NEW rank, NEW span, NEW home, Sound(p, own, rank, span, home),
         NEW s \in MinShift .. PageShift - 1, p.next[SlotOf(s)] = SlotOf(s),
         NEW pg \in Page, own[pg] = FreeHead
  PROVE  /\ \E w, r, e, h :
              /\ Sound(NewPage(p, pg, s), w, r, e, h)
              /\ \A x \in Page \ {pg} :
                   \/ /\ NewPage(p, pg, s).type[x] = p.type[x]
                      /\ NewPage(p, pg, s).slab[x] = p.slab[x]
                      /\ NewPage(p, pg, s).bitmap[x] = p.bitmap[x]
                   \/ /\ InsideAt(p, own, span, x)
                      /\ InsideAt(NewPage(p, pg, s), w, e, x) \/ FreeAt(NewPage(p, pg, s), w, e, x)
         /\ Divided(NewPage(p, pg, s), pg, s)
         /\ Busy(NewPage(p, pg, s), pg) = 0 .. Cardinality(Reserved(s))
<1> DEFINE slot == SlotOf(s)
           t == TakeRun(p, pg, 1)
           u == Push(t, slot, pg)
           q == NewPage(p, pg, s)
           none == {}
<1>1. p \in Pools /\ Listed(p, own, rank, none) /\ PageOK(p, own, span, pg)
  BY DEF Sound
<1>2. /\ slot \in Head /\ slot # FreeHead /\ slot # Null
      /\ slot \notin Page
  BY NodeShape
<1>3. \A x \in Page : own[x] # slot
  <2> HIDE DEF slot, none
  <2>1. p.next[slot] = slot
    BY DEF slot
  <2> QED
    BY <2>1, <1>1, <1>2, EmptyList
<1>4. 1 <= p.slab[pg]
  <2>1. FreeAt(p, own, span, pg)
    BY <1>1, PageIs
  <2> QED
    BY <2>1, NodeShape DEF FreeAt
<1>5. PICK w, r, e, h :
           /\ Sound(t, w, r, e, h)
           /\ BusyAt(t, w, e, pg)
           /\ e[pg] = 1
           /\ t.bitmap = p.bitmap
           /\ \A x \in Page \ {pg} :
                \/ /\ t.type[x] = p.type[x]
                   /\ t.slab[x] = p.slab[x]
                   /\ w[x] = own[x]
                \/ /\ InsideAt(p, own, span, x)
                   /\ InsideAt(t, w, e, x) \/ FreeAt(t, w, e, x)
  <2>1. 1 \in Nat \ {0}
    OBVIOUS
  <2> DEFINE n == 1
  <2>2. n \in Nat \ {0} /\ n <= p.slab[pg]
    BY <2>1, <1>4
  <2>3. \E w, r, e, h :
           /\ Sound(TakeRun(p, pg, n), w, r, e, h)
           /\ BusyAt(TakeRun(p, pg, n), w, e, pg)
           /\ e[pg] = n
           /\ TakeRun(p, pg, n).bitmap = p.bitmap
           /\ \A x \in Page \ {pg} :
                \/ /\ TakeRun(p, pg, n).type[x] = p.type[x]
                   /\ TakeRun(p, pg, n).slab[x] = p.slab[x]
                   /\ w[x] = own[x]
                \/ /\ InsideAt(p, own, span, x)
                   /\ InsideAt(TakeRun(p, pg, n), w, e, x) \/ FreeAt(TakeRun(p, pg, n), w, e, x)
    <3> HIDE DEF n
    <3> QED
      BY <2>2, TakeRunSound
  <2> QED
    BY <2>3
<1> HIDE DEF t
<1>6. t \in Pools /\ Listed(t, w, r, none) /\ w \in [Page -> Head \cup {Null}] /\ w[pg] = Null
  BY <1>5 DEF Sound, BusyAt, Listed, Linked
<1>7. \A x \in Page : w[x] # slot
  <2> SUFFICES ASSUME NEW x \in Page, x # pg
               PROVE  w[x] # slot
    BY <1>2, <1>6
  <2>1. w[x] = own[x] \/ w[x] \in {Null, FreeHead}
    BY <1>5 DEF InsideAt, FreeAt
  <2> QED
    BY <2>1, <1>2, <1>3
<1>8. t.next[slot] = slot
  <2>1. NextOK(t.next, t.prev, w, r, slot, slot)
    BY <1>2, <1>6 DEF Listed, Linked
  <2> QED
    BY <2>1, <1>7 DEF NextOK
<1>9. q = CutUp(u, pg, s)
  BY <1>6, <1>8, NewPagePushed DEF t
<1> DEFINE o == Owned(w, pg, slot)
<1>10. /\ u \in Pools
       /\ \E k : Listed(u, o, k, none)
       /\ u.slab = t.slab
       /\ u.type = t.type
       /\ u.bitmap = t.bitmap
  <2>1. none \ {pg} = none
    OBVIOUS
  <2> HIDE DEF none, slot
  <2>2. /\ Push(t, slot, pg) \in Pools
        /\ \E k : Listed(Push(t, slot, pg), Owned(w, pg, slot), k, none \ {pg})
        /\ Push(t, slot, pg).slab = t.slab
        /\ Push(t, slot, pg).type = t.type
        /\ Push(t, slot, pg).bitmap = t.bitmap
    BY <1>2, <1>6, PushListed
  <2> QED
    BY <2>1, <2>2
<1>11. PICK k : Listed(u, o, k, none)
  BY <1>10
<1>12. o[pg] = slot /\ \A x \in Page : x # pg => o[x] = w[x]
  BY <1>6 DEF Owned
<1> HIDE DEF u, o, q
<1>13. /\ q \in Pools
       /\ q.next = u.next
       /\ q.prev = u.prev
       /\ q.slab[pg] = FirstSlab(s)
       /\ q.type[pg] = ClassOf(s)
       /\ q.bitmap[pg] = IF ClassOf(s) = "SMALL" THEN 0 .. Cardinality(Reserved(s)) ELSE u.bitmap[pg]
       /\ \A x \in Page : x # pg => /\ q.slab[x] = u.slab[x]
                                    /\ q.type[x] = u.type[x]
                                    /\ q.bitmap[x] = u.bitmap[x]
  BY <1>9, <1>10, CutUpFields
<1>14. Listed(q, o, k, none)
  BY <1>11, <1>13 DEF Listed
<1>15. /\ Divided(q, pg, s)
       /\ Busy(q, pg) = 0 .. Cardinality(Reserved(s))
       /\ Cardinality(Reserved(s)) \in 0 .. Chunks(s) - 2
  <2>1. s < ExactShift => q.bitmap[pg] = 0 .. Cardinality(Reserved(s))
    BY <1>13, ClassNames
  <2> QED
    BY <2>1, <1>13, FirstDivided
<1>16. Room(q, pg, s) # {}
  <2>1. Cardinality(Reserved(s)) + 1 \in 0 .. Chunks(s) - 1
    BY <1>15, ChunkRange
  <2>2. Cardinality(Reserved(s)) + 1 \notin Busy(q, pg)
    BY <1>15
  <2> QED
    BY <2>1, <2>2 DEF Room
<1>17. q.bitmap[pg] = t.bitmap[pg] \/ q.bitmap[pg] \subseteq 0 .. Chunks(s) - 1
  <2>1. 0 .. Cardinality(Reserved(s)) \subseteq 0 .. Chunks(s) - 1
    BY <1>15, ChunkRange
  <2> QED
    BY <2>1, <1>10, <1>13
<1>18. \A x \in Page : x # pg => /\ q.type[x] = t.type[x]
                                 /\ q.slab[x] = t.slab[x]
                                 /\ q.bitmap[x] = t.bitmap[x]
                                 /\ o[x] = w[x]
  BY <1>10, <1>12, <1>13
<1>19. Sound(q, o, k, e, h)
  <2>1. o[pg] = IF Room(q, pg, s) = {} THEN Null ELSE SlotOf(s)
    BY <1>12, <1>16
  <2>2. e[pg] = 1
    BY <1>5
  <2> QED
    BY <2>1, <2>2, <1>5, <1>13, <1>14, <1>15, <1>17, <1>18, CutSound
<1>20. \A x \in Page \ {pg} :
         \/ q.type[x] = p.type[x] /\ q.slab[x] = p.slab[x] /\ q.bitmap[x] = p.bitmap[x]
         \/ /\ InsideAt(p, own, span, x)
            /\ InsideAt(q, o, e, x) \/ FreeAt(q, o, e, x)
  <2> TAKE x \in Page \ {pg}
  <2>1. q.type[x] = t.type[x] /\ q.slab[x] = t.slab[x] /\ q.bitmap[x] = p.bitmap[x] /\ o[x] = w[x]
    BY <1>5, <1>18
  <2>2. \/ t.type[x] = p.type[x] /\ t.slab[x] = p.slab[x]
        \/ InsideAt(p, own, span, x) /\ (InsideAt(t, w, e, x) \/ FreeAt(t, w, e, x))
    BY <1>5
  <2>3. InsideAt(t, w, e, x) => InsideAt(q, o, e, x)
    BY <2>1 DEF InsideAt
  <2>4. FreeAt(t, w, e, x) => FreeAt(q, o, e, x)
    BY <2>1 DEF FreeAt
  <2> QED
    BY <2>1, <2>2, <2>3, <2>4
<1> QED
  BY <1>15, <1>19, <1>20 DEF q

-----------------------------------------------------------------------------
(* Addresses: which regions the page table knows to be handed out.         *)

\* The regions of one page that are handed out: Known, of any pool.
ChunkKey(pg, s, i) == <<pg * PageSize + i * Pow2[s], Pow2[s]>>
ChunkKeys(p, pg, s) == {ChunkKey(pg, s, i) : i \in Busy(p, pg) \ Reserved(s)}
RunKey(pg, n) == <<pg * PageSize, n * PageSize>>
RunHeld(p, pg) == p.slab[pg] > RunStart /\ p.slab[pg] # AllOnes
KnownAt(p, pg) ==
  IF p.type[pg] # "PAGE" THEN ChunkKeys(p, pg, ShiftOf(p, pg))
  ELSE IF RunHeld(p, pg) THEN {RunKey(pg, p.slab[pg] - RunStart)} ELSE {}
KnownAll(p) == UNION {KnownAt(p, pg) : pg \in Page}

\* The two agree.
LEMMA KnownIs ==
  ASSUME NEW pg \in Page
  PROVE  Known(pg) = KnownAt(pool, pg)
<1>1. CASE pool.type[pg] # "PAGE"
  <2>1. pg \in ClassPages
    BY <1>1 DEF ClassPages
  <2> QED
    BY <2>1, <1>1 DEF Known, KnownAt, ChunkKeys, ChunkKey
<1>2. CASE pool.type[pg] = "PAGE"
  <2>1. pg \notin ClassPages
    BY <1>2 DEF ClassPages
  <2>2. pg \in BusyRuns <=> RunHeld(pool, pg)
    BY <1>2 DEF BusyRuns, RunHeld
  <2>3. Known(pg) = IF RunHeld(pool, pg) THEN {RunKey(pg, pool.slab[pg] - RunStart)} ELSE {}
    BY <2>1, <2>2 DEF Known, RunKey
  <2> QED
    BY <2>3, <1>2 DEF KnownAt
<1> QED
  BY <1>1, <1>2

\* What is handed out of a page, by what it is.
LEMMA KnownKinds ==
  ASSUME NEW p \in Pools, NEW own, NEW span, NEW pg \in Page
  PROVE  /\ InsideAt(p, own, span, pg) \/ FreeAt(p, own, span, pg) => KnownAt(p, pg) = {}
         /\ BusyAt(p, own, span, pg) =>
              /\ KnownAt(p, pg) = {RunKey(pg, span[pg])}
              /\ p.slab[pg] % RunStart = span[pg]
         /\ FreeAt(p, own, span, pg) => p.slab[pg] % RunStart = span[pg]
         /\ \A s : Divided(p, pg, s) => KnownAt(p, pg) = ChunkKeys(p, pg, s)
<1>1. /\ RunStart \in Nat \ {0, 1}
      /\ AllOnes = 2 * RunStart - 1
      /\ Pages \in 1 .. RunStart - 2
  BY WordRange
<1>2. ASSUME InsideAt(p, own, span, pg)
      PROVE  KnownAt(p, pg) = {}
  <2>1. ~RunHeld(p, pg)
    BY <1>1, <1>2 DEF InsideAt, RunHeld
  <2> QED
    BY <2>1, <1>2 DEF InsideAt, KnownAt
<1>3. ASSUME FreeAt(p, own, span, pg)
      PROVE  KnownAt(p, pg) = {} /\ p.slab[pg] % RunStart = span[pg]
  <2>1. p.slab[pg] \in 1 .. Pages /\ p.slab[pg] = span[pg]
    BY <1>3 DEF FreeAt
  <2>2. ~RunHeld(p, pg)
    BY <2>1, <1>1 DEF RunHeld
  <2>3. p.slab[pg] % RunStart = span[pg]
    <3> DEFINE v == p.slab[pg]
    <3>1. v \in 0 .. RunStart - 1 /\ v = 0 * RunStart + v /\ 0 \in Int /\ v \in Int
      BY <2>1, <1>1
    <3> HIDE DEF v
    <3>2. v % RunStart = v
      BY <3>1, <1>1, DivModUnique
    <3> QED
      BY <3>2, <2>1 DEF v
  <2> QED
    BY <2>2, <2>3, <1>3 DEF FreeAt, KnownAt
<1>4. ASSUME BusyAt(p, own, span, pg)
      PROVE  /\ KnownAt(p, pg) = {RunKey(pg, span[pg])}
             /\ p.slab[pg] % RunStart = span[pg]
  <2> DEFINE n == span[pg]
             v == p.slab[pg]
  <2>1. n \in 1 .. Pages /\ v = RunStart + n /\ p.type[pg] = "PAGE"
    BY <1>4 DEF BusyAt
  <2>2. RunHeld(p, pg) /\ v - RunStart = n
    <3> HIDE DEF n
    <3> QED
      BY <2>1, <1>1 DEF RunHeld
  <2>3. v % RunStart = n
    <3>1. n \in 0 .. RunStart - 1 /\ v = 1 * RunStart + n /\ 1 \in Int /\ v \in Int
      <4> HIDE DEF n, v
      <4> QED
        BY <2>1, <1>1
    <3> HIDE DEF n, v
    <3> QED
      BY <3>1, <1>1, DivModUnique
  <2> QED
    BY <2>1, <2>2, <2>3 DEF KnownAt
<1>5. ASSUME NEW s, Divided(p, pg, s)
      PROVE  KnownAt(p, pg) = ChunkKeys(p, pg, s)
  BY <1>5, DividedShift DEF KnownAt
<1> QED
  BY <1>2, <1>3, <1>4, <1>5

\* What is handed out of a page depends on its own fields only.
LEMMA KnownKept ==
  ASSUME NEW p, NEW q, NEW pg,
         q.type[pg] = p.type[pg], q.slab[pg] = p.slab[pg], q.bitmap[pg] = p.bitmap[pg]
  PROVE  KnownAt(q, pg) = KnownAt(p, pg)
<1>1. Busy(q, pg) = Busy(p, pg)
  BY DEF Busy
<1>2. ShiftOf(q, pg) = ShiftOf(p, pg)
  BY DEF ShiftOf
<1>3. ChunkKeys(q, pg, ShiftOf(q, pg)) = ChunkKeys(p, pg, ShiftOf(p, pg))
  BY <1>1, <1>2 DEF ChunkKeys
<1>4. RunHeld(q, pg) <=> RunHeld(p, pg)
  BY DEF RunHeld
<1> QED
  BY <1>3, <1>4 DEF KnownAt

-----------------------------------------------------------------------------

\* The pages lie inside the pool.
LEMMA PoolHolds ==
  /\ PoolStart \in Int
  /\ PoolStart + Pages * PageSize <= PoolBytes
  /\ PageSize \in Nat \ {0}
<1>1. PageSize \in Nat \ {0}
  BY SlabAssumption, PowPositive DEF PageSize
<1>2. PageShift \in Nat /\ MinShift \in Int /\ HeaderBytes \in Nat /\ EntryBytes \in Nat /\ PoolBytes \in Nat
  BY SlabAssumption
<1>3. TablePages \in Int
  <2> DEFINE a == PoolBytes - HeaderBytes
             d == PageSize + EntryBytes
  <2>1. a \in Int /\ d \in Nat \ {0}
    BY <1>1, <1>2
  <2> HIDE DEF a, d
  <2>2. a \div d \in Int
    BY <2>1, DivMod
  <2> QED
    BY <2>2 DEF TablePages, a, d
<1>4. TableEnd \in Int
  <2> DEFINE a == Slots + TablePages
  <2>1. a \in Int
    BY <1>2, <1>3 DEF Slots
  <2> HIDE DEF a
  <2>2. HeaderBytes + a * EntryBytes \in Int
    BY <2>1, <1>2
  <2> QED
    BY <2>2 DEF TableEnd, a
<1> DEFINE d == PageSize
<1> HIDE DEF d
<1>5. PoolStart \in Int
  <2> DEFINE a == TableEnd + d - 1
  <2>1. a \in Int /\ d \in Nat \ {0}
    BY <1>1, <1>4 DEF d
  <2> HIDE DEF a
  <2>2. (a \div d) * d \in Int
    <3>1. a \div d \in Int
      BY <2>1, DivMod
    <3> QED
      BY <3>1, <2>1, TimesOrder
  <2> QED
    BY <2>2 DEF PoolStart, a, d
<1> DEFINE room == PoolBytes - PoolStart
           fitting == room \div d
<1>6. room \in Int /\ d \in Nat \ {0}
  BY <1>1, <1>2, <1>5 DEF d
<1>7. PoolBytes = PoolStart + room
  BY <1>2, <1>5
<1> HIDE DEF room
<1>8. fitting \in Int /\ room % d \in 0 .. d - 1 /\ room = fitting * d + (room % d)
  BY <1>6, DivMod
<1>9. Pages <= fitting /\ Pages \in Int
  <2>1. Pages = IF TablePages > fitting THEN fitting ELSE TablePages
    BY DEF Pages, room, d
  <2> HIDE DEF fitting
  <2> QED
    BY <2>1, <1>3, <1>8
<1> HIDE DEF fitting
<1>10. Pages * d <= fitting * d /\ Pages * d \in Int /\ fitting * d \in Int
  BY <1>6, <1>8, <1>9, TimesOrder
<1>11. Pages * d <= room
  BY <1>6, <1>8, <1>10
<1> QED
  BY <1>1, <1>5, <1>6, <1>7, <1>10, <1>11 DEF d

\* A chunk's address: inside its page, and not another chunk's.
LEMMA ChunkAddress ==
  ASSUME NEW s \in MinShift .. PageShift - 1, NEW pg \in Page, NEW i \in 0 .. Chunks(s) - 1
  PROVE  /\ ChunkKey(pg, s, i)[1] = pg * PageSize + i * Pow2[s]
         /\ ChunkKey(pg, s, i)[2] = Pow2[s]
         /\ i * Pow2[s] \in Nat
         /\ i * Pow2[s] + Pow2[s] <= PageSize
         /\ Pow2[s] \in Nat \ {0}
<1> DEFINE d == Pow2[s]
           c == Chunks(s)
<1>1. d \in Nat \ {0} /\ c \in Nat \ {0} /\ c * d = PageSize
  <2>1. s \in 0 .. PageShift /\ s \in Nat
    BY ChunkRange, SlabAssumption
  <2> QED
    BY <2>1, ChunkCount, PowPositive
<1>2. i \in Int /\ i >= 0 /\ i < c /\ i \in Nat
  BY <1>1
<1> HIDE DEF d, c
<1>3. i * d + d <= c * d /\ 0 * d <= i * d /\ i * d \in Int
  BY <1>1, <1>2, TimesOrder
<1>4. i * d \in Nat
  <2>1. 0 * d = 0
    BY <1>1
  <2> QED
    BY <2>1, <1>3
<1>5. ChunkKey(pg, s, i)[1] = pg * PageSize + i * d /\ ChunkKey(pg, s, i)[2] = d
  BY DEF ChunkKey, d
<1> QED
  BY <1>1, <1>3, <1>4, <1>5 DEF d, c

\* Two chunks of a page have two addresses.
LEMMA ChunkAddressDiffers ==
  ASSUME NEW s \in MinShift .. PageShift - 1, NEW pg \in Page,
         NEW i \in 0 .. Chunks(s) - 1, NEW j \in 0 .. Chunks(s) - 1, i # j
  PROVE  ChunkKey(pg, s, i)[1] # ChunkKey(pg, s, j)[1]
<1> DEFINE d == Pow2[s]
           a == pg * PageSize
<1>1. d \in Nat \ {0} /\ i * d \in Nat /\ j * d \in Nat
  BY ChunkAddress
<1>2. i \in Int /\ j \in Int /\ (i < j \/ j < i)
  BY ChunkRange
<1>3. a \in Int
  BY NodeShape, PoolHolds
<1>4. ChunkKey(pg, s, i)[1] = a + i * d /\ ChunkKey(pg, s, j)[1] = a + j * d
  BY DEF ChunkKey
<1> HIDE DEF d, a
<1>5. i * d # j * d
  <2>1. (i < j => i * d + d <= j * d) /\ (j < i => j * d + d <= i * d)
    BY <1>1, <1>2, TimesOrder
  <2> QED
    BY <2>1, <1>1, <1>2
<1> QED
  BY <1>1, <1>3, <1>4, <1>5

\* A region that begins in a page of n at least: where it begins and where it ends.
LEMMA InsidePool ==
  ASSUME NEW pg \in Page, NEW n \in Nat \ {0}, pg + n <= Pages,
         NEW offset \in 0 .. PageSize - 1, NEW len \in Nat \ {0}, offset + len <= n * PageSize
  PROVE  /\ pg * PageSize + offset \in 0 .. Pages * PageSize - 1
         /\ (pg * PageSize + offset) \div PageSize = pg
         /\ PoolStart + (pg * PageSize + offset) + len <= PoolBytes
<1> DEFINE d == PageSize
<1>1. d \in Nat \ {0} /\ PoolStart \in Int /\ PoolStart + Pages * d <= PoolBytes /\ PoolBytes \in Nat
  BY PoolHolds, SlabAssumption
<1>2. pg \in Nat /\ Pages \in Nat
  BY NodeShape
<1>3. offset \in 0 .. d - 1 /\ offset + len <= n * d
  OBVIOUS
<1> DEFINE a == pg * d + offset
<1>4. pg * d \in Int /\ 0 * d <= pg * d /\ n * d \in Int /\ Pages * d \in Int
  BY <1>1, <1>2, TimesOrder
<1>5. pg * d + n * d <= Pages * d
  <2>1. (pg + n) * d <= Pages * d
    <3>1. pg + n \in Int
      BY <1>2
    <3> HIDE DEF d
    <3> QED
      BY <3>1, <1>1, <1>2, TimesOrder
  <2>2. (pg + n) * d = pg * d + n * d
    <3> HIDE DEF d
    <3> QED
      BY <1>1, <1>2
  <2> QED
    BY <2>1, <2>2
<1>6. a \in Int
  BY <1>3, <1>4
<1> HIDE DEF d
<1>7. a \div d = pg
  <2>1. a = pg * d + offset /\ pg \in Int
    BY <1>2
  <2> HIDE DEF a
  <2> QED
    BY <2>1, <1>1, <1>3, <1>6, DivModUnique
<1>8. a \in 0 .. Pages * d - 1 /\ PoolStart + a + len <= PoolBytes
  <2> DEFINE x == pg * d
             y == n * d
             z == Pages * d
  <2>1. x \in Int /\ y \in Int /\ z \in Int /\ 0 <= x /\ x + y <= z /\ offset + len <= y
        /\ PoolStart + z <= PoolBytes /\ a = x + offset
    BY <1>1, <1>3, <1>4, <1>5
  <2>2. offset \in Nat
    BY <1>1, <1>3
  <2> HIDE DEF x, y, z, a
  <2>3. a \in 0 .. z - 1 /\ PoolStart + a + len <= PoolBytes
    BY <2>1, <2>2, <1>1
  <2> QED
    BY <2>3 DEF x, y, z
<1> QED
  BY <1>7, <1>8 DEF d, a

\* Where a region handed out begins and ends.
InPage(k, x) ==
  /\ k[1] \in 0 .. Pages * PageSize - 1
  /\ k[1] \div PageSize = x
  /\ PoolStart + k[1] + k[2] <= PoolBytes

\* A chunk lies in its page.
LEMMA ChunkInPage ==
  ASSUME NEW s \in MinShift .. PageShift - 1, NEW x \in Page, NEW i \in 0 .. Chunks(s) - 1
  PROVE  InPage(ChunkKey(x, s, i), x)
<1> DEFINE offset == i * Pow2[s]
           len == Pow2[s]
           n == 1
<1>1. /\ ChunkKey(x, s, i)[1] = x * PageSize + offset
      /\ ChunkKey(x, s, i)[2] = len
      /\ offset \in Nat
      /\ offset + len <= PageSize
      /\ len \in Nat \ {0}
  BY ChunkAddress
<1>2. x + n <= Pages /\ n \in Nat \ {0}
  BY NodeShape
<1> HIDE DEF offset, len
<1>3. PageSize \in Nat \ {0} /\ n * PageSize = PageSize
  BY PoolHolds
<1>4. offset \in 0 .. PageSize - 1 /\ offset + len <= n * PageSize
  BY <1>1, <1>3
<1> HIDE DEF n
<1>5. /\ x * PageSize + offset \in 0 .. Pages * PageSize - 1
      /\ (x * PageSize + offset) \div PageSize = x
      /\ PoolStart + (x * PageSize + offset) + len <= PoolBytes
  BY <1>1, <1>2, <1>4, InsidePool
<1> QED
  BY <1>1, <1>5 DEF InPage

\* A run begins in its first page and ends in the pool.
LEMMA RunInPage ==
  ASSUME NEW x \in Page, NEW n \in Nat \ {0}, x + n <= Pages
  PROVE  InPage(RunKey(x, n), x)
<1> DEFINE offset == 0
           len == n * PageSize
<1>1. PageSize \in Nat \ {0}
  BY PoolHolds
<1>2. len \in Nat \ {0}
  <2> DEFINE d == PageSize
  <2>1. d \in Nat \ {0}
    BY <1>1
  <2> HIDE DEF d
  <2>2. n * d \in Int /\ 0 * d + d <= n * d
    BY <2>1, TimesOrder
  <2>3. 0 * d = 0
    BY <2>1
  <2>4. n * d \in Nat \ {0}
    BY <2>1, <2>2, <2>3
  <2> QED
    BY <2>4 DEF d
<1>3. offset \in 0 .. PageSize - 1 /\ offset + len <= n * PageSize
  <2> HIDE DEF len
  <2>1. len = n * PageSize
    BY DEF len
  <2>2. offset + len = len
    BY <1>2
  <2> QED
    BY <1>1, <1>2, <2>1, <2>2
<1> HIDE DEF offset, len
<1>4. /\ x * PageSize + offset \in 0 .. Pages * PageSize - 1
      /\ (x * PageSize + offset) \div PageSize = x
      /\ PoolStart + (x * PageSize + offset) + len <= PoolBytes
  BY <1>2, <1>3, InsidePool
<1>5. x * PageSize + offset = x * PageSize
  <2>1. x * PageSize \in Int
    BY <1>1, NodeShape
  <2> QED
    BY <2>1 DEF offset
<1> QED
  BY <1>4, <1>5 DEF InPage, RunKey, len

\* Every region handed out begins in the page it is known by, and ends in the pool.
LEMMA KnownInPage ==
  ASSUME NEW p, NEW own, NEW rank, NEW span, NEW home, Sound(p, own, rank, span, home),
         NEW x \in Page, NEW k \in KnownAt(p, x)
  PROVE  InPage(k, x)
<1>1. p \in Pools /\ PageOK(p, own, span, x) /\ Tiled(span, home)
  BY DEF Sound
<1>2. CASE InsideAt(p, own, span, x) \/ FreeAt(p, own, span, x)
  BY <1>1, <1>2, KnownKinds
<1>3. CASE BusyAt(p, own, span, x)
  <2> DEFINE n == span[x]
  <2>1. k = RunKey(x, n)
    BY <1>1, <1>3, KnownKinds
  <2>2. n \in Nat \ {0} /\ x + n <= Pages
    BY <1>1, <1>3, NodeShape DEF BusyAt, Tiled
  <2> HIDE DEF n
  <2> QED
    BY <2>1, <2>2, RunInPage
<1>4. CASE CutAt(p, own, span, x)
  <2>1. PICK s \in MinShift .. PageShift - 1 : Divided(p, x, s)
    BY <1>4 DEF CutAt
  <2>2. KnownAt(p, x) = ChunkKeys(p, x, s)
    BY <1>1, <2>1, KnownKinds
  <2>3. PICK i \in Busy(p, x) \ Reserved(s) : k = ChunkKey(x, s, i)
    BY <2>2 DEF ChunkKeys
  <2>4. i \in 0 .. Chunks(s) - 1
    BY <1>1, <2>1, <2>3, BusyRange
  <2> QED
    BY <2>3, <2>4, ChunkInPage
<1> QED
  BY <1>1, <1>2, <1>3, <1>4 DEF PageOK

-----------------------------------------------------------------------------

\* A step hands out one region more, or takes back the one at an address.
Adds(p, q, key) ==
  /\ KnownAll(q) = KnownAll(p) \cup {key}
  /\ \A k \in KnownAll(p) : k[1] # key[1]
  /\ key[1] \in 0 .. Pages * PageSize - 1
  /\ PoolStart + key[1] + key[2] <= PoolBytes
Drops(p, q, addr) == KnownAll(q) = {k \in KnownAll(p) : k[1] # addr}

\* One region more in one page is one region more.
LEMMA AddsAt ==
  ASSUME NEW p, NEW own, NEW rank, NEW span, NEW home, Sound(p, own, rank, span, home),
         NEW q, NEW w, NEW r, NEW e, NEW h, Sound(q, w, r, e, h),
         NEW pg \in Page, NEW key,
         \A x \in Page : x # pg => KnownAt(q, x) = KnownAt(p, x),
         KnownAt(q, pg) = KnownAt(p, pg) \cup {key},
         \A k \in KnownAt(p, pg) : k[1] # key[1]
  PROVE  Adds(p, q, key)
<1>1. InPage(key, pg)
  BY KnownInPage
<1>2. ASSUME NEW x \in Page, NEW k \in KnownAt(p, x)
      PROVE  k[1] # key[1]
  <2>1. InPage(k, x)
    BY <1>2, KnownInPage
  <2> QED
    BY <2>1, <1>1, <1>2 DEF InPage
<1>3. KnownAll(q) = KnownAll(p) \cup {key}
  BY DEF KnownAll
<1> QED
  BY <1>1, <1>2, <1>3 DEF Adds, InPage, KnownAll

\* The region at an address gone from its page is gone.
LEMMA DropsAt ==
  ASSUME NEW p, NEW own, NEW rank, NEW span, NEW home, Sound(p, own, rank, span, home),
         NEW q, NEW pg \in Page, NEW addr, addr \div PageSize = pg,
         \A x \in Page : x # pg => KnownAt(q, x) = KnownAt(p, x),
         KnownAt(q, pg) = {k \in KnownAt(p, pg) : k[1] # addr}
  PROVE  Drops(p, q, addr)
<1>1. ASSUME NEW x \in Page, x # pg, NEW k \in KnownAt(p, x)
      PROVE  k[1] # addr
  <2>1. InPage(k, x)
    BY <1>1, KnownInPage
  <2> QED
    BY <2>1, <1>1 DEF InPage
<1>2. KnownAll(q) \subseteq {k \in KnownAll(p) : k[1] # addr}
  BY <1>1 DEF KnownAll
<1>3. {k \in KnownAll(p) : k[1] # addr} \subseteq KnownAll(q)
  BY DEF KnownAll
<1> QED
  BY <1>2, <1>3 DEF Drops

-----------------------------------------------------------------------------

\* BusyIsLive, of any set of regions handed out and of regions held.
Agree(known, held) ==
  /\ {r.lo : r \in held} = {k[1] : k \in known}
  /\ \A r1, r2 \in held : r1 # r2 => r1.lo # r2.lo
  /\ \A r \in held : \E k \in known :
       /\ k[1] = r.lo
       /\ k[2] >= r.len
       /\ PoolStart + r.lo + k[2] <= PoolBytes

\* BusyIsLive is Agree of what the page table knows and what callers hold.
LEMMA AgreeIs == BusyIsLive <=> Agree(KnownAll(pool), live)
<1>1. UNION {Known(pg) : pg \in Page} = KnownAll(pool)
  BY KnownIs DEF KnownAll
<1> DEFINE known == UNION {Known(pg) : pg \in Page}
<1>2. BusyIsLive <=> Agree(known, live)
  BY DEF BusyIsLive, Agree
<1> QED
  BY <1>1, <1>2

\* A region known that was not and given to a caller: they still agree.
LEMMA AgreeAdd ==
  ASSUME NEW p, NEW q, NEW key, Adds(p, q, key), NEW held, Agree(KnownAll(p), held),
         NEW region, region.lo = key[1], key[2] >= region.len
  PROVE  Agree(KnownAll(q), held \cup {region})
<1> DEFINE known == KnownAll(p)
           more == held \cup {region}
<1>1. /\ KnownAll(q) = known \cup {key}
      /\ \A k \in known : k[1] # key[1]
      /\ PoolStart + key[1] + key[2] <= PoolBytes
  BY DEF Adds
<1>2. /\ {r.lo : r \in held} = {k[1] : k \in known}
      /\ \A r1, r2 \in held : r1 # r2 => r1.lo # r2.lo
      /\ \A r \in held : \E k \in known :
           /\ k[1] = r.lo
           /\ k[2] >= r.len
           /\ PoolStart + r.lo + k[2] <= PoolBytes
  BY DEF Agree
<1> HIDE DEF known
<1>3. {r.lo : r \in more} = {k[1] : k \in known \cup {key}}
  <2>1. {r.lo : r \in more} = {r.lo : r \in held} \cup {region.lo}
    OBVIOUS
  <2>2. {k[1] : k \in known \cup {key}} = {k[1] : k \in known} \cup {key[1]}
    OBVIOUS
  <2> QED
    BY <2>1, <2>2, <1>2
<1>4. \A r \in held : r.lo # region.lo
  <2> TAKE r \in held
  <2>1. r.lo \in {k[1] : k \in known}
    BY <1>2
  <2>2. PICK k \in known : r.lo = k[1]
    BY <2>1
  <2> QED
    BY <2>2, <1>1
<1>5. \A r1, r2 \in more : r1 # r2 => r1.lo # r2.lo
  BY <1>2, <1>4
<1>6. \A r \in more : \E k \in known \cup {key} :
        /\ k[1] = r.lo
        /\ k[2] >= r.len
        /\ PoolStart + r.lo + k[2] <= PoolBytes
  <2> TAKE r \in more
  <2>1. CASE r \in held
    BY <2>1, <1>2
  <2>2. CASE r = region
    BY <2>2, <1>1
  <2> QED
    BY <2>1, <2>2
<1>7. Agree(known \cup {key}, more)
  BY <1>3, <1>5, <1>6 DEF Agree
<1> QED
  BY <1>1, <1>7 DEF known

\* A region taken back from both: they still agree.
LEMMA AgreeDrop ==
  ASSUME NEW p, NEW q, NEW addr, Drops(p, q, addr), NEW held, Agree(KnownAll(p), held)
  PROVE  Agree(KnownAll(q), {r \in held : r.lo # addr})
<1> DEFINE known == KnownAll(p)
           less == {r \in held : r.lo # addr}
           left == {k \in known : k[1] # addr}
<1>1. KnownAll(q) = left
  BY DEF Drops
<1>2. /\ {r.lo : r \in held} = {k[1] : k \in known}
      /\ \A r1, r2 \in held : r1 # r2 => r1.lo # r2.lo
      /\ \A r \in held : \E k \in known :
           /\ k[1] = r.lo
           /\ k[2] >= r.len
           /\ PoolStart + r.lo + k[2] <= PoolBytes
  BY DEF Agree
<1> HIDE DEF known
<1>3. {r.lo : r \in less} = {k[1] : k \in left}
  <2>1. {r.lo : r \in less} = {r.lo : r \in held} \ {addr}
    OBVIOUS
  <2>2. {k[1] : k \in left} = {k[1] : k \in known} \ {addr}
    OBVIOUS
  <2> QED
    BY <2>1, <2>2, <1>2
<1>4. \A r1, r2 \in less : r1 # r2 => r1.lo # r2.lo
  BY <1>2
<1>5. \A r \in less : \E k \in left :
        /\ k[1] = r.lo
        /\ k[2] >= r.len
        /\ PoolStart + r.lo + k[2] <= PoolBytes
  BY <1>2
<1>6. Agree(left, less)
  BY <1>3, <1>4, <1>5 DEF Agree
<1> QED
  BY <1>1, <1>6

-----------------------------------------------------------------------------
(* Addresses inside a page, and the bitmaps of pages of small chunks.      *)

\* Every address is in a page.
LEMMA AddressPage ==
  ASSUME NEW addr \in 0 .. Pages * PageSize - 1
  PROVE  /\ addr \div PageSize \in Page
         /\ addr % PageSize \in 0 .. PageSize - 1
         /\ addr = (addr \div PageSize) * PageSize + (addr % PageSize)
<1> DEFINE d == PageSize
           x == addr \div d
           r == addr % d
<1>1. d \in Nat \ {0} /\ Pages \in Nat
  BY PoolHolds, NodeShape
<1>2. addr \in Int /\ 0 <= addr /\ addr < Pages * d
  <2>1. Pages * d \in Int
    BY <1>1
  <2> QED
    BY <2>1
<1> HIDE DEF d
<1>3. x \in Int /\ r \in 0 .. d - 1 /\ addr = x * d + r
  BY <1>1, <1>2, DivMod
<1> HIDE DEF x, r
<1>4. x * d \in Int /\ Pages * d \in Int
  BY <1>1, <1>3, TimesOrder
<1>5. x < Pages
  <2> SUFFICES ASSUME Pages <= x
               PROVE  FALSE
    BY <1>1, <1>3
  <2>1. Pages * d <= x * d
    BY <1>1, <1>3, TimesOrder
  <2> QED
    BY <2>1, <1>1, <1>2, <1>3, <1>4
<1>6. 0 <= x
  <2> SUFFICES ASSUME x < 0
               PROVE  FALSE
    BY <1>3
  <2>1. x * d + d <= 0 * d /\ 0 * d = 0
    BY <1>1, <1>3, TimesOrder
  <2> QED
    BY <2>1, <1>1, <1>2, <1>3, <1>4
<1>7. x \in Page
  BY <1>1, <1>3, <1>5, <1>6, NodeShape
<1> QED
  BY <1>3, <1>7 DEF x, r, d

\* The address of a chunk is the page and the chunk that rp_slab_free takes it for.
LEMMA AddressChunk ==
  ASSUME NEW addr \in 0 .. Pages * PageSize - 1, NEW s \in MinShift .. PageShift - 1,
         addr % Pow2[s] = 0
  PROVE  addr = ChunkKey(addr \div PageSize, s, (addr % PageSize) \div Pow2[s])[1]
<1> DEFINE d == Pow2[s]
           c == Chunks(s)
           x == addr \div PageSize
           r == addr % PageSize
           j == addr \div d
           i == r \div d
<1>1. d \in Nat \ {0} /\ c \in Nat \ {0} /\ c * d = PageSize
  <2>1. s \in 0 .. PageShift /\ s \in Nat
    BY ChunkRange, SlabAssumption
  <2> QED
    BY <2>1, ChunkCount, PowPositive
<1>2. x \in Int /\ r \in Int /\ addr \in Int /\ addr = x * PageSize + r
  <2>1. x \in Page /\ r \in 0 .. PageSize - 1 /\ addr = x * PageSize + r
    BY AddressPage
  <2>2. Page = 0 .. Pages - 1 /\ Pages \in Nat /\ PageSize \in Nat
    BY NodeShape, PoolHolds
  <2> HIDE DEF x, r
  <2>3. x \in Int
    BY <2>1, <2>2
  <2>4. r \in Int
    BY <2>1, <2>2
  <2>5. addr \in Int
    OBVIOUS
  <2> QED
    BY <2>1, <2>3, <2>4, <2>5
<1>3. j \in Int /\ addr = j * d + 0
  <2>1. addr % d = 0
    OBVIOUS
  <2> HIDE DEF d
  <2>2. addr \div d \in Int /\ addr = (addr \div d) * d + (addr % d)
    BY <1>1, <1>2, DivMod
  <2> QED
    BY <2>1, <2>2
<1>4. PageSize = c * d
  BY <1>1
<1> HIDE DEF d, c, x, r, j
<1>5. r = (j - x * c) * d + 0
  <2>1. addr = x * (c * d) + r
    BY <1>2, <1>4
  <2>2. x * (c * d) = (x * c) * d
    BY <1>1, <1>2
  <2>3. (j - x * c) * d = j * d - (x * c) * d
    BY <1>1, <1>2, <1>3
  <2>4. (x * c) * d \in Int /\ j * d \in Int
    BY <1>1, <1>2, <1>3
  <2> QED
    BY <2>1, <2>2, <2>3, <2>4, <1>2, <1>3
<1>6. i = j - x * c
  <2> DEFINE y == j - x * c
  <2>1. y \in Int /\ 0 \in 0 .. d - 1 /\ r = y * d + 0
    BY <1>1, <1>2, <1>3, <1>5
  <2> HIDE DEF y
  <2>2. r \div d = y
    BY <2>1, <1>1, <1>2, DivModUnique
  <2> QED
    BY <2>2 DEF y
<1>7. r = i * d
  <2>1. i * d \in Int
    BY <1>1, <1>2, <1>3, <1>6
  <2> QED
    BY <2>1, <1>5, <1>6
<1>8. addr = x * PageSize + i * d
  BY <1>2, <1>7
<1> QED
  BY <1>8 DEF ChunkKey, x, i, r, d

\* An address in a chunk: its page, its chunk, and how far inside it is.
LEMMA ChunkPlace ==
  ASSUME NEW s \in MinShift .. PageShift - 1, NEW x \in Page, NEW i \in 0 .. Chunks(s) - 1,
         NEW e \in 0 .. Pow2[s] - 1, NEW addr, addr = ChunkKey(x, s, i)[1] + e
  PROVE  /\ addr \in 0 .. Pages * PageSize - 1
         /\ addr \div PageSize = x
         /\ (addr % PageSize) \div Pow2[s] = i
         /\ addr % Pow2[s] = e
<1> DEFINE d == Pow2[s]
           c == Chunks(s)
           offset == i * d + e
           n == 1
           len == d - e
<1>1. d \in Nat \ {0} /\ c \in Nat \ {0} /\ c * d = PageSize
  <2>1. s \in 0 .. PageShift /\ s \in Nat
    BY ChunkRange, SlabAssumption
  <2> QED
    BY <2>1, ChunkCount, PowPositive
<1>2. /\ ChunkKey(x, s, i)[1] = x * PageSize + i * d
      /\ i * d \in Nat
      /\ i * d + d <= PageSize
  BY ChunkAddress
<1>3. i \in Int /\ e \in 0 .. d - 1 /\ x \in Int /\ PageSize \in Nat \ {0} /\ x + n <= Pages /\ n * PageSize = PageSize
  BY <1>1, NodeShape, PoolHolds
<1>4. addr = (x * PageSize + i * d) + e
  BY <1>2
<1> HIDE DEF d, c
<1>5. x * PageSize \in Int
  BY <1>3
<1> DEFINE y == x * PageSize
           z == i * d
<1>6. offset \in 0 .. PageSize - 1 /\ len \in Nat \ {0} /\ offset + len <= PageSize /\ addr = y + offset
  <2>1. y \in Int /\ z \in Nat /\ z + d <= PageSize /\ addr = (y + z) + e /\ offset = z + e
    BY <1>2, <1>4, <1>5
  <2> HIDE DEF y, z, offset
  <2> QED
    BY <2>1, <1>1, <1>3
<1>7. /\ addr \in 0 .. Pages * PageSize - 1
      /\ addr \div PageSize = x
  <2>1. n \in Nat \ {0} /\ offset + len <= n * PageSize
    BY <1>3, <1>6
  <2> HIDE DEF offset, len, n
  <2>2. /\ x * PageSize + offset \in 0 .. Pages * PageSize - 1
        /\ (x * PageSize + offset) \div PageSize = x
    BY <2>1, <1>3, <1>6, InsidePool
  <2> QED
    BY <2>2, <1>6
<1>8. addr % PageSize = offset
  <2>1. addr = x * PageSize + offset /\ addr \in Int
    BY <1>6, <1>5
  <2> HIDE DEF offset
  <2> QED
    BY <2>1, <1>3, <1>6, DivModUnique
<1>9. offset \div d = i
  <2>1. offset = i * d + e /\ offset \in Int
    BY <1>6
  <2> HIDE DEF offset
  <2> QED
    BY <2>1, <1>1, <1>3, DivModUnique
<1>10. addr % d = e
  <2> DEFINE j == x * c + i
  <2>1. j \in Int
    BY <1>1, <1>3
  <2>2. addr = j * d + e
    <3>1. x * PageSize = (x * c) * d
      BY <1>1, <1>3
    <3>2. (x * c + i) * d = (x * c) * d + i * d
      BY <1>1, <1>3
    <3>3. (x * c) * d \in Int /\ i * d \in Int
      BY <1>1, <1>3
    <3> QED
      BY <3>1, <3>2, <3>3, <1>4
  <2>3. addr \in Int
    BY <1>5, <1>6
  <2> HIDE DEF j
  <2> QED
    BY <2>1, <2>2, <2>3, <1>1, <1>3, DivModUnique
<1> QED
  BY <1>7, <1>8, <1>9, <1>10 DEF d

\* An address is not in the bitmap of a page of small chunks.
OffBitmap(p, addr) ==
  LET x == addr \div PageSize IN
  p.type[x] = "SMALL" =>
    (addr % PageSize) \div Pow2[ShiftOf(p, x)] \notin Reserved(ShiftOf(p, x))

\* If the page is one of small chunks it was, and of chunks of that size.
SameCut(p, q, x) ==
  q.type[x] = "SMALL" => p.type[x] = "SMALL" /\ ShiftOf(q, x) = ShiftOf(p, x)

\* Then an address off the bitmap still is.
LEMMA StaysOff ==
  ASSUME NEW p, NEW q, NEW addr, SameCut(p, q, addr \div PageSize), OffBitmap(p, addr)
  PROVE  OffBitmap(q, addr)
BY DEF OffBitmap, SameCut

\* A page nothing was done to, or that is not cut into chunks now.
LEMMA CutKept ==
  ASSUME NEW p, NEW own, NEW span, NEW q, NEW w, NEW e, NEW x,
         \/ /\ q.type[x] = p.type[x]
            /\ q.slab[x] = p.slab[x]
         \/ /\ InsideAt(p, own, span, x)
            /\ InsideAt(q, w, e, x) \/ FreeAt(q, w, e, x)
         \/ BusyAt(q, w, e, x) \/ FreeAt(q, w, e, x)
  PROVE  SameCut(p, q, x)
<1>1. CASE q.type[x] = p.type[x] /\ q.slab[x] = p.slab[x]
  BY <1>1 DEF SameCut, ShiftOf
<1>2. CASE q.type[x] = "PAGE"
  BY <1>2 DEF SameCut
<1> QED
  BY <1>1, <1>2 DEF InsideAt, FreeAt, BusyAt

-----------------------------------------------------------------------------
(* The actions.                                                            *)

\* A page that nothing was done to, or that was inside an extent and is not in use.
LEMMA OthersKept ==
  ASSUME NEW p \in Pools, NEW own, NEW span, NEW q \in Pools, NEW w, NEW e, NEW x \in Page,
         \/ /\ q.type[x] = p.type[x]
            /\ q.slab[x] = p.slab[x]
            /\ q.bitmap[x] = p.bitmap[x]
         \/ /\ InsideAt(p, own, span, x)
            /\ InsideAt(q, w, e, x) \/ FreeAt(q, w, e, x)
  PROVE  KnownAt(q, x) = KnownAt(p, x)
<1>1. CASE /\ q.type[x] = p.type[x]
           /\ q.slab[x] = p.slab[x]
           /\ q.bitmap[x] = p.bitmap[x]
  BY <1>1, KnownKept
<1>2. CASE InsideAt(p, own, span, x) /\ (InsideAt(q, w, e, x) \/ FreeAt(q, w, e, x))
  <2>1. KnownAt(p, x) = {}
    BY <1>2, KnownKinds
  <2>2. KnownAt(q, x) = {}
    BY <1>2, KnownKinds
  <2> QED
    BY <2>1, <2>2
<1> QED
  BY <1>1, <1>2

\* The first chunk size that is large enough is less than a page.
LEMMA ShiftLarge ==
  ASSUME NEW size \in Nat, size < MaxSize
  PROVE  /\ ShiftFor(size) \in MinShift .. PageShift - 1
         /\ Pow2[ShiftFor(size)] >= size
<1> DEFINE Fits(k) == Pow2[k] >= size /\ (k > MinShift => Pow2[k - 1] < size)
           T == {k \in MinShift .. PageShift : Pow2[k] >= size}
           shift == ShiftFor(size)
<1>1. PageShift \in Nat /\ MinShift \in 1 .. PageShift - 1
  BY SlabAssumption
<1>2. PageSize = 2 * Pow2[PageShift - 1] /\ Pow2[PageShift - 1] \in Nat \ {0}
  <2>1. PageShift - 1 \in Nat /\ PageShift - 1 + 1 = PageShift
    BY <1>1
  <2> QED
    BY <2>1, PowDef, PowPositive DEF PageSize
<1>3. MaxSize = Pow2[PageShift - 1]
  <2> DEFINE v == Pow2[PageShift - 1]
  <2>1. v \in Nat \ {0} /\ PageSize = 2 * v
    BY <1>2
  <2> HIDE DEF v
  <2>2. (2 * v) \div 2 = v
    BY <2>1
  <2> QED
    BY <2>1, <2>2 DEF MaxSize, v
<1>4. \A k \in MinShift .. PageShift : Pow2[k] \in Nat /\ (k > MinShift => Pow2[k - 1] \in Nat)
  BY <1>1, PowDef
<1>5. T \subseteq Nat /\ PageShift \in T
  <2>1. Pow2[PageShift] >= size
    BY <1>2, <1>3 DEF PageSize
  <2> QED
    BY <2>1, <1>1
<1>6. PICK k \in T : \A j \in T : k <= j
  <2>1. T # {}
    BY <1>5
  <2> HIDE DEF T
  <2> QED
    BY <2>1, <1>5, LeastMember
<1>7. Fits(k) /\ k \in MinShift .. PageShift
  <2>1. k \in MinShift .. PageShift /\ Pow2[k] >= size
    BY <1>6
  <2>2. ASSUME k > MinShift
        PROVE  Pow2[k - 1] < size
    <3>1. k - 1 \in MinShift .. PageShift /\ ~(k <= k - 1)
      BY <2>1, <2>2, <1>1
    <3>2. k - 1 \notin T
      BY <3>1, <1>6
    <3>3. ~(Pow2[k - 1] >= size)
      BY <3>1, <3>2
    <3>4. Pow2[k - 1] \in Nat
      BY <2>1, <2>2, <1>4
    <3> QED
      BY <3>3, <3>4
  <2> QED
    BY <2>1, <2>2
<1>8. shift = CHOOSE j \in MinShift .. PageShift : Fits(j)
  BY DEF ShiftFor
<1> HIDE DEF shift
<1>9. shift \in MinShift .. PageShift /\ Fits(shift)
  <2> HIDE DEF Fits
  <2> QED
    BY <1>7, <1>8
<1>10. shift # PageShift
  <2> SUFFICES ASSUME shift = PageShift
               PROVE  FALSE
    OBVIOUS
  <2>1. Pow2[PageShift - 1] < size
    BY <1>1, <1>9
  <2> QED
    BY <2>1, <1>2, <1>3
<1> QED
  BY <1>1, <1>9, <1>10 DEF shift

\* A run of at least half a page is of one page or more, and long enough.
LEMMA RunLarge ==
  ASSUME NEW size \in Nat, size >= MaxSize,
         NEW n, n = size \div PageSize + (IF size % PageSize = 0 THEN 0 ELSE 1)
  PROVE  n \in Nat \ {0} /\ n * PageSize >= size
<1> DEFINE d == PageSize
           q == size \div d
           r == size % d
<1>1. MaxSize \in Nat \ {0} /\ d \in Nat \ {0}
  <2>1. PageShift - 1 \in Nat /\ PageShift - 1 + 1 = PageShift
    BY SlabAssumption
  <2> DEFINE v == Pow2[PageShift - 1]
  <2>2. PageSize = 2 * v /\ v \in Nat \ {0}
    BY <2>1, PowDef, PowPositive DEF PageSize
  <2> HIDE DEF v
  <2> QED
    BY <2>2 DEF MaxSize
<1> HIDE DEF d
<1>2. q \in Int /\ r \in 0 .. d - 1 /\ size = q * d + r
  BY <1>1, DivMod
<1>3. n = q + (IF r = 0 THEN 0 ELSE 1)
  BY DEF d
<1> HIDE DEF q, r
<1>4. n \in Int /\ n * d >= size /\ q * d \in Int
  <2>1. q * d \in Int
    BY <1>1, <1>2, TimesOrder
  <2>2. CASE r = 0
    BY <2>1, <2>2, <1>1, <1>2, <1>3
  <2>3. CASE r # 0
    <3>1. n = q + 1 /\ n \in Int
      BY <2>3, <1>2, <1>3
    <3>2. q * d + d <= n * d /\ n * d \in Int
      BY <3>1, <1>1, <1>2, TimesOrder
    <3> QED
      BY <2>1, <3>1, <3>2, <1>1, <1>2
  <2> QED
    BY <2>2, <2>3
<1>5. n > 0
  <2> SUFFICES ASSUME n <= 0
               PROVE  FALSE
    BY <1>4
  <2>1. n * d <= 0 * d /\ 0 * d = 0 /\ n * d \in Int
    BY <1>1, <1>4, TimesOrder
  <2> QED
    BY <2>1, <1>1, <1>4
<1> QED
  BY <1>4, <1>5 DEF d

-----------------------------------------------------------------------------

\* What an allocation leaves: a sound pool that knows of one region more, the
\* caller's, and of the addresses given back those nothing was done about.
Taken(p, q, size, held, holds, old, new) ==
  \E w, r, e, h, key :
    /\ Sound(q, w, r, e, h)
    /\ Adds(p, q, key)
    /\ holds = held \cup {[lo |-> key[1], len |-> size]}
    /\ key[2] >= size
    /\ \A a \in new : a \in old /\ a # key[1] /\ SameCut(p, q, a \div PageSize)

\* A run's first address is one of its addresses.
LEMMA SpanStart ==
  ASSUME NEW pg \in Page, NEW n \in Nat \ {0}
  PROVE  pg * PageSize \in PageSpan(pg, n)
<1>1. PageSize \in Nat \ {0} /\ pg \in Int
  BY PoolHolds, NodeShape
<1> DEFINE d == PageSize
<1> HIDE DEF d
<1>2. d \in Nat \ {0}
  BY <1>1 DEF d
<1>3. pg + n \in Int /\ pg < pg + n
  BY <1>1
<1>4. pg * d + d <= (pg + n) * d /\ pg * d \in Int /\ (pg + n) * d \in Int
  BY <1>1, <1>2, <1>3, TimesOrder
<1>5. pg * d \in pg * d .. (pg + n) * d - 1
  BY <1>2, <1>4
<1> QED
  BY <1>5 DEF d, PageSpan

\* An address outside a page is in another.
LEMMA OffPage ==
  ASSUME NEW pg \in Page, NEW addr \in 0 .. Pages * PageSize - 1, addr \notin PageSpan(pg, 1)
  PROVE  addr \div PageSize # pg
<1> SUFFICES ASSUME addr \div PageSize = pg
             PROVE  addr \in PageSpan(pg, 1)
  OBVIOUS
<1> DEFINE d == PageSize
           r == addr % d
<1>1. d \in Nat \ {0} /\ pg \in Int /\ addr \in Int
  BY PoolHolds, NodeShape
<1>2. r \in 0 .. d - 1 /\ addr = pg * d + r
  BY AddressPage
<1> HIDE DEF d, r
<1>3. (pg + 1) * d = pg * d + d /\ pg * d \in Int
  BY <1>1
<1>4. addr \in pg * d .. (pg + 1) * d - 1
  BY <1>1, <1>2, <1>3
<1> QED
  BY <1>4 DEF d, PageSpan

\* A run of pages is an allocation as Taken has it.
LEMMA AllocRunTakes ==
  ASSUME NEW own, NEW rank, NEW span, NEW home, Sound(pool, own, rank, span, home),
         NEW size \in Nat, stale \subseteq 0 .. Pages * PageSize - 1, AllocRun(size)
  PROVE  Taken(pool, pool', size, live, live', stale, stale')
<1> DEFINE n == size \div PageSize + (IF size % PageSize = 0 THEN 0 ELSE 1)
           none == {}
<1>1. size >= MaxSize
  BY DEF AllocRun
<1>2. PICK pg \in FirstFit(pool, n) :
        /\ pool' = TakeRun(pool, pg, n)
        /\ HandOut(pg * PageSize, size, PageSpan(pg, n))
  BY DEF AllocRun
<1>3. n \in Nat \ {0} /\ n * PageSize >= size
  BY <1>1, RunLarge
<1> HIDE DEF n
<1>4. pool \in Pools /\ Listed(pool, own, rank, none) /\ \A x \in Page : PageOK(pool, own, span, x)
  BY DEF Sound
<1>5. pg \in Page /\ own[pg] = FreeHead /\ pool.slab[pg] >= n
  <2>1. n \in Int
    BY <1>3
  <2> HIDE DEF none
  <2> QED
    BY <2>1, <1>2, <1>4, FirstFitOwn
<1> DEFINE q == TakeRun(pool, pg, n)
<1>6. n <= pool.slab[pg]
  <2>1. pool.slab[pg] \in Int
    BY <1>4, <1>5 DEF Pools
  <2> QED
    BY <2>1, <1>3, <1>5
<1>7. PICK w, r, e, h :
        /\ Sound(q, w, r, e, h)
        /\ BusyAt(q, w, e, pg)
        /\ e[pg] = n
        /\ q.bitmap = pool.bitmap
        /\ \A x \in Page \ {pg} :
             \/ /\ q.type[x] = pool.type[x]
                /\ q.slab[x] = pool.slab[x]
                /\ w[x] = own[x]
             \/ /\ InsideAt(pool, own, span, x)
                /\ InsideAt(q, w, e, x) \/ FreeAt(q, w, e, x)
  BY <1>3, <1>5, <1>6, TakeRunSound
<1>8. pool' = q
  BY <1>2
<1> HIDE DEF q
<1>9. q \in Pools
  BY <1>7 DEF Sound
<1>10. \A x \in Page : x # pg => KnownAt(q, x) = KnownAt(pool, x)
  <2> SUFFICES ASSUME NEW x \in Page, x # pg
               PROVE  KnownAt(q, x) = KnownAt(pool, x)
    OBVIOUS
  <2>1. \/ /\ q.type[x] = pool.type[x]
           /\ q.slab[x] = pool.slab[x]
           /\ q.bitmap[x] = pool.bitmap[x]
        \/ /\ InsideAt(pool, own, span, x)
           /\ InsideAt(q, w, e, x) \/ FreeAt(q, w, e, x)
    BY <1>7
  <2> QED
    BY <2>1, <1>4, <1>9, OthersKept
<1>11. KnownAt(pool, pg) = {}
  <2>1. FreeAt(pool, own, span, pg)
    BY <1>4, <1>5, PageIs
  <2> QED
    BY <2>1, <1>4, <1>5, KnownKinds
<1> DEFINE key == RunKey(pg, n)
<1>12. KnownAt(q, pg) = {key}
  <2>1. KnownAt(q, pg) = {RunKey(pg, e[pg])}
    BY <1>5, <1>7, <1>9, KnownKinds
  <2> QED
    BY <2>1, <1>7
<1>13. key[1] = pg * PageSize /\ key[2] = n * PageSize
  BY DEF RunKey
<1> HIDE DEF key
<1>14. Adds(pool, q, key)
  <2>1. KnownAt(q, pg) = KnownAt(pool, pg) \cup {key} /\ \A k \in KnownAt(pool, pg) : k[1] # key[1]
    BY <1>11, <1>12
  <2> QED
    BY <2>1, <1>5, <1>7, <1>10, AddsAt
<1>15. live' = live \cup {[lo |-> key[1], len |-> size]} /\ key[2] >= size
  BY <1>2, <1>3, <1>13 DEF HandOut
<1>16. ASSUME NEW a \in stale'
       PROVE  a \in stale /\ a # key[1] /\ SameCut(pool, q, a \div PageSize)
  <2>1. a \in stale /\ a \notin PageSpan(pg, n)
    BY <1>2, <1>16 DEF HandOut
  <2>2. a # key[1]
    BY <2>1, <1>3, <1>5, <1>13, SpanStart
  <2>3. a \div PageSize \in Page
    BY <2>1, AddressPage
  <2>4. \A x \in Page : SameCut(pool, q, x)
    <3> SUFFICES ASSUME NEW x \in Page
                 PROVE  SameCut(pool, q, x)
      OBVIOUS
    <3> QED
      BY <1>7, CutKept
  <2> QED
    BY <2>1, <2>2, <2>3, <2>4
<1>17. Taken(pool, q, size, live, live', stale, stale')
  BY <1>7, <1>14, <1>15, <1>16 DEF Taken
<1> QED
  BY <1>8, <1>17

\* The page a slot's list begins with is cut into chunks of its size and has room.
LEMMA FirstOfSlot ==
  ASSUME NEW p, NEW own, NEW rank, NEW span, NEW home, Sound(p, own, rank, span, home),
         NEW s \in MinShift .. PageShift - 1, NEW pg, pg = p.next[SlotOf(s)], p.next[pg] # pg
  PROVE  pg \in Page /\ Divided(p, pg, s) /\ Room(p, pg, s) # {} /\ Vacant(p, pg) = Room(p, pg, s)
<1> DEFINE slot == SlotOf(s)
           none == {}
<1>1. p \in Pools /\ Listed(p, own, rank, none) /\ \A x \in Page : PageOK(p, own, span, x)
  BY DEF Sound
<1>2. slot \in Head /\ slot # FreeHead /\ slot # Null /\ Null # FreeHead
  BY NodeShape
<1>3. pg # slot
  BY DEF slot
<1>4. NextOK(p.next, p.prev, own, rank, slot, slot)
  BY <1>1, <1>2 DEF Listed, Linked
<1>5. pg \in Page /\ own[pg] = slot
  BY <1>3, <1>4 DEF NextOK
<1>6. PageOK(p, own, span, pg)
  BY <1>1, <1>5
<1>7. CutAt(p, own, span, pg)
  BY <1>2, <1>5, <1>6 DEF PageOK, InsideAt, FreeAt, BusyAt
<1>8. PICK c \in MinShift .. PageShift - 1 :
        /\ Divided(p, pg, c)
        /\ span[pg] = 1
        /\ own[pg] = IF Room(p, pg, c) = {} THEN Null ELSE SlotOf(c)
  BY <1>7 DEF CutAt
<1>9. Room(p, pg, c) # {} /\ SlotOf(c) = SlotOf(s)
  BY <1>2, <1>5, <1>8
<1>10. c = s
  BY <1>9, NodeShape
<1>11. Vacant(p, pg) = Room(p, pg, c)
  <2>1. ShiftOf(p, pg) = c
    BY <1>1, <1>5, <1>8, DividedShift
  <2> QED
    BY <2>1 DEF Vacant, Room
<1> QED
  BY <1>5, <1>8, <1>9, <1>10, <1>11

\* The chunks handed out of a page, one more or one less.
LEMMA ChunkAdded ==
  ASSUME NEW p \in Pools, NEW q, NEW pg \in Page, NEW s, Divided(p, pg, s),
         NEW i \in Room(p, pg, s), Busy(q, pg) = Busy(p, pg) \cup {i}
  PROVE  /\ ChunkKeys(q, pg, s) = ChunkKeys(p, pg, s) \cup {ChunkKey(pg, s, i)}
         /\ \A k \in ChunkKeys(p, pg, s) : k[1] # ChunkKey(pg, s, i)[1]
<1>1. Busy(p, pg) \subseteq 0 .. Chunks(s) - 1 /\ Reserved(s) \subseteq Busy(p, pg)
  BY BusyRange
<1>2. i \in 0 .. Chunks(s) - 1 /\ i \notin Busy(p, pg) /\ s \in MinShift .. PageShift - 1
  BY DEF Room, Divided
<1>3. i \notin Reserved(s)
  BY <1>1, <1>2
<1>4. ChunkKeys(q, pg, s) = ChunkKeys(p, pg, s) \cup {ChunkKey(pg, s, i)}
  BY <1>3 DEF ChunkKeys
<1>5. ASSUME NEW k \in ChunkKeys(p, pg, s)
      PROVE  k[1] # ChunkKey(pg, s, i)[1]
  <2>1. PICK j \in Busy(p, pg) : k = ChunkKey(pg, s, j)
    BY <1>5 DEF ChunkKeys
  <2>2. j \in 0 .. Chunks(s) - 1 /\ i # j
    BY <2>1, <1>1, <1>2
  <2> QED
    BY <2>1, <2>2, <1>2, ChunkAddressDiffers
<1> QED
  BY <1>4, <1>5

\* One chunk less, found by its address.
LEMMA ChunkDropped ==
  ASSUME NEW p \in Pools, NEW q, NEW pg \in Page, NEW s, Divided(p, pg, s),
         NEW i \in Busy(p, pg), Busy(q, pg) = Busy(p, pg) \ {i},
         NEW addr, addr = ChunkKey(pg, s, i)[1]
  PROVE  ChunkKeys(q, pg, s) = {k \in ChunkKeys(p, pg, s) : k[1] # addr}
<1>1. Busy(p, pg) \subseteq 0 .. Chunks(s) - 1 /\ s \in MinShift .. PageShift - 1
  BY BusyRange DEF Divided
<1>2. \A j \in Busy(p, pg) : j # i => ChunkKey(pg, s, j)[1] # addr
  <2> TAKE j \in Busy(p, pg)
  <2> HAVE j # i
  <2>1. j \in 0 .. Chunks(s) - 1 /\ i \in 0 .. Chunks(s) - 1
    BY <1>1
  <2> QED
    BY <2>1, <1>1, ChunkAddressDiffers
<1>3. ChunkKeys(q, pg, s) \subseteq {k \in ChunkKeys(p, pg, s) : k[1] # addr}
  BY <1>2 DEF ChunkKeys
<1>4. {k \in ChunkKeys(p, pg, s) : k[1] # addr} \subseteq ChunkKeys(q, pg, s)
  BY DEF ChunkKeys
<1> QED
  BY <1>3, <1>4

\* A chunk of a page in its slot is one.
LEMMA AllocChunkTakes ==
  ASSUME NEW own, NEW rank, NEW span, NEW home, Sound(pool, own, rank, span, home),
         NEW size \in Nat, stale \subseteq 0 .. Pages * PageSize - 1, AllocChunk(size)
  PROVE  Taken(pool, pool', size, live, live', stale, stale')
<1> DEFINE s == ShiftFor(size)
           pg == pool.next[SlotOf(s)]
<1>1. size < MaxSize /\ pool.next[pg] # pg
  BY DEF AllocChunk
<1>2. PICK i \in Vacant(pool, pg) :
        /\ pool' = IF Vacant(SetBusy(pool, pg, i), pg) # {} THEN SetBusy(pool, pg, i)
                   ELSE [Unlink(SetBusy(pool, pg, i), pg) EXCEPT !.next[pg] = Null, !.prev[pg] = Null]
        /\ HandOut(pg * PageSize + i * Pow2[s], size, {pg * PageSize + i * Pow2[s]})
  BY DEF AllocChunk
<1>3. s \in MinShift .. PageShift - 1 /\ Pow2[s] >= size
  BY <1>1, ShiftLarge
<1>4. pg = pool.next[SlotOf(s)]
  OBVIOUS
<1> HIDE DEF s, pg
<1>5. pg \in Page /\ Divided(pool, pg, s) /\ Vacant(pool, pg) = Room(pool, pg, s)
  BY <1>1, <1>3, <1>4, FirstOfSlot
<1>6. pool \in Pools /\ i \in Room(pool, pg, s) /\ i \in 0 .. Chunks(s) - 1 /\ i \notin Busy(pool, pg)
  BY <1>2, <1>5 DEF Sound, Room
<1> DEFINE m == SetBusy(pool, pg, i)
           q == IF Room(m, pg, s) # {} THEN m ELSE Dropped(Unlink(m, pg), pg)
<1>7. Vacant(m, pg) = Room(m, pg, s)
  <2>1. SameBut(pool, m, pg) /\ Divided(m, pg, s)
    BY <1>5, <1>6, MarkDivided
  <2> HIDE DEF m
  <2>2. ShiftOf(m, pg) = s
    BY <2>1, <1>5, DividedShift DEF SameBut
  <2> QED
    BY <2>2 DEF Vacant, Room
<1>8. pool' = q
  BY <1>2, <1>7 DEF Dropped
<1>9. /\ \E w : Sound(q, w, rank, span, home)
      /\ Divided(q, pg, s)
      /\ Busy(q, pg) = Busy(pool, pg) \cup {i}
      /\ \A x \in Page \ {pg} : /\ q.type[x] = pool.type[x]
                                /\ q.slab[x] = pool.slab[x]
                                /\ q.bitmap[x] = pool.bitmap[x]
  <2>1. q = IF Room(SetBusy(pool, pg, i), pg, s) # {} THEN SetBusy(pool, pg, i)
            ELSE Dropped(Unlink(SetBusy(pool, pg, i), pg), pg)
    OBVIOUS
  <2> HIDE DEF q
  <2> QED
    BY <2>1, <1>5, <1>6, MarkSound
<1> HIDE DEF q
<1>10. PICK w : Sound(q, w, rank, span, home)
  BY <1>9
<1>11. q \in Pools
  BY <1>10 DEF Sound
<1>12. \A x \in Page : x # pg => KnownAt(q, x) = KnownAt(pool, x)
  BY <1>9, KnownKept
<1> DEFINE key == ChunkKey(pg, s, i)
<1>13. KnownAt(q, pg) = KnownAt(pool, pg) \cup {key} /\ \A k \in KnownAt(pool, pg) : k[1] # key[1]
  <2>1. KnownAt(pool, pg) = ChunkKeys(pool, pg, s) /\ KnownAt(q, pg) = ChunkKeys(q, pg, s)
    BY <1>5, <1>6, <1>9, <1>11, KnownKinds
  <2> QED
    BY <2>1, <1>5, <1>6, <1>9, ChunkAdded
<1>14. key[1] = pg * PageSize + i * Pow2[s] /\ key[2] = Pow2[s]
  BY DEF ChunkKey
<1> HIDE DEF key
<1>15. Adds(pool, q, key)
  BY <1>5, <1>10, <1>12, <1>13, AddsAt
<1>16. live' = live \cup {[lo |-> key[1], len |-> size]} /\ key[2] >= size
  BY <1>2, <1>3, <1>14 DEF HandOut
<1>17. ASSUME NEW x \in Page
       PROVE  SameCut(pool, q, x)
  <2>1. CASE x = pg
    BY <2>1, <1>5, <1>6, <1>9, <1>11, DividedShift DEF SameCut, Divided
  <2>2. CASE x # pg
    BY <2>2, <1>9 DEF SameCut, ShiftOf
  <2> QED
    BY <2>1, <2>2
<1>18. ASSUME NEW a \in stale'
       PROVE  a \in stale /\ a # key[1] /\ SameCut(pool, q, a \div PageSize)
  <2>1. a \in stale /\ a # key[1]
    BY <1>2, <1>14, <1>18 DEF HandOut
  <2>2. a \div PageSize \in Page
    BY <2>1, AddressPage
  <2> QED
    BY <2>1, <2>2, <1>17
<1>19. Taken(pool, q, size, live, live', stale, stale')
  BY <1>10, <1>15, <1>16, <1>18 DEF Taken
<1> QED
  BY <1>8, <1>19

\* The first chunk of a new page is one.
LEMMA AllocNewPageTakes ==
  ASSUME NEW own, NEW rank, NEW span, NEW home, Sound(pool, own, rank, span, home),
         NEW size \in Nat, stale \subseteq 0 .. Pages * PageSize - 1, AllocNewPage(size)
  PROVE  Taken(pool, pool', size, live, live', stale, stale')
<1> DEFINE s == ShiftFor(size)
           i == Cardinality(Reserved(s))
           none == {}
<1>1. size < MaxSize /\ pool.next[SlotOf(s)] = SlotOf(s)
  BY DEF AllocNewPage
<1>2. PICK pg \in FirstFit(pool, 1) :
        /\ pool' = NewPage(pool, pg, s)
        /\ HandOut(pg * PageSize + i * Pow2[s], size, PageSpan(pg, 1))
  BY DEF AllocNewPage, NewPage
<1>3. s \in MinShift .. PageShift - 1 /\ Pow2[s] >= size
  BY <1>1, ShiftLarge
<1> HIDE DEF s
<1>4. pool \in Pools /\ Listed(pool, own, rank, none) /\ \A x \in Page : PageOK(pool, own, span, x)
  BY DEF Sound
<1>5. pg \in Page /\ own[pg] = FreeHead
  <2> DEFINE n == 1
  <2>1. n \in Int /\ pg \in FirstFit(pool, n)
    BY <1>2
  <2> HIDE DEF none, n
  <2> QED
    BY <2>1, <1>4, FirstFitOwn
<1> DEFINE q == NewPage(pool, pg, s)
<1>6. /\ \E w, r, e, h :
           /\ Sound(q, w, r, e, h)
           /\ \A x \in Page \ {pg} :
                \/ /\ q.type[x] = pool.type[x]
                   /\ q.slab[x] = pool.slab[x]
                   /\ q.bitmap[x] = pool.bitmap[x]
                \/ /\ InsideAt(pool, own, span, x)
                   /\ InsideAt(q, w, e, x) \/ FreeAt(q, w, e, x)
      /\ Divided(q, pg, s)
      /\ Busy(q, pg) = 0 .. i
  BY <1>1, <1>3, <1>5, FirstSound
<1>7. pool' = q
  BY <1>2
<1> HIDE DEF q
<1>8. PICK w, r, e, h :
        /\ Sound(q, w, r, e, h)
        /\ \A x \in Page \ {pg} :
             \/ /\ q.type[x] = pool.type[x]
                /\ q.slab[x] = pool.slab[x]
                /\ q.bitmap[x] = pool.bitmap[x]
             \/ /\ InsideAt(pool, own, span, x)
                /\ InsideAt(q, w, e, x) \/ FreeAt(q, w, e, x)
  BY <1>6
<1>9. q \in Pools
  BY <1>8 DEF Sound
<1>10. \A x \in Page : x # pg => KnownAt(q, x) = KnownAt(pool, x)
  <2> SUFFICES ASSUME NEW x \in Page, x # pg
               PROVE  KnownAt(q, x) = KnownAt(pool, x)
    OBVIOUS
  <2>1. \/ /\ q.type[x] = pool.type[x]
           /\ q.slab[x] = pool.slab[x]
           /\ q.bitmap[x] = pool.bitmap[x]
        \/ /\ InsideAt(pool, own, span, x)
           /\ InsideAt(q, w, e, x) \/ FreeAt(q, w, e, x)
    BY <1>8
  <2> QED
    BY <2>1, <1>4, <1>9, OthersKept
<1>11. KnownAt(pool, pg) = {}
  <2>1. FreeAt(pool, own, span, pg)
    BY <1>4, <1>5, PageIs
  <2> QED
    BY <2>1, <1>4, <1>5, KnownKinds
<1> DEFINE key == ChunkKey(pg, s, i)
<1>12. KnownAt(q, pg) = {key}
  <2>1. KnownAt(q, pg) = ChunkKeys(q, pg, s)
    BY <1>5, <1>6, <1>9, KnownKinds
  <2>2. PICK n \in Nat : Reserved(s) = 0 .. n - 1 /\ i = n
    BY <1>3, ReservedShape
  <2>3. (0 .. i) \ Reserved(s) = {i}
    <3> HIDE DEF i
    <3> QED
      BY <2>2
  <2>4. ChunkKeys(q, pg, s) = {ChunkKey(pg, s, j) : j \in {i}}
    BY <2>3, <1>6 DEF ChunkKeys
  <2> QED
    BY <2>1, <2>4
<1>13. key[1] = pg * PageSize + i * Pow2[s] /\ key[2] = Pow2[s]
  BY DEF ChunkKey
<1> HIDE DEF key
<1>14. Adds(pool, q, key)
  <2>1. KnownAt(q, pg) = KnownAt(pool, pg) \cup {key} /\ \A k \in KnownAt(pool, pg) : k[1] # key[1]
    BY <1>11, <1>12
  <2> QED
    BY <2>1, <1>5, <1>8, <1>10, AddsAt
<1>15. live' = live \cup {[lo |-> key[1], len |-> size]} /\ key[2] >= size
  BY <1>2, <1>3, <1>13 DEF HandOut
<1>16. ASSUME NEW a \in stale'
       PROVE  a \in stale /\ a # key[1] /\ SameCut(pool, q, a \div PageSize)
  <2>1. a \in stale /\ a \notin PageSpan(pg, 1)
    BY <1>2, <1>16 DEF HandOut
  <2>2. a \div PageSize \in Page /\ a \div PageSize # pg
    BY <2>1, <1>5, AddressPage, OffPage
  <2>3. key[1] \div PageSize = pg
    BY <1>5, <1>8, <1>12, KnownInPage DEF InPage
  <2>4. \A x \in Page \ {pg} : SameCut(pool, q, x)
    <3> SUFFICES ASSUME NEW x \in Page \ {pg}
                 PROVE  SameCut(pool, q, x)
      OBVIOUS
    <3> QED
      BY <1>8, CutKept
  <2> QED
    BY <2>1, <2>2, <2>3, <2>4
<1>17. Taken(pool, q, size, live, live', stale, stale')
  BY <1>8, <1>14, <1>15, <1>16 DEF Taken
<1> QED
  BY <1>7, <1>17

-----------------------------------------------------------------------------

\* What a free leaves: a sound pool that knows of nothing at the address any more,
\* and no page of small chunks that was not one.
Returned(p, q, addr) ==
  /\ \E w, r, e, h : Sound(q, w, r, e, h)
  /\ Drops(p, q, addr)
  /\ \A x \in Page : SameCut(p, q, x)

-----------------------------------------------------------------------------
(* The invariant.                                                          *)

\* Pages given back: nothing is known of them, and of the others what was.
LEMMA FreedKnown ==
  ASSUME NEW p, NEW own, NEW rank, NEW span, NEW home, Sound(p, own, rank, span, home),
         NEW pg \in Page, NEW n \in Nat \ {0}, span[pg] = n
  PROVE  /\ \E r : Sound(FreePages(p, pg, n), Owned(own, pg, FreeHead), r, span, home)
         /\ KnownAt(FreePages(p, pg, n), pg) = {}
         /\ \A x \in Page : x # pg => KnownAt(FreePages(p, pg, n), x) = KnownAt(p, x)
         /\ \A x \in Page : SameCut(p, FreePages(p, pg, n), x)
<1> DEFINE q == FreePages(p, pg, n)
           w == Owned(own, pg, FreeHead)
<1>1. PICK r :
        /\ Sound(q, w, r, span, home)
        /\ FreeAt(q, w, span, pg)
        /\ q.bitmap = p.bitmap
        /\ \A x \in Page \ {pg} :
             \/ q.type[x] = p.type[x] /\ q.slab[x] = p.slab[x]
             \/ InsideAt(p, own, span, x) /\ InsideAt(q, w, span, x)
  BY FreePagesSound
<1> HIDE DEF q, w
<1>2. p \in Pools /\ q \in Pools
  BY <1>1 DEF Sound
<1>3. KnownAt(q, pg) = {}
  BY <1>1, <1>2, KnownKinds
<1>4. ASSUME NEW x \in Page, x # pg
      PROVE  KnownAt(q, x) = KnownAt(p, x)
  <2>1. \/ /\ q.type[x] = p.type[x]
           /\ q.slab[x] = p.slab[x]
           /\ q.bitmap[x] = p.bitmap[x]
        \/ /\ InsideAt(p, own, span, x)
           /\ InsideAt(q, w, span, x) \/ FreeAt(q, w, span, x)
    BY <1>1, <1>4
  <2> QED
    BY <2>1, <1>2, OthersKept
<1>5. ASSUME NEW x \in Page
      PROVE  SameCut(p, q, x)
  BY <1>1, CutKept
<1> QED
  BY <1>1, <1>3, <1>4, <1>5 DEF q, w

\* Freeing a chunk is a free as Returned has it, whether its page stays or is freed too.
LEMMA FreeChunkReturns ==
  ASSUME NEW own, NEW rank, NEW span, NEW home, Sound(pool, own, rank, span, home),
         NEW addr \in 0 .. Pages * PageSize - 1, OffBitmap(pool, addr), FreeChunk(addr)
  PROVE  Returned(pool, pool', addr)
<1> DEFINE pg == addr \div PageSize
           s == ShiftOf(pool, pg)
           i == (addr % PageSize) \div Pow2[s]
           listed == IF WasFull(pool, pg) THEN Push(pool, SlotOf(s), pg) ELSE pool
           c == ClearBusy(listed, pg, i)
<1>1. /\ pool.type[pg] # "PAGE"
      /\ addr % Pow2[s] = 0
      /\ i \in Busy(pool, pg)
      /\ pool' = IF Busy(c, pg) \subseteq Reserved(s) THEN FreePages(c, pg, 1) ELSE c
  BY DEF FreeChunk
<1>2. pool.type[pg] = "SMALL" => i \notin Reserved(s)
  BY DEF OffBitmap
<1>3. pg \in Page
  BY AddressPage
<1>4. pool \in Pools /\ PageOK(pool, own, span, pg)
  BY <1>3 DEF Sound
<1>5. Divided(pool, pg, s) /\ s \in MinShift .. PageShift - 1
  <2> HIDE DEF pg, s
  <2>1. CutAt(pool, own, span, pg)
    BY <1>1, <1>3, <1>4, PageIs
  <2>2. PICK t \in MinShift .. PageShift - 1 : Divided(pool, pg, t)
    BY <2>1 DEF CutAt
  <2>3. t = s
    BY <2>2, <1>3, <1>4, DividedShift DEF s
  <2> QED
    BY <2>2, <2>3
<1>6. addr = ChunkKey(pg, s, i)[1]
  <2>1. s \in MinShift .. PageShift - 1 /\ addr % Pow2[s] = 0
    BY <1>1, <1>5
  <2> HIDE DEF s
  <2> QED
    BY <2>1, AddressChunk
<1>7. addr \div PageSize = pg
  OBVIOUS
<1>8. /\ listed = IF WasFull(pool, pg) THEN Push(pool, SlotOf(s), pg) ELSE pool
      /\ c = ClearBusy(listed, pg, i)
  OBVIOUS
<1> HIDE DEF pg, s, i, listed, c
<1>9. i \notin Reserved(s)
  <2>1. CASE s < ExactShift
    <3>1. pool.type[pg] = "SMALL"
      BY <2>1, <1>5, ClassNames DEF Divided
    <3> QED
      BY <3>1, <1>2
  <2>2. CASE ~(s < ExactShift)
    <3>1. s >= ExactShift
      BY <2>2, <1>5, ClassNames, ChunkRange, WordShape
    <3> QED
      BY <3>1 DEF Reserved
  <2> QED
    BY <2>1, <2>2
<1>10. /\ \E w, r : Sound(c, w, r, span, home)
       /\ Divided(c, pg, s)
       /\ Busy(c, pg) = Busy(pool, pg) \ {i}
       /\ \A x \in Page \ {pg} : /\ c.type[x] = pool.type[x]
                                 /\ c.slab[x] = pool.slab[x]
                                 /\ c.bitmap[x] = pool.bitmap[x]
  BY <1>1, <1>3, <1>5, <1>8, <1>9, ClearSound
<1>11. PICK w, r : Sound(c, w, r, span, home)
  BY <1>10
<1>12. c \in Pools
  BY <1>11 DEF Sound
<1>13. \A x \in Page : x # pg => KnownAt(c, x) = KnownAt(pool, x)
  BY <1>10, KnownKept
<1>14. KnownAt(c, pg) = {k \in KnownAt(pool, pg) : k[1] # addr} /\ KnownAt(c, pg) = ChunkKeys(c, pg, s)
  <2>1. KnownAt(pool, pg) = ChunkKeys(pool, pg, s) /\ KnownAt(c, pg) = ChunkKeys(c, pg, s)
    BY <1>3, <1>4, <1>5, <1>10, <1>12, KnownKinds
  <2> QED
    BY <2>1, <1>1, <1>3, <1>4, <1>5, <1>6, <1>10, ChunkDropped
<1> DEFINE AsCut(q) == \A x \in Page : SameCut(pool, q, x)
<1>15. AsCut(c)
  <2> SUFFICES ASSUME NEW x \in Page
               PROVE  SameCut(pool, c, x)
    OBVIOUS
  <2>1. CASE x = pg
    BY <2>1, <1>3, <1>4, <1>5, <1>10, <1>12, DividedShift DEF SameCut, Divided
  <2>2. CASE x # pg
    BY <2>2, <1>10 DEF SameCut, ShiftOf
  <2> QED
    BY <2>1, <2>2
<1>16. CASE ~(Busy(c, pg) \subseteq Reserved(s))
  <2>1. pool' = c
    BY <1>1, <1>16
  <2>2. Drops(pool, c, addr)
    BY <1>3, <1>7, <1>13, <1>14, DropsAt
  <2> QED
    BY <2>1, <2>2, <1>11, <1>15 DEF Returned
<1>17. CASE Busy(c, pg) \subseteq Reserved(s)
  <2> DEFINE n == 1
             q == FreePages(c, pg, n)
  <2>1. pool' = q
    BY <1>1, <1>17
  <2>2. span[pg] = n /\ n \in Nat \ {0}
    BY <1>3, <1>5, CutPage
  <2>3. /\ \E k : Sound(q, Owned(w, pg, FreeHead), k, span, home)
        /\ KnownAt(q, pg) = {}
        /\ \A x \in Page : x # pg => KnownAt(q, x) = KnownAt(c, x)
        /\ \A x \in Page : SameCut(c, q, x)
    <3> HIDE DEF n
    <3> QED
      BY <2>2, <1>3, <1>11, FreedKnown
  <2>4. ChunkKeys(c, pg, s) = {}
    BY <1>17 DEF ChunkKeys
  <2> HIDE DEF q
  <2>5. Drops(pool, q, addr)
    <3>1. \A x \in Page : x # pg => KnownAt(q, x) = KnownAt(pool, x)
      BY <2>3, <1>13
    <3>2. KnownAt(q, pg) = {k \in KnownAt(pool, pg) : k[1] # addr}
      BY <2>3, <2>4, <1>14
    <3> QED
      BY <3>1, <3>2, <1>3, <1>7, DropsAt
  <2>6. Returned(pool, q, addr)
    <3>1. AsCut(q)
      BY <2>3, <1>15 DEF SameCut
    <3> QED
      BY <3>1, <2>3, <2>5 DEF Returned
  <2> QED
    BY <2>1, <2>6
<1> QED
  BY <1>16, <1>17

\* Freeing a run is one, and so is freeing a run that is free.
LEMMA FreeRunReturns ==
  ASSUME NEW own, NEW rank, NEW span, NEW home, Sound(pool, own, rank, span, home),
         NEW addr \in 0 .. Pages * PageSize - 1, FreeRun(addr)
  PROVE  Returned(pool, pool', addr)
<1> DEFINE pg == addr \div PageSize
           n == pool.slab[pg] % RunStart
           q == FreePages(pool, pg, n)
<1>1. /\ pool.type[pg] = "PAGE"
      /\ addr % PageSize = 0
      /\ pool.slab[pg] \notin {0, AllOnes}
      /\ pool' = q
  BY DEF FreeRun
<1>2. pg \in Page
  BY AddressPage
<1>3. addr = pg * PageSize
  <2> DEFINE x == pg * PageSize
  <2>1. x \in Int /\ addr = x + (addr % PageSize)
    BY <1>2, AddressPage, NodeShape, PoolHolds
  <2> HIDE DEF x
  <2>2. addr = x
    BY <2>1, <1>1
  <2> QED
    BY <2>2 DEF x
<1>4. addr \div PageSize = pg
  OBVIOUS
<1> HIDE DEF pg
<1>5. pool \in Pools /\ PageOK(pool, own, span, pg)
  BY <1>2 DEF Sound
<1>6. FreeAt(pool, own, span, pg) \/ BusyAt(pool, own, span, pg)
  <2>1. ~InsideAt(pool, own, span, pg)
    BY <1>1 DEF InsideAt
  <2> QED
    BY <2>1, <1>1, <1>2, <1>5, PageIs
<1>7. n = span[pg] /\ n \in Nat \ {0}
  <2>1. span[pg] \in 1 .. Pages /\ Pages \in Nat
    BY <1>6, NodeShape DEF FreeAt, BusyAt
  <2>2. n = span[pg]
    BY <1>2, <1>5, <1>6, KnownKinds
  <2> HIDE DEF n
  <2> QED
    BY <2>1, <2>2
<1>8. pool' = FreePages(pool, pg, n)
  BY <1>1
<1> HIDE DEF n
<1>9. /\ \E r : Sound(q, Owned(own, pg, FreeHead), r, span, home)
      /\ KnownAt(q, pg) = {}
      /\ \A x \in Page : x # pg => KnownAt(q, x) = KnownAt(pool, x)
      /\ \A x \in Page : SameCut(pool, q, x)
  BY <1>2, <1>7, FreedKnown
<1> HIDE DEF q
<1>10. {k \in KnownAt(pool, pg) : k[1] # addr} = {}
  <2>1. CASE FreeAt(pool, own, span, pg)
    BY <2>1, <1>2, <1>5, KnownKinds
  <2>2. CASE BusyAt(pool, own, span, pg)
    <3>1. KnownAt(pool, pg) = {RunKey(pg, n)}
      BY <2>2, <1>2, <1>5, <1>7, KnownKinds
    <3>2. RunKey(pg, n)[1] = addr
      BY <1>3 DEF RunKey
    <3> QED
      BY <3>1, <3>2
  <2> QED
    BY <2>1, <2>2, <1>6
<1>11. Drops(pool, q, addr)
  BY <1>2, <1>4, <1>9, <1>10, DropsAt
<1>12. Returned(pool, q, addr)
  BY <1>9, <1>11 DEF Returned
<1> QED
  BY <1>1, <1>12

-----------------------------------------------------------------------------

\* The invariant: some owners, ranks and extents fit the pool, the callers hold what
\* it knows of, and what they gave back and nobody has since is still free.
PoolSound == \E own, rank, span, home : Sound(pool, own, rank, span, home)
LiveTyped == \A r \in live : r.lo \in 0 .. Pages * PageSize - 1 /\ r.len \in Sizes
StaleOff ==
  \A a \in stale :
    /\ a \in 0 .. Pages * PageSize - 1
    /\ OffBitmap(pool, a)
    /\ \A r \in live : r.lo # a
SlabInv == PoolSound /\ LiveTyped /\ BusyIsLive /\ StaleOff

\* One free run of all pages is sound.
LEMMA SlabInit == Init => SlabInv
<1> SUFFICES ASSUME Init
             PROVE  SlabInv
  OBVIOUS
<1> DEFINE own == [x \in Page |-> IF x = 0 THEN FreeHead ELSE Null]
           rank == [x \in Page |-> 0]
           span == [x \in Page |-> IF x = 0 THEN Pages ELSE 0]
           home == [x \in Page |-> 0]
           next == [i \in Page \cup Head |->
                      CASE i = 0 -> FreeHead
                        [] i = FreeHead -> 0
                        [] i \in Head \ {FreeHead} -> i
                        [] OTHER -> Null]
           none == {}
<1>1. /\ Page = 0 .. Pages - 1 /\ Pages \in Nat \ {0} /\ 0 \in Page
      /\ FreeHead \in Head /\ Page \cap Head = {} /\ Null \notin Page /\ Null \notin Head
      /\ FreeHead # Null /\ FreeHead # 0
  BY NodeShape
<1>2. /\ pool = [slab |-> [i \in Page |-> IF i = 0 THEN Pages ELSE 0],
                 next |-> next,
                 prev |-> [i \in Page |-> IF i = 0 THEN FreeHead ELSE Null],
                 type |-> [i \in Page |-> "PAGE"],
                 bitmap |-> [i \in Page |-> Reserved(MinShift)]]
      /\ live = {}
      /\ stale = {}
  BY DEF Init
<1>3. /\ next \in [Page \cup Head -> Page \cup Head \cup {Null}]
      /\ next[0] = FreeHead
      /\ next[FreeHead] = 0
      /\ \A h \in Head : h # FreeHead => next[h] = h
      /\ \A x \in Page : x # 0 => next[x] = Null
  <2>1. \A x \in Page \cup Head :
          /\ x = 0 => next[x] = FreeHead
          /\ x = FreeHead => next[x] = 0
          /\ x \in Head /\ x # FreeHead => next[x] = x
          /\ x \in Page /\ x # 0 => next[x] = Null
    <3> TAKE x \in Page \cup Head
    <3>1. CASE x = 0
      BY <3>1, <1>1
    <3>2. CASE x = FreeHead
      BY <3>2, <1>1
    <3>3. CASE x \in Head /\ x # FreeHead
      BY <3>3, <1>1
    <3>4. CASE x \in Page /\ x # 0
      BY <3>4, <1>1
    <3> QED
      BY <3>1, <3>2, <3>3, <3>4, <1>1
  <2>2. \A x \in Page \cup Head : next[x] \in Page \cup Head \cup {Null}
    BY <2>1, <1>1
  <2>3. next = [x \in Page \cup Head |-> next[x]]
    OBVIOUS
  <2> HIDE DEF next
  <2> QED
    BY <2>1, <2>2, <2>3, <1>1
<1> HIDE DEF next
<1>4. Reserved(MinShift) \subseteq 0 .. Chunks(MinShift) - 1 /\ Reserved(MinShift) \in SUBSET Int
  <2>1. MinShift \in MinShift .. PageShift - 1
    BY SlabAssumption
  <2> DEFINE s == MinShift
  <2>2. s \in MinShift .. PageShift - 1
    BY <2>1
  <2> HIDE DEF s
  <2>3. PICK n \in Nat : /\ Reserved(s) = 0 .. n - 1
                         /\ n + 1 < Chunks(s) \/ (n = 0 /\ Chunks(s) >= 2)
    BY <2>2, ReservedShape
  <2>4. Chunks(s) \in Nat
    BY <2>2, ChunkRange
  <2>5. Reserved(s) \subseteq 0 .. Chunks(s) - 1 /\ Reserved(s) \in SUBSET Int
    BY <2>3, <2>4
  <2> QED
    BY <2>5 DEF s
<1>5. pool \in Pools
  <2>1. \A i \in Page : (IF i = 0 THEN Pages ELSE 0) \in Int
    BY <1>1
  <2>2. "PAGE" \in Type
    BY DEF Type
  <2> QED
    BY <2>1, <2>2, <1>1, <1>2, <1>3, <1>4 DEF Pools
<1>6. /\ pool.next = next
      /\ \A x \in Page : /\ pool.prev[x] = (IF x = 0 THEN FreeHead ELSE Null)
                         /\ pool.slab[x] = (IF x = 0 THEN Pages ELSE 0)
                         /\ pool.type[x] = "PAGE"
                         /\ pool.bitmap[x] = Reserved(MinShift)
  BY <1>2
<1>7. /\ own \in [Page -> Head \cup {Null}]
      /\ own[0] = FreeHead
      /\ \A x \in Page : x # 0 => own[x] = Null
      /\ rank \in [Page -> Nat]
      /\ span \in [Page -> 0 .. Pages]
      /\ span[0] = Pages
      /\ \A x \in Page : x # 0 => span[x] = 0
      /\ home \in [Page -> Page]
      /\ \A x \in Page : home[x] = 0
  BY <1>1
<1> HIDE DEF own, rank, span, home
<1>8. Listed(pool, own, rank, none)
  <2> DEFINE prev == pool.prev
  <2>1. prev \in [Page -> Page \cup Head \cup {Null}]
    BY <1>5 DEF Pools
  <2>2. prev[0] = FreeHead /\ \A x \in Page : x # 0 => prev[x] = Null
    BY <1>1, <1>6
  <2> HIDE DEF prev
  <2>3. \A head \in Head : NextOK(next, prev, own, rank, head, head)
    BY <2>2, <1>1, <1>3, <1>7 DEF NextOK
  <2>4. \A x \in Page : own[x] # Null => NextOK(next, prev, own, rank, own[x], x)
    BY <1>1, <1>3, <1>7 DEF NextOK
  <2>5. \A x \in Page : own[x] # Null => PrevOK(next, prev, own, own[x], x)
    BY <2>2, <1>1, <1>3, <1>7 DEF PrevOK
  <2>6. \A x \in Page : own[x] = Null /\ x \notin none => next[x] = Null /\ prev[x] = Null
    BY <2>2, <1>1, <1>3, <1>7
  <2>7. Linked(next, prev, own, rank, none)
    <3> HIDE DEF none
    <3> QED
      BY <2>1, <2>3, <2>4, <2>5, <2>6, <1>3, <1>7 DEF Linked
  <2> QED
    BY <2>7, <1>6 DEF Listed, prev
<1>9. Tiled(span, home)
  BY <1>1, <1>7 DEF Tiled
<1>10. \A x \in Page : FreeAt(pool, own, span, x) \/ InsideAt(pool, own, span, x)
  <2> TAKE x \in Page
  <2>1. CASE x = 0
    BY <2>1, <1>1, <1>6, <1>7 DEF FreeAt
  <2>2. CASE x # 0
    BY <2>2, <1>1, <1>6, <1>7 DEF InsideAt
  <2> QED
    BY <2>1, <2>2
<1>11. Sound(pool, own, rank, span, home)
  BY <1>4, <1>5, <1>6, <1>8, <1>9, <1>10 DEF Sound, PageOK
<1>12. KnownAll(pool) = {}
  <2>1. \A x \in Page : KnownAt(pool, x) = {}
    BY <1>5, <1>10, KnownKinds
  <2> QED
    BY <2>1 DEF KnownAll
<1>13. BusyIsLive
  <2>1. Agree(KnownAll(pool), live)
    BY <1>2, <1>12 DEF Agree
  <2> QED
    BY <2>1, AgreeIs
<1>14. LiveTyped
  BY <1>2 DEF LiveTyped
<1>15. StaleOff
  BY <1>2 DEF StaleOff
<1> QED
  BY <1>11, <1>13, <1>14, <1>15 DEF SlabInv, PoolSound

\* An allocation keeps the invariant.
LEMMA TakenInv ==
  ASSUME SlabInv, NEW size \in Sizes, Taken(pool, pool', size, live, live', stale, stale')
  PROVE  SlabInv'
<1>1. PICK w, r, e, h, key :
        /\ Sound(pool', w, r, e, h)
        /\ Adds(pool, pool', key)
        /\ live' = live \cup {[lo |-> key[1], len |-> size]}
        /\ key[2] >= size
        /\ \A a \in stale' : /\ a \in stale
                            /\ a # key[1]
                            /\ SameCut(pool, pool', a \div PageSize)
  BY DEF Taken
<1>2. PoolSound'
  BY <1>1 DEF PoolSound
<1>3. LiveTyped'
  <2>1. key[1] \in 0 .. Pages * PageSize - 1
    BY <1>1 DEF Adds
  <2>2. \A x \in live : x.lo \in 0 .. Pages * PageSize - 1 /\ x.len \in Sizes
    BY DEF SlabInv, LiveTyped
  <2>3. \A x \in live' : x.lo \in 0 .. Pages * PageSize - 1 /\ x.len \in Sizes
    BY <2>1, <2>2, <1>1
  <2> QED
    BY <2>3 DEF LiveTyped
<1>4. BusyIsLive'
  <2> DEFINE region == [lo |-> key[1], len |-> size]
  <2>1. Agree(KnownAll(pool), live)
    BY AgreeIs DEF SlabInv
  <2>2. region.lo = key[1] /\ key[2] >= region.len
    BY <1>1
  <2> HIDE DEF region
  <2>3. Agree(KnownAll(pool'), live \cup {region})
    BY <2>1, <2>2, <1>1, AgreeAdd
  <2>4. Agree(KnownAll(pool'), live')
    BY <2>3, <1>1 DEF region
  <2>5. (BusyIsLive <=> Agree(KnownAll(pool), live))'
    BY AgreeIs, PTL
  <2> QED
    BY <2>4, <2>5
<1>5. StaleOff'
  <2> SUFFICES ASSUME NEW a \in stale'
               PROVE  /\ a \in 0 .. Pages * PageSize - 1
                      /\ OffBitmap(pool', a)
                      /\ \A x \in live' : x.lo # a
    BY DEF StaleOff, OffBitmap, ShiftOf
  <2>1. a \in stale /\ a # key[1] /\ SameCut(pool, pool', a \div PageSize)
    BY <1>1
  <2>2. /\ a \in 0 .. Pages * PageSize - 1
        /\ OffBitmap(pool, a)
        /\ \A x \in live : x.lo # a
    BY <2>1 DEF SlabInv, StaleOff
  <2>3. \A x \in live' : x.lo # a
    BY <2>1, <2>2, <1>1
  <2> QED
    BY <2>1, <2>2, <2>3, StaysOff
<1> QED
  BY <1>2, <1>3, <1>4, <1>5 DEF SlabInv

\* A free keeps it.
LEMMA ReturnedInv ==
  ASSUME SlabInv, NEW addr \in 0 .. Pages * PageSize - 1, OffBitmap(pool, addr),
         Returned(pool, pool', addr), live' = {x \in live : x.lo # addr},
         stale' \subseteq stale \cup {addr}
  PROVE  SlabInv'
<1>1. PICK w, r, e, h : Sound(pool', w, r, e, h)
  BY DEF Returned
<1>2. Drops(pool, pool', addr) /\ \A x \in Page : SameCut(pool, pool', x)
  BY DEF Returned
<1>3. PoolSound'
  BY <1>1 DEF PoolSound
<1>4. LiveTyped'
  BY DEF SlabInv, LiveTyped
<1>5. BusyIsLive'
  <2>1. Agree(KnownAll(pool), live)
    BY AgreeIs DEF SlabInv
  <2>2. Agree(KnownAll(pool'), {x \in live : x.lo # addr})
    BY <2>1, <1>2, AgreeDrop
  <2>3. Agree(KnownAll(pool'), live')
    BY <2>2
  <2>4. (BusyIsLive <=> Agree(KnownAll(pool), live))'
    BY AgreeIs, PTL
  <2> QED
    BY <2>3, <2>4
<1>6. StaleOff'
  <2> SUFFICES ASSUME NEW a \in stale'
               PROVE  /\ a \in 0 .. Pages * PageSize - 1
                      /\ OffBitmap(pool', a)
                      /\ \A x \in live' : x.lo # a
    BY DEF StaleOff, OffBitmap, ShiftOf
  <2>1. a \in 0 .. Pages * PageSize - 1 /\ OffBitmap(pool, a)
    BY DEF SlabInv, StaleOff
  <2>2. \A x \in live' : x.lo # a
    BY DEF SlabInv, StaleOff
  <2>3. a \div PageSize \in Page
    BY <2>1, AddressPage
  <2> QED
    BY <2>1, <2>2, <2>3, <1>2, StaysOff
<1> QED
  BY <1>3, <1>4, <1>5, <1>6 DEF SlabInv

\* A region held is one its page knows of.
LEMMA HeldKnown ==
  ASSUME SlabInv, NEW own, NEW rank, NEW span, NEW home, Sound(pool, own, rank, span, home),
         NEW r \in live
  PROVE  \E x \in Page : \E k \in KnownAt(pool, x) :
           k[1] = r.lo /\ k[2] >= r.len /\ InPage(k, x)
<1>1. Agree(KnownAll(pool), live)
  BY AgreeIs DEF SlabInv
<1>2. PICK k \in KnownAll(pool) : k[1] = r.lo /\ k[2] >= r.len
  BY <1>1 DEF Agree
<1>3. PICK x \in Page : k \in KnownAt(pool, x)
  BY <1>2 DEF KnownAll
<1>4. InPage(k, x)
  BY <1>3, KnownInPage
<1> QED
  BY <1>2, <1>3, <1>4

\* The start of a region that is held is off the bitmaps, and freeing it is not refused.
LEMMA HeldStart ==
  ASSUME SlabInv, NEW own, NEW rank, NEW span, NEW home, Sound(pool, own, rank, span, home),
         NEW r \in live
  PROVE  /\ r.lo \in 0 .. Pages * PageSize - 1
         /\ OffBitmap(pool, r.lo)
         /\ ~FreeRefused(r.lo)
<1>0. PICK x \in Page : \E k \in KnownAt(pool, x) : k[1] = r.lo /\ k[2] >= r.len /\ InPage(k, x)
  BY HeldKnown
<1>1. PICK k \in KnownAt(pool, x) : k[1] = r.lo /\ k[2] >= r.len /\ InPage(k, x)
  BY <1>0
<1>2. r.lo \in 0 .. Pages * PageSize - 1 /\ r.lo \div PageSize = x
  BY <1>1 DEF InPage
<1>3. pool \in Pools /\ PageOK(pool, own, span, x)
  BY DEF Sound
<1>4. CASE InsideAt(pool, own, span, x) \/ FreeAt(pool, own, span, x)
  BY <1>1, <1>3, <1>4, KnownKinds
<1>5. CASE BusyAt(pool, own, span, x)
  <2>1. k = RunKey(x, span[x])
    BY <1>1, <1>3, <1>5, KnownKinds
  <2>2. r.lo = x * PageSize
    BY <2>1, <1>1 DEF RunKey
  <2>3. r.lo % PageSize = 0
    <3> DEFINE y == x * PageSize
               m == r.lo % PageSize
    <3>1. m \in 0 .. PageSize - 1 /\ r.lo = y + m
      BY <1>2, AddressPage
    <3>2. y \in Int /\ r.lo = y /\ PageSize \in Nat
      BY <2>2, NodeShape, PoolHolds
    <3> HIDE DEF y, m
    <3>3. m = 0
      BY <3>1, <3>2
    <3> QED
      BY <3>3 DEF m
  <2>4. pool.slab[x] \notin {0, AllOnes} /\ pool.type[x] = "PAGE"
    <3> DEFINE n == span[x]
               v == pool.slab[x]
    <3>1. n \in 1 .. Pages /\ v = RunStart + n /\ pool.type[x] = "PAGE"
      BY <1>5 DEF BusyAt
    <3> HIDE DEF n, v
    <3>2. v # 0 /\ v # AllOnes
      BY <3>1, WordRange
    <3> QED
      BY <3>1, <3>2 DEF v
  <2> QED
    BY <1>2, <2>3, <2>4 DEF FreeRefused, OffBitmap
<1>6. CASE CutAt(pool, own, span, x)
  <2>1. PICK s \in MinShift .. PageShift - 1 : Divided(pool, x, s)
    BY <1>6 DEF CutAt
  <2>2. ShiftOf(pool, x) = s /\ pool.type[x] # "PAGE"
    BY <2>1, <1>3, DividedShift
  <2>3. PICK i \in Busy(pool, x) \ Reserved(s) : k = ChunkKey(x, s, i)
    BY <2>1, <1>1, <1>3, KnownKinds DEF ChunkKeys
  <2>4. i \in 0 .. Chunks(s) - 1
    BY <2>1, <2>3, <1>3, BusyRange
  <2>5. (r.lo % PageSize) \div Pow2[s] = i /\ r.lo % Pow2[s] = 0
    <3> DEFINE e == 0
    <3>1. e \in 0 .. Pow2[s] - 1
      BY <2>4, ChunkAddress
    <3>2. r.lo = ChunkKey(x, s, i)[1] + e
      BY <2>3, <1>1, <1>2
    <3> HIDE DEF e
    <3>3. (r.lo % PageSize) \div Pow2[s] = i /\ r.lo % Pow2[s] = e
      BY <3>1, <3>2, <2>4, ChunkPlace
    <3> QED
      BY <3>3 DEF e
  <2> QED
    BY <1>2, <2>2, <2>3, <2>5 DEF FreeRefused, OffBitmap
<1> QED
  BY <1>3, <1>4, <1>5, <1>6 DEF PageOK

\* An address inside a region that is held is off the bitmaps and starts no other.
LEMMA HeldInside ==
  ASSUME SlabInv, NEW own, NEW rank, NEW span, NEW home, Sound(pool, own, rank, span, home),
         NEW r \in live, NEW addr \in r.lo + 1 .. r.lo + r.len - 1
  PROVE  /\ addr \in 0 .. Pages * PageSize - 1
         /\ OffBitmap(pool, addr)
         /\ \A other \in live : other.lo # addr
<1>0. PICK x \in Page : \E k \in KnownAt(pool, x) : k[1] = r.lo /\ k[2] >= r.len /\ InPage(k, x)
  BY HeldKnown
<1>1. PICK k \in KnownAt(pool, x) : k[1] = r.lo /\ k[2] >= r.len /\ InPage(k, x)
  BY <1>0
<1>2. r.lo \in Int /\ r.len \in Int
  <2>1. Sizes \subseteq Nat
    BY SlabAssumption
  <2>2. r.lo \in 0 .. Pages * PageSize - 1 /\ r.len \in Sizes
    BY DEF SlabInv, LiveTyped
  <2>3. r.len \in Int
    <3> DEFINE z == r.len
    <3>1. z \in Sizes
      BY <2>2
    <3> HIDE DEF z
    <3>2. z \in Int
      BY <2>1, <3>1
    <3> QED
      BY <3>2 DEF z
  <2>4. r.lo \in Int
    <3> DEFINE z == Pages * PageSize
    <3>1. z \in Int
      BY NodeShape, PoolHolds
    <3> HIDE DEF z
    <3>2. r.lo \in 0 .. z - 1
      BY <2>2 DEF z
    <3> QED
      BY <3>1, <3>2
  <2> QED
    BY <2>3, <2>4
<1>3. pool \in Pools /\ PageOK(pool, own, span, x) /\ Tiled(span, home)
      /\ \A y \in Page : PageOK(pool, own, span, y)
  BY DEF Sound
<1>4. ASSUME addr \div PageSize \in Page,
             \A j \in KnownAt(pool, addr \div PageSize) : j[1] # addr
      PROVE  \A other \in live : other.lo # addr
  <2> TAKE other \in live
  <2>1. PICK y \in Page : \E j \in KnownAt(pool, y) : j[1] = other.lo /\ InPage(j, y)
    BY HeldKnown
  <2> QED
    BY <2>1, <1>4 DEF InPage
<1>5. CASE InsideAt(pool, own, span, x) \/ FreeAt(pool, own, span, x)
  BY <1>1, <1>3, <1>5, KnownKinds
<1>6. CASE BusyAt(pool, own, span, x)
  <2> DEFINE n == span[x]
             d == PageSize
             y == addr \div d
             m == addr % d
  <2>1. k = RunKey(x, n) /\ KnownAt(pool, x) = {RunKey(x, n)}
    BY <1>1, <1>3, <1>6, KnownKinds
  <2>2. r.lo = x * d /\ k[2] = n * d
    BY <2>1, <1>1 DEF RunKey
  <2>3. n \in Nat \ {0} /\ x + n <= Pages /\ x \in Nat /\ Pages \in Nat /\ d \in Nat \ {0}
    BY <1>3, <1>6, NodeShape, PoolHolds DEF BusyAt, Tiled
  <2> HIDE DEF n, d
  <2>4. x * d \in Int /\ n * d \in Int /\ Pages * d \in Int /\ (x + n) * d = x * d + n * d
        /\ (x + n) * d <= Pages * d /\ 0 * d <= x * d
    <3>1. x + n \in Int /\ x \in Int /\ Pages \in Int /\ n \in Int /\ 0 \in Int
      BY <2>3
    <3>2. (x + n) * d <= Pages * d /\ 0 * d <= x * d /\ x * d \in Int /\ n * d \in Int /\ Pages * d \in Int
      BY <3>1, <2>3, TimesOrder
    <3>3. (x + n) * d = x * d + n * d
      BY <3>1, <2>3
    <3> QED
      BY <3>2, <3>3
  <2>5. addr \in Int /\ x * d < addr /\ addr < x * d + n * d
    <3> DEFINE a == x * d
               b == n * d
    <3>1. a \in Int /\ b \in Int /\ r.lo = a /\ b >= r.len
      BY <2>2, <2>4, <1>1
    <3> HIDE DEF a, b
    <3>2. addr \in Int /\ a < addr /\ addr < a + b
      BY <3>1, <1>2
    <3> QED
      BY <3>2 DEF a, b
  <2>6. addr \in 0 .. Pages * d - 1
    <3> DEFINE a == x * d
               b == n * d
               c == Pages * d
    <3>1. a \in Int /\ b \in Int /\ c \in Int /\ a + b <= c /\ 0 <= a /\ a < addr /\ addr < a + b
      <4>1. 0 * d = 0
        BY <2>3
      <4> QED
        BY <4>1, <2>4, <2>5
    <3> HIDE DEF a, b, c
    <3>2. addr \in 0 .. c - 1
      BY <3>1, <2>5
    <3> QED
      BY <3>2 DEF c
  <2>7. y \in Page /\ m \in 0 .. d - 1 /\ addr = y * d + m
    BY <2>6, AddressPage DEF d
  <2>8. x <= y /\ y < x + n /\ y \in Int
    <3>1. y \in Int /\ x \in Int /\ x + n \in Int /\ m \in Int /\ 0 <= m /\ m < d
      BY <2>3, <2>7, NodeShape
    <3> HIDE DEF y, m
    <3>2. ~(y < x)
      <4> SUFFICES ASSUME y < x
                   PROVE  FALSE
        OBVIOUS
      <4>1. y * d + d <= x * d /\ y * d \in Int
        BY <3>1, <2>3, TimesOrder
      <4> QED
        BY <4>1, <3>1, <2>3, <2>4, <2>5, <2>7
    <3>3. ~(x + n <= y)
      <4> SUFFICES ASSUME x + n <= y
                   PROVE  FALSE
        OBVIOUS
      <4>1. (x + n) * d <= y * d /\ y * d \in Int
        BY <3>1, <2>3, TimesOrder
      <4> QED
        BY <4>1, <3>1, <2>3, <2>4, <2>5, <2>7
    <3> QED
      BY <3>1, <3>2, <3>3
  <2>9. CASE y = x
    <3>1. OffBitmap(pool, addr)
      BY <2>9, <1>6 DEF OffBitmap, BusyAt, d
    <3>2. \A j \in KnownAt(pool, y) : j[1] # addr
      <4>1. RunKey(x, n)[1] = x * d
        BY DEF RunKey, d
      <4>2. x * d # addr
        BY <2>4, <2>5
      <4> QED
        BY <4>1, <4>2, <2>1, <2>9
    <3> QED
      BY <3>1, <3>2, <2>6, <2>7, <1>4 DEF d
  <2>10. CASE y # x
    <3>1. span[y] = 0
      <4>1. y \in Int /\ x < y /\ y < x + span[x]
        BY <2>3, <2>8, <2>10 DEF n
      <4> HIDE DEF y
      <4> QED
        BY <4>1, <1>3, InsideExtent
    <3>2. InsideAt(pool, own, span, y)
      BY <3>1, <2>7, <1>3, PageIs
    <3>3. KnownAt(pool, y) = {}
      BY <3>2, <2>7, <1>3, KnownKinds
    <3>4. OffBitmap(pool, addr)
      BY <3>2 DEF OffBitmap, InsideAt, d
    <3> QED
      BY <3>3, <3>4, <2>6, <2>7, <1>4 DEF d
  <2> QED
    BY <2>9, <2>10
<1>7. CASE CutAt(pool, own, span, x)
  <2>1. PICK s \in MinShift .. PageShift - 1 : Divided(pool, x, s)
    BY <1>7 DEF CutAt
  <2>2. ShiftOf(pool, x) = s /\ KnownAt(pool, x) = ChunkKeys(pool, x, s)
        /\ Busy(pool, x) \subseteq 0 .. Chunks(s) - 1
    BY <2>1, <1>3, DividedShift, KnownKinds, BusyRange
  <2>3. PICK i \in Busy(pool, x) \ Reserved(s) : k = ChunkKey(x, s, i)
    BY <2>2, <1>1 DEF ChunkKeys
  <2>4. i \in 0 .. Chunks(s) - 1
    BY <2>2, <2>3
  <2> DEFINE e == addr - r.lo
  <2>5. e \in 1 .. Pow2[s] - 1 /\ addr = ChunkKey(x, s, i)[1] + e
    <3>1. ChunkKey(x, s, i)[2] = Pow2[s] /\ Pow2[s] \in Nat \ {0}
      BY <2>4, ChunkAddress
    <3> DEFINE b == Pow2[s]
    <3>2. b \in Nat \ {0} /\ b >= r.len
      BY <3>1, <2>3, <1>1
    <3> HIDE DEF b
    <3>3. e \in 1 .. b - 1 /\ addr = r.lo + e
      BY <3>2, <1>2
    <3> QED
      BY <3>3, <2>3, <1>1 DEF b
  <2> HIDE DEF e
  <2>6. e \in 0 .. Pow2[s] - 1
    <3>1. Pow2[s] \in Nat
      BY <2>4, ChunkAddress
    <3> QED
      BY <3>1, <2>5
  <2>7. /\ addr \in 0 .. Pages * PageSize - 1
        /\ addr \div PageSize = x
        /\ (addr % PageSize) \div Pow2[s] = i
        /\ addr % Pow2[s] = e
    BY <2>4, <2>5, <2>6, ChunkPlace
  <2>8. OffBitmap(pool, addr)
    BY <2>2, <2>3, <2>7 DEF OffBitmap
  <2>9. \A j \in KnownAt(pool, x) : j[1] # addr
    <3> TAKE j \in KnownAt(pool, x)
    <3>1. PICK c \in Busy(pool, x) : j = ChunkKey(x, s, c)
      BY <2>2 DEF ChunkKeys
    <3>2. c \in 0 .. Chunks(s) - 1
      BY <3>1, <2>2
    <3> DEFINE z == 0
    <3>3. z \in 0 .. Pow2[s] - 1
      BY <2>4, ChunkAddress
    <3>4. j[1] = ChunkKey(x, s, c)[1] + z
      <4>1. j[1] = x * PageSize + c * Pow2[s] /\ c * Pow2[s] \in Nat /\ x * PageSize \in Int
        BY <3>1, <3>2, ChunkAddress, NodeShape, PoolHolds
      <4> QED
        BY <4>1, <3>1
    <3> HIDE DEF z
    <3>5. j[1] % Pow2[s] = z
      BY <3>2, <3>3, <3>4, ChunkPlace
    <3>6. z # e
      BY <2>5 DEF z
    <3> QED
      BY <3>5, <3>6, <2>7
  <2> QED
    BY <2>7, <2>8, <2>9, <1>4
<1> QED
  BY <1>3, <1>5, <1>6, <1>7 DEF PageOK

\* Whatever was off the bitmaps stays so, and what was held is, when nothing changes.
LEMMA SameInv ==
  ASSUME SlabInv, UNCHANGED vars
  PROVE  SlabInv'
<1>1. pool' = pool /\ live' = live /\ stale' = stale
  BY DEF vars
<1>2. PoolSound' /\ LiveTyped'
  BY <1>1 DEF SlabInv, PoolSound, LiveTyped
<1>3. Agree(KnownAll(pool'), live')
  BY <1>1, AgreeIs DEF SlabInv
<1>4. (BusyIsLive <=> Agree(KnownAll(pool), live))'
  BY AgreeIs, PTL
<1>5. StaleOff'
  BY <1>1 DEF SlabInv, StaleOff, OffBitmap, ShiftOf
<1> QED
  BY <1>2, <1>3, <1>4, <1>5 DEF SlabInv

\* A free of an address off the bitmaps that is held from nobody else keeps the invariant.
LEMMA FreeInv ==
  ASSUME SlabInv, NEW addr \in 0 .. Pages * PageSize - 1, OffBitmap(pool, addr),
         FreeChunk(addr) \/ FreeRun(addr),
         live' = {x \in live : x.lo # addr}, stale' \subseteq stale \cup {addr}
  PROVE  SlabInv'
<1>1. PICK own, rank, span, home : Sound(pool, own, rank, span, home)
  BY DEF SlabInv, PoolSound
<1>2. Returned(pool, pool', addr)
  BY <1>1, FreeChunkReturns, FreeRunReturns
<1> QED
  BY <1>2, ReturnedInv

\* Every step of Next, and a stutter, keeps the invariant.
LEMMA SlabStep == SlabInv /\ [Next]_vars => SlabInv'
<1> SUFFICES ASSUME SlabInv, [Next]_vars
             PROVE  SlabInv'
  OBVIOUS
<1>1. PICK own, rank, span, home : Sound(pool, own, rank, span, home)
  BY DEF SlabInv, PoolSound
<1>2. Sizes \subseteq Nat /\ stale \subseteq 0 .. Pages * PageSize - 1
  BY SlabAssumption DEF SlabInv, StaleOff
<1>3. ASSUME NEW size \in Sizes, AllocRun(size)
      PROVE  SlabInv'
  <2>1. Taken(pool, pool', size, live, live', stale, stale')
    BY <1>1, <1>2, <1>3, AllocRunTakes
  <2> QED
    BY <2>1, TakenInv
<1>4. ASSUME NEW size \in Sizes, AllocChunk(size)
      PROVE  SlabInv'
  <2>1. Taken(pool, pool', size, live, live', stale, stale')
    BY <1>1, <1>2, <1>4, AllocChunkTakes
  <2> QED
    BY <2>1, TakenInv
<1>5. ASSUME NEW size \in Sizes, AllocNewPage(size)
      PROVE  SlabInv'
  <2>1. Taken(pool, pool', size, live, live', stale, stale')
    BY <1>1, <1>2, <1>5, AllocNewPageTakes
  <2> QED
    BY <2>1, TakenInv
<1>6. ASSUME NEW r \in live, FreeHeld(r)
      PROVE  SlabInv'
  <2>1. /\ r.lo \in 0 .. Pages * PageSize - 1
        /\ OffBitmap(pool, r.lo)
        /\ ~FreeRefused(r.lo)
    BY <1>1, HeldStart
  <2>2. FreeChunk(r.lo) \/ FreeRun(r.lo)
    BY <2>1, <1>6 DEF FreeHeld, Free
  <2>3. live' = {x \in live : x.lo # r.lo}
    <3>1. \A x \in live : x # r => x.lo # r.lo
      BY DEF SlabInv, BusyIsLive
    <3> QED
      BY <3>1, <1>6 DEF FreeHeld
  <2>4. stale' \subseteq stale \cup {r.lo}
    BY <1>6 DEF FreeHeld
  <2> QED
    BY <2>1, <2>2, <2>3, <2>4, FreeInv
<1>7. ASSUME NEW addr \in 0 .. Pages * PageSize - 1, OffBitmap(pool, addr), Free(addr),
             \A r \in live : r.lo # addr, UNCHANGED <<live, stale>>
      PROVE  SlabInv'
  <2>1. CASE FreeRefused(addr)
    BY <2>1, <1>7, SameInv DEF FreeRefused, vars
  <2>2. CASE FreeChunk(addr) \/ FreeRun(addr)
    <3>1. live' = {x \in live : x.lo # addr} /\ stale' \subseteq stale \cup {addr}
      BY <1>7
    <3> QED
      BY <3>1, <2>2, <1>7, FreeInv
  <2> QED
    BY <2>1, <2>2, <1>7 DEF Free
<1>8. ASSUME NEW r \in live, FreeInside(r)
      PROVE  SlabInv'
  <2>1. PICK addr \in r.lo + 1 .. r.lo + r.len - 1 : Free(addr)
    BY <1>8 DEF FreeInside
  <2>2. /\ addr \in 0 .. Pages * PageSize - 1
        /\ OffBitmap(pool, addr)
        /\ \A other \in live : other.lo # addr
    BY <1>1, HeldInside
  <2> QED
    BY <2>1, <2>2, <1>7, <1>8 DEF FreeInside
<1>9. ASSUME NEW addr \in stale, FreeAgain(addr)
      PROVE  SlabInv'
  <2>1. /\ addr \in 0 .. Pages * PageSize - 1
        /\ OffBitmap(pool, addr)
        /\ \A r \in live : r.lo # addr
    BY DEF SlabInv, StaleOff
  <2> QED
    BY <2>1, <1>7, <1>9 DEF FreeAgain
<1>10. CASE Next
  <2>1. CASE \E size \in Sizes : Alloc(size)
    BY <2>1, <1>3, <1>4, <1>5 DEF Alloc
  <2>2. CASE \E r \in live : FreeHeld(r) \/ FreeInside(r)
    BY <2>2, <1>6, <1>8
  <2>3. CASE \E addr \in stale : FreeAgain(addr)
    BY <2>3, <1>9
  <2> QED
    BY <2>1, <2>2, <2>3, <1>10 DEF Next
<1> QED
  BY <1>10, SameInv

-----------------------------------------------------------------------------

\* A word's range, whatever its page is.
LEMMA SoundType == SlabInv => TypeOK
<1> SUFFICES ASSUME SlabInv
             PROVE  TypeOK
  OBVIOUS
<1>1. PICK own, rank, span, home : Sound(pool, own, rank, span, home)
  BY DEF SlabInv, PoolSound
<1>2. /\ pool \in Pools
      /\ \A pg \in Page : PageOK(pool, own, span, pg)
      /\ \A pg \in Page : pool.bitmap[pg] \subseteq 0 .. Chunks(MinShift) - 1
  BY <1>1 DEF Sound
<1>3. RunStart \in Nat \ {0, 1} /\ AllOnes = 2 * RunStart - 1 /\ Pages \in 1 .. RunStart - 2
  BY WordRange
<1>4. ASSUME NEW pg \in Page
      PROVE  pool.slab[pg] \in 0 .. AllOnes
  <2>1. CASE InsideAt(pool, own, span, pg)
    BY <2>1, <1>3 DEF InsideAt
  <2>2. CASE FreeAt(pool, own, span, pg)
    BY <2>2, <1>3 DEF FreeAt
  <2>3. CASE BusyAt(pool, own, span, pg)
    BY <2>3, <1>3 DEF BusyAt
  <2>4. CASE CutAt(pool, own, span, pg)
    BY <2>4, <1>2, DividedShift DEF CutAt
  <2> QED
    BY <2>1, <2>2, <2>3, <2>4, <1>2 DEF PageOK
<1>5. pool.slab \in [Page -> 0 .. AllOnes] /\ pool.bitmap \in [Page -> SUBSET (0 .. Chunks(MinShift) - 1)]
  BY <1>2, <1>4 DEF Pools
<1> QED
  <2>1. stale \subseteq 0 .. Pages * PageSize - 1
    BY DEF SlabInv, StaleOff
  <2> QED
    BY <2>1, <1>2, <1>5 DEF TypeOK, Pools, SlabInv, LiveTyped

\* The lists of a sound pool are as ListsLinked has them.
LEMMA SoundLists == SlabInv => ListsLinked
<1> SUFFICES ASSUME SlabInv
             PROVE  ListsLinked
  OBVIOUS
<1> DEFINE none == {}
<1>1. PICK own, rank, span, home : Sound(pool, own, rank, span, home)
  BY DEF SlabInv, PoolSound
<1>2. pool \in Pools /\ Listed(pool, own, rank, none)
  BY <1>1 DEF Sound
<1> HIDE DEF none
<1> QED
  BY <1>2, LinkedLists

\* The owners of PagesConserved are the pages with a span, and their extents the spans.
LEMMA SoundPages == SlabInv => PagesConserved
<1> SUFFICES ASSUME SlabInv
             PROVE  PagesConserved
  OBVIOUS
<1> DEFINE none == {}
           head == FreeHead
           extent(pg) == IF pg \in ClassPages THEN 1 ELSE pool.slab[pg] % RunStart
           owners == Members(pool, head) \cup BusyRuns \cup ClassPages
<1>1. PICK own, rank, span, home : Sound(pool, own, rank, span, home)
  BY DEF SlabInv, PoolSound
<1>2. /\ pool \in Pools
      /\ Listed(pool, own, rank, none)
      /\ Tiled(span, home)
      /\ \A pg \in Page : PageOK(pool, own, span, pg)
  BY <1>1 DEF Sound
<1>3. head \in Head
  BY NodeShape
<1>4. Members(pool, head) = {pg \in Page : own[pg] = head}
  <2> HIDE DEF none, head
  <2> QED
    BY <1>2, <1>3, MembersOwn
<1>5. RunStart \in Nat \ {0, 1} /\ AllOnes = 2 * RunStart - 1 /\ Pages \in 1 .. RunStart - 2
  BY WordRange
<1>6. ASSUME NEW pg \in Page
      PROVE  /\ pg \in owners <=> span[pg] # 0
             /\ pg \in owners => extent(pg) = span[pg]
             /\ pg \in Members(pool, head) => pg \notin BusyRuns /\ pg \notin ClassPages
  <2>1. CASE InsideAt(pool, own, span, pg)
    <3>1. own[pg] # head /\ span[pg] = 0 /\ pg \notin ClassPages
      BY <2>1, <1>3, NodeShape DEF InsideAt, ClassPages
    <3>2. pg \notin BusyRuns
      BY <2>1, <1>5 DEF InsideAt, BusyRuns
    <3> QED
      BY <3>1, <3>2, <1>4
  <2>2. CASE FreeAt(pool, own, span, pg)
    <3>1. own[pg] = head /\ span[pg] # 0 /\ pg \notin ClassPages /\ pool.slab[pg] % RunStart = span[pg]
      BY <2>2, <1>2, KnownKinds DEF FreeAt, ClassPages
    <3>2. pg \notin BusyRuns
      BY <2>2, <1>5 DEF FreeAt, BusyRuns
    <3> QED
      BY <3>1, <3>2, <1>4
  <2>3. CASE BusyAt(pool, own, span, pg)
    <3>1. own[pg] # head /\ span[pg] # 0 /\ pg \notin ClassPages
      BY <2>3, <1>3, NodeShape DEF BusyAt, ClassPages
    <3>3. pool.slab[pg] % RunStart = span[pg]
      BY <2>3, <1>2, KnownKinds
    <3>2. pg \in BusyRuns
      BY <2>3, <1>5 DEF BusyAt, BusyRuns
    <3> QED
      BY <3>1, <3>2, <3>3, <1>4
  <2>4. CASE CutAt(pool, own, span, pg)
    <3>1. PICK s \in MinShift .. PageShift - 1 : /\ Divided(pool, pg, s)
                                                 /\ span[pg] = 1
                                                 /\ own[pg] = IF Room(pool, pg, s) = {} THEN Null ELSE SlotOf(s)
      BY <2>4 DEF CutAt
    <3>2. pg \in ClassPages
      BY <3>1, <1>2, DividedShift DEF ClassPages
    <3>3. own[pg] # head
      BY <3>1, NodeShape
    <3> QED
      BY <3>1, <3>2, <3>3, <1>4
  <2> QED
    BY <2>1, <2>2, <2>3, <2>4, <1>2 DEF PageOK
<1>7. owners \subseteq Page
  BY <1>4 DEF BusyRuns, ClassPages
<1>8. /\ span \in [Page -> 0 .. Pages]
      /\ home \in [Page -> Page]
      /\ \A pg \in Page : home[pg] <= pg /\ pg < home[pg] + span[home[pg]]
      /\ \A h, pg \in Page : h <= pg /\ pg < h + span[h] => home[pg] = h
      /\ \A h \in Page : h + span[h] <= Pages
  BY <1>2 DEF Tiled
<1>9. Page = 0 .. Pages - 1 /\ Pages \in Nat
  BY NodeShape
<1>10. Members(pool, head) \cap (BusyRuns \cup ClassPages) = {}
  BY <1>4, <1>6
<1>11. PagesConserved <=>
         /\ Members(pool, head) \cap (BusyRuns \cup ClassPages) = {}
         /\ \A h \in owners : h + extent(h) <= Pages
         /\ \A pg \in Page : Cardinality({h \in owners : pg \in h .. h + extent(h) - 1}) = 1
  BY DEF PagesConserved
<1> HIDE DEF owners, extent
<1>12. \A h \in owners : h + extent(h) <= Pages
  BY <1>6, <1>7, <1>8
<1>13. ASSUME NEW pg \in Page
       PROVE  Cardinality({h \in owners : pg \in h .. h + extent(h) - 1}) = 1
  <2>1. home[pg] \in Page /\ home[pg] <= pg /\ pg < home[pg] + span[home[pg]] /\ span[home[pg]] \in 0 .. Pages
    BY <1>8
  <2>2. home[pg] \in owners
    BY <2>1, <1>6, <1>9
  <2>3. \A h \in owners : pg \in h .. h + extent(h) - 1 <=> h = home[pg]
    <3> TAKE h \in owners
    <3>1. h \in Page /\ extent(h) = span[h] /\ span[h] \in 0 .. Pages
      BY <1>6, <1>7, <1>8
    <3>2. pg \in h .. h + extent(h) - 1 <=> h <= pg /\ pg < h + span[h]
      BY <3>1, <1>9
    <3> QED
      BY <2>1, <3>1, <3>2, <1>8
  <2>4. {h \in owners : pg \in h .. h + extent(h) - 1} = {home[pg]}
    BY <2>2, <2>3
  <2> QED
    BY <2>4, FS_Singleton
<1> QED
  BY <1>10, <1>11, <1>12, <1>13

\* The slots of a sound pool are as SlotsHaveRoom has them.
LEMMA SoundSlots == SlabInv => SlotsHaveRoom
<1> SUFFICES ASSUME SlabInv, NEW s \in MinShift .. PageShift - 1
             PROVE  Members(pool, SlotOf(s)) =
                      {pg \in ClassPages : ShiftOf(pool, pg) = s /\ Vacant(pool, pg) # {}}
  BY DEF SlotsHaveRoom
<1> DEFINE none == {}
           slot == SlotOf(s)
<1>1. PICK own, rank, span, home : Sound(pool, own, rank, span, home)
  BY DEF SlabInv, PoolSound
<1>2. /\ pool \in Pools
      /\ Listed(pool, own, rank, none)
      /\ \A pg \in Page : PageOK(pool, own, span, pg)
  BY <1>1 DEF Sound
<1>3. slot \in Head /\ slot # FreeHead /\ slot # Null
  BY NodeShape
<1>4. Members(pool, slot) = {pg \in Page : own[pg] = slot}
  <2> HIDE DEF none, slot
  <2> QED
    BY <1>2, <1>3, MembersOwn
<1>5. ASSUME NEW pg \in Page, own[pg] = slot
      PROVE  pg \in ClassPages /\ ShiftOf(pool, pg) = s /\ Vacant(pool, pg) # {}
  <2>1. CutAt(pool, own, span, pg)
    BY <1>2, <1>3, <1>5 DEF PageOK, InsideAt, FreeAt, BusyAt
  <2>2. PICK c \in MinShift .. PageShift - 1 : /\ Divided(pool, pg, c)
                                               /\ span[pg] = 1
                                               /\ own[pg] = IF Room(pool, pg, c) = {} THEN Null ELSE SlotOf(c)
    BY <2>1 DEF CutAt
  <2>3. SlotOf(c) = SlotOf(s) /\ Room(pool, pg, c) # {}
    BY <2>2, <1>3, <1>5
  <2>4. c = s
    BY <2>3, NodeShape
  <2>5. ShiftOf(pool, pg) = c /\ pool.type[pg] # "PAGE"
    BY <2>2, <1>2, DividedShift
  <2> QED
    BY <2>3, <2>4, <2>5 DEF ClassPages, Vacant, Room
<1>6. ASSUME NEW pg \in ClassPages, ShiftOf(pool, pg) = s, Vacant(pool, pg) # {}
      PROVE  pg \in Page /\ own[pg] = slot
  <2>1. pg \in Page /\ pool.type[pg] # "PAGE"
    BY <1>6 DEF ClassPages
  <2>2. CutAt(pool, own, span, pg)
    BY <2>1, <1>2, PageIs
  <2>3. PICK c \in MinShift .. PageShift - 1 : /\ Divided(pool, pg, c)
                                               /\ span[pg] = 1
                                               /\ own[pg] = IF Room(pool, pg, c) = {} THEN Null ELSE SlotOf(c)
    BY <2>2 DEF CutAt
  <2>4. c = s
    BY <2>1, <2>3, <1>2, <1>6, DividedShift
  <2> QED
    BY <2>1, <2>3, <2>4, <1>6 DEF Vacant, Room
<1> QED
  BY <1>4, <1>5, <1>6 DEF ClassPages

-----------------------------------------------------------------------------

\* The pool is sound, and the page table and the callers agree, whatever is allocated,
\* given back, given back twice while nobody else has it, or freed at an address
\* inside a region that is held.
THEOREM SlabInvariant == Spec => []SlabInv
BY SlabInit, SlabStep, PTL DEF Spec

\* Words keep to their width, links to nodes, and callers' regions to the pool.
THEOREM SlabTypeCorrect == Spec => []TypeOK
BY SlabInvariant, SoundType, PTL

\* No Unlink or Push ever leaves a list open, or a page in two of them.
THEOREM SlabListsLinked == Spec => []ListsLinked
BY SlabInvariant, SoundLists, PTL

\* No page is lost by a split or a free, and none has two owners.
THEOREM SlabPagesConserved == Spec => []PagesConserved
BY SlabInvariant, SoundPages, PTL

\* A slot's list is exactly the pages of its size with a vacant chunk.
THEOREM SlabSlotsHaveRoom == Spec => []SlotsHaveRoom
BY SlabInvariant, SoundSlots, PTL

\* What callers hold is what the page table has as busy, each region once: no such
\* free takes a region from anyone but who gave it back.
THEOREM SlabBusyIsLive == Spec => []BusyIsLive
<1>1. SlabInv => BusyIsLive
  BY DEF SlabInv
<1> QED
  BY <1>1, SlabInvariant, PTL
=============================================================================
