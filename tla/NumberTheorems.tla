--------------------------- MODULE NumberTheorems ---------------------------
(***************************************************************************)
(* Induction over the natural numbers, said of sets of them, and what      *)
(* rounding does, for every alignment: the code uses powers of two, but    *)
(* nothing here needs that.                                                *)
(***************************************************************************)
EXTENDS Align, WellFoundedInduction, TLAPS

(* Every set of natural numbers that is not empty has a least element.     *)
LEMMA LeastNat ==
  ASSUME NEW T, T \subseteq Nat, T # {}
  PROVE  \E x \in T : \A y \in T : x <= y
<1>1. IsWellFoundedOn({ss \in Nat \X Nat : ss[1] < ss[2]}, Nat)
  BY NatLessThanWellFounded DEF OpToRel
<1>2. PICK x \in T : \A y \in T : ~(<<y, x>> \in {ss \in Nat \X Nat : ss[1] < ss[2]})
  BY <1>1, WFMin
<1>3. ASSUME NEW y \in T PROVE x <= y
  <2>1. ~(y < x)
    BY <1>2
  <2> QED
    BY <2>1
<1> QED
  BY <1>3

(* A set that has 0, and with a number the next one, has them all.         *)
LEMMA AllNat ==
  ASSUME NEW T, 0 \in T, \A n \in Nat : n \in T => n + 1 \in T
  PROVE  \A n \in Nat : n \in T
<1>1. SUFFICES ASSUME Nat \ T # {} PROVE FALSE
  OBVIOUS
<1>2. PICK x \in Nat \ T : \A y \in Nat \ T : x <= y
  BY <1>1, LeastNat
<1>3. x - 1 \in Nat /\ x - 1 \in T
  BY <1>2
<1>4. (x - 1) + 1 \in T
  BY <1>3
<1> QED
  BY <1>2, <1>4

(* Induction up to a number.                                               *)
LEMMA AllUpTo ==
  ASSUME NEW N \in Nat, NEW T, 0 \in T,
         \A n \in 0..(N - 1) : n \in T => n + 1 \in T
  PROVE  \A n \in 0..N : n \in T
<1> DEFINE S == {n \in Nat : n <= N => n \in T}
<1>1. 0 \in S
  OBVIOUS
<1>2. ASSUME NEW n \in Nat, n \in S PROVE n + 1 \in S
  <2>1. CASE n + 1 <= N
    <3>1. n \in 0..(N - 1) /\ n \in T
      BY <1>2, <2>1
    <3> QED
      BY <3>1
  <2> QED
    BY <2>1
<1> HIDE DEF S
<1>3. \A n \in Nat : n \in S
  BY <1>1, <1>2, AllNat
<1> QED
  BY <1>3 DEF S

(* A function from 0 to N goes on from each value to the next by a step.   *)
Recurs(u, N, S, s, step) ==
  /\ u \in [0..N -> S] /\ u[0] = s
  /\ \A n \in 1..N : u[n] = step[n][u[n - 1]]

(* A recursive definition has a solution.                                  *)
LEMMA RecursionExists ==
  ASSUME NEW N \in Nat, NEW S, NEW s \in S, NEW step \in [1..N -> [S -> S]]
  PROVE  \E u : Recurs(u, N, S, s, step)
<1> DEFINE Runs(m, u) == /\ u \in [0..m -> S] /\ u[0] = s
                         /\ \A n \in 1..m : u[n] = step[n][u[n - 1]]
           T == {m \in 0..N : \E u \in [0..m -> S] : Runs(m, u)}
<1>1. 0 \in T
  <2> DEFINE u == [n \in 0..0 |-> s]
  <2>1. Runs(0, u)
    OBVIOUS
  <2>2. 0 \in 0..N
    OBVIOUS
  <2> HIDE DEF u
  <2> QED
    BY <2>1, <2>2
<1>2. ASSUME NEW m \in 0..(N - 1), m \in T PROVE m + 1 \in T
  <2>1. PICK u \in [0..m -> S] : Runs(m, u)
    BY <1>2
  <2> DEFINE next == step[m + 1][u[m]]
             v == [n \in 0..(m + 1) |-> IF n = m + 1 THEN next ELSE u[n]]
  <2>2. m + 1 \in 1..N /\ u[m] \in S /\ m \in Nat
    BY <2>1
  <2>3. next \in S
    BY <2>2
  <2>4. v[m + 1] = next /\ \A n \in 0..m : v[n] = u[n]
    BY <2>2
  <2>5. v \in [0..(m + 1) -> S] /\ v[0] = s
    <3> HIDE DEF next
    <3>1. \A n \in 0..(m + 1) : n = m + 1 \/ n \in 0..m
      BY <2>2
    <3> QED
      BY <2>1, <2>2, <2>3, <3>1
  <2>6. ASSUME NEW n \in 1..(m + 1) PROVE v[n] = step[n][v[n - 1]]
    <3>1. n - 1 \in 0..m
      BY <2>2
    <3>2. v[n - 1] = u[n - 1]
      BY <2>4, <3>1
    <3>3. CASE n = m + 1
      <4>1. n - 1 = m
        BY <2>2, <3>3
      <4> HIDE DEF v
      <4> QED
        BY <2>4, <3>2, <3>3, <4>1
    <3>4. CASE n # m + 1
      <4>1. n \in 1..m
        BY <2>2, <3>4
      <4>2. v[n] = u[n]
        BY <2>4, <4>1
      <4> HIDE DEF v
      <4> QED
        BY <2>1, <3>2, <4>1, <4>2
    <3> QED
      BY <3>3, <3>4
  <2> HIDE DEF v
  <2> QED
    BY <2>2, <2>5, <2>6
<1> HIDE DEF T
<1>3. \A m \in 0..N : m \in T
  BY <1>1, <1>2, AllUpTo
<1>4. N \in T
  BY <1>3
<1> QED
  BY <1>4 DEF T, Recurs

(* Division with a remainder, as the provers know it.                      *)
LEMMA DivMod ==
  ASSUME NEW x \in Int, NEW a \in Nat \ {0}
  PROVE  /\ x \div a \in Int /\ x % a \in 0..(a - 1)
         /\ x % a = x - a * (x \div a)
<1>1. x \div a \in Int /\ x % a \in 0..(a - 1)
  OBVIOUS
<1>2. a \in Nat /\ a > 0
  OBVIOUS
<1>3. x % a = x - a * (x \div a)
  BY SMTT(30), <1>2
<1> QED
  BY <1>1, <1>3

(* Quotient and remainder are the only numbers of that kind.               *)
LEMMA DivUnique ==
  ASSUME NEW x \in Int, NEW a \in Nat, a > 0, NEW q \in Int, NEW r \in Int,
         0 <= r, r < a, x = a * q + r
  PROVE  x \div a = q /\ x % a = r
<1>1. x \div a = q
  BY SMTT(30)
<1>2. x % a = r
  BY SMTT(30)
<1> QED
  BY <1>1, <1>2

(* round_down: the multiple at or below, less than an alignment away.      *)
THEOREM RoundDownIs ==
  ASSUME NEW x \in Int, NEW a \in Nat \ {0}
  PROVE  /\ RoundDown(x, a) \in Int
         /\ RoundDown(x, a) = x - (x % a)
         /\ RoundDown(x, a) % a = 0
<1>1. PICK p \in Int : p = x \div a /\ x % a = x - a * p
  BY DivMod
<1>2. RoundDown(x, a) = p * a
  BY <1>1 DEF RoundDown
<1>3. PICK m \in Int : m = p * a
  BY <1>1
<1>4. m = a * p + 0 /\ a > 0
  BY <1>3
<1>5. m % a = 0
  BY <1>4, DivUnique
<1>6. RoundDown(x, a) = m
  BY <1>2, <1>3, Zenon
<1>7. m = x - (x % a)
  BY <1>1, <1>3
<1> QED
  BY <1>5, <1>6, <1>7, Zenon

(* round_up: the multiple at or above, less than an alignment away.        *)
THEOREM RoundUpIs ==
  ASSUME NEW x \in Int, NEW a \in Nat \ {0}
  PROVE  /\ RoundUp(x, a) \in Int
         /\ RoundUp(x, a) % a = 0
         /\ x % a = 0 => RoundUp(x, a) = x
         /\ x % a # 0 => RoundUp(x, a) = x + (a - (x % a))
<1>1. PICK p \in Int, s \in 0..(a - 1) : s = x % a /\ s = x - a * p
  BY DivMod
<1>2. PICK y \in Int : y = x + (a - 1)
  OBVIOUS
<1>3. RoundUp(x, a) = RoundDown(y, a)
  BY <1>2 DEF RoundUp
<1>4. PICK u \in Int : u = RoundDown(y, a) /\ u = y - (y % a) /\ u % a = 0
  BY RoundDownIs
<1>5. ASSUME s = 0 PROVE u = x
  <2>1. y = a * p + (a - 1) /\ 0 <= a - 1 /\ a - 1 < a /\ a - 1 \in Int
    BY <1>1, <1>2, <1>5
  <2>2. y % a = a - 1
    BY <2>1, DivUnique
  <2> QED
    BY <1>2, <1>4, <2>2
<1>6. ASSUME s # 0 PROVE u = x + (a - s)
  <2>1. PICK q \in Int : q = p + 1
    BY <1>1
  <2>2. y = a * q + (s - 1)
    <3>1. a * q = a * p + a
      BY <2>1
    <3> QED
      BY <3>1, <1>1, <1>2
  <2>3. 0 <= s - 1 /\ s - 1 < a /\ s - 1 \in Int
    BY <1>1, <1>6
  <2>4. y % a = s - 1
    BY <2>2, <2>3, DivUnique
  <2>5. u = y - (s - 1)
    BY <1>4, <2>4, Zenon
  <2> QED
    BY <1>2, <2>3, <2>5
<1>7. RoundUp(x, a) = u
  BY <1>3, <1>4, Zenon
<1> QED
  BY <1>1, <1>4, <1>5, <1>6, <1>7, Zenon

(* The same without remainders, for those who only need the bounds.        *)
THEOREM RoundUpBounds ==
  ASSUME NEW x \in Int, NEW a \in Nat \ {0}
  PROVE  RoundUp(x, a) \in Int /\ x <= RoundUp(x, a) /\ RoundUp(x, a) < x + a
<1>1. PICK s \in 0..(a - 1) : s = x % a
  BY DivMod
<1>2. PICK u \in Int : u = RoundUp(x, a)
  BY RoundUpIs
<1>3. (s = 0 => u = x) /\ (s # 0 => u = x + (a - s))
  BY <1>1, <1>2, RoundUpIs, Zenon
<1>4. x <= u /\ u < x + a
  BY <1>1, <1>3
<1> QED
  BY <1>2, <1>4

(* The multiples are what the remainder says they are.                     *)
THEOREM Multiples ==
  ASSUME NEW x \in Int, NEW a \in Nat \ {0}
  PROVE  x % a = 0 <=> \E q \in Int : x = a * q
<1>1. ASSUME x % a = 0 PROVE \E q \in Int : x = a * q
  <2>1. PICK q \in Int : q = x \div a /\ x % a = x - a * q
    BY DivMod
  <2> QED
    BY <1>1, <2>1
<1>2. ASSUME NEW q \in Int, x = a * q PROVE x % a = 0
  <2>1. x = a * q + 0 /\ a > 0
    BY <1>2
  <2> QED
    BY <2>1, DivUnique
<1> QED
  BY <1>1, <1>2

(* round_up gives the smallest multiple that is large enough.              *)
THEOREM SmallestMultiple ==
  ASSUME NEW x \in Int, NEW a \in Nat \ {0}, NEW m \in Int, m % a = 0, x <= m
  PROVE  RoundUp(x, a) <= m
<1>1. PICK u \in Int : u = RoundUp(x, a) /\ u % a = 0 /\ u < x + a
  BY RoundUpIs, RoundUpBounds
<1>2. PICK q \in Int : u = a * q
  BY <1>1, Multiples
<1>3. PICK r \in Int : m = a * r
  BY Multiples
<1>4. a * q < a * r + a
  BY <1>1, <1>2, <1>3
<1>5. ~(q - r >= 1)
  <2> SUFFICES ASSUME q - r >= 1 PROVE FALSE
    OBVIOUS
  <2>1. a * (q - r) >= a
    OBVIOUS
  <2>2. a * (q - r) = a * q - a * r
    OBVIOUS
  <2> QED
    BY <1>4, <2>1, <2>2
<1>6. u <= m
  <2>1. q <= r
    BY <1>5
  <2>2. a * (r - q) >= 0
    BY <2>1
  <2>3. a * (r - q) = a * r - a * q
    OBVIOUS
  <2> QED
    BY <1>2, <1>3, <2>2, <2>3
<1> QED
  BY <1>1, <1>6

(* round_up keeps the order.                                               *)
THEOREM RoundUpMonotone ==
  ASSUME NEW x \in Int, NEW y \in Int, NEW a \in Nat \ {0}, x <= y
  PROVE  RoundUp(x, a) <= RoundUp(y, a)
<1>1. PICK m \in Int : m = RoundUp(y, a) /\ m % a = 0 /\ y <= m
  BY RoundUpIs, RoundUpBounds
<1>2. x <= m
  BY <1>1
<1> QED
  BY <1>1, <1>2, SmallestMultiple

(* An offset below the alignment is what rounding a sum takes away.        *)
THEOREM OffsetFromMultiple ==
  ASSUME NEW a \in Nat \ {0}, NEW m \in Int, m % a = 0, NEW r \in 0..(a - 1)
  PROVE  (m + r) % a = r /\ RoundDown(m + r, a) = m
<1>1. PICK q \in Int : m = a * q
  BY Multiples
<1>2. PICK y \in Int : y = m + r
  OBVIOUS
<1>3. y = a * q + r /\ 0 <= r /\ r < a /\ a > 0 /\ r \in Int
  BY <1>1, <1>2
<1>4. y % a = r
  BY <1>3, DivUnique
<1>5. RoundDown(y, a) = y - (y % a)
  BY RoundDownIs
<1>6. RoundDown(y, a) = y - r
  BY <1>4, <1>5, Zenon
<1> QED
  BY <1>2, <1>4, <1>6

(* A multiple of a multiple of a is a multiple of a.                       *)
THEOREM MultipleOfMultiple ==
  ASSUME NEW a \in Nat \ {0}, NEW b \in Nat \ {0}, b % a = 0,
         NEW x \in Int, x % b = 0
  PROVE  x % a = 0
<1>1. PICK q \in Int : x = b * q
  BY Multiples
<1>2. PICK r \in Int : b = a * r
  BY Multiples
<1>3. PICK p \in Int : p = r * q
  OBVIOUS
<1>4. x = a * p
  BY <1>1, <1>2, <1>3
<1> QED
  BY <1>4, Multiples
=============================================================================
