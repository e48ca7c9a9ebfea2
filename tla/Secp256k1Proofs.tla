-------------------------- MODULE Secp256k1Proofs ---------------------------
(***************************************************************************)
(* Theorems about Secp256k1 for every curve, order, generator and width.   *)
(* From the branches of the code's addition it is proved that the curve is *)
(* a commutative group and that the generator has the order N; from that,  *)
(* that the ladder, the nonce, the reductions modulo N and P and the       *)
(* compressed key fit together.  Nothing about the curve is assumed but    *)
(* what Secp256k1 states of its parameters.                                *)
(***************************************************************************)
EXTENDS Secp256k1, FiniteSetTheorems, WellFoundedInduction, TLAPS

-----------------------------------------------------------------------------
(* Functions defined by recursion on the naturals.                          *)

(* Induction, for a set of numbers.                                         *)
LEMMA Induction ==
    ASSUME NEW S, 0 \in S, \A n \in Nat : n \in S => n + 1 \in S
    PROVE  Nat \subseteq S
  <1> DEFINE T == Nat \ S
             R == OpToRel(<, Nat)
  <1> SUFFICES ASSUME T # {} PROVE FALSE
    OBVIOUS
  <1>1. T \subseteq Nat
    OBVIOUS
  <1>2. IsWellFoundedOn(R, Nat)
    BY NatLessThanWellFounded
  <1>3. PICK m \in T : \A y \in T : ~ (<<y, m>> \in R)
    BY <1>1, <1>2, WFMin
  <1>4. m \in Nat /\ m # 0 /\ m - 1 \in Nat /\ (m - 1) + 1 = m
    OBVIOUS
  <1>5. m - 1 \in T
    BY <1>4
  <1>6. <<m - 1, m>> \in R
    BY <1>4 DEF OpToRel
  <1> QED
    BY <1>3, <1>5, <1>6

(* A first value and a step define a function.                              *)
Steps(S) == [Nat \X S -> S]
Iterates(f, S, a, step) ==
    f \in [Nat -> S] /\ f[0] = a /\ \A n \in Nat : f[n + 1] = step[<<n, f[n]>>]

LEMMA Recursion ==
    ASSUME NEW S, NEW a \in S, NEW step \in Steps(S)
    PROVE  \E f : Iterates(f, S, a, step)
  <1>0. step \in [Nat \X S -> S]
    BY DEF Steps
  <1> DEFINE Part(n) == {g \in [0 .. n -> S] :
                            /\ g[0] = a
                            /\ \A j \in 0 .. n - 1 : g[j + 1] = step[<<j, g[j]>>]}
             Has == {n \in Nat : Part(n) # {}}
  <1>1. 0 \in Has
    <2>1. [j \in 0 .. 0 |-> a] \in Part(0)
      OBVIOUS
    <2> QED
      BY <2>1
  <1>2. ASSUME NEW n \in Nat, n \in Has PROVE n + 1 \in Has
    <2>1. PICK g : g \in Part(n)
      BY <1>2
    <2>a. g \in [0 .. n -> S] /\ g[0] = a
      BY <2>1
    <2>b. \A j \in 0 .. n - 1 : g[j + 1] = step[<<j, g[j]>>]
      BY <2>1
    <2> DEFINE h == [j \in 0 .. n + 1 |-> IF j = n + 1 THEN step[<<n, g[n]>>] ELSE g[j]]
    <2>2. h \in [0 .. n + 1 -> S]
      <3>1. step[<<n, g[n]>>] \in S
        BY <1>0, <2>a
      <3>2. \A j \in 0 .. n + 1 : j = n + 1 \/ g[j] \in S
        BY <2>a
      <3> QED
        BY <3>1, <3>2
    <2>3. h[0] = a
      BY <2>a
    <2>4. ASSUME NEW j \in 0 .. (n + 1) - 1 PROVE h[j + 1] = step[<<j, h[j]>>]
      <3>1. h[j] = g[j]
        OBVIOUS
      <3>2. CASE j = n
        <4>1. h[n + 1] = step[<<n, g[n]>>]
          OBVIOUS
        <4> QED
          BY <3>1, <3>2, <4>1
      <3>3. CASE j # n
        <4>1. j \in 0 .. n - 1
          BY <3>3
        <4>2. h[j + 1] = g[j + 1]
          BY <4>1
        <4> QED
          BY <2>b, <3>1, <4>1, <4>2
      <3> QED
        BY <3>2, <3>3
    <2> HIDE DEF h
    <2>5. h \in Part(n + 1)
      BY <2>2, <2>3, <2>4
    <2> HIDE DEF Part
    <2> QED
      BY <2>5
  <1>3. \A n \in Nat : Part(n) # {}
    <2> HIDE DEF Part
    <2>1. Nat \subseteq Has
      BY <1>1, <1>2, Induction
    <2> QED
      BY <2>1
  <1> DEFINE f == [n \in Nat |-> (CHOOSE g : g \in Part(n))[n]]
  <1>4. ASSUME NEW n \in Nat PROVE (CHOOSE g : g \in Part(n)) \in Part(n)
    <2> HIDE DEF Part
    <2> QED
      BY <1>3
  <1>5. ASSUME NEW n \in Nat, NEW m \in Nat, n <= m,
               NEW g \in Part(n), NEW h \in Part(m)
        PROVE  g[n] = h[n]
    <2> DEFINE Same == {j \in Nat : j <= n => g[j] = h[j]}
    <2>1. 0 \in Same
      OBVIOUS
    <2>2. ASSUME NEW j \in Nat, j \in Same PROVE j + 1 \in Same
      <3> SUFFICES ASSUME j + 1 <= n PROVE g[j + 1] = h[j + 1]
        OBVIOUS
      <3>1. j \in 0 .. n - 1 /\ j \in 0 .. m - 1 /\ g[j] = h[j]
        BY <1>5, <2>2
      <3> QED
        BY <3>1
    <2>3. Nat \subseteq Same
      <3> HIDE DEF Same
      <3> QED
        BY <2>1, <2>2, Induction
    <2> QED
      BY <2>3
  <1> DEFINE last(n) == CHOOSE g : g \in Part(n)
  <1>6. ASSUME NEW n \in Nat
        PROVE  /\ f[n] = last(n)[n] /\ last(n) \in [0 .. n -> S] /\ last(n)[0] = a
               /\ \A j \in 0 .. n - 1 : last(n)[j + 1] = step[<<j, last(n)[j]>>]
    <2>1. last(n) \in Part(n)
      BY <1>4
    <2>2. f[n] = last(n)[n]
      OBVIOUS
    <2> HIDE DEF last
    <2> QED
      BY <2>1, <2>2
  <1>7. ASSUME NEW n \in Nat PROVE f[n] = last(n + 1)[n]
    <2> HIDE DEF Part
    <2>1. last(n) \in Part(n) /\ last(n + 1) \in Part(n + 1)
      BY <1>4
    <2> QED
      BY <1>5, <1>6, <2>1
  <1> HIDE DEF last
  <1>8. f \in [Nat -> S]
    <2>1. \A n \in Nat : f[n] \in S
      BY <1>6
    <2> QED
      BY <2>1
  <1>9. f[0] = a
    BY <1>6
  <1>10. ASSUME NEW n \in Nat PROVE f[n + 1] = step[<<n, f[n]>>]
    <2>1. n + 1 \in Nat /\ n \in 0 .. (n + 1) - 1
      OBVIOUS
    <2>2. f[n + 1] = last(n + 1)[n + 1]
      BY <1>6, <2>1
    <2>3. last(n + 1)[n + 1] = step[<<n, last(n + 1)[n]>>]
      BY <1>6, <2>1
    <2> QED
      BY <1>7, <2>2, <2>3
  <1> HIDE DEF f
  <1> QED
    BY <1>8, <1>9, <1>10 DEF Iterates

(* The powers of two by which the ladder shifts.                            *)
LEMMA Powers ==
    /\ PowerOfTwo \in [Nat -> Nat \ {0}]
    /\ PowerOfTwo[0] = 1
    /\ \A n \in Nat : PowerOfTwo[n + 1] = 2 * PowerOfTwo[n]
  <1> DEFINE S == Nat \ {0}
             step == [x \in Nat \X S |-> 2 * x[2]]
             Defines(f) == f = [n \in Nat |-> IF n = 0 THEN 1 ELSE 2 * f[n - 1]]
  <1>1. 1 \in S /\ step \in Steps(S)
    BY DEF Steps
  <1> HIDE DEF S, step
  <1>2. PICK f : Iterates(f, S, 1, step)
    BY <1>1, Recursion
  <1> USE DEF S, step
  <1>a. f \in [Nat -> S] /\ f[0] = 1
    BY <1>2 DEF Iterates
  <1>3. \A n \in Nat : f[n + 1] = 2 * f[n]
    BY <1>2 DEF Iterates
  <1>4. Defines(f)
    <2>1. ASSUME NEW n \in Nat, n # 0 PROVE f[n] = 2 * f[n - 1]
      <3>1. n - 1 \in Nat /\ (n - 1) + 1 = n
        BY <2>1
      <3> QED
        BY <1>3, <3>1
    <2> QED
      BY <1>a, <2>1
  <1>5. Defines(PowerOfTwo)
    <2>1. PowerOfTwo = CHOOSE g : Defines(g)
      BY DEF PowerOfTwo
    <2> HIDE DEF Defines
    <2> QED
      BY <1>4, <2>1
  <1>6. PowerOfTwo[0] = 1 /\ \A n \in Nat : PowerOfTwo[n + 1] = 2 * PowerOfTwo[n]
    <2>1. ASSUME NEW n \in Nat PROVE PowerOfTwo[n + 1] = 2 * PowerOfTwo[n]
      <3>1. n + 1 \in Nat /\ n + 1 # 0 /\ (n + 1) - 1 = n
        OBVIOUS
      <3> QED
        BY <1>5, <3>1
    <2> QED
      BY <1>5, <2>1
  <1>7. PowerOfTwo \in [Nat -> S]
    <2> DEFINE Good == {n \in Nat : PowerOfTwo[n] \in S}
    <2>1. 0 \in Good
      BY <1>6
    <2>2. ASSUME NEW n \in Nat, n \in Good PROVE n + 1 \in Good
      BY <1>6, <2>2
    <2>3. Nat \subseteq Good
      <3> HIDE DEF Good
      <3> QED
        BY <2>1, <2>2, Induction
    <2> QED
      BY <1>5, <2>3
  <1> QED
    BY <1>6, <1>7

-----------------------------------------------------------------------------
(* The group of the curve.                                                  *)

LEMMA InfinityIsNeutral ==
    ASSUME GroupLaw, NEW p \in Group
    PROVE  PointAdd(Infinity, p) = p /\ PointAdd(p, Infinity) = p /\ Infinity \in Group
  <1>1. PointAdd(Infinity, p) = p
    BY DEF PointAdd
  <1>2. Infinity \in Group
    BY DEF Group
  <1> QED
    BY <1>1, <1>2 DEF GroupLaw

LEMMA Multiples ==
    ASSUME GroupLaw, NEW p \in Group
    PROVE  /\ MultiplesOf(p) \in [Nat -> Group]
           /\ MultiplesOf(p)[0] = Infinity
           /\ \A n \in Nat : MultiplesOf(p)[n + 1] = PointAdd(MultiplesOf(p)[n], p)
  <1> DEFINE step == [x \in Nat \X Group |-> PointAdd(x[2], p)]
             Defines(f) == f = [n \in Nat |-> IF n = 0 THEN Infinity
                                              ELSE PointAdd(f[n - 1], p)]
  <1>1. Infinity \in Group /\ step \in Steps(Group)
    BY InfinityIsNeutral DEF GroupLaw, Steps
  <1> HIDE DEF step
  <1>2. PICK f : Iterates(f, Group, Infinity, step)
    BY <1>1, Recursion
  <1> USE DEF step
  <1>a. f \in [Nat -> Group] /\ f[0] = Infinity
    BY <1>2 DEF Iterates
  <1>3. \A n \in Nat : f[n + 1] = PointAdd(f[n], p)
    BY <1>2 DEF Iterates
  <1>4. Defines(f)
    <2>1. ASSUME NEW n \in Nat, n # 0 PROVE f[n] = PointAdd(f[n - 1], p)
      <3>1. n - 1 \in Nat /\ (n - 1) + 1 = n
        BY <2>1
      <3> QED
        BY <1>3, <3>1
    <2> QED
      BY <1>a, <2>1
  <1>5. Defines(MultiplesOf(p))
    <2>1. MultiplesOf(p) = CHOOSE g : Defines(g)
      BY DEF MultiplesOf
    <2> HIDE DEF Defines
    <2> QED
      BY <1>4, <2>1
  <1> DEFINE m == MultiplesOf(p)
  <1>6. m[0] = Infinity /\ \A n \in Nat : m[n + 1] = PointAdd(m[n], p)
    <2>1. ASSUME NEW n \in Nat PROVE m[n + 1] = PointAdd(m[n], p)
      <3>1. n + 1 \in Nat /\ n + 1 # 0 /\ (n + 1) - 1 = n
        OBVIOUS
      <3> QED
        BY <1>5, <3>1
    <2> QED
      BY <1>5, <2>1
  <1>7. m \in [Nat -> Group]
    <2> DEFINE Good == {n \in Nat : m[n] \in Group}
    <2>1. 0 \in Good
      BY <1>1, <1>6
    <2>2. ASSUME NEW n \in Nat, n \in Good PROVE n + 1 \in Good
      <3>1. m[n] \in Group /\ m[n + 1] = PointAdd(m[n], p)
        BY <1>6, <2>2
      <3>2. PointAdd(m[n], p) \in Group
        BY <3>1 DEF GroupLaw
      <3> QED
        BY <3>1, <3>2
    <2>3. Nat \subseteq Good
      <3> HIDE DEF Good
      <3> QED
        BY <2>1, <2>2, Induction
    <2> QED
      BY <1>5, <2>3
  <1> QED
    BY <1>6, <1>7

(* Multiples add up, and so do multiples of multiples.                      *)
LEMMA MultiplesAdd ==
    ASSUME GroupLaw, NEW p \in Group, NEW a \in Nat, NEW b \in Nat
    PROVE  PointAdd(MultiplesOf(p)[a], MultiplesOf(p)[b]) = MultiplesOf(p)[a + b]
  <1> DEFINE m == MultiplesOf(p)
             Good == {n \in Nat : PointAdd(m[a], m[n]) = m[a + n]}
  <1>1. m \in [Nat -> Group] /\ m[0] = Infinity
        /\ \A n \in Nat : m[n + 1] = PointAdd(m[n], p)
    BY Multiples
  <1> HIDE DEF m
  <1>2. 0 \in Good
    BY <1>1, InfinityIsNeutral
  <1>3. ASSUME NEW n \in Nat, n \in Good PROVE n + 1 \in Good
    <2>1. m[n + 1] = PointAdd(m[n], p) /\ m[a + n + 1] = PointAdd(m[a + n], p)
      BY <1>1
    <2>2. PointAdd(PointAdd(m[a], m[n]), p) = PointAdd(m[a], PointAdd(m[n], p))
      BY <1>1 DEF GroupLaw, Associative
    <2> QED
      BY <1>3, <2>1, <2>2
  <1>4. Nat \subseteq Good
    <2> HIDE DEF Good
    <2> QED
      BY <1>2, <1>3, Induction
  <1> QED
    BY <1>4 DEF m

LEMMA MultiplesMultiply ==
    ASSUME GroupLaw, NEW p \in Group, NEW a \in Nat, NEW b \in Nat
    PROVE  MultiplesOf(MultiplesOf(p)[a])[b] = MultiplesOf(p)[a * b]
  <1> DEFINE m == MultiplesOf(p)
             mm == MultiplesOf(m[a])
             Good == {n \in Nat : mm[n] = m[a * n]}
  <1>1. m \in [Nat -> Group] /\ m[0] = Infinity
    BY Multiples
  <1>2. mm[0] = Infinity /\ \A n \in Nat : mm[n + 1] = PointAdd(mm[n], m[a])
    BY <1>1, Multiples
  <1>3. 0 \in Good
    BY <1>1, <1>2
  <1>4. ASSUME NEW n \in Nat, n \in Good PROVE n + 1 \in Good
    <2>1. a * n \in Nat /\ a * (n + 1) = a * n + a
      OBVIOUS
    <2>2. PointAdd(m[a * n], m[a]) = m[a * n + a]
      BY <2>1, MultiplesAdd
    <2> QED
      BY <1>2, <1>4, <2>1, <2>2
  <1>5. Nat \subseteq Good
    <2> HIDE DEF Good
    <2> QED
      BY <1>3, <1>4, Induction
  <1> QED
    BY <1>5

-----------------------------------------------------------------------------
(* Numbers: quotients, remainders and shifts.                               *)

LEMMA Division ==
    ASSUME NEW x \in Int, NEW m \in Nat \ {0}
    PROVE  \E q \in Int, r \in 0 .. m - 1 : x \div m = q /\ x % m = r /\ x = m * q + r
  <1> DEFINE q == x \div m
             r == x % m
  <1>1. q \in Int /\ r \in 0 .. m - 1 /\ x - m * q = r
    OBVIOUS
  <1> HIDE DEF q, r
  <1>2. m * q \in Int
    BY <1>1
  <1>3. x = m * q + r
    BY <1>1, <1>2
  <1> QED
    BY <1>1, <1>3 DEF q, r

LEMMA Quotient ==
    ASSUME NEW m \in Nat \ {0}, NEW q \in Int, NEW r \in 0 .. m - 1
    PROVE  (m * q + r) \div m = q /\ (m * q + r) % m = r
  <1> DEFINE x == m * q + r
             qx == x \div m
             rx == x % m
  <1>1. x \in Int
    OBVIOUS
  <1>2. qx \in Int /\ rx \in 0 .. m - 1 /\ x = m * qx + rx
    BY <1>1, Division
  <1>3. m * (q - qx) = rx - r
    <2>1. m * q + r = m * qx + rx
      BY <1>2
    <2> HIDE DEF qx, rx
    <2>2. m * (q - qx) = m * q - m * qx
      BY <1>2
    <2> QED
      BY <1>2, <2>1, <2>2
  <1> HIDE DEF x, qx, rx
  <1>4. q - qx >= 1 => m * (q - qx) >= m
    BY <1>2
  <1>5. q - qx <= -1 => m * (q - qx) <= -m
    BY <1>2
  <1>6. q = qx /\ r = rx
    BY <1>2, <1>3, <1>4, <1>5
  <1> QED
    BY <1>6 DEF x, qx, rx

(* Reductions may be taken early, late, or more than once.                  *)
LEMMA ModShift ==
    ASSUME NEW m \in Nat \ {0}, NEW a \in Int, NEW q \in Int
    PROVE  (a + m * q) % m = a % m
  <1> DEFINE d == a \div m
             r == a % m
  <1>1. d \in Int /\ r \in 0 .. m - 1 /\ a = m * d + r
    BY Division
  <1> HIDE DEF d, r
  <1>2. m * d + m * q = m * (d + q)
    BY <1>1
  <1>3. a + m * q = m * (d + q) + r
    BY <1>1, <1>2
  <1>4. (m * (d + q) + r) % m = r
    BY <1>1, Quotient
  <1> QED
    BY <1>3, <1>4 DEF r

LEMMA ModTimes ==
    ASSUME NEW m \in Nat \ {0}, NEW a \in Int, NEW b \in Int
    PROVE  (a * (b % m)) % m = (a * b) % m
  <1> DEFINE d == b \div m
             r == b % m
  <1>1. d \in Int /\ r \in 0 .. m - 1 /\ b = m * d + r
    BY Division
  <1> HIDE DEF d, r
  <1>2. a * b = a * r + m * (a * d)
    BY <1>1
  <1>3. a * r \in Int /\ a * d \in Int
    BY <1>1
  <1>4. (a * r + m * (a * d)) % m = (a * r) % m
    BY <1>3, ModShift
  <1> QED
    BY <1>2, <1>4 DEF r

LEMMA ModPlus ==
    ASSUME NEW m \in Nat \ {0}, NEW a \in Int, NEW b \in Int
    PROVE  (a + (b % m)) % m = (a + b) % m
  <1> DEFINE d == b \div m
             r == b % m
  <1>1. d \in Int /\ r \in 0 .. m - 1 /\ b = m * d + r
    BY Division
  <1> HIDE DEF d, r
  <1>2. a + b = (a + r) + m * d
    BY <1>1
  <1>3. a + r \in Int
    BY <1>1
  <1>4. ((a + r) + m * d) % m = (a + r) % m
    BY <1>1, <1>3, ModShift
  <1> QED
    BY <1>2, <1>4 DEF r

(* k >> i is k >> i + 1, doubled, and the bit between them.                 *)
LEMMA ShiftByOne ==
    ASSUME NEW a \in Nat, NEW n \in Nat
    PROVE  /\ Shift(a, n) \in Nat /\ Bit(a, n) \in {0, 1}
           /\ Shift(a, n) = 2 * Shift(a, n + 1) + Bit(a, n)
  <1> DEFINE c == PowerOfTwo[n]
  <1>1. c \in Nat \ {0} /\ PowerOfTwo[n + 1] = 2 * c
    BY Powers
  <1> HIDE DEF c
  <1>2. PICK h \in Int, r \in 0 .. c - 1 : a \div c = h /\ a = c * h + r
    BY <1>1, Division
  <1>3. PICK b \in Int, t \in 0 .. 1 : h \div 2 = b /\ h % 2 = t /\ h = 2 * b + t
    BY <1>2, Division
  <1>4. h \in Nat
    <2>1. h <= -1 => c * h <= -c
      BY <1>1
    <2> QED
      BY <1>1, <1>2, <2>1
  <1>5. a \div (2 * c) = b
    <2>1. t \in {0, 1}
      OBVIOUS
    <2>2. c * t + r \in 0 .. 2 * c - 1 /\ 2 * c \in Nat \ {0}
      BY <1>1, <2>1
    <2>3. c * h = (2 * c) * b + c * t
      BY <1>1, <1>3
    <2>4. a = (2 * c) * b + (c * t + r)
      BY <1>1, <1>2, <2>3
    <2>5. ((2 * c) * b + (c * t + r)) \div (2 * c) = b
      BY <2>2, Quotient
    <2> QED
      BY <2>4, <2>5
  <1>6. Shift(a, n) = h /\ Shift(a, n + 1) = b
    BY <1>1, <1>2, <1>5 DEF Shift, c
  <1> QED
    BY <1>3, <1>4, <1>6 DEF Bit

(* Before the first bit the ladder has read nothing, after the last all.    *)
LEMMA ShiftEnds ==
    ASSUME NEW a \in Digests
    PROVE  Shift(a, Bits) = 0 /\ Shift(a, 0) = a
  <1>1. PowerOfTwo[Bits] \in Nat \ {0} /\ PowerOfTwo[0] = 1
    BY Powers, OrderAssumption
  <1> DEFINE c == PowerOfTwo[Bits]
  <1>2. a \in 0 .. c - 1
    BY DEF Digests
  <1>3. a \div c = 0
    <2> HIDE DEF c
    <2>1. (c * 0 + a) \div c = 0
      BY <1>1, <1>2, Quotient DEF c
    <2>2. c * 0 + a = a
      BY <1>1, <1>2 DEF c
    <2> QED
      BY <2>1, <2>2
  <1>4. a \div 1 = a
    BY <1>1, <1>2
  <1> QED
    BY <1>1, <1>3, <1>4 DEF Shift

-----------------------------------------------------------------------------
(* The ladder. *)

LEMMA LadderStepDoubles ==
    ASSUME GroupLaw, NEW p \in Group, NEW h \in Nat, NEW bit \in {0, 1}
    PROVE  LadderStep([zero |-> MultiplesOf(p)[h], one |-> MultiplesOf(p)[h + 1]], bit) =
             [zero |-> MultiplesOf(p)[2 * h + bit], one |-> MultiplesOf(p)[2 * h + bit + 1]]
  <1> DEFINE m == MultiplesOf(p)
  <1>1. m \in [Nat -> Group]
    BY Multiples
  <1>2. m[h] \in Group /\ m[h + 1] \in Group
    BY <1>1
  <1>3. PointDouble(m[h]) = m[h + h]
    <2>1. PointAdd(m[h], m[h]) = m[h + h]
      BY MultiplesAdd
    <2> HIDE DEF m
    <2> QED
      BY <1>2, <2>1 DEF GroupLaw
  <1>4. PointDouble(m[h + 1]) = m[(h + 1) + (h + 1)]
    <2>1. PointAdd(m[h + 1], m[h + 1]) = m[(h + 1) + (h + 1)]
      BY MultiplesAdd
    <2> HIDE DEF m
    <2> QED
      BY <1>2, <2>1 DEF GroupLaw
  <1>5. PointAdd(m[h], m[h + 1]) = m[h + (h + 1)]
    BY MultiplesAdd
  <1> HIDE DEF m
  <1>6. h + h = 2 * h + 0 /\ h + (h + 1) = 2 * h + 0 + 1
        /\ h + (h + 1) = 2 * h + 1 /\ (h + 1) + (h + 1) = 2 * h + 1 + 1
    OBVIOUS
  <1>7. CASE bit = 0
    BY <1>3, <1>5, <1>6, <1>7 DEF LadderStep, m
  <1>8. CASE bit = 1
    BY <1>4, <1>5, <1>6, <1>8 DEF LadderStep, m
  <1> QED
    BY <1>7, <1>8

(* The rungs of a ladder on p: what it holds when it has n bits left.       *)
Rung(a, p, n) == [zero |-> MultiplesOf(p)[Shift(a, n)],
                  one |-> MultiplesOf(p)[Shift(a, n) + 1]]

LEMMA FirstRung ==
    ASSUME GroupLaw, NEW p \in Group, NEW a \in Digests
    PROVE  LadderStart(p) = Rung(a, p, Bits)
  <1>1. Shift(a, Bits) = 0
    BY ShiftEnds
  <1>2. MultiplesOf(p)[0] = Infinity /\ MultiplesOf(p)[0 + 1] = PointAdd(Infinity, p)
    BY Multiples
  <1> QED
    BY <1>1, <1>2, InfinityIsNeutral DEF LadderStart, Rung

LEMMA NextRung ==
    ASSUME GroupLaw, NEW p \in Group, NEW a \in Nat, NEW n \in Nat
    PROVE  /\ LadderStep(Rung(a, p, n + 1), Bit(a, n)) = Rung(a, p, n)
           /\ Rung(a, p, n) \in [zero : Group, one : Group]
  <1>1. Shift(a, n) \in Nat /\ Shift(a, n + 1) \in Nat /\ Bit(a, n) \in {0, 1}
        /\ Shift(a, n) = 2 * Shift(a, n + 1) + Bit(a, n)
    BY ShiftByOne
  <1>2. LadderStep(Rung(a, p, n + 1), Bit(a, n)) = Rung(a, p, n)
    BY <1>1, LadderStepDoubles DEF Rung
  <1>3. MultiplesOf(p) \in [Nat -> Group]
    BY Multiples
  <1> QED
    BY <1>1, <1>2, <1>3 DEF Rung

(* _point_mul multiplies.                                                   *)
LEMMA PointMulMultiplies ==
    ASSUME GroupLaw, NEW p \in Group, NEW a \in Digests
    PROVE  PointMul(a, p) = MultiplesOf(p)[a]
  <1> DEFINE S == [zero : Group, one : Group]
             Defines(f) == f = [n \in 0 .. Bits |->
                                  IF n = 0 THEN LadderStart(p)
                                  ELSE LadderStep(f[n - 1], Bit(a, Bits - n))]
             rungs == [n \in 0 .. Bits |-> Rung(a, p, Bits - n)]
  <1>1. a \in Nat /\ Bits \in Nat
    BY Powers, OrderAssumption DEF Digests
  <1>2. Defines(rungs)
    <2>1. rungs[0] = LadderStart(p)
      <3>1. rungs[0] = Rung(a, p, Bits - 0) /\ Bits - 0 = Bits
        BY <1>1
      <3> QED
        BY <3>1, FirstRung
    <2>2. ASSUME NEW n \in 0 .. Bits, n # 0
          PROVE  rungs[n] = LadderStep(rungs[n - 1], Bit(a, Bits - n))
      <3>1. Bits - n \in Nat /\ n - 1 \in 0 .. Bits /\ Bits - (n - 1) = (Bits - n) + 1
        BY <1>1, <2>2
      <3>2. rungs[n] = Rung(a, p, Bits - n) /\ rungs[n - 1] = Rung(a, p, (Bits - n) + 1)
        BY <3>1
      <3> QED
        BY <1>1, <3>1, <3>2, NextRung
    <2> QED
      BY <2>1, <2>2
  <1> DEFINE ladder == CHOOSE f : Defines(f)
  <1>3. Defines(ladder)
    <2> HIDE DEF Defines
    <2> QED
      BY <1>2
  <1>4. \A n \in Nat : n <= Bits => ladder[n] = Rung(a, p, Bits - n)
    <2> DEFINE Good == {n \in Nat : n <= Bits => ladder[n] = Rung(a, p, Bits - n)}
    <2>a. \A n \in 0 .. Bits : ladder[n] = IF n = 0 THEN LadderStart(p)
                                  ELSE LadderStep(ladder[n - 1], Bit(a, Bits - n))
      <3> HIDE DEF ladder
      <3> QED
        BY <1>3
    <2> HIDE DEF ladder
    <2>1. 0 \in Good
      <3>1. Bits - 0 = Bits /\ 0 \in 0 .. Bits
        BY <1>1
      <3> QED
        BY <2>a, <3>1, FirstRung
    <2>2. ASSUME NEW n \in Nat, n \in Good PROVE n + 1 \in Good
      <3> SUFFICES ASSUME n + 1 <= Bits
                   PROVE  ladder[n + 1] = Rung(a, p, Bits - (n + 1))
        OBVIOUS
      <3>1. Bits - (n + 1) \in Nat /\ Bits - n = (Bits - (n + 1)) + 1
            /\ n + 1 \in 0 .. Bits /\ n + 1 # 0 /\ (n + 1) - 1 = n
        BY <1>1
      <3>2. ladder[n + 1] = LadderStep(ladder[n], Bit(a, Bits - (n + 1)))
        BY <2>a, <3>1
      <3>a. n <= Bits
        BY <1>1, <3>1
      <3>b. ladder[n] = Rung(a, p, Bits - n)
        BY <2>2, <3>a
      <3>3. ladder[n] = Rung(a, p, (Bits - (n + 1)) + 1)
        BY <3>1, <3>b
      <3> QED
        BY <1>1, <3>1, <3>2, <3>3, NextRung
    <2>3. Nat \subseteq Good
      <3> HIDE DEF Good
      <3> QED
        BY <2>1, <2>2, Induction
    <2> QED
      BY <2>3
  <1>5. ladder[Bits] = Rung(a, p, 0)
    <2>1. Bits \in Nat /\ Bits <= Bits /\ Bits - Bits = 0
      BY <1>1
    <2> HIDE DEF ladder
    <2> QED
      BY <1>4, <2>1
  <1>6. PointMul(a, p) = ladder[Bits].zero
    BY DEF PointMul
  <1> HIDE DEF ladder
  <1> QED
    BY <1>5, <1>6, ShiftEnds DEF Rung

-----------------------------------------------------------------------------
(* Points and compressed keys. *)

LEMMA Moduli ==
    /\ N \in Nat \ {0, 1} /\ P \in Nat \ {0} /\ P % 2 = 1 /\ N < P
    /\ 0 .. N - 1 \subseteq Digests /\ Digests \subseteq Nat /\ G \in Group
  <1>1. P % 2 = 1
    BY FieldAssumption
  <1>2. N \in Nat \ {0, 1} /\ P \in Nat \ {0}
    BY FieldAssumption, OrderAssumption DEF Prime
  <1>3. 0 .. N - 1 \subseteq Digests /\ Digests \subseteq Nat
    BY OrderAssumption, Powers DEF Digests
  <1> QED
    BY <1>1, <1>2, <1>3, OrderAssumption DEF Group

LEMMA Coordinates ==
    ASSUME NEW p \in Curve
    PROVE  /\ p[1] \in 0 .. P - 1 /\ p[2] \in 0 .. P - 1 /\ p = <<p[1], p[2]>>
           /\ (p[2] * p[2]) % P = Square(p[1])
           /\ p # Infinity /\ p \in Group
  BY InfinityAssumption DEF Curve, Group

(* The verifier recovers the point whose x and parity it is given, whether  *)
(* the power it takes is the root it needs or the other one.                *)
LEMMA CompressedKeyIsRecovered ==
    ASSUME NEW p \in Curve
    PROVE  Decompress(Compress(p)) = p
  <1> DEFINE x == p[1]
             y == p[2]
             square == Square(x)
             root == PowMod(square, (P + 1) \div 4, P)
  <1>1. x \in 0 .. P - 1 /\ y \in 0 .. P - 1 /\ p = <<x, y>> /\ (y * y) % P = square
    BY Coordinates
  <1>2. root \in {y, P - y}
    BY <1>1, FermatAssumption
  <1> HIDE DEF x, y, square, root
  <1>3. P \in Nat /\ P % 2 = 1
    BY Moduli
  <1>4. (root * root) % P = square
    <2>1. CASE root = y
      BY <1>1, <2>1
    <2>2. CASE root = P - y
      <3>1. y * y \in Int /\ P - 2 * y \in Int /\ P \in Nat \ {0}
        BY <1>1, <1>3
      <3>2. (P - y) * (P - y) = y * y + P * (P - 2 * y)
        BY <1>1, <1>3
      <3>3. (y * y + P * (P - 2 * y)) % P = (y * y) % P
        BY <3>1, ModShift
      <3> QED
        BY <1>1, <2>2, <3>2, <3>3
    <2> QED
      BY <1>2, <2>1, <2>2
  <1>5. y % 2 # (P - y) % 2 /\ P - (P - y) = y
    BY <1>1, <1>3
  <1>a. Compress(p) = <<2 + (y % 2), x>>
    BY DEF Compress, x, y
  <1>b. y % 2 \in Int
    BY <1>1
  <1>6. Compress(p) = <<2 + (y % 2), x>> /\ (2 + (y % 2)) - 2 = y % 2
    BY <1>a, <1>b
  <1>7. Decompress(<<2 + (y % 2), x>>) =
           CASE (root * root) % P # square -> Infinity
             [] (root * root) % P = square /\ root % 2 = (2 + (y % 2)) - 2 -> <<x, root>>
             [] (root * root) % P = square /\ root % 2 # (2 + (y % 2)) - 2 -> <<x, P - root>>
    BY DEF Decompress, root, square
  <1>8. CASE root = y
    BY <1>1, <1>4, <1>6, <1>7, <1>8
  <1>9. CASE root = P - y /\ root # y
    BY <1>1, <1>4, <1>5, <1>6, <1>7, <1>9
  <1> QED
    BY <1>2, <1>8, <1>9

-----------------------------------------------------------------------------
(* The field: remainders modulo P as equations with a multiple of P.        *)

LEMMA Remainder ==
    ASSUME NEW a \in Int
    PROVE  a % P \in 0 .. P - 1 /\ \E q \in Int : a % P = a + P * q
  <1>1. P \in Nat \ {0}
    BY Moduli
  <1>2. PICK d \in Int, r \in 0 .. P - 1 : a % P = r /\ a = P * d + r
    BY <1>1, Division
  <1>3. -d \in Int /\ P * (-d) = -(P * d) /\ P * d \in Int
    BY <1>1
  <1>4. r = a + P * (-d)
    BY <1>2, <1>3
  <1> QED
    BY <1>2, <1>3, <1>4

LEMMA SameRemainder ==
    ASSUME NEW a \in 0 .. P - 1, NEW b \in 0 .. P - 1, NEW q \in Int, a = b + P * q
    PROVE  a = b
  <1>1. P \in Nat \ {0}
    BY Moduli
  <1>2. q >= 1 => P * q >= P
    BY <1>1
  <1>3. q <= -1 => P * q <= -P
    BY <1>1
  <1>4. q = 0 => P * q = 0
    BY <1>1
  <1> QED
    BY <1>1, <1>2, <1>3, <1>4

LEMMA ModinvInverts ==
    ASSUME NEW e \in Int, e % P # 0
    PROVE  Modinv(e, P) \in Int /\ \E u \in Int : e * Modinv(e, P) = 1 + P * u
  <1> DEFINE d == e % P
             v == Modinv(d, P)
  <1>1. P \in Nat \ {0}
    BY Moduli
  <1>2. d \in 1 .. P - 1 /\ d % P = d
    BY <1>1
  <1>3. PICK q \in Int : d = e + P * q
    BY Remainder
  <1>4. v \in 1 .. P - 1 /\ (d * v) % P = 1
    BY <1>2, FermatAssumption
  <1>5. v = Modinv(e, P)
    BY <1>2 DEF Modinv
  <1> HIDE DEF d, v
  <1>6. d * v \in Int
    BY <1>2, <1>4
  <1>7. PICK t \in Int : (d * v) % P = d * v + P * t
    BY <1>6, Remainder
  <1>8. d * v = e * v + P * (q * v)
    BY <1>1, <1>3, <1>4
  <1>9. e * v \in Int /\ q * v \in Int /\ -(t + q * v) \in Int
    BY <1>4
  <1>10. P * (-(t + q * v)) = -(P * t) - P * (q * v)
    BY <1>1, <1>9
  <1>11. e * v = 1 + P * (-(t + q * v))
    BY <1>1, <1>4, <1>7, <1>8, <1>9, <1>10
  <1> QED
    BY <1>4, <1>5, <1>9, <1>11

(* A slope, the quotient of two differences, is determined by what it is    *)
(* multiplied with.                                                         *)
LEMMA Slope ==
    ASSUME NEW e \in Int, e % P # 0, NEW h \in Int,
           NEW l, l = (h * Modinv(e, P)) % P
    PROVE  l \in 0 .. P - 1 /\ \E t \in Int : l * e = h + P * t
  <1> DEFINE v == Modinv(e, P)
  <1>1. P \in Nat \ {0}
    BY Moduli
  <1>2. v \in Int /\ \E u \in Int : e * v = 1 + P * u
    BY ModinvInverts
  <1> HIDE DEF v
  <1>3. PICK u \in Int : e * v = 1 + P * u
    BY <1>2
  <1>4. h * v \in Int
    BY <1>2
  <1>5. l \in 0 .. P - 1 /\ \E q \in Int : l = h * v + P * q
    BY <1>4, Remainder DEF v
  <1>6. PICK q \in Int : l = h * v + P * q
    BY <1>5
  <1>7. l * e = h * (e * v) + P * (q * e)
    BY <1>1, <1>2, <1>6
  <1>8. h * (e * v) = h + P * (h * u)
    BY <1>1, <1>3
  <1>9. h * u \in Int /\ q * e \in Int /\ h * u + q * e \in Int
    OBVIOUS
  <1>10. P * (h * u + q * e) = P * (h * u) + P * (q * e)
    BY <1>1, <1>9
  <1>11. l * e = h + P * (h * u + q * e)
    BY <1>1, <1>7, <1>8, <1>9, <1>10
  <1> QED
    BY <1>5, <1>9, <1>11

LEMMA Cancellation ==
    ASSUME NEW e \in Int, e % P # 0, NEW x \in Int, NEW q \in Int, x * e = P * q
    PROVE  \E t \in Int : x = P * t
  <1>1. P \in Nat \ {0}
    BY Moduli
  <1> DEFINE v == Modinv(e, P)
  <1>2. v \in Int /\ \E u \in Int : e * v = 1 + P * u
    BY ModinvInverts
  <1> HIDE DEF v
  <1>3. PICK u \in Int : e * v = 1 + P * u
    BY <1>2
  <1>4. x * (e * v) = P * (q * v)
    BY <1>1, <1>2
  <1>5. x * (e * v) = x + P * (x * u)
    BY <1>1, <1>3
  <1>6. q * v \in Int /\ x * u \in Int /\ q * v - x * u \in Int
    BY <1>2
  <1>7. P * (q * v - x * u) = P * (q * v) - P * (x * u)
    BY <1>1, <1>6
  <1>8. x = P * (q * v - x * u)
    BY <1>1, <1>4, <1>5, <1>6, <1>7
  <1> QED
    BY <1>6, <1>8

LEMMA DifferentX ==
    ASSUME NEW a \in 0 .. P - 1, NEW c \in 0 .. P - 1, a # c
    PROVE  (c - a) % P # 0
  <1> SUFFICES ASSUME (c - a) % P = 0 PROVE FALSE
    OBVIOUS
  <1>1. P \in Nat \ {0} /\ c - a \in Int
    BY Moduli
  <1>2. PICK q \in Int : (c - a) % P = (c - a) + P * q
    BY <1>1, Remainder
  <1>3. a = c + P * q
    BY <1>1, <1>2
  <1> QED
    BY <1>3, SameRemainder

LEMMA TwiceY ==
    ASSUME NEW p \in Curve
    PROVE  p[2] # 0 /\ (2 * p[2]) % P # 0
  <1> DEFINE b == p[2]
  <1>1. P \in Nat \ {0} /\ P % 2 = 1
    BY Moduli
  <1>2. p[1] \in 0 .. P - 1 /\ b \in 0 .. P - 1 /\ (b * b) % P = Square(p[1])
    BY Coordinates
  <1>3. b # 0
    <2>1. b = 0 => (b * b) % P = 0
      BY <1>1
    <2> HIDE DEF b
    <2> QED
      BY <1>2, <2>1, RootAssumption
  <1> HIDE DEF b
  <1>4. ASSUME (2 * b) % P = 0 PROVE FALSE
    <2>1. 2 * b \in Int
      BY <1>2
    <2>2. PICK q \in Int : (2 * b) % P = 2 * b + P * q
      BY <2>1, Remainder
    <2>3. 2 * b = P * (-q) /\ -q \in Int
      BY <1>1, <1>2, <1>4, <2>2
    <2> DEFINE n == -q
    <2>4. 2 * b = P * n /\ n \in Int
      BY <2>3
    <2> HIDE DEF n
    <2>5. n >= 2 => P * n >= 2 * P
      BY <1>1, <2>4
    <2>6. n <= 0 => P * n <= 0
      BY <1>1, <2>4
    <2>7. n = 1
      BY <1>1, <1>2, <1>3, <2>4, <2>5, <2>6
    <2>8. P = 2 * b
      BY <1>1, <2>4, <2>7
    <2> QED
      BY <1>1, <1>2, <2>8
  <1> QED
    BY <1>3, <1>4 DEF b

-----------------------------------------------------------------------------
(* The addition's result satisfies the curve's equation.                    *)

LEMMA CurveEquation ==
    ASSUME NEW p \in Curve
    PROVE  \E q \in Int : p[2] * p[2] = (p[1] * p[1] * p[1] + B) + P * q
  <1> DEFINE a == p[1]
             b == p[2]
  <1>1. P \in Nat \ {0} /\ B \in Int /\ a \in Int /\ b \in Int
    BY Moduli, FieldAssumption, Coordinates
  <1>2. (b * b) % P = (a * a * a + B) % P
    BY Coordinates DEF Square
  <1> HIDE DEF a, b
  <1>3. b * b \in Int /\ a * a * a + B \in Int
    BY <1>1
  <1>4. PICK t1 \in Int : (b * b) % P = b * b + P * t1
    BY <1>3, Remainder
  <1>5. PICK t2 \in Int : (a * a * a + B) % P = (a * a * a + B) + P * t2
    BY <1>3, Remainder
  <1>6. b * b = (a * a * a + B) + P * (t2 - t1) /\ t2 - t1 \in Int
    BY <1>1, <1>2, <1>3, <1>4, <1>5
  <1> QED
    BY <1>6 DEF a, b

(* A line with slope l through (a, b), which meets the curve again where x  *)
(* is c: what the slope is to satisfy there holds for chords and tangents.  *)
LineMeets(l, a, b, c) ==
    \E q \in Int : 2 * l * b + l * l * (c - a) = (c * c + c * a + a * a) + P * q

LEMMA ThirdIsOnCurve ==
    ASSUME NEW p \in Curve, NEW q \in Curve, NEW l \in Int, LineMeets(l, p[1], p[2], q[1])
    PROVE  Chord(l, p, q) \in Curve
  <1> DEFINE a == p[1]
             b == p[2]
             c == q[1]
             X == l * l - a - c
             x == X % P
             Y == l * (a - x) - b
             y == Y % P
  <1>1. P \in Nat \ {0} /\ B \in Int
    BY Moduli, FieldAssumption
  <1>2. a \in Int /\ b \in Int /\ c \in Int
    BY Coordinates
  <1>3. PICK q1 \in Int : b * b = (a * a * a + B) + P * q1
    BY CurveEquation
  <1>4. PICK q3 \in Int : 2 * l * b + l * l * (c - a) = (c * c + c * a + a * a) + P * q3
    BY DEF LineMeets
  <1>5. x \in 0 .. P - 1 /\ \E t \in Int : x = X + P * t
    <2>1. X \in Int
      BY <1>2
    <2> HIDE DEF X
    <2> QED
      BY <2>1, Remainder
  <1>6. PICK q4 \in Int : x = l * l - a - c + P * q4
    BY <1>5
  <1> HIDE DEF a, b, c, x
  <1>7. y \in 0 .. P - 1 /\ \E t \in Int : y = Y + P * t
    <2>1. Y \in Int
      BY <1>2, <1>5
    <2> HIDE DEF Y
    <2> QED
      BY <2>1, Remainder
  <1>8. PICK q5 \in Int : y = Y + P * q5
    BY <1>7
  <1> HIDE DEF y
  <1> DEFINE e == (a - x) * (c - x)
  <1>9. Y * Y = (x * x * x + B) + (e * (l * l - a - c - x) + P * (q1 - q3 * (a - x)))
    <2> DEFINE K == (c * c + c * a + a * a) - l * l * (c - a)
               lb == 2 * l * b
               d == a - x
               ll == l * l * d * d
               rest == e * (l * l - a - c - x)
    <2>1. Y * Y = ll - lb * d + b * b
      BY <1>2, <1>5
    <2>2. lb = K + P * q3
      BY <1>1, <1>2, <1>4
    <2>4. ll - K * d + a * a * a = x * x * x + rest
      BY <1>2, <1>5
    <2>5. K \in Int /\ lb \in Int /\ d \in Int /\ ll \in Int /\ rest \in Int
          /\ a * a * a \in Int /\ x * x * x \in Int
      BY <1>2, <1>5
    <2> HIDE DEF e, Y, K, lb, ll, rest
    <2>6. lb * d = K * d + P * (q3 * d)
      <3> HIDE DEF d
      <3> QED
        BY <1>1, <2>2, <2>5
    <2>7. P * (q1 - q3 * d) = P * q1 - P * (q3 * d) /\ P * q1 \in Int /\ P * (q3 * d) \in Int
          /\ K * d \in Int
      <3> HIDE DEF d
      <3> QED
        BY <1>1, <2>5
    <2> DEFINE Kd == K * d
               Pqd == P * (q3 * d)
               lbd == lb * d
               Pq1 == P * q1
               bb == b * b
               aaa == a * a * a
               xxx == x * x * x
               Pg == P * (q1 - q3 * d)
    <2>8. Y * Y = ll - lbd + b * b /\ lbd = Kd + Pqd /\ ll - Kd + a * a * a = x * x * x + rest
          /\ P * (q1 - q3 * d) = P * q1 - Pqd
      BY <2>1, <2>4, <2>6, <2>7
    <2>9. /\ Y * Y = ll - lbd + bb /\ lbd = Kd + Pqd /\ ll - Kd + aaa = xxx + rest
          /\ Pg = Pq1 - Pqd /\ bb = (aaa + B) + Pq1
      BY <1>3, <2>8
    <2>a. lbd \in Int /\ Kd \in Int /\ Pqd \in Int /\ Pq1 \in Int /\ aaa \in Int
          /\ xxx \in Int /\ bb \in Int
      BY <1>2, <2>5, <2>7
    <2> HIDE DEF Kd, Pqd, lbd, d, Pq1, bb, aaa, xxx, Pg
    <2>10. Y * Y = (xxx + B) + (rest + Pg)
      BY <1>1, <2>5, <2>9, <2>a
    <2> QED
      BY <2>10 DEF rest, d, xxx, Pg
  <1>10. e \in Int /\ Y \in Int
    BY <1>2, <1>5
  <1> HIDE DEF e, Y
  <1>11. e * (l * l - a - c - x) = P * (-(e * q4))
    <2>1. l * l - a - c - x = -(P * q4)
      BY <1>1, <1>2, <1>5, <1>6
    <2> QED
      BY <1>1, <1>10, <2>1
  <1>12. y * y = Y * Y + P * (2 * Y * q5 + P * q5 * q5)
    BY <1>1, <1>8, <1>10
  <1> DEFINE f == -(e * q4)
             g == q1 - q3 * (a - x)
             h == 2 * Y * q5 + P * q5 * q5
             cube == x * x * x + B
  <1>13. f \in Int /\ g \in Int /\ h \in Int /\ cube \in Int /\ f + g + h \in Int
    BY <1>1, <1>2, <1>5, <1>10
  <1>14. Y * Y = cube + (P * f + P * g)
    BY <1>9, <1>11
  <1>15. y * y = cube + (P * f + P * g) + P * h
    BY <1>12, <1>14
  <1> HIDE DEF f, g, h, cube
  <1>16. (P * f + P * g) + P * h = P * (f + g + h) /\ P * f + P * g \in Int /\ P * h \in Int
    BY <1>1, <1>13
  <1>17. y * y = cube + P * (f + g + h)
    BY <1>13, <1>15, <1>16
  <1>18. (y * y) % P = Square(x)
    <2>1. (cube + P * (f + g + h)) % P = cube % P
      BY <1>1, <1>13, ModShift, Zenon
    <2>2. cube % P = Square(x)
      BY DEF Square, cube
    <2> QED
      BY <1>17, <2>1, <2>2
  <1>19. Chord(l, p, q) = <<x, y>>
    BY DEF Chord, Y, x, y, a, b, c
  <1> QED
    BY <1>5, <1>7, <1>18, <1>19 DEF Curve

LEMMA TangentMeets ==
    ASSUME NEW p \in Curve
    PROVE  Tangent(p) \in 0 .. P - 1 /\ LineMeets(Tangent(p), p[1], p[2], p[1])
  <1> DEFINE a == p[1]
             b == p[2]
             e == 2 * b
             h == 3 * a * a
             l == (h * Modinv(e, P)) % P
  <1>1. P \in Nat \ {0} /\ a \in Int /\ b \in Int /\ e % P # 0
    BY Moduli, Coordinates, TwiceY
  <1>2. Tangent(p) = l
    BY DEF Tangent
  <1> HIDE DEF a, b
  <1>3. e \in Int /\ h \in Int
    BY <1>1
  <1>a. e % P # 0 /\ l = (h * Modinv(e, P)) % P
    BY <1>1
  <1> HIDE DEF e, h, l
  <1>4. l \in 0 .. P - 1 /\ \E t \in Int : l * e = h + P * t
    BY <1>a, <1>3, Slope
  <1>5. PICK t \in Int : l * e = h + P * t
    BY <1>4
  <1>6. 2 * l * b + l * l * (a - a) = (a * a + a * a + a * a) + P * t
    BY <1>1, <1>4, <1>5 DEF e, h
  <1> QED
    BY <1>2, <1>4, <1>6 DEF LineMeets, a, b

LEMMA ChordMeets ==
    ASSUME NEW p \in Curve, NEW q \in Curve, p[1] # q[1],
           NEW l, l = ((q[2] - p[2]) * Modinv(q[1] - p[1], P)) % P
    PROVE  /\ l \in 0 .. P - 1 /\ LineMeets(l, p[1], p[2], q[1])
           /\ \E t \in Int : l * (q[1] - p[1]) = (q[2] - p[2]) + P * t
  <1> DEFINE a == p[1]
             b == p[2]
             c == q[1]
             d == q[2]
             E == (2 * l * b + l * l * (c - a)) - (c * c + c * a + a * a)
  <1>1. P \in Nat \ {0} /\ B \in Int
        /\ a \in Int /\ b \in Int /\ c \in Int /\ d \in Int
    BY Moduli, FieldAssumption, Coordinates
  <1>2. (c - a) % P # 0
    BY Coordinates, DifferentX
  <1>3. PICK q1 \in Int : b * b = (a * a * a + B) + P * q1
    BY CurveEquation
  <1>4. PICK q2 \in Int : d * d = (c * c * c + B) + P * q2
    BY CurveEquation
  <1>5. l = ((d - b) * Modinv(c - a, P)) % P
    OBVIOUS
  <1> HIDE DEF a, b, c, d
  <1>6. c - a \in Int /\ d - b \in Int
    BY <1>1
  <1>7. l \in 0 .. P - 1 /\ \E t \in Int : l * (c - a) = (d - b) + P * t
    BY <1>2, <1>5, <1>6, Slope
  <1>8. PICK t \in Int : l * (c - a) = (d - b) + P * t
    BY <1>7
  <1> DEFINE M == l * (c - a)
             f == q2 - q1 + (2 * d * t + P * t * t)
  <1>9. E * (c - a) = (2 * b * M + M * M) - (c * c * c - a * a * a)
    BY <1>1, <1>7
  <1>10. 2 * b * M + M * M = (d * d - b * b) + P * (2 * d * t + P * t * t)
    <2>1. M = (d - b) + P * t
      BY <1>8
    <2> HIDE DEF M
    <2> QED
      BY <1>1, <2>1
  <1>11. E * (c - a) = P * f
    <2> DEFINE aaa == a * a * a
               bb == b * b
               ccc == c * c * c
               dd == d * d
               g == 2 * d * t + P * t * t
               Pg == P * g
               Pq1 == P * q1
               Pq2 == P * q2
               m == 2 * b * M + M * M
               Ec == E * (c - a)
               Pf == P * f
    <2>1. g \in Int
      BY <1>1
    <2> HIDE DEF g
    <2>2. Pf = Pq2 - Pq1 + Pg
      BY <1>1, <2>1 DEF g
    <2>3. aaa \in Int /\ bb \in Int /\ ccc \in Int /\ dd \in Int
          /\ Pg \in Int /\ Pq1 \in Int /\ Pq2 \in Int
      BY <1>1, <2>1
    <2>4. /\ Ec = m - (ccc - aaa) /\ m = (dd - bb) + Pg
          /\ bb = (aaa + B) + Pq1 /\ dd = (ccc + B) + Pq2
      BY <1>3, <1>4, <1>9, <1>10 DEF g
    <2> HIDE DEF aaa, bb, ccc, dd, Pg, Pq1, Pq2, m, Ec, Pf
    <2>5. Ec = Pf
      BY <1>1, <2>2, <2>3, <2>4
    <2> QED
      BY <2>5 DEF Ec, Pf
  <1>12. E \in Int /\ f \in Int
    BY <1>1, <1>7
  <1> HIDE DEF E, f
  <1>13. PICK u \in Int : E = P * u
    BY <1>2, <1>6, <1>11, <1>12, Cancellation
  <1>14. 2 * l * b + l * l * (c - a) = (c * c + c * a + a * a) + P * u
    <2> DEFINE s == 2 * l * b + l * l * (c - a)
               r == c * c + c * a + a * a
    <2>1. s \in Int /\ r \in Int /\ P * u \in Int
      BY <1>1, <1>7
    <2>2. E = s - r
      BY DEF E
    <2> HIDE DEF s, r
    <2>3. s = r + P * u
      BY <1>13, <2>1, <2>2
    <2> QED
      BY <2>3 DEF s, r
  <1>15. LineMeets(l, a, b, c)
    BY <1>14 DEF LineMeets
  <1> QED
    BY <1>7, <1>15 DEF a, b, c, d

LEMMA SumsOfPoints ==
    ASSUME NEW p \in Curve, NEW q \in Curve
    PROVE  /\ p[1] # q[1] => /\ PointAdd(p, q) \in Curve
                             /\ PointAdd(p, q) = Chord(((q[2] - p[2]) * Modinv(q[1] - p[1], P)) % P, p, q)
           /\ p = q => PointAdd(p, q) \in Curve /\ PointDouble(p) = PointAdd(p, q)
           /\ p[1] = q[1] /\ p # q => PointAdd(p, q) = Infinity
  <1>1. /\ p = <<p[1], p[2]>> /\ p # Infinity /\ q = <<q[1], q[2]>> /\ q # Infinity
    BY Coordinates
  <1>2. ASSUME p[1] # q[1]
        PROVE  /\ PointAdd(p, q) \in Curve
               /\ PointAdd(p, q) = Chord(((q[2] - p[2]) * Modinv(q[1] - p[1], P)) % P, p, q)
    <2> DEFINE l == ((q[2] - p[2]) * Modinv(q[1] - p[1], P)) % P
    <2>1. PointAdd(p, q) = Chord(l, p, q)
      BY <1>1, <1>2 DEF PointAdd
    <2>2. l = ((q[2] - p[2]) * Modinv(q[1] - p[1], P)) % P
      OBVIOUS
    <2> HIDE DEF l
    <2>3. l \in Int /\ LineMeets(l, p[1], p[2], q[1])
      BY <1>2, <2>2, ChordMeets
    <2> QED
      BY <2>1, <2>2, <2>3, ThirdIsOnCurve
  <1>3. ASSUME p = q PROVE PointAdd(p, q) \in Curve /\ PointDouble(p) = PointAdd(p, q)
    <2>1. PointAdd(p, p) = Chord(Tangent(p), p, p)
      BY <1>1 DEF PointAdd
    <2>2. Tangent(p) \in Int /\ LineMeets(Tangent(p), p[1], p[2], p[1])
      BY TangentMeets
    <2>3. Chord(Tangent(p), p, p) \in Curve
      BY <2>2, ThirdIsOnCurve
    <2>4. PointDouble(p) = Chord(Tangent(p), p, p)
      BY <1>1, TwiceY DEF PointDouble
    <2> QED
      BY <1>3, <2>1, <2>3, <2>4
  <1>4. ASSUME p[1] = q[1], p # q PROVE PointAdd(p, q) = Infinity
    BY <1>1, <1>4 DEF PointAdd
  <1> QED
    BY <1>2, <1>3, <1>4

LEMMA ChordCommutes ==
    ASSUME NEW p \in Curve, NEW q \in Curve, p[1] # q[1]
    PROVE  PointAdd(p, q) = PointAdd(q, p)
  <1> DEFINE a == p[1]
             b == p[2]
             c == q[1]
             d == q[2]
             l == ((d - b) * Modinv(c - a, P)) % P
             r == ((b - d) * Modinv(a - c, P)) % P
  <1>1. P \in Nat \ {0} /\ a \in Int /\ b \in Int /\ c \in Int /\ d \in Int
    BY Moduli, Coordinates
  <1>2. (c - a) % P # 0 /\ c - a \in Int
    BY <1>1, Coordinates, DifferentX
  <1>3. PointAdd(p, q) = Chord(l, p, q) /\ PointAdd(q, p) = Chord(r, q, p)
    BY SumsOfPoints
  <1>4. l \in 0 .. P - 1 /\ \E t \in Int : l * (c - a) = (d - b) + P * t
    BY ChordMeets
  <1>5. r \in 0 .. P - 1 /\ \E t \in Int : r * (a - c) = (b - d) + P * t
    BY ChordMeets
  <1> DEFINE x == (l * l - a - c) % P
             z == (r * r - c - a) % P
  <1>6. Chord(l, p, q) = <<x, (l * (a - x) - b) % P>>
        /\ Chord(r, q, p) = <<z, (r * (c - z) - d) % P>>
    BY DEF Chord
  <1> HIDE DEF a, b, c, d, l, r, x, z
  <1>7. PICK t \in Int : l * (c - a) = (d - b) + P * t
    BY <1>4
  <1>8. PICK u \in Int : r * (a - c) = (b - d) + P * u
    BY <1>5
  <1>9. (l - r) * (c - a) = P * (t + u)
    BY <1>1, <1>4, <1>5, <1>7, <1>8
  <1>10. l = r
    <2>1. PICK w \in Int : l - r = P * w
      <3>1. l - r \in Int /\ t + u \in Int
        BY <1>4, <1>5
      <3> QED
        BY <1>2, <1>9, <3>1, Cancellation
    <2>2. l = r + P * w
      BY <1>1, <1>4, <1>5, <2>1
    <2> QED
      BY <1>4, <1>5, <2>2, SameRemainder
  <1>11. x = z
    <2>1. l * l - a - c = r * r - c - a
      BY <1>1, <1>4, <1>10
    <2> QED
      BY <2>1 DEF x, z
  <1>12. x \in 0 .. P - 1
    <2>1. l * l - a - c \in Int
      BY <1>1, <1>4
    <2> QED
      BY <1>1, <2>1 DEF x
  <1>13. (l * (a - x) - b) % P = (l * (c - x) - d) % P
    <2>1. l * (c - x) - d = (l * (a - x) - b) + P * t
      BY <1>1, <1>4, <1>7, <1>12
    <2> DEFINE y == l * (a - x) - b
    <2>2. y \in Int
      BY <1>1, <1>4, <1>12
    <2>3. l * (c - x) - d = y + P * t
      BY <2>1
    <2> HIDE DEF y
    <2>4. (y + P * t) % P = y % P
      BY <1>1, <2>2, ModShift
    <2> QED
      BY <2>3, <2>4 DEF y
  <1> QED
    BY <1>3, <1>6, <1>10, <1>11, <1>13

(* The code's addition stays on the curve in every branch it takes, does    *)
(* not depend on the order of its arguments, and doubling is adding twice:  *)
(* a group's operation but for associativity.                               *)
LEMMA AdditionIsAnOperation ==
    ASSUME NEW p \in Group, NEW q \in Group
    PROVE  /\ PointAdd(p, q) \in Group /\ PointAdd(p, q) = PointAdd(q, p)
           /\ PointDouble(p) = PointAdd(p, p)
  <1>1. Infinity \in Group /\ Curve \subseteq Group
    BY DEF Group
  <1>2. CASE p = Infinity \/ q = Infinity
    <2>1. PointAdd(p, q) \in Group /\ PointAdd(p, q) = PointAdd(q, p)
      BY <1>1, <1>2 DEF PointAdd
    <2>2. PointDouble(p) = PointAdd(p, p)
      <3>1. CASE p = Infinity
        BY <3>1 DEF PointAdd, PointDouble
      <3>2. CASE p \in Curve
        BY <3>2, SumsOfPoints
      <3> QED
        BY <3>1, <3>2 DEF Group
    <2> QED
      BY <2>1, <2>2
  <1>3. CASE p \in Curve /\ q \in Curve
    <2>1. PointDouble(p) = PointAdd(p, p)
      BY <1>3, SumsOfPoints
    <2>2. CASE p[1] # q[1]
      BY <1>1, <1>3, <2>1, <2>2, SumsOfPoints, ChordCommutes
    <2>3. CASE p = q
      BY <1>1, <1>3, <2>1, <2>3, SumsOfPoints
    <2>4. CASE p[1] = q[1] /\ p # q
      <3>1. PointAdd(p, q) = Infinity
        BY <1>3, <2>4, SumsOfPoints
      <3>2. PointAdd(q, p) = Infinity
        BY <1>3, <2>4, SumsOfPoints
      <3> QED
        BY <1>1, <2>1, <3>1, <3>2
    <2> QED
      BY <2>2, <2>3, <2>4
  <1> QED
    BY <1>2, <1>3 DEF Group

-----------------------------------------------------------------------------
(* Associativity.  A line with slope l through q meets the curve again in r *)
(* and in the opposite of s; Line says so in terms of the distances u and a *)
(* of their x from that of q, which are the two roots of one quadratic.     *)

(* x is 0 in the field. *)
Zero(x) == \E q \in Int : x = P * q

Line(q, r, s, l) ==
    LET u == r[1] - q[1]
        a == s[1] - q[1]
    IN  /\ Zero(r[2] - (q[2] + l * u)) /\ Zero(s[2] + (q[2] + l * a))
        /\ Zero((u + a) - (l * l - 3 * q[1]))
        /\ Zero(u * a - (3 * q[1] * q[1] - 2 * l * q[2]))

LEMMA ZeroSums ==
    ASSUME NEW x \in Int, NEW y \in Int, Zero(x), Zero(y)
    PROVE  Zero(x + y) /\ Zero(x - y) /\ Zero(-x)
  <1>1. P \in Int
    BY Moduli
  <1>2. PICK s \in Int : x = P * s
    BY DEF Zero
  <1>3. PICK t \in Int : y = P * t
    BY DEF Zero
  <1>4. x + y = P * (s + t) /\ x - y = P * (s - t) /\ -x = P * (-s)
    BY <1>1, <1>2, <1>3
  <1>5. s + t \in Int /\ s - t \in Int /\ -s \in Int
    OBVIOUS
  <1> QED
    BY <1>4, <1>5 DEF Zero

LEMMA ZeroTimes ==
    ASSUME NEW x \in Int, NEW y \in Int, Zero(y)
    PROVE  Zero(x * y)
  <1>1. P \in Int
    BY Moduli
  <1>2. PICK t \in Int : y = P * t
    BY DEF Zero
  <1>3. x * y = P * (x * t) /\ x * t \in Int
    BY <1>1, <1>2
  <1> QED
    BY <1>3 DEF Zero

LEMMA ZeroIsDivisible ==
    ASSUME NEW x, Zero(x)
    PROVE  x % P = 0
  <1>1. PICK t \in Int : x = P * t
    BY DEF Zero
  <1>2. P \in Nat \ {0} /\ 0 \in 0 .. P - 1
    BY Moduli
  <1>3. (P * t + 0) % P = 0
    BY <1>2, Quotient, Zenon
  <1>4. P * t + 0 = P * t
    BY <1>2
  <1> QED
    BY <1>1, <1>3, <1>4

LEMMA NonZero ==
    ASSUME NEW y \in Int, ~Zero(y)
    PROVE  y % P # 0
  <1> SUFFICES ASSUME y % P = 0 PROVE FALSE
    OBVIOUS
  <1>1. PICK t \in Int : y % P = y + P * t
    BY Remainder
  <1>2. y = P * (-t) /\ -t \in Int
    <2>1. P * (-t) = -(P * t) /\ P * t \in Int
      BY Moduli
    <2> QED
      BY <1>1, <2>1
  <1> QED
    BY <1>2 DEF Zero

LEMMA ZeroCancels ==
    ASSUME NEW x \in Int, NEW y \in Int, Zero(x * y), ~Zero(y)
    PROVE  Zero(x)
  <1>1. PICK q \in Int : x * y = P * q
    BY DEF Zero
  <1>2. y % P # 0
    BY NonZero
  <1>3. \E t \in Int : x = P * t
    BY <1>1, <1>2, Cancellation
  <1> QED
    BY <1>3 DEF Zero

LEMMA ZeroInField ==
    ASSUME NEW x \in 0 .. P - 1, NEW y \in 0 .. P - 1, Zero(x - y)
    PROVE  x = y
  <1>1. PICK q \in Int : x - y = P * q
    BY DEF Zero
  <1>2. x = y + P * q
    BY <1>1, Moduli
  <1> QED
    BY <1>2, SameRemainder

LEMMA ZeroRemainder ==
    ASSUME NEW x \in Int
    PROVE  x % P \in 0 .. P - 1 /\ Zero((x % P) - x)
  <1> DEFINE r == x % P
  <1>1. r \in 0 .. P - 1 /\ \E q \in Int : r = x + P * q
    BY Remainder
  <1>2. PICK q \in Int : r = x + P * q
    BY <1>1
  <1> HIDE DEF r
  <1>3. r - x = P * q
    <2>1. P * q \in Int
      BY Moduli
    <2> QED
      BY <1>2, <2>1
  <1> QED
    BY <1>1, <1>3 DEF Zero, r

(* The slopes of the two ways to add three points, for the lines with the   *)
(* slopes l and m through the point (X, Y) in the middle.                   *)
Slopes(X, Y, l, m, u, a, w, c, d, n, z) ==
    /\ Zero((u + a) - (l * l - 3 * X)) /\ Zero(u * a - (3 * X * X - 2 * l * Y))
    /\ Zero((w + c) - (m * m - 3 * X)) /\ Zero(w * c - (3 * X * X - 2 * m * Y))
    /\ Zero((l - m) * d - (c - a)) /\ ~Zero(l - m)
    /\ n = m + d /\ z = d * (l + m + d)

ThirdLine(X, Y, l, m, a, w, n, z) ==
    /\ Zero((2 * Y + l * a + m * w) - n * (w - a))
    /\ Zero(z - (n * n - 3 * X - a - w))
    /\ Zero((w - a) * (z - a) - (3 * (X + a) * (X + a) + 2 * n * (Y + l * a)))

LEMMA SlopesOfThree ==
    ASSUME NEW X \in Int, NEW Y \in Int, NEW l \in Int, NEW m \in Int,
           NEW u \in Int, NEW a \in Int, NEW w \in Int, NEW c \in Int, NEW d \in Int,
           NEW n \in Int, NEW z \in Int, Slopes(X, Y, l, m, u, a, w, c, d, n, z)
    PROVE  ThirdLine(X, Y, l, m, a, w, n, z)
  <1> DEFINE z1 == (u + a) - (l * l - 3 * X)
             z2 == u * a - (3 * X * X - 2 * l * Y)
             z3 == (w + c) - (m * m - 3 * X)
             z4 == w * c - (3 * X * X - 2 * m * Y)
             z5 == (l - m) * d - (c - a)
             v1 == (2 * Y + l * a + m * w) - n * (w - a)
             v2 == z - (n * n - 3 * X - a - w)
             v3 == (w - a) * (z - a) - (3 * (X + a) * (X + a) + 2 * n * (Y + l * a))
             lm == l - m
             v4 == n * (l * a - m * w) + (3 * X * X + 3 * X * (a + w) + a * a + w * w + a * w)
  <1>1. z1 \in Int /\ z2 \in Int /\ z3 \in Int /\ z4 \in Int /\ z5 \in Int
        /\ v1 \in Int /\ v2 \in Int /\ v3 \in Int /\ v4 \in Int
    OBVIOUS
  <1>2. Zero(z1) /\ Zero(z2) /\ Zero(z3) /\ Zero(z4) /\ Zero(z5)
    BY DEF Slopes
  <1>b. n = m + d /\ z = d * (l + m + d)
    BY DEF Slopes
  <1>3. v1 * lm = (-a) * z1 + 1 * z2 + a * z3 + (-1) * z4 + (a - w) * z5
    BY <1>b
  <1>4. v2 = z3 + z5
    BY <1>b
  <1>5. v4 * lm
          = (-(m * a)) * z1 + m * z2 + (l * w + l * a - m * w) * z3 + (-l) * z4
            + (l * a - m * w) * z5
    BY <1>b
  <1>6. v3 = (w - a) * v2 + (-n) * v1 + (-1) * v4
    BY <1>b
  <1>a. lm \in Int /\ ~Zero(lm)
    BY DEF Slopes
  <1> HIDE DEF z1, z2, z3, z4, z5, v1, v2, v3, v4, lm
  <1>7. Zero(v1)
    <2> DEFINE e1 == -a
               e2 == 1
               e4 == -1
               e5 == a - w
    <2>1. e1 \in Int /\ e2 \in Int /\ e4 \in Int /\ e5 \in Int
          /\ v1 * lm = e1 * z1 + e2 * z2 + a * z3 + e4 * z4 + e5 * z5
      BY <1>3
    <2> HIDE DEF e1, e2, e4, e5
    <2> DEFINE p1 == e1 * z1
               p2 == e2 * z2
               p3 == a * z3
               p4 == e4 * z4
               p5 == e5 * z5
    <2>2. Zero(p1) /\ Zero(p2) /\ Zero(p3) /\ Zero(p4) /\ Zero(p5)
      BY <1>1, <1>2, <2>1, ZeroTimes
    <2>3. p1 \in Int /\ p2 \in Int /\ p3 \in Int /\ p4 \in Int /\ p5 \in Int
      BY <1>1, <2>1
    <2> HIDE DEF p1, p2, p3, p4, p5
    <2>4. Zero(p1 + p2) /\ p1 + p2 \in Int
      BY <2>2, <2>3, ZeroSums
    <2>5. Zero((p1 + p2) + p3) /\ (p1 + p2) + p3 \in Int
      BY <2>2, <2>3, <2>4, ZeroSums
    <2>6. Zero(((p1 + p2) + p3) + p4) /\ ((p1 + p2) + p3) + p4 \in Int
      BY <2>2, <2>3, <2>5, ZeroSums
    <2>7. Zero((((p1 + p2) + p3) + p4) + p5)
      BY <2>2, <2>3, <2>6, ZeroSums
    <2>8. Zero(v1 * lm)
      BY <2>1, <2>7, Zenon DEF p1, p2, p3, p4, p5
    <2> QED
      BY <1>1, <1>a, <2>8, ZeroCancels
  <1>8. Zero(v2)
    BY <1>1, <1>2, <1>4, ZeroSums
  <1>9. Zero(v4)
    <2> DEFINE e1 == -(m * a)
               e3 == l * w + l * a - m * w
               e4 == -l
               e5 == l * a - m * w
    <2>1. e1 \in Int /\ e3 \in Int /\ e4 \in Int /\ e5 \in Int
          /\ v4 * lm = e1 * z1 + m * z2 + e3 * z3 + e4 * z4 + e5 * z5
      BY <1>5
    <2> HIDE DEF e1, e3, e4, e5
    <2> DEFINE p1 == e1 * z1
               p2 == m * z2
               p3 == e3 * z3
               p4 == e4 * z4
               p5 == e5 * z5
    <2>2. Zero(p1) /\ Zero(p2) /\ Zero(p3) /\ Zero(p4) /\ Zero(p5)
      BY <1>1, <1>2, <2>1, ZeroTimes
    <2>3. p1 \in Int /\ p2 \in Int /\ p3 \in Int /\ p4 \in Int /\ p5 \in Int
      BY <1>1, <2>1
    <2> HIDE DEF p1, p2, p3, p4, p5
    <2>4. Zero(p1 + p2) /\ p1 + p2 \in Int
      BY <2>2, <2>3, ZeroSums
    <2>5. Zero((p1 + p2) + p3) /\ (p1 + p2) + p3 \in Int
      BY <2>2, <2>3, <2>4, ZeroSums
    <2>6. Zero(((p1 + p2) + p3) + p4) /\ ((p1 + p2) + p3) + p4 \in Int
      BY <2>2, <2>3, <2>5, ZeroSums
    <2>7. Zero((((p1 + p2) + p3) + p4) + p5) /\ (((p1 + p2) + p3) + p4) + p5 \in Int
      BY <2>2, <2>3, <2>6, ZeroSums
    <2>8. Zero(v4 * lm)
      BY <2>1, <2>7, Zenon DEF p1, p2, p3, p4, p5
    <2> QED
      BY <1>1, <1>a, <2>8, ZeroCancels
  <1>10. Zero(v3)
    <2> DEFINE e1 == w - a
               e2 == -n
               e3 == -1
    <2>1. e1 \in Int /\ e2 \in Int /\ e3 \in Int
          /\ v3 = e1 * v2 + e2 * v1 + e3 * v4
      BY <1>1, <1>6
    <2> HIDE DEF e1, e2, e3
    <2> DEFINE p1 == e1 * v2
               p2 == e2 * v1
               p3 == e3 * v4
    <2>2. Zero(p1) /\ Zero(p2) /\ Zero(p3)
      BY <1>1, <1>7, <1>8, <1>9, <2>1, ZeroTimes
    <2>3. p1 \in Int /\ p2 \in Int /\ p3 \in Int
      BY <1>1, <2>1
    <2> HIDE DEF p1, p2, p3
    <2>4. Zero(p1 + p2) /\ p1 + p2 \in Int
      BY <2>2, <2>3, ZeroSums
    <2>5. Zero((p1 + p2) + p3) /\ (p1 + p2) + p3 \in Int
      BY <2>2, <2>3, <2>4, ZeroSums
    <2> QED
      BY <2>1, <2>5, Zenon DEF p1, p2, p3
  <1> QED
    BY <1>7, <1>8, <1>10 DEF v1, v2, v3, ThirdLine

(* The code's sum of two points lies on the line that joins them ...        *)
LEMMA SumHasALine ==
    ASSUME NEW q \in Curve, NEW r \in Curve, PointAdd(q, r) # Infinity
    PROVE  PointAdd(q, r) \in Curve /\ \E l \in Int : Line(q, r, PointAdd(q, r), l)
  <1> DEFINE s == PointAdd(q, r)
  <1>1. s \in Curve /\ (q[1] # r[1] \/ q = r)
    BY SumsOfPoints
  <1>2. \E l \in Int : s = Chord(l, q, r) /\ LineMeets(l, q[1], q[2], r[1])
                       /\ Zero(r[2] - (q[2] + l * (r[1] - q[1])))
    <2>1. CASE q[1] # r[1]
      <3> DEFINE l == ((r[2] - q[2]) * Modinv(r[1] - q[1], P)) % P
      <3>1. s = Chord(l, q, r)
        BY <2>1, SumsOfPoints
      <3>2. l = ((r[2] - q[2]) * Modinv(r[1] - q[1], P)) % P
        OBVIOUS
      <3> HIDE DEF l
      <3>3. /\ l \in 0 .. P - 1 /\ LineMeets(l, q[1], q[2], r[1])
            /\ \E t \in Int : l * (r[1] - q[1]) = (r[2] - q[2]) + P * t
        BY <2>1, <3>2, ChordMeets
      <3>4. PICK t \in Int : l * (r[1] - q[1]) = (r[2] - q[2]) + P * t
        BY <3>3
      <3>5. r[2] - (q[2] + l * (r[1] - q[1])) = P * (-t) /\ -t \in Int
        <4>1. P \in Int /\ r[2] \in Int /\ q[2] \in Int /\ r[1] \in Int /\ q[1] \in Int
          BY Moduli, Coordinates
        <4> QED
          BY <3>4, <4>1
      <3> QED
        BY <3>1, <3>3, <3>5 DEF Zero
    <2>2. CASE q = r
      <3> DEFINE l == Tangent(q)
      <3>1. l \in 0 .. P - 1 /\ LineMeets(l, q[1], q[2], q[1])
        BY TangentMeets
      <3>2. s = Chord(l, q, q)
        BY <2>2, Coordinates DEF PointAdd
      <3>3. r[2] - (q[2] + l * (r[1] - q[1])) = P * 0
        <4>1. P \in Int /\ q[2] \in Int /\ q[1] \in Int /\ l \in Int
          BY <3>1, Moduli, Coordinates
        <4> QED
          BY <2>2, <4>1
      <3> QED
        BY <2>2, <3>1, <3>2, <3>3 DEF Zero
    <2> QED
      BY <1>1, <2>1, <2>2
  <1>3. PICK l \in Int : s = Chord(l, q, r) /\ LineMeets(l, q[1], q[2], r[1])
                        /\ Zero(r[2] - (q[2] + l * (r[1] - q[1])))
    BY <1>2
  <1> HIDE DEF s
  <1> DEFINE X == q[1]
             Y == q[2]
             x == r[1]
             u == x - X
             a == s[1] - X
             v == (l * l - X - x)
             y == l * (X - s[1]) - Y
             L == (2 * l * Y + l * l * (x - X)) - (x * x + x * X + X * X)
             z == (u + a) - (l * l - 3 * X)
  <1>4. P \in Int /\ X \in Int /\ Y \in Int /\ x \in Int /\ s[1] \in Int /\ s[2] \in Int
    BY <1>1, Moduli, Coordinates
  <1>5. s[1] = v % P /\ s[2] = y % P
    BY <1>3 DEF Chord
  <1>6. Zero(L)
    <2>1. PICK t \in Int : 2 * l * Y + l * l * (x - X) = (x * x + x * X + X * X) + P * t
      BY <1>3 DEF LineMeets
    <2> HIDE DEF X, Y, x
    <2>2. L = P * t
      BY <1>4, <2>1
    <2> QED
      BY <2>2 DEF Zero
  <1>a. Zero(r[2] - (Y + l * u))
    BY <1>3
  <1> HIDE DEF X, Y, x
  <1>7. Zero(z)
    <2>1. v \in Int /\ z = s[1] - v
      BY <1>4
    <2> HIDE DEF v, z
    <2> QED
      BY <1>5, <2>1, ZeroRemainder
  <1>8. Zero(s[2] + (Y + l * a))
    <2>1. y \in Int /\ s[2] + (Y + l * a) = s[2] - y
      BY <1>4
    <2> HIDE DEF y
    <2> QED
      BY <1>5, <2>1, ZeroRemainder
  <1>9. Zero(u * a - (3 * X * X - 2 * l * Y))
    <2>1. u * a - (3 * X * X - 2 * l * Y) = u * z + L
      BY <1>4
    <2>2. u \in Int /\ z \in Int /\ L \in Int
      BY <1>4
    <2> HIDE DEF u, z, L
    <2>3. u * z \in Int
      BY <2>2
    <2>a. Zero(u * z)
      BY <1>7, <2>2, ZeroTimes, Zenon
    <2> DEFINE uz == u * z
    <2> HIDE DEF uz
    <2>4. Zero(uz + L)
      BY <1>6, <2>2, <2>3, <2>a, ZeroSums DEF uz
    <2> QED
      BY <2>1, <2>4 DEF uz
  <1>10. Line(q, r, s, l)
    BY <1>a, <1>7, <1>8, <1>9 DEF Line, X, Y, x
  <1> QED
    BY <1>1, <1>10 DEF s

(* ... and a line through two points that are not opposite determines it.   *)
LEMMA LineHasASum ==
    ASSUME NEW q \in Curve, NEW r \in Curve, q[1] # r[1] \/ q = r,
           NEW s \in (0 .. P - 1) \X (0 .. P - 1), NEW l \in Int, Line(q, r, s, l)
    PROVE  PointAdd(q, r) = s
  <1> DEFINE o == PointAdd(q, r)
  <1>1. o \in Curve /\ o # Infinity
    BY SumsOfPoints, Coordinates
  <1>2. PICK m \in Int : Line(q, r, o, m)
    BY <1>1, SumHasALine
  <1> HIDE DEF o
  <1> DEFINE X == q[1]
             Y == q[2]
             u == r[1] - X
             a == s[1] - X
             c == o[1] - X
             y == r[2]
             lm == l - m
  <1>3. /\ X \in 0 .. P - 1 /\ Y \in Int /\ r[1] \in 0 .. P - 1 /\ y \in Int
        /\ s[1] \in 0 .. P - 1 /\ s[2] \in 0 .. P - 1
        /\ o[1] \in 0 .. P - 1 /\ o[2] \in 0 .. P - 1
        /\ s = <<s[1], s[2]>> /\ o = <<o[1], o[2]>>
    BY <1>1, Coordinates
  <1>4. /\ Zero(y - (Y + l * u)) /\ Zero(s[2] + (Y + l * a))
        /\ Zero((u + a) - (l * l - 3 * X)) /\ Zero(u * a - (3 * X * X - 2 * l * Y))
    BY DEF Line
  <1>5. /\ Zero(y - (Y + m * u)) /\ Zero(o[2] + (Y + m * c))
        /\ Zero((u + c) - (m * m - 3 * X)) /\ Zero(u * c - (3 * X * X - 2 * m * Y))
    BY <1>2 DEF Line
  <1>6. u = 0 \/ ~Zero(u)
    <2>1. u # 0 => ~Zero(r[1] - X)
      BY <1>3, ZeroInField
    <2> QED
      BY <2>1
  <1>7. u = 0 => q = r /\ ~Zero(2 * Y)
    <2>1. u = 0 => q = r
      BY <1>3
    <2>2. ~Zero(2 * Y)
      <3>1. (2 * Y) % P # 0
        BY TwiceY
      <3> QED
        BY <3>1, ZeroIsDivisible
    <2> QED
      BY <2>1, <2>2
  <1>8. X \in Int /\ u \in Int /\ a \in Int /\ c \in Int /\ lm \in Int
    BY <1>3
  <1> HIDE DEF X, Y, u, a, c, y
  <1>9. Zero(lm)
    <2>1. CASE ~Zero(u)
      <3>1. lm * u = (y - (Y + m * u)) - (y - (Y + l * u))
        BY <1>3, <1>8
      <3>2. y - (Y + m * u) \in Int /\ y - (Y + l * u) \in Int
        BY <1>3, <1>8
      <3>3. Zero((y - (Y + m * u)) - (y - (Y + l * u)))
        <4> DEFINE e == y - (Y + m * u)
                   f == y - (Y + l * u)
        <4>1. Zero(e) /\ Zero(f) /\ e \in Int /\ f \in Int
          BY <1>4, <1>5, <3>2
        <4> HIDE DEF e, f
        <4>2. Zero(e - f)
          BY <4>1, ZeroSums
        <4> QED
          BY <4>2 DEF e, f
      <3>4. Zero(lm * u)
        BY <3>1, <3>3, Zenon
      <3> HIDE DEF lm
      <3> QED
        BY <1>8, <2>1, <3>4, ZeroCancels
    <2>2. CASE u = 0 /\ ~Zero(2 * Y)
      <3> DEFINE e == u * a - (3 * X * X - 2 * l * Y)
                 f == u * c - (3 * X * X - 2 * m * Y)
                 g == 2 * Y
      <3>1. lm * g = e - f
        <4>1. u * a = 0 /\ u * c = 0
          BY <1>8, <2>2
        <4>2. e = 2 * l * Y - 3 * X * X /\ f = 2 * m * Y - 3 * X * X
          BY <1>3, <1>8, <4>1
        <4>3. lm * g = (2 * l * Y - 3 * X * X) - (2 * m * Y - 3 * X * X)
          <5>1. X \in Int /\ Y \in Int
            BY <1>3, <1>8
          <5> QED
            BY <5>1
        <4> HIDE DEF e, f
        <4> QED
          BY <4>2, <4>3, Zenon
      <3>2. e \in Int /\ f \in Int /\ g \in Int /\ Zero(e) /\ Zero(f) /\ ~Zero(g)
        BY <1>3, <1>4, <1>5, <1>8, <2>2
      <3> HIDE DEF e, f, g, lm
      <3>3. Zero(e - f)
        BY <3>2, ZeroSums
      <3>4. Zero(lm * g)
        BY <3>1, <3>3, Zenon
      <3> QED
        BY <1>8, <3>2, <3>4, ZeroCancels
    <2> QED
      BY <1>6, <1>7, <2>1, <2>2
  <1>10. Zero(a - c)
    <2> DEFINE e == (u + a) - (l * l - 3 * X)
               f == (u + c) - (m * m - 3 * X)
               g == l + m
               h == g * lm
    <2>1. a - c = (e - f) + h
      BY <1>3, <1>8
    <2>2. e \in Int /\ f \in Int /\ g \in Int /\ h \in Int /\ e - f \in Int
          /\ Zero(e) /\ Zero(f)
      BY <1>3, <1>4, <1>5, <1>8
    <2> HIDE DEF e, f, g, lm
    <2>3. Zero(g * lm)
      BY <1>8, <1>9, <2>2, ZeroTimes, Zenon
    <2>4. Zero(h)
      BY <2>3
    <2> HIDE DEF h
    <2>5. Zero(e - f)
      BY <2>2, ZeroSums
    <2>6. Zero((e - f) + h)
      BY <2>2, <2>4, <2>5, ZeroSums
    <2> QED
      BY <2>1, <2>6, Zenon
  <1>11. s[1] = o[1]
    <2>1. a - c = s[1] - o[1]
      BY <1>3 DEF a, c, X
    <2> QED
      BY <1>3, <1>10, <2>1, ZeroInField
  <1>12. a = c
    BY <1>11 DEF a, c
  <1>13. s[2] = o[2]
    <2> DEFINE e == s[2] + (Y + l * a)
               f == o[2] + (Y + m * c)
               h == a * lm
    <2>1. s[2] - o[2] = (e - f) - h
      BY <1>3, <1>8, <1>12
    <2>2. e \in Int /\ f \in Int /\ h \in Int /\ e - f \in Int /\ Zero(e) /\ Zero(f)
      BY <1>3, <1>4, <1>5, <1>8
    <2> HIDE DEF e, f, lm
    <2>3. Zero(a * lm)
      BY <1>8, <1>9, <2>2, ZeroTimes, Zenon
    <2>4. Zero(h)
      BY <2>3
    <2> HIDE DEF h
    <2>5. Zero(e - f)
      BY <2>2, ZeroSums
    <2>6. Zero((e - f) - h)
      BY <2>2, <2>4, <2>5, ZeroSums
    <2>7. Zero(s[2] - o[2])
      BY <2>1, <2>6, Zenon
    <2> QED
      BY <1>3, <2>7, ZeroInField
  <1> QED
    BY <1>3, <1>11, <1>13 DEF o

(* d is what the slope of the third line adds to m, or to l; z is the        *)
(* distance of the third point's x from that of q.                          *)
Crossing(D, E, l, m, d, z) ==
    /\ ~Zero(l - m) /\ Zero((l - m) * d - (E[1] - D[1])) /\ z = d * (l + m + d)

ThirdPoint(q, D, l, n, z) ==
    <<(q[1] + z) % P, (q[2] + l * (D[1] - q[1]) - n * (z - (D[1] - q[1]))) % P>>

(* (r + q) + t, where the lines from q through r and t differ.              *)
LEMMA SumOfThree ==
    ASSUME NEW q \in Curve, NEW r \in Curve, NEW t \in Curve,
           NEW D \in Curve, NEW E \in Curve, NEW l \in Int, NEW m \in Int,
           NEW d \in Int, NEW z \in Int, Crossing(D, E, l, m, d, z),
           Line(q, r, D, l), Line(q, t, E, m)
    PROVE  PointAdd(D, t) = ThirdPoint(q, D, l, m + d, z)
  <1> DEFINE X == q[1]
             Y == q[2]
             u == r[1] - X
             a == D[1] - X
             w == t[1] - X
             c == E[1] - X
             n == m + d
             x == X + z
             y == Y + l * a - n * (z - a)
             F == <<x % P, y % P>>
             v1 == (2 * Y + l * a + m * w) - n * (w - a)
             v2 == z - (n * n - 3 * X - a - w)
             v3 == (w - a) * (z - a) - (3 * (X + a) * (X + a) + 2 * n * (Y + l * a))
             e1 == D[2] + (Y + l * a)
             e2 == t[2] - (Y + m * w)
             f1 == F[1] - x
             f2 == F[2] - y
             A == F[1] - D[1]
             U == t[1] - D[1]
  <1>1. /\ X \in Int /\ Y \in Int /\ r[1] \in Int /\ E[1] \in Int
        /\ D[1] \in 0 .. P - 1 /\ D[2] \in 0 .. P - 1 /\ D = <<D[1], D[2]>>
        /\ t[1] \in 0 .. P - 1 /\ t[2] \in 0 .. P - 1 /\ t = <<t[1], t[2]>>
    BY Coordinates
  <1>2. X \in Int /\ Y \in Int /\ u \in Int /\ a \in Int /\ w \in Int /\ c \in Int /\ n \in Int
        /\ D[1] \in Int /\ D[2] \in Int /\ t[1] \in Int /\ t[2] \in Int
    BY <1>1
  <1>3. /\ Zero((u + a) - (l * l - 3 * X)) /\ Zero(u * a - (3 * X * X - 2 * l * Y))
        /\ Zero((w + c) - (m * m - 3 * X)) /\ Zero(w * c - (3 * X * X - 2 * m * Y))
        /\ Zero(e1) /\ Zero(e2)
    BY DEF Line
  <1>b. ~Zero(l - m) /\ Zero((l - m) * d - (E[1] - D[1])) /\ z = d * (l + m + d)
    BY DEF Crossing
  <1>4. Zero((l - m) * d - (c - a))
    <2>1. c - a = E[1] - D[1]
      BY <1>1
    <2> QED
      BY <1>b, <2>1
  <1>a. F[1] = x % P /\ F[2] = y % P /\ n = m + d /\ D[1] = X + a /\ U = w - a
    BY <1>1
  <1> HIDE DEF X, Y, u, a, w, c, n, F
  <1>5. Zero(v1) /\ Zero(v2) /\ Zero(v3)
    <2>1. Slopes(X, Y, l, m, u, a, w, c, d, n, z)
      BY <1>3, <1>4, <1>a, <1>b DEF Slopes
    <2>2. ThirdLine(X, Y, l, m, a, w, n, z)
      BY <1>2, <2>1, SlopesOfThree
    <2> QED
      BY <2>2 DEF ThirdLine
  <1>6. F[1] \in 0 .. P - 1 /\ F[2] \in 0 .. P - 1 /\ Zero(f1) /\ Zero(f2)
    <2>1. x \in Int /\ y \in Int
      BY <1>2
    <2> HIDE DEF x, y
    <2> QED
      BY <1>a, <2>1, ZeroRemainder
  <1>7. /\ v1 \in Int /\ v2 \in Int /\ v3 \in Int /\ e1 \in Int /\ e2 \in Int
        /\ f1 \in Int /\ f2 \in Int /\ A \in Int /\ U \in Int
    BY <1>2, <1>6
  <1>8. Zero((e2 - e1) + v1) /\ (e2 - e1) + v1 \in Int
    <2> HIDE DEF e1, e2, v1
    <2>1. Zero(e2 - e1) /\ e2 - e1 \in Int
      BY <1>3, <1>7, ZeroSums
    <2> QED
      BY <1>5, <1>7, <2>1, ZeroSums
  <1>9. D[1] # t[1] \/ D = t
    <2> SUFFICES ASSUME D[1] = t[1] PROVE D = t
      OBVIOUS
    <2>1. w - a = 0
      BY <1>2, <1>a
    <2>2. t[2] - D[2] = (e2 - e1) + v1
      <3>1. n * (w - a) = 0
        BY <1>2, <2>1
      <3>2. v1 = 2 * Y + l * a + m * w
        <4> DEFINE g == n * (w - a)
        <4>1. g = 0
          BY <3>1
        <4> HIDE DEF g
        <4>2. v1 = (2 * Y + l * a + m * w) - g
          BY DEF g
        <4> QED
          BY <1>2, <4>1, <4>2
      <3> HIDE DEF v1
      <3> QED
        BY <1>2, <3>2
    <2>3. Zero(t[2] - D[2])
      BY <1>8, <2>2, Zenon
    <2> QED
      BY <1>1, <2>3, ZeroInField
  <1>10. Zero(t[2] - (D[2] + n * U))
    <2>1. t[2] - (D[2] + n * U) = (e2 - e1) + v1
      BY <1>2, <1>a
    <2> QED
      BY <1>8, <2>1, Zenon
  <1>11. A = f1 + (z - a)
    BY <1>2, <1>6, <1>a
  <1>12. Zero(F[2] + (D[2] + n * A))
    <2>1. F[2] + (D[2] + n * A) = (f2 + e1) + n * f1
      <3>1. n * A = n * f1 + n * (z - a)
        BY <1>2, <1>7, <1>11
      <3> DEFINE nf == n * f1
                 nz == n * (z - a)
                 nA == n * A
      <3>2. nf \in Int /\ nz \in Int /\ nA = nf + nz
        BY <1>2, <1>7, <3>1
      <3> HIDE DEF nf, nz, nA
      <3>3. F[2] + (D[2] + nA) = (f2 + e1) + nf
        BY <1>2, <1>6, <1>7, <3>2 DEF nz
      <3> QED
        BY <3>3 DEF nA, nf
    <2> DEFINE h == n * f1
    <2> HIDE DEF f1, f2, e1
    <2>2. Zero(n * f1)
      BY <1>2, <1>6, <1>7, ZeroTimes, Zenon
    <2>3. Zero(h) /\ h \in Int
      BY <1>2, <1>7, <2>2
    <2> HIDE DEF h
    <2>4. Zero(f2 + e1) /\ f2 + e1 \in Int
      BY <1>3, <1>6, <1>7, ZeroSums
    <2>5. Zero((f2 + e1) + h)
      BY <2>3, <2>4, ZeroSums
    <2> QED
      BY <2>1, <2>5, Zenon DEF h
  <1>13. Zero((U + A) - (n * n - 3 * D[1]))
    <2>1. (U + A) - (n * n - 3 * D[1]) = f1 + v2
      BY <1>2, <1>7, <1>11, <1>a
    <2> HIDE DEF f1, v2
    <2>2. Zero(f1 + v2)
      BY <1>5, <1>6, <1>7, ZeroSums
    <2> QED
      BY <2>1, <2>2, Zenon
  <1>14. Zero(U * A - (3 * D[1] * D[1] - 2 * n * D[2]))
    <2> DEFINE h == U * f1
               g == (2 * n) * e1
               nn == 2 * n
    <2>1. U * A - (3 * D[1] * D[1] - 2 * n * D[2]) = (h + v3) + g
      <3>1. D[2] = e1 - (Y + l * a)
        BY <1>2
      <3>2. U * A = h + (w - a) * (z - a)
        BY <1>2, <1>7, <1>11, <1>a
      <3> DEFINE s == U * A
                 b == Y + l * a
                 e == e1
                 p == (w - a) * (z - a)
                 cc == 3 * (X + a) * (X + a)
      <3>3. s = h + p /\ D[2] = e - b /\ g = 2 * n * e /\ v3 = p - (cc + 2 * n * b)
            /\ 3 * D[1] * D[1] = cc
        BY <1>2, <1>a, <3>1, <3>2
      <3>4. s \in Int /\ b \in Int /\ e \in Int /\ p \in Int /\ cc \in Int /\ h \in Int
        BY <1>2, <1>7
      <3> HIDE DEF s, b, e, p, cc, g, v3, h
      <3>5. s - (cc - 2 * n * D[2]) = (h + v3) + g
        BY <1>2, <3>3, <3>4
      <3> QED
        BY <3>3, <3>5 DEF s
    <2>2. nn \in Int /\ h \in Int /\ g \in Int
      BY <1>2, <1>7
    <2> HIDE DEF f1, e1, U, nn, v3
    <2>3. Zero(U * f1) /\ Zero(nn * e1)
      BY <1>3, <1>6, <1>7, <2>2, ZeroTimes, Zenon
    <2>4. Zero(h) /\ Zero(g)
      BY <2>3 DEF nn
    <2> HIDE DEF h, g
    <2>5. Zero(h + v3) /\ h + v3 \in Int
      BY <1>5, <1>7, <2>2, <2>4, ZeroSums
    <2>6. Zero((h + v3) + g)
      BY <2>2, <2>4, <2>5, ZeroSums
    <2> QED
      BY <2>1, <2>6, Zenon
  <1>15. Line(D, t, F, n)
    BY <1>10, <1>12, <1>13, <1>14 DEF Line
  <1>16. F \in (0 .. P - 1) \X (0 .. P - 1)
    BY <1>6 DEF F
  <1>17. PointAdd(D, t) = F
    BY <1>2, <1>9, <1>15, <1>16, LineHasASum
  <1> QED
    BY <1>17 DEF F, X, Y, a, n, ThirdPoint

LEMMA ZeroAgain ==
    ASSUME NEW x \in Int, NEW y \in Int, NEW c \in Int, Zero(x), Zero(y)
    PROVE  x + c * y \in Int /\ Zero(x + c * y)
  <1> DEFINE z == c * y
  <1>1. z \in Int /\ Zero(z)
    BY ZeroTimes
  <1> HIDE DEF z
  <1>2. x + z \in Int /\ Zero(x + z)
    BY <1>1, ZeroSums
  <1> QED
    BY <1>2 DEF z

LEMMA ZeroSame ==
    ASSUME NEW x \in Int, NEW y \in Int, Zero(x - y)
    PROVE  x % P = y % P
  <1>1. PICK q \in Int : x - y = P * q
    BY DEF Zero
  <1>2. P \in Nat \ {0} /\ x = y + P * q
    BY <1>1, Moduli
  <1> QED
    BY <1>2, ModShift

(* Infinity is the sum of exactly the points that share x and have opposite *)
(* y.                                                                       *)
LEMMA OppositeSums ==
    ASSUME NEW p \in Curve, NEW q \in Curve, p[1] = q[1], Zero(p[2] + q[2])
    PROVE  PointAdd(p, q) = Infinity
  <1> SUFFICES ASSUME p = q PROVE FALSE
    BY SumsOfPoints
  <1> DEFINE y == 2 * p[2]
  <1>1. p[2] \in Int /\ P \in Nat \ {0} /\ 0 \in 0 .. P - 1 /\ y % P # 0
    BY Moduli, Coordinates, TwiceY
  <1>2. Zero(y)
    <2>1. y = p[2] + q[2]
      BY <1>1
    <2> QED
      BY <2>1
  <1> HIDE DEF y
  <1> QED
    BY <1>1, <1>2, ZeroIsDivisible

LEMMA OppositesHaveOppositeY ==
    ASSUME NEW p \in Curve, NEW q \in Curve, PointAdd(p, q) = Infinity
    PROVE  p[1] = q[1] /\ Zero(p[2] + q[2])
  <1>1. p[1] = q[1] /\ p # q
    BY SumsOfPoints, Coordinates
  <1> DEFINE a == p[2]
             b == q[2]
             e == a + b
             f == a - b
             c == p[1] * p[1] * p[1] + B
  <1>2. a \in 0 .. P - 1 /\ b \in 0 .. P - 1 /\ a # b /\ P \in Nat \ {0}
    BY <1>1, Coordinates, Moduli
  <1>3. c \in Int /\ e \in Int /\ f \in Int /\ a \in Int /\ b \in Int
    BY <1>2, Coordinates, FieldAssumption
  <1>4. PICK s \in Int : a * a = c + P * s
    BY CurveEquation
  <1>5. PICK v \in Int : b * b = c + P * v
    BY <1>1, CurveEquation
  <1> HIDE DEF a, b, c
  <1>6. e * f = P * (s - v) /\ s - v \in Int
    <2>1. e * f = a * a - b * b
      BY <1>3
    <2>2. a * a - b * b = P * (s - v)
      BY <1>2, <1>3, <1>4, <1>5
    <2> QED
      BY <2>1, <2>2
  <1>7. ~Zero(f)
    BY <1>2, ZeroInField
  <1> HIDE DEF e, f
  <1>8. Zero(e)
    <2>1. Zero(e * f)
      BY <1>6 DEF Zero
    <2> QED
      BY <1>3, <1>7, <2>1, ZeroCancels
  <1> QED
    BY <1>1, <1>8 DEF e, a, b

(* Two lines that differ: both orders end in the same third point.          *)
LEMMA DifferentLines ==
    ASSUME NEW q \in Curve, NEW r \in Curve, NEW t \in Curve,
           NEW D \in Curve, NEW E \in Curve, NEW l \in Int, NEW m \in Int,
           Line(q, r, D, l), Line(q, t, E, m), ~Zero(l - m)
    PROVE  PointAdd(D, t) = PointAdd(E, r)
  <1> DEFINE e == l - m
             h == E[1] - D[1]
             v == Modinv(e, P)
             d == h * v
             z == d * (l + m + d)
             a == D[1] - q[1]
             c == E[1] - q[1]
             x == q[1] + z
             y1 == q[2] + l * a - (m + d) * (z - a)
             y2 == q[2] + m * c - (l + d) * (z - c)
  <1>1. /\ q[1] \in Int /\ q[2] \in Int /\ D[1] \in Int /\ E[1] \in Int /\ e \in Int
        /\ P \in Int
    BY Coordinates, Moduli
  <1>2. e % P # 0
    BY <1>1, NonZero
  <1>3. v \in Int /\ \E s \in Int : e * v = 1 + P * s
    BY <1>1, <1>2, ModinvInverts
  <1>4. PICK s \in Int : e * v = 1 + P * s
    BY <1>3
  <1>a. h \in Int
    BY <1>1
  <1> HIDE DEF v, e, h
  <1>5. d \in Int /\ Zero(e * d - h)
    <2>1. d \in Int /\ s * h \in Int
      BY <1>3, <1>a
    <2>2. e * d = (e * v) * h
      BY <1>1, <1>3, <1>a
    <2>3. (1 + P * s) * h = h + P * (s * h)
      BY <1>1, <1>a
    <2>4. e * d - h = P * (s * h)
      BY <1>1, <1>4, <1>a, <2>1, <2>2, <2>3
    <2> QED
      BY <2>1, <2>4 DEF Zero
  <1> HIDE DEF d
  <1>6. z \in Int /\ a \in Int /\ c \in Int /\ h = c - a
    BY <1>1, <1>5 DEF h
  <1>b. z = d * (l + m + d)
    OBVIOUS
  <1> HIDE DEF z
  <1>7. PointAdd(D, t) = <<x % P, y1 % P>>
    <2>1. Crossing(D, E, l, m, d, z)
      BY <1>5, <1>b DEF Crossing, e, h
    <2>2. PointAdd(D, t) = ThirdPoint(q, D, l, m + d, z)
      BY <1>5, <1>6, <2>1, SumOfThree
    <2> QED
      BY <2>2 DEF ThirdPoint
  <1>8. PointAdd(E, r) = <<x % P, y2 % P>>
    <2>1. ~Zero(m - l)
      <3>1. m - l \in Int /\ l - m = -(m - l)
        OBVIOUS
      <3> DEFINE f == m - l
      <3> SUFFICES ASSUME Zero(f) PROVE FALSE
        OBVIOUS
      <3> HIDE DEF f
      <3>2. Zero(-f)
        BY <3>1, ZeroSums DEF f
      <3> QED
        BY <3>1, <3>2, Zenon DEF f
    <2>2. Zero((m - l) * d - (D[1] - E[1]))
      <3> DEFINE f == e * d - h
      <3>1. (m - l) * d - (D[1] - E[1]) = -f /\ f \in Int
        BY <1>1, <1>5 DEF e, h
      <3> HIDE DEF f
      <3>2. Zero(-f)
        BY <1>5, <3>1, ZeroSums DEF f
      <3> QED
        BY <3>1, <3>2
    <2>3. z = d * (m + l + d)
      BY <1>5, <1>b
    <2>4. Crossing(E, D, m, l, d, z)
      BY <2>1, <2>2, <2>3 DEF Crossing
    <2>5. PointAdd(E, r) = ThirdPoint(q, E, m, l + d, z)
      BY <1>5, <1>6, <2>4, SumOfThree
    <2> QED
      BY <2>5 DEF ThirdPoint
  <1>9. Zero(y1 - y2) /\ y1 \in Int /\ y2 \in Int
    <2> DEFINE g == l + m + d
               f == e * d - h
    <2>1. y1 - y2 = g * f
      <3>1. z = d * g /\ f = (l - m) * d - (c - a) /\ g \in Int
        BY <1>5, <1>6, <1>b DEF e
      <3>2. y1 - y2 = g * (a - c) + (l - m) * z
        BY <1>1, <1>5, <1>6
      <3>3. g * f = (l - m) * (d * g) - g * (c - a)
        BY <1>5, <1>6, <3>1
      <3> QED
        BY <1>5, <1>6, <3>1, <3>2, <3>3
    <2>2. g \in Int /\ f \in Int /\ y1 \in Int /\ y2 \in Int
      BY <1>1, <1>5, <1>6, <1>a
    <2> HIDE DEF g, f, y1, y2
    <2>3. Zero(g * f)
      BY <1>5, <2>2, ZeroTimes DEF f
    <2> QED
      BY <2>1, <2>2, <2>3, Zenon
  <1> HIDE DEF y1, y2
  <1> QED
    BY <1>7, <1>8, <1>9, ZeroSame

(* One line through all three: either r = t, or both sums are of opposites. *)
LEMMA SameLine ==
    ASSUME NEW q \in Curve, NEW r \in Curve, NEW t \in Curve,
           NEW D \in Curve, NEW E \in Curve, D = PointAdd(q, r), E = PointAdd(q, t),
           NEW l \in Int, NEW m \in Int,
           Line(q, r, D, l), Line(q, t, E, m), Zero(l - m)
    PROVE  PointAdd(D, t) = PointAdd(E, r)
  <1> DEFINE X == q[1]
             Y == q[2]
             u == r[1] - X
             a == D[1] - X
             w == t[1] - X
             c == E[1] - X
             z1 == (u + a) - (l * l - 3 * X)
             z2 == u * a - (3 * X * X - 2 * l * Y)
             z3 == (w + c) - (m * m - 3 * X)
             z4 == w * c - (3 * X * X - 2 * m * Y)
             e1 == D[2] + (Y + l * a)
             e2 == t[2] - (Y + m * w)
             e3 == E[2] + (Y + m * c)
             e4 == r[2] - (Y + l * u)
             lm == l - m
             wu == w - u
             wa == w - a
             uc == u - c
  <1>1. /\ X \in Int /\ Y \in Int
        /\ r[1] \in 0 .. P - 1 /\ r[2] \in 0 .. P - 1 /\ r = <<r[1], r[2]>>
        /\ t[1] \in 0 .. P - 1 /\ t[2] \in 0 .. P - 1 /\ t = <<t[1], t[2]>>
        /\ D[1] \in 0 .. P - 1 /\ D[2] \in 0 .. P - 1
        /\ E[1] \in 0 .. P - 1 /\ E[2] \in 0 .. P - 1
    BY Coordinates
  <1>2. /\ u \in Int /\ a \in Int /\ w \in Int /\ c \in Int
        /\ D[2] \in Int /\ t[2] \in Int /\ E[2] \in Int /\ r[2] \in Int
    BY <1>1
  <1>3. /\ Zero(z1) /\ Zero(z2) /\ Zero(z3) /\ Zero(z4)
        /\ Zero(e1) /\ Zero(e2) /\ Zero(e3) /\ Zero(e4) /\ Zero(lm)
    BY DEF Line
  <1>a. /\ wu = t[1] - r[1] /\ wa = t[1] - D[1] /\ uc = r[1] - E[1]
    BY <1>1
  <1> HIDE DEF X, Y, u, a, w, c
  <1>4. /\ z1 \in Int /\ z2 \in Int /\ z3 \in Int /\ z4 \in Int /\ lm \in Int
        /\ e1 \in Int /\ e2 \in Int /\ e3 \in Int /\ e4 \in Int
        /\ wu \in Int /\ wa \in Int /\ uc \in Int
    BY <1>1, <1>2
  <1>5. Zero(wu * wa)
    <2> DEFINE f == w * (l + m) + 2 * Y
               g == -f
               b == -w
    <2>1. f \in Int /\ g \in Int /\ b \in Int
      BY <1>1, <1>2
    <2>2. wu * wa = (((z2 - z4) + w * z3) + b * z1) + g * lm
      BY <1>1, <1>2
    <2> HIDE DEF f, g, b, z1, z2, z3, z4, lm, wu, wa
    <2>3. Zero(z2 - z4) /\ z2 - z4 \in Int
      BY <1>3, <1>4, ZeroSums
    <2> DEFINE h == z2 - z4
    <2> HIDE DEF h
    <2>4. Zero(h + w * z3) /\ h + w * z3 \in Int
      BY <1>2, <1>3, <1>4, <2>3, ZeroAgain DEF h
    <2> DEFINE i1 == h + w * z3
    <2> HIDE DEF i1
    <2>5. Zero(i1 + b * z1) /\ i1 + b * z1 \in Int
      BY <1>3, <1>4, <2>1, <2>4, ZeroAgain DEF i1
    <2> DEFINE j1 == i1 + b * z1
    <2> HIDE DEF j1
    <2>6. Zero(j1 + g * lm)
      BY <1>3, <1>4, <2>1, <2>5, ZeroAgain DEF j1
    <2> QED
      BY <2>2, <2>6, Zenon DEF j1, i1, h
  <1>6. CASE Zero(wu)
    <2>1. t[1] = r[1]
      BY <1>1, <1>6, <1>a, ZeroInField
    <2>2. w = u
      BY <2>1 DEF w, u
    <2>3. t[2] - r[2] = (e2 - e4) + (-u) * lm
      BY <1>1, <1>2, <2>2
    <2>4. -u \in Int
      BY <1>2
    <2> DEFINE h == e2 - e4
               b == -u
    <2> HIDE DEF e2, e4, lm
    <2>5. h \in Int /\ Zero(h) /\ b \in Int
      BY <1>3, <1>4, <2>4, ZeroSums
    <2> HIDE DEF h, b
    <2>6. Zero(h + b * lm)
      BY <1>3, <1>4, <2>5, ZeroAgain
    <2>7. t[2] = r[2]
      <3>1. Zero(t[2] - r[2])
        BY <2>3, <2>6, Zenon DEF h, b
      <3> QED
        BY <1>1, <3>1, ZeroInField
    <2> QED
      BY <1>1, <2>1, <2>7
  <1>7. CASE Zero(wa)
    <2>1. t[1] = D[1]
      BY <1>1, <1>7, <1>a, ZeroInField
    <2>2. w = a
      BY <2>1 DEF w, a
    <2>3. Zero(D[2] + t[2])
      <3> DEFINE h == e1 + e2
                 b == -a
      <3>1. D[2] + t[2] = h + b * lm /\ b \in Int
        BY <1>1, <1>2, <2>2
      <3> HIDE DEF b, e1, e2, lm
      <3>2. Zero(h) /\ h \in Int
        BY <1>3, <1>4, ZeroSums
      <3> HIDE DEF h
      <3>3. Zero(h + b * lm)
        BY <1>3, <1>4, <3>1, <3>2, ZeroAgain
      <3> QED
        BY <3>1, <3>3, Zenon
    <2>4. Zero(uc)
      <3> DEFINE h == z1 - z3
                 b == l + m
      <3>1. uc = h + b * lm /\ b \in Int
        BY <1>1, <1>2, <2>2
      <3> HIDE DEF b, z1, z3, lm, uc
      <3>2. Zero(h) /\ h \in Int
        BY <1>3, <1>4, ZeroSums
      <3> HIDE DEF h
      <3>3. Zero(h + b * lm)
        BY <1>3, <1>4, <3>1, <3>2, ZeroAgain
      <3> QED
        BY <3>1, <3>3, Zenon
    <2>5. r[1] = E[1]
      BY <1>1, <1>a, <2>4, ZeroInField
    <2>6. u = c
      BY <2>5 DEF u, c
    <2>7. Zero(E[2] + r[2])
      <3> DEFINE h == e3 + e4
      <3>1. E[2] + r[2] = h + u * lm
        BY <1>1, <1>2, <2>6
      <3> HIDE DEF e3, e4, lm
      <3>2. Zero(h) /\ h \in Int
        BY <1>3, <1>4, ZeroSums
      <3> HIDE DEF h
      <3>3. Zero(h + u * lm)
        BY <1>2, <1>3, <1>4, <3>2, ZeroAgain
      <3> QED
        BY <3>1, <3>3, Zenon
    <2> QED
      BY <2>1, <2>3, <2>5, <2>7, OppositeSums
  <1> HIDE DEF wu, wa
  <1> QED
    BY <1>4, <1>5, <1>6, <1>7, ZeroCancels

(* Adding a point and then its opposite leads back.                         *)
LEMMA OppositeUndoes ==
    ASSUME NEW p \in Curve, NEW q \in Curve, PointAdd(p, q) = Infinity, NEW t \in Group
    PROVE  PointAdd(p, PointAdd(q, t)) = t
  <1> DEFINE X == p[1]
             opp == p[2] + q[2]
  <1>1. q[1] = X /\ Zero(opp)
    BY OppositesHaveOppositeY
  <1>2. /\ X \in Int /\ p[2] \in 0 .. P - 1 /\ q[2] \in 0 .. P - 1
        /\ p # Infinity /\ q # Infinity /\ p = <<p[1], p[2]>>
        /\ opp \in Int /\ p[1] \in 0 .. P - 1
    BY Coordinates
  <1>3. CASE t = Infinity
    BY <1>2, <1>3 DEF PointAdd
  <1>4. CASE t \in Curve /\ PointAdd(q, t) = Infinity
    <2>1. t[1] = q[1] /\ Zero(q[2] + t[2])
      BY <1>4, OppositesHaveOppositeY
    <2>2. t[2] \in 0 .. P - 1 /\ t = <<t[1], t[2]>>
      BY <1>4, Coordinates
    <2> DEFINE f == q[2] + t[2]
    <2>3. t[2] - p[2] = f - opp /\ f \in Int
      BY <1>2, <2>2
    <2>4. Zero(t[2] - p[2])
      <3> HIDE DEF f, opp
      <3>1. Zero(f - opp)
        BY <1>1, <1>2, <2>1, <2>3, ZeroSums DEF f
      <3> QED
        BY <2>3, <3>1
    <2>5. t = p
      BY <1>1, <1>2, <2>1, <2>2, <2>4, ZeroInField
    <2> QED
      BY <1>2, <1>4, <2>5 DEF PointAdd
  <1>5. CASE t \in Curve /\ PointAdd(q, t) # Infinity
    <2> DEFINE E == PointAdd(q, t)
    <2>1. E \in Curve /\ \E m \in Int : Line(q, t, E, m)
      BY <1>5, SumHasALine
    <2> HIDE DEF E
    <2>2. PICK m \in Int : Line(q, t, E, m)
      BY <2>1
    <2> DEFINE b == q[2]
               w == t[1] - X
               c == E[1] - X
               n == -m
               e2 == t[2] - (b + m * w)
               e3 == E[2] + (b + m * c)
               z3 == (w + c) - (m * m - 3 * X)
               z4 == w * c - (3 * X * X - 2 * m * b)
    <2>3. Zero(e2) /\ Zero(e3) /\ Zero(z3) /\ Zero(z4)
      BY <1>1, <2>2 DEF Line
    <2>4. /\ t[1] \in 0 .. P - 1 /\ t[2] \in 0 .. P - 1 /\ t = <<t[1], t[2]>>
          /\ E[1] \in 0 .. P - 1 /\ E[2] \in 0 .. P - 1 /\ E = <<E[1], E[2]>>
      BY <1>5, <2>1, Coordinates
    <2>5. b \in Int /\ w \in Int /\ c \in Int /\ n \in Int /\ p[2] \in Int
          /\ t[2] \in Int /\ E[2] \in Int /\ opp = p[2] + b
      BY <1>2, <2>4
    <2> HIDE DEF X, b, w, c, opp
    <2>a. e2 \in Int /\ e3 \in Int /\ z3 \in Int /\ z4 \in Int
      BY <1>2, <2>5
    <2>6. Zero(E[2] - (p[2] + n * c))
      <3>1. E[2] - (p[2] + n * c) = e3 - opp
        BY <1>2, <2>5
      <3> HIDE DEF e3
      <3>2. Zero(e3 - opp)
        BY <1>1, <1>2, <2>3, <2>a, ZeroSums
      <3> QED
        BY <3>1, <3>2, Zenon
    <2>7. Zero(t[2] + (p[2] + n * w))
      <3>1. t[2] + (p[2] + n * w) = e2 + opp
        BY <1>2, <2>5
      <3> HIDE DEF e2
      <3>2. Zero(e2 + opp)
        BY <1>1, <1>2, <2>3, <2>a, ZeroSums
      <3> QED
        BY <3>1, <3>2, Zenon
    <2>8. Zero((c + w) - (n * n - 3 * X))
      <3>1. (c + w) - (n * n - 3 * X) = z3
        BY <1>2, <2>5
      <3> QED
        BY <2>3, <3>1, Zenon
    <2>9. Zero(c * w - (3 * X * X - 2 * n * p[2]))
      <3> DEFINE f == 2 * n
      <3>1. c * w - (3 * X * X - 2 * n * p[2]) = z4 + f * opp /\ f \in Int
        BY <1>2, <2>5
      <3> HIDE DEF z4, f
      <3>2. Zero(z4 + f * opp)
        BY <1>1, <1>2, <2>3, <2>a, <3>1, ZeroAgain
      <3> QED
        BY <3>1, <3>2, Zenon
    <2>10. Line(p, E, t, n)
      BY <2>6, <2>7, <2>8, <2>9 DEF Line, X, w, c
    <2>11. p[1] # E[1] \/ p = E
      <3> SUFFICES ASSUME p[1] = E[1] PROVE p = E
        OBVIOUS
      <3>1. c = 0
        BY <1>2 DEF c, X
      <3>2. E[2] - (p[2] + n * c) = E[2] - p[2]
        BY <2>5, <3>1
      <3>3. E[2] = p[2]
        <4>1. Zero(E[2] - p[2])
          BY <2>6, <3>2, Zenon
        <4> QED
          BY <1>2, <2>4, <4>1, ZeroInField
      <3> QED
        BY <1>2, <2>4, <3>3
    <2>12. PointAdd(p, E) = t
      BY <1>5, <2>1, <2>4, <2>5, <2>10, <2>11, LineHasASum
    <2> QED
      BY <2>12 DEF E
  <1> QED
    BY <1>3, <1>4, <1>5 DEF Group

(* The order in which the code adds three points does not matter.           *)
LEMMA AdditionIsAssociative ==
    Associative
  <1> SUFFICES ASSUME NEW p \in Group, NEW q \in Group, NEW t \in Group
               PROVE  PointAdd(PointAdd(p, q), t) = PointAdd(p, PointAdd(q, t))
    BY DEF Associative
  <1>1. CASE p = Infinity \/ q = Infinity \/ t = Infinity
    <2>1. ASSUME NEW x \in Group
          PROVE  PointAdd(Infinity, x) = x /\ PointAdd(x, Infinity) = x
      BY DEF PointAdd
    <2>2. PointAdd(p, q) \in Group /\ PointAdd(q, t) \in Group
      BY AdditionIsAnOperation
    <2> QED
      BY <1>1, <2>1, <2>2
  <1>2. CASE p \in Curve /\ q \in Curve /\ t \in Curve
    <2> DEFINE D == PointAdd(q, p)
               E == PointAdd(q, t)
    <2>1. /\ D \in Group /\ E \in Group /\ PointAdd(p, q) = D /\ PointAdd(t, q) = E
          /\ PointAdd(p, E) = PointAdd(E, p) /\ PointAdd(D, t) = PointAdd(t, D)
      BY AdditionIsAnOperation
    <2>2. CASE D = Infinity
      <3>1. PointAdd(p, E) = t
        BY <1>2, <2>1, <2>2, OppositeUndoes
      <3>2. PointAdd(D, t) = t
        BY <2>2 DEF PointAdd
      <3> QED
        BY <2>1, <3>1, <3>2
    <2>3. CASE E = Infinity
      <3>1. PointAdd(t, D) = p
        BY <1>2, <2>1, <2>3, OppositeUndoes
      <3>2. PointAdd(E, p) = p
        BY <2>3 DEF PointAdd
      <3> QED
        BY <2>1, <3>1, <3>2
    <2>4. CASE D # Infinity /\ E # Infinity
      <3>1. PICK l \in Int : D \in Curve /\ Line(q, p, D, l)
        BY <1>2, <2>4, SumHasALine
      <3>2. PICK m \in Int : E \in Curve /\ Line(q, t, E, m)
        BY <1>2, <2>4, SumHasALine
      <3>a. D = PointAdd(q, p) /\ E = PointAdd(q, t)
        OBVIOUS
      <3> HIDE DEF D, E
      <3>3. PointAdd(D, t) = PointAdd(E, p)
        BY <1>2, <3>1, <3>2, <3>a, SameLine, DifferentLines
      <3> QED
        BY <2>1, <3>3, <3>a
    <2> QED
      BY <2>2, <2>3, <2>4
  <1> QED
    BY <1>1, <1>2 DEF Group

(* The code's addition and doubling are the operation of a group.           *)
LEMMA IsAGroup ==
    GroupLaw
  BY AdditionIsAnOperation, AdditionIsAssociative DEF GroupLaw

-----------------------------------------------------------------------------
(* Every point has an opposite, so that equal sums have equal parts.        *)
LEMMA Opposite ==
    ASSUME NEW p \in Group
    PROVE  \E q \in Group : PointAdd(p, q) = Infinity
  <1>1. CASE p = Infinity
    BY <1>1 DEF PointAdd, Group
  <1>2. CASE p \in Curve
    <2> DEFINE b == p[2]
               q == <<p[1], P - b>>
    <2>1. P \in Nat \ {0} /\ P % 2 = 1 /\ p[1] \in 0 .. P - 1 /\ b \in 1 .. P - 1
          /\ (b * b) % P = Square(p[1])
      BY <1>2, Moduli, Coordinates, TwiceY
    <2> HIDE DEF b
    <2>2. P - b \in 1 .. P - 1 /\ P - b # b
      BY <2>1
    <2>3. ((P - b) * (P - b)) % P = (b * b) % P
      <3>1. (P - b) * (P - b) = b * b + P * (P - 2 * b)
        BY <2>1
      <3>2. b * b \in Int /\ P - 2 * b \in Int
        BY <2>1
      <3>3. (b * b + P * (P - 2 * b)) % P = (b * b) % P
        BY <2>1, <3>2, ModShift
      <3> QED
        BY <3>1, <3>3
    <2>4. q \in Curve
      BY <2>1, <2>2, <2>3 DEF Curve
    <2>5. q[1] = p[1] /\ q # p
      BY <2>2 DEF b
    <2>6. PointAdd(p, q) = Infinity
      BY <1>2, <2>4, <2>5, SumsOfPoints
    <2> QED
      BY <2>4, <2>6 DEF Group
  <1> QED
    BY <1>1, <1>2 DEF Group

LEMMA SumsCancel ==
    ASSUME GroupLaw, NEW p \in Group, NEW q \in Group, NEW t \in Group,
           PointAdd(p, q) = PointAdd(p, t)
    PROVE  q = t
  <1>1. PICK o \in Group : PointAdd(p, o) = Infinity
    BY Opposite
  <1>2. PointAdd(o, p) = Infinity
    BY <1>1 DEF GroupLaw
  <1>3. PointAdd(o, PointAdd(p, q)) = PointAdd(PointAdd(o, p), q)
        /\ PointAdd(o, PointAdd(p, t)) = PointAdd(PointAdd(o, p), t)
    BY DEF GroupLaw, Associative
  <1> QED
    BY <1>2, <1>3, InfinityIsNeutral

-----------------------------------------------------------------------------
(* The order of the generator: the least multiple of it that is infinity    *)
(* divides the number of points, which is prime.                            *)

LEMMA GroupIsFinite ==
    IsFiniteSet(Group) /\ Cardinality(Group) = N
  <1> DEFINE field == 0 .. P - 1
  <1>1. P \in Nat /\ N \in Nat /\ Cardinality(Curve) = N - 1
    BY Moduli, OrderAssumption
  <1>2. IsFiniteSet(field)
    BY <1>1, FS_Interval
  <1>3. IsFiniteSet(field \X field)
    <2> HIDE DEF field
    <2> QED
      BY <1>2, FS_Product
  <1>4. Curve \subseteq field \X field
    BY DEF Curve
  <1>5. IsFiniteSet(Curve)
    BY <1>3, <1>4, FS_Subset
  <1>6. Infinity \notin Curve
    BY Coordinates
  <1> QED
    BY <1>1, <1>5, <1>6, FS_AddElement DEF Group

(* n is the order of p.                                                     *)
IsOrder(n, p) ==
    /\ n \in Nat \ {0} /\ MultiplesOf(p)[n] = Infinity
    /\ \A j \in 1 .. n - 1 : MultiplesOf(p)[j] # Infinity

LEMMA EqualMultiples ==
    ASSUME GroupLaw, NEW p \in Group, NEW a \in Nat, NEW b \in Nat, a < b,
           MultiplesOf(p)[a] = MultiplesOf(p)[b]
    PROVE  MultiplesOf(p)[b - a] = Infinity
  <1> DEFINE m == MultiplesOf(p)
  <1>1. m \in [Nat -> Group] /\ b - a \in Nat /\ a + (b - a) = b
    BY Multiples
  <1>2. PointAdd(m[a], m[b - a]) = m[b]
    BY <1>1, MultiplesAdd
  <1>3. Infinity \in Group /\ m[a] \in Group /\ m[b - a] \in Group
    BY <1>1 DEF Group
  <1>4. PointAdd(m[a], Infinity) = m[a]
    BY <1>3, InfinityIsNeutral
  <1> HIDE DEF m
  <1>5. m[a] = m[b]
    BY DEF m
  <1>6. m[b - a] = Infinity
    BY <1>2, <1>3, <1>4, <1>5, SumsCancel
  <1> QED
    BY <1>6 DEF m

LEMMA OrderExists ==
    ASSUME GroupLaw, NEW p \in Group
    PROVE  \E n : IsOrder(n, p)
  <1> DEFINE m == MultiplesOf(p)
             f == [n \in 0 .. N |-> m[n]]
             T == {n \in Nat \ {0} : m[n] = Infinity}
  <1>1. N \in Nat /\ m \in [Nat -> Group]
    BY Moduli, Multiples
  <1>2. IsFiniteSet(0 .. N) /\ Cardinality(0 .. N) = N + 1
    BY <1>1, FS_Interval
  <1>3. f \in [0 .. N -> Group]
    BY <1>1
  <1>4. \E a, b \in 0 .. N : a # b /\ f[a] = f[b]
    <2> HIDE DEF f
    <2>1. Cardinality(Group) < Cardinality(0 .. N)
      BY <1>1, <1>2, GroupIsFinite
    <2> QED
      BY <1>2, <1>3, <2>1, GroupIsFinite, FS_PigeonHole
  <1>5. PICK a \in 0 .. N, b \in 0 .. N : a # b /\ f[a] = f[b]
    BY <1>4
  <1>6. T # {}
    <2>1. a \in Nat /\ b \in Nat /\ m[a] = m[b]
      BY <1>1, <1>5
    <2>2. CASE a < b
      <3>1. m[b - a] = Infinity /\ b - a \in Nat \ {0}
        BY <2>1, <2>2, EqualMultiples
      <3> QED
        BY <3>1
    <2>3. CASE b < a
      <3>1. m[a - b] = Infinity /\ a - b \in Nat \ {0}
        BY <2>1, <2>3, EqualMultiples
      <3> QED
        BY <3>1
    <2> QED
      BY <1>5, <2>1, <2>2, <2>3
  <1> DEFINE R == OpToRel(<, Nat)
  <1>7. PICK n \in T : \A j \in T : ~ (<<j, n>> \in R)
    <2> HIDE DEF T
    <2>1. T \subseteq Nat
      BY DEF T
    <2> QED
      BY <1>6, <2>1, NatLessThanWellFounded, WFMin
  <1>8. ASSUME NEW j \in 1 .. n - 1 PROVE m[j] # Infinity
    <2>1. j \in Nat \ {0} /\ n \in Nat /\ j < n
      OBVIOUS
    <2>2. j \notin T
      BY <1>7, <2>1 DEF OpToRel
    <2> QED
      BY <2>1, <2>2
  <1> QED
    BY <1>7, <1>8 DEF IsOrder

(* Where p leads from s, and back to s.                                     *)
Orbit(s, p, n) == {PointAdd(s, MultiplesOf(p)[j]) : j \in 0 .. n - 1}
ClosedUnder(S, p) == \A s \in S : PointAdd(s, p) \in S

LEMMA OrbitIsContained ==
    ASSUME GroupLaw, NEW p \in Group, NEW S, S \subseteq Group, ClosedUnder(S, p),
           NEW s \in S, NEW n \in Nat
    PROVE  PointAdd(s, MultiplesOf(p)[n]) \in S
  <1> DEFINE m == MultiplesOf(p)
             Good == {j \in Nat : PointAdd(s, m[j]) \in S}
  <1>1. m \in [Nat -> Group] /\ m[0] = Infinity
        /\ \A j \in Nat : m[j + 1] = PointAdd(m[j], p)
    BY Multiples
  <1> HIDE DEF m
  <1>2. 0 \in Good
    BY <1>1, InfinityIsNeutral
  <1>3. ASSUME NEW j \in Nat, j \in Good PROVE j + 1 \in Good
    <2>1. PointAdd(PointAdd(s, m[j]), p) = PointAdd(s, PointAdd(m[j], p))
      BY <1>1 DEF GroupLaw, Associative
    <2>2. PointAdd(PointAdd(s, m[j]), p) \in S
      BY <1>3 DEF ClosedUnder
    <2> QED
      BY <1>1, <2>1, <2>2
  <1>4. Nat \subseteq Good
    <2> HIDE DEF Good
    <2> QED
      BY <1>2, <1>3, Induction
  <1> QED
    BY <1>4 DEF m

LEMMA OrbitHasOrder ==
    ASSUME GroupLaw, NEW p \in Group, NEW n, IsOrder(n, p), NEW s \in Group
    PROVE  IsFiniteSet(Orbit(s, p, n)) /\ Cardinality(Orbit(s, p, n)) = n
  <1> DEFINE m == MultiplesOf(p)
             O == Orbit(s, p, n)
             f == [j \in 0 .. n - 1 |-> PointAdd(s, m[j])]
  <1>1. m \in [Nat -> Group] /\ n \in Nat \ {0}
    BY Multiples DEF IsOrder
  <1>2. f \in [0 .. n - 1 -> O] /\ \A t \in O : \E j \in 0 .. n - 1 : f[j] = t
    BY DEF Orbit
  <1>3. ASSUME NEW a \in 0 .. n - 1, NEW b \in 0 .. n - 1, a < b, m[a] = m[b] PROVE FALSE
    <2>1. a \in Nat /\ b \in Nat /\ b - a \in 1 .. n - 1
      BY <1>1, <1>3
    <2>2. m[b - a] = Infinity
      BY <1>3, <2>1, EqualMultiples
    <2> QED
      BY <2>1, <2>2 DEF IsOrder
  <1>4. ASSUME NEW a \in 0 .. n - 1, NEW b \in 0 .. n - 1, f[a] = f[b] PROVE a = b
    <2>1. m[a] \in Group /\ m[b] \in Group
      BY <1>1
    <2>2. PointAdd(s, m[a]) = PointAdd(s, m[b])
      BY <1>4
    <2> HIDE DEF m
    <2>3. m[a] = m[b]
      BY <2>1, <2>2, SumsCancel
    <2> QED
      BY <1>1, <1>3, <2>3
  <1> HIDE DEF f, O
  <1>5. f \in Surjection(0 .. n - 1, O) /\ f \in Injection(0 .. n - 1, O)
    BY <1>2, <1>4 DEF Surjection, Injection, IsInjective
  <1>6. IsFiniteSet(0 .. n - 1) /\ Cardinality(0 .. n - 1) = n
    <2>1. 0 \in Int /\ n - 1 \in Int /\ ~(0 > n - 1) /\ (n - 1) - 0 + 1 = n
      BY <1>1
    <2> QED
      BY <2>1, FS_Interval
  <1>7. IsFiniteSet(O) /\ Cardinality(O) = n
    BY <1>5, <1>6, FS_Surjection
  <1> QED
    BY <1>7 DEF O

LEMMA WithoutOrbit ==
    ASSUME GroupLaw, NEW p \in Group, NEW n, IsOrder(n, p),
           NEW S, S \subseteq Group, ClosedUnder(S, p), NEW s \in S
    PROVE  Orbit(s, p, n) \subseteq S /\ ClosedUnder(S \ Orbit(s, p, n), p)
  <1> DEFINE m == MultiplesOf(p)
             O == Orbit(s, p, n)
  <1>1. m \in [Nat -> Group] /\ n \in Nat \ {0} /\ m[n] = Infinity /\ m[0] = Infinity
        /\ m[1] = p /\ s \in Group
    <2>1. m \in [Nat -> Group] /\ m[0] = Infinity /\ m[0 + 1] = PointAdd(m[0], p)
      BY Multiples
    <2>2. n \in Nat \ {0} /\ m[n] = Infinity /\ s \in Group
      BY DEF IsOrder
    <2>3. PointAdd(Infinity, p) = p
      BY InfinityIsNeutral
    <2> QED
      BY <2>1, <2>2, <2>3
  <1>2. O \subseteq S
    BY <1>1, OrbitIsContained DEF Orbit
  <1>3. \A a, b \in Nat : PointAdd(m[a], m[b]) = m[a + b]
    BY MultiplesAdd
  <1>a. ASSUME NEW a \in 0 .. n - 1 PROVE PointAdd(s, m[a]) \in O
    BY DEF Orbit
  <1>b. ASSUME NEW t \in O PROVE \E a \in 0 .. n - 1 : t = PointAdd(s, m[a])
    BY DEF Orbit
  <1> HIDE DEF m, O
  <1>4. ASSUME NEW t \in S \ O PROVE PointAdd(t, p) \in S \ O
    <2>1. PointAdd(t, p) \in S /\ t \in Group
      BY DEF ClosedUnder
    <2>2. ASSUME PointAdd(t, p) \in O PROVE FALSE
      <3>1. PICK j \in 0 .. n - 1 : PointAdd(t, p) = PointAdd(s, m[j])
        BY <1>b, <2>2
      <3>2. n - 1 \in Nat /\ 1 + (n - 1) = n /\ j \in Nat /\ j + (n - 1) \in Nat
        BY <1>1
      <3>3. m[n - 1] \in Group /\ m[j] \in Group
        BY <1>1, <3>2
      <3>4. PointAdd(PointAdd(t, p), m[n - 1]) = t
        <4>a. t \in Group /\ Associative
          BY <2>1 DEF GroupLaw
        <4>1. PointAdd(PointAdd(t, p), m[n - 1]) = PointAdd(t, PointAdd(p, m[n - 1]))
          BY <3>3, <4>a DEF Associative
        <4>2. PointAdd(p, m[n - 1]) = Infinity
          BY <1>1, <1>3, <3>2
        <4> QED
          BY <2>1, <4>1, <4>2, InfinityIsNeutral
      <3>5. PointAdd(PointAdd(s, m[j]), m[n - 1]) = PointAdd(s, m[j + (n - 1)])
        <4>1. PointAdd(PointAdd(s, m[j]), m[n - 1]) = PointAdd(s, PointAdd(m[j], m[n - 1]))
          BY <1>1, <3>3 DEF GroupLaw, Associative
        <4>2. PointAdd(m[j], m[n - 1]) = m[j + (n - 1)]
          BY <1>3, <3>2
        <4> QED
          BY <4>1, <4>2
      <3>6. \E a \in 0 .. n - 1 : m[j + (n - 1)] = m[a]
        <4>1. CASE j = 0
          BY <1>1, <4>1
        <4>2. CASE j # 0
          <5>1. j - 1 \in Nat /\ j - 1 \in 0 .. n - 1 /\ (j - 1) + n = j + (n - 1)
                /\ n \in Nat
            BY <1>1, <4>2
          <5>2. PointAdd(m[j - 1], m[n]) = m[j + (n - 1)]
            BY <1>3, <5>1
          <5>3. PointAdd(m[j - 1], Infinity) = m[j - 1]
            <6>1. m[j - 1] \in Group
              BY <1>1, <5>1
            <6> QED
              BY <6>1, InfinityIsNeutral
          <5> QED
            BY <1>1, <5>1, <5>2, <5>3
        <4> QED
          BY <4>1, <4>2
      <3>7. t \in O
        BY <1>a, <3>1, <3>4, <3>5, <3>6
      <3> QED
        BY <3>7
    <2> QED
      BY <2>1, <2>2
  <1> QED
    BY <1>2, <1>4 DEF ClosedUnder, O

LEMMA OrderDivides ==
    ASSUME GroupLaw, NEW p \in Group, NEW n, IsOrder(n, p)
    PROVE  \E q \in Nat : N = n * q
  <1> DEFINE Divides(S) == \E q \in Nat : Cardinality(S) = n * q
             Good == {c \in Nat : \A S \in SUBSET Group :
                         ClosedUnder(S, p) /\ Cardinality(S) <= c => Divides(S)}
  <1>1. n \in Nat \ {0}
    BY DEF IsOrder
  <1>2. ASSUME NEW S \in SUBSET Group PROVE IsFiniteSet(S) /\ Cardinality(S) \in Nat
    <2>1. IsFiniteSet(S)
      BY GroupIsFinite, FS_Subset
    <2> QED
      BY <2>1, FS_CardinalityType
  <1>3. 0 \in Good
    <2>1. ASSUME NEW S \in SUBSET Group, Cardinality(S) <= 0 PROVE Divides(S)
      <3>1. Cardinality(S) = 0
        BY <1>2, <2>1
      <3>2. n * 0 = 0
        BY <1>1
      <3> QED
        BY <3>1, <3>2
    <2> HIDE DEF Divides
    <2> QED
      BY <2>1
  <1>4. ASSUME NEW c \in Nat, c \in Good PROVE c + 1 \in Good
    <2> SUFFICES ASSUME NEW S \in SUBSET Group, ClosedUnder(S, p), Cardinality(S) <= c + 1
                 PROVE  Divides(S)
      OBVIOUS
    <2>1. CASE Cardinality(S) <= c
      BY <1>4, <2>1
    <2>2. CASE Cardinality(S) = c + 1
      <3>1. S # {}
        BY <2>2, FS_EmptySet
      <3>2. PICK s \in S : TRUE
        BY <3>1
      <3> DEFINE O == Orbit(s, p, n)
                 T == S \ O
      <3>3. O \subseteq S /\ ClosedUnder(T, p)
        BY WithoutOrbit
      <3>4. IsFiniteSet(O) /\ Cardinality(O) = n
        BY OrbitHasOrder
      <3> HIDE DEF O
      <3>5. Cardinality(T) = Cardinality(S) - n
        <4>1. S \cap O = O
          BY <3>3
        <4> QED
          BY <1>2, <3>4, <4>1, FS_Difference
      <3>6. T \in SUBSET Group
        OBVIOUS
      <3> HIDE DEF T
      <3>7. Cardinality(T) <= c /\ Cardinality(T) \in Nat
        BY <1>1, <1>2, <2>2, <3>5, <3>6
      <3>8. PICK q \in Nat : Cardinality(T) = n * q
        BY <1>4, <3>3, <3>6, <3>7
      <3>9. Cardinality(S) = n * (q + 1) /\ q + 1 \in Nat
        <4>1. n * (q + 1) = n * q + n /\ n * q \in Nat
          BY <1>1
        <4> QED
          BY <1>1, <1>2, <3>5, <3>8, <4>1
      <3> QED
        BY <3>9
    <2> QED
      BY <1>2, <2>1, <2>2
  <1>5. Nat \subseteq Good
    <2> HIDE DEF Good
    <2> QED
      BY <1>3, <1>4, Induction
  <1>6. ClosedUnder(Group, p)
    BY DEF GroupLaw, ClosedUnder
  <1>7. Divides(Group)
    <2>1. N \in Nat /\ N <= N
      BY Moduli
    <2>2. N \in Good
      BY <1>5, <2>1
    <2> HIDE DEF Divides
    <2> QED
      BY <1>6, <2>1, <2>2, GroupIsFinite
  <1> QED
    BY <1>7, GroupIsFinite

LEMMA OrderOfTheGenerator ==
    ASSUME GroupLaw
    PROVE  GeneratorHasOrderN
  <1>1. N \in Nat \ {0, 1} /\ G \in Group /\ G # Infinity
    BY Moduli, OrderAssumption, Coordinates
  <1>2. PICK n : IsOrder(n, G)
    BY <1>1, OrderExists
  <1>3. n \in Nat \ {0}
    BY <1>2 DEF IsOrder
  <1>4. PICK q \in Nat : N = n * q
    BY <1>1, <1>2, OrderDivides
  <1>5. n # 1
    <2>1. MultiplesOf(G)[0 + 1] = PointAdd(MultiplesOf(G)[0], G) /\ MultiplesOf(G)[0] = Infinity
      BY <1>1, Multiples
    <2>2. PointAdd(Infinity, G) = G
      BY <1>1, InfinityIsNeutral
    <2> QED
      BY <1>1, <1>2, <2>1, <2>2 DEF IsOrder
  <1>6. n <= N
    <2>1. q # 0
      <3>1. n * 0 = 0
        BY <1>3
      <3> QED
        BY <1>1, <1>4, <3>1
    <2>2. q >= 1 => n * q >= n
      BY <1>3
    <2> QED
      BY <1>4, <2>1, <2>2
  <1>7. N % n = 0
    <2>1. (n * q + 0) % n = 0
      BY <1>3, Quotient
    <2>2. n * q + 0 = N
      BY <1>1, <1>4
    <2> QED
      BY <2>1, <2>2
  <1>8. n = N
    <2>1. \A d \in 2 .. N - 1 : N % d # 0
      BY OrderAssumption DEF Prime
    <2>2. n \notin 2 .. N - 1
      BY <1>7, <2>1
    <2> QED
      BY <1>1, <1>3, <1>5, <1>6, <2>2
  <1> QED
    BY <1>2, <1>8 DEF IsOrder, GeneratorHasOrderN

-----------------------------------------------------------------------------
(* The multiples of the generator.                                          *)

(* Points whose sum is infinity have one x.                                 *)
LEMMA OppositesShareX ==
    ASSUME NEW p \in Curve, NEW q \in Curve, PointAdd(p, q) = Infinity
    PROVE  p[1] = q[1]
  BY SumsOfPoints, Coordinates

LEMMA MultiplesOfInfinity ==
    ASSUME GroupLaw, NEW n \in Nat
    PROVE  MultiplesOf(Infinity)[n] = Infinity
  <1> DEFINE m == MultiplesOf(Infinity)
             Good == {j \in Nat : m[j] = Infinity}
  <1>1. Infinity \in Group
    BY DEF Group
  <1>2. m[0] = Infinity /\ \A j \in Nat : m[j + 1] = PointAdd(m[j], Infinity)
    BY <1>1, Multiples
  <1>3. PointAdd(Infinity, Infinity) = Infinity
    BY <1>1, InfinityIsNeutral
  <1> HIDE DEF m
  <1>4. 0 \in Good /\ \A j \in Nat : j \in Good => j + 1 \in Good
    BY <1>2, <1>3
  <1>5. Nat \subseteq Good
    <2> HIDE DEF Good
    <2> QED
      BY <1>4, Induction
  <1> QED
    BY <1>5 DEF m

(* A multiple of G depends on its factor modulo N only.                     *)
LEMMA FactorsModN ==
    ASSUME GroupLaw, GeneratorHasOrderN, NEW a \in Nat
    PROVE  MultiplesOf(G)[a] = MultiplesOf(G)[a % N]
  <1> DEFINE m == MultiplesOf(G)
  <1>1. N \in Nat \ {0} /\ G \in Group
    BY Moduli
  <1>2. PICK q \in Int, r \in 0 .. N - 1 : a % N = r /\ a = N * q + r
    BY <1>1, Division
  <1>3. q \in Nat
    <2>1. q <= -1 => N * q <= -N
      BY <1>1
    <2> QED
      BY <1>1, <1>2, <2>1
  <1>4. m \in [Nat -> Group] /\ N * q \in Nat /\ r \in Nat
    BY <1>1, <1>3, Multiples
  <1>5. m[N * q] = Infinity
    <2>1. MultiplesOf(m[N])[q] = m[N * q]
      BY <1>1, <1>3, MultiplesMultiply
    <2>2. m[N] = Infinity
      BY DEF GeneratorHasOrderN
    <2> QED
      BY <1>3, <2>1, <2>2, MultiplesOfInfinity
  <1>6. PointAdd(m[N * q], m[r]) = m[N * q + r]
    BY <1>1, <1>4, MultiplesAdd
  <1>7. PointAdd(Infinity, m[r]) = m[r]
    BY <1>4, InfinityIsNeutral
  <1> QED
    BY <1>2, <1>5, <1>6, <1>7

(* No multiple below N is infinity, and a factor and its negative lead to   *)
(* points with the same x, which is all that a signature keeps.             *)
LEMMA NegativeSharesX ==
    ASSUME GroupLaw, GeneratorHasOrderN, NEW n \in 1 .. N - 1
    PROVE  /\ MultiplesOf(G)[n] \in Curve /\ MultiplesOf(G)[N - n] \in Curve
           /\ MultiplesOf(G)[n][1] = MultiplesOf(G)[N - n][1]
  <1> DEFINE m == MultiplesOf(G)
  <1>1. N \in Nat \ {0} /\ G \in Group
    BY Moduli
  <1>2. m \in [Nat -> Group]
    BY <1>1, Multiples
  <1>3. N - n \in 1 .. N - 1 /\ n \in Nat /\ N - n \in Nat /\ n + (N - n) = N
    BY <1>1
  <1>4. m[n] # Infinity /\ m[N - n] # Infinity /\ m[N] = Infinity
    BY <1>3 DEF GeneratorHasOrderN
  <1>5. PointAdd(m[n], m[N - n]) = m[n + (N - n)]
    BY <1>1, <1>3, MultiplesAdd
  <1> HIDE DEF m
  <1>6. m[n] \in Curve /\ m[N - n] \in Curve
    BY <1>2, <1>3, <1>4 DEF Group
  <1>7. m[n][1] = m[N - n][1]
    BY <1>3, <1>4, <1>5, <1>6, OppositesShareX
  <1> QED
    BY <1>6, <1>7 DEF m

-----------------------------------------------------------------------------
(* The equation of a signature: the verifier's two factors lead back to k,  *)
(* or to -k where s was mirrored.  z is the hash, d the private key.        *)

LEMMA SignedFactors ==
    ASSUME NEW z \in Nat, NEW d \in Nat, NEW r \in Nat, NEW c \in 1 .. N - 1,
           NEW s0, s0 = (Modinv(c, N) * (z + r * d)) % N, s0 # 0,
           NEW s, s = LowS(s0),
           NEW w, w = Modinv(s, N)
    PROVE  /\ s \in 1 .. N - 1 /\ s <= N \div 2 /\ w \in 1 .. N - 1
           /\ (z * w) % N \in 0 .. N - 1 /\ (r * w) % N \in 0 .. N - 1
           /\ (((z * w) % N) + d * ((r * w) % N)) % N \in {c, N - c}
  <1> DEFINE e == z + r * d
             v == Modinv(c, N)
             u1 == (z * w) % N
             u2 == (r * w) % N
  <1>1. N \in Nat \ {0, 1}
    BY Moduli
  <1>2. v \in 1 .. N - 1 /\ (c * v) % N = 1
    BY FermatAssumption
  <1>3. e \in Nat
    <2>1. r * d \in Nat
      OBVIOUS
    <2> QED
      BY <2>1
  <1>a. s0 = (v * e) % N
    OBVIOUS
  <1> HIDE DEF e, v
  <1>4. s0 \in 1 .. N - 1
    <2>1. v * e \in Int
      BY <1>2, <1>3
    <2>2. (v * e) % N \in 0 .. N - 1
      BY <1>1, <2>1
    <2> QED
      BY <1>a, <2>2
  <1>5. s \in 1 .. N - 1 /\ s <= N \div 2 /\ s \in {s0, N - s0}
    <2>1. N \div 2 \in Nat /\ N \div 2 < N /\ N - N \div 2 <= N \div 2 + 1
      BY <1>1
    <2>2. CASE s0 > N \div 2
      BY <1>1, <1>4, <2>1, <2>2 DEF LowS
    <2>3. CASE ~(s0 > N \div 2)
      BY <1>1, <1>4, <2>1, <2>3 DEF LowS
    <2> QED
      BY <2>2, <2>3
  <1>6. w \in 1 .. N - 1 /\ (s * w) % N = 1
    BY <1>5, FermatAssumption
  <1>7. u1 \in 0 .. N - 1 /\ u2 \in 0 .. N - 1
    <2>1. z * w \in Int /\ r * w \in Int
      BY <1>6
    <2> QED
      BY <1>1, <2>1
  <1>8. (c * s0) % N = e % N
    <2>1. (c * s0) % N = (c * (v * e)) % N
      <3>1. v * e \in Int
        BY <1>2, <1>3
      <3> QED
        BY <1>1, <1>a, <3>1, ModTimes
    <2>2. c * (v * e) = e * (c * v) /\ c * v \in Int
      BY <1>2, <1>3
    <2>3. (e * (c * v)) % N = (e * ((c * v) % N)) % N
      BY <1>1, <1>3, <2>2, ModTimes
    <2>4. e * ((c * v) % N) = e
      BY <1>2, <1>3
    <2> QED
      BY <2>1, <2>2, <2>3, <2>4
  <1>9. (u1 + d * u2) % N = (w * e) % N
    <2>1. z * w \in Int /\ r * w \in Int /\ d * (r * w) \in Int /\ d * u2 \in Int
      BY <1>6, <1>7
    <2>2. (d * u2) % N = (d * (r * w)) % N
      BY <1>1, <2>1, ModTimes
    <2>3. (u1 + d * u2) % N = (u1 + d * (r * w)) % N
      <3> HIDE DEF u1, u2
      <3>a. N \in Nat \ {0} /\ u1 \in Int /\ d * u2 \in Int /\ d * (r * w) \in Int
        BY <1>1, <1>7, <2>1
      <3>1. (u1 + d * u2) % N = (u1 + ((d * u2) % N)) % N
        BY <3>a, ModPlus, Zenon
      <3>2. (u1 + ((d * (r * w)) % N)) % N = (u1 + d * (r * w)) % N
        BY <3>a, ModPlus, Zenon
      <3> QED
        BY <2>2, <3>1, <3>2
    <2>4. (d * (r * w) + u1) % N = (d * (r * w) + z * w) % N
      <3>1. (d * (r * w) + ((z * w) % N)) % N = (d * (r * w) + z * w) % N
        BY <1>1, <2>1, ModPlus
      <3> QED
        BY <3>1
    <2>5. u1 + d * (r * w) = d * (r * w) + u1
      BY <1>7, <2>1
    <2>6. d * (r * w) + z * w = w * e
      BY <1>6 DEF e
    <2> QED
      BY <2>3, <2>4, <2>5, <2>6
  <1>10. (w * e) % N = (w * (c * s0)) % N
    <2>1. N \in Nat \ {0} /\ w \in Int /\ e \in Int /\ c * s0 \in Int
      BY <1>1, <1>3, <1>4, <1>6
    <2>2. (w * e) % N = (w * (e % N)) % N
      BY <2>1, ModTimes, Zenon
    <2>3. (w * (c * s0)) % N = (w * ((c * s0) % N)) % N
      BY <2>1, ModTimes, Zenon
    <2> QED
      BY <1>8, <2>2, <2>3
  <1>11. PICK q \in Int : s * w = N * q + 1
    <2>1. s * w \in Int /\ N \in Nat \ {0}
      BY <1>1, <1>5, <1>6
    <2>2. PICK q \in Int, t \in 0 .. N - 1 : (s * w) % N = t /\ s * w = N * q + t
      BY <2>1, Division, Zenon
    <2> QED
      BY <1>6, <2>2
  <1>12. (w * (c * s0)) % N \in {c, N - c}
    <2>1. CASE s = s0
      <3>1. w * (c * s0) = c * (s * w)
        BY <1>4, <1>6, <2>1
      <3>2. c * (s * w) = N * (c * q) + c
        BY <1>1, <1>11
      <3>3. (N * (c * q) + c) % N = c
        <4>1. c * q \in Int /\ c \in 0 .. N - 1
          BY <1>1
        <4> QED
          BY <1>1, <4>1, Quotient
      <3> QED
        BY <3>1, <3>2, <3>3
    <2>2. CASE s = N - s0
      <3> DEFINE f == c * w - c * q - 1
      <3>1. w * (c * s0) = N * (c * w) - c * (s * w)
        <4>1. s0 = N - s
          BY <1>1, <1>4, <2>2
        <4> QED
          BY <1>1, <1>5, <1>6, <4>1
      <3>2. c * (s * w) = N * (c * q) + c
        BY <1>1, <1>11
      <3>3. f \in Int /\ N - c \in 0 .. N - 1
        BY <1>1, <1>6
      <3>4. N * (c * w) - (N * (c * q) + c) = N * f + (N - c)
        BY <1>1, <1>6
      <3> HIDE DEF f
      <3>5. (N * f + (N - c)) % N = N - c
        BY <1>1, <3>3, Quotient
      <3> QED
        BY <3>1, <3>2, <3>4, <3>5
    <2> QED
      BY <1>5, <2>1, <2>2
  <1> QED
    BY <1>5, <1>6, <1>7, <1>9, <1>10, <1>12

-----------------------------------------------------------------------------
(* The signer. *)

(* What a signature is, in terms of the point k G.                          *)
IsSignature ==
    LET r == MultiplesOf(G)[k][1] % N
        s == (Modinv(k, N) * (hash + r * key)) % N
    IN  r # 0 /\ s # 0 /\ sig = <<r, LowS(s)>>

SignInv ==
    /\ key \in 1 .. N - 1 /\ hash \in Digests /\ i \in 0 .. Bits
    /\ stage \in {"nonce", "ladder", "signed", "raised"}
    /\ stage = "nonce" => k = 0 /\ i = Bits /\ r01 = LadderStart(G)
    /\ stage # "nonce" => k \in 1 .. N - 1 /\ r01 = Rung(k, G, i)
    /\ stage # "signed" => sig = <<0, 0>>
    /\ stage = "signed" => IsSignature

LEMMA KeysAreScalars ==
    ASSUME NEW d \in Keys, NEW retry \in {0, 2, N}
    PROVE  DeriveKey(d, retry) \in 1 .. N - 1
  <1>1. N \in Nat \ {0, 1} /\ d \in Nat /\ retry \in Nat
    BY Moduli, InputsAssumption
  <1>2. d % N \in 0 .. N - 1 /\ retry % N \in 0 .. N - 1
    BY <1>1
  <1>3. CASE d % N # 0
    BY <1>2, <1>3 DEF DeriveKey
  <1>4. CASE d % N = 0 /\ retry % N # 0
    BY <1>2, <1>4 DEF DeriveKey
  <1>5. CASE d % N = 0 /\ retry % N = 0
    BY <1>1, <1>5 DEF DeriveKey
  <1> QED
    BY <1>2, <1>3, <1>4, <1>5

LEMMA SignInvAlways ==
    ASSUME GroupLaw, GeneratorHasOrderN
    PROVE  Spec => []SignInv
  <1>1. Init => SignInv
    BY KeysAreScalars, InputsAssumption, OrderAssumption DEF Init, SignInv
  <1>2. ASSUME SignInv, [Next]_vars PROVE SignInv'
    <2>a. N \in Nat \ {0, 1} /\ 0 .. N - 1 \subseteq Digests /\ G \in Group /\ Bits \in Nat
      BY Moduli, OrderAssumption
    <2>1. ASSUME NEW c \in Digests, Candidate(c) PROVE SignInv'
      <3>1. c \in 1 .. N - 1 /\ c \in Digests
        BY <2>1 DEF Candidate
      <3>2. LadderStart(G) = Rung(c, G, Bits)
        BY <2>a, <3>1, FirstRung
      <3> QED
        BY <1>2, <2>1, <3>1, <3>2 DEF Candidate, SignInv
    <2>2. ASSUME Ladder PROVE SignInv'
      <3>1. k \in 1 .. N - 1 /\ i \in 1 .. Bits /\ r01 = Rung(k, G, i) /\ sig = <<0, 0>>
        BY <1>2, <2>2, <2>a DEF Ladder, SignInv
      <3>2. i - 1 \in Nat /\ i = (i - 1) + 1 /\ k \in Nat
        BY <2>a, <3>1
      <3>3. LadderStep(Rung(k, G, i), Bit(k, i - 1)) = Rung(k, G, i - 1)
        BY <2>a, <3>2, NextRung
      <3>4. r01' = Rung(k', G, i') /\ i' = i - 1 /\ i' \in 0 .. Bits
        BY <2>2, <2>a, <3>1, <3>3 DEF Ladder
      <3> QED
        BY <1>2, <2>2, <3>1, <3>4 DEF Ladder, SignInv
    <2>3. ASSUME Finish PROVE SignInv'
      <3>1. k \in 1 .. N - 1 /\ i = 0 /\ r01 = Rung(k, G, 0) /\ stage = "ladder"
            /\ sig = <<0, 0>>
        BY <1>2, <2>3 DEF Finish, SignInv
      <3>2. k \in Digests
        BY <2>a, <3>1
      <3>3. r01.zero = MultiplesOf(G)[k]
        BY <3>1, <3>2, ShiftEnds DEF Rung
      <3> DEFINE r == r01.zero[1] % N
                 s == (Modinv(k, N) * (hash + r * key)) % N
      <3>4. CASE r = 0 \/ s = 0
        <4>1. stage' = "raised" /\ UNCHANGED <<key, hash, k, i, r01, sig>>
          BY <2>3, <3>4 DEF Finish
        <4> QED
          BY <1>2, <3>1, <4>1 DEF SignInv
      <3>5. CASE r # 0 /\ s # 0
        <4>1. stage' = "signed" /\ sig' = <<r, LowS(s)>>
              /\ UNCHANGED <<key, hash, k, i, r01>>
          BY <2>3, <3>5 DEF Finish
        <4>2. IsSignature'
          BY <3>3, <3>5, <4>1 DEF IsSignature
        <4> QED
          BY <1>2, <3>1, <4>1, <4>2 DEF SignInv
      <3> QED
        BY <3>4, <3>5
    <2>4. CASE UNCHANGED vars
      BY <1>2, <2>4 DEF vars, SignInv, IsSignature
    <2> QED
      BY <1>2, <2>1, <2>2, <2>3, <2>4 DEF Next
  <1> QED
    BY <1>1, <1>2, PTL DEF Spec

(* The code's addition, whatever branch each sum takes, is the operation of *)
(* a commutative group in which its generator has the order N.              *)
THEOREM AdditionFormsTheGroup ==
    Spec => []AdditionIsAGroup
  <1>1. AdditionIsAGroup
    BY IsAGroup, OrderOfTheGenerator DEF AdditionIsAGroup
  <1> QED
    BY <1>1, PTL

(* The ladder holds, after every bit, the multiple of the bits it has read  *)
(* and the one after it, for every scalar, width and generator.             *)
THEOREM LadderIsRight ==
    Spec => []LadderInvariant
  <1>0. GroupLaw /\ GeneratorHasOrderN
    BY IsAGroup, OrderOfTheGenerator
  <1> USE <1>0
  <1>1. SignInv => LadderInvariant
    BY DEF SignInv, LadderInvariant, Rung
  <1> QED
    BY <1>1, SignInvAlways, PTL

(* A signature and the two points belong to the s, x and y it must have,    *)
(* and sign() never takes the coordinates of infinity.                      *)
LEMMA SignatureFacts ==
    ASSUME GroupLaw, GeneratorHasOrderN, SignInv, stage = "signed"
    PROVE  /\ MultiplesOf(G)[k] \in Curve /\ k \in 1 .. N - 1
           /\ sig[1] = MultiplesOf(G)[k][1] % N /\ sig[1] \in 1 .. N - 1
           /\ sig[2] \in 1 .. N - 1 /\ sig[2] <= N \div 2
           /\ sig = <<sig[1], sig[2]>>
           /\ LET w == Modinv(sig[2], N) IN
              /\ (hash * w) % N \in 0 .. N - 1 /\ (sig[1] * w) % N \in 0 .. N - 1
              /\ (((hash * w) % N) + key * ((sig[1] * w) % N)) % N \in {k, N - k}
  <1> DEFINE r == MultiplesOf(G)[k][1] % N
             s0 == (Modinv(k, N) * (hash + r * key)) % N
             s == LowS(s0)
  <1>1. N \in Nat \ {0, 1} /\ k \in 1 .. N - 1 /\ key \in Nat /\ hash \in Nat
    BY Moduli DEF SignInv
  <1>2. MultiplesOf(G)[k] \in Curve
    BY <1>1, NegativeSharesX
  <1>3. MultiplesOf(G)[k][1] \in Nat
    BY <1>2, Coordinates
  <1>4. r \in 0 .. N - 1 /\ r # 0 /\ s0 # 0 /\ sig = <<r, s>>
    BY <1>1, <1>3 DEF SignInv, IsSignature
  <1> DEFINE w == Modinv(s, N)
  <1>5. r \in Nat
    BY <1>1, <1>4
  <1> HIDE DEF r
  <1>6. /\ s \in 1 .. N - 1 /\ s <= N \div 2
        /\ (hash * w) % N \in 0 .. N - 1 /\ (r * w) % N \in 0 .. N - 1
        /\ (((hash * w) % N) + key * ((r * w) % N)) % N \in {k, N - k}
    BY <1>1, <1>4, <1>5, SignedFactors
  <1>7. sig[1] = r /\ sig[2] = s
    BY <1>4
  <1> HIDE DEF s
  <1> QED
    BY <1>1, <1>2, <1>4, <1>6, <1>7 DEF r

(* Every scalar stays in its range, the two points of the ladder stay in    *)
(* the group, and every signature is low.                                   *)
THEOREM SignsInRange ==
    Spec => []TypeOK
  <1>0. GroupLaw /\ GeneratorHasOrderN
    BY IsAGroup, OrderOfTheGenerator
  <1> USE <1>0
  <1>1. SignInv => TypeOK
    <2> SUFFICES ASSUME SignInv PROVE TypeOK
      OBVIOUS
    <2>1. N \in Nat \ {0, 1} /\ G \in Group /\ Bits \in Nat
      BY Moduli, OrderAssumption
    <2>2. r01 \in [zero : Group, one : Group]
      <3>1. CASE stage = "nonce"
        <4>1. Infinity \in Group
          BY DEF Group
        <4> QED
          BY <2>1, <3>1, <4>1 DEF SignInv, LadderStart
      <3>2. CASE stage # "nonce"
        <4>1. k \in Nat /\ i \in Nat /\ r01 = Rung(k, G, i)
          BY <2>1, <3>2 DEF SignInv
        <4> QED
          BY <2>1, <4>1, NextRung
      <3> QED
        BY <3>1, <3>2
    <2>3. sig \in (0 .. N - 1) \X (0 .. N \div 2)
      <3>1. CASE stage = "signed"
        <4>1. sig[1] \in 0 .. N - 1 /\ sig[2] \in 0 .. N \div 2 /\ sig = <<sig[1], sig[2]>>
          BY <2>1, <3>1, SignatureFacts
        <4> QED
          BY <4>1
      <3>2. CASE stage # "signed"
        <4>1. sig = <<0, 0>>
          BY <3>2 DEF SignInv
        <4>2. 0 \in 0 .. N - 1 /\ 0 \in 0 .. N \div 2
          BY <2>1
        <4> QED
          BY <4>1, <4>2
      <3> QED
        BY <3>1, <3>2
    <2>4. k \in 0 .. N - 1
      BY <2>1 DEF SignInv
    <2> QED
      BY <2>2, <2>3, <2>4 DEF SignInv, TypeOK
  <1> QED
    BY <1>1, SignInvAlways, PTL

(* verify() accepts every signature that sign() returns, from the           *)
(* compressed key alone, wherever x wraps over N and whether or not s was   *)
(* mirrored.                                                                *)
THEOREM SignaturesVerify ==
    Spec => []SignatureVerifies
  <1>0. GroupLaw /\ GeneratorHasOrderN
    BY IsAGroup, OrderOfTheGenerator
  <1> USE <1>0
  <1>1. SignInv => SignatureVerifies
    <2> SUFFICES ASSUME SignInv, stage = "signed"
                 PROVE  EcdsaVerify(Decompress(Compress(PublicKey)), hash, sig)
      BY DEF SignatureVerifies
    <2> DEFINE m == MultiplesOf(G)
               w == Modinv(sig[2], N)
               u1 == (hash * w) % N
               u2 == (sig[1] * w) % N
               t == u1 + key * u2
    <2>1. N \in Nat \ {0, 1} /\ G \in Group /\ 0 .. N - 1 \subseteq Digests
          /\ 0 .. N - 1 \subseteq Nat /\ key \in 1 .. N - 1
      BY Moduli DEF SignInv
    <2>2. /\ m[k] \in Curve /\ k \in 1 .. N - 1
          /\ sig[1] = m[k][1] % N /\ sig[1] \in 1 .. N - 1 /\ sig[2] \in 1 .. N - 1
          /\ u1 \in 0 .. N - 1 /\ u2 \in 0 .. N - 1
          /\ t % N \in {k, N - k}
      BY SignatureFacts
    <2> HIDE DEF m, w, u1, u2
    <2>3. PublicKey = m[key] /\ m[key] \in Curve
      <3>1. key \in Digests
        BY <2>1
      <3>2. m[key] \in Curve
        BY <2>1, NegativeSharesX DEF m
      <3> QED
        BY <2>1, <3>1, <3>2, PointMulMultiplies DEF PublicKey, m
    <2>4. Decompress(Compress(PublicKey)) = m[key]
      BY <2>3, CompressedKeyIsRecovered
    <2>5. PointMul(u1, G) = m[u1]
      BY <2>1, <2>2, PointMulMultiplies DEF m
    <2>6. PointMul(u2, m[key]) = m[key * u2]
      <3>1. m[key] \in Group
        BY <2>3, Coordinates
      <3>2. PointMul(u2, m[key]) = MultiplesOf(m[key])[u2]
        BY <2>1, <2>2, <3>1, PointMulMultiplies
      <3>3. MultiplesOf(m[key])[u2] = m[key * u2]
        BY <2>1, <2>2, MultiplesMultiply DEF m
      <3> QED
        BY <3>2, <3>3
    <2>7. PointAdd(m[u1], m[key * u2]) = m[t % N]
      <3>1. u1 \in Nat /\ key * u2 \in Nat /\ t \in Nat
        BY <2>1, <2>2
      <3>2. PointAdd(m[u1], m[key * u2]) = m[t]
        BY <2>1, <3>1, MultiplesAdd DEF m
      <3>3. m[t] = m[t % N]
        <4> HIDE DEF t
        <4> QED
          BY <3>1, FactorsModN DEF m
      <3> QED
        BY <3>2, <3>3
    <2>8. m[t % N] \in Curve /\ m[t % N][1] = m[k][1]
      BY <2>2, NegativeSharesX DEF m
    <2>9. m[t % N] # Infinity
      BY <2>8, Coordinates
    <2> HIDE DEF t
    <2>10. PointAdd(PointMul(u1, G), PointMul(u2, m[key])) = m[t % N]
      BY <2>5, <2>6, <2>7
    <2> QED
      BY <2>2, <2>4, <2>8, <2>9, <2>10 DEF EcdsaVerify, u1, u2, w
  <1> QED
    BY <1>1, SignInvAlways, PTL

=============================================================================
