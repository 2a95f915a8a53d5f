---------------------------- MODULE Framing_proofs ----------------------------
(***************************************************************************)
(* Theorems about Framing.  Length and stoi compute with recursive         *)
(* functions; the first section has what is needed to reason about them,   *)
(* the second that stoi reads back what Length writes.                     *)
(***************************************************************************)
EXTENDS Framing, WellFoundedInduction, SequenceTheorems, TLAPS

-------------------------------------------------------------------------------
(* Induction over the natural numbers, and functions defined by recursion *)

LEMMA LeastNat ==
  ASSUME NEW T, T \subseteq Nat, T # {}
  PROVE  \E n \in T : \A m \in T : n <= m
<1>1. PICK n \in T : \A m \in T : ~ (<<m, n>> \in OpToRel(<, Nat))
  BY WFMin, NatLessThanWellFounded
<1>2. \A m \in T : ~ (m < n)
  BY <1>1 DEF OpToRel
<1>3. QED
  BY <1>2

LEMMA InductionOnNat ==
  ASSUME NEW T, 0 \in T, \A n \in Nat : n \in T => n + 1 \in T
  PROVE  Nat \subseteq T
<1> SUFFICES ASSUME Nat \ T # {} PROVE FALSE
  OBVIOUS
<1>1. PICK n \in Nat \ T : \A m \in Nat \ T : n <= m
  <2>1. Nat \ T \subseteq Nat
    OBVIOUS
  <2>2. QED
    BY <2>1, LeastNat
<1>2. n # 0
  OBVIOUS
<1>3. n - 1 \in Nat /\ n - 1 \in T
  BY <1>1, <1>2
<1>4. QED
  BY <1>3

(* f is the recursive function of first and step, up to n. *)
Recurs(f, first, step, n) ==
  /\ f[0] = first
  /\ \A k \in 1 .. n : f[k] = step[k, f[k - 1]]

LEMMA RecursAgree ==
  ASSUME NEW first, NEW step,
         NEW n \in Nat, NEW f, Recurs(f, first, step, n),
         NEW m \in Nat, NEW g, Recurs(g, first, step, m), m <= n
  PROVE  f[m] = g[m]
<1> DEFINE T == {k \in Nat : k <= m => f[k] = g[k]}
<1>1. 0 \in T
  BY DEF Recurs
<1>2. ASSUME NEW k \in Nat, k \in T PROVE k + 1 \in T
  <2>1. CASE k + 1 <= m
    <3>1. k + 1 \in 1 .. n /\ k + 1 \in 1 .. m /\ (k + 1) - 1 = k
      BY <2>1
    <3>2. f[k + 1] = step[k + 1, f[k]] /\ g[k + 1] = step[k + 1, g[k]]
      BY <3>1 DEF Recurs
    <3>3. f[k] = g[k]
      BY <1>2, <2>1
    <3>4. f[k + 1] = g[k + 1]
      BY <3>2, <3>3, Zenon
    <3>5. QED
      BY <3>4
  <2>2. CASE ~ (k + 1 <= m)
    BY <2>2
  <2>3. QED
    BY <2>1, <2>2
<1> HIDE DEF T
<1>3. Nat \subseteq T
  BY <1>1, <1>2, InductionOnNat
<1>4. QED
  BY <1>3 DEF T

LEMMA RecursUpTo ==
  ASSUME NEW S, NEW first \in S, NEW step \in [Nat \X S -> S], NEW n \in Nat
  PROVE  \E f \in [0 .. n -> S] : Recurs(f, first, step, n)
<1> DEFINE T == {k \in Nat : \E f \in [0 .. k -> S] : Recurs(f, first, step, k)}
<1>1. 0 \in T
  <2>1. [i \in 0 .. 0 |-> first] \in [0 .. 0 -> S]
    OBVIOUS
  <2>2. Recurs([i \in 0 .. 0 |-> first], first, step, 0)
    BY DEF Recurs
  <2>3. QED
    BY <2>1, <2>2
<1>2. ASSUME NEW k \in Nat, k \in T PROVE k + 1 \in T
  <2>1. PICK f \in [0 .. k -> S] : Recurs(f, first, step, k)
    BY <1>2
  <2> DEFINE g == [i \in 0 .. k + 1 |-> IF i = k + 1 THEN step[k + 1, f[k]] ELSE f[i]]
  <2>2. step[k + 1, f[k]] \in S
    <3>1. f[k] \in S /\ k + 1 \in Nat
      OBVIOUS
    <3>2. <<k + 1, f[k]>> \in Nat \X S
      BY <3>1
    <3>3. QED
      BY <3>2
  <2>3. g \in [0 .. k + 1 -> S]
    <3>1. ASSUME NEW i \in 0 .. k + 1, i # k + 1 PROVE i \in 0 .. k
      BY <3>1
    <3>2. QED
      BY <2>2, <3>1
  <2>4. g[k + 1] = step[k + 1, f[k]]
    <3>1. k + 1 \in 0 .. k + 1
      OBVIOUS
    <3>2. QED
      BY <3>1
  <2>5. ASSUME NEW i \in 0 .. k PROVE g[i] = f[i]
    <3>1. i \in 0 .. k + 1 /\ i # k + 1
      OBVIOUS
    <3>2. QED
      BY <3>1
  <2> HIDE DEF g
  <2>6. g[0] = first
    <3>1. 0 \in 0 .. k
      OBVIOUS
    <3>2. QED
      BY <2>1, <2>5, <3>1 DEF Recurs
  <2>7. ASSUME NEW i \in 1 .. k + 1 PROVE g[i] = step[i, g[i - 1]]
    <3>1. i - 1 \in 0 .. k
      OBVIOUS
    <3>2. CASE i = k + 1
      <4>1. i - 1 = k
        BY <3>2
      <4>2. g[k] = f[k]
        BY <2>5, <3>1, <4>1
      <4>3. QED
        BY <2>4, <3>2, <4>1, <4>2, Zenon
    <3>3. CASE i # k + 1
      <4>1. i \in 1 .. k
        BY <3>3
      <4>2. f[i] = step[i, f[i - 1]]
        BY <2>1, <4>1 DEF Recurs
      <4>3. g[i] = f[i] /\ g[i - 1] = f[i - 1]
        BY <2>5, <3>1, <4>1
      <4>4. QED
        BY <4>2, <4>3, Zenon
    <3>4. QED
      BY <3>2, <3>3
  <2>8. Recurs(g, first, step, k + 1)
    BY <2>6, <2>7 DEF Recurs
  <2>9. QED
    BY <2>3, <2>8
<1> HIDE DEF T
<1>3. Nat \subseteq T
  BY <1>1, <1>2, InductionOnNat
<1>4. QED
  BY <1>3 DEF T

Recursive(f, first, step) ==
  f = [n \in Nat |-> IF n = 0 THEN first ELSE step[n, f[n - 1]]]

(* A recursion over the natural numbers has a solution. *)
LEMMA RecursiveFunction ==
  ASSUME NEW S, NEW first \in S, NEW step \in [Nat \X S -> S]
  PROVE  \E f \in [Nat -> S] : Recursive(f, first, step)
<1> DEFINE upto(n) == CHOOSE f \in [0 .. n -> S] : Recurs(f, first, step, n)
           F == [n \in Nat |-> upto(n)[n]]
<1>1. ASSUME NEW n \in Nat
      PROVE  upto(n) \in [0 .. n -> S] /\ Recurs(upto(n), first, step, n)
  BY RecursUpTo
<1> HIDE DEF upto
<1>2. F \in [Nat -> S]
  <2>1. ASSUME NEW n \in Nat PROVE upto(n)[n] \in S
    <3>1. n \in 0 .. n
      OBVIOUS
    <3>2. QED
      BY <1>1, <3>1
  <2>2. QED
    BY <2>1
<1>3. ASSUME NEW n \in Nat
      PROVE  F[n] = IF n = 0 THEN first ELSE step[n, F[n - 1]]
  <2>1. CASE n = 0
    BY <1>1, <2>1 DEF Recurs
  <2>2. CASE n # 0
    <3>1. n - 1 \in Nat /\ n - 1 <= n /\ n \in 1 .. n
      BY <2>2
    <3>2. upto(n)[n] = step[n, upto(n)[n - 1]]
      BY <1>1, <3>1 DEF Recurs
    <3>3. upto(n)[n - 1] = upto(n - 1)[n - 1]
      BY <1>1, <3>1, RecursAgree
    <3>4. F[n] = upto(n)[n] /\ F[n - 1] = upto(n - 1)[n - 1]
      BY <3>1
    <3>5. QED
      BY <2>2, <3>2, <3>3, <3>4
  <2>3. QED
    BY <2>1, <2>2
<1> HIDE DEF F
<1>4. Recursive(F, first, step)
  BY <1>2, <1>3 DEF Recursive
<1>5. QED
  BY <1>2, <1>4
-------------------------------------------------------------------------------
(* Division *)

LEMMA Division ==
  ASSUME NEW n \in Nat, NEW b \in Nat \ {0}
  PROVE  /\ n \div b \in Nat
         /\ n % b \in 0 .. b - 1
         /\ n = (n \div b) * b + (n % b)
OBVIOUS

LEMMA Quotient ==
  ASSUME NEW n \in Nat, NEW b \in Nat \ {0}, NEW q \in Nat, NEW r \in 0 .. b - 1,
         n = q * b + r
  PROVE  n \div b = q
<1> DEFINE p == n \div b
           s == n % b
<1>1. p \in Nat /\ s \in 0 .. b - 1 /\ n = p * b + s
  BY Division
<1> HIDE DEF p, s
<1>2. (p - q) * b = r - s
  BY <1>1
<1>3. CASE p > q
  <2>1. (p - q) * b >= b
    BY <1>1, <1>3
  <2>2. QED
    BY <1>1, <1>2, <2>1
<1>4. CASE p < q
  <2>1. (q - p) * b >= b
    BY <1>1, <1>4
  <2>2. (q - p) * b = s - r
    BY <1>1, <1>2
  <2>3. QED
    BY <1>1, <2>1, <2>2
<1>5. p = q
  BY <1>1, <1>3, <1>4
<1>6. QED
  BY <1>5 DEF p

(* The digit at a place is what is left when the digits before it are taken *)
(* away.                                                                    *)
LEMMA DigitOf ==
  ASSUME NEW n \in Nat, NEW b \in Nat \ {0}, NEW p \in Nat \ {0}
  PROVE  n \div p = (n \div (b * p)) * b + ((n \div p) % b)
<1> DEFINE q == n \div p
           r == n % p
           u == q \div b
           v == q % b
<1>1. q \in Nat /\ r \in 0 .. p - 1 /\ n = q * p + r
  BY Division
<1>2. u \in Nat /\ v \in 0 .. b - 1 /\ q = u * b + v
  BY <1>1, Division
<1> HIDE DEF q, r, u, v
<1>3. n = u * (b * p) + (v * p + r)
  <2>1. (u * b + v) * p = u * (b * p) + v * p
    BY <1>2
  <2>2. QED
    BY <1>1, <1>2, <2>1
<1>4. v * p + r \in 0 .. b * p - 1
  <2>1. v * p <= (b - 1) * p
    BY <1>2
  <2>2. (b - 1) * p = b * p - p
    OBVIOUS
  <2>3. v * p \in Nat /\ b * p \in Nat
    BY <1>2
  <2>4. QED
    BY <1>1, <2>1, <2>2, <2>3
<1>5. b * p \in Nat \ {0}
  OBVIOUS
<1>6. n \div (b * p) = u
  BY <1>2, <1>3, <1>4, <1>5, Quotient
<1>7. QED
  BY <1>2, <1>6 DEF q, u, v

-------------------------------------------------------------------------------
(* Powers of the base, and how many digits a length has *)

LEMMA PowerRecursion ==
  /\ power \in [Nat -> Nat]
  /\ power[0] = 1
  /\ \A w \in Nat : power[w + 1] = Base * power[w]
<1> DEFINE step == [p \in Nat \X Nat |-> Base * p[2]]
<1>1. Base \in Nat
  BY FramingAssumption
<1>2. step \in [Nat \X Nat -> Nat]
  BY <1>1
<1>3. PICK f \in [Nat -> Nat] : Recursive(f, 1, step)
  <2>1. 1 \in Nat
    OBVIOUS
  <2> HIDE DEF step
  <2>2. QED
    BY <1>2, <2>1, RecursiveFunction
<1>4. f = [w \in Nat |-> IF w = 0 THEN 1 ELSE Base * f[w - 1]]
  <2>1. ASSUME NEW n \in Nat, n # 0 PROVE step[n, f[n - 1]] = Base * f[n - 1]
    <3>1. n - 1 \in Nat
      BY <2>1
    <3>2. <<n, f[n - 1]>> \in Nat \X Nat
      BY <3>1
    <3>3. QED
      BY <3>2
  <2> HIDE DEF step
  <2>2. QED
    BY <1>3, <2>1 DEF Recursive
<1> DEFINE Power(g) == g = [w \in Nat |-> IF w = 0 THEN 1 ELSE Base * g[w - 1]]
<1>5. Power(power)
  BY <1>4 DEF power
<1>6. power[0] = 1
  BY <1>5
<1>7. ASSUME NEW w \in Nat PROVE power[w + 1] = Base * power[w]
  <2>1. w + 1 \in Nat /\ w + 1 # 0 /\ (w + 1) - 1 = w
    OBVIOUS
  <2>2. QED
    BY <1>5, <2>1
<1>8. power \in [Nat -> Nat]
  <2> DEFINE T == {w \in Nat : power[w] \in Nat}
  <2>1. 0 \in T
    BY <1>6
  <2>2. ASSUME NEW w \in Nat, w \in T PROVE w + 1 \in T
    BY <1>1, <1>7, <2>2
  <2> HIDE DEF T
  <2>3. Nat \subseteq T
    BY <2>1, <2>2, InductionOnNat
  <2>4. \A w \in Nat : power[w] \in Nat
    BY <2>3 DEF T
  <2>5. QED
    BY <1>5, <2>4
<1>9. QED
  BY <1>6, <1>7, <1>8

LEMMA PowerExceeds ==
  ASSUME NEW n \in Nat
  PROVE  n < power[n]
<1> DEFINE T == {k \in Nat : k < power[k]}
<1>1. 0 \in T
  BY PowerRecursion
<1>2. ASSUME NEW k \in Nat, k \in T PROVE k + 1 \in T
  <2>1. power[k] \in Nat /\ power[k + 1] = Base * power[k] /\ k < power[k]
    BY <1>2, PowerRecursion
  <2>2. Base * power[k] >= 2 * power[k]
    BY <2>1, FramingAssumption
  <2>3. k + 1 < power[k + 1]
    <3>1. Base * power[k] \in Nat
      BY <2>1, FramingAssumption
    <3>2. QED
      BY <2>1, <2>2, <3>1
  <2>4. QED
    BY <2>3
<1> HIDE DEF T
<1>3. Nat \subseteq T
  BY <1>1, <1>2, InductionOnNat
<1>4. QED
  BY <1>3 DEF T

LEMMA PowerGrows ==
  ASSUME NEW u \in Nat, NEW v \in Nat, u <= v
  PROVE  power[u] <= power[v]
<1> DEFINE T == {k \in Nat : power[u] <= power[u + k]}
<1>1. 0 \in T
  BY PowerRecursion
<1>2. ASSUME NEW k \in Nat, k \in T PROVE k + 1 \in T
  <2>1. /\ power[u] \in Nat /\ power[u + k] \in Nat /\ power[u] <= power[u + k]
        /\ power[(u + k) + 1] = Base * power[u + k]
    BY <1>2, PowerRecursion
  <2>2. Base * power[u + k] >= power[u + k]
    BY <2>1, FramingAssumption
  <2>3. power[u] <= power[(u + k) + 1]
    BY <2>1, <2>2, FramingAssumption
  <2>4. (u + k) + 1 = u + (k + 1)
    OBVIOUS
  <2>5. QED
    BY <2>3, <2>4
<1> HIDE DEF T
<1>3. Nat \subseteq T
  BY <1>1, <1>2, InductionOnNat
<1>4. v - u \in T /\ u + (v - u) = v
  BY <1>3
<1>5. QED
  BY <1>4 DEF T

(* A length gets the digits it needs, and exactly Width if they suffice. *)
LEMMA WidthSuffices ==
  ASSUME NEW n \in Nat
  PROVE  /\ width(n) \in Nat /\ width(n) >= Width
         /\ n < power[width(n)]
         /\ width(n) = Width <=> n < power[Width]
<1> DEFINE T == {w \in Nat : Width <= w /\ n < power[w]}
           Fits(w) == n < power[w] /\ (w = Width \/ n >= power[w - 1])
<1>1. Width \in Nat \ {0}
  BY FramingAssumption
<1>2. Width + n \in T
  <2>1. n < power[n] /\ power[n] <= power[Width + n]
    BY <1>1, PowerExceeds, PowerGrows
  <2>2. power[n] \in Nat /\ power[Width + n] \in Nat
    BY <1>1, PowerRecursion
  <2>3. QED
    BY <1>1, <2>1, <2>2
<1>3. PICK w \in T : \A m \in T : w <= m
  <2>1. T \subseteq Nat /\ T # {}
    BY <1>2
  <2> HIDE DEF T
  <2>2. QED
    BY <2>1, LeastNat
<1>4. w \in Width .. Width + n /\ Fits(w)
  <2>1. w \in Width .. Width + n /\ n < power[w]
    BY <1>1, <1>2, <1>3
  <2>2. ASSUME w # Width PROVE n >= power[w - 1]
    <3>1. w - 1 \in Nat /\ w - 1 >= Width /\ w - 1 \notin T
      BY <1>1, <1>3, <2>2
    <3>2. power[w - 1] \in Nat
      BY <3>1, PowerRecursion
    <3>3. QED
      BY <3>1, <3>2
  <2>3. QED
    BY <2>1, <2>2
<1>5. width(n) \in Width .. Width + n /\ Fits(width(n))
  BY <1>4 DEF width
<1> HIDE DEF T
<1>6. width(n) = Width => n < power[Width]
  BY <1>5
<1>7. ASSUME n < power[Width] PROVE width(n) = Width
  <2> SUFFICES ASSUME width(n) # Width PROVE FALSE
    OBVIOUS
  <2>1. width(n) - 1 \in Nat /\ Width <= width(n) - 1
    BY <1>1, <1>5
  <2>2. power[Width] <= power[width(n) - 1] /\ n >= power[width(n) - 1]
    BY <1>1, <1>5, <2>1, PowerGrows
  <2>3. power[Width] \in Nat /\ power[width(n) - 1] \in Nat
    BY <1>1, <2>1, PowerRecursion
  <2>4. QED
    BY <1>7, <2>2, <2>3
<1>8. QED
  BY <1>1, <1>5, <1>6, <1>7
-------------------------------------------------------------------------------
(* stoi reads what Length writes *)

LEMMA LengthDigits ==
  ASSUME NEW n \in Nat
  PROVE  /\ Length(n) \in Seq(Digits)
         /\ Len(Length(n)) = width(n)
         /\ \A i \in 1 .. width(n) :
              Length(n)[i] = (n \div power[width(n) - i]) % Base
<1>1. width(n) \in Nat
  BY WidthSuffices
<1>2. ASSUME NEW i \in 1 .. width(n)
      PROVE  (n \div power[width(n) - i]) % Base \in Digits
  <2>1. width(n) - i \in Nat
    BY <1>1
  <2>2. power[width(n) - i] \in Nat \ {0}
    <3>1. width(n) - i < power[width(n) - i] /\ power[width(n) - i] \in Nat
      BY <2>1, PowerExceeds, PowerRecursion
    <3>2. QED
      BY <2>1, <3>1
  <2>3. n \div power[width(n) - i] \in Nat
    BY <2>2, Division
  <2>4. Base \in Nat \ {0}
    BY FramingAssumption
  <2>5. QED
    BY <2>3, <2>4, Division DEF Digits
<1>3. QED
  BY <1>1, <1>2 DEF Length

LEMMA AppendDigit ==
  ASSUME NEW u \in Nat, NEW v \in Nat
  PROVE  u * Base + v \in Nat
<1>1. Base \in Nat
  BY FramingAssumption
<1>2. u * Base \in Nat
  BY <1>1
<1>3. QED
  BY <1>2

LEMMA StoiRecursion ==
  ASSUME NEW d \in Seq(Digits)
  PROVE  \E g \in [0 .. Len(d) -> Nat] :
           /\ g[0] = 0
           /\ \A k \in 1 .. Len(d) : g[k] = g[k - 1] * Base + d[k]
           /\ stoi(d) = g[Len(d)]
<1> DEFINE Value(g) == g = [k \in 0 .. Len(d) |->
                             IF k = 0 THEN 0 ELSE g[k - 1] * Base + d[k]]
           step == [p \in Nat \X Nat |->
                     IF p[1] \in 1 .. Len(d) THEN p[2] * Base + d[p[1]] ELSE 0]
<1>1. /\ Base \in Nat /\ Len(d) \in Nat
      /\ \A i \in 1 .. Len(d) : d[i] \in Nat
  <2>1. \A i \in 1 .. Len(d) : d[i] \in Digits
    OBVIOUS
  <2>2. Digits \subseteq Nat
    BY FramingAssumption DEF Digits
  <2>3. Base \in Nat
    BY FramingAssumption
  <2>4. Len(d) \in Nat
    OBVIOUS
  <2>5. QED
    BY <2>1, <2>2, <2>3, <2>4, Zenon
<1>2. step \in [Nat \X Nat -> Nat]
  <2>1. ASSUME NEW p \in Nat \X Nat, p[1] \in 1 .. Len(d)
        PROVE  p[2] * Base + d[p[1]] \in Nat
    <3>1. p[2] \in Nat /\ d[p[1]] \in Nat
      BY <1>1, <2>1
    <3>2. QED
      BY <3>1, AppendDigit
  <2>2. QED
    BY <2>1
<1>3. ASSUME NEW k \in 1 .. Len(d), NEW v \in Nat
      PROVE  step[k, v] = v * Base + d[k]
  <2>1. <<k, v>> \in Nat \X Nat /\ <<k, v>>[1] = k /\ <<k, v>>[2] = v
    BY <1>1
  <2>2. QED
    BY <1>3, <2>1
<1> HIDE DEF step
<1>4. PICK f \in [Nat -> Nat] : Recursive(f, 0, step)
  <2>1. 0 \in Nat
    OBVIOUS
  <2>2. QED
    BY <1>2, <2>1, RecursiveFunction
<1> DEFINE h == [k \in 0 .. Len(d) |-> f[k]]
<1>5. h[0] = 0
  <2>1. f[0] = 0
    BY <1>4 DEF Recursive
  <2>2. 0 \in 0 .. Len(d)
    BY <1>1
  <2>3. QED
    BY <2>1, <2>2
<1>6. ASSUME NEW k \in 1 .. Len(d) PROVE h[k] = h[k - 1] * Base + d[k]
  <2>1. k \in Nat /\ k # 0 /\ k - 1 \in Nat /\ k \in 0 .. Len(d) /\ k - 1 \in 0 .. Len(d)
    BY <1>1, SMTT(30)
  <2>2. f[k] = step[k, f[k - 1]] /\ f[k - 1] \in Nat
    BY <1>4, <2>1 DEF Recursive
  <2>3. step[k, f[k - 1]] = f[k - 1] * Base + d[k]
    BY <1>3, <2>2
  <2>4. h[k] = f[k] /\ h[k - 1] = f[k - 1]
    BY <2>1
  <2>5. QED
    BY <2>2, <2>3, <2>4
<1>7. Value(h)
  <2>1. h = [k \in 0 .. Len(d) |-> h[k]]
    OBVIOUS
  <2> HIDE DEF h
  <2>2. \A k \in 0 .. Len(d) : h[k] = IF k = 0 THEN 0 ELSE h[k - 1] * Base + d[k]
    <3>1. ASSUME NEW k \in 0 .. Len(d), k # 0 PROVE k \in 1 .. Len(d)
      BY <1>1, <3>1
    <3>2. QED
      BY <1>5, <1>6, <3>1, Zenon
  <2>3. QED
    BY <2>1, <2>2, Zenon
<1> HIDE DEF h
<1>8. \E g : Value(g) /\ stoi(d) = g[Len(d)]
  BY <1>7 DEF stoi
<1>9. PICK g : Value(g) /\ stoi(d) = g[Len(d)]
  BY <1>8
<1>10. g[0] = 0
  BY <1>1, <1>9
<1>11. ASSUME NEW k \in 1 .. Len(d) PROVE g[k] = g[k - 1] * Base + d[k]
  <2>1. k # 0 /\ k \in 0 .. Len(d)
    OBVIOUS
  <2>2. QED
    BY <1>9, <2>1
<1>12. \A k \in Nat : k <= Len(d) => g[k] \in Nat
  <2> DEFINE T == {k \in Nat : k <= Len(d) => g[k] \in Nat}
  <2>1. 0 \in T
    BY <1>10
  <2>2. ASSUME NEW k \in Nat, k \in T PROVE k + 1 \in T
    <3>1. ASSUME k + 1 <= Len(d) PROVE g[k + 1] \in Nat
      <4>1. k + 1 \in 1 .. Len(d) /\ (k + 1) - 1 = k
        BY <3>1
      <4>2. g[k] \in Nat /\ d[k + 1] \in Nat
        <5>1. k <= Len(d)
          BY <1>1, <3>1
        <5>2. QED
          BY <1>1, <2>2, <4>1, <5>1
      <4>3. g[k + 1] = g[k] * Base + d[k + 1]
        BY <1>11, <4>1
      <4>4. QED
        BY <4>2, <4>3, AppendDigit
    <3>2. QED
      BY <3>1
  <2> HIDE DEF T
  <2>3. Nat \subseteq T
    BY <2>1, <2>2, InductionOnNat
  <2>4. QED
    BY <2>3 DEF T
<1>13. g \in [0 .. Len(d) -> Nat]
  <2>1. g = [k \in 0 .. Len(d) |-> g[k]]
    BY <1>9
  <2>2. \A k \in 0 .. Len(d) : g[k] \in Nat
    BY <1>1, <1>12
  <2>3. QED
    BY <2>1, <2>2
<1>14. QED
  BY <1>9, <1>10, <1>11, <1>13

(* The first digits of a length stand for what is left of it when the rest *)
(* is cut off.                                                             *)
LEMMA StoiOfLength ==
  ASSUME NEW n \in Nat, NEW k \in 0 .. width(n)
  PROVE  stoi(SubSeq(Length(n), 1, k)) = n \div power[width(n) - k]
<1> DEFINE w == width(n)
           d == SubSeq(Length(n), 1, k)
<1>1. w \in Nat /\ n < power[w]
  BY WidthSuffices
<1> HIDE DEF w
<1>2. /\ d \in Seq(Digits) /\ Len(d) = k
      /\ \A i \in 1 .. k : d[i] = (n \div power[w - i]) % Base
  <2>1. /\ Length(n) \in Seq(Digits) /\ Len(Length(n)) = w /\ k \in 0 .. w
        /\ \A i \in 1 .. w : Length(n)[i] = (n \div power[w - i]) % Base
    BY LengthDigits DEF w
  <2>2. d \in Seq(Digits) /\ Len(d) = k /\ \A i \in 1 .. k : d[i] = Length(n)[i]
    BY <1>1, <2>1
  <2>3. 1 .. k \subseteq 1 .. w
    BY <1>1, <2>1
  <2> HIDE DEF d
  <2>4. QED
    BY <2>1, <2>2, <2>3
<1> HIDE DEF d
<1>3. PICK g \in [0 .. Len(d) -> Nat] :
        /\ g[0] = 0
        /\ \A i \in 1 .. Len(d) : g[i] = g[i - 1] * Base + d[i]
        /\ stoi(d) = g[Len(d)]
  BY <1>2, StoiRecursion
<1> DEFINE T == {i \in Nat : i <= k => g[i] = n \div power[w - i]}
<1>4. 0 \in T
  <2>1. power[w] \in Nat
    BY <1>1, PowerRecursion
  <2>2. n \div power[w] = 0
    <3>1. power[w] \in Nat \ {0} /\ n \in 0 .. power[w] - 1 /\ n = 0 * power[w] + n
      BY <1>1, <2>1
    <3>2. QED
      BY <3>1, Quotient
  <2>3. w - 0 = w
    BY <1>1
  <2>4. QED
    BY <1>3, <2>2, <2>3
<1>5. ASSUME NEW i \in Nat, i \in T PROVE i + 1 \in T
  <2>1. ASSUME i + 1 <= k PROVE g[i + 1] = n \div power[w - (i + 1)]
    <3>1. i + 1 \in 1 .. k /\ (i + 1) - 1 = i
      BY <2>1
    <3>2. w - (i + 1) \in Nat /\ (w - (i + 1)) + 1 = w - i
      BY <1>1, <2>1 DEF w
    <3> DEFINE p == power[w - (i + 1)]
    <3>3. p \in Nat \ {0}
      <4>1. w - (i + 1) < p /\ p \in Nat
        BY <3>2, PowerExceeds, PowerRecursion
      <4>2. QED
        BY <3>2, <4>1
    <3>4. power[w - i] = Base * p
      BY <3>2, PowerRecursion
    <3>5. g[i] = n \div (Base * p)
      BY <1>5, <2>1, <3>4
    <3>6. g[i + 1] = g[i] * Base + d[i + 1] /\ d[i + 1] = (n \div p) % Base
      BY <1>2, <1>3, <3>1
    <3> HIDE DEF p
    <3>7. n \div p = (n \div (Base * p)) * Base + ((n \div p) % Base)
      <4>1. Base \in Nat \ {0}
        BY FramingAssumption
      <4>2. QED
        BY <3>3, <4>1, DigitOf
    <3>8. g[i + 1] = n \div p
      BY <3>5, <3>6, <3>7
    <3>9. QED
      BY <3>8 DEF p
  <2>2. QED
    BY <2>1
<1> HIDE DEF T
<1>6. Nat \subseteq T
  BY <1>4, <1>5, InductionOnNat
<1>7. k \in T /\ k \in Nat
  BY <1>1, <1>6 DEF w
<1>8. g[k] = n \div power[w - k]
  BY <1>7 DEF T
<1>9. QED
  BY <1>2, <1>3, <1>8 DEF w, d
-------------------------------------------------------------------------------
(* Sequences of bytes that are cut and put together *)

LEMMA ConcatRegroups ==
  \A s, t, u \in Seq(Bytes) : (s \o t) \o u = s \o (t \o u)
BY ConcatAssociative

LEMMA ConcatType ==
  ASSUME NEW X, NEW s \in Seq(X), NEW t \in Seq(X)
  PROVE  /\ s \o t \in Seq(X)
         /\ Len(s \o t) = Len(s) + Len(t)
         /\ \A i \in 1 .. Len(s) : (s \o t)[i] = s[i]
OBVIOUS

LEMMA SplitAt ==
  ASSUME NEW X, NEW s \in Seq(X), NEW n \in 0 .. Len(s)
  PROVE  /\ SubSeq(s, 1, n) \in Seq(X) /\ Len(SubSeq(s, 1, n)) = n
         /\ SubSeq(s, n + 1, Len(s)) \in Seq(X)
         /\ Len(SubSeq(s, n + 1, Len(s))) = Len(s) - n
         /\ SubSeq(s, 1, n) \o SubSeq(s, n + 1, Len(s)) = s
<1>1. SubSeq(s, 1, n) \in Seq(X) /\ Len(SubSeq(s, 1, n)) = n
  OBVIOUS
<1>2. /\ SubSeq(s, n + 1, Len(s)) \in Seq(X)
      /\ Len(SubSeq(s, n + 1, Len(s))) = Len(s) - n
  OBVIOUS
<1>3. SubSeq(s, 1, n) \o SubSeq(s, n + 1, Len(s)) = s
  <2>1. 1 \in 1 .. Len(s) + 1 /\ n \in 1 - 1 .. Len(s) /\ Len(s) \in n .. Len(s)
    OBVIOUS
  <2>2. SubSeq(s, 1, n) \o SubSeq(s, n + 1, Len(s)) = SubSeq(s, 1, Len(s))
    BY <2>1, ConcatAdjacentSubSeq
  <2>3. QED
    BY <2>2, SubSeqFull
<1>4. QED
  BY <1>1, <1>2, <1>3

LEMMA SubSeqAt ==
  ASSUME NEW s \in Seq(Bytes), NEW n \in Nat, NEW i \in 1 .. Len(s) - n
  PROVE  SubSeq(s, n + 1, Len(s))[i] = s[n + i]
OBVIOUS

(* s is the beginning of u, and t is what follows it in u and v. *)
Cuts(s, t, u, v) ==
  /\ s = SubSeq(u, 1, Len(s))
  /\ t = SubSeq(u, Len(s) + 1, Len(u)) \o v

(* What was read of a text that begins with u is the beginning of u, and   *)
(* the rest of u is still to come.                                         *)
LEMMA CutInside ==
  ASSUME NEW s \in Seq(Bytes), NEW t \in Seq(Bytes),
         NEW u \in Seq(Bytes), NEW v \in Seq(Bytes),
         s \o t = u \o v, Len(s) <= Len(u)
  PROVE  Cuts(s, t, u, v)
<1>1. ASSUME NEW i \in 1 .. Len(s) PROVE s[i] = u[i]
  <2>1. (s \o t)[i] = s[i] /\ (u \o v)[i] = u[i]
    OBVIOUS
  <2>2. QED
    BY <2>1
<1>2. s = SubSeq(u, 1, Len(s))
  BY <1>1
<1> DEFINE r == SubSeq(u, Len(s) + 1, Len(u))
<1>3. r \in Seq(Bytes) /\ s \o r = u
  BY <1>2, SplitAt
<1> HIDE DEF r
<1>4. r \o v \in Seq(Bytes)
  BY <1>3
<1>5. s \o t = s \o (r \o v)
  <2>1. (s \o r) \o v = s \o (r \o v)
    BY <1>3, ConcatRegroups, ZenonT(30)
  <2>2. QED
    BY <1>3, <2>1, Zenon
<1>6. t = r \o v
  BY <1>4, <1>5, ConcatSimplifications, Zenon
<1>7. QED
  BY <1>2, <1>6 DEF r, Cuts

-------------------------------------------------------------------------------
(* Frames *)

(* What the receiver reads first of the frame of a string, and the rest. *)
Prefix(s) == SubSeq(Frame(s), 1, Width)
Rest(s)   == SubSeq(Frame(s), Width + 1, Len(Frame(s)))

LEMMA FrameParts ==
  ASSUME NEW s \in Strings
  PROVE  LET d == Length(Len(s) + 1)
             t == s \o <<Newline>>
         IN  /\ d \in Seq(Digits) /\ d \in Seq(Bytes)
             /\ Len(d) = width(Len(s) + 1) /\ Len(d) >= Width
             /\ t \in Seq(Bytes) /\ Len(t) = Len(s) + 1
             /\ Frame(s) \in Seq(Bytes) /\ Frame(s) = d \o t
             /\ Len(Frame(s)) = Len(d) + Len(t)
             /\ Frame(s) # << >>
<1> DEFINE d == Length(Len(s) + 1)
           t == s \o <<Newline>>
<1>1. s \in Seq(Bytes) /\ Newline \in Bytes /\ Digits \subseteq Bytes
  BY FramingAssumption DEF Bytes
<1>2. Len(s) + 1 \in Nat
  BY <1>1
<1>3. d \in Seq(Digits) /\ Len(d) = width(Len(s) + 1) /\ Len(d) >= Width
  BY <1>2, LengthDigits, WidthSuffices
<1>4. t \in Seq(Bytes) /\ Len(t) = Len(s) + 1
  BY <1>1
<1>5. Frame(s) = d \o t
  <2>1. Frame(s) = (d \o s) \o <<Newline>>
    BY DEF Frame
  <2> HIDE DEF d
  <2>2. d \in Seq(Bytes)
    BY <1>1, <1>3
  <2>3. <<Newline>> \in Seq(Bytes)
    BY <1>1
  <2>4. QED
    BY <1>1, <2>1, <2>2, <2>3, ConcatRegroups
<1> HIDE DEF d, t
<1>6. d \in Seq(Bytes)
  BY <1>1, <1>3
<1>7. /\ Frame(s) \in Seq(Bytes) /\ Len(Frame(s)) = Len(d) + Len(t)
  BY <1>4, <1>5, <1>6, ConcatType
<1>8. Frame(s) # << >>
  <2>1. Len(Frame(s)) > 0
    BY <1>1, <1>3, <1>4, <1>6, <1>7
  <2>2. QED
    BY <2>1
<1>9. QED
  BY <1>3, <1>4, <1>5, <1>6, <1>7, <1>8 DEF d, t

LEMMA FrameIsCut ==
  ASSUME NEW s \in Strings
  PROVE  /\ Prefix(s) \in Seq(Bytes) /\ Len(Prefix(s)) = Width
         /\ ensure_valid_string(Prefix(s))
         /\ Prefix(s) = SubSeq(Length(Len(s) + 1), 1, Width)
         /\ Rest(s) \in Seq(Bytes) /\ Len(Rest(s)) = Len(Frame(s)) - Width
         /\ Prefix(s) \o Rest(s) = Frame(s)
<1> DEFINE d == Length(Len(s) + 1)
           t == s \o <<Newline>>
           f == Frame(s)
<1>1. /\ d \in Seq(Digits) /\ d \in Seq(Bytes) /\ Len(d) >= Width
      /\ t \in Seq(Bytes) /\ Len(t) \in Nat
      /\ f \in Seq(Bytes) /\ f = d \o t /\ Len(f) = Len(d) + Len(t)
  <2>1. \A x \in Seq(Bytes) : Len(x) \in Nat
    OBVIOUS
  <2> HIDE DEF d, t, f
  <2>2. QED
    BY FrameParts, <2>1 DEF d, t, f
<1> HIDE DEF d, t, f
<1>2. Width \in Nat /\ Width \in 0 .. Len(f) /\ Len(d) \in Nat
  BY <1>1, FramingAssumption
<1>3. /\ SubSeq(f, 1, Width) \in Seq(Bytes) /\ Len(SubSeq(f, 1, Width)) = Width
      /\ SubSeq(f, Width + 1, Len(f)) \in Seq(Bytes)
      /\ Len(SubSeq(f, Width + 1, Len(f))) = Len(f) - Width
      /\ SubSeq(f, 1, Width) \o SubSeq(f, Width + 1, Len(f)) = f
  BY <1>1, <1>2, SplitAt
<1>4. \A i \in 1 .. Width : SubSeq(f, 1, Width)[i] = d[i] /\ d[i] \in Digits
  <2> SUFFICES ASSUME NEW i \in 1 .. Width
               PROVE  SubSeq(f, 1, Width)[i] = d[i] /\ d[i] \in Digits
    OBVIOUS
  <2>1. i \in 1 .. Len(d)
    BY <1>1, <1>2
  <2>2. d[i] \in Digits
    BY <1>1, <2>1
  <2>3. f[i] = d[i]
    BY <1>1, <2>1, ConcatType
  <2>4. SubSeq(f, 1, Width)[i] = f[i]
    BY <1>1, <1>2
  <2>5. QED
    BY <2>2, <2>3, <2>4
<1>5. SubSeq(f, 1, Width) = SubSeq(d, 1, Width)
  <2>1. SubSeq(d, 1, Width) \in Seq(Bytes) /\ Len(SubSeq(d, 1, Width)) = Width
    BY <1>1, <1>2
  <2>2. \A i \in 1 .. Width : SubSeq(d, 1, Width)[i] = d[i]
    BY <1>1, <1>2
  <2>3. QED
    BY <1>3, <1>4, <2>1, <2>2, SeqEqual
<1>6. ensure_valid_string(SubSeq(f, 1, Width))
  BY <1>3, <1>4 DEF ensure_valid_string
<1>7. QED
  BY <1>3, <1>5, <1>6 DEF d, f, Prefix, Rest
(* A frame with a length of four digits is what receive expects. *)
LEMMA FittingFrame ==
  ASSUME NEW s \in Strings, ~TooLong(s)
  PROVE  stoi(Prefix(s)) = Len(s) + 1 /\ Rest(s) = s \o <<Newline>>
<1> DEFINE n == Len(s) + 1
           d == Length(n)
           t == s \o <<Newline>>
<1>1. n \in Nat /\ Width \in Nat
  <2>1. s \in Seq(Bytes)
    BY FramingAssumption
  <2>2. QED
    BY <2>1, FramingAssumption
<1>2. n < power[Width]
  <2>1. power[Width] \in Nat
    BY <1>1, PowerRecursion
  <2>2. ~ (n >= power[Width])
    BY DEF TooLong
  <2> HIDE DEF n
  <2>3. QED
    BY <1>1, <2>1, <2>2
<1>3. /\ d \in Seq(Bytes) /\ t \in Seq(Bytes) /\ Len(d) = width(n)
      /\ Frame(s) = d \o t
  BY FrameParts
<1>4. /\ Prefix(s) \in Seq(Bytes) /\ Len(Prefix(s)) = Width
      /\ Prefix(s) = SubSeq(d, 1, Width)
      /\ Rest(s) \in Seq(Bytes) /\ Prefix(s) \o Rest(s) = Frame(s)
  BY FrameIsCut
<1> HIDE DEF n, d, t
<1>5. width(n) = Width
  BY <1>1, <1>2, WidthSuffices
<1>6. stoi(Prefix(s)) = n
  <2>1. Width \in 0 .. width(n) /\ width(n) - Width = 0
    BY <1>1, <1>5
  <2>2. stoi(SubSeq(d, 1, Width)) = n \div power[0]
    BY <1>1, <2>1, StoiOfLength DEF d
  <2>3. n \div 1 = n
    BY <1>1
  <2>4. QED
    BY <1>4, <2>2, <2>3, PowerRecursion
<1>7. Rest(s) = SubSeq(d, Width + 1, Width) \o t
  <2>1. Prefix(s) \o Rest(s) = d \o t /\ Len(Prefix(s)) <= Len(d)
    BY <1>1, <1>3, <1>4, <1>5, SMTT(30)
  <2>2. Cuts(Prefix(s), Rest(s), d, t)
    BY <1>3, <1>4, <2>1, CutInside, Zenon
  <2>3. Rest(s) = SubSeq(d, Len(Prefix(s)) + 1, Len(d)) \o t
    BY <2>2, Zenon DEF Cuts
  <2>4. QED
    BY <1>3, <1>4, <1>5, <2>3, Zenon
<1>8. SubSeq(d, Width + 1, Width) = << >>
  BY <1>1, SubSeqEmpty
<1>9. QED
  BY <1>3, <1>6, <1>7, <1>8, ConcatEmptySeq DEF n, t

(* Of a string that does not fit, receive reads a length that ends before   *)
(* the newline does.                                                       *)
LEMMA LongFrame ==
  ASSUME NEW s \in Strings, TooLong(s),
         \A i \in 1 .. Len(s) : s[i] # Newline
  PROVE  /\ stoi(Prefix(s)) \in Nat
         /\ stoi(Prefix(s)) < Len(Rest(s))
         /\ \A i \in 1 .. stoi(Prefix(s)) : Rest(s)[i] # Newline
<1> DEFINE n == Len(s) + 1
           d == Length(n)
           t == s \o <<Newline>>
           f == Frame(s)
<1>1. n \in Nat /\ Width \in Nat /\ s \in Seq(Bytes)
  <2>1. s \in Seq(Bytes)
    BY FramingAssumption
  <2>2. QED
    BY <2>1, FramingAssumption
<1>2. power[Width] \in Nat /\ n >= power[Width]
  BY <1>1, PowerRecursion DEF TooLong
<1>3. /\ d \in Seq(Digits) /\ d \in Seq(Bytes) /\ t \in Seq(Bytes) /\ Len(d) = width(n)
      /\ f = d \o t /\ f \in Seq(Bytes) /\ Len(f) = Len(d) + Len(t) /\ Len(t) = n
  BY FrameParts
<1>4. /\ Prefix(s) = SubSeq(d, 1, Width)
      /\ Rest(s) = SubSeq(f, Width + 1, Len(f)) /\ Len(Rest(s)) = Len(f) - Width
  BY FrameIsCut DEF Rest
<1>5. ASSUME NEW i \in 1 .. n - 1 PROVE t[i] # Newline
  <2>1. i \in 1 .. Len(s)
    BY <1>1
  <2>2. t[i] = s[i]
    BY <1>1, <2>1
  <2>3. QED
    BY <2>1, <2>2
<1> HIDE DEF n, d, t, f
<1>6. width(n) \in Nat /\ width(n) > Width
  <2>1. ~ (n < power[Width])
    BY <1>1, <1>2
  <2>2. width(n) \in Nat /\ width(n) >= Width /\ width(n) # Width
    BY <1>1, <2>1, WidthSuffices
  <2>3. QED
    BY <1>1, <2>2
<1>7. stoi(Prefix(s)) \in Nat /\ stoi(Prefix(s)) <= n
  <2> DEFINE p == power[width(n) - Width]
  <2>1. Width \in 0 .. width(n) /\ width(n) - Width \in Nat
    BY <1>1, <1>6
  <2>2. stoi(Prefix(s)) = n \div p
    BY <1>1, <1>4, <2>1, StoiOfLength DEF d
  <2>3. p \in Nat \ {0}
    <3>1. width(n) - Width < p /\ p \in Nat
      BY <2>1, PowerExceeds, PowerRecursion
    <3>2. QED
      BY <2>1, <3>1
  <2> HIDE DEF p
  <2>4. /\ n \div p \in Nat /\ n % p \in Nat
        /\ n = (n \div p) * p + (n % p)
    <3>1. n \div p \in Nat /\ n % p \in 0 .. p - 1 /\ n = (n \div p) * p + (n % p)
      BY <1>1, <2>3, Division
    <3>2. n % p \in Nat
      BY <2>3, <3>1
    <3>3. QED
      BY <3>1, <3>2
  <2> DEFINE q == n \div p
             r == n % p
  <2>5. q \in Nat /\ r \in Nat /\ n = q * p + r
    BY <2>4
  <2> HIDE DEF q, r
  <2>6. q * p >= q
    BY <2>3, <2>5
  <2>7. q * p \in Nat
    BY <2>3, <2>5
  <2>8. q <= n
    BY <2>5, <2>6, <2>7
  <2>9. QED
    BY <2>2, <2>5, <2>8 DEF q
<1>8. stoi(Prefix(s)) < Len(Rest(s))
  BY <1>1, <1>3, <1>4, <1>6, <1>7, SMTT(30)
<1>9. ASSUME NEW j \in 1 .. Len(f) - 1 PROVE f[j] # Newline
  <2>1. Len(d) \in Nat /\ Len(t) = n /\ Len(f) = Len(d) + n
    BY <1>3
  <2>2. CASE j <= Len(d)
    <3>1. j \in 1 .. Len(d)
      BY <1>1, <2>1, <2>2
    <3>2. f[j] = d[j] /\ d[j] \in Digits
      BY <1>3, <3>1
    <3>3. QED
      BY <3>2, FramingAssumption
  <2>3. CASE j > Len(d)
    <3>1. j - Len(d) \in 1 .. n - 1 /\ j \in 1 .. Len(d) + Len(t)
      BY <1>1, <2>1, <2>3
    <3>2. f[j] = t[j - Len(d)]
      BY <1>3, <2>3, <2>1, <3>1, ConcatProperties
    <3>3. QED
      BY <1>5, <3>1, <3>2
  <2>4. QED
    BY <2>1, <2>2, <2>3
<1>10. ASSUME NEW i \in 1 .. stoi(Prefix(s)) PROVE Rest(s)[i] # Newline
  <2>1. Len(f) \in Nat
    BY <1>3
  <2>2. Width + i \in 1 .. Len(f) - 1 /\ i \in 1 .. Len(f) - Width
    BY <1>1, <1>4, <1>7, <1>8, <2>1
  <2>3. Rest(s)[i] = f[Width + i]
    <3>1. SubSeq(f, Width + 1, Len(f))[i] = f[Width + i]
      BY <1>1, <1>3, <2>1, <2>2, SubSeqAt
    <3>2. QED
      BY <1>4, <3>1
  <2>4. QED
    BY <1>9, <2>2, <2>3
<1>11. QED
  BY <1>7, <1>8, <1>10
-------------------------------------------------------------------------------
(* Types *)

LEMMA StoiType ==
  ASSUME NEW d \in Seq(Bytes), ensure_valid_string(d)
  PROVE  stoi(d) \in Nat
<1>1. d \in Seq(Digits)
  <2>1. \A i \in 1 .. Len(d) : d[i] \in Digits
    BY DEF ensure_valid_string
  <2>2. QED
    BY <2>1
<1>2. PICK g \in [0 .. Len(d) -> Nat] : stoi(d) = g[Len(d)]
  BY <1>1, StoiRecursion
<1>3. Len(d) \in 0 .. Len(d)
  BY <1>1
<1>4. QED
  BY <1>2, <1>3

(* The bytes that write or read moves: the first n of one sequence go to   *)
(* the end of another.                                                     *)
LEMMA MoveBytes ==
  ASSUME NEW s \in Seq(Bytes), NEW t \in Seq(Bytes), NEW n \in 0 .. Len(t)
  PROVE  /\ s \o SubSeq(t, 1, n) \in Seq(Bytes)
         /\ Len(s \o SubSeq(t, 1, n)) = Len(s) + n
         /\ SubSeq(t, n + 1, Len(t)) \in Seq(Bytes)
         /\ Len(SubSeq(t, n + 1, Len(t))) = Len(t) - n
         /\ (s \o SubSeq(t, 1, n)) \o SubSeq(t, n + 1, Len(t)) = s \o t
<1> DEFINE h == SubSeq(t, 1, n)
           r == SubSeq(t, n + 1, Len(t))
<1>1. /\ h \in Seq(Bytes) /\ Len(h) = n /\ r \in Seq(Bytes) /\ Len(r) = Len(t) - n
      /\ h \o r = t
  BY SplitAt
<1> HIDE DEF h, r
<1>2. s \o h \in Seq(Bytes) /\ Len(s \o h) = Len(s) + n
  BY <1>1, ConcatType
<1>3. (s \o h) \o r = s \o (h \o r)
  BY <1>1, ConcatRegroups, ZenonT(30)
<1>4. QED
  BY <1>1, <1>2, <1>3 DEF h, r

LEMMA TypeInit == Init => TypeOK
<1> SUFFICES ASSUME Init PROVE TypeOK
  OBVIOUS
<1>1. << >> \in Seq(Bytes) /\ << >> \in Seq(Strings) /\ << >> \in Seq(Seq(Bytes))
  OBVIOUS
<1>2. Len(<< >>) <= Capacity /\ Len(<< >>) <= Width /\ Width \in Nat \ {0}
  BY FramingAssumption
<1>3. QED
  BY <1>1, <1>2 DEF Init, TypeOK

LEMMA TypeWrite ==
  ASSUME TypeOK, write PROVE TypeOK'
<1>1. PICK n \in 1 .. Len(outgoing) :
        /\ Len(stream) + n <= Capacity
        /\ stream' = stream \o SubSeq(outgoing, 1, n)
        /\ outgoing' = SubSeq(outgoing, n + 1, Len(outgoing))
        /\ sender' = IF n = Len(outgoing) THEN "idle" ELSE "sending"
  BY DEF write
<1>2. /\ outgoing \in Seq(Bytes) /\ stream \in Seq(Bytes) /\ n \in 0 .. Len(outgoing)
      /\ Len(outgoing) \in Nat
  BY DEF TypeOK
<1>3. /\ stream' \in Seq(Bytes) /\ Len(stream') = Len(stream) + n
      /\ outgoing' \in Seq(Bytes) /\ Len(outgoing') = Len(outgoing) - n
  BY <1>1, <1>2, MoveBytes
<1>4. sender' \in {"idle", "sending", "closed"}
  BY <1>1
<1>5. (sender' = "sending") = (outgoing' # << >>)
  <2>1. outgoing' = << >> <=> Len(outgoing') = 0
    BY <1>3, EmptySeq
  <2>2. outgoing' = << >> <=> n = Len(outgoing)
    BY <1>2, <1>3, <2>1
  <2>3. QED
    BY <1>1, <2>2
<1>6. /\ UNCHANGED <<reader, buffer, wanted, sent, received>>
  BY DEF write
<1>7. QED
  BY <1>1, <1>3, <1>4, <1>5, <1>6 DEF TypeOK

LEMMA TypeRead ==
  ASSUME TypeOK, read PROVE TypeOK'
<1>1. PICK n \in 1 .. wanted - Len(buffer) :
        /\ n <= Len(stream)
        /\ buffer' = buffer \o SubSeq(stream, 1, n)
        /\ stream' = SubSeq(stream, n + 1, Len(stream))
  BY DEF read
<1>2. /\ buffer \in Seq(Bytes) /\ stream \in Seq(Bytes) /\ n \in 0 .. Len(stream)
      /\ Len(buffer) \in Nat /\ Len(stream) \in Nat /\ Len(stream) <= Capacity
      /\ wanted \in Nat /\ n \in Nat /\ n <= wanted - Len(buffer)
  <2>1. /\ buffer \in Seq(Bytes) /\ stream \in Seq(Bytes) /\ wanted \in Nat
        /\ Len(stream) <= Capacity
    BY DEF TypeOK
  <2>2. Len(buffer) \in Nat /\ Len(stream) \in Nat
    BY <2>1
  <2>3. QED
    BY <1>1, <2>1, <2>2
<1>3. /\ buffer' \in Seq(Bytes) /\ Len(buffer') = Len(buffer) + n
      /\ stream' \in Seq(Bytes) /\ Len(stream') = Len(stream) - n
  BY <1>1, <1>2, MoveBytes
<1>4. Len(buffer') <= wanted /\ Len(stream') <= Capacity
  BY <1>2, <1>3, FramingAssumption
<1>5. UNCHANGED <<sender, outgoing, reader, wanted, sent, received>>
  BY DEF read
<1>6. QED
  BY <1>3, <1>4, <1>5 DEF TypeOK

LEMMA TypeStep == TypeOK /\ [Next]_vars => TypeOK'
<1> SUFFICES ASSUME TypeOK, [Next]_vars PROVE TypeOK'
  OBVIOUS
<1>1. ASSUME NEW s \in Strings, send(s) PROVE TypeOK'
  <2>1. outgoing' \in Seq(Bytes) /\ outgoing' # << >>
    BY <1>1, FrameParts DEF send
  <2>2. sent' \in Seq(Strings)
    <3>1. sent \in Seq(Strings) /\ sent' = Append(sent, s)
      BY <1>1 DEF TypeOK, send
    <3>2. QED
      BY <3>1, AppendProperties
  <2>3. sender' = "sending" /\ UNCHANGED <<stream, reader, buffer, wanted, received>>
    BY <1>1 DEF send
  <2>4. QED
    BY <2>1, <2>2, <2>3 DEF TypeOK
<1>2. CASE write
  BY <1>2, TypeWrite
<1>3. CASE sender_closes
  <2>1. << >> \in Seq(Bytes)
    OBVIOUS
  <2>2. QED
    BY <1>3, <2>1 DEF TypeOK, sender_closes
<1>4. CASE read
  BY <1>4, TypeRead
<1>5. CASE Throw
  BY <1>5 DEF TypeOK, Throw
<1>6. CASE accept_length
  <2>1. buffer \in Seq(Bytes) /\ stoi(buffer) >= 1 /\ ensure_valid_string(buffer)
    BY <1>6 DEF TypeOK, accept_length, ValidLength
  <2>2. wanted' = stoi(buffer) /\ wanted' \in Nat \ {0}
    BY <1>6, <2>1, StoiType DEF accept_length
  <2>3. buffer' = << >> /\ buffer' \in Seq(Bytes) /\ Len(buffer') = 0
    BY <1>6 DEF accept_length
  <2>4. reader' = "body" /\ UNCHANGED <<sender, outgoing, stream, sent, received>>
    BY <1>6 DEF accept_length
  <2>5. Len(buffer') <= wanted'
    BY <2>2, <2>3
  <2>6. QED
    BY <2>2, <2>3, <2>4, <2>5 DEF TypeOK
<1>7. CASE return_string
  <2>1. Front(buffer) \in Seq(Bytes)
    <3>1. buffer \in Seq(Bytes) /\ Len(buffer) = wanted /\ wanted \in Nat \ {0}
      BY <1>7 DEF TypeOK, return_string, BodyRead
    <3>2. Len(buffer) - 1 \in 0 .. Len(buffer)
      BY <3>1
    <3>3. QED
      BY <3>1, <3>2, SplitAt DEF Front
  <2>2. received \in Seq(Seq(Bytes)) /\ received' = Append(received, Front(buffer))
    BY <1>7 DEF TypeOK, return_string
  <2>3. received' \in Seq(Seq(Bytes))
    BY <2>1, <2>2, AppendProperties
  <2>4. /\ reader' = "length" /\ wanted' = Width /\ buffer' = << >>
        /\ UNCHANGED <<sender, outgoing, stream, sent>>
    BY <1>7 DEF return_string
  <2>5. /\ Width \in Nat \ {0} /\ << >> \in Seq(Bytes) /\ Len(<< >>) <= Width
    BY FramingAssumption
  <2>6. QED
    BY <2>3, <2>4, <2>5 DEF TypeOK
<1>8. CASE reader_closes
  BY <1>8 DEF TypeOK, reader_closes
<1>9. CASE UNCHANGED vars
  BY <1>9 DEF TypeOK, vars
<1>10. QED
  BY <1>1, <1>2, <1>3, <1>4, <1>5, <1>6, <1>7, <1>8, <1>9
     DEF Next, receive, read_ends, refuse

(* put_to_buffer never writes past the end of its buffer, however the      *)
(* bytes come in, and the length it is given is at least one.              *)
THEOREM FramingTypeCorrect == Spec => []TypeOK
BY TypeInit, TypeStep, PTL DEF Spec
-------------------------------------------------------------------------------
(* What is on the way *)

(* rest[i] are the frames of the strings from the i-th on. *)
Framed(rest) ==
  /\ rest \in [1 .. Len(sent) + 1 -> Seq(Bytes)]
  /\ rest[Len(sent) + 1] = << >>
  /\ \A i \in 1 .. Len(sent) : rest[i] = Frame(sent[i]) \o rest[i + 1]

(* The number of the string that receive is reading or waits for. *)
Due == Len(received) + 1

(* The bytes from the first one of the buffer on, with those that got lost *)
(* when the sender went away.                                              *)
Coming(lost) == buffer \o (stream \o (outgoing \o lost))

Arrives(rest, lost) ==
  /\ Framed(rest)
  /\ lost \in Seq(Bytes) /\ (sender # "closed" => lost = << >>)
  /\ reader = "length" => Coming(lost) = rest[Due]
  /\ reader = "body" => Coming(lost) = Rest(sent[Due]) \o rest[Due + 1]

InOrder == \E rest, lost : Arrives(rest, lost)

(* receive waits for a length, or for as many bytes as it has read from    *)
(* the frame of the next string.                                           *)
AtBoundary ==
  /\ Len(received) <= Len(sent)
  /\ reader = "length" => wanted = Width
  /\ reader = "body" =>
       /\ Len(received) < Len(sent)
       /\ wanted = stoi(Prefix(sent[Due]))

FramingInv == InOrder /\ AtBoundary /\ FailsForCause

LEMMA FramingInit == Init => FramingInv
<1> SUFFICES ASSUME Init PROVE FramingInv
  OBVIOUS
<1> DEFINE rest == [i \in 1 .. 1 |-> << >>]
<1>1. /\ sent = << >> /\ received = << >> /\ buffer = << >> /\ stream = << >>
      /\ outgoing = << >> /\ reader = "length" /\ wanted = Width
  BY DEF Init
<1>2. Len(sent) = 0 /\ Len(received) = 0 /\ Due = 1
  BY <1>1 DEF Due
<1>3. << >> \in Seq(Bytes) /\ << >> \o << >> = << >>
  OBVIOUS
<1>4. Framed(rest)
  <2>1. rest \in [1 .. 1 -> Seq(Bytes)] /\ rest[1] = << >>
    BY <1>3
  <2>2. Len(sent) + 1 = 1 /\ 1 .. Len(sent) = {}
    BY <1>2
  <2> HIDE DEF rest
  <2>3. QED
    BY <2>1, <2>2 DEF Framed
<1>5. rest[1] = << >>
  OBVIOUS
<1>6. Coming(<< >>) = << >>
  BY <1>1, <1>3, Zenon DEF Coming
<1> HIDE DEF rest
<1>7. Arrives(rest, << >>)
  BY <1>1, <1>2, <1>3, <1>4, <1>5, <1>6 DEF Arrives
<1>8. QED
  BY <1>1, <1>2, <1>7 DEF FramingInv, InOrder, AtBoundary, FailsForCause

(* In a step that only moves bytes, the same bytes are still to come. *)
LEMMA OnlyMoves ==
  ASSUME FramingInv, UNCHANGED <<reader, wanted, sent, received>>,
         sender = "closed" => sender' = "closed",
         \A lost \in Seq(Bytes) : (sender # "closed" => lost = << >>) =>
           \E next \in Seq(Bytes) :
             /\ sender' # "closed" => next = << >>
             /\ Coming(next)' = Coming(lost)
  PROVE  FramingInv'
<1>1. PICK rest, lost : Arrives(rest, lost)
  BY DEF FramingInv, InOrder
<1>2. PICK next \in Seq(Bytes) : /\ sender' # "closed" => next = << >>
                                 /\ Coming(next)' = Coming(lost)
  BY <1>1 DEF Arrives
<1>3. Due' = Due
  BY DEF Due
<1>4. Framed(rest)'
  BY <1>1 DEF Arrives, Framed
<1>5. Arrives(rest, next)'
  <2>1. (reader = "length") => (Coming(lost) = rest[Due])
    BY <1>1 DEF Arrives
  <2>2. (reader = "body") => (Coming(lost) = Rest(sent[Due]) \o rest[Due + 1])
    BY <1>1 DEF Arrives
  <2>3. (reader' = "length") => (Coming(next)' = rest[Due'])
    BY <1>2, <1>3, <2>1
  <2>4. (reader' = "body") => (Coming(next)' = Rest(sent'[Due']) \o rest[Due' + 1])
    BY <1>2, <1>3, <2>2
  <2>5. QED
    BY <1>2, <1>4, <2>3, <2>4 DEF Arrives
<1>6. AtBoundary'
  BY <1>3 DEF FramingInv, AtBoundary
<1>7. FailsForCause'
  BY DEF FramingInv, FailsForCause
<1>8. QED
  BY <1>5, <1>6, <1>7 DEF FramingInv, InOrder

(* The first bytes of t go to the end of s, whatever follows. *)
LEMMA MoveAhead ==
  ASSUME NEW s \in Seq(Bytes), NEW t \in Seq(Bytes), NEW x \in Seq(Bytes),
         NEW n \in 0 .. Len(t)
  PROVE  (s \o SubSeq(t, 1, n)) \o (SubSeq(t, n + 1, Len(t)) \o x) = s \o (t \o x)
<1> DEFINE h == s \o SubSeq(t, 1, n)
           r == SubSeq(t, n + 1, Len(t))
<1>1. h \in Seq(Bytes) /\ r \in Seq(Bytes) /\ h \o r = s \o t
  BY MoveBytes
<1> HIDE DEF h, r
<1>2. h \o (r \o x) = (h \o r) \o x
  BY <1>1, ConcatRegroups, ZenonT(30)
<1>3. (s \o t) \o x = s \o (t \o x)
  BY ConcatRegroups
<1>4. QED
  BY <1>1, <1>2, <1>3, Zenon DEF h, r

LEMMA InvWrite ==
  ASSUME TypeOK, FramingInv, write PROVE FramingInv'
<1>1. PICK n \in 1 .. Len(outgoing) :
        /\ stream' = stream \o SubSeq(outgoing, 1, n)
        /\ outgoing' = SubSeq(outgoing, n + 1, Len(outgoing))
  BY DEF write
<1>2. /\ outgoing \in Seq(Bytes) /\ stream \in Seq(Bytes) /\ n \in 0 .. Len(outgoing)
      /\ sender = "sending" /\ sender' # "closed"
      /\ UNCHANGED <<reader, buffer, wanted, sent, received>>
  BY DEF TypeOK, write
<1>3. ASSUME NEW lost \in Seq(Bytes) PROVE Coming(lost)' = Coming(lost)
  <2>1. stream' \o (outgoing' \o lost) = stream \o (outgoing \o lost)
    BY <1>1, <1>2, MoveAhead
  <2>2. QED
    BY <1>2, <2>1 DEF Coming
<1>4. QED
  BY <1>2, <1>3, OnlyMoves

LEMMA InvRead ==
  ASSUME TypeOK, FramingInv, read PROVE FramingInv'
<1>1. PICK n \in 1 .. wanted - Len(buffer) :
        /\ n <= Len(stream)
        /\ buffer' = buffer \o SubSeq(stream, 1, n)
        /\ stream' = SubSeq(stream, n + 1, Len(stream))
  BY DEF read
<1>2. /\ buffer \in Seq(Bytes) /\ stream \in Seq(Bytes) /\ outgoing \in Seq(Bytes)
      /\ UNCHANGED <<sender, outgoing, reader, wanted, sent, received>>
  BY DEF TypeOK, read
<1>3. n \in 0 .. Len(stream)
  <2>1. wanted \in Nat /\ Len(buffer) \in Nat /\ Len(stream) \in Nat
    BY <1>2 DEF TypeOK
  <2>2. QED
    BY <1>1, <2>1
<1>4. ASSUME NEW lost \in Seq(Bytes) PROVE Coming(lost)' = Coming(lost)
  <2>1. outgoing \o lost \in Seq(Bytes)
    BY <1>2, ConcatType
  <2>2. buffer' \o (stream' \o (outgoing \o lost)) = buffer \o (stream \o (outgoing \o lost))
    BY <1>1, <1>2, <1>3, <2>1, MoveAhead, ZenonT(30)
  <2>3. QED
    BY <1>2, <2>2 DEF Coming
<1>5. QED
  BY <1>2, <1>4, OnlyMoves

LEMMA InvSenderCloses ==
  ASSUME TypeOK, FramingInv, sender_closes PROVE FramingInv'
<1>1. /\ outgoing \in Seq(Bytes) /\ sender # "closed" /\ sender' = "closed"
      /\ outgoing' = << >>
      /\ UNCHANGED <<stream, reader, buffer, wanted, sent, received>>
  BY DEF TypeOK, sender_closes
<1>2. ASSUME NEW lost \in Seq(Bytes)
      PROVE  \E next \in Seq(Bytes) : Coming(next)' = Coming(lost)
  <2>1. outgoing \o lost \in Seq(Bytes)
    BY <1>1, ConcatType
  <2>2. PICK next \in Seq(Bytes) : next = outgoing \o lost
    BY <2>1
  <2>3. << >> \o next = next
    BY ConcatEmptySeq
  <2>4. buffer' \o (stream' \o (outgoing' \o next)) = buffer \o (stream \o (outgoing \o lost))
    BY <1>1, <2>2, <2>3, Zenon
  <2>5. Coming(next)' = Coming(lost)
    BY <2>4 DEF Coming
  <2>6. QED
    BY <2>5
<1>3. QED
  BY <1>1, <1>2, OnlyMoves
LEMMA InvSend ==
  ASSUME TypeOK, FramingInv, NEW s \in Strings, send(s) PROVE FramingInv'
<1> DEFINE f == Frame(s)
           n == Len(sent)
<1>1. /\ f \in Seq(Bytes) /\ sender = "idle" /\ sender' = "sending"
      /\ outgoing' = f /\ sent' = Append(sent, s)
      /\ UNCHANGED <<stream, reader, buffer, wanted, received>>
  BY FrameParts DEF send
<1>2. /\ stream \in Seq(Bytes) /\ buffer \in Seq(Bytes) /\ outgoing = << >>
      /\ sent \in Seq(Strings) /\ received \in Seq(Seq(Bytes))
  BY <1>1 DEF TypeOK
<1>3. PICK rest, lost : Arrives(rest, lost)
  BY DEF FramingInv, InOrder
<1>4. lost = << >> /\ Framed(rest)
  BY <1>1, <1>3 DEF Arrives
<1> HIDE DEF f
<1>5. /\ n \in Nat /\ Len(sent') = n + 1
      /\ \A i \in 1 .. n : sent'[i] = sent[i] /\ sent[i] \in Strings
      /\ sent'[n + 1] = s
  BY <1>1, <1>2, AppendProperties, ElementOfSeq
<1>6. Len(received) \in Nat /\ Len(received) <= n /\ Due' = Due
  BY <1>1, <1>2 DEF FramingInv, AtBoundary, Due
<1>7. \A i \in 1 .. n + 1 : rest[i] \in Seq(Bytes)
  BY <1>4 DEF Framed
<1>8. \E next \in [1 .. n + 2 -> Seq(Bytes)] :
        /\ next[n + 2] = << >>
        /\ \A i \in 1 .. n + 1 : next[i] = rest[i] \o f
  <2> DEFINE next == [i \in 1 .. n + 2 |-> IF i = n + 2 THEN << >> ELSE rest[i] \o f]
  <2>1. ASSUME NEW i \in 1 .. n + 1 PROVE next[i] = rest[i] \o f
    <3>1. i \in 1 .. n + 2 /\ i # n + 2
      BY <1>5
    <3>2. QED
      BY <3>1
  <2>2. next[n + 2] = << >>
    <3>1. n + 2 \in 1 .. n + 2
      BY <1>5
    <3>2. QED
      BY <3>1
  <2>3. ASSUME NEW i \in 1 .. n + 2
        PROVE  (IF i = n + 2 THEN << >> ELSE rest[i] \o f) \in Seq(Bytes)
    <3>1. CASE i = n + 2
      BY <3>1
    <3>2. CASE i # n + 2
      <4>1. i \in 1 .. n + 1
        BY <1>5, <3>2
      <4>2. rest[i] \o f \in Seq(Bytes)
        BY <1>1, <1>7, <4>1, ConcatType
      <4>3. QED
        BY <3>2, <4>2
    <3>3. QED
      BY <3>1, <3>2
  <2>4. next \in [1 .. n + 2 -> Seq(Bytes)]
    BY <2>3
  <2> HIDE DEF next
  <2>5. QED
    BY <2>1, <2>2, <2>4
<1>9. PICK more \in [1 .. n + 2 -> Seq(Bytes)] :
        /\ more[n + 2] = << >>
        /\ \A i \in 1 .. n + 1 : more[i] = rest[i] \o f
  BY <1>8
<1>10. Framed(more)'
  <2>1. ASSUME NEW i \in 1 .. n + 1
        PROVE  more[i] = Frame(sent'[i]) \o more[i + 1]
    <3>1. CASE i = n + 1
      <4>1. rest[n + 1] = << >> /\ << >> \o f = f /\ f \o << >> = f
        BY <1>1, <1>4, ConcatEmptySeq DEF Framed
      <4>2. (n + 1) + 1 = n + 2
        BY <1>5
      <4>3. more[n + 1] = f
        BY <1>9, <3>1, <4>1
      <4>4. Frame(sent'[n + 1]) = f
        BY <1>5 DEF f
      <4>5. QED
        BY <1>9, <3>1, <4>1, <4>2, <4>3, <4>4, Zenon
    <3>2. CASE i # n + 1
      <4>1. i \in 1 .. n /\ i + 1 \in 1 .. n + 1
        BY <1>5, <3>2
      <4>2. rest[i] = Frame(sent[i]) \o rest[i + 1] /\ sent'[i] = sent[i]
        BY <1>4, <1>5, <4>1 DEF Framed
      <4>3. Frame(sent[i]) \in Seq(Bytes) /\ rest[i + 1] \in Seq(Bytes)
        BY <1>5, <1>7, <4>1, FrameParts
      <4>4. (Frame(sent[i]) \o rest[i + 1]) \o f = Frame(sent[i]) \o (rest[i + 1] \o f)
        BY <1>1, <4>3, ConcatRegroups
      <4>5. more[i] = rest[i] \o f /\ more[i + 1] = rest[i + 1] \o f
        BY <1>9, <4>1
      <4>6. QED
        BY <4>2, <4>4, <4>5, Zenon
    <3>3. QED
      BY <3>1, <3>2
  <2>2. Len(sent') + 1 = n + 2 /\ 1 .. Len(sent') = 1 .. n + 1
    BY <1>5
  <2>3. more \in [1 .. Len(sent') + 1 -> Seq(Bytes)] /\ more[Len(sent') + 1] = << >>
    BY <1>9, <2>2, Zenon
  <2>4. \A i \in 1 .. Len(sent') : more[i] = Frame(sent'[i]) \o more[i + 1]
    BY <2>1, <2>2, Zenon
  <2>5. QED
    BY <2>3, <2>4 DEF Framed
<1>11. Coming(<< >>)' = Coming(lost) \o f
  <2>1. buffer \o stream \in Seq(Bytes) /\ << >> \in Seq(Bytes)
    BY <1>2, ConcatType
  <2>2. (buffer \o stream) \o f = buffer \o (stream \o f)
    BY <1>1, <1>2, ConcatRegroups
  <2>3. << >> \o << >> = << >> /\ stream \o << >> = stream /\ f \o << >> = f
    BY <1>1, <1>2, <2>1, ConcatEmptySeq
  <2>4. Coming(lost) = buffer \o stream
    BY <1>2, <1>4, <2>3, Zenon DEF Coming
  <2>5. Coming(<< >>)' = buffer \o (stream \o f)
    BY <1>1, <2>3 DEF Coming
  <2>6. QED
    BY <2>2, <2>4, <2>5, Zenon
<1>12. Arrives(more, << >>)'
  <2>1. ASSUME reader = "length" PROVE Coming(<< >>)' = more[Due]
    <3>1. Coming(lost) = rest[Due]
      BY <1>3, <2>1 DEF Arrives
    <3>2. Due \in 1 .. n + 1
      BY <1>5, <1>6 DEF Due
    <3>3. more[Due] = rest[Due] \o f
      BY <1>9, <3>2
    <3>4. QED
      BY <1>11, <3>1, <3>3, Zenon
  <2>2. ASSUME reader = "body"
        PROVE  Coming(<< >>)' = Rest(sent'[Due]) \o more[Due + 1]
    <3>1. Coming(lost) = Rest(sent[Due]) \o rest[Due + 1]
      BY <1>3, <2>2 DEF Arrives
    <3>2. Due \in 1 .. n /\ Due + 1 \in 1 .. n + 1
      BY <1>5, <1>6, <2>2 DEF Due, FramingInv, AtBoundary
    <3>3. more[Due + 1] = rest[Due + 1] \o f /\ sent'[Due] = sent[Due]
      BY <1>5, <1>9, <3>2
    <3>4. Rest(sent[Due]) \in Seq(Bytes) /\ rest[Due + 1] \in Seq(Bytes)
      BY <1>5, <1>7, <3>2, FrameIsCut
    <3>5. (Rest(sent[Due]) \o rest[Due + 1]) \o f = Rest(sent[Due]) \o (rest[Due + 1] \o f)
      BY <1>1, <3>4, ConcatRegroups
    <3>6. QED
      BY <1>11, <3>1, <3>3, <3>5, Zenon
  <2>3. << >> \in Seq(Bytes)
    OBVIOUS
  <2>4. (reader' = "length") => (Coming(<< >>)' = more[Due'])
    BY <1>1, <1>6, <2>1
  <2>5. (reader' = "body") => (Coming(<< >>)' = Rest(sent'[Due']) \o more[Due' + 1])
    BY <1>1, <1>6, <2>2
  <2>6. QED
    BY <1>10, <2>3, <2>4, <2>5 DEF Arrives
<1>13. AtBoundary'
  <2>1. Len(received') <= Len(sent') /\ ((reader' = "length") => (wanted' = Width))
    BY <1>1, <1>5, <1>6 DEF FramingInv, AtBoundary
  <2>2. ASSUME reader' = "body"
        PROVE  Len(received') < Len(sent') /\ wanted' = stoi(Prefix(sent'[Due']))
    <3>1. reader = "body" /\ Len(received) < n /\ wanted = stoi(Prefix(sent[Due]))
      BY <1>1, <2>2 DEF FramingInv, AtBoundary
    <3>2. Due \in 1 .. n
      BY <1>5, <1>6, <3>1 DEF Due
    <3>3. sent'[Due'] = sent[Due]
      BY <1>5, <1>6, <3>2
    <3>4. QED
      BY <1>1, <1>5, <1>6, <3>1, <3>3
  <2>3. QED
    BY <2>1, <2>2 DEF AtBoundary
<1>14. FailsForCause'
  <2> SUFFICES ASSUME reader' = "failed"
               PROVE  /\ Len(received') < Len(sent')
                      /\ TooLong(sent'[Len(received') + 1])
    BY DEF FailsForCause
  <2>1. Len(received) < n /\ TooLong(sent[Len(received) + 1])
    BY <1>1 DEF FramingInv, FailsForCause
  <2>2. Len(received) + 1 \in 1 .. n
    BY <1>5, <1>6, <2>1
  <2>3. sent'[Len(received) + 1] = sent[Len(received) + 1]
    BY <1>5, <2>2
  <2>4. QED
    BY <1>1, <1>5, <1>6, <2>1, <2>3
<1>15. QED
  BY <1>12, <1>13, <1>14 DEF FramingInv, InOrder
LEMMA SameStart ==
  ASSUME NEW s \in Seq(Bytes), NEW t \in Seq(Bytes),
         NEW u \in Seq(Bytes), NEW v \in Seq(Bytes),
         s \o t = u \o v, Len(s) = Len(u)
  PROVE  s = u /\ t = v
<1>1. Len(s) <= Len(u) /\ Len(u) \in Nat
  OBVIOUS
<1>2. Cuts(s, t, u, v)
  BY <1>1, CutInside, Zenon
<1>3. s = SubSeq(u, 1, Len(u)) /\ t = SubSeq(u, Len(u) + 1, Len(u)) \o v
  BY <1>2, Zenon DEF Cuts
<1>4. SubSeq(u, 1, Len(u)) = u
  BY SubSeqFull
<1>5. SubSeq(u, Len(u) + 1, Len(u)) = << >>
  BY <1>1, SubSeqEmpty
<1>6. << >> \o v = v
  BY ConcatEmptySeq
<1>7. QED
  BY <1>3, <1>4, <1>5, <1>6, Zenon

(* What receive has not read yet. *)
Behind(lost) == stream \o (outgoing \o lost)

LEMMA BehindType ==
  ASSUME TypeOK, NEW lost \in Seq(Bytes)
  PROVE  /\ Behind(lost) \in Seq(Bytes) /\ buffer \in Seq(Bytes)
         /\ Coming(lost) = buffer \o Behind(lost)
<1>1. stream \in Seq(Bytes) /\ outgoing \in Seq(Bytes) /\ buffer \in Seq(Bytes)
  BY DEF TypeOK
<1>2. outgoing \o lost \in Seq(Bytes)
  BY <1>1, ConcatType
<1>3. QED
  BY <1>1, <1>2, ConcatType DEF Behind, Coming

(* The string that is due, its frame and what follows it. *)
LEMMA DueParts ==
  ASSUME TypeOK, NEW rest, NEW lost, Arrives(rest, lost),
         Len(received) < Len(sent)
  PROVE  /\ Due \in 1 .. Len(sent) /\ sent[Due] \in Strings
         /\ rest[Due + 1] \in Seq(Bytes)
         /\ rest[Due] = Frame(sent[Due]) \o rest[Due + 1]
<1>1. sent \in Seq(Strings) /\ Len(sent) \in Nat /\ Len(received) \in Nat
  BY DEF TypeOK
<1>2. Due \in 1 .. Len(sent) /\ Due + 1 \in 1 .. Len(sent) + 1
  BY <1>1 DEF Due
<1>3. sent[Due] \in Strings
  BY <1>1, <1>2, ElementOfSeq
<1>4. Framed(rest)
  BY DEF Arrives
<1>5. QED
  BY <1>2, <1>3, <1>4 DEF Framed

(* What receive takes for a length is what send has put before the string. *)
LEMMA PrefixIsRead ==
  ASSUME TypeOK, AtBoundary, LengthRead, NEW rest, NEW lost, Arrives(rest, lost)
  PROVE  /\ Len(received) < Len(sent)
         /\ buffer = Prefix(sent[Due])
         /\ Behind(lost) = Rest(sent[Due]) \o rest[Due + 1]
<1>1. /\ lost \in Seq(Bytes) /\ Framed(rest) /\ Coming(lost) = rest[Due]
      /\ Len(buffer) = Width
  BY DEF Arrives, LengthRead, AtBoundary
<1>2. /\ Behind(lost) \in Seq(Bytes) /\ buffer \in Seq(Bytes)
      /\ Coming(lost) = buffer \o Behind(lost)
  BY <1>1, BehindType
<1>3. Len(sent) \in Nat /\ Len(received) \in Nat /\ Len(received) <= Len(sent)
  BY DEF TypeOK, AtBoundary
<1>4. Len(received) < Len(sent)
  <2> SUFFICES ASSUME Len(received) = Len(sent) PROVE FALSE
    BY <1>3
  <2>1. rest[Due] = << >>
    BY <1>1 DEF Due, Framed
  <2>2. buffer \o Behind(lost) = << >>
    BY <1>1, <1>2, <2>1, Zenon
  <2>3. buffer = << >>
    BY <1>2, <2>2, ConcatSimplifications, Zenon
  <2>4. Width \in Nat \ {0} /\ Len(<< >>) = 0
    BY FramingAssumption
  <2>5. QED
    BY <1>1, <2>3, <2>4
<1> DEFINE p == Prefix(sent[Due])
           q == Rest(sent[Due])
           r == rest[Due + 1]
<1>5. /\ sent[Due] \in Strings /\ r \in Seq(Bytes)
      /\ rest[Due] = Frame(sent[Due]) \o r
  BY <1>4, DueParts
<1>6. /\ p \in Seq(Bytes) /\ Len(p) = Width /\ q \in Seq(Bytes)
      /\ p \o q = Frame(sent[Due])
  BY <1>5, FrameIsCut
<1> HIDE DEF p, q, r
<1>7. q \o r \in Seq(Bytes)
  BY <1>5, <1>6, ConcatType
<1>8. (p \o q) \o r = p \o (q \o r)
  BY <1>5, <1>6, ConcatRegroups
<1>9. buffer \o Behind(lost) = p \o (q \o r)
  BY <1>1, <1>2, <1>5, <1>6, <1>8, Zenon
<1>10. buffer = p /\ Behind(lost) = q \o r
  <2>1. Len(buffer) = Len(p)
    BY <1>1, <1>6
  <2>2. QED
    BY <1>2, <1>6, <1>7, <1>9, <2>1, SameStart, Zenon
<1>11. QED
  BY <1>4, <1>10 DEF p, q, r

(* If the length has fit, what receive reads next is the string, and the   *)
(* next frame comes behind it.                                             *)
LEMMA RestIsRead ==
  ASSUME TypeOK, AtBoundary, BodyRead, NEW rest, NEW lost, Arrives(rest, lost),
         ~TooLong(sent[Due])
  PROVE  /\ buffer = sent[Due] \o <<Newline>>
         /\ Behind(lost) = rest[Due + 1]
<1>1. /\ lost \in Seq(Bytes) /\ Coming(lost) = Rest(sent[Due]) \o rest[Due + 1]
      /\ Len(buffer) = stoi(Prefix(sent[Due])) /\ Len(received) < Len(sent)
  BY DEF Arrives, BodyRead, AtBoundary
<1>2. /\ Behind(lost) \in Seq(Bytes) /\ buffer \in Seq(Bytes)
      /\ Coming(lost) = buffer \o Behind(lost)
  BY <1>1, BehindType
<1>3. sent[Due] \in Strings /\ rest[Due + 1] \in Seq(Bytes)
  BY <1>1, DueParts
<1>4. /\ Rest(sent[Due]) = sent[Due] \o <<Newline>>
      /\ stoi(Prefix(sent[Due])) = Len(sent[Due]) + 1
  BY <1>3, FittingFrame
<1>5. /\ sent[Due] \o <<Newline>> \in Seq(Bytes)
      /\ Len(sent[Due] \o <<Newline>>) = Len(sent[Due]) + 1
  BY <1>3, FrameParts
<1> DEFINE t == sent[Due] \o <<Newline>>
<1>6. buffer \o Behind(lost) = t \o rest[Due + 1]
  BY <1>1, <1>2, <1>4, Zenon
<1>7. Len(buffer) = Len(t)
  BY <1>1, <1>4, <1>5
<1>8. t \in Seq(Bytes)
  BY <1>5
<1> HIDE DEF t
<1>9. buffer = t /\ Behind(lost) = rest[Due + 1]
  BY <1>2, <1>3, <1>6, <1>7, <1>8, SameStart, ZenonT(30)
<1>10. QED
  BY <1>9 DEF t

(* If it has not, receive does not find a newline where it looks for one. *)
LEMMA LongIsRefused ==
  ASSUME TypeOK, AtBoundary, BodyRead, NEW rest, NEW lost, Arrives(rest, lost),
         LongIsOneLine, TooLong(sent[Due])
  PROVE  Last(buffer) # Newline
<1>1. /\ lost \in Seq(Bytes) /\ Coming(lost) = Rest(sent[Due]) \o rest[Due + 1]
      /\ Len(buffer) = wanted /\ wanted = stoi(Prefix(sent[Due]))
      /\ Len(received) < Len(sent)
  BY DEF Arrives, BodyRead, AtBoundary
<1>2. /\ Behind(lost) \in Seq(Bytes) /\ buffer \in Seq(Bytes)
      /\ Coming(lost) = buffer \o Behind(lost)
  BY <1>1, BehindType
<1>3. sent[Due] \in Strings /\ rest[Due + 1] \in Seq(Bytes)
  BY <1>1, DueParts
<1>4. /\ wanted < Len(Rest(sent[Due]))
      /\ \A i \in 1 .. wanted : Rest(sent[Due])[i] # Newline
  BY <1>1, <1>3, LongFrame DEF LongIsOneLine
<1>5. Rest(sent[Due]) \in Seq(Bytes)
  BY <1>3, FrameIsCut
<1>6. wanted \in Nat \ {0}
  BY DEF TypeOK
<1>7. Last(buffer) = Rest(sent[Due])[wanted]
  <2>1. wanted \in 1 .. Len(buffer) /\ wanted \in 1 .. Len(Rest(sent[Due]))
    BY <1>1, <1>4, <1>5, <1>6
  <2>2. (buffer \o Behind(lost))[wanted] = buffer[wanted]
    BY <1>2, <2>1, ConcatType
  <2>3. (Rest(sent[Due]) \o rest[Due + 1])[wanted] = Rest(sent[Due])[wanted]
    BY <1>3, <1>5, <2>1, ConcatType
  <2>4. Last(buffer) = buffer[wanted]
    BY <1>1 DEF Last
  <2>5. QED
    BY <1>1, <1>2, <2>2, <2>3, <2>4, Zenon
<1>8. QED
  BY <1>4, <1>6, <1>7
LEMMA InvAccept ==
  ASSUME TypeOK, FramingInv, accept_length PROVE FramingInv'
<1>1. /\ LengthRead /\ reader' = "body" /\ wanted' = stoi(buffer) /\ buffer' = << >>
      /\ UNCHANGED <<sender, outgoing, stream, sent, received>>
  BY DEF accept_length
<1>2. PICK rest, lost : Arrives(rest, lost)
  BY DEF FramingInv, InOrder
<1>3. /\ Len(received) < Len(sent)
      /\ buffer = Prefix(sent[Due])
      /\ Behind(lost) = Rest(sent[Due]) \o rest[Due + 1]
  BY <1>1, <1>2, PrefixIsRead DEF FramingInv
<1>4. Due' = Due /\ Framed(rest)'
  BY <1>1, <1>2 DEF Due, Arrives, Framed
<1>5. Coming(lost)' = Behind(lost)
  <2>1. lost \in Seq(Bytes)
    BY <1>2 DEF Arrives
  <2>2. Behind(lost) \in Seq(Bytes)
    BY <2>1, BehindType
  <2>3. << >> \o Behind(lost) = Behind(lost)
    BY <2>2, ConcatEmptySeq
  <2>4. Coming(lost)' = << >> \o Behind(lost)
    BY <1>1 DEF Coming, Behind
  <2>5. QED
    BY <2>3, <2>4, Zenon
<1>6. Arrives(rest, lost)'
  <2>1. Coming(lost)' = Rest(sent'[Due']) \o rest[Due' + 1]
    BY <1>1, <1>3, <1>4, <1>5
  <2>2. lost \in Seq(Bytes) /\ (sender' # "closed" => lost = << >>)
    BY <1>1, <1>2 DEF Arrives
  <2>3. QED
    BY <1>1, <1>4, <2>1, <2>2 DEF Arrives
<1>7. AtBoundary'
  BY <1>1, <1>3, <1>4 DEF FramingInv, AtBoundary
<1>8. FailsForCause'
  BY <1>1 DEF FailsForCause
<1>9. QED
  BY <1>6, <1>7, <1>8 DEF FramingInv, InOrder

(* The string that receive returns is the one that is due. *)
LEMMA ReturnsDue ==
  ASSUME TypeOK, FramingInv, LongIsOneLine, return_string,
         NEW rest, NEW lost, Arrives(rest, lost)
  PROVE  /\ Len(received) < Len(sent)
         /\ Front(buffer) = sent[Due]
         /\ Behind(lost) = rest[Due + 1]
<1>1. BodyRead /\ Last(buffer) = Newline /\ AtBoundary
  BY DEF return_string, FramingInv
<1>2. Len(received) < Len(sent)
  BY <1>1 DEF BodyRead, AtBoundary
<1>3. ~TooLong(sent[Due])
  BY <1>1, LongIsRefused
<1>4. /\ buffer = sent[Due] \o <<Newline>>
      /\ Behind(lost) = rest[Due + 1]
  BY <1>1, <1>3, RestIsRead
<1>5. sent[Due] \in Strings
  BY <1>2, DueParts
<1>6. Front(buffer) = sent[Due]
  <2>1. sent[Due] \in Seq(Bytes) /\ Newline \in Bytes
    BY <1>5, FramingAssumption DEF Bytes
  <2>2. PICK s \in Seq(Bytes) : s = sent[Due]
    BY <2>1
  <2>3. Front(s \o <<Newline>>) = s
    <3>1. Len(s \o <<Newline>>) - 1 = Len(s)
      BY <2>1
    <3>2. SubSeq(s \o <<Newline>>, 1, Len(s)) = s
      BY <2>1
    <3>3. QED
      BY <3>1, <3>2 DEF Front
  <2>4. QED
    BY <1>4, <2>2, <2>3, Zenon
<1>7. QED
  BY <1>2, <1>4, <1>6

LEMMA InvReturn ==
  ASSUME TypeOK, FramingInv, LongIsOneLine, return_string PROVE FramingInv'
<1>1. /\ reader' = "length" /\ wanted' = Width /\ buffer' = << >>
      /\ received' = Append(received, Front(buffer))
      /\ UNCHANGED <<sender, outgoing, stream, sent>>
  BY DEF return_string
<1>2. PICK rest, lost : Arrives(rest, lost)
  BY DEF FramingInv, InOrder
<1>3. Len(received) < Len(sent) /\ Behind(lost) = rest[Due + 1]
  BY <1>2, ReturnsDue
<1>4. Len(received') = Len(received) + 1 /\ Due' = Due + 1
  <2>1. received \in Seq(Seq(Bytes)) /\ Len(received) \in Nat
    BY DEF TypeOK
  <2>2. Len(received') = Len(received) + 1
    BY <1>1, <2>1
  <2>3. QED
    BY <2>1, <2>2 DEF Due
<1>5. Framed(rest)'
  BY <1>1, <1>2 DEF Arrives, Framed
<1>6. Coming(lost)' = Behind(lost)
  <2>1. lost \in Seq(Bytes)
    BY <1>2 DEF Arrives
  <2>2. Behind(lost) \in Seq(Bytes)
    BY <2>1, BehindType
  <2>3. << >> \o Behind(lost) = Behind(lost)
    BY <2>2, ConcatEmptySeq
  <2>4. Coming(lost)' = << >> \o Behind(lost)
    BY <1>1 DEF Coming, Behind
  <2>5. QED
    BY <2>3, <2>4, Zenon
<1>7. Arrives(rest, lost)'
  <2>1. Coming(lost)' = rest[Due']
    BY <1>3, <1>4, <1>6
  <2>2. lost \in Seq(Bytes) /\ (sender' # "closed" => lost = << >>)
    BY <1>1, <1>2 DEF Arrives
  <2>3. QED
    BY <1>1, <1>5, <2>1, <2>2 DEF Arrives
<1>8. AtBoundary'
  <2>1. Len(received) \in Nat /\ Len(sent) \in Nat
    BY DEF TypeOK
  <2>2. Len(received') <= Len(sent')
    BY <1>1, <1>3, <1>4, <2>1
  <2>3. QED
    BY <1>1, <2>2 DEF AtBoundary
<1>9. FailsForCause'
  BY <1>1 DEF FailsForCause
<1>10. QED
  BY <1>7, <1>8, <1>9 DEF FramingInv, InOrder

(* receive refuses a frame only if its string is too long. *)
LEMMA RefusedForCause ==
  ASSUME TypeOK, FramingInv, Malformed
  PROVE  Len(received) < Len(sent) /\ TooLong(sent[Due])
<1>1. PICK rest, lost : Arrives(rest, lost)
  BY DEF FramingInv, InOrder
<1>2. ASSUME LengthRead, ~ValidLength PROVE Len(received) < Len(sent) /\ TooLong(sent[Due])
  <2>1. Len(received) < Len(sent) /\ buffer = Prefix(sent[Due])
    BY <1>1, <1>2, PrefixIsRead DEF FramingInv
  <2>2. sent[Due] \in Strings
    BY <1>1, <2>1, DueParts
  <2>3. ensure_valid_string(buffer)
    BY <2>1, <2>2, FrameIsCut
  <2> SUFFICES ASSUME ~TooLong(sent[Due]) PROVE FALSE
    BY <2>1
  <2>4. stoi(buffer) = Len(sent[Due]) + 1
    BY <2>1, <2>2, FittingFrame
  <2>5. Len(sent[Due]) \in Nat
    BY <2>2, FramingAssumption
  <2>6. QED
    BY <1>2, <2>3, <2>4, <2>5 DEF ValidLength
<1>3. ASSUME BodyRead, Last(buffer) # Newline
      PROVE  Len(received) < Len(sent) /\ TooLong(sent[Due])
  <2>1. Len(received) < Len(sent)
    BY <1>3 DEF FramingInv, AtBoundary, BodyRead
  <2>2. sent[Due] \in Strings
    BY <1>1, <2>1, DueParts
  <2> SUFFICES ASSUME ~TooLong(sent[Due]) PROVE FALSE
    BY <2>1
  <2>3. buffer = sent[Due] \o <<Newline>>
    BY <1>1, <1>3, RestIsRead DEF FramingInv
  <2>4. sent[Due] \in Seq(Bytes)
    BY <2>2, FramingAssumption
  <2>5. PICK s \in Seq(Bytes) : s = sent[Due]
    BY <2>4
  <2>6. Last(s \o <<Newline>>) = Newline
    BY DEF Last
  <2>7. QED
    BY <1>3, <2>3, <2>5, <2>6, Zenon
<1>4. QED
  BY <1>2, <1>3 DEF Malformed

(* When the connection is given up nothing more is received. *)
LEMMA InvOver ==
  ASSUME TypeOK, FramingInv, reader' \in {"failed", "closed"},
         UNCHANGED <<sender, outgoing, stream, buffer, wanted, sent, received>>,
         FailsForCause'
  PROVE  FramingInv'
<1>1. PICK rest, lost : Arrives(rest, lost)
  BY DEF FramingInv, InOrder
<1>2. Arrives(rest, lost)'
  BY <1>1 DEF Arrives, Framed
<1>3. AtBoundary'
  BY DEF FramingInv, AtBoundary
<1>4. QED
  BY <1>2, <1>3 DEF FramingInv, InOrder

LEMMA InvStep ==
  ASSUME LongIsOneLine, TypeOK, FramingInv, [Next]_vars PROVE FramingInv'
<1>1. CASE \E s \in Strings : send(s)
  BY <1>1, InvSend
<1>2. CASE write
  BY <1>2, InvWrite
<1>3. CASE sender_closes
  BY <1>3, InvSenderCloses
<1>4. CASE read
  BY <1>4, InvRead
<1>5. CASE read_ends
  <2>1. FailsForCause'
    BY <1>5 DEF read_ends, Throw, FailsForCause
  <2>2. QED
    BY <1>5, <2>1, InvOver DEF read_ends, Throw
<1>6. CASE accept_length
  BY <1>6, InvAccept
<1>7. CASE return_string
  BY <1>7, InvReturn
<1>8. CASE refuse
  <2>1. Len(received) < Len(sent) /\ TooLong(sent[Due])
    BY <1>8, RefusedForCause DEF refuse
  <2>2. FailsForCause'
    BY <1>8, <2>1 DEF refuse, Throw, FailsForCause, Due
  <2>3. QED
    BY <1>8, <2>2, InvOver DEF refuse, Throw
<1>9. CASE reader_closes
  <2>1. FailsForCause'
    BY <1>9 DEF reader_closes, FailsForCause
  <2>2. QED
    BY <1>9, <2>1, InvOver DEF reader_closes
<1>10. CASE UNCHANGED vars
  <2>1. PICK rest, lost : Arrives(rest, lost)
    BY DEF FramingInv, InOrder
  <2>2. Arrives(rest, lost)'
    BY <1>10, <2>1 DEF vars, Arrives, Framed, Coming, Due
  <2>3. AtBoundary' /\ FailsForCause'
    BY <1>10 DEF vars, FramingInv, AtBoundary, FailsForCause, Due
  <2>4. QED
    BY <2>2, <2>3 DEF FramingInv, InOrder
<1>11. QED
  BY <1>1, <1>2, <1>3, <1>4, <1>5, <1>6, <1>7, <1>8, <1>9, <1>10
     DEF Next, receive

(* Whatever write and read do with the bytes and whenever a side goes      *)
(* away: what receive has read and what is still to come are the frames of *)
(* the strings it has not returned yet.                                    *)
THEOREM FramingCorrect ==
  ASSUME LongIsOneLine PROVE Spec => []FramingInv
<1>1. Init => FramingInv
  BY FramingInit
<1>2. TypeOK /\ FramingInv /\ [Next]_vars => FramingInv'
  BY InvStep
<1>3. QED
  BY <1>1, <1>2, FramingTypeCorrect, PTL DEF Spec

(* receive throws only when the other side has gone or at a string that is *)
(* too long for its length field.                                          *)
THEOREM FailuresHaveCause ==
  ASSUME LongIsOneLine PROVE Spec => []FailsForCause
<1>1. FramingInv => FailsForCause
  BY DEF FramingInv
<1>2. QED
  BY <1>1, FramingCorrect, PTL
-------------------------------------------------------------------------------
(* The connection is a pipe *)

Transit == SubSeq(sent, Len(received) + 1, Len(sent))
LastOne == IF received = << >> THEN NoString ELSE Last(received)

LEMMA PipeInits == Init => pipe!PipeInit
<1> SUFFICES ASSUME Init PROVE pipe!PipeInit
  OBVIOUS
<1>1. sent = << >> /\ received = << >> /\ Reading
  BY DEF Init, Reading
<1>2. SubSeq(sent, Len(received) + 1, Len(sent)) = << >>
  BY <1>1
<1>3. QED
  BY <1>1, <1>2 DEF pipe!PipeInit

(* Nothing that the rest of the program can see. *)
LEMMA PipeStutters ==
  ASSUME UNCHANGED <<sent, received>>, Reading' = Reading
  PROVE  UNCHANGED pipe!pipeVars
BY DEF pipe!pipeVars

LEMMA PipeBreaks ==
  ASSUME UNCHANGED <<sent, received>>, ~Reading'
  PROVE  pipe!Break
BY DEF pipe!Break

LEMMA PipePuts ==
  ASSUME TypeOK, AtBoundary, NEW s \in Strings, send(s)
  PROVE  pipe!Put
<1>1. /\ sent' = Append(sent, s) /\ UNCHANGED <<reader, received>>
  BY DEF send
<1>2. /\ sent \in Seq(Strings) /\ Len(received) \in Nat /\ Len(received) <= Len(sent)
  BY DEF TypeOK, AtBoundary
<1>3. Transit' = Append(Transit, s)
  <2>1. PICK u \in Seq(Strings), k \in Nat : u = sent /\ k = Len(received)
    BY <1>2
  <2>2. k <= Len(u)
    BY <1>2, <2>1
  <2> DEFINE x == SubSeq(u, k + 1, Len(u))
             y == SubSeq(Append(u, s), k + 1, Len(Append(u, s)))
  <2>3. x \in Seq(Strings) /\ Len(x) = Len(u) - k
    BY <2>2
  <2>4. \A i \in 1 .. Len(u) - k : x[i] = u[k + i]
    BY <2>2
  <2>5. /\ Append(u, s) \in Seq(Strings) /\ Len(Append(u, s)) = Len(u) + 1
        /\ \A i \in 1 .. Len(u) : Append(u, s)[i] = u[i]
        /\ Append(u, s)[Len(u) + 1] = s
    BY AppendProperties
  <2>6. y \in Seq(Strings) /\ Len(y) = Len(u) + 1 - k
    BY <2>2, <2>5
  <2>7. \A i \in 1 .. Len(u) + 1 - k : y[i] = Append(u, s)[k + i]
    BY <2>2, <2>5
  <2> HIDE DEF x, y
  <2>8. /\ Append(x, s) \in Seq(Strings) /\ Len(Append(x, s)) = Len(u) - k + 1
        /\ \A i \in 1 .. Len(u) - k : Append(x, s)[i] = x[i]
        /\ Append(x, s)[Len(u) - k + 1] = s
    BY <2>3, AppendProperties
  <2>9. ASSUME NEW i \in 1 .. Len(y) PROVE y[i] = Append(x, s)[i]
    <3>1. y[i] = Append(u, s)[k + i]
      BY <2>6, <2>7
    <3>2. CASE i <= Len(u) - k
      <4>1. i \in 1 .. Len(u) - k /\ k + i \in 1 .. Len(u)
        BY <2>2, <3>2
      <4>2. QED
        BY <2>4, <2>5, <2>8, <3>1, <4>1
    <3>3. CASE i > Len(u) - k
      <4>1. i = Len(u) - k + 1 /\ k + i = Len(u) + 1
        BY <2>2, <2>6, <3>3
      <4>2. QED
        BY <2>5, <2>8, <3>1, <4>1
    <3>4. i \in Int /\ Len(u) \in Int /\ k \in Int
      BY <2>6
    <3>5. i <= Len(u) - k \/ i > Len(u) - k
      BY <3>4
    <3>6. QED
      BY <3>2, <3>3, <3>5
  <2>10. y = Append(x, s)
    <3>1. Len(y) = Len(Append(x, s))
      BY <2>2, <2>6, <2>8
    <3>2. QED
      BY <2>6, <2>8, <2>9, <3>1, SeqEqual
  <2>11. Transit = x /\ Transit' = y
    BY <1>1, <2>1, Zenon DEF Transit, x, y
  <2>12. QED
    BY <2>10, <2>11, Zenon
<1>4. LastOne' = LastOne /\ Reading' = Reading
  BY <1>1 DEF LastOne, Reading
<1>5. QED
  BY <1>3, <1>4 DEF pipe!Put, Transit, LastOne

LEMMA PipeTakes ==
  ASSUME TypeOK, FramingInv, LongIsOneLine, return_string
  PROVE  pipe!Take
<1>1. PICK rest, lost : Arrives(rest, lost)
  BY DEF FramingInv, InOrder
<1>2. /\ Len(received) < Len(sent) /\ Front(buffer) = sent[Due]
  BY <1>1, ReturnsDue
<1>3. /\ received' = Append(received, Front(buffer)) /\ sent' = sent
      /\ Reading /\ Reading'
  BY DEF return_string, BodyRead, Reading
<1>4. /\ sent \in Seq(Strings) /\ received \in Seq(Seq(Bytes))
      /\ Len(received) \in Nat /\ Len(sent) \in Nat
  BY DEF TypeOK
<1>5. Len(received') = Len(received) + 1
  BY <1>3, <1>4
<1>6. Due \in 1 .. Len(sent) /\ Len(sent) \in Due .. Len(sent)
  BY <1>2, <1>4 DEF Due
<1>7. Head(Transit) = sent[Due] /\ Tail(Transit) = Transit'
  <2>1. /\ Head(SubSeq(sent, Due, Len(sent))) = sent[Due]
        /\ Tail(SubSeq(sent, Due, Len(sent))) = SubSeq(sent, Due + 1, Len(sent))
    BY <1>4, <1>6, HeadTailOfSubSeq
  <2>2. Transit = SubSeq(sent, Due, Len(sent))
    BY DEF Transit, Due
  <2>3. Transit' = SubSeq(sent, Due + 1, Len(sent))
    BY <1>3, <1>5 DEF Transit, Due
  <2>4. QED
    BY <2>1, <2>2, <2>3, Zenon
<1>8. Transit # << >>
  <2>1. Len(SubSeq(sent, Due, Len(sent))) = Len(sent) - Due + 1
    BY <1>4, <1>6
  <2>2. Len(Transit) # 0
    BY <1>4, <1>6, <2>1 DEF Transit, Due
  <2>3. QED
    BY <2>2
<1>9. LastOne' = Front(buffer)
  <2>1. received' # << >>
    BY <1>4, <1>5
  <2>2. Last(received') = Front(buffer)
    BY <1>3, <1>4 DEF Last
  <2>3. QED
    BY <2>1, <2>2 DEF LastOne
<1>10. LastOne' = Head(Transit)
  BY <1>2, <1>7, <1>9, Zenon
<1>11. QED
  BY <1>3, <1>7, <1>8, <1>10 DEF pipe!Take, Transit, LastOne

LEMMA PipeStep ==
  ASSUME LongIsOneLine, TypeOK, FramingInv, [Next]_vars
  PROVE  [pipe!PipeNext]_(pipe!pipeVars)
<1>1. CASE \E s \in Strings : send(s)
  BY <1>1, PipePuts DEF pipe!PipeNext, FramingInv
<1>2. CASE write
  BY <1>2, PipeStutters DEF write, Reading
<1>3. CASE sender_closes
  BY <1>3, PipeStutters DEF sender_closes, Reading
<1>4. CASE read
  BY <1>4, PipeStutters DEF read, Reading
<1>5. CASE Throw
  <2>1. UNCHANGED <<sent, received>> /\ ~Reading'
    BY <1>5 DEF Throw, Reading
  <2>2. QED
    BY <2>1, PipeBreaks DEF pipe!PipeNext
<1>6. CASE accept_length
  <2>1. UNCHANGED <<sent, received>> /\ Reading' = Reading
    BY <1>6 DEF accept_length, LengthRead, Reading
  <2>2. QED
    BY <2>1, PipeStutters
<1>7. CASE return_string
  BY <1>7, PipeTakes DEF pipe!PipeNext
<1>8. CASE reader_closes
  <2>1. UNCHANGED <<sent, received>> /\ ~Reading'
    BY <1>8 DEF reader_closes, Reading
  <2>2. QED
    BY <2>1, PipeBreaks DEF pipe!PipeNext
<1>9. CASE UNCHANGED vars
  <2>1. UNCHANGED <<sent, received>> /\ Reading' = Reading
    BY <1>9 DEF vars, Reading
  <2>2. QED
    BY <2>1, PipeStutters
<1>10. QED
  BY <1>1, <1>2, <1>3, <1>4, <1>5, <1>6, <1>7, <1>8, <1>9
     DEF Next, receive, read_ends, refuse

(* IO::send and IO::receive make a pipe of whole strings of a connection   *)
(* that cuts them up: nothing is lost, doubled, cut short or out of order  *)
(* before the reader gives up, and nothing is received after that.         *)
THEOREM FramingIsPipe ==
  ASSUME LongIsOneLine PROVE Spec => IsPipe
<1>1. Init => pipe!PipeInit
  BY PipeInits
<1>2. TypeOK /\ FramingInv /\ [Next]_vars => [pipe!PipeNext]_(pipe!pipeVars)
  BY PipeStep
<1>3. QED
  BY <1>1, <1>2, FramingCorrect, FramingTypeCorrect, PTL
     DEF Spec, IsPipe, pipe!PipeSpec
===============================================================================
