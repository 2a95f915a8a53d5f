------------------------------ MODULE Wire_proofs ------------------------------
(***************************************************************************)
(* Theorems about Wire, for messages and texts of any length.  The first   *)
(* sections show that split and Joined, which compute with recursive       *)
(* functions, are each other's inverse; then that decode reads off what    *)
(* encode has written, and encode writes what decode has read off.         *)
(***************************************************************************)
EXTENDS WireTexts, FiniteSetTheorems, WellFoundedInduction, SequenceTheorems, TLAPS

-------------------------------------------------------------------------------
(* Induction over numbers and sequences *)

LEMMA InductionOnNat ==
  ASSUME NEW P, 0 \in P, \A n \in Nat : n \in P => n + 1 \in P
  PROVE  Nat \subseteq P
<1> SUFFICES ASSUME Nat \ P # {} PROVE FALSE
  OBVIOUS
<1>1. PICK n \in Nat \ P : \A m \in Nat \ P : ~ (<<m, n>> \in OpToRel(<, Nat))
  BY WFMin, NatLessThanWellFounded
<1>2. n # 0
  OBVIOUS
<1>3. n - 1 \in Nat /\ n - 1 < n
  BY <1>2
<1>4. n - 1 \in P
  BY <1>1, <1>3 DEF OpToRel
<1>5. QED
  BY <1>3, <1>4

(* What holds of the empty sequence, and of a sequence with one element    *)
(* more when it holds of the sequence, holds of all sequences.             *)
LEMMA InductionOnSeq ==
  ASSUME NEW X, NEW P, << >> \in P,
         \A s \in Seq(X), e \in X : s \in P => Append(s, e) \in P
  PROVE  Seq(X) \subseteq P
<1> DEFINE Q == {n \in Nat : \A s \in Seq(X) : Len(s) = n => s \in P}
<1>1. 0 \in Q
  <2>1. \A s \in Seq(X) : Len(s) = 0 => s = << >>
    OBVIOUS
  <2>2. QED
    BY <2>1
<1>2. ASSUME NEW n \in Nat, n \in Q PROVE n + 1 \in Q
  <2> SUFFICES ASSUME NEW s \in Seq(X), Len(s) = n + 1 PROVE s \in P
    OBVIOUS
  <2>1. s # << >>
    BY <1>2
  <2>2. PICK t \in Seq(X), e \in X : s = Append(t, e)
    BY <2>1, SequenceEmptyOrAppend
  <2>3. Len(t) = n
    BY <2>2
  <2>4. QED
    BY <1>2, <2>2, <2>3
<1> HIDE DEF Q
<1>3. Nat \subseteq Q
  BY <1>1, <1>2, InductionOnNat
<1>4. ASSUME NEW s \in Seq(X) PROVE s \in P
  <2>1. Len(s) \in Q
    BY <1>3
  <2>2. QED
    BY <2>1 DEF Q
<1>5. QED
  BY <1>4

(* The same for the sequences that are not empty. *)
LEMMA InductionOnNonEmpty ==
  ASSUME NEW X, NEW P, \A e \in X : <<e>> \in P,
         \A s \in Seq(X), e \in X : s # << >> /\ s \in P => Append(s, e) \in P
  PROVE  \A s \in Seq(X) : s # << >> => s \in P
<1> DEFINE Q == {s \in Seq(X) : s # << >> => s \in P}
<1>1. << >> \in Q
  OBVIOUS
<1>2. ASSUME NEW s \in Seq(X), NEW e \in X, s \in Q PROVE Append(s, e) \in Q
  <2>1. Append(s, e) \in Seq(X)
    OBVIOUS
  <2>2. CASE s = << >>
    <3>1. Append(s, e) = <<e>>
      BY <2>2
    <3>2. QED
      BY <2>1, <3>1
  <2>3. CASE s # << >>
    BY <1>2, <2>1, <2>3
  <2>4. QED
    BY <2>2, <2>3
<1> HIDE DEF Q
<1>3. Seq(X) \subseteq Q
  BY <1>1, <1>2, InductionOnSeq
<1>4. QED
  BY <1>3 DEF Q
-------------------------------------------------------------------------------
(* Recursive functions on 0 .. n *)

(* f is the function that begins with first and goes on by step. *)
Recurs(f, first, step, n) ==
  /\ f[0] = first
  /\ \A k \in 1 .. n : f[k] = step[k, f[k - 1]]

LEMMA RecursionExists ==
  ASSUME NEW S, NEW first \in S, NEW step \in [Nat \X S -> S], NEW n \in Nat
  PROVE  \E f \in [0 .. n -> S] : Recurs(f, first, step, n)
<1> DEFINE P == {k \in Nat : \E f \in [0 .. k -> S] : Recurs(f, first, step, k)}
<1>1. 0 \in P
  <2>1. [i \in 0 .. 0 |-> first] \in [0 .. 0 -> S]
    OBVIOUS
  <2>2. Recurs([i \in 0 .. 0 |-> first], first, step, 0)
    BY DEF Recurs
  <2>3. QED
    BY <2>1, <2>2
<1>2. ASSUME NEW k \in Nat, k \in P PROVE k + 1 \in P
  <2>1. PICK f \in [0 .. k -> S] : Recurs(f, first, step, k)
    BY <1>2
  <2> DEFINE g == [i \in 0 .. k + 1 |-> IF i = k + 1 THEN step[k + 1, f[k]] ELSE f[i]]
  <2>2. step[k + 1, f[k]] \in S
    <3>1. f[k] \in S /\ k + 1 \in Nat
      OBVIOUS
    <3>2. <<k + 1, f[k]>> \in Nat \X S
      BY <3>1
    <3>3. QED
      BY <3>2
  <2>3. g \in [0 .. k + 1 -> S]
    <3>1. ASSUME NEW i \in 0 .. k + 1, i # k + 1 PROVE i \in 0 .. k
      BY <3>1
    <3>2. QED
      BY <2>2, <3>1
  <2>4. g[k + 1] = step[k + 1, f[k]]
    <3>1. k + 1 \in 0 .. k + 1
      OBVIOUS
    <3>2. QED
      BY <3>1
  <2>5. ASSUME NEW i \in 0 .. k PROVE g[i] = f[i]
    <3>1. i \in 0 .. k + 1 /\ i # k + 1
      OBVIOUS
    <3>2. QED
      BY <3>1
  <2> HIDE DEF g
  <2>6. g[0] = first
    <3>1. 0 \in 0 .. k
      OBVIOUS
    <3>2. QED
      BY <2>1, <2>5, <3>1 DEF Recurs
  <2>7. ASSUME NEW i \in 1 .. k + 1 PROVE g[i] = step[i, g[i - 1]]
    <3>1. i - 1 \in 0 .. k
      OBVIOUS
    <3>2. CASE i = k + 1
      <4>1. i - 1 = k
        BY <3>2
      <4>2. g[k] = f[k]
        BY <2>5, <3>1, <4>1
      <4>3. QED
        BY <2>4, <3>2, <4>1, <4>2, Zenon
    <3>3. CASE i # k + 1
      <4>1. i \in 1 .. k
        BY <3>3
      <4>2. f[i] = step[i, f[i - 1]]
        BY <2>1, <4>1 DEF Recurs
      <4>3. g[i] = f[i] /\ g[i - 1] = f[i - 1]
        BY <2>5, <3>1, <4>1
      <4>4. QED
        BY <4>2, <4>3, Zenon
    <3>4. QED
      BY <3>2, <3>3
  <2>8. Recurs(g, first, step, k + 1)
    BY <2>6, <2>7 DEF Recurs
  <2>9. QED
    BY <2>3, <2>8
<1> HIDE DEF P
<1>3. Nat \subseteq P
  BY <1>1, <1>2, InductionOnNat
<1>4. QED
  BY <1>3 DEF P
-------------------------------------------------------------------------------
(* split *)

(* What one token more makes of the parts. *)
WithToken(v, t, sep) ==
  IF t = sep THEN Append(v, << >>) ELSE Append(Front(v), Append(Last(v), t))

Splits(f, s, sep) ==
  /\ f[0] = << << >> >>
  /\ \A n \in 1 .. Len(s) : f[n] = WithToken(f[n - 1], s[n], sep)

PartLists(X) == Seq(Seq(X)) \ {<< >>}

LEMMA LastPart ==
  ASSUME NEW X, NEW v \in PartLists(X)
  PROVE  Front(v) \in Seq(Seq(X)) /\ Last(v) \in Seq(X) /\ v = Append(Front(v), Last(v))
<1>1. v \in Seq(Seq(X)) /\ v # << >>
  BY DEF PartLists
<1>2. Len(v) \in Nat /\ Len(v) >= 1
  BY <1>1
<1>3. Last(v) \in Seq(X)
  BY <1>1, <1>2 DEF Last
<1>4. SubSeq(v, 1, Len(v) - 1) \in Seq(Seq(X))
  BY <1>1, <1>2
<1>5. v = Append(SubSeq(v, 1, Len(v) - 1), v[Len(v)])
  BY <1>1, <1>2
<1>6. QED
  BY <1>3, <1>4, <1>5 DEF Front, Last

LEMMA WithTokenType ==
  ASSUME NEW X, NEW v \in PartLists(X), NEW t \in X, NEW sep
  PROVE  WithToken(v, t, sep) \in PartLists(X)
<1>1. /\ v \in Seq(Seq(X)) /\ Front(v) \in Seq(Seq(X)) /\ Last(v) \in Seq(X)
      /\ << >> \in Seq(X) /\ Append(Last(v), t) \in Seq(X)
  BY LastPart DEF PartLists
<1>2. ASSUME NEW w \in Seq(Seq(X)), NEW p \in Seq(X)
      PROVE  Append(w, p) \in PartLists(X)
  <2> DEFINE Y == Seq(X)
  <2> HIDE DEF Y
  <2>1. w \in Seq(Y) /\ p \in Y
    BY DEF Y
  <2>2. Append(w, p) \in Seq(Y) /\ Append(w, p) # << >>
    BY <2>1, AppendProperties
  <2>3. QED
    BY <2>2 DEF PartLists, Y
<1>3. QED
  BY <1>1, <1>2 DEF WithToken

LEMMA SplitRecursion ==
  ASSUME NEW X, NEW s \in Seq(X), NEW sep
  PROVE  \E f : Splits(f, s, sep) /\ split(s, sep) = f[Len(s)]
<1> DEFINE N == Len(s)
           Solves(g) == g = [n \in 0 .. N |->
                         IF n = 0 THEN << << >> >>
                         ELSE LET v == g[n - 1]
                              IN  IF s[n] = sep THEN Append(v, << >>)
                                  ELSE Append(Front(v), Append(Last(v), s[n]))]
           V == PartLists(X)
           step == [p \in Nat \X V |->
                     IF p[1] \in 1 .. N THEN WithToken(p[2], s[p[1]], sep) ELSE p[2]]
<1>1. N \in Nat /\ \A n \in 1 .. N : s[n] \in X
  OBVIOUS
<1>2. << << >> >> \in V
  BY DEF PartLists
<1>3. step \in [Nat \X V -> V]
  <2>1. ASSUME NEW p \in Nat \X V, p[1] \in 1 .. N
        PROVE  WithToken(p[2], s[p[1]], sep) \in V
    <3>1. p[2] \in V /\ s[p[1]] \in X
      BY <1>1, <2>1
    <3>2. QED
      BY <3>1, WithTokenType
  <2>2. QED
    BY <2>1
<1>4. ASSUME NEW n \in 1 .. N, NEW v \in V PROVE step[n, v] = WithToken(v, s[n], sep)
  <2>1. <<n, v>> \in Nat \X V /\ <<n, v>>[1] = n /\ <<n, v>>[2] = v
    BY <1>1
  <2>2. QED
    BY <2>1
<1> HIDE DEF step, V, N
<1>5. PICK h \in [0 .. N -> V] : Recurs(h, << << >> >>, step, N)
  BY <1>1, <1>2, <1>3, RecursionExists
<1>6. h[0] = << << >> >>
  BY <1>5 DEF Recurs
<1>7. ASSUME NEW n \in 1 .. N PROVE h[n] = WithToken(h[n - 1], s[n], sep)
  <2>1. n - 1 \in 0 .. N
    BY <1>1
  <2>2. h[n] = step[n, h[n - 1]] /\ h[n - 1] \in V
    BY <1>5, <2>1 DEF Recurs
  <2>3. QED
    BY <1>4, <2>2
<1>8. Solves(h)
  <2>1. h = [n \in 0 .. N |-> h[n]]
    BY <1>5
  <2>2. ASSUME NEW n \in 0 .. N
        PROVE  h[n] = IF n = 0 THEN << << >> >>
                      ELSE LET v == h[n - 1]
                           IN  IF s[n] = sep THEN Append(v, << >>)
                               ELSE Append(Front(v), Append(Last(v), s[n]))
    <3>1. n # 0 => n \in 1 .. N
      BY <1>1
    <3>2. QED
      BY <1>6, <1>7, <3>1, Zenon DEF WithToken
  <2>3. QED
    BY <2>1, <2>2, Zenon
<1>9. PICK g : Solves(g) /\ split(s, sep) = g[N]
  BY <1>8 DEF split, N
<1>10. g[0] = << << >> >>
  BY <1>1, <1>9
<1>11. ASSUME NEW n \in 1 .. N PROVE g[n] = WithToken(g[n - 1], s[n], sep)
  <2>1. n # 0 /\ n \in 0 .. N
    BY <1>1
  <2>2. QED
    BY <1>9, <2>1, Zenon DEF WithToken
<1>12. QED
  BY <1>9, <1>10, <1>11 DEF Splits, N

LEMMA SplitEmpty == \A sep : split(<< >>, sep) = << << >> >>
<1> SUFFICES ASSUME NEW sep PROVE split(<< >>, sep) = << << >> >>
  OBVIOUS
<1>1. << >> \in Seq(Nat) /\ Len(<< >>) = 0
  OBVIOUS
<1>2. PICK f : Splits(f, << >>, sep) /\ split(<< >>, sep) = f[0]
  BY <1>1, SplitRecursion
<1>3. QED
  BY <1>2 DEF Splits

(* split reads a text from its beginning to its end. *)
LEMMA SplitAppend ==
  ASSUME NEW X, NEW s \in Seq(X), NEW t \in X, NEW sep
  PROVE  split(Append(s, t), sep) = WithToken(split(s, sep), t, sep)
<1> DEFINE r == Append(s, t)
           N == Len(s)
<1>1. /\ N \in Nat /\ r \in Seq(X) /\ Len(r) = N + 1 /\ r[N + 1] = t
      /\ \A n \in 1 .. N : r[n] = s[n]
  OBVIOUS
<1>2. PICK f : Splits(f, s, sep) /\ split(s, sep) = f[N]
  BY SplitRecursion
<1> HIDE DEF r
<1>3. PICK g : Splits(g, r, sep) /\ split(r, sep) = g[N + 1]
  BY <1>1, SplitRecursion
<1> DEFINE P == {n \in Nat : n <= N => g[n] = f[n]}
<1>4. 0 \in P
  BY <1>2, <1>3 DEF Splits
<1>5. ASSUME NEW n \in Nat, n \in P PROVE n + 1 \in P
  <2> SUFFICES ASSUME n + 1 <= N PROVE g[n + 1] = f[n + 1]
    OBVIOUS
  <2>1. /\ n + 1 \in 1 .. N /\ n + 1 \in 1 .. N + 1 /\ (n + 1) - 1 = n
        /\ g[n] = f[n]
    BY <1>1, <1>5
  <2>2. /\ f[n + 1] = WithToken(f[n], s[n + 1], sep)
        /\ g[n + 1] = WithToken(g[n], r[n + 1], sep)
    BY <1>1, <1>2, <1>3, <2>1 DEF Splits
  <2>3. QED
    BY <1>1, <2>1, <2>2
<1> HIDE DEF P
<1>6. Nat \subseteq P
  BY <1>4, <1>5, InductionOnNat
<1>7. g[N] = f[N]
  BY <1>1, <1>6 DEF P
<1>8. g[N + 1] = WithToken(g[N], t, sep)
  <2>1. N + 1 \in 1 .. Len(r) /\ (N + 1) - 1 = N
    BY <1>1
  <2>2. QED
    BY <1>1, <1>3, <2>1 DEF Splits
<1>9. QED
  BY <1>2, <1>3, <1>7, <1>8 DEF r
-------------------------------------------------------------------------------
(* Joined *)

Joins(f, p, sep) ==
  /\ f[1] = p[1]
  /\ \A n \in 2 .. Len(p) : f[n] = f[n - 1] \o <<sep>> \o p[n]

LEMMA JoinedRecursion ==
  ASSUME NEW X, NEW sep \in X, NEW p \in PartLists(X)
  PROVE  \E f : Joins(f, p, sep) /\ Joined(p, sep) = f[Len(p)]
<1> DEFINE N == Len(p)
           S == Seq(X)
           Solves(g) == g = [n \in 1 .. N |->
                         IF n = 1 THEN p[1] ELSE g[n - 1] \o <<sep>> \o p[n]]
           step == [q \in Nat \X S |->
                     IF q[1] \in 1 .. N - 1 THEN q[2] \o <<sep>> \o p[q[1] + 1] ELSE q[2]]
<1>1. p \in Seq(Seq(X)) /\ p # << >>
  BY DEF PartLists
<1>2. N \in Nat /\ N >= 1 /\ \A n \in 1 .. N : p[n] \in S
  BY <1>1
<1>3. \A s \in S, n \in 1 .. N : s \o <<sep>> \o p[n] \in S
  <2>1. <<sep>> \in S
    OBVIOUS
  <2>2. QED
    BY <1>2, <2>1
<1>4. step \in [Nat \X S -> S]
  <2>1. ASSUME NEW q \in Nat \X S, q[1] \in 1 .. N - 1
        PROVE  q[2] \o <<sep>> \o p[q[1] + 1] \in S
    <3>1. q[2] \in S /\ q[1] + 1 \in 1 .. N
      BY <1>2, <2>1
    <3>2. QED
      BY <1>3, <3>1
  <2> HIDE DEF S
  <2>2. QED
    BY <2>1
<1>5. ASSUME NEW n \in 1 .. N - 1, NEW s \in S
      PROVE  step[n, s] = s \o <<sep>> \o p[n + 1]
  <2>1. <<n, s>> \in Nat \X S /\ <<n, s>>[1] = n /\ <<n, s>>[2] = s
    BY <1>2
  <2>2. QED
    BY <2>1, Zenon
<1> HIDE DEF step, S, N
<1>6. N - 1 \in Nat /\ p[1] \in S
  BY <1>2
<1>7. PICK f \in [0 .. N - 1 -> S] : Recurs(f, p[1], step, N - 1)
  BY <1>4, <1>6, RecursionExists
<1> DEFINE h == [n \in 1 .. N |-> f[n - 1]]
<1>8. h[1] = p[1]
  <2>1. 1 \in 1 .. N /\ 1 - 1 = 0
    BY <1>2
  <2>2. QED
    BY <1>7, <2>1 DEF Recurs
<1>9. ASSUME NEW n \in 1 .. N, n # 1
      PROVE  h[n] = h[n - 1] \o <<sep>> \o p[n]
  <2>1. /\ n - 1 \in 1 .. N - 1 /\ n - 1 \in 1 .. N /\ (n - 1) - 1 \in 0 .. N - 1
        /\ (n - 1) + 1 = n
    BY <1>2, <1>9
  <2>2. h[n] = f[n - 1] /\ h[n - 1] = f[(n - 1) - 1]
    BY <2>1
  <2>3. f[n - 1] = step[n - 1, f[(n - 1) - 1]] /\ f[(n - 1) - 1] \in S
    BY <1>7, <2>1 DEF Recurs
  <2>4. step[n - 1, f[(n - 1) - 1]] = f[(n - 1) - 1] \o <<sep>> \o p[(n - 1) + 1]
    BY <1>5, <2>1, <2>3
  <2>5. QED
    BY <2>1, <2>2, <2>3, <2>4, Zenon
<1>10. h = [n \in 1 .. N |-> h[n]]
  OBVIOUS
<1> HIDE DEF h
<1>11. Solves(h)
  <2>1. ASSUME NEW n \in 1 .. N
        PROVE  h[n] = IF n = 1 THEN p[1] ELSE h[n - 1] \o <<sep>> \o p[n]
    BY <1>8, <1>9, Zenon
  <2>2. QED
    BY <1>10, <2>1, Zenon
<1>12. PICK g : Solves(g) /\ Joined(p, sep) = g[N]
  BY <1>11 DEF Joined, N
<1>13. g[1] = p[1]
  <2>1. 1 \in 1 .. N
    BY <1>2
  <2>2. QED
    BY <1>12, <2>1, Zenon
<1>14. ASSUME NEW n \in 2 .. N PROVE g[n] = g[n - 1] \o <<sep>> \o p[n]
  <2>1. n # 1 /\ n \in 1 .. N
    BY <1>2
  <2>2. QED
    BY <1>12, <2>1, Zenon
<1>15. QED
  BY <1>12, <1>13, <1>14 DEF Joins, N

LEMMA JoinedOne ==
  ASSUME NEW X, NEW sep \in X, NEW a \in Seq(X)
  PROVE  Joined(<<a>>, sep) = a
<1>1. <<a>> \in PartLists(X) /\ Len(<<a>>) = 1 /\ <<a>>[1] = a
  BY DEF PartLists
<1>2. PICK f : Joins(f, <<a>>, sep) /\ Joined(<<a>>, sep) = f[1]
  BY <1>1, JoinedRecursion
<1>3. QED
  BY <1>1, <1>2 DEF Joins

LEMMA PartListsAppend ==
  ASSUME NEW X, NEW p \in Seq(Seq(X)), NEW a \in Seq(X)
  PROVE  /\ Append(p, a) \in PartLists(X)
         /\ Len(Append(p, a)) = Len(p) + 1
         /\ Append(p, a)[Len(p) + 1] = a
         /\ \A n \in 1 .. Len(p) : Append(p, a)[n] = p[n]
<1> DEFINE Y == Seq(X)
<1> HIDE DEF Y
<1>1. p \in Seq(Y) /\ a \in Y
  BY DEF Y
<1>2. Append(p, a) \in Seq(Y) /\ Append(p, a) # << >>
  BY <1>1, AppendProperties
<1>3. Append(p, a) \in PartLists(X)
  BY <1>2 DEF PartLists, Y
<1>4. QED
  BY <1>1, <1>3

LEMMA JoinedAppend ==
  ASSUME NEW X, NEW sep \in X, NEW p \in PartLists(X), NEW a \in Seq(X)
  PROVE  Joined(Append(p, a), sep) = Joined(p, sep) \o <<sep>> \o a
<1> DEFINE r == Append(p, a)
           N == Len(p)
<1>1. p \in Seq(Seq(X)) /\ p # << >>
  BY DEF PartLists
<1>2. N \in Nat /\ N >= 1
  BY <1>1
<1>3. /\ r \in PartLists(X) /\ Len(r) = N + 1 /\ r[N + 1] = a
      /\ \A n \in 1 .. N : r[n] = p[n]
  BY <1>1, PartListsAppend
<1> HIDE DEF r
<1>4. PICK f : Joins(f, p, sep) /\ Joined(p, sep) = f[N]
  BY JoinedRecursion
<1>5. PICK g : Joins(g, r, sep) /\ Joined(r, sep) = g[N + 1]
  BY <1>3, JoinedRecursion
<1> HIDE DEF N
<1> DEFINE P == {n \in Nat : n + 1 <= N => g[n + 1] = f[n + 1]}
<1>6. 0 \in P
  <2>1. r[1] = p[1]
    BY <1>2, <1>3
  <2>2. QED
    BY <1>4, <1>5, <2>1 DEF Joins
<1>7. ASSUME NEW n \in Nat, n \in P PROVE n + 1 \in P
  <2> SUFFICES ASSUME n + 2 <= N PROVE g[n + 2] = f[n + 2]
    OBVIOUS
  <2>1. /\ n + 2 \in 1 .. N /\ n + 2 \in 2 .. N /\ n + 2 \in 2 .. N + 1
        /\ (n + 2) - 1 = n + 1
    BY <1>2
  <2>2. g[n + 1] = f[n + 1]
    BY <1>2, <1>7
  <2> HIDE DEF P
  <2>3. f[n + 2] = f[n + 1] \o <<sep>> \o p[n + 2]
    BY <1>4, <2>1 DEF Joins, N
  <2>4. g[n + 2] = g[n + 1] \o <<sep>> \o r[n + 2]
    BY <1>3, <1>5, <2>1 DEF Joins
  <2>5. r[n + 2] = p[n + 2]
    BY <1>3, <2>1
  <2>6. QED
    BY <2>2, <2>3, <2>4, <2>5, Zenon
<1> HIDE DEF P
<1>8. Nat \subseteq P
  BY <1>6, <1>7, InductionOnNat
<1>9. g[N] = f[N]
  <2>1. N - 1 \in P
    BY <1>2, <1>8
  <2>2. QED
    BY <1>2, <2>1 DEF P
<1>10. g[N + 1] = g[N] \o <<sep>> \o r[N + 1]
  <2>1. N + 1 \in 2 .. Len(r) /\ (N + 1) - 1 = N
    BY <1>2, <1>3
  <2>2. QED
    BY <1>5, <2>1 DEF Joins
<1>11. QED
  BY <1>3, <1>4, <1>5, <1>9, <1>10, Zenon DEF r

(* Named, so that each use cites the one instance it needs. *)
Grouped(s, t, u)     == (s \o t) \o u = s \o (t \o u)
GroupedFour(s, t, u, v) == ((s \o t) \o u) \o v = s \o ((t \o u) \o v)
AppendedLast(s, a, t)  == s \o Append(a, t) = Append(s \o a, t)

LEMMA Regrouped ==
  ASSUME NEW X, NEW s \in Seq(X), NEW t \in Seq(X), NEW u \in Seq(X)
  PROVE  Grouped(s, t, u)
BY ConcatAssociative, SMTT(30) DEF Grouped

LEMMA RegroupedFour ==
  ASSUME NEW X, NEW s \in Seq(X), NEW t \in Seq(X), NEW u \in Seq(X), NEW v \in Seq(X)
  PROVE  GroupedFour(s, t, u, v)
<1> DEFINE m == t \o u
<1>1. m \in Seq(X)
  OBVIOUS
<1>2. Grouped(s, t, u)
  BY Regrouped
<1> HIDE DEF m
<1>3. Grouped(s, m, v)
  BY <1>1, Regrouped
<1>4. QED
  BY <1>2, <1>3, Zenon DEF m, Grouped, GroupedFour

LEMMA InductionOnPartLists ==
  ASSUME NEW X, NEW P, \A a \in Seq(X) : <<a>> \in P,
         \A p \in PartLists(X), a \in Seq(X) : p \in P => Append(p, a) \in P
  PROVE  PartLists(X) \subseteq P
<1> DEFINE Y == Seq(X)
<1>1. \A a \in Y : <<a>> \in P
  OBVIOUS
<1>2. \A p \in Seq(Y), a \in Y : p # << >> /\ p \in P => Append(p, a) \in P
  BY DEF PartLists
<1> HIDE DEF Y
<1>3. \A p \in Seq(Y) : p # << >> => p \in P
  BY <1>1, <1>2, InductionOnNonEmpty
<1>4. QED
  BY <1>3 DEF PartLists, Y

LEMMA JoinedType ==
  ASSUME NEW X, NEW sep \in X, NEW p \in PartLists(X)
  PROVE  Joined(p, sep) \in Seq(X)
<1> DEFINE P == {q \in PartLists(X) : Joined(q, sep) \in Seq(X)}
<1>1. ASSUME NEW a \in Seq(X) PROVE <<a>> \in P
  BY JoinedOne DEF PartLists
<1>2. ASSUME NEW q \in PartLists(X), NEW a \in Seq(X), q \in P PROVE Append(q, a) \in P
  <2>1. Joined(q, sep) \in Seq(X) /\ <<sep>> \in Seq(X)
    BY <1>2
  <2>2. Joined(q, sep) \o <<sep>> \o a \in Seq(X)
    BY <2>1
  <2>3. Append(q, a) \in PartLists(X)
    BY PartListsAppend DEF PartLists
  <2>4. QED
    BY <2>2, <2>3, JoinedAppend
<1> HIDE DEF P
<1>3. PartLists(X) \subseteq P
  BY <1>1, <1>2, InductionOnPartLists
<1>4. QED
  BY <1>3 DEF P

LEMMA ConcatAppend ==
  ASSUME NEW X, NEW s \in Seq(X), NEW a \in Seq(X), NEW t \in X
  PROVE  AppendedLast(s, a, t)
<1>1. <<t>> \in Seq(X) /\ s \o a \in Seq(X)
  OBVIOUS
<1>2. Append(a, t) = a \o <<t>> /\ Append(s \o a, t) = (s \o a) \o <<t>>
  BY <1>1, AppendIsConcat
<1>3. Grouped(s, a, <<t>>)
  BY <1>1, Regrouped
<1>4. QED
  BY <1>2, <1>3, Zenon DEF Grouped, AppendedLast

(* A token at the end of the last part is the last token of the text. *)
LEMMA JoinedExtend ==
  ASSUME NEW X, NEW sep \in X, NEW w \in Seq(Seq(X)), NEW a \in Seq(X), NEW t \in X
  PROVE  Joined(Append(w, Append(a, t)), sep) = Append(Joined(Append(w, a), sep), t)
<1>1. Append(a, t) \in Seq(X)
  OBVIOUS
<1>2. CASE w = << >>
  <2>1. Append(w, Append(a, t)) = <<Append(a, t)>> /\ Append(w, a) = <<a>>
    BY <1>2
  <2>2. QED
    BY <1>1, <2>1, JoinedOne
<1>3. CASE w # << >>
  <2>1. w \in PartLists(X)
    BY <1>3 DEF PartLists
  <2>2. Joined(w, sep) \in Seq(X)
    BY <2>1, JoinedType
  <2>3. Joined(w, sep) \o <<sep>> \in Seq(X)
    BY <2>2
  <2>4. /\ Joined(Append(w, Append(a, t)), sep) = Joined(w, sep) \o <<sep>> \o Append(a, t)
        /\ Joined(Append(w, a), sep) = Joined(w, sep) \o <<sep>> \o a
    BY <1>1, <2>1, JoinedAppend
  <2> DEFINE b == Joined(w, sep) \o <<sep>>
  <2> HIDE DEF b
  <2>5. AppendedLast(b, a, t)
    BY <2>3, ConcatAppend DEF b
  <2>6. QED
    BY <2>4, <2>5, Zenon DEF b, AppendedLast
<1>4. QED
  BY <1>2, <1>3

LEMMA JoinedConcat ==
  ASSUME NEW X, NEW sep \in X, NEW p \in PartLists(X), NEW q \in PartLists(X)
  PROVE  Joined(p \o q, sep) = Joined(p, sep) \o <<sep>> \o Joined(q, sep)
<1> DEFINE P == {r \in PartLists(X) :
                   /\ p \o r \in PartLists(X)
                   /\ Joined(p \o r, sep) = Joined(p, sep) \o <<sep>> \o Joined(r, sep)}
           Y == Seq(X)
<1>1. p \in Seq(Seq(X)) /\ p # << >> /\ p \in Seq(Y)
  BY DEF PartLists
<1>2. ASSUME NEW a \in Seq(X) PROVE <<a>> \in P
  <2>1. <<a>> \in PartLists(X)
    BY DEF PartLists
  <2> HIDE DEF Y
  <2>2. p \o <<a>> = Append(p, a)
    <3>1. a \in Y
      BY DEF Y
    <3>2. QED
      BY <1>1, <3>1, AppendIsConcat
  <2>3. Append(p, a) \in PartLists(X)
    BY <1>1, PartListsAppend
  <2>4. Joined(<<a>>, sep) = a
    BY JoinedOne
  <2>5. Joined(Append(p, a), sep) = Joined(p, sep) \o <<sep>> \o a
    BY JoinedAppend
  <2>6. QED
    BY <2>1, <2>2, <2>3, <2>4, <2>5, Zenon
<1>3. ASSUME NEW r \in PartLists(X), NEW a \in Seq(X), r \in P PROVE Append(r, a) \in P
  <2>1. r \in Seq(Seq(X)) /\ r \in Seq(Y) /\ a \in Y
    BY DEF PartLists
  <2>2. /\ p \o r \in PartLists(X)
        /\ Joined(p \o r, sep) = Joined(p, sep) \o <<sep>> \o Joined(r, sep)
    BY <1>3
  <2> HIDE DEF P, Y
  <2>3. p \o Append(r, a) = Append(p \o r, a)
    <3>1. AppendedLast(p, r, a)
      BY <1>1, <2>1, ConcatAppend
    <3>2. QED
      BY <3>1, Zenon DEF AppendedLast
  <2>4. Append(r, a) \in PartLists(X)
    BY <2>1, PartListsAppend
  <2>5. Append(p \o r, a) \in PartLists(X)
    BY <2>2, PartListsAppend DEF PartLists
  <2>6. Joined(Append(p \o r, a), sep) = Joined(p \o r, sep) \o <<sep>> \o a
    BY <2>2, JoinedAppend
  <2>7. Joined(Append(r, a), sep) = Joined(r, sep) \o <<sep>> \o a
    BY JoinedAppend
  <2>8. /\ Joined(p, sep) \in Seq(X) /\ Joined(r, sep) \in Seq(X) /\ <<sep>> \in Seq(X)
    BY JoinedType
  <2>9. (Joined(p, sep) \o <<sep>> \o Joined(r, sep)) \o <<sep>> \o a
          = Joined(p, sep) \o <<sep>> \o (Joined(r, sep) \o <<sep>> \o a)
    <3> DEFINE u == Joined(p, sep) \o <<sep>>
               v == Joined(r, sep)
               w == <<sep>>
    <3>1. u \in Seq(X) /\ v \in Seq(X) /\ w \in Seq(X)
      BY <2>8
    <3> HIDE DEF u, v, w
    <3>2. GroupedFour(u, v, w, a)
      BY <3>1, RegroupedFour
    <3>3. QED
      BY <3>2, Zenon DEF u, v, w, GroupedFour
  <2>10. Joined(p \o Append(r, a), sep)
           = Joined(p, sep) \o <<sep>> \o Joined(Append(r, a), sep)
    BY <2>2, <2>3, <2>6, <2>7, <2>9, Zenon
  <2>11. QED
    BY <2>3, <2>4, <2>5, <2>10, Zenon DEF P
<1> HIDE DEF P
<1>4. PartLists(X) \subseteq P
  BY <1>2, <1>3, InductionOnPartLists
<1>5. QED
  BY <1>4 DEF P
-------------------------------------------------------------------------------
(* split and Joined are each other's inverse *)

LEMMA SplitType ==
  ASSUME NEW X, NEW s \in Seq(X), NEW sep
  PROVE  split(s, sep) \in PartLists(X \ {sep})
<1> DEFINE V == PartLists(X \ {sep})
           P == {r \in Seq(X) : split(r, sep) \in V}
<1>1. << >> \in P
  <2>1. << >> \in Seq(X)
    OBVIOUS
  <2>2. << << >> >> \in V
    BY DEF PartLists
  <2>3. QED
    BY <2>1, <2>2, SplitEmpty
<1>2. ASSUME NEW r \in Seq(X), NEW t \in X, r \in P PROVE Append(r, t) \in P
  <2>1. split(Append(r, t), sep) = WithToken(split(r, sep), t, sep)
    BY SplitAppend
  <2>2. WithToken(split(r, sep), t, sep) \in V
    <3>1. CASE t = sep
      <4>1. split(r, sep) \in Seq(Seq(X \ {sep})) /\ << >> \in Seq(X \ {sep})
        BY <1>2 DEF PartLists
      <4>2. Append(split(r, sep), << >>) \in V
        BY <4>1, PartListsAppend
      <4>3. QED
        BY <3>1, <4>2 DEF WithToken
    <3>2. CASE t # sep
      <4>1. t \in X \ {sep} /\ split(r, sep) \in V
        BY <1>2, <3>2
      <4>2. QED
        BY <4>1, WithTokenType
    <3>3. QED
      BY <3>1, <3>2
  <2>3. Append(r, t) \in Seq(X)
    OBVIOUS
  <2>4. QED
    BY <2>1, <2>2, <2>3
<1> HIDE DEF P
<1>3. Seq(X) \subseteq P
  BY <1>1, <1>2, InductionOnSeq
<1>4. QED
  BY <1>3 DEF P

LEMMA PartListsMonotonic ==
  ASSUME NEW X, NEW Y, X \subseteq Y
  PROVE  PartLists(X) \subseteq PartLists(Y) /\ Seq(X) \subseteq Seq(Y)
<1>1. Seq(X) \subseteq Seq(Y)
  BY SeqMonotonic
<1> DEFINE A == Seq(X)
           B == Seq(Y)
<1>2. A \subseteq B
  BY <1>1
<1> HIDE DEF A, B
<1>3. Seq(A) \subseteq Seq(B)
  BY <1>2, SeqMonotonic
<1>4. QED
  BY <1>1, <1>3 DEF PartLists, A, B

(* Nothing is lost: the parts with the separator between them are the text. *)
LEMMA JoinedSplit ==
  ASSUME NEW X, NEW sep \in X, NEW s \in Seq(X)
  PROVE  Joined(split(s, sep), sep) = s
<1> DEFINE P == {r \in Seq(X) : Joined(split(r, sep), sep) = r}
<1>1. << >> \in P
  <2>1. << >> \in Seq(X)
    OBVIOUS
  <2>2. split(<< >>, sep) = << << >> >>
    BY SplitEmpty
  <2>3. Joined(<< << >> >>, sep) = << >>
    BY <2>1, JoinedOne
  <2>4. QED
    BY <2>1, <2>2, <2>3
<1>2. ASSUME NEW r \in Seq(X), NEW t \in X, r \in P PROVE Append(r, t) \in P
  <2> DEFINE v == split(r, sep)
  <2>1. v \in PartLists(X)
    <3>1. v \in PartLists(X \ {sep})
      BY SplitType
    <3> HIDE DEF v
    <3>2. QED
      BY <3>1, PartListsMonotonic
  <2>2. split(Append(r, t), sep) = WithToken(v, t, sep)
    BY SplitAppend
  <2>3. Joined(v, sep) = r /\ << >> \in Seq(X) /\ Append(r, t) \in Seq(X)
    BY <1>2
  <2> HIDE DEF v
  <2>4. CASE t = sep
    <3>1. Joined(Append(v, << >>), sep) = Joined(v, sep) \o <<sep>> \o << >>
      BY <2>1, <2>3, JoinedAppend
    <3>2. r \o <<sep>> \o << >> = Append(r, sep)
      OBVIOUS
    <3>3. QED
      BY <2>2, <2>3, <2>4, <3>1, <3>2 DEF WithToken
  <2>5. CASE t # sep
    <3>1. Front(v) \in Seq(Seq(X)) /\ Last(v) \in Seq(X) /\ v = Append(Front(v), Last(v))
      BY <2>1, LastPart
    <3>2. Joined(Append(Front(v), Append(Last(v), t)), sep)
            = Append(Joined(Append(Front(v), Last(v)), sep), t)
      BY <3>1, JoinedExtend
    <3>3. Joined(Append(Front(v), Append(Last(v), t)), sep) = Append(r, t)
      BY <2>3, <3>1, <3>2, Zenon
    <3>4. QED
      BY <2>2, <2>3, <2>5, <3>3 DEF WithToken
  <2>6. QED
    BY <2>4, <2>5
<1> HIDE DEF P
<1>3. Seq(X) \subseteq P
  BY <1>1, <1>2, InductionOnSeq
<1>4. QED
  BY <1>3 DEF P

(* Text without the separator is one part. *)
LEMMA SplitPlain ==
  ASSUME NEW X, NEW sep, NEW a \in Seq(X \ {sep})
  PROVE  split(a, sep) = <<a>>
<1> DEFINE Z == X \ {sep}
           P == {r \in Seq(Z) : split(r, sep) = <<r>>}
<1>1. << >> \in P
  BY SplitEmpty
<1>2. ASSUME NEW r \in Seq(Z), NEW t \in Z, r \in P PROVE Append(r, t) \in P
  <2>1. split(Append(r, t), sep) = WithToken(<<r>>, t, sep)
    BY <1>2, SplitAppend
  <2>2. t # sep /\ Append(r, t) \in Seq(Z)
    OBVIOUS
  <2>3. Front(<<r>>) = << >> /\ Last(<<r>>) = r
    BY DEF Front, Last
  <2>4. Append(<< >>, Append(r, t)) = <<Append(r, t)>>
    OBVIOUS
  <2>5. QED
    BY <2>1, <2>2, <2>3, <2>4 DEF WithToken
<1> HIDE DEF P
<1>3. Seq(Z) \subseteq P
  BY <1>1, <1>2, InductionOnSeq
<1>4. QED
  BY <1>3 DEF P

LEMMA FrontLastConcat ==
  ASSUME NEW X, NEW v \in PartLists(X), NEW w \in PartLists(X)
  PROVE  /\ v \o w \in PartLists(X)
         /\ Front(v \o w) = v \o Front(w)
         /\ Last(v \o w) = Last(w)
<1> DEFINE Y == Seq(X)
           m == Front(w)
           e == Last(w)
<1>1. v \in Seq(Y) /\ w \in Seq(Y) /\ v # << >> /\ w # << >>
  BY DEF PartLists
<1>2. m \in Seq(Y) /\ e \in Y /\ w = Append(m, e)
  BY LastPart
<1> HIDE DEF Y, m, e
<1>3. v \o w = Append(v \o m, e)
  <2>1. AppendedLast(v, m, e)
    BY <1>1, <1>2, ConcatAppend
  <2>2. QED
    BY <1>1, <1>2, <2>1, Zenon DEF AppendedLast
<1>4. v \o m \in Seq(Y)
  BY <1>1, <1>2
<1>5. v \o w \in Seq(Y) /\ v \o w # << >>
  BY <1>2, <1>3, <1>4, AppendProperties
<1> DEFINE u == v \o m
<1>6. u \in Seq(Y) /\ v \o w = Append(u, e)
  BY <1>3, <1>4
<1> HIDE DEF u
<1>7. Front(Append(u, e)) = u /\ Last(Append(u, e)) = e
  <2>1. /\ Len(u) \in Nat /\ Append(u, e) \in Seq(Y) /\ Len(Append(u, e)) = Len(u) + 1
        /\ Append(u, e)[Len(u) + 1] = e
        /\ \A i \in 1 .. Len(u) : Append(u, e)[i] = u[i]
    BY <1>2, <1>6
  <2>2. SubSeq(Append(u, e), 1, Len(u)) = u
    BY <1>2, <1>6
  <2>3. QED
    BY <2>1, <2>2 DEF Front, Last
<1>8. QED
  BY <1>5, <1>6, <1>7, Zenon DEF PartLists, Y, u, m, e

LEMMA SplitPartList ==
  ASSUME NEW X, NEW s \in Seq(X), NEW sep
  PROVE  split(s, sep) \in PartLists(X)
<1>1. split(s, sep) \in PartLists(X \ {sep})
  BY SplitType
<1>2. X \ {sep} \subseteq X
  OBVIOUS
<1>3. QED
  BY <1>1, <1>2, PartListsMonotonic

LEMMA SplitConcat ==
  ASSUME NEW X, NEW sep \in X, NEW s \in Seq(X), NEW a \in Seq(X)
  PROVE  split(s \o <<sep>> \o a, sep) = split(s, sep) \o split(a, sep)
<1> DEFINE h == s \o <<sep>>
           v == split(s, sep)
           P == {r \in Seq(X) : split(h \o r, sep) = v \o split(r, sep)}
<1>1. h \in Seq(X) /\ h = Append(s, sep)
  OBVIOUS
<1>2. \A r \in Seq(X) : split(r, sep) \in PartLists(X)
  BY SplitPartList
<1>3. v \in PartLists(X)
  BY <1>2
<1>4. split(h, sep) = Append(v, << >>)
  <2>1. split(Append(s, sep), sep) = WithToken(v, sep, sep)
    BY SplitAppend
  <2> HIDE DEF h, v
  <2>2. QED
    BY <1>1, <2>1 DEF WithToken
<1> HIDE DEF h, v
<1>5. << >> \in P
  <2>1. << >> \in Seq(X) /\ h \o << >> = h
    BY <1>1
  <2>2. v \in Seq(Seq(X))
    BY <1>3 DEF PartLists
  <2>3. v \o << << >> >> = Append(v, << >>)
    <3> DEFINE Y == Seq(X)
    <3> HIDE DEF Y
    <3>1. v \in Seq(Y) /\ << >> \in Y
      BY <2>1, <2>2 DEF Y
    <3>2. QED
      BY <3>1, AppendIsConcat
  <2>4. QED
    BY <1>4, <2>1, <2>3, SplitEmpty
<1>6. ASSUME NEW r \in Seq(X), NEW t \in X, r \in P PROVE Append(r, t) \in P
  <2> DEFINE w == split(r, sep)
  <2>1. /\ h \o r \in Seq(X) /\ Append(r, t) \in Seq(X)
        /\ h \o Append(r, t) = Append(h \o r, t)
    <3>1. h \o r \in Seq(X) /\ Append(r, t) \in Seq(X)
      BY <1>1
    <3>2. AppendedLast(h, r, t)
      BY <1>1, ConcatAppend
    <3>3. QED
      BY <3>1, <3>2, Zenon DEF AppendedLast
  <2>2. split(Append(h \o r, t), sep) = WithToken(v \o w, t, sep)
    <3>1. split(Append(h \o r, t), sep) = WithToken(split(h \o r, sep), t, sep)
      BY <2>1, SplitAppend
    <3>2. QED
      BY <1>6, <3>1
  <2>3. split(Append(r, t), sep) = WithToken(w, t, sep)
    BY SplitAppend
  <2>4. w \in PartLists(X)
    BY <1>2
  <2> HIDE DEF w
  <2>5. WithToken(v \o w, t, sep) = v \o WithToken(w, t, sep)
    <3> DEFINE Y == Seq(X)
               m == Front(w)
               e == Append(Last(w), t)
    <3>1. v \in Seq(Y) /\ w \in Seq(Y) /\ << >> \in Y /\ m \in Seq(Y) /\ e \in Y
      <4>1. m \in Seq(Y) /\ Last(w) \in Y
        BY <2>4, LastPart
      <4>2. v \in Seq(Y) /\ w \in Seq(Y)
        BY <1>3, <2>4 DEF PartLists
      <4>3. << >> \in Y
        OBVIOUS
      <4>4. e \in Y
        BY <4>1
      <4>5. QED
        BY <4>1, <4>2, <4>3, <4>4
    <3>2. Front(v \o w) = v \o m /\ Append(Last(v \o w), t) = e
      BY <1>3, <2>4, FrontLastConcat
    <3> HIDE DEF Y, m, e
    <3>3. AppendedLast(v, w, << >>) /\ AppendedLast(v, m, e)
      BY <3>1, ConcatAppend
    <3>4. QED
      BY <3>2, <3>3, Zenon DEF WithToken, AppendedLast, m, e
  <2>6. QED
    BY <2>1, <2>2, <2>3, <2>5 DEF w
<1> HIDE DEF P
<1>7. Seq(X) \subseteq P
  BY <1>5, <1>6, InductionOnSeq
<1>8. QED
  BY <1>7 DEF P, h, v

(* What split makes of parts that have been joined: more parts when one of *)
(* them has a separator in it, else the parts again.                       *)
SplitsBack(p, v, X, sep) ==
  /\ v \in PartLists(X)
  /\ Len(v) >= Len(p)
  /\ Len(v) = Len(p) => v = p
  /\ p[1] \in Seq(X \ {sep}) => v[1] = p[1]
  /\ p \in PartLists(X \ {sep}) => v = p

LEMMA SplitOnePart ==
  ASSUME NEW X, NEW sep \in X, NEW a \in Seq(X)
  PROVE  SplitsBack(<<a>>, split(a, sep), X, sep)
<1> DEFINE v == split(a, sep)
<1>1. v \in PartLists(X)
  BY SplitPartList
<1>2. Joined(v, sep) = a
  BY JoinedSplit
<1>3. a \in Seq(X \ {sep}) => v = <<a>>
  BY SplitPlain
<1> HIDE DEF v
<1>4. v \in Seq(Seq(X)) /\ v # << >>
  BY <1>1 DEF PartLists
<1>5. Len(v) \in Nat /\ Len(v) >= 1
  BY <1>4
<1>6. Len(v) = 1 => v = <<a>>
  <2> SUFFICES ASSUME Len(v) = 1 PROVE v = <<a>>
    OBVIOUS
  <2>1. v = <<v[1]>> /\ v[1] \in Seq(X)
    BY <1>4
  <2>2. v[1] = a
    BY <1>2, <2>1, JoinedOne
  <2>3. QED
    BY <2>1, <2>2
<1>7. <<a>>[1] = a /\ Len(<<a>>) = 1
  OBVIOUS
<1>8. <<a>> \in PartLists(X \ {sep}) => a \in Seq(X \ {sep})
  <2>1. <<a>> \in Seq(Seq(X \ {sep})) => a \in Seq(X \ {sep})
    <3> DEFINE Y == Seq(X \ {sep})
    <3> HIDE DEF Y
    <3>1. <<a>> \in Seq(Y) => a \in Y
      BY <1>7, ElementOfSeq
    <3>2. QED
      BY <3>1 DEF Y
  <2>2. QED
    BY <2>1 DEF PartLists
<1>9. QED
  BY <1>1, <1>3, <1>5, <1>6, <1>7, <1>8 DEF SplitsBack, v

LEMMA SplitJoined ==
  ASSUME NEW X, NEW sep \in X, NEW p \in PartLists(X)
  PROVE  SplitsBack(p, split(Joined(p, sep), sep), X, sep)
<1> DEFINE P == {q \in PartLists(X) : SplitsBack(q, split(Joined(q, sep), sep), X, sep)}
<1>1. ASSUME NEW a \in Seq(X) PROVE <<a>> \in P
  <2>1. <<a>> \in PartLists(X)
    BY DEF PartLists
  <2>2. Joined(<<a>>, sep) = a
    BY JoinedOne
  <2>3. QED
    BY <2>1, <2>2, SplitOnePart
<1>2. ASSUME NEW q \in PartLists(X), NEW a \in Seq(X), q \in P PROVE Append(q, a) \in P
  <2> DEFINE v == split(Joined(q, sep), sep)
             w == split(a, sep)
             r == Append(q, a)
  <2>1. Joined(q, sep) \in Seq(X)
    BY JoinedType
  <2>2. split(Joined(r, sep), sep) = v \o w
    <3>1. Joined(r, sep) = Joined(q, sep) \o <<sep>> \o a
      BY JoinedAppend
    <3>2. split(Joined(q, sep) \o <<sep>> \o a, sep) = v \o w
      BY <2>1, SplitConcat
    <3>3. QED
      BY <3>1, <3>2, Zenon
  <2>3. SplitsBack(q, v, X, sep) /\ SplitsBack(<<a>>, w, X, sep)
    BY <1>2, SplitOnePart
  <2>4. q \in Seq(Seq(X)) /\ q # << >>
    BY DEF PartLists
  <2>5. /\ r \in PartLists(X) /\ Len(r) = Len(q) + 1 /\ r[Len(q) + 1] = a
        /\ \A n \in 1 .. Len(q) : r[n] = q[n]
    BY <2>4, PartListsAppend
  <2> HIDE DEF P, v, w, r
  <2> DEFINE Y == Seq(X)
  <2>6. v \in Seq(Y) /\ w \in Seq(Y) /\ v # << >> /\ w # << >> /\ q \in Seq(Y) /\ a \in Y
    BY <2>3, <2>4 DEF PartLists, SplitsBack
  <2>7. v \o w \in PartLists(X)
    BY <2>3, FrontLastConcat DEF SplitsBack
  <2> HIDE DEF Y
  <2>8. /\ Len(v) \in Nat /\ Len(w) \in Nat /\ Len(q) \in Nat /\ Len(v) >= 1 /\ Len(w) >= 1
        /\ Len(q) >= 1 /\ Len(v \o w) = Len(v) + Len(w) /\ (v \o w)[1] = v[1]
    BY <2>4, <2>6
  <2>9. Len(v) >= Len(q) /\ Len(<<a>>) = 1 /\ <<a>>[1] = a
    BY <2>3 DEF SplitsBack
  <2>10. r = q \o <<a>>
    BY <2>6, AppendIsConcat DEF r
  <2>11. Len(v \o w) >= Len(r)
    BY <2>5, <2>8, <2>9
  <2>12. Len(v \o w) = Len(r) => v \o w = r
    <3> SUFFICES ASSUME Len(v \o w) = Len(r) PROVE v \o w = r
      OBVIOUS
    <3>1. Len(v) = Len(q) /\ Len(w) = 1
      <4>1. \A i, j, k \in Nat : i >= k /\ j >= 1 /\ i + j = k + 1 => i = k /\ j = 1
        OBVIOUS
      <4>2. Len(v) + Len(w) = Len(q) + 1
        BY <2>5, <2>8, Zenon
      <4>3. QED
        BY <2>8, <2>9, <4>1, <4>2, Zenon
    <3>2. v = q /\ w = <<a>>
      BY <2>3, <2>9, <3>1 DEF SplitsBack
    <3>3. QED
      BY <2>10, <3>2
  <2>13. r[1] \in Seq(X \ {sep}) => (v \o w)[1] = r[1]
    <3>1. r[1] = q[1]
      BY <2>5, <2>8
    <3>2. QED
      BY <2>3, <2>8, <3>1 DEF SplitsBack
  <2>14. r \in PartLists(X \ {sep}) => v \o w = r
    <3> SUFFICES ASSUME r \in PartLists(X \ {sep}) PROVE v \o w = r
      OBVIOUS
    <3> DEFINE Z == Seq(X \ {sep})
    <3>1. r \in Seq(Z)
      BY DEF PartLists
    <3> HIDE DEF Z
    <3>2. \A n \in 1 .. Len(q) + 1 : r[n] \in Z
      BY <2>5, <3>1, ElementOfSeq
    <3>3. a \in Z /\ \A n \in 1 .. Len(q) : q[n] \in Z
      BY <2>5, <2>8, <3>2
    <3>4. q \in Seq(Z)
      BY <2>6, <2>8, <3>3
    <3>5. q \in PartLists(X \ {sep}) /\ a \in Seq(X \ {sep})
      BY <2>4, <3>3, <3>4 DEF Z, PartLists
    <3>6. v = q /\ w = <<a>>
      <4>1. w = <<a>>
        BY <3>5, SplitPlain DEF w
      <4>2. v = q
        BY <2>3, <3>5, Zenon DEF SplitsBack
      <4>3. QED
        BY <4>1, <4>2
    <3>7. QED
      BY <2>10, <3>6
  <2>15. SplitsBack(r, v \o w, X, sep)
    BY <2>7, <2>11, <2>12, <2>13, <2>14 DEF SplitsBack
  <2>16. QED
    BY <2>2, <2>5, <2>15 DEF P, r
<1> HIDE DEF P
<1>3. PartLists(X) \subseteq P
  BY <1>1, <1>2, InductionOnPartLists
<1>4. QED
  BY <1>3 DEF P
-------------------------------------------------------------------------------
(* Tokens, and the texts that are one token *)

LEMMA SeparatorsDiffer ==
  /\ Bar \in Token /\ Comma \in Token /\ Semi \in Token /\ Colon \in Token
  /\ Bar # Comma /\ Bar # Semi /\ Bar # Colon
  /\ Comma # Semi /\ Comma # Colon /\ Semi # Colon
<1>1. \A c, d : Separator(c) = Separator(d) => c = d
  BY DEF Separator
<1>2. QED
  BY <1>1 DEF Bar, Comma, Semi, Colon, Token, Separators

(* Words and numerals. *)
Written == Token \ Separators

LEMMA WrittenTokens ==
  /\ \A n \in Int, z \in Nat : Numeral(n, z) \in Written /\ IsNumeral(Numeral(n, z))
  /\ \A w \in Words : Word(w) \in Written /\ ~IsNumeral(Word(w))
  /\ \A sep \in Separators : ~IsNumeral(sep)
<1>1. \A c, n, z : Numeral(n, z) # Separator(c)
  <2> SUFFICES ASSUME NEW c, NEW n, NEW z, Numeral(n, z) = Separator(c) PROVE FALSE
    OBVIOUS
  <2>1. DOMAIN Numeral(n, z) = {"number", "zeros"} /\ DOMAIN Separator(c) = {"separator"}
    BY DEF Numeral, Separator
  <2>2. "number" # "separator"
    OBVIOUS
  <2>3. QED
    BY <2>1, <2>2
<1>2. \A c, w : Word(w) # Separator(c)
  <2> SUFFICES ASSUME NEW c, NEW w, Word(w) = Separator(c) PROVE FALSE
    OBVIOUS
  <2>1. DOMAIN Word(w) = {"word"} /\ DOMAIN Separator(c) = {"separator"}
    BY DEF Word, Separator
  <2>2. "word" # "separator"
    OBVIOUS
  <2>3. QED
    BY <2>1, <2>2
<1>3. \A sep \in Separators : \E c : sep = Separator(c)
  BY DEF Separators, Bar, Comma, Semi, Colon
<1>4. ASSUME NEW n \in Int, NEW z \in Nat
      PROVE  Numeral(n, z) \in Written /\ IsNumeral(Numeral(n, z))
  <2>1. Numeral(n, z) \in [number : Int, zeros : Nat]
    BY DEF Numeral
  <2>2. Numeral(n, z) \notin Separators
    BY <1>1, <1>3, Zenon
  <2>3. IsNumeral(Numeral(n, z))
    BY DEF IsNumeral, Numeral
  <2>4. QED
    BY <2>1, <2>2, <2>3 DEF Written, Token
<1>5. ASSUME NEW w \in Words PROVE Word(w) \in Written /\ ~IsNumeral(Word(w))
  <2>1. Word(w) \in [word : Words]
    BY DEF Word
  <2>2. Word(w) \notin Separators
    BY <1>2, <1>3, Zenon
  <2>3. ~IsNumeral(Word(w))
    BY DEF IsNumeral, Word
  <2>4. QED
    BY <2>1, <2>2, <2>3 DEF Written, Token
<1>6. ASSUME NEW sep \in Separators PROVE ~IsNumeral(sep)
  <2>1. \A c : ~IsNumeral(Separator(c))
    BY DEF IsNumeral, Separator
  <2>2. QED
    BY <1>3, <2>1, Zenon
<1>7. QED
  BY <1>4, <1>5, <1>6

LEMMA NumeralTokens ==
  ASSUME NEW t \in Token, IsNumeral(t)
  PROVE  t.number \in Int /\ t.zeros \in Nat /\ t = Numeral(t.number, t.zeros)
<1>1. t \notin Separators
  BY WrittenTokens
<1>2. t \notin [word : Words]
  <2>1. \A r \in [word : Words] : DOMAIN r = {"word"}
    OBVIOUS
  <2>2. "number" # "word"
    OBVIOUS
  <2>3. QED
    BY <2>1, <2>2 DEF IsNumeral
<1>3. t \in [number : Int, zeros : Nat]
  BY <1>1, <1>2 DEF Token
<1>4. QED
  BY <1>3 DEF Numeral

LEMMA OneToken ==
  /\ \A n \in Int : to_string(n) \in Seq(Written)
  /\ \A v \in Words : ToStr(v) \in Seq(Written)
  /\ Seq(Written) \subseteq Seq(Token)
  /\ \A sep \in Separators : Seq(Written) \subseteq Seq(Token \ {sep})
<1>1. \A n \in Int : Numeral(n, 0) \in Written
  BY WrittenTokens
<1>2. \A v \in Words : Word(v) \in Written
  BY WrittenTokens
<1>3. \A n \in Int : to_string(n) \in Seq(Written)
  BY <1>1 DEF to_string
<1>4. ASSUME NEW v \in Words PROVE ToStr(v) \in Seq(Written)
  <2> DEFINE t == Word(v)
  <2>1. t \in Written
    BY <1>2
  <2> HIDE DEF t
  <2>2. <<t>> \in Seq(Written)
    BY <2>1
  <2>3. QED
    BY <2>2, Zenon DEF ToStr, t
<1>5. Seq(Written) \subseteq Seq(Token)
  <2>1. Written \subseteq Token
    BY DEF Written
  <2>2. QED
    BY <2>1, PartListsMonotonic
<1>6. ASSUME NEW sep \in Separators PROVE Seq(Written) \subseteq Seq(Token \ {sep})
  <2>1. Written \subseteq Token \ {sep}
    BY DEF Written
  <2>2. QED
    BY <2>1, PartListsMonotonic
<1>7. QED
  BY <1>3, <1>4, <1>5, <1>6

LEMMA ToStrInjective ==
  \A v, w : ToStr(v) = ToStr(w) => v = w
<1> SUFFICES ASSUME NEW v, NEW w, ToStr(v) = ToStr(w) PROVE v = w
  OBVIOUS
<1>1. <<Word(v)>>[1] = <<Word(w)>>[1]
  BY DEF ToStr
<1>2. Word(v).word = Word(w).word
  BY <1>1
<1>3. QED
  BY <1>2 DEF Word

(* The tables read what they have written, *)
LEMMA FromToStr ==
  ASSUME NEW table, NEW v \in table
  PROVE  FromStr(table, ToStr(v)) = v
BY ToStrInjective DEF FromStr

(* and have written what they read. *)
LEMMA ToFromStr ==
  ASSUME NEW table, NEW s, FromStr(table, s) # "INVALID"
  PROVE  FromStr(table, s) \in table /\ ToStr(FromStr(table, s)) = s
BY DEF FromStr

LEMMA ValidateWritten ==
  ASSUME NEW n \in Int
  PROVE  /\ validate_id_message(to_string(n), 1) <=> n \in Ids
         /\ NumberIn(to_string(n)) = n
<1>1. Len(to_string(n)) = 1 /\ to_string(n)[1] = Numeral(n, 0)
  BY DEF to_string
<1>2. Numeral(n, 0).number = n /\ IsNumeral(Numeral(n, 0))
  BY DEF Numeral, IsNumeral
<1>3. QED
  BY <1>1, <1>2 DEF validate_id_message, NumberIn, Ids

LEMMA ValidateRead ==
  ASSUME NEW s \in Seq(Token), validate_id_message(s, 1)
  PROVE  NumberIn(s) \in Ids /\ \E z \in Nat : s = << Numeral(NumberIn(s), z) >>
<1>1. /\ Len(s) = 1 /\ IsNumeral(s[1]) /\ NumberIn(s) \in Ids /\ NumberIn(s) = s[1].number
  BY DEF validate_id_message, NumberIn, Ids
<1>2. s[1] \in Token /\ s = << s[1] >>
  BY <1>1
<1>3. s[1].zeros \in Nat /\ s[1] = Numeral(s[1].number, s[1].zeros)
  BY <1>1, <1>2, NumeralTokens
<1>4. QED
  BY <1>1, <1>2, <1>3, Zenon
-------------------------------------------------------------------------------
(* Trimmed *)

LEMMA TrimmedSame == \A s : Trimmed(s, s)
BY DEF Trimmed

LEMMA TrimmedConcat ==
  ASSUME NEW d \in Seq(Token), NEW s \in Seq(Token), NEW e \in Seq(Token),
         NEW t \in Seq(Token), Trimmed(d, s), Trimmed(e, t)
  PROVE  Trimmed(d \o e, s \o t)
<1> DEFINE u == d \o e
           v == s \o t
           Cut(x, y) == x = y \/ (IsNumeral(y) /\ x = Numeral(y.number, 0))
<1>1. /\ Len(d) = Len(s) /\ \A i \in 1 .. Len(s) : Cut(d[i], s[i])
      /\ Len(e) = Len(t) /\ \A i \in 1 .. Len(t) : Cut(e[i], t[i])
  <2>1. DOMAIN s = 1 .. Len(s) /\ DOMAIN t = 1 .. Len(t)
    OBVIOUS
  <2>2. \A i \in 1 .. Len(s) : Cut(d[i], s[i])
    BY <2>1, Zenon DEF Trimmed
  <2>3. \A i \in 1 .. Len(t) : Cut(e[i], t[i])
    BY <2>1, Zenon DEF Trimmed
  <2>4. Len(d) = Len(s) /\ Len(e) = Len(t)
    BY Zenon DEF Trimmed
  <2>5. QED
    BY <2>2, <2>3, <2>4, Zenon
<1>2. /\ Len(s) \in Nat /\ Len(t) \in Nat /\ v \in Seq(Token)
      /\ Len(v) = Len(s) + Len(t) /\ DOMAIN v = 1 .. Len(s) + Len(t)
      /\ \A i \in 1 .. Len(s) : v[i] = s[i]
      /\ \A i \in 1 .. Len(t) : v[Len(s) + i] = t[i]
  OBVIOUS
<1>3. /\ Len(u) = Len(d) + Len(e)
      /\ \A i \in 1 .. Len(d) : u[i] = d[i]
      /\ \A i \in 1 .. Len(e) : u[Len(d) + i] = e[i]
  OBVIOUS
<1> HIDE DEF Cut, u, v
<1>4. ASSUME NEW i \in 1 .. Len(s) + Len(t) PROVE Cut(u[i], v[i])
  <2>1. CASE i \in 1 .. Len(s)
    BY <1>1, <1>2, <1>3, <2>1
  <2>2. CASE i \notin 1 .. Len(s)
    <3>1. i - Len(s) \in 1 .. Len(t) /\ Len(s) + (i - Len(s)) = i
      BY <1>2, <2>2
    <3>2. PICK k \in 1 .. Len(t) : Len(s) + k = i
      BY <3>1, Zenon
    <3>3. u[i] = e[k] /\ v[i] = t[k]
      BY <1>1, <1>2, <1>3, <3>2, Zenon
    <3>4. QED
      BY <1>1, <3>2, <3>3, Zenon
  <2>3. QED
    BY <2>1, <2>2
<1>5. Len(u) = Len(v)
  BY <1>1, <1>2, <1>3
<1>6. Trimmed(u, v)
  BY <1>2, <1>4, <1>5 DEF Trimmed, Cut
<1>7. QED
  BY <1>6 DEF u, v

LEMMA TrimmedBetween ==
  ASSUME NEW sep \in Token, NEW d \in Seq(Token), NEW s \in Seq(Token),
         NEW e \in Seq(Token), NEW t \in Seq(Token), Trimmed(d, s), Trimmed(e, t)
  PROVE  Trimmed(d \o <<sep>> \o e, s \o <<sep>> \o t)
<1> DEFINE one == <<sep>>
<1>1. one \in Seq(Token)
  OBVIOUS
<1> HIDE DEF one
<1>2. Trimmed(d \o one, s \o one)
  BY <1>1, TrimmedSame, TrimmedConcat
<1>3. d \o one \in Seq(Token) /\ s \o one \in Seq(Token)
  BY <1>1
<1>4. Trimmed((d \o one) \o e, (s \o one) \o t)
  BY <1>2, <1>3, TrimmedConcat
<1>5. QED
  BY <1>4, Zenon DEF one

LEMMA OneElement ==
  ASSUME NEW S, NEW s \in Seq(S), Len(s) = 1
  PROVE  s[1] \in S /\ s = << s[1] >>
<1>1. s[1] \in S
  OBVIOUS
<1>2. s = << s[1] >>
  OBVIOUS
<1>3. QED
  BY <1>1, <1>2

(* Texts whose parts differ in zeros at most differ in zeros at most. *)
TrimmedParts(p, q) ==
  /\ Len(p) = Len(q)
  /\ \A i \in 1 .. Len(p) : Trimmed(p[i], q[i])

LEMMA TrimmedJoined ==
  ASSUME NEW sep \in Separators, NEW p \in PartLists(Token), NEW q \in PartLists(Token),
         TrimmedParts(p, q)
  PROVE  Trimmed(Joined(p, sep), Joined(q, sep))
<1> DEFINE Like(r) == {v \in PartLists(Token) : TrimmedParts(r, v)}
           P == {r \in PartLists(Token) : \A v \in Like(r) :
                   Trimmed(Joined(r, sep), Joined(v, sep))}
           Y == Seq(Token)
<1>1. sep \in Token
  BY DEF Token
<1>2. ASSUME NEW a \in Seq(Token) PROVE <<a>> \in P
  <2>1. <<a>> \in PartLists(Token)
    BY DEF PartLists
  <2>2. ASSUME NEW v \in Like(<<a>>)
        PROVE  Trimmed(Joined(<<a>>, sep), Joined(v, sep))
    <3>1. v \in Seq(Y) /\ Len(v) = 1 /\ Trimmed(a, v[1])
      BY DEF TrimmedParts, PartLists
    <3> HIDE DEF Y
    <3>2. v[1] \in Y /\ v = <<v[1]>>
      BY <3>1, OneElement
    <3>3. Joined(<<a>>, sep) = a
      BY <1>1, JoinedOne
    <3>4. Joined(<<v[1]>>, sep) = v[1]
      BY <1>1, <3>2, JoinedOne DEF Y
    <3>5. QED
      BY <3>1, <3>2, <3>3, <3>4, Zenon
  <2>3. QED
    BY <2>1, <2>2
<1>3. ASSUME NEW r \in PartLists(Token), NEW a \in Seq(Token), r \in P
      PROVE  Append(r, a) \in P
  <2> DEFINE ra == Append(r, a)
             n == Len(r)
  <2>1. r \in Seq(Y) /\ a \in Y /\ r # << >>
    BY DEF PartLists
  <2>2. /\ ra \in PartLists(Token) /\ Len(ra) = n + 1 /\ ra[n + 1] = a
        /\ \A i \in 1 .. n : ra[i] = r[i]
    BY <2>1, PartListsAppend
  <2>3. n \in Nat /\ n >= 1
    BY <2>1
  <2> HIDE DEF ra, n
  <2>4. ASSUME NEW v \in PartLists(Token), TrimmedParts(ra, v)
        PROVE  Trimmed(Joined(ra, sep), Joined(v, sep))
    <3> DEFINE w == Front(v)
               b == Last(v)
    <3>1. w \in Seq(Y) /\ b \in Y /\ v = Append(w, b)
      BY LastPart
    <3> HIDE DEF w, b, Y
    <3>2. /\ Len(v) = Len(w) + 1 /\ Len(w) \in Nat /\ v[Len(w) + 1] = b
          /\ \A i \in 1 .. Len(w) : v[i] = w[i]
      BY <3>1, AppendProperties
    <3>3. Len(w) = n
      BY <2>2, <2>3, <2>4, <3>2 DEF TrimmedParts
    <3>4. TrimmedParts(r, w)
      <4>1. ASSUME NEW i \in 1 .. n PROVE Trimmed(r[i], w[i])
        <5>1. i \in 1 .. n + 1
          BY <2>3
        <5>2. Trimmed(ra[i], v[i])
          BY <2>2, <2>4, <5>1 DEF TrimmedParts
        <5>3. QED
          BY <2>2, <3>2, <3>3, <5>2, Zenon
      <4>2. QED
        BY <3>3, <4>1 DEF TrimmedParts, n
    <3>5. Trimmed(a, b)
      <4>1. n + 1 \in 1 .. n + 1
        BY <2>3
      <4>2. Trimmed(ra[n + 1], v[n + 1])
        BY <2>2, <2>4, <4>1 DEF TrimmedParts
      <4>3. QED
        BY <2>2, <3>2, <3>3, <4>2, Zenon
    <3>6. w \in PartLists(Token)
      <4>1. w # << >>
        BY <2>3, <3>3
      <4>2. QED
        BY <3>1, <4>1 DEF PartLists, Y
    <3>7. Trimmed(Joined(r, sep), Joined(w, sep))
      BY <1>3, <3>4, <3>6
    <3> HIDE DEF P
    <3>8. /\ Joined(ra, sep) = Joined(r, sep) \o <<sep>> \o a
          /\ Joined(v, sep) = Joined(w, sep) \o <<sep>> \o b
      BY <1>1, <2>1, <3>1, <3>6, JoinedAppend DEF Y, ra
    <3>9. Joined(r, sep) \in Seq(Token) /\ Joined(w, sep) \in Seq(Token)
      BY <1>1, <3>6, JoinedType
    <3>10. a \in Seq(Token) /\ b \in Seq(Token)
      BY <3>1 DEF Y
    <3>11. Trimmed(Joined(r, sep) \o <<sep>> \o a, Joined(w, sep) \o <<sep>> \o b)
      BY <1>1, <3>5, <3>7, <3>9, <3>10, TrimmedBetween
    <3>12. QED
      BY <3>8, <3>11, Zenon
  <2>5. QED
    BY <2>2, <2>4 DEF ra
<1> HIDE DEF P, Like
<1>4. PartLists(Token) \subseteq P
  BY <1>2, <1>3, InductionOnPartLists
<1>5. QED
  BY <1>4 DEF P, Like
-------------------------------------------------------------------------------
(* Size *)

LEMMA DigitsType ==
  ASSUME NEW n \in Int
  PROVE  Digits(n) \in Nat /\ Digits(n) >= 1
<1> DEFINE m == IF n < 0 THEN -n ELSE n
           powers == {k \in 1 .. m : Base ^ k <= m}
<1>1. m \in Int
  OBVIOUS
<1> HIDE DEF m
<1>2. IsFiniteSet(1 .. m)
  BY <1>1, FS_Interval
<1>3. powers \in SUBSET (1 .. m)
  OBVIOUS
<1> HIDE DEF powers
<1>4. Cardinality(powers) \in Nat
  BY <1>2, <1>3, FS_Subset, FS_CardinalityType
<1>5. Digits(n) = (IF n < 0 THEN 2 ELSE 1) + Cardinality(powers)
  BY Zenon DEF Digits, powers, m
<1>6. QED
  BY <1>4, <1>5

LEMMA TokenSizeType ==
  /\ \A t \in Token : TokenSize(t) \in Nat
  /\ \A n \in Int, z \in Nat : TokenSize(Numeral(n, z)) = z + Digits(n)
  /\ \A w \in Words : TokenSize(Word(w)) = WordSize[w] /\ WordSize[w] \in Nat
  /\ \A sep \in Separators : TokenSize(sep) = 1
<1>1. \A w \in Words : WordSize[w] \in Nat
  BY WireAssumption
<1>2. ASSUME NEW n \in Int, NEW z \in Nat PROVE TokenSize(Numeral(n, z)) = z + Digits(n)
  BY WrittenTokens DEF TokenSize, Numeral
<1>3. ASSUME NEW w \in Words PROVE TokenSize(Word(w)) = WordSize[w]
  <2>1. ~IsNumeral(Word(w))
    BY WrittenTokens
  <2>2. "word" \in DOMAIN Word(w) /\ Word(w).word = w
    BY DEF Word
  <2>3. QED
    BY <2>1, <2>2, Zenon DEF TokenSize
<1>4. ASSUME NEW sep \in Separators PROVE TokenSize(sep) = 1
  <2>1. ~IsNumeral(sep)
    BY WrittenTokens
  <2>2. \A c : "word" \notin DOMAIN Separator(c)
    BY DEF Separator
  <2>3. "word" \notin DOMAIN sep
    BY <2>2 DEF Separators, Bar, Comma, Semi, Colon
  <2>4. QED
    BY <2>1, <2>3, Zenon DEF TokenSize
<1>5. ASSUME NEW t \in Token PROVE TokenSize(t) \in Nat
  <2>1. CASE IsNumeral(t)
    <3>1. t.number \in Int /\ t.zeros \in Nat
      BY <2>1, NumeralTokens
    <3>2. Digits(t.number) \in Nat
      BY <3>1, DigitsType
    <3>3. QED
      BY <2>1, <3>1, <3>2 DEF TokenSize
  <2>2. CASE ~IsNumeral(t)
    <3>1. CASE t \in Separators
      BY <1>4, <3>1
    <3>2. CASE t \in [word : Words]
      <4>1. t.word \in Words /\ t = Word(t.word)
        BY <3>2 DEF Word
      <4>2. QED
        BY <1>1, <1>3, <4>1
    <3>3. CASE t \in [number : Int, zeros : Nat]
      BY <2>2, <3>3 DEF IsNumeral
    <3>4. QED
      BY <3>1, <3>2, <3>3 DEF Token
  <2>3. QED
    BY <2>1, <2>2
<1>6. QED
  BY <1>1, <1>2, <1>3, <1>4, <1>5

Sums(f, s) ==
  /\ f[0] = 0
  /\ \A n \in 1 .. Len(s) : f[n] = f[n - 1] + TokenSize(s[n])

LEMMA SizeRecursion ==
  ASSUME NEW s \in Seq(Token)
  PROVE  \E f : Sums(f, s) /\ Size(s) = f[Len(s)] /\ f[Len(s)] \in Nat
<1> DEFINE N == Len(s)
           Solves(g) == g = [n \in 0 .. N |->
                               IF n = 0 THEN 0 ELSE g[n - 1] + TokenSize(s[n])]
           step == [p \in Nat \X Nat |->
                      IF p[1] \in 1 .. N THEN p[2] + TokenSize(s[p[1]]) ELSE p[2]]
<1>1. N \in Nat /\ \A n \in 1 .. N : s[n] \in Token
  OBVIOUS
<1>2. \A n \in 1 .. N : TokenSize(s[n]) \in Nat
  BY <1>1, TokenSizeType
<1>3. step \in [Nat \X Nat -> Nat]
  BY <1>2
<1>4. ASSUME NEW n \in 1 .. N, NEW v \in Nat PROVE step[n, v] = v + TokenSize(s[n])
  <2>1. <<n, v>> \in Nat \X Nat /\ <<n, v>>[1] = n /\ <<n, v>>[2] = v
    BY <1>1
  <2>2. QED
    BY <2>1
<1> HIDE DEF step, N
<1>5. PICK h \in [0 .. N -> Nat] : Recurs(h, 0, step, N)
  BY <1>1, <1>3, RecursionExists
<1>6. h[0] = 0
  BY <1>5 DEF Recurs
<1>7. ASSUME NEW n \in 1 .. N PROVE h[n] = h[n - 1] + TokenSize(s[n])
  <2>1. n - 1 \in 0 .. N
    BY <1>1
  <2>2. h[n] = step[n, h[n - 1]] /\ h[n - 1] \in Nat
    BY <1>5, <2>1 DEF Recurs
  <2>3. QED
    BY <1>4, <2>2
<1>8. Solves(h)
  <2>1. h = [n \in 0 .. N |-> h[n]]
    BY <1>5
  <2>2. ASSUME NEW n \in 0 .. N
        PROVE  h[n] = IF n = 0 THEN 0 ELSE h[n - 1] + TokenSize(s[n])
    <3>1. n # 0 => n \in 1 .. N
      BY <1>1
    <3>2. QED
      BY <1>6, <1>7, <3>1, Zenon
  <2>3. QED
    BY <2>1, <2>2, Zenon
<1>9. PICK g : Solves(g) /\ Size(s) = g[N]
  BY <1>8 DEF Size, N
<1>10. g[0] = 0
  BY <1>1, <1>9
<1>11. ASSUME NEW n \in 1 .. N PROVE g[n] = g[n - 1] + TokenSize(s[n])
  <2>1. n # 0 /\ n \in 0 .. N
    BY <1>1
  <2>2. QED
    BY <1>9, <2>1, Zenon
<1> DEFINE P == {n \in Nat : n <= N => g[n] \in Nat}
<1>12. ASSUME NEW n \in Nat, n \in P PROVE n + 1 \in P
  <2> SUFFICES ASSUME n + 1 <= N PROVE g[n + 1] \in Nat
    OBVIOUS
  <2>1. n + 1 \in 1 .. N /\ (n + 1) - 1 = n /\ g[n] \in Nat
    BY <1>1, <1>12
  <2>2. g[n + 1] = g[n] + TokenSize(s[n + 1])
    BY <1>11, <2>1
  <2>3. QED
    BY <1>2, <2>1, <2>2
<1>13. 0 \in P
  BY <1>10
<1> HIDE DEF P
<1>14. Nat \subseteq P
  BY <1>12, <1>13, InductionOnNat
<1>15. g[N] \in Nat
  BY <1>1, <1>14 DEF P
<1>16. Sums(g, s)
  BY <1>10, <1>11 DEF Sums, N
<1>17. QED
  BY <1>9, <1>15, <1>16 DEF N

LEMMA SizeType == \A s \in Seq(Token) : Size(s) \in Nat
BY SizeRecursion

LEMMA SizeEmpty == Size(<< >>) = 0
<1>1. << >> \in Seq(Token) /\ Len(<< >>) = 0
  OBVIOUS
<1>2. PICK f : Sums(f, << >>) /\ Size(<< >>) = f[0]
  BY <1>1, SizeRecursion
<1>3. QED
  BY <1>2 DEF Sums

LEMMA SizeAppend ==
  ASSUME NEW s \in Seq(Token), NEW t \in Token
  PROVE  Size(Append(s, t)) = Size(s) + TokenSize(t)
<1> DEFINE r == Append(s, t)
           N == Len(s)
<1>1. /\ N \in Nat /\ r \in Seq(Token) /\ Len(r) = N + 1 /\ r[N + 1] = t
      /\ \A n \in 1 .. N : r[n] = s[n]
  OBVIOUS
<1>2. PICK f : Sums(f, s) /\ Size(s) = f[N]
  BY SizeRecursion
<1> HIDE DEF r
<1>3. PICK g : Sums(g, r) /\ Size(r) = g[N + 1]
  BY <1>1, SizeRecursion
<1> DEFINE P == {n \in Nat : n <= N => g[n] = f[n]}
<1>4. 0 \in P
  BY <1>2, <1>3 DEF Sums
<1>5. ASSUME NEW n \in Nat, n \in P PROVE n + 1 \in P
  <2> SUFFICES ASSUME n + 1 <= N PROVE g[n + 1] = f[n + 1]
    OBVIOUS
  <2>1. /\ n + 1 \in 1 .. N /\ n + 1 \in 1 .. N + 1 /\ (n + 1) - 1 = n
        /\ g[n] = f[n]
    BY <1>1, <1>5
  <2>2. /\ f[n + 1] = f[n] + TokenSize(s[n + 1])
        /\ g[n + 1] = g[n] + TokenSize(r[n + 1])
    BY <1>1, <1>2, <1>3, <2>1 DEF Sums
  <2>3. r[n + 1] = s[n + 1]
    BY <1>1, <2>1
  <2>4. QED
    BY <2>1, <2>2, <2>3, Zenon
<1> HIDE DEF P
<1>6. Nat \subseteq P
  BY <1>4, <1>5, InductionOnNat
<1>7. g[N] = f[N]
  BY <1>1, <1>6 DEF P
<1>8. g[N + 1] = g[N] + TokenSize(t)
  <2>1. N + 1 \in 1 .. Len(r) /\ (N + 1) - 1 = N
    BY <1>1
  <2>2. g[N + 1] = g[(N + 1) - 1] + TokenSize(r[N + 1])
    BY <1>3, <2>1 DEF Sums
  <2>3. QED
    BY <1>1, <2>1, <2>2, Zenon
<1>9. QED
  BY <1>2, <1>3, <1>7, <1>8 DEF r

LEMMA SizeOne == \A t \in Token : Size(<<t>>) = TokenSize(t)
<1> SUFFICES ASSUME NEW t \in Token PROVE Size(<<t>>) = TokenSize(t)
  OBVIOUS
<1>1. << >> \in Seq(Token) /\ Append(<< >>, t) = <<t>>
  OBVIOUS
<1>2. Size(Append(<< >>, t)) = Size(<< >>) + TokenSize(t)
  BY <1>1, SizeAppend
<1>3. TokenSize(t) \in Nat
  BY TokenSizeType
<1>4. QED
  BY <1>1, <1>2, <1>3, SizeEmpty

LEMMA SizeConcat ==
  ASSUME NEW s \in Seq(Token), NEW t \in Seq(Token)
  PROVE  Size(s \o t) = Size(s) + Size(t)
<1> DEFINE P == {u \in Seq(Token) : Size(s \o u) = Size(s) + Size(u)}
<1>1. << >> \in P
  <2>1. s \o << >> = s /\ << >> \in Seq(Token)
    BY ConcatEmptySeq
  <2>2. Size(s) \in Nat
    BY SizeType
  <2>3. QED
    BY <2>1, <2>2, SizeEmpty
<1>2. ASSUME NEW u \in Seq(Token), NEW e \in Token, u \in P PROVE Append(u, e) \in P
  <2>1. /\ s \o u \in Seq(Token) /\ Append(u, e) \in Seq(Token)
        /\ Size(s \o u) = Size(s) + Size(u)
    BY <1>2
  <2> HIDE DEF P
  <2>2. s \o Append(u, e) = Append(s \o u, e)
    <3>1. AppendedLast(s, u, e)
      BY ConcatAppend
    <3>2. QED
      BY <3>1, Zenon DEF AppendedLast
  <2>3. Size(Append(s \o u, e)) = Size(s \o u) + TokenSize(e)
    BY <2>1, SizeAppend
  <2>4. Size(Append(u, e)) = Size(u) + TokenSize(e)
    BY SizeAppend
  <2>5. Size(s) \in Nat /\ Size(u) \in Nat /\ TokenSize(e) \in Nat
    BY SizeType, TokenSizeType
  <2>6. Size(s \o Append(u, e)) = Size(s) + Size(Append(u, e))
    BY <2>1, <2>2, <2>3, <2>4, <2>5
  <2>7. QED
    BY <2>1, <2>6 DEF P
<1> HIDE DEF P
<1>3. Seq(Token) \subseteq P
  BY <1>1, <1>2, InductionOnSeq
<1>4. QED
  BY <1>3 DEF P

LEMMA SizeBetween ==
  ASSUME NEW sep \in Separators, NEW s \in Seq(Token), NEW t \in Seq(Token)
  PROVE  Size(s \o <<sep>> \o t) = Size(s) + 1 + Size(t)
<1> DEFINE one == <<sep>>
<1>1. sep \in Token
  BY DEF Token
<1>2. one \in Seq(Token) /\ Size(one) = 1
  BY <1>1, SizeOne, TokenSizeType
<1> HIDE DEF one
<1>3. s \o one \in Seq(Token) /\ Size(s \o one) = Size(s) + 1
  BY <1>2, SizeConcat
<1>4. Size((s \o one) \o t) = Size(s \o one) + Size(t)
  BY <1>3, SizeConcat
<1>5. QED
  BY <1>3, <1>4, Zenon DEF one

(* Leaving zeros out makes a text no longer. *)
LEMMA TrimmedIsNoLonger ==
  ASSUME NEW d \in Seq(Token), NEW s \in Seq(Token), Trimmed(d, s)
  PROVE  Size(d) <= Size(s)
<1> DEFINE P == {u \in Seq(Token) : \A c \in Seq(Token) : Trimmed(c, u) => Size(c) <= Size(u)}
<1>1. << >> \in P
  <2>1. \A c \in Seq(Token) : Len(c) = 0 => c = << >>
    OBVIOUS
  <2>2. << >> \in Seq(Token) /\ Len(<< >>) = 0
    OBVIOUS
  <2>3. QED
    BY <2>1, <2>2, SizeEmpty DEF Trimmed
<1>2. ASSUME NEW u \in Seq(Token), NEW t \in Token, u \in P PROVE Append(u, t) \in P
  <2> DEFINE v == Append(u, t)
             N == Len(u)
  <2>1. /\ N \in Nat /\ v \in Seq(Token) /\ Len(v) = N + 1 /\ v[N + 1] = t
        /\ \A n \in 1 .. N : v[n] = u[n]
        /\ DOMAIN v = 1 .. N + 1 /\ DOMAIN u = 1 .. N
    OBVIOUS
  <2> HIDE DEF v
  <2>2. ASSUME NEW c \in Seq(Token), Trimmed(c, v) PROVE Size(c) <= Size(v)
    <3>1. c # << >> /\ Len(c) = N + 1
      BY <2>1, <2>2 DEF Trimmed
    <3>2. PICK b \in Seq(Token), e \in Token : c = Append(b, e)
      BY <3>1, SequenceEmptyOrAppend
    <3>3. Len(b) = N /\ c[N + 1] = e /\ \A n \in 1 .. N : c[n] = b[n]
      BY <3>1, <3>2
    <3>4. Trimmed(b, u)
      <4>1. ASSUME NEW n \in 1 .. N
            PROVE  b[n] = u[n] \/ (IsNumeral(u[n]) /\ b[n] = Numeral(u[n].number, 0))
        <5>1. n \in 1 .. N + 1
          BY <2>1
        <5>2. c[n] = v[n] \/ (IsNumeral(v[n]) /\ c[n] = Numeral(v[n].number, 0))
          BY <2>1, <2>2, <5>1, Zenon DEF Trimmed
        <5>3. QED
          BY <2>1, <3>3, <5>2, Zenon
      <4>2. QED
        BY <2>1, <3>3, <4>1 DEF Trimmed
    <3>5. TokenSize(e) <= TokenSize(t)
      <4>1. N + 1 \in 1 .. N + 1
        BY <2>1
      <4>2. e = t \/ (IsNumeral(t) /\ e = Numeral(t.number, 0))
        BY <2>1, <2>2, <3>3, <4>1, Zenon DEF Trimmed
      <4>3. TokenSize(t) \in Nat
        BY TokenSizeType
      <4>4. CASE IsNumeral(t) /\ e = Numeral(t.number, 0)
        <5>1. t.number \in Int /\ t.zeros \in Nat /\ t = Numeral(t.number, t.zeros)
          BY <4>4, NumeralTokens
        <5>2. TokenSize(e) = 0 + Digits(t.number)
          BY <4>4, <5>1, TokenSizeType
        <5>3. TokenSize(t) = t.zeros + Digits(t.number)
          BY <5>1, TokenSizeType
        <5>4. Digits(t.number) \in Nat
          BY <5>1, DigitsType
        <5>5. QED
          BY <5>1, <5>2, <5>3, <5>4
      <4>5. QED
        BY <4>2, <4>3, <4>4
    <3>6. Size(b) <= Size(u)
      BY <1>2, <3>4
    <3>7. Size(c) = Size(b) + TokenSize(e) /\ Size(v) = Size(u) + TokenSize(t)
      BY <3>2, SizeAppend DEF v
    <3>8. /\ Size(b) \in Nat /\ Size(u) \in Nat
          /\ TokenSize(e) \in Nat /\ TokenSize(t) \in Nat
      BY SizeType, TokenSizeType
    <3>9. QED
      BY <3>5, <3>6, <3>7, <3>8
  <2>3. QED
    BY <2>1, <2>2 DEF v
<1> HIDE DEF P
<1>3. Seq(Token) \subseteq P
  BY <1>1, <1>2, InductionOnSeq
<1>4. QED
  BY <1>3 DEF P

(* Each part grows by g at most. *)
GrownParts(p, q, g) ==
  /\ Len(p) = Len(q)
  /\ \A i \in 1 .. Len(p) : Size(p[i]) <= Size(q[i]) + g

LEMMA JoinedGrows ==
  ASSUME NEW sep \in Separators, NEW p \in PartLists(Token), NEW q \in PartLists(Token),
         NEW g \in Int, GrownParts(p, q, g)
  PROVE  Size(Joined(p, sep)) <= Size(Joined(q, sep)) + Len(p) * g
<1> DEFINE Like(r) == {v \in PartLists(Token) : GrownParts(r, v, g)}
           P == {r \in PartLists(Token) : \A v \in Like(r) :
                   Size(Joined(r, sep)) <= Size(Joined(v, sep)) + Len(r) * g}
           Y == Seq(Token)
<1>1. sep \in Token
  BY DEF Token
<1>2. ASSUME NEW a \in Seq(Token) PROVE <<a>> \in P
  <2>1. <<a>> \in PartLists(Token)
    BY DEF PartLists
  <2>2. ASSUME NEW v \in Like(<<a>>)
        PROVE  Size(Joined(<<a>>, sep)) <= Size(Joined(v, sep)) + 1 * g
    <3>1. v \in Seq(Y) /\ Len(v) = 1 /\ Size(a) <= Size(v[1]) + g
      BY DEF GrownParts, PartLists
    <3> HIDE DEF Y
    <3>2. v[1] \in Y /\ v = <<v[1]>>
      BY <3>1, OneElement
    <3>3. Joined(<<a>>, sep) = a
      BY <1>1, JoinedOne
    <3>4. Joined(<<v[1]>>, sep) = v[1]
      BY <1>1, <3>2, JoinedOne DEF Y
    <3>5. Joined(v, sep) = v[1]
      BY <3>2, <3>4, Zenon
    <3>6. 1 * g = g
      OBVIOUS
    <3>7. QED
      BY <3>1, <3>3, <3>5, <3>6, Zenon
  <2>3. Len(<<a>>) = 1
    OBVIOUS
  <2>4. QED
    BY <2>1, <2>2, <2>3, Zenon
<1>3. ASSUME NEW r \in PartLists(Token), NEW a \in Seq(Token), r \in P
      PROVE  Append(r, a) \in P
  <2> DEFINE ra == Append(r, a)
             n == Len(r)
  <2>1. r \in Seq(Y) /\ a \in Y /\ r # << >>
    BY DEF PartLists
  <2>2. /\ ra \in PartLists(Token) /\ Len(ra) = n + 1 /\ ra[n + 1] = a
        /\ \A i \in 1 .. n : ra[i] = r[i]
    BY <2>1, PartListsAppend
  <2>3. n \in Nat /\ n >= 1
    BY <2>1
  <2> HIDE DEF ra, n
  <2>4. ASSUME NEW v \in PartLists(Token), GrownParts(ra, v, g)
        PROVE  Size(Joined(ra, sep)) <= Size(Joined(v, sep)) + (n + 1) * g
    <3> DEFINE w == Front(v)
               b == Last(v)
    <3>1. w \in Seq(Y) /\ b \in Y /\ v = Append(w, b)
      BY LastPart
    <3> HIDE DEF w, b, Y
    <3>2. /\ Len(v) = Len(w) + 1 /\ Len(w) \in Nat /\ v[Len(w) + 1] = b
          /\ \A i \in 1 .. Len(w) : v[i] = w[i]
      BY <3>1, AppendProperties
    <3>3. Len(w) = n
      BY <2>2, <2>3, <2>4, <3>2 DEF GrownParts
    <3>4. GrownParts(r, w, g)
      <4>1. ASSUME NEW i \in 1 .. n PROVE Size(r[i]) <= Size(w[i]) + g
        <5>1. i \in 1 .. n + 1
          BY <2>3
        <5>2. Size(ra[i]) <= Size(v[i]) + g
          BY <2>2, <2>4, <5>1 DEF GrownParts
        <5>3. QED
          BY <2>2, <3>2, <3>3, <5>2, Zenon
      <4>2. QED
        BY <3>3, <4>1 DEF GrownParts, n
    <3>5. Size(a) <= Size(b) + g
      <4>1. n + 1 \in 1 .. n + 1
        BY <2>3
      <4>2. Size(ra[n + 1]) <= Size(v[n + 1]) + g
        BY <2>2, <2>4, <4>1 DEF GrownParts
      <4>3. QED
        BY <2>2, <3>2, <3>3, <4>2, Zenon
    <3>6. w \in PartLists(Token)
      <4>1. w # << >>
        BY <2>3, <3>3
      <4>2. QED
        BY <3>1, <4>1 DEF PartLists, Y
    <3>7. Size(Joined(r, sep)) <= Size(Joined(w, sep)) + n * g
      BY <1>3, <3>4, <3>6 DEF n
    <3> HIDE DEF P
    <3>8. /\ Joined(ra, sep) = Joined(r, sep) \o <<sep>> \o a
          /\ Joined(v, sep) = Joined(w, sep) \o <<sep>> \o b
      BY <1>1, <2>1, <3>1, <3>6, JoinedAppend DEF Y, ra
    <3>9. Joined(r, sep) \in Seq(Token) /\ Joined(w, sep) \in Seq(Token)
      BY <1>1, <3>6, JoinedType
    <3>10. a \in Seq(Token) /\ b \in Seq(Token)
      BY <3>1 DEF Y
    <3> DEFINE x == Size(Joined(r, sep))
               y == Size(Joined(w, sep))
               ng == n * g
    <3>11. /\ Size(Joined(ra, sep)) = x + 1 + Size(a)
           /\ Size(Joined(v, sep)) = y + 1 + Size(b)
      BY <3>8, <3>9, <3>10, SizeBetween
    <3>12. x \in Nat /\ y \in Nat /\ Size(a) \in Nat /\ Size(b) \in Nat
      BY <3>9, <3>10, SizeType
    <3>13. ng \in Int /\ (n + 1) * g = ng + g
      BY <2>3
    <3>14. x <= y + ng
      BY <3>7
    <3> HIDE DEF x, y, ng
    <3>15. QED
      BY <3>5, <3>11, <3>12, <3>13, <3>14
  <2>5. QED
    BY <2>2, <2>4, Zenon DEF ra
<1> HIDE DEF P, Like
<1>4. PartLists(Token) \subseteq P
  BY <1>2, <1>3, InductionOnPartLists
<1>5. QED
  BY <1>4 DEF P, Like
-------------------------------------------------------------------------------
(* What decode has read, encode writes *)

LEMMA NumberBack ==
  ASSUME NEW s \in Seq(Token), validate_id_message(s, 1)
  PROVE  /\ NumberIn(s) \in Ids /\ NumberIn(s) \in Int
         /\ to_string(NumberIn(s)) \in Seq(Token)
         /\ Trimmed(to_string(NumberIn(s)), s)
<1> DEFINE n == NumberIn(s)
<1>1. n \in Ids
  BY ValidateRead
<1>2. n \in Int
  BY <1>1, WireAssumption DEF Ids
<1>3. PICK z \in Nat : s = << Numeral(n, z) >>
  BY ValidateRead
<1> HIDE DEF n
<1>4. Trimmed(<< Numeral(n, 0) >>, << Numeral(n, z) >>)
  <2> DEFINE t == Numeral(n, z)
             u == Numeral(n, 0)
  <2>1. IsNumeral(t) /\ u = Numeral(t.number, 0)
    BY DEF IsNumeral, Numeral
  <2> HIDE DEF t, u
  <2>2. Trimmed(<<u>>, <<t>>)
    BY <2>1 DEF Trimmed
  <2>3. QED
    BY <2>2 DEF t, u
<1>5. to_string(n) \in Seq(Token)
  BY <1>2, OneToken
<1>6. Trimmed(to_string(n), s)
  BY <1>3, <1>4 DEF to_string
<1>7. QED
  BY <1>1, <1>2, <1>5, <1>6 DEF n

LEMMA TablesAreWords ==
  /\ ClientModes \subseteq Words /\ ItemStatuses \subseteq Words
  /\ OrderStatuses \subseteq Words /\ MessageTypes \subseteq Words
BY WireAssumption

LEMMA WordBack ==
  ASSUME NEW table \in SUBSET Words, NEW s, FromStr(table, s) # "INVALID"
  PROVE  /\ FromStr(table, s) \in table \ {"INVALID"}
         /\ ToStr(FromStr(table, s)) = s
BY ToFromStr

(* The texts that come between the separators of an item. *)
ItemText == Token \ {Bar, Semi, Colon}

Five(a, b, c, d, e, X) ==
  /\ <<a, b, c, d, e>> \in PartLists(X) /\ Len(<<a, b, c, d, e>>) = 5
  /\ <<a, b, c, d, e>>[1] = a /\ <<a, b, c, d, e>>[2] = b /\ <<a, b, c, d, e>>[3] = c
  /\ <<a, b, c, d, e>>[4] = d /\ <<a, b, c, d, e>>[5] = e

LEMMA FiveParts ==
  ASSUME NEW X, NEW a \in Seq(X), NEW b \in Seq(X), NEW c \in Seq(X), NEW d \in Seq(X),
         NEW e \in Seq(X)
  PROVE  Five(a, b, c, d, e, X)
<1> DEFINE Y == Seq(X)
<1> HIDE DEF Y
<1>1. a \in Y /\ b \in Y /\ c \in Y /\ d \in Y /\ e \in Y
  BY DEF Y
<1>2. <<a, b, c, d, e>> \in Seq(Y) /\ <<a, b, c, d, e>> # << >>
  BY <1>1
<1>3. <<a, b, c, d, e>> \in PartLists(X)
  BY <1>2 DEF PartLists, Y
<1>4. QED
  BY <1>3 DEF Five

ItemReadBack(item, f) ==
  /\ item \in Item
  /\ ItemSound(item)
  /\ EncodedItem(item) \in Seq(Token)
  /\ Trimmed(EncodedItem(item), Joined(f, Colon))

LEMMA PlainText ==
  ASSUME NEW X, NEW seps, NEW s \in Seq(X), X \cap seps = {}
  PROVE  Plain(s, seps)
<1>1. \A i \in DOMAIN s : s[i] \in X
  BY ElementOfSeq, LenProperties
<1>2. QED
  BY <1>1 DEF Plain, Occurs

LEMMA ItemBack ==
  ASSUME NEW f \in PartLists(ItemText), ItemAccepted(f)
  PROVE  ItemReadBack(DecodedItem(f), f)
<1> DEFINE it == DecodedItem(f)
           a == to_string(it.order_id)
           b == to_string(it.id)
           c == ToStr(it.status)
           e == to_string(it.qty)
           p == <<a, b, c, f[4], e>>
<1>1. /\ Len(f) = 5 /\ validate_id_message(f[1], 1) /\ validate_id_message(f[2], 1)
      /\ FromStr(ItemStatuses, f[3]) # "INVALID" /\ validate_id_message(f[5], 1)
  BY DEF ItemAccepted
<1>2. /\ it.order_id = NumberIn(f[1]) /\ it.id = NumberIn(f[2])
      /\ it.status = FromStr(ItemStatuses, f[3]) /\ it.desc = f[4]
      /\ it.qty = NumberIn(f[5])
      /\ it = [order_id |-> it.order_id, id |-> it.id, status |-> it.status,
               desc |-> it.desc, qty |-> it.qty]
  BY DEF DecodedItem
<1> HIDE DEF it
<1>3. /\ f \in PartLists(Token)
      /\ \A i \in 1 .. 5 : f[i] \in Seq(ItemText) /\ f[i] \in Seq(Token)
  <2> DEFINE Y == Seq(ItemText)
  <2>1. f \in Seq(Y)
    BY DEF PartLists
  <2> HIDE DEF Y
  <2>2. \A i \in 1 .. 5 : f[i] \in Y
    BY <1>1, <2>1, ElementOfSeq
  <2>3. Seq(ItemText) \subseteq Seq(Token) /\ PartLists(ItemText) \subseteq PartLists(Token)
    BY PartListsMonotonic DEF ItemText
  <2>4. QED
    BY <2>2, <2>3 DEF Y
<1>4. /\ it.order_id \in Ids /\ it.order_id \in Int /\ a \in Seq(Token)
      /\ Trimmed(a, f[1])
  BY <1>1, <1>2, <1>3, NumberBack
<1>5. /\ it.id \in Ids /\ it.id \in Int /\ b \in Seq(Token)
      /\ Trimmed(b, f[2])
  BY <1>1, <1>2, <1>3, NumberBack
<1>6. /\ it.qty \in Ids /\ it.qty \in Int /\ e \in Seq(Token)
      /\ Trimmed(e, f[5])
  BY <1>1, <1>2, <1>3, NumberBack
<1>7. it.status \in ItemStatuses \ {"INVALID"} /\ c = f[3]
  BY <1>1, <1>2, TablesAreWords, WordBack
<1>8. f[3] \in Seq(Token) /\ f[4] \in Seq(Token)
  BY <1>3
<1>9. Plain(it.desc, {Bar, Semi, Colon})
  <2>1. it.desc \in Seq(ItemText)
    BY <1>2, <1>3
  <2>2. QED
    BY <2>1, PlainText DEF ItemText
<1>10. it \in Item
  BY <1>2, <1>4, <1>5, <1>6, <1>7, <1>8, Zenon DEF Item
<1>11. ItemSound(it)
  BY <1>4, <1>5, <1>6, <1>7, <1>9, Zenon DEF ItemSound
<1>12. EncodedItem(it) = Joined(p, Colon)
  BY <1>2 DEF EncodedItem
<1> HIDE DEF a, b, c, e
<1>13. Five(a, b, c, f[4], e, Token)
  BY <1>4, <1>5, <1>6, <1>7, <1>8, FiveParts
<1>14. TrimmedParts(p, f)
  <2>1. ASSUME NEW i \in 1 .. 5 PROVE Trimmed(p[i], f[i])
    <3>1. i = 1 \/ i = 2 \/ i = 3 \/ i = 4 \/ i = 5
      OBVIOUS
    <3>2. QED
      BY <1>4, <1>5, <1>6, <1>7, <1>13, <3>1, TrimmedSame, Zenon DEF Five
  <2>2. QED
    BY <1>1, <1>13, <2>1 DEF TrimmedParts, Five
<1>15. Colon \in Separators /\ Colon \in Token /\ p \in PartLists(Token)
  BY <1>13 DEF Separators, Token, Five
<1> HIDE DEF p
<1>16. Joined(p, Colon) \in Seq(Token)
  BY <1>15, JoinedType
<1>17. Trimmed(Joined(p, Colon), Joined(f, Colon))
  BY <1>3, <1>14, <1>15, TrimmedJoined
<1>18. QED
  BY <1>10, <1>11, <1>12, <1>16, <1>17, Zenon DEF ItemReadBack, it

(* The text of an order: what comes before the first two commas and after *)
(* them.                                                                  *)
InThree(s, parts, X) ==
  /\ Len(parts) = 3 /\ parts[1] \in Seq(X) /\ parts[2] \in Seq(X) /\ parts[3] \in Seq(X)
  /\ s = parts[1] \o <<Comma>> \o parts[2] \o <<Comma>> \o parts[3]

LEMMA OrderPartsBack ==
  ASSUME NEW X, Comma \in X, NEW s \in Seq(X), Len(OrderParts(s)) = 3
  PROVE  InThree(s, OrderParts(s), X)
<1> DEFINE parts == split(s, Comma)
           L == Len(parts)
           rest == SubSeq(parts, 3, L)
           Y == Seq(X)
<1>1. parts \in PartLists(X) /\ Joined(parts, Comma) = s
  BY SplitPartList, JoinedSplit
<1>2. OrderParts(s) = IF L < 3 THEN parts
                      ELSE <<parts[1], parts[2], Joined(rest, Comma)>>
  BY DEF OrderParts
<1> HIDE DEF parts
<1>3. parts \in Seq(Y)
  BY <1>1 DEF PartLists
<1> HIDE DEF Y
<1>4. L \in Nat /\ L >= 3
  <2>1. L \in Nat
    BY <1>3
  <2>2. CASE L < 3
    <3>1. OrderParts(s) = parts
      BY <1>2, <2>2, Zenon
    <3>2. L = 3
      BY <3>1, Zenon
    <3>3. QED
      BY <2>2, <3>2
  <2>3. QED
    BY <2>1, <2>2
<1> DEFINE a == parts[1]
           b == parts[2]
           one == <<a>>
           two == Append(one, b)
<1>5. a \in Y /\ b \in Y
  BY <1>3, <1>4
<1>6. rest \in Seq(Y) /\ Len(rest) = L - 2 /\ \A i \in 1 .. L - 2 : rest[i] = parts[i + 2]
  BY <1>3, <1>4
<1>7. rest # << >>
  <2>1. Len(rest) # 0
    BY <1>4, <1>6
  <2> HIDE DEF rest
  <2>2. QED
    BY <2>1
<1>8. rest \in PartLists(X)
  BY <1>6, <1>7 DEF PartLists, Y
<1> HIDE DEF rest, L, a, b
<1>9. one \in PartLists(X) /\ two \in PartLists(X)
  <2>1. one \in Seq(Y) /\ one # << >>
    BY <1>5
  <2>2. one \in PartLists(X)
    BY <2>1 DEF PartLists, Y
  <2> HIDE DEF one
  <2>3. two \in PartLists(X)
    BY <1>5, <2>1, PartListsAppend DEF Y
  <2>4. QED
    BY <2>2, <2>3
<1>10. two \in Seq(Y) /\ Len(two) = 2 /\ two[1] = a /\ two[2] = b
  BY <1>5
<1>11. parts = two \o rest
  <2> HIDE DEF two
  <2>1. /\ two \o rest \in Seq(Y) /\ Len(two \o rest) = Len(two) + Len(rest)
        /\ \A i \in 1 .. Len(two) : (two \o rest)[i] = two[i]
        /\ \A i \in 1 .. Len(rest) : (two \o rest)[Len(two) + i] = rest[i]
    <3>1. two \in Seq(Y) /\ rest \in Seq(Y)
      BY <1>6, <1>10
    <3>2. QED
      BY <3>1
  <2>2. Len(two \o rest) = L
    BY <1>4, <1>6, <1>10, <2>1
  <2>3. ASSUME NEW i \in 1 .. L PROVE parts[i] = (two \o rest)[i]
    <3>1. CASE i <= 2
      <4>1. i = 1 \/ i = 2
        BY <1>4, <3>1
      <4>2. QED
        BY <1>10, <2>1, <4>1 DEF a, b
    <3>2. CASE ~(i <= 2)
      <4>1. i - 2 \in 1 .. L - 2 /\ (i - 2) + 2 = i /\ 2 + (i - 2) = i
        BY <1>4, <3>2
      <4>2. rest[i - 2] = parts[i]
        BY <1>6, <4>1, Zenon
      <4>3. (two \o rest)[2 + (i - 2)] = rest[i - 2]
        BY <1>6, <1>10, <2>1, <4>1, Zenon
      <4>4. QED
        BY <4>1, <4>2, <4>3, Zenon
    <3>3. QED
      BY <3>1, <3>2
  <2>4. QED
    BY <1>3, <2>1, <2>2, <2>3, SeqEqual DEF L
<1>12. Joined(one, Comma) = a
  BY <1>5, JoinedOne DEF Y
<1>13. Joined(two, Comma) = a \o <<Comma>> \o b
  BY <1>5, <1>9, <1>12, JoinedAppend DEF Y
<1> HIDE DEF one, two
<1> DEFINE c == Joined(rest, Comma)
<1>14. c \in Y
  BY <1>8, JoinedType DEF Y
<1>15. Joined(two \o rest, Comma) = Joined(two, Comma) \o <<Comma>> \o c
  BY <1>8, <1>9, JoinedConcat
<1> HIDE DEF c
<1>16. s = a \o <<Comma>> \o b \o <<Comma>> \o c
  BY <1>1, <1>11, <1>13, <1>15, Zenon
<1>17. OrderParts(s) = <<a, b, c>>
  BY <1>2, <1>4 DEF a, b, c
<1>18. Len(<<a, b, c>>) = 3 /\ <<a, b, c>>[1] = a /\ <<a, b, c>>[2] = b /\ <<a, b, c>>[3] = c
  OBVIOUS
<1>19. QED
  BY <1>5, <1>14, <1>16, <1>17, <1>18, Zenon DEF InThree, Y

LEMMA ThreeType ==
  ASSUME NEW a \in Seq(Token), NEW b \in Seq(Token), NEW c \in Seq(Token)
  PROVE  /\ a \o <<Comma>> \o b \in Seq(Token)
         /\ a \o <<Comma>> \o b \o <<Comma>> \o c \in Seq(Token)
<1>1. <<Comma>> \in Seq(Token)
  BY SeparatorsDiffer
<1>2. a \o <<Comma>> \o b \in Seq(Token)
  BY <1>1
<1>3. QED
  BY <1>1, <1>2

LEMMA TrimmedThree ==
  ASSUME NEW a \in Seq(Token), NEW b \in Seq(Token), NEW c \in Seq(Token),
         NEW x \in Seq(Token), NEW y \in Seq(Token), NEW z \in Seq(Token),
         Trimmed(a, x), Trimmed(b, y), Trimmed(c, z)
  PROVE  Trimmed(a \o <<Comma>> \o b \o <<Comma>> \o c, x \o <<Comma>> \o y \o <<Comma>> \o z)
<1> DEFINE d == a \o <<Comma>> \o b
           s == x \o <<Comma>> \o y
<1>1. Comma \in Token
  BY SeparatorsDiffer
<1>2. d \in Seq(Token) /\ s \in Seq(Token)
  BY ThreeType
<1>3. Trimmed(d, s)
  BY <1>1, TrimmedBetween
<1> HIDE DEF d, s
<1>4. Trimmed(d \o <<Comma>> \o c, s \o <<Comma>> \o z)
  BY <1>1, <1>2, <1>3, TrimmedBetween
<1>5. QED
  BY <1>4, Zenon DEF d, s

OrderSound(order) ==
  /\ order.id \in Ids /\ order.status \in OrderStatuses \ {"INVALID"}
  /\ order.items # << >>
  /\ \A i \in DOMAIN order.items : ItemSound(order.items[i])

OrderReadBack(order, s) ==
  /\ order \in Order
  /\ OrderSound(order)
  /\ encode_order(order) \in Seq(Token)
  /\ Trimmed(encode_order(order), s)

LEMMA MapIsSeq ==
  ASSUME NEW S, NEW n \in Nat, NEW g, g = [i \in 1 .. n |-> g[i]],
         \A i \in 1 .. n : g[i] \in S
  PROVE  g \in Seq(S) /\ Len(g) = n
<1>1. g \in [1 .. n -> S]
  OBVIOUS
<1>2. QED
  BY <1>1

(* The items of an order, of a text that is between two bars. *)
LEMMA ItemsBack ==
  ASSUME NEW s \in Seq(Token \ {Bar}),
         \A i \in DOMAIN ItemTexts(s) : ItemAccepted(ItemTexts(s)[i])
  PROVE  LET items == [i \in DOMAIN ItemTexts(s) |-> DecodedItem(ItemTexts(s)[i])]
             texts == [i \in DOMAIN items |-> EncodedItem(items[i])]
         IN  /\ items \in Seq(Item) /\ items # << >>
             /\ \A i \in DOMAIN items : ItemSound(items[i])
             /\ texts \in PartLists(Token)
             /\ Trimmed(Joined(texts, Semi), s)
<1> DEFINE X == Token \ {Bar}
           v == split(s, Semi)
           N == Len(v)
           it == ItemTexts(s)
           items == [i \in DOMAIN it |-> DecodedItem(it[i])]
           texts == [i \in DOMAIN items |-> EncodedItem(items[i])]
           Y == Seq(X \ {Semi})
<1>1. v \in PartLists(X \ {Semi}) /\ Joined(v, Semi) = s
  <2>1. Semi \in X
    BY SeparatorsDiffer
  <2>2. QED
    BY <2>1, SplitType, JoinedSplit
<1>2. v \in Seq(Y) /\ v # << >>
  BY <1>1 DEF PartLists
<1>3. it = [i \in DOMAIN v |-> split(v[i], Colon)]
  BY DEF ItemTexts
<1> HIDE DEF v, Y, it
<1>4. DOMAIN v = 1 .. N /\ N \in Nat /\ N >= 1
  BY <1>2
<1>5. DOMAIN it = 1 .. N /\ DOMAIN items = 1 .. N /\ DOMAIN texts = 1 .. N
  BY <1>3, <1>4
<1> HIDE DEF N
<1>6. ASSUME NEW i \in 1 .. N
      PROVE  /\ ItemReadBack(items[i], it[i]) /\ texts[i] = EncodedItem(items[i])
             /\ Joined(it[i], Colon) = v[i]
  <2>1. v[i] \in Y
    BY <1>2, ElementOfSeq DEF N
  <2>2. it[i] = split(v[i], Colon)
    BY <1>3, <1>4
  <2>3. it[i] \in PartLists((X \ {Semi}) \ {Colon}) /\ Joined(it[i], Colon) = v[i]
    <3>1. Colon \in X \ {Semi}
      BY SeparatorsDiffer
    <3>2. QED
      BY <2>1, <2>2, <3>1, SplitType, JoinedSplit DEF Y
  <2>4. (X \ {Semi}) \ {Colon} = ItemText
    BY DEF ItemText
  <2>5. ItemAccepted(it[i])
    BY <1>5 DEF it
  <2>6. ItemReadBack(DecodedItem(it[i]), it[i])
    BY <2>3, <2>4, <2>5, ItemBack
  <2>7. items[i] = DecodedItem(it[i]) /\ texts[i] = EncodedItem(items[i])
    BY <1>5
  <2>8. QED
    BY <2>3, <2>6, <2>7
<1> HIDE DEF items, texts, X
<1>7. items = [i \in 1 .. N |-> items[i]] /\ texts = [i \in 1 .. N |-> texts[i]]
  BY <1>5 DEF items, texts
<1>8. \A i \in 1 .. N : items[i] \in Item /\ ItemSound(items[i]) /\ texts[i] \in Seq(Token)
  BY <1>6 DEF ItemReadBack
<1>9. items \in Seq(Item) /\ Len(items) = N
  <2>1. items \in [1 .. N -> Item]
    BY <1>7, <1>8
  <2>2. QED
    BY <1>4, <2>1
<1> DEFINE Z == Seq(Token)
<1>10. \A i \in 1 .. N : texts[i] \in Z
  BY <1>8
<1> HIDE DEF Z
<1>11. texts \in Seq(Z) /\ Len(texts) = N
  <2>1. texts \in [1 .. N -> Z]
    BY <1>7, <1>10
  <2>2. QED
    BY <1>4, <2>1
<1>12. texts \in PartLists(Token) /\ items # << >>
  <2>1. texts # << >> /\ items # << >>
    BY <1>4, <1>9, <1>11
  <2>2. QED
    BY <1>11, <2>1 DEF PartLists, Z
<1>13. v \in PartLists(Token)
  <2>1. X \ {Semi} \subseteq Token
    BY DEF X
  <2>2. QED
    BY <1>1, <2>1, PartListsMonotonic
<1>14. TrimmedParts(texts, v)
  <2>1. \A i \in 1 .. N : Trimmed(texts[i], v[i])
    BY <1>6 DEF ItemReadBack
  <2>2. QED
    BY <1>11, <2>1 DEF TrimmedParts, N
<1>15. Semi \in Separators
  BY DEF Separators
<1>16. Trimmed(Joined(texts, Semi), s)
  BY <1>1, <1>12, <1>13, <1>14, <1>15, TrimmedJoined
<1>17. \A i \in DOMAIN items : ItemSound(items[i])
  BY <1>5, <1>8
<1>18. QED
  BY <1>9, <1>12, <1>16, <1>17, Zenon DEF items, texts, it

LEMMA OrderBack ==
  ASSUME NEW s \in Seq(Token \ {Bar}), OrderAccepted(OrderParts(s))
  PROVE  OrderReadBack(decode_order(OrderParts(s)), s)
<1> DEFINE parts == OrderParts(s)
           X == Token \ {Bar}
           o == decode_order(parts)
           items == [i \in DOMAIN ItemTexts(parts[3]) |->
                       DecodedItem(ItemTexts(parts[3])[i])]
           texts == [i \in DOMAIN items |-> EncodedItem(items[i])]
           a == to_string(o.id)
           b == ToStr(o.status)
           c == Joined(texts, Semi)
<1>1. /\ Len(parts) = 3 /\ validate_id_message(parts[1], 1)
      /\ FromStr(OrderStatuses, parts[2]) # "INVALID"
      /\ \A i \in DOMAIN ItemTexts(parts[3]) : ItemAccepted(ItemTexts(parts[3])[i])
  BY DEF OrderAccepted
<1>2. InThree(s, parts, X)
  <2>1. Comma \in X
    BY SeparatorsDiffer
  <2>2. QED
    BY <1>1, <2>1, OrderPartsBack
<1>3. /\ o.id = NumberIn(parts[1]) /\ o.status = FromStr(OrderStatuses, parts[2])
      /\ o.items = items /\ o = [id |-> o.id, status |-> o.status, items |-> items]
  BY DEF decode_order
<1> HIDE DEF o, parts
<1>4. Seq(X) \subseteq Seq(Token)
  BY PartListsMonotonic
<1>5. /\ items \in Seq(Item) /\ items # << >>
      /\ \A i \in DOMAIN items : ItemSound(items[i])
      /\ texts \in PartLists(Token)
      /\ Trimmed(c, parts[3])
  <2>1. parts[3] \in Seq(Token \ {Bar})
    BY <1>2 DEF InThree
  <2>2. QED
    BY <1>1, <2>1, ItemsBack
<1>6. encode_order(o) = a \o <<Comma>> \o b \o <<Comma>> \o c
  BY <1>3 DEF encode_order
<1> HIDE DEF items, texts
<1>7. /\ o.id \in Ids /\ o.id \in Int /\ a \in Seq(Token)
      /\ Trimmed(a, parts[1])
  <2>1. parts[1] \in Seq(Token)
    BY <1>2, <1>4 DEF InThree
  <2>2. QED
    BY <1>1, <1>3, <2>1, NumberBack
<1>8. o.status \in OrderStatuses \ {"INVALID"} /\ b = parts[2]
  BY <1>1, <1>3, TablesAreWords, WordBack
<1>9. parts[2] \in Seq(Token) /\ parts[3] \in Seq(Token)
  BY <1>2, <1>4 DEF InThree
<1>10. c \in Seq(Token)
  BY <1>5, SeparatorsDiffer, JoinedType
<1>11. parts[1] \in Seq(Token)
  BY <1>2, <1>4 DEF InThree
<1>12. o \in Order
  BY <1>3, <1>5, <1>7, <1>8, Zenon DEF Order
<1>13. OrderSound(o)
  BY <1>3, <1>5, <1>7, <1>8, Zenon DEF OrderSound
<1> HIDE DEF a, b, c, X
<1>14. encode_order(o) \in Seq(Token)
  BY <1>6, <1>7, <1>8, <1>9, <1>10, ThreeType
<1>15. Trimmed(b, parts[2])
  BY <1>8, TrimmedSame
<1>16. Trimmed(encode_order(o), s)
  <2>1. a \in Seq(Token) /\ b \in Seq(Token) /\ c \in Seq(Token)
    BY <1>7, <1>8, <1>9, <1>10
  <2>2. Trimmed(a \o <<Comma>> \o b \o <<Comma>> \o c,
                parts[1] \o <<Comma>> \o parts[2] \o <<Comma>> \o parts[3])
    BY <1>5, <1>7, <1>9, <1>11, <1>15, <2>1, TrimmedThree
  <2>3. QED
    BY <1>2, <1>6, <2>2, Zenon DEF InThree
<1>17. QED
  BY <1>12, <1>13, <1>14, <1>16, Zenon DEF OrderReadBack, o, parts

(* The kinds of messages. *)
LEMMA FieldsOf ==
  ASSUME NEW m
  PROVE  /\ m.type = "DISP_HEARTBEAT" => Fields(m) = << >>
         /\ m.type = "LOGIN" => Fields(m) = <<ToStr(m.client_mode), m.str>>
         /\ m.type \in TextTypes => Fields(m) = <<m.str>>
         /\ m.type \in OrderTypes => Fields(m) = <<encode_order(m.order)>>
         /\ m.type \in ItemUpdateTypes =>
              Fields(m) = <<to_string(m.order_id), to_string(m.item_id), ToStr(m.item_status)>>
         /\ m.type \in OrderUpdateTypes =>
              Fields(m) = <<to_string(m.order_id), ToStr(m.order_status)>>
BY DEF Fields, TextTypes, OrderTypes, ItemUpdateTypes, OrderUpdateTypes

LEMMA DecodedOf ==
  ASSUME NEW type, NEW f
  PROVE  /\ type = "DISP_HEARTBEAT" => Decoded(type, f) = [type |-> type]
         /\ type = "LOGIN" => Decoded(type, f) =
              [type |-> type, client_mode |-> FromStr(ClientModes, f[2]), str |-> f[3]]
         /\ type \in TextTypes => Decoded(type, f) = [type |-> type, str |-> f[2]]
         /\ type \in OrderTypes => Decoded(type, f) =
              [type |-> type, order |-> decode_order(OrderParts(f[2]))]
         /\ type \in ItemUpdateTypes => Decoded(type, f) =
              [type |-> type, order_id |-> NumberIn(f[2]), item_id |-> NumberIn(f[3]),
               item_status |-> FromStr(ItemStatuses, f[4])]
         /\ type \in OrderUpdateTypes => Decoded(type, f) =
              [type |-> type, order_id |-> NumberIn(f[2]),
               order_status |-> FromStr(OrderStatuses, f[3])]
BY DEF Decoded, TextTypes, OrderTypes, ItemUpdateTypes, OrderUpdateTypes

LEMMA AcceptedOf ==
  ASSUME NEW type, NEW f
  PROVE  /\ type = "DISP_HEARTBEAT" => (Accepted(type, f) <=> Len(f) = 1)
         /\ type = "LOGIN" =>
              (Accepted(type, f) <=> Len(f) = 3 /\ FromStr(ClientModes, f[2]) # "INVALID")
         /\ type \in TextTypes => (Accepted(type, f) <=> Len(f) = 2)
         /\ type \in OrderTypes =>
              (Accepted(type, f) <=> Len(f) = 2 /\ OrderAccepted(OrderParts(f[2])))
         /\ type \in ItemUpdateTypes =>
              (Accepted(type, f) <=>
                 /\ Len(f) = 4
                 /\ validate_id_message(f[2], 1) /\ validate_id_message(f[3], 1)
                 /\ FromStr(ItemStatuses, f[4]) # "INVALID")
         /\ type \in OrderUpdateTypes =>
              (Accepted(type, f) <=>
                 /\ Len(f) = 3
                 /\ validate_id_message(f[2], 1)
                 /\ FromStr(OrderStatuses, f[3]) # "INVALID")
BY DEF Accepted, TextTypes, OrderTypes, ItemUpdateTypes, OrderUpdateTypes

Kind(type) ==
  \/ type = "DISP_HEARTBEAT" \/ type = "LOGIN" \/ type \in TextTypes
  \/ type \in OrderTypes \/ type \in ItemUpdateTypes \/ type \in OrderUpdateTypes

LEMMA KindsAreTypes ==
  \A type : Kind(type) => type \in MessageTypes /\ type # "INVALID"
BY DEF Kind, MessageTypes, TextTypes, OrderTypes, ItemUpdateTypes, OrderUpdateTypes

LEMMA ConsIs ==
  ASSUME NEW S, NEW e \in S, NEW s \in Seq(S), NEW t \in Seq(S), Len(t) = Len(s) + 1,
         t[1] = e, \A i \in 1 .. Len(s) : t[1 + i] = s[i]
  PROVE  <<e>> \o s = t
<1> DEFINE one == <<e>>
           r == one \o s
<1>1. one \in Seq(S) /\ Len(one) = 1 /\ one[1] = e /\ Len(s) \in Nat
  OBVIOUS
<1> HIDE DEF one
<1>2. /\ r \in Seq(S) /\ Len(r) = Len(one) + Len(s)
      /\ \A i \in 1 .. Len(one) : r[i] = one[i]
      /\ \A i \in 1 .. Len(s) : r[Len(one) + i] = s[i]
  <2>1. one \in Seq(S) /\ s \in Seq(S)
    BY <1>1
  <2>2. QED
    BY <2>1
<1> HIDE DEF r
<1>3. ASSUME NEW i \in 1 .. Len(s) + 1 PROVE r[i] = t[i]
  <2>1. CASE i = 1
    BY <1>1, <1>2, <2>1
  <2>2. CASE i # 1
    <3>1. i - 1 \in 1 .. Len(s) /\ 1 + (i - 1) = i
      BY <1>1, <2>2
    <3>2. r[1 + (i - 1)] = s[i - 1] /\ t[1 + (i - 1)] = s[i - 1]
      BY <1>1, <1>2, <3>1, Zenon
    <3>3. QED
      BY <3>1, <3>2, Zenon
  <2>3. QED
    BY <2>1, <2>2
<1>4. Len(r) = Len(t) /\ Len(r) = Len(s) + 1
  BY <1>1, <1>2
<1>5. r = t
  BY <1>2, <1>3, <1>4, SeqEqual
<1>6. QED
  BY <1>5 DEF r, one

Few(a, b, c, d, X) ==
  /\ <<a>> \o << >> = <<a>> /\ <<a>> \o <<b>> = <<a, b>>
  /\ <<a>> \o <<b, c>> = <<a, b, c>> /\ <<a>> \o <<b, c, d>> = <<a, b, c, d>>
  /\ <<a>> \in PartLists(X) /\ <<a, b>> \in PartLists(X)
  /\ <<a, b, c>> \in PartLists(X) /\ <<a, b, c, d>> \in PartLists(X)

LEMMA FewParts ==
  ASSUME NEW X, NEW a \in Seq(X), NEW b \in Seq(X), NEW c \in Seq(X), NEW d \in Seq(X)
  PROVE  Few(a, b, c, d, X)
<1> DEFINE Y == Seq(X)
<1> HIDE DEF Y
<1>1. a \in Y /\ b \in Y /\ c \in Y /\ d \in Y
  BY DEF Y
<1>2. /\ <<a>> \in Seq(Y) /\ <<a>> # << >> /\ <<a, b>> \in Seq(Y) /\ <<a, b>> # << >>
  BY <1>1
<1>3. <<a, b, c>> \in Seq(Y) /\ <<a, b, c>> # << >>
  BY <1>1
<1>4. <<a, b, c, d>> \in Seq(Y) /\ <<a, b, c, d>> # << >>
  BY <1>1
<1>5. /\ <<a>> \in PartLists(X) /\ <<a, b>> \in PartLists(X)
      /\ <<a, b, c>> \in PartLists(X) /\ <<a, b, c, d>> \in PartLists(X)
  BY <1>2, <1>3, <1>4 DEF PartLists, Y
<1>6. <<a>> \o << >> = <<a>>
  BY <1>2, ConcatEmptySeq
<1>7. <<a>> \o <<b>> = <<a, b>>
  <2> DEFINE s == <<b>>
             t == <<a, b>>
  <2>1. s \in Seq(Y) /\ t \in Seq(Y) /\ Len(t) = Len(s) + 1 /\ t[1] = a
    BY <1>1
  <2>2. ASSUME NEW i \in 1 .. Len(s) PROVE t[1 + i] = s[i]
    OBVIOUS
  <2> HIDE DEF s, t
  <2>3. <<a>> \o s = t
    BY <1>1, <2>1, <2>2, ConsIs
  <2>4. QED
    BY <2>3 DEF s, t
<1>8. <<a>> \o <<b, c>> = <<a, b, c>>
  <2> DEFINE s == <<b, c>>
             t == <<a, b, c>>
  <2>1. s \in Seq(Y) /\ t \in Seq(Y) /\ Len(t) = Len(s) + 1 /\ t[1] = a
    BY <1>1
  <2>2. ASSUME NEW i \in 1 .. Len(s) PROVE t[1 + i] = s[i]
    OBVIOUS
  <2> HIDE DEF s, t
  <2>3. <<a>> \o s = t
    BY <1>1, <2>1, <2>2, ConsIs
  <2>4. QED
    BY <2>3 DEF s, t
<1>9. <<a>> \o <<b, c, d>> = <<a, b, c, d>>
  <2> DEFINE s == <<b, c, d>>
             t == <<a, b, c, d>>
  <2>1. s \in Seq(Y) /\ t \in Seq(Y) /\ Len(t) = Len(s) + 1 /\ t[1] = a
    BY <1>1
  <2>2. ASSUME NEW i \in 1 .. Len(s) PROVE t[1 + i] = s[i]
    OBVIOUS
  <2> HIDE DEF s, t
  <2>3. <<a>> \o s = t
    BY <1>1, <2>1, <2>2, ConsIs
  <2>4. QED
    BY <2>3 DEF s, t
<1>10. QED
  BY <1>5, <1>6, <1>7, <1>8, <1>9, Zenon DEF Few

LEMMA TwoParts ==
  ASSUME NEW X, NEW a \in Seq(X), NEW b \in Seq(X)
  PROVE  <<a>> \o <<b>> = <<a, b>> /\ <<a, b>> \in PartLists(X)
BY FewParts, Zenon DEF Few

LEMMA ThreeParts ==
  ASSUME NEW X, NEW a \in Seq(X), NEW b \in Seq(X), NEW c \in Seq(X)
  PROVE  <<a>> \o <<b, c>> = <<a, b, c>> /\ <<a, b, c>> \in PartLists(X)
BY FewParts, Zenon DEF Few

LEMMA FourParts ==
  ASSUME NEW X, NEW a \in Seq(X), NEW b \in Seq(X), NEW c \in Seq(X), NEW d \in Seq(X)
  PROVE  <<a>> \o <<b, c, d>> = <<a, b, c, d>> /\ <<a, b, c, d>> \in PartLists(X)
<1>1. Few(a, b, c, d, X)
  BY FewParts
<1>2. QED
  BY <1>1, Zenon DEF Few

(* What a text says of the message read from it. *)
ReadBack(m, s) ==
  /\ m \in Message /\ Encodable(m) /\ Sound(m)
  /\ encode(m) \in Seq(Token)
  /\ Trimmed(encode(m), s)

LEMMA EncodingBack ==
  ASSUME NEW m, NEW p \in PartLists(Token), NEW f \in PartLists(Token),
         encode(m) = Joined(p, Bar), TrimmedParts(p, f)
  PROVE  /\ encode(m) \in Seq(Token)
         /\ Trimmed(encode(m), Joined(f, Bar))
<1>1. Bar \in Separators /\ Bar \in Token
  BY DEF Separators, Token
<1>2. QED
  BY <1>1, JoinedType, TrimmedJoined

FieldsRead(type, f) ==
  /\ Accepted(type, f)
  /\ f \in PartLists(Token)
  /\ \A i \in 1 .. Len(f) : f[i] \in Seq(Token) /\ Plain(f[i], {Bar})
                            /\ f[i] \in Seq(Token \ {Bar})
  /\ ToStr(type) \in Seq(Token) /\ f[1] = ToStr(type)

LEMMA HeartbeatBack ==
  ASSUME NEW type, NEW f, FieldsRead(type, f), type = "DISP_HEARTBEAT"
  PROVE  ReadBack(Decoded(type, f), Joined(f, Bar))
<1> DEFINE m == Decoded(type, f)
<1>1. m = [type |-> type]
  BY DecodedOf
<1>2. m.type = type /\ m \in Message /\ Sound(m) /\ Encodable(m)
  BY <1>1 DEF Message, Sound, Encodable, OrderTypes
<1>3. Len(f) = 1
  BY AcceptedOf DEF FieldsRead
<1> HIDE DEF m
<1>4. Fields(m) = << >>
  BY <1>2, FieldsOf
<1> DEFINE a == ToStr(type)
           p == <<a>>
<1>5. a \in Seq(Token)
  BY DEF FieldsRead
<1>6. encode(m) = Joined(p, Bar)
  <2>1. encode(m) = Joined(<<a>> \o Fields(m), Bar)
    BY <1>2 DEF encode
  <2>2. <<a>> \o << >> = p
    BY <1>5, FewParts DEF Few
  <2>3. QED
    BY <1>4, <2>1, <2>2
<1>7. p \in PartLists(Token)
  BY <1>5, FewParts DEF Few
<1>8. TrimmedParts(p, f)
  BY <1>3, TrimmedSame DEF TrimmedParts, FieldsRead
<1> HIDE DEF p
<1>9. f \in PartLists(Token)
  BY DEF FieldsRead
<1>10. encode(m) \in Seq(Token) /\ Trimmed(encode(m), Joined(f, Bar))
  BY <1>6, <1>7, <1>8, <1>9, EncodingBack
<1>11. QED
  BY <1>2, <1>10 DEF ReadBack, m

LEMMA LoginBack ==
  ASSUME NEW type, NEW f, FieldsRead(type, f), type = "LOGIN"
  PROVE  ReadBack(Decoded(type, f), Joined(f, Bar))
<1> DEFINE m == Decoded(type, f)
<1>1. m = [type |-> type, client_mode |-> FromStr(ClientModes, f[2]), str |-> f[3]]
  BY DecodedOf
<1>2. Len(f) = 3 /\ FromStr(ClientModes, f[2]) # "INVALID"
  BY AcceptedOf DEF FieldsRead
<1>3. /\ f[2] \in Seq(Token) /\ f[3] \in Seq(Token) /\ Plain(f[3], {Bar})
      /\ f[1] = ToStr(type) /\ f[1] \in Seq(Token)
  BY <1>2 DEF FieldsRead
<1>4. m.client_mode \in ClientModes \ {"INVALID"} /\ ToStr(m.client_mode) = f[2]
  BY <1>1, <1>2, TablesAreWords, WordBack
<1>5. m.type = type /\ m.str = f[3] /\ m \in Message
  BY <1>1, <1>3, <1>4 DEF Message
<1> HIDE DEF m
<1>6. Sound(m) /\ Encodable(m)
  BY <1>3, <1>4, <1>5 DEF Sound, Encodable, OrderTypes
<1>7. Fields(m) = <<f[2], f[3]>>
  BY <1>4, <1>5, FieldsOf
<1> DEFINE p == <<f[1], f[2], f[3]>>
<1>8. <<f[1]>> \o <<f[2], f[3]>> = p /\ p \in PartLists(Token)
  BY <1>3, ThreeParts, Zenon
<1>9. encode(m) = Joined(p, Bar)
  BY <1>3, <1>5, <1>7, <1>8 DEF encode
<1>10. TrimmedParts(p, f)
  <2>1. Len(p) = 3 /\ p[1] = f[1] /\ p[2] = f[2] /\ p[3] = f[3]
    OBVIOUS
  <2>2. \A i \in 1 .. 3 : i = 1 \/ i = 2 \/ i = 3
    OBVIOUS
  <2>3. QED
    BY <1>2, <2>1, <2>2, TrimmedSame, Zenon DEF TrimmedParts
<1> HIDE DEF p
<1>11. f \in PartLists(Token)
  BY DEF FieldsRead
<1>12. encode(m) \in Seq(Token) /\ Trimmed(encode(m), Joined(f, Bar))
  BY <1>8, <1>9, <1>10, <1>11, EncodingBack
<1>13. QED
  BY <1>5, <1>6, <1>12 DEF ReadBack, m

LEMMA TextBack ==
  ASSUME NEW type, NEW f, FieldsRead(type, f), type \in TextTypes
  PROVE  ReadBack(Decoded(type, f), Joined(f, Bar))
<1> DEFINE m == Decoded(type, f)
<1>1. m = [type |-> type, str |-> f[2]]
  BY DecodedOf
<1>2. Len(f) = 2
  BY AcceptedOf DEF FieldsRead
<1>3. f[2] \in Seq(Token) /\ Plain(f[2], {Bar}) /\ f[1] = ToStr(type) /\ f[1] \in Seq(Token)
  BY <1>2 DEF FieldsRead
<1>4. m.type = type /\ m.str = f[2] /\ m \in Message
  BY <1>1, <1>3 DEF Message
<1> HIDE DEF m
<1>5. Sound(m) /\ Encodable(m)
  BY <1>3, <1>4 DEF Sound, Encodable, OrderTypes, TextTypes
<1>6. Fields(m) = <<f[2]>>
  BY <1>4, FieldsOf
<1> DEFINE p == <<f[1], f[2]>>
<1>7. <<f[1]>> \o <<f[2]>> = p /\ p \in PartLists(Token)
  BY <1>3, TwoParts, Zenon
<1>8. encode(m) = Joined(p, Bar)
  BY <1>3, <1>4, <1>6, <1>7 DEF encode
<1>9. TrimmedParts(p, f)
  <2>1. Len(p) = 2 /\ p[1] = f[1] /\ p[2] = f[2]
    OBVIOUS
  <2>2. \A i \in 1 .. 2 : i = 1 \/ i = 2
    OBVIOUS
  <2>3. QED
    BY <1>2, <2>1, <2>2, TrimmedSame, Zenon DEF TrimmedParts
<1> HIDE DEF p
<1>10. f \in PartLists(Token)
  BY DEF FieldsRead
<1>11. encode(m) \in Seq(Token) /\ Trimmed(encode(m), Joined(f, Bar))
  BY <1>7, <1>8, <1>9, <1>10, EncodingBack
<1>12. QED
  BY <1>4, <1>5, <1>11 DEF ReadBack, m

LEMMA OrderMessageBack ==
  ASSUME NEW type, NEW f, FieldsRead(type, f), type \in OrderTypes
  PROVE  ReadBack(Decoded(type, f), Joined(f, Bar))
<1> DEFINE m == Decoded(type, f)
           o == decode_order(OrderParts(f[2]))
           b == encode_order(o)
<1>1. m = [type |-> type, order |-> o]
  BY DecodedOf
<1>2. Len(f) = 2 /\ OrderAccepted(OrderParts(f[2]))
  BY AcceptedOf DEF FieldsRead
<1>3. f[2] \in Seq(Token \ {Bar}) /\ f[1] = ToStr(type) /\ f[1] \in Seq(Token)
  BY <1>2 DEF FieldsRead
<1>4. OrderReadBack(o, f[2])
  BY <1>2, <1>3, OrderBack
<1> HIDE DEF o
<1>5. m.type = type /\ m.order = o /\ m \in Message
  BY <1>1, <1>4 DEF Message, OrderReadBack
<1> HIDE DEF m
<1>6. Sound(m) /\ Encodable(m)
  BY <1>4, <1>5 DEF Sound, Encodable, OrderReadBack, OrderSound
<1>7. Fields(m) = <<b>> /\ b \in Seq(Token) /\ Trimmed(b, f[2])
  BY <1>4, <1>5, FieldsOf DEF OrderReadBack
<1> HIDE DEF b
<1> DEFINE p == <<f[1], b>>
<1>8. <<f[1]>> \o <<b>> = p /\ p \in PartLists(Token)
  BY <1>3, <1>7, TwoParts, Zenon
<1>9. encode(m) = Joined(p, Bar)
  BY <1>3, <1>5, <1>7, <1>8 DEF encode
<1>10. TrimmedParts(p, f)
  <2>1. Len(p) = 2 /\ p[1] = f[1] /\ p[2] = b
    OBVIOUS
  <2>2. \A i \in 1 .. 2 : i = 1 \/ i = 2
    OBVIOUS
  <2>3. QED
    BY <1>2, <1>7, <2>1, <2>2, TrimmedSame, Zenon DEF TrimmedParts
<1> HIDE DEF p
<1>11. f \in PartLists(Token)
  BY DEF FieldsRead
<1>12. encode(m) \in Seq(Token) /\ Trimmed(encode(m), Joined(f, Bar))
  BY <1>8, <1>9, <1>10, <1>11, EncodingBack
<1>13. QED
  BY <1>5, <1>6, <1>12 DEF ReadBack, m

LEMMA ItemUpdateBack ==
  ASSUME NEW type, NEW f, FieldsRead(type, f), type \in ItemUpdateTypes
  PROVE  ReadBack(Decoded(type, f), Joined(f, Bar))
<1> DEFINE m == Decoded(type, f)
           a == to_string(m.order_id)
           b == to_string(m.item_id)
<1>1. m = [type |-> type, order_id |-> NumberIn(f[2]), item_id |-> NumberIn(f[3]),
           item_status |-> FromStr(ItemStatuses, f[4])]
  BY DecodedOf
<1>2. /\ Len(f) = 4 /\ validate_id_message(f[2], 1) /\ validate_id_message(f[3], 1)
      /\ FromStr(ItemStatuses, f[4]) # "INVALID"
  BY AcceptedOf DEF FieldsRead
<1>3. /\ f[2] \in Seq(Token) /\ f[3] \in Seq(Token) /\ f[4] \in Seq(Token)
      /\ f[1] = ToStr(type) /\ f[1] \in Seq(Token)
  BY <1>2 DEF FieldsRead
<1>4. m.item_status \in ItemStatuses \ {"INVALID"} /\ ToStr(m.item_status) = f[4]
  BY <1>1, <1>2, TablesAreWords, WordBack
<1>5. /\ m.order_id \in Ids /\ m.order_id \in Int /\ a \in Seq(Token)
      /\ Trimmed(a, f[2])
  BY <1>1, <1>2, <1>3, NumberBack
<1>6. /\ m.item_id \in Ids /\ m.item_id \in Int /\ b \in Seq(Token)
      /\ Trimmed(b, f[3])
  BY <1>1, <1>2, <1>3, NumberBack
<1>7. m.type = type /\ m \in Message
  <2>1. m = [type |-> type, order_id |-> m.order_id, item_id |-> m.item_id,
             item_status |-> m.item_status]
    BY <1>1
  <2> HIDE DEF m
  <2>2. m \in [type : ItemUpdateTypes, order_id : Int, item_id : Int,
               item_status : ItemStatuses]
    BY <1>4, <1>5, <1>6, <2>1
  <2>3. QED
    BY <2>1, <2>2 DEF Message
<1> HIDE DEF m
<1>8. Sound(m) /\ Encodable(m)
  BY <1>4, <1>5, <1>6, <1>7 DEF Sound, Encodable, OrderTypes, ItemUpdateTypes
<1>9. Fields(m) = <<a, b, f[4]>>
  BY <1>4, <1>7, FieldsOf
<1> HIDE DEF a, b
<1> DEFINE p == <<f[1], a, b, f[4]>>
<1>10. <<f[1]>> \o <<a, b, f[4]>> = p /\ p \in PartLists(Token)
  BY <1>3, <1>5, <1>6, FourParts, Zenon
<1>11. encode(m) = Joined(p, Bar)
  BY <1>3, <1>7, <1>9, <1>10 DEF encode
<1>12. TrimmedParts(p, f)
  <2>1. Len(p) = 4 /\ p[1] = f[1] /\ p[2] = a /\ p[3] = b /\ p[4] = f[4]
    OBVIOUS
  <2>2. \A i \in 1 .. 4 : i = 1 \/ i = 2 \/ i = 3 \/ i = 4
    OBVIOUS
  <2>3. QED
    BY <1>2, <1>5, <1>6, <2>1, <2>2, TrimmedSame, Zenon DEF TrimmedParts
<1> HIDE DEF p
<1>13. f \in PartLists(Token)
  BY DEF FieldsRead
<1>14. encode(m) \in Seq(Token) /\ Trimmed(encode(m), Joined(f, Bar))
  BY <1>10, <1>11, <1>12, <1>13, EncodingBack
<1>15. QED
  BY <1>7, <1>8, <1>14 DEF ReadBack, m

LEMMA OrderUpdateBack ==
  ASSUME NEW type, NEW f, FieldsRead(type, f), type \in OrderUpdateTypes
  PROVE  ReadBack(Decoded(type, f), Joined(f, Bar))
<1> DEFINE m == Decoded(type, f)
           a == to_string(m.order_id)
<1>1. m = [type |-> type, order_id |-> NumberIn(f[2]),
           order_status |-> FromStr(OrderStatuses, f[3])]
  BY DecodedOf
<1>2. /\ Len(f) = 3 /\ validate_id_message(f[2], 1)
      /\ FromStr(OrderStatuses, f[3]) # "INVALID"
  BY AcceptedOf DEF FieldsRead
<1>3. /\ f[2] \in Seq(Token) /\ f[3] \in Seq(Token)
      /\ f[1] = ToStr(type) /\ f[1] \in Seq(Token)
  BY <1>2 DEF FieldsRead
<1>4. m.order_status \in OrderStatuses \ {"INVALID"} /\ ToStr(m.order_status) = f[3]
  BY <1>1, <1>2, TablesAreWords, WordBack
<1>5. /\ m.order_id \in Ids /\ m.order_id \in Int /\ a \in Seq(Token)
      /\ Trimmed(a, f[2])
  BY <1>1, <1>2, <1>3, NumberBack
<1>6. m.type = type /\ m \in Message
  <2>1. m = [type |-> type, order_id |-> m.order_id, order_status |-> m.order_status]
    BY <1>1
  <2> HIDE DEF m
  <2>2. m \in [type : OrderUpdateTypes, order_id : Int, order_status : OrderStatuses]
    BY <1>4, <1>5, <2>1
  <2>3. QED
    BY <2>1, <2>2 DEF Message
<1> HIDE DEF m
<1>7. Sound(m) /\ Encodable(m)
  BY <1>4, <1>5, <1>6 DEF Sound, Encodable, OrderTypes, OrderUpdateTypes
<1>8. Fields(m) = <<a, f[3]>>
  BY <1>4, <1>6, FieldsOf
<1> HIDE DEF a
<1> DEFINE p == <<f[1], a, f[3]>>
<1>9. <<f[1]>> \o <<a, f[3]>> = p /\ p \in PartLists(Token)
  BY <1>3, <1>5, ThreeParts, Zenon
<1>10. encode(m) = Joined(p, Bar)
  BY <1>3, <1>6, <1>8, <1>9 DEF encode
<1>11. TrimmedParts(p, f)
  <2>1. Len(p) = 3 /\ p[1] = f[1] /\ p[2] = a /\ p[3] = f[3]
    OBVIOUS
  <2>2. \A i \in 1 .. 3 : i = 1 \/ i = 2 \/ i = 3
    OBVIOUS
  <2>3. QED
    BY <1>2, <1>5, <2>1, <2>2, TrimmedSame, Zenon DEF TrimmedParts
<1> HIDE DEF p
<1>12. f \in PartLists(Token)
  BY DEF FieldsRead
<1>13. encode(m) \in Seq(Token) /\ Trimmed(encode(m), Joined(f, Bar))
  BY <1>9, <1>10, <1>11, <1>12, EncodingBack
<1>14. QED
  BY <1>6, <1>7, <1>13 DEF ReadBack, m

(* Whatever is accepted is sound, and encodes to the text it was read from. *)
LEMMA MessageBack ==
  ASSUME NEW s \in Seq(Token), decode(s) # Invalid
  PROVE  ReadBack(decode(s), s)
<1> DEFINE f == split(s, Bar)
           type == FromStr(MessageTypes, f[1])
           Y == Seq(Token \ {Bar})
<1>1. f \in PartLists(Token \ {Bar}) /\ Joined(f, Bar) = s
  BY SeparatorsDiffer, SplitType, JoinedSplit
<1>2. Accepted(type, f) /\ decode(s) = Decoded(type, f)
  BY DEF decode
<1>3. f \in Seq(Y) /\ f # << >>
  BY <1>1 DEF PartLists
<1> HIDE DEF f, Y
<1>4. Kind(type)
  BY <1>2, Zenon DEF Accepted, Kind
<1>5. type # "INVALID" /\ f[1] = ToStr(type) /\ type \in MessageTypes
  BY <1>4, KindsAreTypes, ToFromStr
<1> HIDE DEF type
<1>6. ToStr(type) \in Seq(Token)
  BY <1>5, TablesAreWords, OneToken
<1>7. \A i \in 1 .. Len(f) : f[i] \in Y
  BY <1>3, ElementOfSeq
<1>8. Y \subseteq Seq(Token) /\ f \in PartLists(Token)
  <2>1. Token \ {Bar} \subseteq Token
    OBVIOUS
  <2>2. QED
    BY <1>1, <2>1, PartListsMonotonic DEF Y
<1>9. ASSUME NEW i \in 1 .. Len(f)
      PROVE  f[i] \in Seq(Token) /\ Plain(f[i], {Bar}) /\ f[i] \in Seq(Token \ {Bar})
  <2>1. f[i] \in Seq(Token \ {Bar})
    BY <1>7 DEF Y
  <2>2. (Token \ {Bar}) \cap {Bar} = {}
    OBVIOUS
  <2>3. Plain(f[i], {Bar})
    BY <2>1, <2>2, PlainText
  <2>4. QED
    BY <1>7, <1>8, <2>1, <2>3
<1>10. FieldsRead(type, f)
  BY <1>2, <1>5, <1>6, <1>8, <1>9 DEF FieldsRead
<1>11. ReadBack(Decoded(type, f), Joined(f, Bar))
  BY <1>4, <1>10, HeartbeatBack, LoginBack, TextBack, OrderMessageBack, ItemUpdateBack,
     OrderUpdateBack, Zenon DEF Kind
<1>12. QED
  BY <1>1, <1>2, <1>11
-------------------------------------------------------------------------------
(* What encode has written, decode reads *)

LEMMA PlainType ==
  ASSUME NEW X, NEW seps, NEW s \in Seq(X), Plain(s, seps)
  PROVE  s \in Seq(X \ seps)
<1>1. \A i \in 1 .. Len(s) : s[i] \in X \ seps
  BY ElementOfSeq, LenProperties DEF Plain, Occurs
<1>2. s = [i \in 1 .. Len(s) |-> s[i]] /\ Len(s) \in Nat
  OBVIOUS
<1>3. QED
  BY <1>1, <1>2, MapIsSeq

ItemArrives(item, s) ==
  /\ s \in Seq(Token)
  /\ ItemAccepted(split(s, Colon)) => DecodedItem(split(s, Colon)) = item
  /\ ItemSound(item) => ItemAccepted(split(s, Colon)) /\ s \in Seq(Token \ {Bar})
  /\ Plain(item.desc, {Semi}) => s \in Seq(Token \ {Semi})

LEMMA ItemForth ==
  ASSUME NEW item \in Item
  PROVE  ItemArrives(item, EncodedItem(item))
<1> DEFINE a == to_string(item.order_id)
           b == to_string(item.id)
           c == ToStr(item.status)
           d == item.desc
           e == to_string(item.qty)
           p == <<a, b, c, d, e>>
           s == Joined(p, Colon)
           v == split(s, Colon)
<1>1. /\ item.order_id \in Int /\ item.id \in Int /\ item.qty \in Int
      /\ item.status \in ItemStatuses /\ d \in Seq(Token)
      /\ item = [order_id |-> item.order_id, id |-> item.id, status |-> item.status,
                 desc |-> d, qty |-> item.qty]
  BY DEF Item
<1>2. a \in Seq(Written) /\ b \in Seq(Written) /\ e \in Seq(Written) /\ c \in Seq(Written)
  BY <1>1, TablesAreWords, OneToken
<1>3. /\ validate_id_message(a, 1) <=> item.order_id \in Ids
      /\ NumberIn(a) = item.order_id
  BY <1>1, ValidateWritten
<1>4. /\ validate_id_message(b, 1) <=> item.id \in Ids
      /\ NumberIn(b) = item.id
  BY <1>1, ValidateWritten
<1>5. /\ validate_id_message(e, 1) <=> item.qty \in Ids
      /\ NumberIn(e) = item.qty
  BY <1>1, ValidateWritten
<1>6. FromStr(ItemStatuses, c) = item.status
  BY <1>1, FromToStr
<1>7. EncodedItem(item) = s
  BY DEF EncodedItem
<1> HIDE DEF a, b, c, d, e
<1>8. ASSUME NEW X, Seq(Written) \subseteq Seq(X), d \in Seq(X)
      PROVE  Five(a, b, c, d, e, X)
  BY <1>2, <1>8, FiveParts
<1>9. Five(a, b, c, d, e, Token)
  BY <1>1, <1>8, OneToken
<1>10. p \in PartLists(Token) /\ Len(p) = 5
  BY <1>9 DEF Five
<1>11. /\ p[1] = a /\ p[2] = b /\ p[3] = c /\ p[4] = d /\ p[5] = e
  BY <1>9, Zenon DEF Five
<1>12. ASSUME NEW sep \in Separators, sep # Colon, Plain(item.desc, {sep})
       PROVE  s \in Seq(Token \ {sep})
  <2>1. d \in Seq(Token \ {sep})
    BY <1>1, <1>12, PlainType DEF d
  <2>2. p \in PartLists(Token \ {sep})
    BY <1>8, <2>1, OneToken DEF Five
  <2>3. Colon \in Token \ {sep}
    BY <1>12, SeparatorsDiffer
  <2> HIDE DEF p
  <2>4. QED
    BY <2>2, <2>3, JoinedType
<1>13. s \in Seq(Token) /\ SplitsBack(p, v, Token, Colon)
  <2> HIDE DEF p
  <2>1. QED
    BY <1>10, SeparatorsDiffer, JoinedType, SplitJoined
<1> HIDE DEF v, s
<1>14. ItemAccepted(v) => v = p
  BY <1>10, <1>13 DEF ItemAccepted, SplitsBack
<1>15. DecodedItem(p) = item
  <2>1. DecodedItem(p) = [order_id |-> NumberIn(a), id |-> NumberIn(b),
                          status |-> FromStr(ItemStatuses, c), desc |-> d,
                          qty |-> NumberIn(e)]
    BY <1>11 DEF DecodedItem
  <2>2. QED
    BY <1>1, <1>3, <1>4, <1>5, <1>6, <2>1, Zenon
<1>16. ASSUME ItemSound(item)
       PROVE  ItemAccepted(v) /\ s \in Seq(Token \ {Bar})
  <2>1. /\ item.order_id \in Ids /\ item.id \in Ids /\ item.qty \in Ids
        /\ item.status # "INVALID" /\ Plain(item.desc, {Bar, Semi, Colon})
    BY <1>16 DEF ItemSound
  <2>2. Plain(item.desc, {Bar}) /\ Plain(item.desc, {Colon})
    BY <2>1 DEF Plain
  <2>3. ItemAccepted(p)
    BY <1>3, <1>4, <1>5, <1>6, <1>10, <1>11, <2>1, Zenon DEF ItemAccepted
  <2>4. d \in Seq(Token \ {Colon})
    BY <1>1, <2>2, PlainType DEF d
  <2>5. p \in PartLists(Token \ {Colon})
    BY <1>8, <2>4, OneToken DEF Five, Separators
  <2>6. v = p
    BY <1>13, <2>5 DEF SplitsBack
  <2>7. Bar \in Separators /\ Bar # Colon
    BY SeparatorsDiffer DEF Separators
  <2>8. QED
    BY <1>12, <2>2, <2>3, <2>6, <2>7
<1>17. Plain(item.desc, {Semi}) => s \in Seq(Token \ {Semi})
  <2>1. Semi \in Separators /\ Semi # Colon
    BY SeparatorsDiffer DEF Separators
  <2>2. QED
    BY <1>12, <2>1
<1>18. QED
  BY <1>7, <1>13, <1>14, <1>15, <1>16, <1>17, Zenon DEF ItemArrives, v

LEMMA OrderPartsForth ==
  ASSUME NEW X, Comma \in X, NEW a \in Seq(X \ {Comma}), NEW b \in Seq(X \ {Comma}),
         NEW c \in Seq(X)
  PROVE  OrderParts(a \o <<Comma>> \o b \o <<Comma>> \o c) = <<a, b, c>>
<1> DEFINE h == a \o <<Comma>> \o b
           s == h \o <<Comma>> \o c
           w == split(c, Comma)
           two == <<a, b>>
           parts == two \o w
           L == Len(parts)
           Y == Seq(X)
<1>1. a \in Seq(X) /\ b \in Seq(X)
  BY PartListsMonotonic
<1>2. h \in Seq(X)
  BY <1>1
<1>3. w \in PartLists(X) /\ Joined(w, Comma) = c
  BY SplitPartList, JoinedSplit
<1>4. split(h, Comma) = two
  <2>1. split(h, Comma) = split(a, Comma) \o split(b, Comma)
    BY <1>1, SplitConcat
  <2>2. split(a, Comma) = <<a>> /\ split(b, Comma) = <<b>>
    BY SplitPlain
  <2>3. <<a>> \o <<b>> = two
    BY <1>1, TwoParts
  <2>4. QED
    BY <2>1, <2>2, <2>3, Zenon
<1> HIDE DEF h
<1>5. split(s, Comma) = parts
  <2>1. split(h \o <<Comma>> \o c, Comma) = split(h, Comma) \o split(c, Comma)
    BY <1>2, SplitConcat
  <2>2. QED
    BY <1>4, <2>1, Zenon
<1>6. w \in Seq(Y) /\ w # << >>
  BY <1>3 DEF PartLists
<1> HIDE DEF w
<1>7. two \in Seq(Y) /\ Len(two) = 2 /\ two[1] = a /\ two[2] = b
  BY <1>1
<1> HIDE DEF two, Y
<1>8. Len(w) \in Nat /\ Len(w) >= 1
  BY <1>6
<1>9. /\ parts \in Seq(Y) /\ Len(parts) = Len(two) + Len(w)
      /\ \A i \in 1 .. Len(two) : parts[i] = two[i]
      /\ \A i \in 1 .. Len(w) : parts[Len(two) + i] = w[i]
  <2>1. two \in Seq(Y) /\ w \in Seq(Y)
    BY <1>6, <1>7
  <2>2. QED
    BY <2>1
<1> HIDE DEF parts
<1>10. L = 2 + Len(w) /\ L >= 3 /\ parts[1] = a /\ parts[2] = b
  BY <1>7, <1>8, <1>9
<1> DEFINE r == SubSeq(parts, 3, L)
<1>11. r = w
  <2>1. r \in Seq(Y) /\ Len(r) = Len(w) /\ \A i \in 1 .. Len(w) : r[i] = parts[i + 2]
    BY <1>8, <1>9, <1>10
  <2>2. ASSUME NEW i \in 1 .. Len(w) PROVE r[i] = w[i]
    <3>1. i + 2 = Len(two) + i
      BY <1>7, <1>8
    <3>2. QED
      BY <1>9, <2>1, <3>1, Zenon
  <2> HIDE DEF r
  <2>3. QED
    BY <1>6, <2>1, <2>2, SeqEqual
<1> HIDE DEF r, L
<1>12. ~(L < 3)
  BY <1>8, <1>10
<1>13. OrderParts(s) = <<parts[1], parts[2], Joined(r, Comma)>>
  <2> HIDE DEF s
  <2>1. OrderParts(s) = IF L < 3 THEN parts ELSE <<parts[1], parts[2], Joined(r, Comma)>>
    BY <1>5, Zenon DEF OrderParts, L, r
  <2>2. QED
    BY <1>12, <2>1
<1>14. QED
  BY <1>3, <1>10, <1>11, <1>13, Zenon DEF h, w

ItemsPlain(items) == \A i \in DOMAIN items : Plain(items[i].desc, {Semi})

OrderArrives(order, s) ==
  /\ s \in Seq(Token)
  /\ ItemsPlain(order.items) /\ OrderAccepted(OrderParts(s))
       => decode_order(OrderParts(s)) = order
  /\ OrderSound(order) => OrderAccepted(OrderParts(s)) /\ s \in Seq(Token \ {Bar})

ItemsArrive(items, t) ==
  /\ t \in Seq(Token)
  /\ ItemsPlain(items) =>
       /\ DOMAIN ItemTexts(t) = DOMAIN items
       /\ (\A i \in DOMAIN items : ItemAccepted(ItemTexts(t)[i]))
            => [i \in DOMAIN ItemTexts(t) |-> DecodedItem(ItemTexts(t)[i])] = items
  /\ (\A i \in DOMAIN items : ItemSound(items[i])) =>
       /\ \A i \in DOMAIN ItemTexts(t) : ItemAccepted(ItemTexts(t)[i])
       /\ t \in Seq(Token \ {Bar})

LEMMA ItemsForth ==
  ASSUME NEW items \in Seq(Item), items # << >>
  PROVE  ItemsArrive(items, Joined([i \in DOMAIN items |-> EncodedItem(items[i])], Semi))
<1> DEFINE N == Len(items)
           E == [i \in DOMAIN items |-> EncodedItem(items[i])]
           t == Joined(E, Semi)
           v == split(t, Semi)
           it == ItemTexts(t)
<1>1. DOMAIN items = 1 .. N /\ N \in Nat /\ N >= 1
  BY LenProperties, EmptySeq
<1>2. \A i \in 1 .. N : items[i] \in Item
  BY ElementOfSeq
<1>3. items = [i \in 1 .. N |-> items[i]]
  BY LenProperties
<1> HIDE DEF N
<1>4. ASSUME NEW i \in 1 .. N
      PROVE  E[i] = EncodedItem(items[i]) /\ ItemArrives(items[i], E[i])
  BY <1>1, <1>2, ItemForth
<1>5. E = [i \in 1 .. N |-> E[i]]
  BY <1>1
<1> HIDE DEF E
<1>6. ASSUME NEW X, \A i \in 1 .. N : E[i] \in Seq(X)
      PROVE  E \in PartLists(X) /\ Len(E) = N
  <2> DEFINE Y == Seq(X)
  <2>1. \A i \in 1 .. N : E[i] \in Y
    BY <1>6
  <2> HIDE DEF Y
  <2>2. E \in Seq(Y) /\ Len(E) = N
    BY <1>1, <1>5, <2>1, MapIsSeq
  <2>3. E # << >>
    BY <1>1, <2>2
  <2>4. QED
    BY <2>2, <2>3 DEF PartLists, Y
<1>7. E \in PartLists(Token) /\ Len(E) = N
  BY <1>4, <1>6 DEF ItemArrives
<1>8. t \in Seq(Token) /\ SplitsBack(E, v, Token, Semi)
  BY <1>7, SeparatorsDiffer, JoinedType, SplitJoined
<1>9. it = [i \in DOMAIN v |-> split(v[i], Colon)]
  BY DEF ItemTexts
<1> HIDE DEF t, v, it
<1>10. ASSUME ItemsPlain(items)
       PROVE  DOMAIN it = 1 .. N /\ \A i \in 1 .. N : it[i] = split(E[i], Colon)
  <2>1. \A i \in 1 .. N : E[i] \in Seq(Token \ {Semi})
    BY <1>1, <1>4, <1>10 DEF ItemsPlain, ItemArrives
  <2>2. E \in PartLists(Token \ {Semi})
    BY <1>6, <2>1
  <2>3. v = E
    BY <1>8, <2>2 DEF SplitsBack
  <2>4. DOMAIN E = 1 .. N
    BY <1>5
  <2>5. QED
    BY <1>9, <2>3, <2>4
<1>11. ASSUME ItemsPlain(items), \A i \in DOMAIN items : ItemAccepted(it[i])
       PROVE  [i \in DOMAIN it |-> DecodedItem(it[i])] = items
  <2>1. DOMAIN it = 1 .. N /\ \A i \in 1 .. N : it[i] = split(E[i], Colon)
    BY <1>10, <1>11
  <2>2. ASSUME NEW i \in 1 .. N PROVE DecodedItem(it[i]) = items[i]
    BY <1>1, <1>4, <1>11, <2>1 DEF ItemArrives
  <2>3. QED
    BY <1>3, <2>1, <2>2
<1>12. ASSUME \A i \in DOMAIN items : ItemSound(items[i])
       PROVE  /\ \A i \in DOMAIN it : ItemAccepted(it[i])
              /\ t \in Seq(Token \ {Bar})
  <2>1. ItemsPlain(items)
    BY <1>12 DEF ItemsPlain, ItemSound, Plain
  <2>2. DOMAIN it = 1 .. N /\ \A i \in 1 .. N : it[i] = split(E[i], Colon)
    BY <1>10, <2>1
  <2>3. \A i \in 1 .. N : ItemAccepted(it[i]) /\ E[i] \in Seq(Token \ {Bar})
    BY <1>1, <1>4, <1>12, <2>2 DEF ItemArrives
  <2>4. E \in PartLists(Token \ {Bar})
    BY <1>6, <2>3
  <2>5. Semi \in Token \ {Bar}
    BY SeparatorsDiffer
  <2>6. t \in Seq(Token \ {Bar})
    BY <2>4, <2>5, JoinedType DEF t
  <2>7. QED
    BY <2>2, <2>3, <2>6
<1>13. ItemsPlain(items) => DOMAIN it = DOMAIN items
  BY <1>1, <1>10
<1>14. QED
  BY <1>8, <1>11, <1>12, <1>13, Zenon DEF ItemsArrive, it, t, E

LEMMA OrderForth ==
  ASSUME NEW order \in Order, order.items # << >>
  PROVE  OrderArrives(order, encode_order(order))
<1> DEFINE a == to_string(order.id)
           b == ToStr(order.status)
           c == Joined([i \in DOMAIN order.items |-> EncodedItem(order.items[i])], Semi)
           s == a \o <<Comma>> \o b \o <<Comma>> \o c
           p == <<a, b, c>>
<1>1. /\ order.id \in Int /\ order.status \in OrderStatuses /\ order.items \in Seq(Item)
      /\ order = [id |-> order.id, status |-> order.status, items |-> order.items]
  BY DEF Order
<1>2. a \in Seq(Written) /\ b \in Seq(Written)
  BY <1>1, TablesAreWords, OneToken
<1>3. /\ validate_id_message(a, 1) <=> order.id \in Ids
      /\ NumberIn(a) = order.id
  BY <1>1, ValidateWritten
<1>4. FromStr(OrderStatuses, b) = order.status
  BY <1>1, FromToStr
<1>5. ItemsArrive(order.items, c)
  BY <1>1, ItemsForth
<1>6. encode_order(order) = s
  BY DEF encode_order
<1> HIDE DEF a, b, c
<1>7. /\ a \in Seq(Token) /\ b \in Seq(Token) /\ c \in Seq(Token)
      /\ a \in Seq(Token \ {Comma}) /\ b \in Seq(Token \ {Comma})
      /\ a \in Seq(Token \ {Bar}) /\ b \in Seq(Token \ {Bar})
  BY <1>2, <1>5, OneToken DEF Separators, ItemsArrive
<1>8. OrderParts(s) = p
  BY <1>7, SeparatorsDiffer, OrderPartsForth
<1>9. Len(p) = 3 /\ p[1] = a /\ p[2] = b /\ p[3] = c
  OBVIOUS
<1>10. s \in Seq(Token)
  BY <1>7, ThreeType
<1>11. ASSUME c \in Seq(Token \ {Bar}) PROVE s \in Seq(Token \ {Bar})
  <2> DEFINE X == Token \ {Bar}
             one == <<Comma>>
  <2>1. one \in Seq(X)
    BY SeparatorsDiffer
  <2>2. a \in Seq(X) /\ b \in Seq(X) /\ c \in Seq(X)
    BY <1>7, <1>11
  <2> HIDE DEF X, one
  <2>3. a \o one \in Seq(X)
    BY <2>1, <2>2
  <2>4. a \o one \o b \in Seq(X)
    BY <2>2, <2>3
  <2>5. a \o one \o b \o one \in Seq(X)
    BY <2>1, <2>4
  <2>6. a \o one \o b \o one \o c \in Seq(X)
    BY <2>2, <2>5
  <2>7. QED
    BY <2>6 DEF X, one
<1> HIDE DEF p, s
<1>12. ASSUME ItemsPlain(order.items), OrderAccepted(p)
       PROVE  decode_order(p) = order
  <2>1. \A i \in DOMAIN ItemTexts(c) : ItemAccepted(ItemTexts(c)[i])
    BY <1>9, <1>12 DEF OrderAccepted
  <2>2. [i \in DOMAIN ItemTexts(c) |-> DecodedItem(ItemTexts(c)[i])] = order.items
    BY <1>5, <1>12, <2>1, Zenon DEF ItemsArrive
  <2>3. decode_order(p) =
          [id |-> NumberIn(a), status |-> FromStr(OrderStatuses, b),
           items |-> [i \in DOMAIN ItemTexts(c) |-> DecodedItem(ItemTexts(c)[i])]]
    BY <1>9, Zenon DEF decode_order
  <2>4. QED
    BY <1>1, <1>3, <1>4, <2>2, <2>3, Zenon
<1>13. ASSUME OrderSound(order)
       PROVE  OrderAccepted(p) /\ s \in Seq(Token \ {Bar})
  <2>1. /\ order.id \in Ids /\ order.status # "INVALID"
        /\ \A i \in DOMAIN order.items : ItemSound(order.items[i])
    BY <1>13 DEF OrderSound
  <2>2. /\ \A i \in DOMAIN ItemTexts(c) : ItemAccepted(ItemTexts(c)[i])
        /\ c \in Seq(Token \ {Bar})
    BY <1>5, <2>1, Zenon DEF ItemsArrive
  <2>3. OrderAccepted(p)
    BY <1>3, <1>4, <1>9, <2>1, <2>2, Zenon DEF OrderAccepted
  <2>4. QED
    BY <1>11, <2>2, <2>3
<1>14. QED
  BY <1>6, <1>8, <1>10, <1>12, <1>13, Zenon DEF OrderArrives

LEMMA MessageShapes ==
  ASSUME NEW m \in Message
  PROVE  /\ Kind(m.type)
         /\ m.type = "DISP_HEARTBEAT" => m = [type |-> m.type]
         /\ m.type = "LOGIN" =>
              /\ m.client_mode \in ClientModes /\ m.str \in Seq(Token)
              /\ m = [type |-> m.type, client_mode |-> m.client_mode, str |-> m.str]
         /\ m.type \in TextTypes =>
              m.str \in Seq(Token) /\ m = [type |-> m.type, str |-> m.str]
         /\ m.type \in OrderTypes =>
              m.order \in Order /\ m = [type |-> m.type, order |-> m.order]
         /\ m.type \in ItemUpdateTypes =>
              /\ m.order_id \in Int /\ m.item_id \in Int /\ m.item_status \in ItemStatuses
              /\ m = [type |-> m.type, order_id |-> m.order_id, item_id |-> m.item_id,
                      item_status |-> m.item_status]
         /\ m.type \in OrderUpdateTypes =>
              /\ m.order_id \in Int /\ m.order_status \in OrderStatuses
              /\ m = [type |-> m.type, order_id |-> m.order_id,
                      order_status |-> m.order_status]
<1>1. CASE m \in [type : {"DISP_HEARTBEAT"}]
  BY <1>1 DEF Kind, TextTypes, OrderTypes, ItemUpdateTypes, OrderUpdateTypes
<1>2. CASE m \in [type : {"LOGIN"}, client_mode : ClientModes, str : Seq(Token)]
  BY <1>2 DEF Kind, TextTypes, OrderTypes, ItemUpdateTypes, OrderUpdateTypes
<1>3. CASE m \in [type : TextTypes, str : Seq(Token)]
  BY <1>3 DEF Kind, TextTypes, OrderTypes, ItemUpdateTypes, OrderUpdateTypes
<1>4. CASE m \in [type : OrderTypes, order : Order]
  BY <1>4 DEF Kind, TextTypes, OrderTypes, ItemUpdateTypes, OrderUpdateTypes
<1>5. CASE m \in [type : ItemUpdateTypes, order_id : Int, item_id : Int,
                  item_status : ItemStatuses]
  BY <1>5 DEF Kind, TextTypes, OrderTypes, ItemUpdateTypes, OrderUpdateTypes
<1>6. CASE m \in [type : OrderUpdateTypes, order_id : Int, order_status : OrderStatuses]
  BY <1>6 DEF Kind, TextTypes, OrderTypes, ItemUpdateTypes, OrderUpdateTypes
<1>7. QED
  BY <1>1, <1>2, <1>3, <1>4, <1>5, <1>6 DEF Message

LEMMA SoundOf ==
  ASSUME NEW m, Sound(m)
  PROVE  /\ m.type = "LOGIN" =>
              Plain(m.str, {Bar}) /\ m.client_mode \in ClientModes \ {"INVALID"}
         /\ m.type \in TextTypes => Plain(m.str, {Bar})
         /\ m.type \in OrderTypes => OrderSound(m.order)
         /\ m.type \in ItemUpdateTypes =>
              /\ m.order_id \in Ids /\ m.item_id \in Ids
              /\ m.item_status \in ItemStatuses \ {"INVALID"}
         /\ m.type \in OrderUpdateTypes =>
              m.order_id \in Ids /\ m.order_status \in OrderStatuses \ {"INVALID"}
BY DEF Sound, OrderSound, TextTypes, OrderTypes, ItemUpdateTypes, OrderUpdateTypes

(* What a message is written as, part by part, and what is read from it. *)
Arrives(m, p) ==
  /\ p \in PartLists(Token) /\ encode(m) = Joined(p, Bar) /\ p[1] = ToStr(m.type)
  /\ \A f : Accepted(m.type, f) => Len(f) = Len(p)
  /\ SemiFree(m) /\ Accepted(m.type, p) => Decoded(m.type, p) = m
  /\ Sound(m) => Accepted(m.type, p) /\ p \in PartLists(Token \ {Bar})

TextOrBarFree(s) == s \in Seq(Token) /\ s \in Seq(Token \ {Bar})

LEMMA WrittenFields ==
  /\ \A n \in Int : TextOrBarFree(to_string(n))
  /\ \A v \in Words : TextOrBarFree(ToStr(v))
BY OneToken DEF TextOrBarFree, Separators

LEMMA BarFree ==
  ASSUME NEW s \in Seq(Token), Plain(s, {Bar})
  PROVE  s \in Seq(Token \ {Bar})
BY PlainType

LEMMA HeartbeatForth ==
  ASSUME NEW m \in Message, m.type = "DISP_HEARTBEAT"
  PROVE  \E p : Arrives(m, p)
<1> DEFINE a == ToStr(m.type)
           p == <<a>>
<1>1. TextOrBarFree(a)
  BY WrittenFields, WireAssumption DEF MessageTypes
<1>2. m = [type |-> m.type]
  BY MessageShapes
<1>3. Fields(m) = << >>
  BY FieldsOf
<1>4. encode(m) = Joined(<<a>> \o << >>, Bar)
  BY <1>3 DEF encode
<1> HIDE DEF a
<1>5. p \in PartLists(Token) /\ <<a>> \o << >> = p
  BY <1>1, FewParts DEF Few, TextOrBarFree
<1>6. p \in PartLists(Token \ {Bar})
  BY <1>1, FewParts DEF Few, TextOrBarFree
<1>7. p[1] = a /\ Len(p) = 1
  OBVIOUS
<1>8. Accepted(m.type, p) /\ \A f : Accepted(m.type, f) => Len(f) = Len(p)
  BY <1>7, AcceptedOf
<1>9. Decoded(m.type, p) = m
  BY <1>2, DecodedOf
<1> HIDE DEF p
<1>10. Arrives(m, p)
  BY <1>4, <1>5, <1>6, <1>7, <1>8, <1>9 DEF Arrives, a
<1>11. QED
  BY <1>10

LEMMA LoginForth ==
  ASSUME NEW m \in Message, m.type = "LOGIN"
  PROVE  \E p : Arrives(m, p)
<1> DEFINE a == ToStr(m.type)
           b == ToStr(m.client_mode)
           p == <<a, b, m.str>>
<1>1. /\ m.client_mode \in ClientModes /\ m.str \in Seq(Token)
      /\ m = [type |-> m.type, client_mode |-> m.client_mode, str |-> m.str]
  BY MessageShapes
<1>2. TextOrBarFree(a) /\ TextOrBarFree(b)
  BY <1>1, WrittenFields, WireAssumption DEF MessageTypes
<1>3. FromStr(ClientModes, b) = m.client_mode
  BY <1>1, FromToStr
<1>4. Fields(m) = <<b, m.str>>
  BY FieldsOf
<1>5. encode(m) = Joined(<<a>> \o <<b, m.str>>, Bar)
  BY <1>4 DEF encode
<1> HIDE DEF a, b
<1>6. p \in PartLists(Token) /\ <<a>> \o <<b, m.str>> = p
  BY <1>1, <1>2, ThreeParts, Zenon DEF TextOrBarFree
<1>7. p[1] = a /\ p[2] = b /\ p[3] = m.str /\ Len(p) = 3
  OBVIOUS
<1>8. ASSUME Sound(m) PROVE p \in PartLists(Token \ {Bar})
  <2>1. m.str \in Seq(Token \ {Bar})
    BY <1>1, <1>8, SoundOf, BarFree
  <2>2. QED
    BY <1>2, <2>1, ThreeParts, Zenon DEF TextOrBarFree
<1> HIDE DEF p
<1>9. \A f : Accepted(m.type, f) => Len(f) = Len(p)
  BY <1>7, AcceptedOf
<1>10. Sound(m) => Accepted(m.type, p)
  BY <1>3, <1>7, AcceptedOf, SoundOf
<1>11. Decoded(m.type, p) = m
  BY <1>1, <1>3, <1>7, DecodedOf
<1>12. Arrives(m, p)
  BY <1>5, <1>6, <1>7, <1>8, <1>9, <1>10, <1>11 DEF Arrives, a
<1>13. QED
  BY <1>12

LEMMA TextForth ==
  ASSUME NEW m \in Message, m.type \in TextTypes
  PROVE  \E p : Arrives(m, p)
<1> DEFINE a == ToStr(m.type)
           p == <<a, m.str>>
<1>1. m.str \in Seq(Token) /\ m = [type |-> m.type, str |-> m.str]
  BY MessageShapes
<1>2. TextOrBarFree(a)
  BY WrittenFields, WireAssumption DEF MessageTypes, TextTypes
<1>3. Fields(m) = <<m.str>>
  BY FieldsOf
<1>4. encode(m) = Joined(<<a>> \o <<m.str>>, Bar)
  BY <1>3 DEF encode
<1> HIDE DEF a
<1>5. p \in PartLists(Token) /\ <<a>> \o <<m.str>> = p
  BY <1>1, <1>2, TwoParts, Zenon DEF TextOrBarFree
<1>6. p[1] = a /\ p[2] = m.str /\ Len(p) = 2
  OBVIOUS
<1>7. ASSUME Sound(m) PROVE p \in PartLists(Token \ {Bar})
  <2>1. m.str \in Seq(Token \ {Bar})
    BY <1>1, <1>7, SoundOf, BarFree
  <2>2. QED
    BY <1>2, <2>1, TwoParts, Zenon DEF TextOrBarFree
<1> HIDE DEF p
<1>8. Accepted(m.type, p) /\ \A f : Accepted(m.type, f) => Len(f) = Len(p)
  BY <1>6, AcceptedOf
<1>9. Decoded(m.type, p) = m
  BY <1>1, <1>6, DecodedOf
<1>10. Arrives(m, p)
  BY <1>4, <1>5, <1>6, <1>7, <1>8, <1>9 DEF Arrives, a
<1>11. QED
  BY <1>10

LEMMA OrderMessageForth ==
  ASSUME NEW m \in Message, m.type \in OrderTypes, Encodable(m)
  PROVE  \E p : Arrives(m, p)
<1> DEFINE a == ToStr(m.type)
           b == encode_order(m.order)
           p == <<a, b>>
<1>1. m.order \in Order /\ m = [type |-> m.type, order |-> m.order]
  BY MessageShapes
<1>2. TextOrBarFree(a)
  BY WrittenFields, WireAssumption DEF MessageTypes, OrderTypes
<1>3. OrderArrives(m.order, b)
  BY <1>1, OrderForth DEF Encodable
<1>4. Fields(m) = <<b>>
  BY FieldsOf
<1>5. encode(m) = Joined(<<a>> \o <<b>>, Bar)
  BY <1>4 DEF encode
<1> HIDE DEF a, b
<1>6. p \in PartLists(Token) /\ <<a>> \o <<b>> = p
  BY <1>2, <1>3, TwoParts, Zenon DEF TextOrBarFree, OrderArrives
<1>7. p[1] = a /\ p[2] = b /\ Len(p) = 2
  OBVIOUS
<1>8. ASSUME Sound(m) PROVE p \in PartLists(Token \ {Bar}) /\ OrderAccepted(OrderParts(b))
  <2>1. OrderSound(m.order)
    BY <1>8, SoundOf
  <2>2. b \in Seq(Token \ {Bar}) /\ OrderAccepted(OrderParts(b))
    BY <1>3, <2>1 DEF OrderArrives
  <2>3. QED
    BY <1>2, <2>2, TwoParts, Zenon DEF TextOrBarFree
<1> HIDE DEF p
<1>9. \A f : Accepted(m.type, f) => Len(f) = Len(p)
  BY <1>7, AcceptedOf
<1>10. Sound(m) => Accepted(m.type, p)
  BY <1>7, <1>8, AcceptedOf
<1>11. ASSUME SemiFree(m), Accepted(m.type, p) PROVE Decoded(m.type, p) = m
  <2>1. ItemsPlain(m.order.items)
    BY <1>11 DEF SemiFree, ItemsPlain
  <2>2. OrderAccepted(OrderParts(b))
    BY <1>7, <1>11, AcceptedOf
  <2>3. decode_order(OrderParts(b)) = m.order
    BY <1>3, <2>1, <2>2 DEF OrderArrives
  <2>4. QED
    BY <1>1, <1>7, <2>3, DecodedOf
<1>12. Arrives(m, p)
  BY <1>5, <1>6, <1>7, <1>8, <1>9, <1>10, <1>11 DEF Arrives, a
<1>13. QED
  BY <1>12

LEMMA ItemUpdateForth ==
  ASSUME NEW m \in Message, m.type \in ItemUpdateTypes
  PROVE  \E p : Arrives(m, p)
<1> DEFINE a == ToStr(m.type)
           b == to_string(m.order_id)
           c == to_string(m.item_id)
           d == ToStr(m.item_status)
           p == <<a, b, c, d>>
<1>1. /\ m.order_id \in Int /\ m.item_id \in Int /\ m.item_status \in ItemStatuses
      /\ m = [type |-> m.type, order_id |-> m.order_id, item_id |-> m.item_id,
              item_status |-> m.item_status]
  BY MessageShapes
<1>2. TextOrBarFree(a)
  BY WrittenFields, WireAssumption DEF MessageTypes, ItemUpdateTypes
<1>3. TextOrBarFree(b) /\ TextOrBarFree(c) /\ TextOrBarFree(d)
  BY <1>1, WrittenFields, WireAssumption
<1>4. FromStr(ItemStatuses, d) = m.item_status
  BY <1>1, FromToStr
<1>5. /\ validate_id_message(b, 1) <=> m.order_id \in Ids
      /\ NumberIn(b) = m.order_id
  BY <1>1, ValidateWritten
<1>6. /\ validate_id_message(c, 1) <=> m.item_id \in Ids
      /\ NumberIn(c) = m.item_id
  BY <1>1, ValidateWritten
<1>7. Fields(m) = <<b, c, d>>
  BY FieldsOf
<1>8. encode(m) = Joined(<<a>> \o <<b, c, d>>, Bar)
  BY <1>7 DEF encode
<1> HIDE DEF a, b, c, d
<1>9. p \in PartLists(Token) /\ <<a>> \o <<b, c, d>> = p
  <2>1. a \in Seq(Token) /\ b \in Seq(Token) /\ c \in Seq(Token) /\ d \in Seq(Token)
    BY <1>2, <1>3 DEF TextOrBarFree
  <2>2. Few(a, b, c, d, Token)
    BY <2>1, FewParts
  <2>3. QED
    BY <2>2, Zenon DEF Few
<1>10. p[1] = a /\ p[2] = b /\ p[3] = c /\ p[4] = d /\ Len(p) = 4
  OBVIOUS
<1>11. p \in PartLists(Token \ {Bar})
  <2>1. /\ a \in Seq(Token \ {Bar}) /\ b \in Seq(Token \ {Bar})
        /\ c \in Seq(Token \ {Bar}) /\ d \in Seq(Token \ {Bar})
    BY <1>2, <1>3 DEF TextOrBarFree
  <2>2. Few(a, b, c, d, Token \ {Bar})
    BY <2>1, FewParts
  <2>3. QED
    BY <2>2, Zenon DEF Few
<1> HIDE DEF p
<1>12. \A f : Accepted(m.type, f) => Len(f) = Len(p)
  BY <1>10, AcceptedOf
<1>13. Sound(m) => Accepted(m.type, p)
  BY <1>4, <1>5, <1>6, <1>10, AcceptedOf, SoundOf
<1>14. Decoded(m.type, p) = m
  <2>1. Decoded(m.type, p) = [type |-> m.type, order_id |-> NumberIn(p[2]),
           item_id |-> NumberIn(p[3]), item_status |-> FromStr(ItemStatuses, p[4])]
    BY DecodedOf
  <2>2. QED
    BY <1>1, <1>4, <1>5, <1>6, <1>10, <2>1, Zenon
<1>15. Arrives(m, p)
  BY <1>8, <1>9, <1>10, <1>11, <1>12, <1>13, <1>14 DEF Arrives, a
<1>16. QED
  BY <1>15

LEMMA OrderUpdateForth ==
  ASSUME NEW m \in Message, m.type \in OrderUpdateTypes
  PROVE  \E p : Arrives(m, p)
<1> DEFINE a == ToStr(m.type)
           b == to_string(m.order_id)
           c == ToStr(m.order_status)
           p == <<a, b, c>>
<1>1. /\ m.order_id \in Int /\ m.order_status \in OrderStatuses
      /\ m = [type |-> m.type, order_id |-> m.order_id, order_status |-> m.order_status]
  BY MessageShapes
<1>2. TextOrBarFree(a)
  BY WrittenFields, WireAssumption DEF MessageTypes, OrderUpdateTypes
<1>3. TextOrBarFree(b) /\ TextOrBarFree(c)
  BY <1>1, WrittenFields, WireAssumption
<1>4. FromStr(OrderStatuses, c) = m.order_status
  BY <1>1, FromToStr
<1>5. /\ validate_id_message(b, 1) <=> m.order_id \in Ids
      /\ NumberIn(b) = m.order_id
  BY <1>1, ValidateWritten
<1>6. Fields(m) = <<b, c>>
  BY FieldsOf
<1>7. encode(m) = Joined(<<a>> \o <<b, c>>, Bar)
  BY <1>6 DEF encode
<1> HIDE DEF a, b, c
<1>8. p \in PartLists(Token) /\ <<a>> \o <<b, c>> = p
  <2>1. a \in Seq(Token) /\ b \in Seq(Token) /\ c \in Seq(Token)
    BY <1>2, <1>3 DEF TextOrBarFree
  <2>2. Few(a, b, c, c, Token)
    BY <2>1, FewParts
  <2>3. QED
    BY <2>2, Zenon DEF Few
<1>9. p[1] = a /\ p[2] = b /\ p[3] = c /\ Len(p) = 3
  OBVIOUS
<1>10. p \in PartLists(Token \ {Bar})
  BY <1>2, <1>3, ThreeParts, Zenon DEF TextOrBarFree
<1> HIDE DEF p
<1>11. \A f : Accepted(m.type, f) => Len(f) = Len(p)
  BY <1>9, AcceptedOf
<1>12. Sound(m) => Accepted(m.type, p)
  BY <1>4, <1>5, <1>9, AcceptedOf, SoundOf
<1>13. Decoded(m.type, p) = m
  <2>1. Decoded(m.type, p) = [type |-> m.type, order_id |-> NumberIn(p[2]),
                              order_status |-> FromStr(OrderStatuses, p[3])]
    BY DecodedOf
  <2>2. QED
    BY <1>1, <1>4, <1>5, <1>9, <2>1, Zenon
<1>14. Arrives(m, p)
  BY <1>7, <1>8, <1>9, <1>10, <1>11, <1>12, <1>13 DEF Arrives, a
<1>15. QED
  BY <1>14

LEMMA SoundIsSemiFree ==
  ASSUME NEW m, Sound(m)
  PROVE  SemiFree(m)
<1> SUFFICES ASSUME m.type \in OrderTypes, NEW i \in DOMAIN m.order.items
             PROVE  Plain(m.order.items[i].desc, {Semi})
  BY DEF SemiFree
<1>1. ItemSound(m.order.items[i])
  BY SoundOf DEF OrderSound
<1>2. QED
  BY <1>1 DEF ItemSound, Plain

LEMMA InvalidIsNoMessage == Invalid \notin Message
<1>1. Invalid.type = "INVALID"
  BY DEF Invalid
<1>2. QED
  BY <1>1, MessageShapes, KindsAreTypes

(* A message that can be encoded arrives as it was sent, or is refused. *)
LEMMA MessageForth ==
  ASSUME NEW m \in Message, Encodable(m)
  PROVE  /\ encode(m) \in Seq(Token)
         /\ Sound(m) => decode(encode(m)) = m
         /\ SemiFree(m) => decode(encode(m)) \in {m, Invalid}
<1>1. Kind(m.type)
  BY MessageShapes
<1>2. PICK p : Arrives(m, p)
  BY <1>1, HeartbeatForth, LoginForth, TextForth, OrderMessageForth, ItemUpdateForth,
     OrderUpdateForth, Zenon DEF Kind
<1> DEFINE s == encode(m)
           f == split(s, Bar)
<1>3. p \in PartLists(Token) /\ s = Joined(p, Bar) /\ p[1] = ToStr(m.type)
  BY <1>2 DEF Arrives
<1>4. s \in Seq(Token) /\ SplitsBack(p, f, Token, Bar)
  BY <1>3, SeparatorsDiffer, JoinedType, SplitJoined
<1>5. m.type \in MessageTypes /\ m.type # "INVALID"
  BY <1>1, KindsAreTypes
<1>6. f[1] = ToStr(m.type)
  <2>1. ToStr(m.type) \in Seq(Token \ {Bar})
    BY <1>5, WrittenFields, WireAssumption DEF TextOrBarFree
  <2>2. QED
    BY <1>3, <1>4, <2>1 DEF SplitsBack
<1>7. FromStr(MessageTypes, f[1]) = m.type
  BY <1>5, <1>6, FromToStr
<1>8. decode(s) = IF Accepted(m.type, f) THEN Decoded(m.type, f) ELSE Invalid
  BY <1>7 DEF decode
<1> HIDE DEF s, f
<1>9. Accepted(m.type, f) => f = p
  BY <1>2, <1>4 DEF Arrives, SplitsBack
<1>10. SemiFree(m) => decode(s) \in {m, Invalid}
  BY <1>2, <1>8, <1>9 DEF Arrives
<1>11. ASSUME Sound(m) PROVE decode(s) = m
  <2>1. Accepted(m.type, p) /\ p \in PartLists(Token \ {Bar})
    BY <1>2, <1>11 DEF Arrives
  <2>2. f = p
    BY <1>4, <2>1 DEF SplitsBack
  <2>3. Decoded(m.type, p) = m
    BY <1>2, <1>11, <2>1, SoundIsSemiFree DEF Arrives
  <2>4. QED
    BY <1>8, <2>1, <2>2, <2>3
<1>12. QED
  BY <1>4, <1>10, <1>11 DEF s

(* What the server makes of a sound order is sound. *)
LEMMA AnnouncedIsSound ==
  ASSUME NEW m \in Message, Sound(m), m.type = "ORDER_NEW", NEW n \in Ids
  PROVE  /\ Announced(m, n) \in Message
         /\ Encodable(Announced(m, n))
         /\ Sound(Announced(m, n))
<1> DEFINE o == m.order
           items == [i \in DOMAIN o.items |-> [o.items[i] EXCEPT !.order_id = n]]
           ann == Announced(m, n)
           oa == [o EXCEPT !.id = n, !.items = items]
           N == Len(o.items)
<1>1. m.type \in OrderTypes /\ n \in Int
  BY WireAssumption DEF OrderTypes, Ids
<1>2. o \in Order /\ OrderSound(o)
  BY <1>1, MessageShapes, SoundOf
<1>3. ann = [type |-> "DISP_ORDER", order |-> oa]
  <2>1. o.items \in Seq(Item) /\ DOMAIN o = {"id", "status", "items"}
    BY <1>2 DEF Order
  <2>2. [o EXCEPT !.id = n,
                  !.items = [i \in DOMAIN @ |-> [@[i] EXCEPT !.order_id = n]]] = oa
    BY <2>1
  <2>3. QED
    BY <2>2 DEF Announced
<1> HIDE DEF ann
<1>4. o.items \in Seq(Item) /\ o.items # << >> /\ o.status \in OrderStatuses \ {"INVALID"}
  BY <1>2 DEF Order, OrderSound
<1>5. DOMAIN o.items = 1 .. N /\ N \in Nat
  BY <1>4, LenProperties
<1>6. ASSUME NEW i \in 1 .. N PROVE items[i] \in Item /\ ItemSound(items[i])
  <2> DEFINE it == o.items[i]
             new == [it EXCEPT !.order_id = n]
  <2>1. it \in Item
    BY <1>4, ElementOfSeq
  <2>2. ItemSound(it)
    BY <1>2, <1>5 DEF OrderSound
  <2>3. items[i] = new
    BY <1>5
  <2> HIDE DEF it
  <2>4. /\ new \in Item /\ new.order_id = n /\ new.id = it.id /\ new.status = it.status
        /\ new.desc = it.desc /\ new.qty = it.qty
    BY <1>1, <2>1 DEF Item
  <2> HIDE DEF new, items
  <2>5. ItemSound(new)
    BY <2>2, <2>4, Zenon DEF ItemSound
  <2>6. QED
    BY <2>3, <2>4, <2>5
<1>7. items = [i \in 1 .. N |-> items[i]]
  BY <1>5
<1> HIDE DEF items
<1>8. items \in Seq(Item) /\ Len(items) = N /\ DOMAIN items = 1 .. N
  <2>1. \A i \in 1 .. N : items[i] \in Item
    BY <1>6
  <2>2. DOMAIN items = 1 .. N
    BY <1>7
  <2> HIDE DEF N
  <2>3. items \in [1 .. N -> Item]
    BY <1>7, <2>1
  <2>4. items \in Seq(Item) /\ Len(items) = N
    BY <1>5, <2>3
  <2>5. QED
    BY <2>2, <2>4
<1>9. items # << >>
  BY <1>4, <1>5, <1>8
<1>10. oa \in Order /\ oa.id = n /\ oa.items = items /\ oa.status = o.status
  BY <1>1, <1>2, <1>8 DEF Order
<1> HIDE DEF oa
<1>11. OrderSound(oa)
  BY <1>4, <1>6, <1>8, <1>9, <1>10, Zenon DEF OrderSound
<1>12. ann.type = "DISP_ORDER" /\ ann.order = oa
  BY <1>3
<1>13. ann \in Message
  BY <1>3, <1>10 DEF Message, OrderTypes
<1>14. Encodable(ann) /\ Sound(ann)
  BY <1>11, <1>12 DEF Encodable, Sound, OrderTypes, OrderSound
<1>15. QED
  BY <1>13, <1>14 DEF ann
-------------------------------------------------------------------------------
(* The length of what is announced *)

LEMMA FieldSizes ==
  /\ \A n \in Int : to_string(n) \in Seq(Token) /\ Size(to_string(n)) = Digits(n)
  /\ \A w \in Words : ToStr(w) \in Seq(Token) /\ Size(ToStr(w)) = WordSize[w]
<1>1. ASSUME NEW n \in Int PROVE Size(to_string(n)) = Digits(n)
  <2>1. Numeral(n, 0) \in Token
    BY WrittenTokens DEF Written
  <2>2. TokenSize(Numeral(n, 0)) = 0 + Digits(n) /\ Digits(n) \in Nat
    BY TokenSizeType, DigitsType
  <2>3. Size(to_string(n)) = TokenSize(Numeral(n, 0))
    BY <2>1, SizeOne, Zenon DEF to_string
  <2>4. QED
    BY <2>2, <2>3
<1>2. ASSUME NEW w \in Words PROVE Size(ToStr(w)) = WordSize[w]
  <2>1. Word(w) \in Token
    BY WrittenTokens DEF Written
  <2>2. Size(ToStr(w)) = TokenSize(Word(w))
    BY <2>1, SizeOne, Zenon DEF ToStr
  <2>3. QED
    BY <2>2, TokenSizeType
<1>3. QED
  BY <1>1, <1>2, OneToken

(* The order's id is the first field of an item. *)
IdFirst(item, rest) ==
  /\ rest \in PartLists(Token)
  /\ EncodedItem(item) = to_string(item.order_id) \o <<Colon>> \o Joined(rest, Colon)

LEMMA ItemText_IdFirst ==
  ASSUME NEW item \in Item
  PROVE  IdFirst(item, <<to_string(item.id), ToStr(item.status), item.desc,
                         to_string(item.qty)>>)
<1> DEFINE a == to_string(item.order_id)
           b == to_string(item.id)
           c == ToStr(item.status)
           d == item.desc
           e == to_string(item.qty)
           rest == <<b, c, d, e>>
           p == <<a, b, c, d, e>>
           Y == Seq(Token)
<1>1. /\ item.order_id \in Int /\ item.id \in Int /\ item.qty \in Int
      /\ item.status \in Words /\ d \in Y
  BY TablesAreWords DEF Item
<1>2. a \in Y /\ b \in Y /\ c \in Y /\ e \in Y
  BY <1>1, FieldSizes
<1>3. EncodedItem(item) = Joined(p, Colon)
  BY DEF EncodedItem
<1> HIDE DEF a, b, c, d, e
<1>4. rest \in PartLists(Token)
  BY <1>1, <1>2, FourParts
<1>5. <<a>> \in PartLists(Token)
  BY <1>2, FewParts DEF Few
<1>6. <<a>> \o rest = p
  <2> HIDE DEF Y
  <2>1. rest \in Seq(Y) /\ p \in Seq(Y) /\ Len(p) = Len(rest) + 1 /\ p[1] = a
    BY <1>1, <1>2
  <2>2. ASSUME NEW i \in 1 .. Len(rest) PROVE p[1 + i] = rest[i]
    OBVIOUS
  <2> HIDE DEF rest, p
  <2>3. QED
    BY <1>2, <2>1, <2>2, ConsIs
<1> HIDE DEF rest, p
<1>7. Joined(<<a>>, Colon) = a
  BY <1>2, SeparatorsDiffer, JoinedOne
<1>8. Joined(<<a>> \o rest, Colon) = Joined(<<a>>, Colon) \o <<Colon>> \o Joined(rest, Colon)
  BY <1>4, <1>5, SeparatorsDiffer, JoinedConcat
<1>9. EncodedItem(item) = a \o <<Colon>> \o Joined(rest, Colon)
  BY <1>3, <1>6, <1>7, <1>8, Zenon
<1>10. IdFirst(item, rest)
  BY <1>4, <1>9, Zenon DEF IdFirst, a
<1>11. QED
  BY <1>10, Zenon DEF rest, b, c, d, e

(* With another order id an item's text is longer by fewer digits than the *)
(* new id has.                                                             *)
LEMMA ItemGrows ==
  ASSUME NEW item \in Item, NEW n \in Int
  PROVE  /\ [item EXCEPT !.order_id = n] \in Item
         /\ Size(EncodedItem([item EXCEPT !.order_id = n]))
              <= Size(EncodedItem(item)) + (Digits(n) - 1)
<1> DEFINE new == [item EXCEPT !.order_id = n]
           old == item.order_id
           rest == <<to_string(item.id), ToStr(item.status), item.desc, to_string(item.qty)>>
<1>1. /\ new \in Item /\ old \in Int /\ new.order_id = n /\ new.id = item.id
      /\ new.status = item.status /\ new.desc = item.desc /\ new.qty = item.qty
  BY DEF Item
<1> HIDE DEF new
<1>2. IdFirst(item, rest)
  BY ItemText_IdFirst
<1>3. IdFirst(new, rest)
  <2>1. IdFirst(new, <<to_string(new.id), ToStr(new.status), new.desc, to_string(new.qty)>>)
    BY <1>1, ItemText_IdFirst
  <2>2. QED
    BY <1>1, <2>1, Zenon
<1> DEFINE j == Joined(rest, Colon)
<1> HIDE DEF rest
<1>4. j \in Seq(Token)
  BY <1>2, SeparatorsDiffer, JoinedType DEF IdFirst
<1>5. /\ EncodedItem(item) = to_string(old) \o <<Colon>> \o j
      /\ EncodedItem(new) = to_string(n) \o <<Colon>> \o j
  BY <1>1, <1>2, <1>3, Zenon DEF IdFirst
<1> HIDE DEF j, old
<1>6. Colon \in Separators
  BY DEF Separators
<1>7. \A k \in Int : Size(to_string(k) \o <<Colon>> \o j) = Digits(k) + 1 + Size(j)
  BY <1>4, <1>6, FieldSizes, SizeBetween
<1>8. /\ Size(EncodedItem(item)) = Digits(old) + 1 + Size(j)
      /\ Size(EncodedItem(new)) = Digits(n) + 1 + Size(j)
  BY <1>1, <1>5, <1>7
<1>9. Digits(old) \in Nat /\ Digits(old) >= 1 /\ Digits(n) \in Nat /\ Size(j) \in Nat
  BY <1>1, <1>4, DigitsType, SizeType
<1>10. Size(EncodedItem(new)) <= Size(EncodedItem(item)) + (Digits(n) - 1)
  BY <1>8, <1>9
<1>11. QED
  BY <1>1, <1>10 DEF new

EncodedItems(items) == [i \in DOMAIN items |-> EncodedItem(items[i])]

LEMMA EncodedItemsType ==
  ASSUME NEW items \in Seq(Item), items # << >>
  PROVE  /\ EncodedItems(items) \in PartLists(Token)
         /\ Len(EncodedItems(items)) = Len(items)
         /\ \A i \in 1 .. Len(items) : EncodedItems(items)[i] = EncodedItem(items[i])
<1> DEFINE N == Len(items)
           texts == EncodedItems(items)
           Y == Seq(Token)
<1>1. DOMAIN items = 1 .. N /\ N \in Nat /\ N >= 1 /\ \A i \in 1 .. N : items[i] \in Item
  OBVIOUS
<1>2. texts = [i \in 1 .. N |-> EncodedItem(items[i])]
  BY <1>1 DEF EncodedItems
<1>3. \A i \in 1 .. N : EncodedItem(items[i]) \in Y
  BY <1>1, ItemForth DEF ItemArrives
<1> HIDE DEF N, texts, Y
<1>4. texts \in [1 .. N -> Y]
  BY <1>2, <1>3
<1>5. texts \in Seq(Y) /\ Len(texts) = N
  BY <1>1, <1>4
<1>6. texts # << >>
  BY <1>1, <1>5
<1>7. texts \in PartLists(Token)
  BY <1>5, <1>6 DEF PartLists, Y
<1>8. \A i \in 1 .. N : texts[i] = EncodedItem(items[i])
  BY <1>2
<1>9. QED
  BY <1>5, <1>7, <1>8 DEF texts, N

Renumbered(items, n) == [i \in DOMAIN items |-> [items[i] EXCEPT !.order_id = n]]

LEMMA ItemsGrow ==
  ASSUME NEW items \in Seq(Item), items # << >>, NEW n \in Int
  PROVE  /\ Renumbered(items, n) \in Seq(Item) /\ Renumbered(items, n) # << >>
         /\ Size(Joined(EncodedItems(Renumbered(items, n)), Semi))
              <= Size(Joined(EncodedItems(items), Semi)) + Len(items) * (Digits(n) - 1)
<1> DEFINE N == Len(items)
           new == Renumbered(items, n)
           p == EncodedItems(new)
           q == EncodedItems(items)
           g == Digits(n) - 1
<1>1. DOMAIN items = 1 .. N /\ N \in Nat /\ N >= 1 /\ \A i \in 1 .. N : items[i] \in Item
  OBVIOUS
<1>2. new = [i \in 1 .. N |-> [items[i] EXCEPT !.order_id = n]]
  BY <1>1 DEF Renumbered
<1> HIDE DEF new, N
<1>3. ASSUME NEW i \in 1 .. N
      PROVE  new[i] \in Item /\ Size(EncodedItem(new[i])) <= Size(EncodedItem(items[i])) + g
  <2>1. new[i] = [items[i] EXCEPT !.order_id = n] /\ items[i] \in Item
    BY <1>1, <1>2
  <2> DEFINE it == items[i]
  <2> HIDE DEF it
  <2>2. /\ [it EXCEPT !.order_id = n] \in Item
        /\ Size(EncodedItem([it EXCEPT !.order_id = n])) <= Size(EncodedItem(it)) + g
    BY <2>1, ItemGrows DEF it
  <2>3. QED
    BY <2>1, <2>2, Zenon DEF it
<1>4. new \in Seq(Item) /\ Len(new) = N
  <2>1. new = [i \in 1 .. N |-> new[i]]
    BY <1>2
  <2>2. QED
    BY <1>1, <1>3, <2>1, MapIsSeq
<1>5. new # << >>
  BY <1>1, <1>4
<1>6. /\ p \in PartLists(Token) /\ Len(p) = N
      /\ \A i \in 1 .. N : p[i] = EncodedItem(new[i])
  BY <1>4, <1>5, EncodedItemsType
<1>7. /\ q \in PartLists(Token) /\ Len(q) = N
      /\ \A i \in 1 .. N : q[i] = EncodedItem(items[i])
  BY EncodedItemsType DEF N
<1> HIDE DEF p, q
<1>8. g \in Int
  BY DigitsType
<1> HIDE DEF g
<1>9. GrownParts(p, q, g)
  <2>1. ASSUME NEW i \in 1 .. N PROVE Size(p[i]) <= Size(q[i]) + g
    BY <1>3, <1>6, <1>7, Zenon
  <2>2. QED
    BY <1>6, <1>7, <2>1, Zenon DEF GrownParts
<1>10. Semi \in Separators
  BY DEF Separators
<1>11. Size(Joined(p, Semi)) <= Size(Joined(q, Semi)) + Len(p) * g
  BY <1>6, <1>7, <1>8, <1>9, <1>10, JoinedGrows
<1>12. QED
  BY <1>4, <1>5, <1>6, <1>11, Zenon DEF p, q, g, new, N

LEMMA FourSizes ==
  \A i, j, k, l \in Nat : i + 1 + ((j + 1 + k) + 1 + l) = i + j + 3 + k + l
OBVIOUS

LEMMA OrderSize ==
  ASSUME NEW m \in Message, m.type \in OrderTypes, m.order.items # << >>
  PROVE  /\ Size(encode(m)) = WordSize[m.type] + Digits(m.order.id) + 3
                                + WordSize[m.order.status]
                                + Size(Joined(EncodedItems(m.order.items), Semi))
         /\ Size(Joined(EncodedItems(m.order.items), Semi)) \in Nat
<1> DEFINE o == m.order
           t == ToStr(m.type)
           a == to_string(o.id)
           b == ToStr(o.status)
           c == Joined(EncodedItems(o.items), Semi)
           e == encode_order(o)
<1>1. o \in Order /\ m.type \in Words /\ o.id \in Int /\ o.status \in Words
      /\ o.items \in Seq(Item)
  <2>1. o \in Order
    BY MessageShapes
  <2>2. m.type \in Words
    BY TablesAreWords DEF OrderTypes, MessageTypes
  <2>3. QED
    BY <2>1, <2>2, TablesAreWords DEF Order
<1>2. /\ t \in Seq(Token) /\ Size(t) = WordSize[m.type]
      /\ a \in Seq(Token) /\ Size(a) = Digits(o.id)
      /\ b \in Seq(Token) /\ Size(b) = WordSize[o.status]
  BY <1>1, FieldSizes
<1>3. c \in Seq(Token)
  BY <1>1, SeparatorsDiffer, EncodedItemsType, JoinedType
<1>4. encode(m) = Joined(<<t>> \o <<e>>, Bar)
  BY FieldsOf DEF encode
<1>5. e = a \o <<Comma>> \o b \o <<Comma>> \o c
  BY DEF encode_order, EncodedItems
<1>6. /\ WordSize[m.type] \in Nat /\ Digits(o.id) \in Nat /\ WordSize[o.status] \in Nat
      /\ Size(c) \in Nat
  BY <1>1, <1>3, TokenSizeType, DigitsType, SizeType
<1> DEFINE x == a \o <<Comma>> \o b
<1>7. Comma \in Separators /\ Bar \in Separators /\ Bar \in Token
  BY SeparatorsDiffer DEF Separators
<1> HIDE DEF t, a, b, c, e
<1>8. x \in Seq(Token) /\ e \in Seq(Token)
  BY <1>2, <1>3, <1>5, ThreeType
<1>9. Size(x) = Size(a) + 1 + Size(b)
  BY <1>2, <1>7, SizeBetween
<1>10. Size(x \o <<Comma>> \o c) = Size(x) + 1 + Size(c)
  <2> HIDE DEF x
  <2>1. QED
    BY <1>3, <1>7, <1>8, SizeBetween
<1>11. Size(e) = Size(x) + 1 + Size(c)
  BY <1>5, <1>10, Zenon
<1>12. Joined(<<t>> \o <<e>>, Bar) = t \o <<Bar>> \o e
  <2>1. <<t>> \in PartLists(Token) /\ <<e>> \in PartLists(Token)
    BY <1>2, <1>8, FewParts DEF Few
  <2>2. Joined(<<t>> \o <<e>>, Bar) = Joined(<<t>>, Bar) \o <<Bar>> \o Joined(<<e>>, Bar)
    BY <1>7, <2>1, JoinedConcat
  <2>3. Joined(<<t>>, Bar) = t /\ Joined(<<e>>, Bar) = e
    BY <1>2, <1>7, <1>8, JoinedOne
  <2>4. QED
    BY <2>2, <2>3, Zenon
<1>13. Size(t \o <<Bar>> \o e) = Size(t) + 1 + Size(e)
  BY <1>2, <1>7, <1>8, SizeBetween
<1>14. Size(encode(m)) = Size(t) + 1 + Size(e)
  BY <1>4, <1>12, <1>13, Zenon
<1> HIDE DEF x
<1>15. Size(encode(m)) = WordSize[m.type] + Digits(o.id) + 3 + WordSize[o.status] + Size(c)
  <2> DEFINE w1 == WordSize[m.type]
             w2 == WordSize[o.status]
             d == Digits(o.id)
             z == Size(c)
  <2>1. w1 \in Nat /\ w2 \in Nat /\ d \in Nat /\ z \in Nat
    BY <1>6
  <2>2. Size(t) = w1 /\ Size(a) = d /\ Size(b) = w2
    BY <1>2
  <2> HIDE DEF w1, w2, d, z
  <2>3. Size(x) = d + 1 + w2
    BY <1>9, <2>2, Zenon
  <2>4. Size(e) = (d + 1 + w2) + 1 + z
    BY <1>11, <2>3, Zenon DEF z
  <2>5. Size(encode(m)) = w1 + 1 + ((d + 1 + w2) + 1 + z)
    BY <1>14, <2>2, <2>4, Zenon
  <2>6. w1 + 1 + ((d + 1 + w2) + 1 + z) = w1 + d + 3 + w2 + z
    BY <2>1, FourSizes
  <2>7. QED
    BY <2>5, <2>6, Zenon DEF w1, w2, d, z
<1>16. QED
  BY <1>6, <1>15 DEF c

LEMMA AnnouncedShape ==
  ASSUME NEW m, m.order \in Order, NEW n
  PROVE  /\ Announced(m, n).type = "DISP_ORDER"
         /\ Announced(m, n).order.id = n
         /\ Announced(m, n).order.status = m.order.status
         /\ Announced(m, n).order.items = Renumbered(m.order.items, n)
BY DEF Announced, Renumbered, Order

(* create_order makes a message no longer than Growth says. *)
LEMMA AnnouncedGrows ==
  ASSUME NEW m \in Message, Sound(m), m.type = "ORDER_NEW"
  PROVE  Size(encode(Announced(m, NewId))) <= Size(encode(m)) + Growth(m)
<1> DEFINE n == NewId
           ann == Announced(m, n)
           items == m.order.items
           new == Renumbered(items, n)
           x == Size(Joined(EncodedItems(items), Semi))
           y == Size(Joined(EncodedItems(new), Semi))
           D == Digits(n)
           s == WordSize[m.order.status]
           N == Len(items)
<1>1. m.type \in OrderTypes /\ n \in Ids /\ n \in Int
  BY WireAssumption, WireTextsAssumption DEF OrderTypes, Ids
<1>2. m.order \in Order /\ OrderSound(m.order)
  BY <1>1, MessageShapes, SoundOf
<1>3. items \in Seq(Item) /\ items # << >> /\ m.order.id \in Int /\ m.order.status \in Words
  BY <1>2, TablesAreWords DEF OrderSound, Order
<1>4. ann \in Message
  BY <1>1, AnnouncedIsSound
<1>5. /\ ann.type = "DISP_ORDER" /\ ann.order.id = n /\ ann.order.items = new
      /\ ann.order.status = m.order.status
  BY <1>2, AnnouncedShape
<1>6. new # << >> /\ y <= x + N * (D - 1)
  BY <1>1, <1>3, ItemsGrow
<1>7. /\ Size(encode(m)) = WordSize["ORDER_NEW"] + Digits(m.order.id) + 3 + s + x
      /\ x \in Nat
  BY <1>1, <1>3, OrderSize
<1> HIDE DEF ann
<1>8. /\ Size(encode(ann)) = WordSize["DISP_ORDER"] + D + 3 + s + y
      /\ y \in Nat
  <2>1. ann.type \in OrderTypes /\ ann.order.items # << >>
    BY <1>5, <1>6 DEF OrderTypes
  <2>2. /\ Size(encode(ann)) = WordSize[ann.type] + Digits(ann.order.id) + 3
                                 + WordSize[ann.order.status]
                                 + Size(Joined(EncodedItems(ann.order.items), Semi))
        /\ Size(Joined(EncodedItems(ann.order.items), Semi)) \in Nat
    BY <1>4, <2>1, OrderSize
  <2>3. QED
    BY <1>5, <2>2, Zenon
<1>9. Growth(m) = WordSize["DISP_ORDER"] - WordSize["ORDER_NEW"] + (1 + N) * (D - 1)
  BY DEF Growth
<1>10. /\ D \in Nat /\ Digits(m.order.id) \in Nat /\ Digits(m.order.id) >= 1
       /\ s \in Nat /\ N \in Nat
       /\ WordSize["DISP_ORDER"] \in Nat /\ WordSize["ORDER_NEW"] \in Nat
  <2>1. "DISP_ORDER" \in Words /\ "ORDER_NEW" \in Words
    BY TablesAreWords DEF MessageTypes
  <2>2. D \in Nat /\ Digits(m.order.id) \in Nat /\ Digits(m.order.id) >= 1
    BY <1>1, <1>3, DigitsType
  <2>3. \A w \in Words : WordSize[w] \in Nat
    BY TokenSizeType
  <2>4. s \in Nat /\ WordSize["DISP_ORDER"] \in Nat /\ WordSize["ORDER_NEW"] \in Nat
    BY <1>3, <2>1, <2>3, Zenon
  <2>5. N \in Nat
    BY <1>3
  <2>6. QED
    BY <2>2, <2>4, <2>5, Zenon
<1> HIDE DEF x, y, D, s, N
<1>11. (1 + N) * (D - 1) = (D - 1) + N * (D - 1) /\ N * (D - 1) \in Int
  BY <1>10
<1>12. Size(encode(ann)) <= Size(encode(m)) + Growth(m)
  <2> DEFINE z == N * (D - 1)
  <2>1. z \in Int /\ (1 + N) * (D - 1) = (D - 1) + z /\ y <= x + z
    BY <1>6, <1>11
  <2> HIDE DEF z
  <2>2. QED
    BY <1>7, <1>8, <1>9, <1>10, <2>1
<1>13. QED
  BY <1>12 DEF ann

-------------------------------------------------------------------------------
(* The texts of WireTexts *)

TextsInv ==
  /\ message \in Message /\ Encodable(message)
  /\ text \in Seq(Token)

(* A text is always a sequence of tokens, and the message at its beginning *)
(* one that the programs build (message.h, wire.cpp:231-273).              *)
THEOREM TextsInvariant == Spec => []TextsInv
<1>1. Init => TextsInv
  <2> SUFFICES ASSUME Init PROVE TextsInv
    OBVIOUS
  <2>1. message \in Message /\ Encodable(message) /\ text = encode(message)
    BY WireTextsAssumption DEF Init
  <2>2. QED
    BY <2>1, MessageForth DEF TextsInv
<1>2. TextsInv /\ [Next]_vars => TextsInv'
  <2> SUFFICES ASSUME TextsInv, [Next]_vars PROVE TextsInv'
    OBVIOUS
  <2>1. text \in Seq(Token) /\ Len(text) \in Nat /\ DOMAIN text = 1 .. Len(text)
    BY DEF TextsInv
  <2>2. ASSUME NEW s \in Seq(Token), Edit(s) PROVE TextsInv'
    BY <2>2 DEF TextsInv, Edit, Encodable
  <2>3. ASSUME NEW i \in 1 .. Len(text) + 1, NEW t \in Tokens, Edit(InsertAt(text, i, t))
        PROVE  TextsInv'
    <3> DEFINE u == SubSeq(text, 1, i - 1)
               v == SubSeq(text, i, Len(text))
    <3>1. u \in Seq(Token) /\ v \in Seq(Token) /\ <<t>> \in Seq(Token)
      <4>1. u \in Seq(Token)
        BY <2>1
      <4>2. v \in Seq(Token)
        BY <2>1
      <4>3. t \in Token
        BY WireTextsAssumption
      <4>4. QED
        BY <4>1, <4>2, <4>3
    <3>2. InsertAt(text, i, t) = u \o <<t>> \o v
      BY DEF InsertAt
    <3> HIDE DEF u, v
    <3>3. u \o <<t>> \o v \in Seq(Token)
      BY <3>1
    <3>4. QED
      BY <2>2, <2>3, <3>2, <3>3
  <2>4. ASSUME NEW i \in DOMAIN text, NEW t \in Tokens, Edit(ReplaceAt(text, i, t))
        PROVE  TextsInv'
    <3>1. ReplaceAt(text, i, t) \in Seq(Token)
      BY <2>1, WireTextsAssumption, ExceptSeq DEF ReplaceAt
    <3>2. QED
      BY <2>2, <2>4, <3>1
  <2>5. ASSUME NEW i \in DOMAIN text, Edit(RemoveAt(text, i)) PROVE TextsInv'
    <3> DEFINE u == SubSeq(text, 1, i - 1)
               v == SubSeq(text, i + 1, Len(text))
    <3>1. u \in Seq(Token) /\ v \in Seq(Token)
      BY <2>1
    <3>2. RemoveAt(text, i) = u \o v
      BY DEF RemoveAt
    <3> HIDE DEF u, v
    <3>3. u \o v \in Seq(Token)
      BY <3>1
    <3>4. QED
      BY <2>2, <2>5, <3>2, <3>3
  <2>6. CASE UNCHANGED vars
    BY <2>6 DEF vars, TextsInv, Encodable
  <2>7. QED
    BY <2>3, <2>4, <2>5, <2>6, Zenon DEF Next, InsertToken, ReplaceToken, RemoveToken
<1>3. QED
  BY <1>1, <1>2, PTL DEF Spec

(* Whatever is sent, decode refuses it or returns a message with positive  *)
(* ids and quantities, existing statuses and modes, and at least one item  *)
(* in an order (wire.cpp:105-185, 275-374).                                *)
THEOREM DecodedCorrect == Spec => []DecodedIsSound
<1>1. TextsInv => DecodedIsSound
  BY MessageBack DEF TextsInv, DecodedIsSound, ReadBack
<1>2. QED
  BY <1>1, TextsInvariant, PTL

(* A message arrives as it was sent exactly if it is sound; if not, it is  *)
(* refused, unless a description has a semicolon (wire.cpp:231-374).       *)
THEOREM RoundTripCorrect == Spec => []RoundTrip
<1>1. TextsInv => RoundTrip
  <2> SUFFICES ASSUME TextsInv, text = encode(message)
               PROVE  /\ Sound(message) <=> decode(text) = message
                      /\ SemiFree(message) => decode(text) \in {message, Invalid}
    BY Zenon DEF RoundTrip
  <2>1. /\ Sound(message) => decode(text) = message
        /\ SemiFree(message) => decode(text) \in {message, Invalid}
    BY MessageForth DEF TextsInv
  <2>2. ASSUME decode(text) = message PROVE Sound(message)
    <3>1. decode(text) # Invalid /\ text \in Seq(Token)
      BY <2>2, InvalidIsNoMessage DEF TextsInv
    <3>2. QED
      BY <2>2, <3>1, MessageBack DEF ReadBack
  <2>3. QED
    BY <2>1, <2>2
<1>2. QED
  BY <1>1, TextsInvariant, PTL

(* decode ignores nothing but the zeros at the front of a number: what it  *)
(* accepts is the encoding of what it returns (wire.cpp:275-374).          *)
THEOREM AcceptedCorrect == Spec => []AcceptedIsEncoding
<1>1. TextsInv => AcceptedIsEncoding
  BY MessageBack DEF TextsInv, AcceptedIsEncoding, ReadBack
<1>2. QED
  BY <1>1, TextsInvariant, PTL

(* What a display decodes of the broadcast of an accepted order is what    *)
(* create_order announced (server.cpp:71-91, wire.cpp:82-185).             *)
THEOREM RelayedCorrect == Spec => []RelayedIntact
<1>1. TextsInv => RelayedIntact
  <2> SUFFICES ASSUME TextsInv, decode(text).type = "ORDER_NEW"
               PROVE  decode(encode(Announced(decode(text), NewId)))
                        = Announced(decode(text), NewId)
    BY DEF RelayedIntact
  <2>1. decode(text) # Invalid
    BY DEF Invalid
  <2>2. decode(text) \in Message /\ Sound(decode(text))
    BY <2>1, MessageBack DEF TextsInv, ReadBack
  <2>3. NewId \in Ids
    BY WireTextsAssumption DEF Ids
  <2> DEFINE ann == Announced(decode(text), NewId)
  <2>4. ann \in Message /\ Encodable(ann) /\ Sound(ann)
    BY <2>2, <2>3, AnnouncedIsSound
  <2> HIDE DEF ann
  <2>5. decode(encode(ann)) = ann
    BY <2>4, MessageForth
  <2>6. QED
    BY <2>5 DEF ann
<1>2. QED
  BY <1>1, TextsInvariant, PTL

(* The broadcast of an accepted order is longer than the request by the    *)
(* name of its type and the digits of the new id, in the order and in each *)
(* item, at most (server.cpp:79-87): an order that leaves this room in a   *)
(* frame is sent on in a frame that displays can read.                     *)
THEOREM AnnouncedLengthCorrect == Spec => []AnnouncedLength
<1>1. TextsInv => AnnouncedLength
  <2> SUFFICES ASSUME TextsInv, decode(text).type = "ORDER_NEW"
               PROVE  Size(encode(Announced(decode(text), NewId)))
                        <= Size(text) + Growth(decode(text))
    BY DEF AnnouncedLength
  <2> DEFINE m == decode(text)
             ann == Announced(m, NewId)
  <2>1. m # Invalid /\ text \in Seq(Token)
    BY DEF Invalid, TextsInv
  <2>2. /\ m \in Message /\ Sound(m) /\ encode(m) \in Seq(Token) /\ Trimmed(encode(m), text)
        /\ m.type = "ORDER_NEW"
    BY <2>1, MessageBack DEF ReadBack
  <2> HIDE DEF m
  <2>3. Size(encode(m)) <= Size(text)
    BY <2>1, <2>2, TrimmedIsNoLonger
  <2>4. Size(encode(ann)) <= Size(encode(m)) + Growth(m)
    BY <2>2, AnnouncedGrows
  <2>5. Size(encode(ann)) \in Nat /\ Size(encode(m)) \in Nat /\ Size(text) \in Nat
    <3>1. ann \in Message /\ Encodable(ann)
      BY <2>2, AnnouncedIsSound, WireTextsAssumption DEF Ids
    <3>2. encode(ann) \in Seq(Token)
      BY <3>1, MessageForth
    <3>3. QED
      BY <2>1, <2>2, <3>2, SizeType
  <2>6. Growth(m) \in Int
    <3>1. m.order \in Order
      BY <2>2, MessageShapes DEF OrderTypes
    <3>2. Len(m.order.items) \in Nat
      BY <3>1 DEF Order
    <3>3. "DISP_ORDER" \in Words /\ "ORDER_NEW" \in Words
      BY TablesAreWords DEF MessageTypes
    <3>4. WordSize["DISP_ORDER"] \in Nat /\ WordSize["ORDER_NEW"] \in Nat
      BY <3>3, TokenSizeType
    <3>5. Digits(NewId) \in Nat
      BY WireAssumption, WireTextsAssumption, DigitsType
    <3> DEFINE N == Len(m.order.items)
               D == Digits(NewId)
               v == WordSize["DISP_ORDER"]
               w == WordSize["ORDER_NEW"]
    <3>6. Growth(m) = v - w + (1 + N) * (D - 1)
      BY DEF Growth
    <3>7. N \in Nat /\ D \in Nat /\ v \in Nat /\ w \in Nat
      BY <3>2, <3>4, <3>5
    <3> HIDE DEF N, D, v, w
    <3>8. (1 + N) * (D - 1) \in Int
      BY <3>7
    <3>9. QED
      BY <3>6, <3>7, <3>8
  <2> HIDE DEF ann
  <2>7. QED
    BY <2>3, <2>4, <2>5, <2>6 DEF ann, m
<1>2. QED
  BY <1>1, TextsInvariant, PTL
===============================================================================
