------------------------------ MODULE DataProofs ------------------------------
(***************************************************************************)
(* Facts about Only, ByRank, Total and Max, and what they rest on:         *)
(* induction over an interval, stated for a set instead of a formula, and  *)
(* the existence and uniqueness of a recursive function on an interval,    *)
(* stated for a step that is a function instead of an operator.  In this   *)
(* form the provers can use them.                                          *)
(***************************************************************************)
EXTENDS Subsequences, FiniteSetsExt, FiniteSetTheorems, SequenceTheorems, TLAPS

-----------------------------------------------------------------------------
(* Induction and recursion over an interval                                *)

\* A set of naturals that is not empty has a least element.
LEMMA LeastExists ==
  ASSUME NEW S, S \subseteq Nat, S # {}
  PROVE  \E m \in S : \A y \in S : m <= y
<1> DEFINE R == OpToRel(<, Nat)
<1>1. IsWellFoundedOn(R, Nat)
  BY NatLessThanWellFounded
<1>2. \A x, y \in Nat : <<y, x>> \in R <=> y < x
  BY DEF OpToRel
<1> HIDE DEF R
<1>3. PICK m \in S : \A y \in S : ~(<<y, m>> \in R)
  BY <1>1, WFMin, Zenon
<1>4. ASSUME NEW y \in S PROVE m <= y
  <2>1. m \in Nat /\ y \in Nat /\ ~(<<y, m>> \in R)
    BY <1>3
  <2>2. ~(y < m)
    BY <1>2, <2>1
  <2> QED
    BY <2>1, <2>2
<1> QED
  BY <1>4

\* What holds at 0 and is handed on from i - 1 to i holds up to n.
LEMMA IntervalInduction ==
  ASSUME NEW n \in Nat, NEW H, 0 \in H, \A i \in 1 .. n : i - 1 \in H => i \in H
  PROVE  0 .. n \subseteq H
<1> DEFINE B == (0 .. n) \ H
<1> SUFFICES ASSUME B # {} PROVE FALSE
  OBVIOUS
<1>1. B \subseteq Nat
  OBVIOUS
<1>2. PICK m \in B : \A y \in B : m <= y
  <2> HIDE DEF B
  <2> QED
    BY <1>1, LeastExists
<1>3. m \in 1 .. n
  OBVIOUS
<1>4. m - 1 \in 0 .. n /\ ~(m <= m - 1)
  BY <1>3
<1> QED
  BY <1>2, <1>3, <1>4

\* f is defined by a start and a step on the interval from 0 to n.
Iterates(n, S, start, step, f) ==
    /\ f \in [0 .. n -> S]
    /\ f[0] = start
    /\ \A i \in 1 .. n : f[i] = step[<<i, f[i - 1]>>]

\* A step and a start define a function on an interval.
LEMMA RecursionExists ==
  ASSUME NEW n \in Nat, NEW S, NEW start \in S, NEW step \in [(1 .. n) \X S -> S]
  PROVE  \E f : Iterates(n, S, start, step, f)
<1> DEFINE Upto(m, f) == f[0] = start /\ \A i \in 1 .. m : f[i] = step[<<i, f[i - 1]>>]
           H == {m \in 0 .. n : \E f \in [0 .. m -> S] : Upto(m, f)}
<1>1. 0 \in H
  <2> DEFINE z == [i \in 0 .. 0 |-> start]
  <2>1. z \in [0 .. 0 -> S] /\ Upto(0, z)
    OBVIOUS
  <2> HIDE DEF z, Upto
  <2> QED
    BY <2>1
<1>2. ASSUME NEW i \in 1 .. n, i - 1 \in H PROVE i \in H
  <2>1. PICK f \in [0 .. i - 1 -> S] : Upto(i - 1, f)
    BY <1>2
  <2> DEFINE g == [j \in 0 .. i |-> IF j = i THEN step[<<i, f[i - 1]>>] ELSE f[j]]
  <2>2. f[i - 1] \in S /\ step[<<i, f[i - 1]>>] \in S
    OBVIOUS
  <2>3. g \in [0 .. i -> S]
    BY <2>2
  <2>4. \A j \in 0 .. i - 1 : g[j] = f[j]
    OBVIOUS
  <2>5. g[i] = step[<<i, f[i - 1]>>]
    OBVIOUS
  <2> HIDE DEF g
  <2>6. ASSUME NEW j \in 1 .. i PROVE g[j] = step[<<j, g[j - 1]>>]
    <3>1. j - 1 \in 0 .. i - 1
      OBVIOUS
    <3>2. CASE j = i
      BY <2>4, <2>5, <3>1, <3>2
    <3>3. CASE j # i
      <4>1. j \in 1 .. i - 1
        BY <3>3
      <4> QED
        BY <2>1, <2>4, <3>1, <4>1
    <3> QED
      BY <3>2, <3>3
  <2>7. g[0] = start
    BY <2>1, <2>4
  <2> QED
    BY <2>3, <2>6, <2>7
<1>3. 0 .. n \subseteq H
  <2> HIDE DEF H
  <2> QED
    BY <1>1, <1>2, IntervalInduction
<1> QED
  BY <1>3 DEF Iterates

\* g obeys the same start and step, as long as its values are in S.
Obeys(n, S, start, step, g) ==
    /\ g[0] = start
    /\ \A i \in 1 .. n : g[i - 1] \in S => g[i] = step[<<i, g[i - 1]>>]

\* Whatever obeys the same start and step is that function.
LEMMA RecursionUnique ==
  ASSUME NEW n \in Nat, NEW S, NEW start, NEW step, NEW f, NEW g,
         Iterates(n, S, start, step, f), Obeys(n, S, start, step, g)
  PROVE  \A i \in 0 .. n : g[i] = f[i]
<1> USE DEF Iterates, Obeys
<1> DEFINE H == {i \in 0 .. n : g[i] = f[i]}
<1>1. 0 \in H
  OBVIOUS
<1>2. ASSUME NEW i \in 1 .. n, i - 1 \in H PROVE i \in H
  <2>1. g[i - 1] = f[i - 1] /\ f[i - 1] \in S
    BY <1>2
  <2>2. f[i] = step[<<i, f[i - 1]>>] /\ g[i] = step[<<i, g[i - 1]>>]
    BY <2>1
  <2>3. g[i] = f[i]
    BY <2>1, <2>2
  <2> QED
    BY <2>3
<1>3. 0 .. n \subseteq H
  <2> HIDE DEF H
  <2> QED
    BY <1>1, <1>2, IntervalInduction
<1> QED
  BY <1>3

-----------------------------------------------------------------------------
(* Only                                                                    *)

Selects(S, s, T, f) ==
    /\ f \in [0 .. Len(s) -> Seq(S)]
    /\ f[0] = <<>>
    /\ \A i \in 1 .. Len(s) :
         f[i] = IF s[i] \in T THEN Append(f[i - 1], s[i]) ELSE f[i - 1]

\* Only(s, T) is the last value of a function on the positions of s.
LEMMA OnlyUnfolds ==
  ASSUME NEW S, NEW s \in Seq(S), NEW T
  PROVE  \E f : Selects(S, s, T, f) /\ Only(s, T) = f[Len(s)]
<1> DEFINE n == Len(s)
           step == [x \in (1 .. n) \X Seq(S) |->
                      IF s[x[1]] \in T THEN Append(x[2], s[x[1]]) ELSE x[2]]
           Solves(k) == k = [i \in 0 .. Len(s) |->
                              IF i = 0 THEN <<>>
                              ELSE IF s[i] \in T THEN Append(k[i - 1], s[i])
                                   ELSE k[i - 1]]
           kept == CHOOSE k : Solves(k)
<1>1. n \in Nat /\ <<>> \in Seq(S) /\ \A i \in 1 .. n : s[i] \in S
  OBVIOUS
<1>2. step \in [(1 .. n) \X Seq(S) -> Seq(S)]
  OBVIOUS
<1>3. \A i \in 1 .. n, a \in Seq(S) :
        step[<<i, a>>] = IF s[i] \in T THEN Append(a, s[i]) ELSE a
  OBVIOUS
<1> HIDE DEF step
<1>4. PICK f : Iterates(n, Seq(S), <<>>, step, f)
  <2> HIDE DEF n
  <2> QED
    BY <1>1, <1>2, RecursionExists
<1>5. Selects(S, s, T, f)
  <2>1. \A i \in 1 .. n : f[i - 1] \in Seq(S)
    BY <1>1, <1>4 DEF Iterates
  <2>2. \A i \in 1 .. n :
          f[i] = IF s[i] \in T THEN Append(f[i - 1], s[i]) ELSE f[i - 1]
    BY <1>3, <1>4, <2>1 DEF Iterates
  <2> QED
    BY <1>4, <2>2 DEF Iterates, Selects
<1>6. Solves(f)
  <2>1. f = [i \in 0 .. n |-> f[i]]
    BY <1>5 DEF Selects
  <2>2. \A i \in 0 .. n : f[i] = IF i = 0 THEN <<>>
                                 ELSE IF s[i] \in T THEN Append(f[i - 1], s[i])
                                      ELSE f[i - 1]
    <3>1. \A i \in 0 .. n : i = 0 \/ i \in 1 .. n
      BY <1>1
    <3>2. 0 \notin 1 .. n
      OBVIOUS
    <3> QED
      BY <1>5, <3>1, <3>2 DEF Selects
  <2> QED
    BY <2>1, <2>2
<1>7. Solves(kept)
  <2> HIDE DEF Solves
  <2> QED
    BY <1>6, Zenon
<1>8. Only(s, T) = kept[n]
  BY DEF Only
<1> HIDE DEF kept
<1>9. kept[0] = <<>> /\ \A i \in 1 .. n :
        kept[i] = IF s[i] \in T THEN Append(kept[i - 1], s[i]) ELSE kept[i - 1]
  <2>1. \A i \in 0 .. n : kept[i] =
           IF i = 0 THEN <<>>
           ELSE IF s[i] \in T THEN Append(kept[i - 1], s[i]) ELSE kept[i - 1]
    BY <1>7
  <2> QED
    BY <1>1, <2>1
<1>10. \A i \in 1 .. n : kept[i - 1] \in Seq(S) => kept[i] = step[<<i, kept[i - 1]>>]
  BY <1>3, <1>9
<1>11. \A i \in 0 .. n : kept[i] = f[i]
  <2>1. Obeys(n, Seq(S), <<>>, step, kept)
    BY <1>9, <1>10 DEF Obeys
  <2>2. n \in Nat
    OBVIOUS
  <2> HIDE DEF n, Solves
  <2> QED
    BY <1>4, <2>1, <2>2, RecursionUnique
<1> QED
  BY <1>1, <1>5, <1>8, <1>11

\* The selection goes through s from left to right: m tells where each selected
\* element is, and every element of T is selected.
LEMMA OnlySelects ==
  ASSUME NEW S, NEW s \in Seq(S), NEW T
  PROVE  /\ Only(s, T) \in Seq(S)
         /\ \E m \in [1 .. Len(Only(s, T)) -> 1 .. Len(s)] :
              /\ \A j \in 1 .. Len(Only(s, T)) : Only(s, T)[j] = s[m[j]] /\ s[m[j]] \in T
              /\ \A j, k \in 1 .. Len(Only(s, T)) : j < k => m[j] < m[k]
              /\ \A i \in 1 .. Len(s) : s[i] \in T =>
                    \E j \in 1 .. Len(Only(s, T)) : m[j] = i
<1>0. PICK f : Selects(S, s, T, f) /\ Only(s, T) = f[Len(s)]
  BY OnlyUnfolds
<1>1. /\ f \in [0 .. Len(s) -> Seq(S)] /\ f[0] = <<>>
      /\ \A i \in 1 .. Len(s) :
           f[i] = IF s[i] \in T THEN Append(f[i - 1], s[i]) ELSE f[i - 1]
      /\ Only(s, T) = f[Len(s)]
  BY <1>0 DEF Selects
<1> DEFINE Marks(x, i, m) ==
              /\ \A j \in 1 .. Len(x) : x[j] = s[m[j]] /\ s[m[j]] \in T
              /\ \A j, k \in 1 .. Len(x) : j < k => m[j] < m[k]
              /\ \A k \in 1 .. i : s[k] \in T => \E j \in 1 .. Len(x) : m[j] = k
           H == {i \in 0 .. Len(s) : \E m \in [1 .. Len(f[i]) -> 1 .. i] : Marks(f[i], i, m)}
<1>2. 0 \in H
  <2> DEFINE m == [j \in 1 .. 0 |-> j]
  <2>1. Len(f[0]) = 0
    BY <1>1
  <2>2. m \in [1 .. Len(f[0]) -> 1 .. 0] /\ Marks(f[0], 0, m)
    BY <2>1
  <2> HIDE DEF m, Marks
  <2> QED
    BY <2>2
<1>3. ASSUME NEW i \in 1 .. Len(s), i - 1 \in H PROVE i \in H
  <2> DEFINE x == f[i - 1]
  <2>1. PICK m \in [1 .. Len(x) -> 1 .. i - 1] : Marks(x, i - 1, m)
    BY <1>3
  <2>2. x \in Seq(S) /\ s[i] \in S /\ f[i] \in Seq(S) /\ i \in Nat
    <3>1. i \in Nat /\ i - 1 \in 0 .. Len(s) /\ i \in 0 .. Len(s)
      OBVIOUS
    <3> QED
      BY <1>1, <3>1
  <2>3. CASE s[i] \notin T
    <3>1. f[i] = x
      BY <1>1, <2>3
    <3>2. m \in [1 .. Len(x) -> 1 .. i]
      BY <2>1
    <3>3. Marks(x, i, m)
      BY <2>1, <2>3
    <3> HIDE DEF Marks, x
    <3> QED
      BY <3>1, <3>2, <3>3
  <2>4. CASE s[i] \in T
    <3> DEFINE y == Append(x, s[i])
               l == Len(x)
               w == [j \in 1 .. l + 1 |-> IF j = l + 1 THEN i ELSE m[j]]
    <3>1. f[i] = y
      BY <1>1, <2>4
    <3> HIDE DEF x
    <3>2. Len(y) = l + 1 /\ l \in Nat /\ y[l + 1] = s[i] /\ \A j \in 1 .. l : y[j] = x[j]
      BY <2>2, AppendProperties
    <3>3. w \in [1 .. l + 1 -> 1 .. i]
      BY <2>1, <3>2
    <3>4. w[l + 1] = i /\ \A j \in 1 .. l : w[j] = m[j]
      BY <3>2
    <3> HIDE DEF w, y
    <3>5. \A j \in 1 .. l + 1 : j \in 1 .. l \/ j = l + 1
      BY <3>2
    <3>6. \A j \in 1 .. l + 1 : y[j] = s[w[j]] /\ s[w[j]] \in T
      BY <2>1, <2>4, <3>2, <3>4, <3>5
    <3>7. \A j, k \in 1 .. l + 1 : j < k => w[j] < w[k]
      <4> SUFFICES ASSUME NEW j \in 1 .. l + 1, NEW k \in 1 .. l + 1, j < k
                   PROVE  w[j] < w[k]
        OBVIOUS
      <4>1. j \in 1 .. l /\ w[j] = m[j] /\ m[j] \in 1 .. i - 1
        BY <2>1, <3>2, <3>4
      <4>2. CASE k = l + 1
        BY <3>4, <4>1, <4>2
      <4>3. CASE k \in 1 .. l
        BY <2>1, <3>4, <4>1, <4>3
      <4> QED
        BY <3>5, <4>2, <4>3
    <3>8. \A k \in 1 .. i : s[k] \in T => \E j \in 1 .. l + 1 : w[j] = k
      <4> SUFFICES ASSUME NEW k \in 1 .. i, s[k] \in T
                   PROVE  \E j \in 1 .. l + 1 : w[j] = k
        OBVIOUS
      <4>1. CASE k = i
        BY <3>2, <3>4, <4>1
      <4>2. CASE k \in 1 .. i - 1
        <5>1. PICK j \in 1 .. l : m[j] = k
          BY <2>1, <4>2
        <5> QED
          BY <3>2, <3>4, <5>1
      <4> QED
        BY <4>1, <4>2
    <3>9. Marks(y, i, w) /\ w \in [1 .. Len(y) -> 1 .. i]
      BY <3>2, <3>3, <3>6, <3>7, <3>8
    <3> HIDE DEF Marks
    <3> QED
      BY <3>1, <3>9
  <2> QED
    BY <2>3, <2>4
<1>4. Len(s) \in H
  <2>1. Len(s) \in Nat
    OBVIOUS
  <2>2. 0 .. Len(s) \subseteq H
    <3> DEFINE n == Len(s)
    <3>1. n \in Nat /\ 0 \in H /\ \A i \in 1 .. n : i - 1 \in H => i \in H
      BY <1>2, <1>3, <2>1
    <3> HIDE DEF H, n
    <3>2. 0 .. n \subseteq H
      BY <3>1, IntervalInduction
    <3> QED
      BY <3>2 DEF n
  <2> HIDE DEF H
  <2> QED
    BY <2>1, <2>2
<1>5. PICK m \in [1 .. Len(f[Len(s)]) -> 1 .. Len(s)] : Marks(f[Len(s)], Len(s), m)
  BY <1>4
<1>6. f[Len(s)] = Only(s, T) /\ Only(s, T) \in Seq(S)
  BY <1>1
<1>7. m \in [1 .. Len(Only(s, T)) -> 1 .. Len(s)] /\ Marks(Only(s, T), Len(s), m)
  <2> HIDE DEF Marks
  <2> QED
    BY <1>5, <1>6
<1> QED
  BY <1>6, <1>7

\* What is selected is of s and in T; nothing in T is left out, nothing is doubled.
LEMMA OnlyElements ==
  ASSUME NEW S, NEW s \in Seq(S), NEW T
  PROVE  /\ Only(s, T) \in Seq(S)
         /\ Len(Only(s, T)) <= Len(s)
         /\ \A j \in DOMAIN Only(s, T) :
              Only(s, T)[j] \in T /\ \E i \in DOMAIN s : s[i] = Only(s, T)[j]
         /\ \A i \in DOMAIN s : s[i] \in T => \E j \in DOMAIN Only(s, T) : Only(s, T)[j] = s[i]
         /\ (\A i, j \in DOMAIN s : s[i] = s[j] => i = j) =>
              \A i, j \in DOMAIN Only(s, T) : Only(s, T)[i] = Only(s, T)[j] => i = j
<1> DEFINE x == Only(s, T)
<1>1. x \in Seq(S)
  BY OnlySelects
<1>2. PICK m \in [1 .. Len(x) -> 1 .. Len(s)] :
        /\ \A j \in 1 .. Len(x) : x[j] = s[m[j]] /\ s[m[j]] \in T
        /\ \A j, k \in 1 .. Len(x) : j < k => m[j] < m[k]
        /\ \A i \in 1 .. Len(s) : s[i] \in T => \E j \in 1 .. Len(x) : m[j] = i
  BY OnlySelects
<1> HIDE DEF x
<1>3. DOMAIN x = 1 .. Len(x) /\ DOMAIN s = 1 .. Len(s) /\ Len(x) \in Nat /\ Len(s) \in Nat
  BY <1>1
<1>4. Len(x) <= Len(s)
  <2> DEFINE H == {j \in 0 .. Len(x) : j = 0 \/ m[j] >= j}
  <2>1. 0 \in H
    BY <1>3
  <2>2. ASSUME NEW j \in 1 .. Len(x), j - 1 \in H PROVE j \in H
    <3>1. m[j] \in 1 .. Len(s) /\ j \in Nat
      BY <1>2
    <3>2. CASE j = 1
      BY <3>1, <3>2
    <3>3. CASE j # 1
      <4>1. j - 1 \in 1 .. Len(x) /\ j - 1 < j
        BY <3>1, <3>3, <1>3
      <4>2. m[j - 1] < m[j] /\ m[j - 1] \in 1 .. Len(s) /\ m[j - 1] >= j - 1
        BY <1>2, <2>2, <4>1
      <4> QED
        BY <3>1, <4>2
    <3> QED
      BY <3>2, <3>3
  <2>3. 0 .. Len(x) \subseteq H
    <3> DEFINE n == Len(x)
    <3>1. n \in Nat /\ \A j \in 1 .. n : j - 1 \in H => j \in H
      BY <1>3, <2>2
    <3> HIDE DEF H, n
    <3>2. 0 .. n \subseteq H
      BY <2>1, <3>1, IntervalInduction
    <3> QED
      BY <3>2 DEF n
  <2>4. Len(x) \in H
    BY <1>3, <2>3
  <2>5. Len(x) = 0 \/ (m[Len(x)] >= Len(x) /\ m[Len(x)] \in 1 .. Len(s))
    <3> Len(x) = 0 \/ Len(x) \in 1 .. Len(x)
      BY <1>3
    <3> QED
      BY <1>2, <2>4
  <2> QED
    BY <1>3, <2>5
<1>5. \A j \in DOMAIN x : x[j] \in T /\ \E i \in DOMAIN s : s[i] = x[j]
  BY <1>2, <1>3
<1>6. \A i \in DOMAIN s : s[i] \in T => \E j \in DOMAIN x : x[j] = s[i]
  BY <1>2, <1>3
<1>7. ASSUME \A i, j \in DOMAIN s : s[i] = s[j] => i = j,
             NEW i \in DOMAIN x, NEW j \in DOMAIN x, x[i] = x[j]
      PROVE  i = j
  <2>1. m[i] = m[j] /\ m[i] \in Int
    BY <1>2, <1>3, <1>7
  <2>2. ~(i < j) /\ ~(j < i) /\ i \in Int /\ j \in Int
    BY <1>2, <1>3, <2>1
  <2> QED
    BY <2>2
<1> QED
  BY <1>1, <1>4, <1>5, <1>6, <1>7 DEF x

\* A sequence of elements of T is selected as it is.
LEMMA OnlyOfAll ==
  ASSUME NEW S, NEW s \in Seq(S), NEW T, \A i \in 1 .. Len(s) : s[i] \in T
  PROVE  Only(s, T) = s
<1> DEFINE n == Len(s)
<1>1. PICK f : Selects(S, s, T, f) /\ Only(s, T) = f[n]
  BY OnlyUnfolds
<1>2. n \in Nat /\ \A i \in 1 .. n : i \in 0 .. n /\ i - 1 \in 0 .. n /\ s[i] \in S
  OBVIOUS
<1>3. /\ f \in [0 .. n -> Seq(S)] /\ f[0] = <<>>
      /\ \A i \in 1 .. n : f[i] = Append(f[i - 1], s[i])
  BY <1>1 DEF Selects
<1> HIDE DEF n
<1> DEFINE H == {i \in 0 .. n : Len(f[i]) = i /\ \A j \in 1 .. i : f[i][j] = s[j]}
<1>4. 0 \in H
  BY <1>2, <1>3
<1>5. ASSUME NEW i \in 1 .. n, i - 1 \in H PROVE i \in H
  <2> DEFINE a == f[i - 1]
  <2>1. a \in Seq(S) /\ s[i] \in S /\ f[i] = Append(a, s[i]) /\ i \in 0 .. n /\ i \in Nat
    <3>1. i \in 0 .. n /\ i - 1 \in 0 .. n /\ i \in Nat /\ s[i] \in S
      BY <1>2
    <3>2. f[i - 1] \in Seq(S)
      BY <1>3, <3>1
    <3>3. f[i] = Append(f[i - 1], s[i])
      BY <1>3
    <3> QED
      BY <3>1, <3>2, <3>3
  <2>2. Len(a) = i - 1 /\ \A j \in 1 .. i - 1 : a[j] = s[j]
    BY <1>5
  <2> HIDE DEF a
  <2> DEFINE b == Append(a, s[i])
  <2>3. Len(b) = i /\ b[i] = s[i] /\ \A j \in 1 .. i - 1 : b[j] = a[j]
    BY <2>1, <2>2
  <2> HIDE DEF b
  <2>4. ASSUME NEW j \in 1 .. i PROVE b[j] = s[j]
    <3> j = i \/ j \in 1 .. i - 1
      BY <2>1
    <3> QED
      BY <2>2, <2>3
  <2>5. f[i] = b
    BY <2>1 DEF b
  <2> QED
    BY <2>1, <2>3, <2>4, <2>5
<1>6. 0 .. n \subseteq H
  <2> HIDE DEF H
  <2> QED
    BY <1>2, <1>4, <1>5, IntervalInduction
<1>7. n \in H /\ f[n] \in Seq(S)
  BY <1>2, <1>3, <1>6
<1>8. Len(f[n]) = Len(s) /\ \A j \in 1 .. Len(s) : f[n][j] = s[j]
  BY <1>7 DEF n
<1>9. f[n] = s
  <2>1. f[n] \in Seq(S) /\ s \in Seq(S)
    BY <1>7
  <2> DEFINE g == f[n]
  <2>2. g \in Seq(S) /\ Len(g) = Len(s) /\ \A j \in 1 .. Len(s) : g[j] = s[j]
    BY <1>8, <2>1
  <2> HIDE DEF g
  <2>3. g = s
    BY <2>1, <2>2
  <2> QED
    BY <2>3 DEF g
<1> QED
  BY <1>1, <1>9

\* The selection from a prefix of s is what the function is there.
LEMMA OnlyOfPrefix ==
  ASSUME NEW S, NEW s \in Seq(S), NEW T, NEW f, Selects(S, s, T, f), NEW i \in 0 .. Len(s)
  PROVE  Only(SubSeq(s, 1, i), T) = f[i]
<1> DEFINE t == SubSeq(s, 1, i)
<1>1. t \in Seq(S) /\ Len(t) = i /\ i \in Nat /\ \A k \in 1 .. i : t[k] = s[k]
  OBVIOUS
<1> HIDE DEF t
<1>2. PICK g : Selects(S, t, T, g) /\ Only(t, T) = g[Len(t)]
  BY <1>1, OnlyUnfolds
<1> DEFINE H == {k \in 0 .. i : g[k] = f[k]}
<1>3. 0 \in H
  BY <1>1, <1>2 DEF Selects
<1>4. ASSUME NEW k \in 1 .. i, k - 1 \in H PROVE k \in H
  <2>1. k \in 1 .. Len(s) /\ k \in 1 .. Len(t) /\ t[k] = s[k]
    BY <1>1
  <2>2. g[k - 1] = f[k - 1]
    BY <1>4
  <2>3. g[k] = f[k]
    BY <1>2, <2>1, <2>2 DEF Selects
  <2> QED
    BY <2>3
<1>5. 0 .. i \subseteq H
  <2> HIDE DEF H
  <2> QED
    BY <1>1, <1>3, <1>4, IntervalInduction
<1>6. g[i] = f[i]
  BY <1>1, <1>5
<1> QED
  BY <1>1, <1>2, <1>6 DEF t

-----------------------------------------------------------------------------
(* ByRank                                                                  *)

\* The elements of T with the h-th rank from low on.
WithRank(T, rank, low, h) == {x \in T : rank[x] = low + h - 1}

Ranks(S, s, T, rank, low, n, f) ==
    /\ f \in [0 .. n -> Seq(S)]
    /\ f[0] = <<>>
    /\ \A h \in 1 .. n : f[h] = Only(s, WithRank(T, rank, low, h)) \o f[h - 1]

\* ByRank is the last value of a function on the ranks.
LEMMA ByRankUnfolds ==
  ASSUME NEW S, NEW s \in Seq(S), NEW T, NEW rank, NEW low \in Nat, NEW high \in Nat,
         low <= high + 1
  PROVE  \E f : /\ Ranks(S, s, T, rank, low, high - low + 1, f)
                /\ ByRank(s, T, rank, low, high) = f[high - low + 1]
<1> DEFINE n == high - low + 1
           At(h) == Only(s, WithRank(T, rank, low, h))
           step == [x \in (1 .. n) \X Seq(S) |-> At(x[1]) \o x[2]]
           Solves(k) == k = [h \in 0 .. n |->
                              IF h = 0 THEN <<>>
                              ELSE Only(s, {x \in T : rank[x] = low + h - 1}) \o k[h - 1]]
           best == CHOOSE k : Solves(k)
<1>1. n \in Nat /\ <<>> \in Seq(S)
  OBVIOUS
<1>2. \A h \in 1 .. n : At(h) \in Seq(S)
  BY OnlyElements
<1>3. \A h : At(h) = Only(s, {x \in T : rank[x] = low + h - 1})
  BY DEF WithRank
<1>4. ByRank(s, T, rank, low, high) = best[n]
  BY DEF ByRank
<1>5. \A k : Solves(k) <=> k = [h \in 0 .. n |->
                                 IF h = 0 THEN <<>> ELSE At(h) \o k[h - 1]]
  BY <1>3
<1> HIDE DEF n, At
<1>6. step \in [(1 .. n) \X Seq(S) -> Seq(S)]
  BY <1>2
<1>7. \A h \in 1 .. n, a \in Seq(S) : step[<<h, a>>] = At(h) \o a
  OBVIOUS
<1> HIDE DEF step, Solves
<1>8. PICK f : Iterates(n, Seq(S), <<>>, step, f)
  BY <1>1, <1>6, RecursionExists
<1>9. f \in [0 .. n -> Seq(S)] /\ f[0] = <<>> /\ \A h \in 1 .. n : f[h] = At(h) \o f[h - 1]
  <2>1. \A h \in 1 .. n : f[h - 1] \in Seq(S)
    <3>1. \A h \in 1 .. n : h - 1 \in 0 .. n
      BY <1>1
    <3> QED
      BY <1>8, <3>1 DEF Iterates
  <2> QED
    BY <1>7, <1>8, <2>1 DEF Iterates
<1>10. Solves(f)
  <2>1. f = [h \in 0 .. n |-> f[h]]
    BY <1>9
  <2>2. \A h \in 0 .. n : f[h] = IF h = 0 THEN <<>> ELSE At(h) \o f[h - 1]
    <3>1. \A h \in 0 .. n : h = 0 \/ h \in 1 .. n
      BY <1>1
    <3>2. 0 \notin 1 .. n
      OBVIOUS
    <3> QED
      BY <1>9, <3>1, <3>2
  <2>3. f = [h \in 0 .. n |-> IF h = 0 THEN <<>> ELSE At(h) \o f[h - 1]]
    BY <2>1, <2>2
  <2> QED
    BY <1>5, <2>3
<1>11. Solves(best)
  BY <1>10, Zenon
<1> HIDE DEF best
<1>12. best = [h \in 0 .. n |-> IF h = 0 THEN <<>> ELSE At(h) \o best[h - 1]]
  BY <1>5, <1>11
<1>13. best[0] = <<>> /\ \A h \in 1 .. n : best[h] = At(h) \o best[h - 1]
  <2>1. \A h \in 0 .. n : best[h] = IF h = 0 THEN <<>> ELSE At(h) \o best[h - 1]
    BY <1>12
  <2>2. 0 \in 0 .. n /\ \A h \in 1 .. n : h \in 0 .. n /\ h # 0
    BY <1>1
  <2> QED
    BY <2>1, <2>2, Zenon
<1>14. Obeys(n, Seq(S), <<>>, step, best)
  BY <1>7, <1>13 DEF Obeys
<1>15. \A h \in 0 .. n : best[h] = f[h]
  BY <1>1, <1>8, <1>14, RecursionUnique
<1>16. Ranks(S, s, T, rank, low, n, f)
  BY <1>9 DEF Ranks, At
<1>17. n \in 0 .. n
  BY <1>1
<1> QED
  BY <1>4, <1>15, <1>16, <1>17 DEF n

\* What ByRank lists is of s and in T, and has a rank from low to high; nothing
\* is doubled.
LEMMA ByRankElements ==
  ASSUME NEW S, NEW s \in Seq(S), NEW T, NEW rank, NEW low \in Nat, NEW high \in Nat,
         low <= high + 1, \A x \in T : rank[x] \in Int
  PROVE  /\ ByRank(s, T, rank, low, high) \in Seq(S)
         /\ \A j \in DOMAIN ByRank(s, T, rank, low, high) :
              LET x == ByRank(s, T, rank, low, high)[j]
              IN  /\ x \in T /\ rank[x] \in low .. high
                  /\ \E i \in DOMAIN s : s[i] = x
         /\ (\A i, j \in DOMAIN s : s[i] = s[j] => i = j) =>
              \A i, j \in DOMAIN ByRank(s, T, rank, low, high) :
                 ByRank(s, T, rank, low, high)[i] = ByRank(s, T, rank, low, high)[j]
                 => i = j
<1> DEFINE n == high - low + 1
           Distinct(a) == \A i, j \in DOMAIN a : a[i] = a[j] => i = j
           Known(a, h) == \A j \in DOMAIN a :
                             /\ a[j] \in T /\ rank[a[j]] \in low .. low + h - 1
                             /\ \E i \in DOMAIN s : s[i] = a[j]
<1>1. PICK f : /\ Ranks(S, s, T, rank, low, n, f)
               /\ ByRank(s, T, rank, low, high) = f[n]
  BY ByRankUnfolds
<1>2. n \in Nat
  OBVIOUS
<1> DEFINE H == {h \in 0 .. n : Known(f[h], h) /\ (Distinct(s) => Distinct(f[h]))}
<1>3. 0 \in H
  BY <1>1, <1>2 DEF Ranks
<1> HIDE DEF n
<1>4. ASSUME NEW h \in 1 .. n, h - 1 \in H PROVE h \in H
  <2> DEFINE a == f[h - 1]
             b == Only(s, WithRank(T, rank, low, h))
  <2>1. a \in Seq(S) /\ f[h] = b \o a /\ h \in Nat /\ h \in 0 .. n
    <3>1. h - 1 \in 0 .. n /\ h \in Nat /\ h \in 0 .. n
      BY <1>2
    <3>2. f[h - 1] \in Seq(S)
      BY <1>1, <3>1 DEF Ranks
    <3>3. f[h] = b \o f[h - 1]
      BY <1>1 DEF Ranks
    <3> QED
      BY <3>1, <3>2, <3>3
  <2>2. /\ b \in Seq(S)
        /\ \A j \in DOMAIN b : b[j] \in WithRank(T, rank, low, h)
                               /\ \E i \in DOMAIN s : s[i] = b[j]
        /\ Distinct(s) => Distinct(b)
    BY OnlyElements
  <2>3. Known(a, h - 1) /\ (Distinct(s) => Distinct(a))
    BY <1>4
  <2> HIDE DEF a, b
  <2> DEFINE c == b \o a
  <2>4. /\ c \in Seq(S) /\ Len(c) = Len(b) + Len(a) /\ Len(a) \in Nat /\ Len(b) \in Nat
        /\ DOMAIN c = 1 .. Len(c) /\ DOMAIN a = 1 .. Len(a) /\ DOMAIN b = 1 .. Len(b)
        /\ \A j \in 1 .. Len(b) : c[j] = b[j]
        /\ \A j \in Len(b) + 1 .. Len(b) + Len(a) : c[j] = a[j - Len(b)]
    BY <2>1, <2>2
  <2> HIDE DEF c
  <2>5. \A j \in DOMAIN c : \/ j \in DOMAIN b /\ c[j] = b[j]
                            \/ /\ j > Len(b) /\ j - Len(b) \in DOMAIN a
                               /\ c[j] = a[j - Len(b)]
    <3> SUFFICES ASSUME NEW j \in 1 .. Len(b) + Len(a), ~(j \in 1 .. Len(b))
                 PROVE  /\ j > Len(b) /\ j - Len(b) \in 1 .. Len(a)
                        /\ c[j] = a[j - Len(b)]
      BY <2>4
    <3>1. j \in Len(b) + 1 .. Len(b) + Len(a)
      BY <2>4
    <3> QED
      BY <2>4, <3>1
  <2>6. \A j \in DOMAIN b : b[j] \in T /\ rank[b[j]] = low + h - 1
    BY <2>2 DEF WithRank
  <2>7. \A j \in DOMAIN a : a[j] \in T /\ rank[a[j]] \in low .. low + h - 2
    BY <2>1, <2>3
  <2>8. Known(c, h)
    <3> SUFFICES ASSUME NEW j \in DOMAIN c
                 PROVE  /\ c[j] \in T /\ rank[c[j]] \in low .. low + h - 1
                        /\ \E i \in DOMAIN s : s[i] = c[j]
      OBVIOUS
    <3>1. CASE j \in DOMAIN b /\ c[j] = b[j]
      BY <2>1, <2>2, <2>6, <3>1
    <3>2. CASE j - Len(b) \in DOMAIN a /\ c[j] = a[j - Len(b)]
      BY <2>1, <2>3, <2>7, <3>2
    <3> QED
      BY <2>5, <3>1, <3>2
  <2>9. ASSUME Distinct(s), NEW i \in DOMAIN c, NEW j \in DOMAIN c, c[i] = c[j]
        PROVE  i = j
    <3>1. \A k \in DOMAIN b, l \in DOMAIN a : b[k] # a[l]
      BY <2>1, <2>6, <2>7
    <3>2. Distinct(a) /\ Distinct(b)
      BY <2>2, <2>3, <2>9
    <3>3. i \in Nat /\ j \in Nat
      BY <2>4
    <3>4. CASE i \in DOMAIN b /\ c[i] = b[i]
      <4>1. j \in DOMAIN b /\ c[j] = b[j]
        BY <2>5, <2>9, <3>1, <3>4
      <4> QED
        BY <2>9, <3>2, <3>4, <4>1
    <3>5. CASE i - Len(b) \in DOMAIN a /\ c[i] = a[i - Len(b)]
      <4>1. j - Len(b) \in DOMAIN a /\ c[j] = a[j - Len(b)]
        BY <2>5, <2>9, <3>1, <3>5
      <4>2. i - Len(b) = j - Len(b)
        BY <2>9, <3>2, <3>5, <4>1
      <4> QED
        BY <2>4, <3>3, <4>2
    <3> QED
      BY <2>5, <3>4, <3>5
  <2> QED
    BY <2>1, <2>8, <2>9 DEF c
<1>5. 0 .. n \subseteq H
  <2> HIDE DEF H
  <2> QED
    BY <1>2, <1>3, <1>4, IntervalInduction
<1>6. n \in H /\ f[n] \in Seq(S)
  <2>1. n \in 0 .. n
    BY <1>2
  <2>2. f[n] \in Seq(S)
    BY <1>1, <2>1 DEF Ranks
  <2> QED
    BY <1>5, <2>1, <2>2
<1>7. low + n - 1 = high
  BY DEF n
<1> QED
  BY <1>1, <1>6, <1>7

-----------------------------------------------------------------------------
(* Total                                                                   *)

Sums(cost, s, f) ==
    /\ f \in [0 .. Len(s) -> Nat]
    /\ f[0] = 0
    /\ \A i \in 1 .. Len(s) : f[i] = f[i - 1] + cost[s[i]]

\* Total(cost, s) is the last value of a function on the positions of s.
LEMMA TotalUnfolds ==
  ASSUME NEW S, NEW s \in Seq(S), NEW cost \in [S -> Nat]
  PROVE  \E f : Sums(cost, s, f) /\ Total(cost, s) = f[Len(s)]
<1> DEFINE n == Len(s)
           step == [x \in (1 .. n) \X Nat |-> x[2] + cost[s[x[1]]]]
           Solves(k) == k = [i \in 0 .. Len(s) |->
                              IF i = 0 THEN 0 ELSE k[i - 1] + cost[s[i]]]
           sum == CHOOSE k : Solves(k)
<1>1. n \in Nat /\ \A i \in 1 .. n : cost[s[i]] \in Nat
  OBVIOUS
<1>2. step \in [(1 .. n) \X Nat -> Nat]
  BY <1>1
<1>3. \A i \in 1 .. n, a \in Nat : step[<<i, a>>] = a + cost[s[i]]
  OBVIOUS
<1> HIDE DEF step
<1>4. PICK f : Iterates(n, Nat, 0, step, f)
  <2> HIDE DEF n
  <2>1. 0 \in Nat
    OBVIOUS
  <2> QED
    BY <1>1, <1>2, <2>1, RecursionExists
<1>5. Sums(cost, s, f)
  <2>1. \A i \in 1 .. n : f[i - 1] \in Nat
    <3>1. f \in [0 .. n -> Nat]
      BY <1>4 DEF Iterates
    <3>2. \A i \in 1 .. n : i - 1 \in 0 .. n
      BY <1>1
    <3> HIDE DEF n
    <3> QED
      BY <3>1, <3>2
  <2>2. \A i \in 1 .. n : f[i] = f[i - 1] + cost[s[i]]
    BY <1>3, <1>4, <2>1 DEF Iterates
  <2> QED
    BY <1>4, <2>2 DEF Iterates, Sums
<1>6. Solves(f)
  <2>1. f = [i \in 0 .. n |-> f[i]]
    BY <1>5 DEF Sums
  <2>2. \A i \in 0 .. n : f[i] = IF i = 0 THEN 0 ELSE f[i - 1] + cost[s[i]]
    <3>1. \A i \in 0 .. n : i = 0 \/ i \in 1 .. n
      BY <1>1
    <3>2. 0 \notin 1 .. n
      OBVIOUS
    <3> QED
      BY <1>5, <3>1, <3>2 DEF Sums
  <2> QED
    BY <2>1, <2>2
<1>7. Solves(sum)
  <2> HIDE DEF Solves
  <2> QED
    BY <1>6, Zenon
<1>8. Total(cost, s) = sum[n]
  BY DEF Total
<1> HIDE DEF sum
<1>9. sum[0] = 0 /\ \A i \in 1 .. n : sum[i] = sum[i - 1] + cost[s[i]]
  <2>1. \A i \in 0 .. n : sum[i] = IF i = 0 THEN 0 ELSE sum[i - 1] + cost[s[i]]
    BY <1>7
  <2> QED
    BY <1>1, <2>1
<1>10. Obeys(n, Nat, 0, step, sum)
  BY <1>3, <1>9 DEF Obeys
<1>11. \A i \in 0 .. n : sum[i] = f[i]
  <2>1. n \in Nat
    OBVIOUS
  <2> HIDE DEF n, Solves
  <2> QED
    BY <1>4, <1>10, <2>1, RecursionUnique
<1> QED
  BY <1>1, <1>5, <1>8, <1>11

\* Nothing costs nothing.
LEMMA TotalOfEmpty ==
  ASSUME NEW S, NEW cost \in [S -> Nat]
  PROVE  Total(cost, <<>>) = 0
<1>1. <<>> \in Seq(S) /\ Len(<<>>) = 0
  OBVIOUS
<1>2. PICK f : Sums(cost, <<>>, f) /\ Total(cost, <<>>) = f[Len(<<>>)]
  BY <1>1, TotalUnfolds
<1> QED
  BY <1>1, <1>2 DEF Sums

\* The sum of a longer sequence is that of the shorter one and the new cost.
LEMMA TotalOfAppend ==
  ASSUME NEW S, NEW s \in Seq(S), NEW e \in S, NEW cost \in [S -> Nat]
  PROVE  /\ Total(cost, s) \in Nat
         /\ Total(cost, Append(s, e)) = Total(cost, s) + cost[e]
<1>2. PICK f : Sums(cost, s, f) /\ Total(cost, s) = f[Len(s)]
  BY TotalUnfolds
<1> DEFINE t == Append(s, e)
           n == Len(s)
<1>3. /\ t \in Seq(S) /\ Len(t) = n + 1 /\ t[n + 1] = e /\ n \in Nat
      /\ \A k \in 1 .. n : t[k] = s[k]
  OBVIOUS
<1> HIDE DEF t
<1>4. PICK g : Sums(cost, t, g) /\ Total(cost, t) = g[Len(t)]
  BY <1>3, TotalUnfolds
<1> DEFINE H == {k \in 0 .. n : g[k] = f[k]}
<1>5. 0 \in H
  BY <1>2, <1>3, <1>4 DEF Sums
<1>6. ASSUME NEW k \in 1 .. n, k - 1 \in H PROVE k \in H
  <2>1. k \in 1 .. Len(t) /\ t[k] = s[k] /\ g[k - 1] = f[k - 1]
    BY <1>3, <1>6
  <2>2. g[k] = f[k]
    BY <1>2, <1>4, <2>1 DEF Sums
  <2> QED
    BY <2>2
<1>7. 0 .. n \subseteq H
  <2> HIDE DEF H, n
  <2> QED
    BY <1>3, <1>5, <1>6, IntervalInduction
<1>8. g[n] = f[n] /\ f[n] \in Nat
  BY <1>2, <1>3, <1>7 DEF Sums
<1>9. g[n + 1] = g[n] + cost[e]
  <2>1. n + 1 \in 1 .. Len(t) /\ (n + 1) - 1 = n
    BY <1>3
  <2> QED
    BY <1>3, <1>4, <2>1 DEF Sums
<1> QED
  BY <1>2, <1>3, <1>4, <1>8, <1>9 DEF t

-----------------------------------------------------------------------------
(* Max                                                                     *)

\* The values of a function on a finite set are finitely many.
LEMMA ImageIsFinite ==
  ASSUME NEW S, IsFiniteSet(S), NEW f, S = DOMAIN f
  PROVE  IsFiniteSet({f[x] : x \in S})
<1> DEFINE T == {f[x] : x \in S}
           g == [x \in S |-> f[x]]
<1>1. g \in [S -> T] /\ \A t \in T : \E x \in S : g[x] = t
  OBVIOUS
<1> HIDE DEF T, g
<1>2. g \in Surjection(S, T)
  BY <1>1 DEF Surjection
<1>3. IsFiniteSet(T)
  BY <1>2, FS_Surjection
<1> QED
  BY <1>3 DEF T

\* A finite set of integers that is not empty has a largest element: the sets
\* of what lies above each of its elements are finite, and one is minimal.
LEMMA LargestExists ==
  ASSUME NEW S, IsFiniteSet(S), S \subseteq Int, S # {}
  PROVE  \E m \in S : \A y \in S : m >= y
<1> DEFINE Above(s) == {t \in S : t > s}
           T == {Above(s) : s \in S}
<1>1. T \subseteq FiniteSubsetsOf(S)
  <2> SUFFICES ASSUME NEW s \in S PROVE Above(s) \in FiniteSubsetsOf(S)
    OBVIOUS
  <2>2. Above(s) \subseteq S
    OBVIOUS
  <2>3. IsFiniteSet(Above(s))
    BY <2>2, FS_Subset
  <2> QED
    BY <2>2, <2>3 DEF FiniteSubsetsOf
<1>2. IsWellFoundedOn(StrictSubsetOrdering(S), FiniteSubsetsOf(S))
  BY FS_StrictSubsetOrderingWellFounded
<1>3. PICK x \in T : \A y \in T : ~(<<y, x>> \in StrictSubsetOrdering(S))
  <2>1. T # {}
    OBVIOUS
  <2> HIDE DEF T
  <2> QED
    BY <1>1, <1>2, <2>1, WFMin, Zenon
<1>4. PICK m \in S : x = Above(m)
  OBVIOUS
<1>5. SUFFICES ASSUME NEW y \in S, ~(m >= y) PROVE FALSE
  OBVIOUS
<1>6. Above(y) \subseteq Above(m) /\ y \in Above(m) /\ y \notin Above(y)
  <2>1. y \in Int /\ m \in Int /\ y > m
    BY <1>5
  <2> HIDE DEF T
  <2>2. y \in Above(m)
    BY <2>1
  <2>3. y \notin Above(y)
    BY <2>1
  <2>4. ASSUME NEW t \in Above(y) PROVE t \in Above(m)
    BY <2>1, <2>4
  <2> QED
    BY <2>2, <2>3, <2>4
<1>7. <<Above(y), Above(m)>> \in StrictSubsetOrdering(S)
  <2>1. Above(y) \in SUBSET S /\ Above(m) \in SUBSET S
    OBVIOUS
  <2>2. Above(y) \subseteq Above(m) /\ Above(y) # Above(m)
    BY <1>6
  <2> HIDE DEF Above
  <2>3. <<Above(y), Above(m)>> \in (SUBSET S) \X (SUBSET S)
    BY <2>1
  <2> QED
    BY <2>2, <2>3 DEF StrictSubsetOrdering
<1> QED
  BY <1>3, <1>4, <1>7

\* Max is that element.
LEMMA MaxIsLargest ==
  ASSUME NEW S, NEW m \in S, \A y \in S : m >= y, S \subseteq Int
  PROVE  Max(S) = m
<1>1. Max(S) \in S /\ \A y \in S : Max(S) >= y
  BY Zenon DEF Max
<1>2. Max(S) >= m /\ m >= Max(S) /\ Max(S) \in Int /\ m \in Int
  BY <1>1
<1> QED
  BY <1>2

LEMMA MaxOfFinite ==
  ASSUME NEW S, IsFiniteSet(S), S \subseteq Int, S # {}
  PROVE  Max(S) \in S /\ \A y \in S : Max(S) >= y
<1>1. PICK m \in S : \A y \in S : m >= y
  BY LargestExists
<1>2. Max(S) = m
  BY <1>1, MaxIsLargest
<1> QED
  BY <1>1, <1>2

LEMMA MaxOfBounded ==
  ASSUME NEW n \in Nat, NEW S, S \subseteq 0 .. n, S # {}
  PROVE  Max(S) \in S /\ \A y \in S : Max(S) >= y
<1>1. IsFiniteSet(0 .. n) /\ 0 .. n \subseteq Int
  BY FS_Interval
<1>2. IsFiniteSet(S) /\ S \subseteq Int
  BY <1>1, FS_Subset
<1> QED
  BY <1>2, MaxOfFinite
=============================================================================
