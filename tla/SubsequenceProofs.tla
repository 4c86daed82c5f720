-------------------------- MODULE SubsequenceProofs --------------------------
(***************************************************************************)
(* Lemmas about filtered sequences and about recursive functions on 0..k.  *)
(* Induction is stated for the set of the numbers that have a property, so *)
(* that no operator is a parameter; it is proved by a least counterexample,*)
(* which exists because the order of the naturals is well-founded.         *)
(***************************************************************************)
EXTENDS Subsequence, SequenceTheorems, WellFoundedInduction, TLAPS

Below == {pair \in Nat \X Nat : pair[1] < pair[2]}

\* A set of naturals that is not empty has a least element.
LEMMA LeastElement ==
  ASSUME NEW T \in SUBSET Nat, T # {}
  PROVE  \E n \in T : \A m \in T : n <= m
<1>1. IsWellFoundedOn(Below, Nat)
  <2>1. OpToRel(<, Nat) = Below
    BY Zenon DEF OpToRel, Below
  <2>2. IsWellFoundedOn(OpToRel(<, Nat), Nat)
    BY NatLessThanWellFounded
  <2> QED BY <2>1, <2>2, Zenon
<1>2. PICK n \in T : \A m \in T : <<m, n>> \notin Below
  BY <1>1, WFMin
<1>3. \A m \in T : ~(m < n)
  BY <1>2 DEF Below
<1> QED BY <1>3

\* slice(): where it begins and what is in it.
LEMMA Slice ==
  ASSUME NEW S, NEW s \in Seq(S), NEW m \in 1..Len(s) + 1, NEW n \in m - 1..Len(s)
  PROVE  /\ SubSeq(s, m, n) \in Seq(S)
         /\ Len(SubSeq(s, m, n)) = n - m + 1
         /\ \A i \in 1..n - m + 1 : SubSeq(s, m, n)[i] = s[m + i - 1]
BY SubSeqProperties

\* Induction up to k, for the set of the numbers that have the property.
LEMMA Induction ==
  ASSUME NEW k \in Nat, NEW T, 0 \in T, \A n \in 1..k : n - 1 \in T => n \in T
  PROVE  \A n \in 0..k : n \in T
<1> DEFINE Bad == {n \in 0..k : n \notin T}
<1> SUFFICES ASSUME Bad # {} PROVE FALSE
  OBVIOUS
<1>1. Bad \in SUBSET Nat
  OBVIOUS
<1> HIDE DEF Bad
<1>2. PICK n \in Bad : \A m \in Bad : n <= m
  BY <1>1, LeastElement
<1> USE DEF Bad
<1>3. n \in 0..k /\ n \notin T /\ n # 0
  OBVIOUS
<1>4. n \in 1..k /\ n - 1 \in 0..k /\ n - 1 \in T
  BY <1>2, <1>3
<1> QED BY <1>3, <1>4

\* f begins with base, and step[n] leads from its value before n to that at n.
Stepwise(f, k, base, step) == f[0] = base /\ \A n \in 1..k : f[n] = step[n][f[n - 1]]

\* A function that is defined by its first value and by what follows each value exists.
LEMMA Recursion ==
  ASSUME NEW k \in Nat, NEW X, NEW base \in X, NEW step,
         \A n \in 1..k : \A x \in X : step[n][x] \in X
  PROVE  \E f \in [0..k -> X] : Stepwise(f, k, base, step)
<1> DEFINE Has(j) == \E f \in [0..j -> X] : Stepwise(f, j, base, step)
           T == {j \in 0..k : Has(j)}
<1>1. 0 \in T
  <2> DEFINE f == [n \in 0..0 |-> base]
  <2>1. f \in [0..0 -> X] /\ Stepwise(f, 0, base, step)
    BY DEF Stepwise
  <2>2. Has(0)
    BY <2>1
  <2> HIDE DEF Has
  <2> QED BY <2>2
<1>2. ASSUME NEW j \in 1..k, j - 1 \in T PROVE j \in T
  <2>1. PICK g \in [0..j - 1 -> X] : Stepwise(g, j - 1, base, step)
    BY <1>2
  <2> DEFINE f == [n \in 0..j |-> IF n = j THEN step[j][g[j - 1]] ELSE g[n]]
  <2>2. \A n \in 0..j - 1 : f[n] = g[n] /\ g[n] \in X
    OBVIOUS
  <2>3. f[j] = step[j][g[j - 1]] /\ step[j][g[j - 1]] \in X
    OBVIOUS
  <2>4. f \in [0..j -> X]
    BY <2>2, <2>3
  <2>5. f[0] = base
    BY <2>1, <2>2 DEF Stepwise
  <2> HIDE DEF f
  <2>6. ASSUME NEW n \in 1..j PROVE f[n] = step[n][f[n - 1]]
    <3>1. CASE n = j
      <4>1. j - 1 \in 0..j - 1
        OBVIOUS
      <4> QED BY <3>1, <4>1, <2>2, <2>3
    <3>2. CASE n # j
      <4>1. n \in 1..j - 1 /\ n \in 0..j - 1 /\ n - 1 \in 0..j - 1
        BY <3>2
      <4> QED BY <4>1, <2>1, <2>2 DEF Stepwise
    <3> QED BY <3>1, <3>2
  <2>7. Stepwise(f, j, base, step)
    BY <2>5, <2>6 DEF Stepwise
  <2>8. Has(j)
    BY <2>4, <2>7
  <2> HIDE DEF Has
  <2> QED BY <2>8
<1> HIDE DEF T
<1>3. \A n \in 1..k : n - 1 \in T => n \in T
  BY <1>2
<1>4. \A n \in 0..k : n \in T
  BY <1>1, <1>3, Induction, Zenon
<1>5. k \in T
  BY <1>4
<1> QED BY <1>5 DEF T

\* How the elements are picked, one after the other.
PicksOneByOne(kept, s, I) ==
  /\ kept[0] = <<>>
  /\ \A n \in 1..Len(s) : kept[n] = IF n \in I THEN Append(kept[n - 1], s[n]) ELSE kept[n - 1]
  /\ Picked(s, I) = kept[Len(s)]

LEMMA Picking ==
  ASSUME NEW S, NEW s \in Seq(S), NEW I
  PROVE  \E kept \in [0..Len(s) -> Seq(S)] : PicksOneByOne(kept, s, I)
<1> DEFINE After(n, t) == IF n \in I THEN Append(t, s[n]) ELSE t
           step == [n \in 1..Len(s) |-> [t \in Seq(S) |-> After(n, t)]]
           Equation(f) == f = [n \in 0..Len(s) |->
                                 IF n = 0 THEN <<>>
                                 ELSE IF n \in I THEN Append(f[n - 1], s[n]) ELSE f[n - 1]]
           kept == CHOOSE f : Equation(f)
           Good(n) == kept[n] \in Seq(S)
           T == {n \in 0..Len(s) : Good(n)}
<1>1. Len(s) \in Nat /\ \A n \in 1..Len(s) : s[n] \in S
  OBVIOUS
<1>2. \E f : Equation(f)
  <2>1. ASSUME NEW n \in 1..Len(s), NEW t \in Seq(S)
        PROVE  After(n, t) \in Seq(S) /\ step[n][t] = After(n, t)
    BY <1>1
  <2>a. ASSUME NEW n \in 1..Len(s), NEW t \in Seq(S) PROVE step[n][t] \in Seq(S)
    BY <1>1
  <2> HIDE DEF step
  <2>2. \E f \in [0..Len(s) -> Seq(S)] : Stepwise(f, Len(s), <<>>, step)
    <3> DEFINE X == Seq(S)
               k == Len(s)
    <3>1. \A n \in 1..k : \A t \in X : step[n][t] \in X
      BY <2>a, Zenon
    <3>2. <<>> \in X /\ k \in Nat
      BY <1>1
    <3> HIDE DEF X, k
    <3>3. \E f \in [0..k -> X] : Stepwise(f, k, <<>>, step)
      BY ONLY <3>1, <3>2, Recursion
    <3> QED BY <3>3 DEF X, k
  <2>3. PICK f \in [0..Len(s) -> Seq(S)] :
          f[0] = <<>> /\ \A n \in 1..Len(s) : f[n] = step[n][f[n - 1]]
    BY <2>2 DEF Stepwise
  <2>4. ASSUME NEW n \in 0..Len(s)
        PROVE  f[n] = IF n = 0 THEN <<>>
                      ELSE IF n \in I THEN Append(f[n - 1], s[n]) ELSE f[n - 1]
    <3>1. n # 0 => n \in 1..Len(s) /\ f[n - 1] \in Seq(S)
      BY <1>1, <2>3
    <3>2. n # 0 => f[n] = step[n][f[n - 1]] /\ step[n][f[n - 1]] = After(n, f[n - 1])
      BY <3>1, <2>1, <2>3, Zenon
    <3>3. n = 0 => f[n] = <<>>
      BY <2>3, Zenon
    <3> QED BY <3>2, <3>3, Zenon
  <2>5. Equation(f)
    BY <2>3, <2>4
  <2> QED BY <2>5
<1>3. Equation(kept)
  BY <1>2, Zenon
<1>4. Picked(s, I) = kept[Len(s)]
  BY Zenon DEF Picked
<1> HIDE DEF kept
<1>5. kept[0] = <<>> /\ \A n \in 1..Len(s) :
        kept[n] = IF n \in I THEN Append(kept[n - 1], s[n]) ELSE kept[n - 1]
  <2>1. \A n \in 0..Len(s) : kept[n] = IF n = 0 THEN <<>>
          ELSE IF n \in I THEN Append(kept[n - 1], s[n]) ELSE kept[n - 1]
    BY <1>3, Zenon
  <2> QED BY <1>1, <2>1
<1>6. 0 \in T /\ \A n \in 1..Len(s) : n - 1 \in T => n \in T
  <2>1. ASSUME NEW n \in 1..Len(s), NEW t \in Seq(S) PROVE Append(t, s[n]) \in Seq(S)
    BY <1>1
  <2>2. <<>> \in Seq(S) /\ 0 \in 0..Len(s) /\ \A n \in 1..Len(s) : n \in 0..Len(s)
    BY <1>1
  <2> PICK X : X = Seq(S)
    OBVIOUS
  <2> QED BY <1>5, <2>1, <2>2
<1> HIDE DEF T
<1>7. \A n \in 0..Len(s) : n \in T
  BY <1>1, <1>6, Induction, Zenon
<1>8. kept \in [0..Len(s) -> Seq(S)]
  <2>1. \A n \in 0..Len(s) : kept[n] \in Seq(S)
    BY <1>7 DEF T
  <2>2. kept = [n \in 0..Len(s) |-> kept[n]]
    BY <1>3
  <2> QED BY <2>1, <2>2
<1>9. PicksOneByOne(kept, s, I)
  BY <1>4, <1>5, Zenon DEF PicksOneByOne
<1> QED BY <1>8, <1>9

\* What is picked is of the sequence's type, and every element of it was kept by the test.
LEMMA PickedKept ==
  ASSUME NEW S, NEW s \in Seq(S), NEW I
  PROVE  /\ Picked(s, I) \in Seq(S)
         /\ \A i \in 1..Len(Picked(s, I)) : \E j \in 1..Len(s) : j \in I /\ Picked(s, I)[i] = s[j]
<1> DEFINE Good(t) == /\ t \in Seq(S)
                      /\ \A i \in 1..Len(t) : \E j \in 1..Len(s) : j \in I /\ t[i] = s[j]
<1>1. Len(s) \in Nat /\ \A n \in 1..Len(s) : s[n] \in S
  OBVIOUS
<1>p. PICK kept \in [0..Len(s) -> Seq(S)] : PicksOneByOne(kept, s, I)
  BY Picking, Zenon
<1>2. /\ kept[0] = <<>>
      /\ \A n \in 1..Len(s) : kept[n] = IF n \in I THEN Append(kept[n - 1], s[n]) ELSE kept[n - 1]
      /\ Picked(s, I) = kept[Len(s)]
  BY <1>p, Zenon DEF PicksOneByOne
<1>3. Good(<<>>)
  OBVIOUS
<1>4. ASSUME NEW t, Good(t), NEW n \in 1..Len(s), n \in I
      PROVE  Good(Append(t, s[n]))
  BY <1>1, <1>4
<1> HIDE DEF Good
<1> DEFINE T == {n \in 0..Len(s) : Good(kept[n])}
<1>5. 0 \in T /\ \A n \in 1..Len(s) : n - 1 \in T => n \in T
  BY <1>1, <1>2, <1>3, <1>4
<1> HIDE DEF T
<1>6. \A n \in 0..Len(s) : n \in T
  BY <1>1, <1>5, Induction, Zenon
<1>7. Len(s) \in T
  BY <1>1, <1>6
<1> QED BY <1>2, <1>7 DEF Good, T

\* The first that is picked is the first that the test keeps; nothing is picked only if the
\* test keeps nothing.
LEMMA PickedFirst ==
  ASSUME NEW S, NEW s \in Seq(S), NEW I
  PROVE  IF Picked(s, I) = <<>> THEN \A j \in 1..Len(s) : j \notin I
         ELSE \E j \in 1..Len(s) : /\ j \in I /\ Picked(s, I)[1] = s[j]
                                   /\ \A i \in 1..j - 1 : i \notin I
<1> DEFINE Good(n, t) == /\ t \in Seq(S)
                         /\ IF t = <<>> THEN \A j \in 1..n : j \notin I
                            ELSE \E j \in 1..n : /\ j \in I /\ t[1] = s[j]
                                                 /\ \A i \in 1..j - 1 : i \notin I
<1>1. Len(s) \in Nat /\ \A n \in 1..Len(s) : s[n] \in S
  OBVIOUS
<1>p. PICK kept \in [0..Len(s) -> Seq(S)] : PicksOneByOne(kept, s, I)
  BY Picking, Zenon
<1>2. /\ kept[0] = <<>>
      /\ \A n \in 1..Len(s) : kept[n] = IF n \in I THEN Append(kept[n - 1], s[n]) ELSE kept[n - 1]
      /\ Picked(s, I) = kept[Len(s)]
  BY <1>p, Zenon DEF PicksOneByOne
<1>3. Good(0, <<>>)
  OBVIOUS
<1>4. ASSUME NEW n \in 1..Len(s), NEW t, Good(n - 1, t)
      PROVE  Good(n, IF n \in I THEN Append(t, s[n]) ELSE t)
  <2>1. \A i \in 1..n : i \in 1..n - 1 \/ i = n
    BY <1>1
  <2>2. \A i \in 1..n - 1 : i \in 1..n
    BY <1>1
  <2>3. CASE n \notin I
    <3>1. CASE t = <<>>
      BY <1>4, <2>1, <2>3, <3>1
    <3>2. CASE t # <<>>
      <4>1. PICK j \in 1..n - 1 : j \in I /\ t[1] = s[j] /\ \A i \in 1..j - 1 : i \notin I
        BY <1>4, <3>2
      <4> QED BY <1>4, <2>2, <2>3, <3>2, <4>1
    <3> QED BY <3>1, <3>2
  <2>4. CASE n \in I
    <3> PICK u : u = Append(t, s[n])
      OBVIOUS
    <3>1. u \in Seq(S) /\ u # <<>> /\ (t = <<>> => u[1] = s[n]) /\ (t # <<>> => u[1] = t[1])
      BY <1>1, <1>4
    <3>2. CASE t = <<>>
      BY <1>4, <2>4, <3>1, <3>2
    <3>3. CASE t # <<>>
      <4>1. PICK j \in 1..n - 1 : j \in I /\ t[1] = s[j] /\ \A i \in 1..j - 1 : i \notin I
        BY <1>4, <3>3
      <4> QED BY <2>2, <2>4, <3>1, <3>3, <4>1
    <3> QED BY <3>2, <3>3
  <2> QED BY <2>3, <2>4
<1> HIDE DEF Good
<1> DEFINE T == {n \in 0..Len(s) : Good(n, kept[n])}
<1>5. 0 \in T
  BY <1>1, <1>2, <1>3
<1>i. ASSUME NEW n \in 1..Len(s), n - 1 \in T PROVE n \in T
  <2>1. n \in 0..Len(s) /\ Good(n - 1, kept[n - 1])
    BY <1>1, <1>i
  <2>2. Good(n, IF n \in I THEN Append(kept[n - 1], s[n]) ELSE kept[n - 1])
    BY <2>1, <1>4, Zenon
  <2> QED BY <2>1, <2>2, <1>2
<1> HIDE DEF T
<1>6. \A n \in 0..Len(s) : n \in T
  BY <1>1, <1>5, <1>i, Induction, Zenon
<1>7. Len(s) \in T
  BY <1>1, <1>6
<1> QED BY <1>2, <1>7 DEF Good, T
\* f says for each element of t its place among the first n of s: a place that the test keeps,
\* in the order of s, and every such place.
Places(f, t, n, s, I) ==
  /\ f \in [1..Len(t) -> 1..n]
  /\ \A i \in 1..Len(t) : f[i] \in I /\ t[i] = s[f[i]]
  /\ \A i, k \in 1..Len(t) : i < k => f[i] < f[k]
  /\ \A j \in 1..n : j \in I => \E i \in 1..Len(t) : f[i] = j

\* What is picked is all that the test keeps, in its order, each once.
LEMMA PickedWhole ==
  ASSUME NEW S, NEW s \in Seq(S), NEW I
  PROVE  \E f : Places(f, Picked(s, I), Len(s), s, I)
<1> DEFINE Good(n, t) == t \in Seq(S) /\ \E f : Places(f, t, n, s, I)
<1>1. Len(s) \in Nat /\ \A n \in 1..Len(s) : s[n] \in S
  OBVIOUS
<1>p. PICK kept \in [0..Len(s) -> Seq(S)] : PicksOneByOne(kept, s, I)
  BY Picking, Zenon
<1>2. /\ kept[0] = <<>>
      /\ \A n \in 1..Len(s) : kept[n] = IF n \in I THEN Append(kept[n - 1], s[n]) ELSE kept[n - 1]
      /\ Picked(s, I) = kept[Len(s)]
  BY <1>p, Zenon DEF PicksOneByOne
<1>3. Good(0, <<>>)
  <2>1. Places([i \in 1..0 |-> 0], <<>>, 0, s, I)
    BY DEF Places
  <2> QED BY <2>1
<1>4. ASSUME NEW n \in 1..Len(s), NEW t, Good(n - 1, t)
      PROVE  Good(n, IF n \in I THEN Append(t, s[n]) ELSE t)
  <2>1. t \in Seq(S) /\ Len(t) \in Nat
    BY <1>4
  <2>2. PICK f : Places(f, t, n - 1, s, I)
    BY <1>4
  <2>3. /\ f \in [1..Len(t) -> 1..n - 1]
        /\ \A i \in 1..Len(t) : f[i] \in I /\ t[i] = s[f[i]] /\ f[i] \in 1..n - 1
        /\ \A i, k \in 1..Len(t) : i < k => f[i] < f[k]
        /\ \A j \in 1..n - 1 : j \in I => \E i \in 1..Len(t) : f[i] = j
    BY <2>2 DEF Places
  <2>4. /\ n \in Nat \ {0} /\ 1..n - 1 \subseteq 1..n
        /\ \A j \in 1..n : j \in 1..n - 1 \/ j = n
        /\ \A j \in 1..n - 1 : j < n
    BY <1>1
  <2>5. CASE n \notin I
    <3>1. Places(f, t, n, s, I)
      BY <2>3, <2>4, <2>5 DEF Places
    <3> QED BY <2>1, <2>5, <3>1
  <2>6. CASE n \in I
    <3> PICK u : u = Append(t, s[n])
      OBVIOUS
    <3> PICK l : l = Len(t)
      OBVIOUS
    <3>1. /\ u \in Seq(S) /\ Len(u) = l + 1 /\ u[l + 1] = s[n] /\ l \in Nat
          /\ \A i \in 1..l : u[i] = t[i]
      BY <1>1, <2>1
    <3>2. \A i \in 1..l + 1 : i \in 1..l \/ i = l + 1
      BY <3>1
    <3> DEFINE g == [i \in 1..l + 1 |-> IF i = l + 1 THEN n ELSE f[i]]
    <3>3. /\ g[l + 1] = n /\ \A i \in 1..l : g[i] = f[i]
          /\ l + 1 \in 1..l + 1 /\ \A i \in 1..l : i \in 1..l + 1
      BY <3>1
    <3>4. g \in [1..l + 1 -> 1..n]
      <4>1. \A i \in 1..l + 1 : (IF i = l + 1 THEN n ELSE f[i]) \in 1..n
        BY <2>3, <2>4, <3>2
      <4> QED BY <4>1
    <3> HIDE DEF g
    <3>5. \A i \in 1..l + 1 : g[i] \in I /\ u[i] = s[g[i]]
      BY <2>3, <2>6, <3>1, <3>2, <3>3
    <3>6. \A i, k \in 1..l + 1 : i < k => g[i] < g[k]
      <4> SUFFICES ASSUME NEW i \in 1..l + 1, NEW k \in 1..l + 1, i < k PROVE g[i] < g[k]
        OBVIOUS
      <4>1. i \in 1..l
        BY <3>1, <3>2
      <4>2. CASE k = l + 1
        BY <2>3, <2>4, <3>3, <4>1, <4>2
      <4>3. CASE k \in 1..l
        BY <2>3, <3>3, <4>1, <4>3
      <4> QED BY <3>2, <4>2, <4>3
    <3>7. ASSUME NEW j \in 1..n, j \in I PROVE \E i \in 1..l + 1 : g[i] = j
      <4>1. CASE j = n
        BY <3>3, <4>1
      <4>2. CASE j \in 1..n - 1
        <5>1. PICK i \in 1..l : f[i] = j
          BY <2>3, <3>7, <4>2
        <5> QED BY <3>3, <5>1
      <4> QED BY <2>4, <4>1, <4>2
    <3>8. Places(g, u, n, s, I)
      BY <3>1, <3>4, <3>5, <3>6, <3>7 DEF Places
    <3> QED BY <2>6, <3>1, <3>8
  <2> QED BY <2>5, <2>6
<1> HIDE DEF Good
<1> DEFINE T == {n \in 0..Len(s) : Good(n, kept[n])}
<1>5. 0 \in T
  BY <1>1, <1>2, <1>3
<1>i. ASSUME NEW n \in 1..Len(s), n - 1 \in T PROVE n \in T
  <2>1. n \in 0..Len(s) /\ Good(n - 1, kept[n - 1])
    BY <1>1, <1>i
  <2>2. Good(n, IF n \in I THEN Append(kept[n - 1], s[n]) ELSE kept[n - 1])
    BY <2>1, <1>4, Zenon
  <2> QED BY <2>1, <2>2, <1>2
<1> HIDE DEF T
<1>6. \A n \in 0..Len(s) : n \in T
  BY <1>1, <1>5, <1>i, Induction, Zenon
<1>7. Len(s) \in T
  BY <1>1, <1>6
<1> QED BY <1>2, <1>7 DEF Good, T
=============================================================================
