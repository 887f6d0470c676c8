---------------------------- MODULE RecursionProofs ----------------------------
(***************************************************************************)
(* Induction and recursion for proofs about data.  The theorems of         *)
(* NaturalsInduction take the induction's property, or the recursion's     *)
(* step, as an operator, which no first-order prover can be given; here    *)
(* the property is a set of numbers and the step a function.  From them,   *)
(* what FlattenSeq returns, for any sequences.                             *)
(***************************************************************************)
EXTENDS Integers, Sequences, SequencesExt, SequenceTheorems, WellFoundedInduction, TLAPS

Less == {ss \in Nat \X Nat : ss[1] < ss[2]}

LEMMA LeastNumber ==
    ASSUME NEW T \in SUBSET Nat, T # {}
    PROVE  \E m \in T : \A k \in T : m <= k
<1>1. IsWellFoundedOn(Less, Nat)
  BY NatLessThanWellFounded DEF OpToRel, Less
<1>2. \E m \in T : \A k \in T : ~(<<k, m>> \in Less)
  BY <1>1, WFMin
<1>3. PICK m \in T : \A k \in T : ~(<<k, m>> \in Less)
  BY <1>2
<1>4. ASSUME NEW k \in T PROVE m <= k
  <2>1. k \in Nat /\ m \in Nat /\ <<k, m>> \in Nat \X Nat /\ ~(<<k, m>> \in Less)
    BY <1>3
  <2>2. ~(k < m)
    BY <2>1 DEF Less
  <2> QED BY <2>1, <2>2
<1> QED BY <1>4

\* Induction: S is the set of numbers that have the property.
THEOREM InductionOnNat ==
    ASSUME NEW S, 0 \in S, \A n \in Nat : n \in S => n + 1 \in S
    PROVE  Nat \subseteq S
<1> DEFINE T == Nat \ S
<1>1. SUFFICES ASSUME T # {} PROVE FALSE
  OBVIOUS
<1>2. PICK m \in T : \A k \in T : m <= k
  BY <1>1, LeastNumber
<1>3. m - 1 \in Nat /\ m - 1 \notin T /\ (m - 1) + 1 = m
  BY <1>2
<1> QED BY <1>3

\* The same up to a number.
COROLLARY InductionUpTo ==
    ASSUME NEW n \in Nat, NEW S, 0 \in S, \A i \in 1..n : i - 1 \in S => i \in S
    PROVE  0..n \subseteq S
<1> DEFINE T == {i \in Nat : i <= n => i \in S}
<1>1. 0 \in T
  OBVIOUS
<1>2. ASSUME NEW i \in Nat, i \in T PROVE i + 1 \in T
  <2>1. i + 1 \in Nat
    OBVIOUS
  <2>2. ASSUME i + 1 <= n PROVE i + 1 \in S
    <3>1. i + 1 \in 1..n /\ (i + 1) - 1 = i /\ i \in S
      BY <1>2, <2>2
    <3> QED BY <3>1
  <2> QED BY <2>1, <2>2
<1>3. Nat \subseteq T
  <2> HIDE DEF T
  <2> QED BY <1>1, <1>2, InductionOnNat
<1> QED BY <1>3

\* f is the recursion from base by step up to n, with values in A.
Recurses(f, A, base, step, n) ==
    /\ f \in [0..n -> A]
    /\ f[0] = base /\ \A i \in 1..n : f[i] = step[i][f[i - 1]]

\* There is one.
THEOREM RecursionExists ==
    ASSUME NEW A, NEW base \in A, NEW step \in [Nat -> [A -> A]], NEW n \in Nat
    PROVE  \E f : Recurses(f, A, base, step, n)
<1> DEFINE S == {k \in Nat : \E f : Recurses(f, A, base, step, k)}
<1>1. 0 \in S
  <2>1. Recurses([i \in 0..0 |-> base], A, base, step, 0)
    BY DEF Recurses
  <2> QED BY <2>1
<1>2. ASSUME NEW k \in Nat, k \in S PROVE k + 1 \in S
  <2>1. PICK f : Recurses(f, A, base, step, k)
    BY <1>2
  <2> DEFINE g == [i \in 0..(k + 1) |-> IF i = k + 1 THEN step[k + 1][f[k]] ELSE f[i]]
  <2>2. /\ g[k + 1] = step[k + 1][f[k]] /\ \A i \in 0..k : g[i] = f[i]
        /\ step[k + 1][f[k]] \in A
    BY <2>1 DEF Recurses
  <2>3. g \in [0..(k + 1) -> A]
    BY <2>1, <2>2 DEF Recurses
  <2>4. g[0] = base
    BY <2>1, <2>2 DEF Recurses
  <2>5. ASSUME NEW i \in 1..(k + 1) PROVE g[i] = step[i][g[i - 1]]
    <3>1. CASE i = k + 1
      BY <2>2, <3>1
    <3>2. CASE i \in 1..k
      BY <2>1, <2>2, <3>2 DEF Recurses
    <3> QED BY <3>1, <3>2
  <2>6. Recurses(g, A, base, step, k + 1)
    <3> HIDE DEF g
    <3> QED BY <2>3, <2>4, <2>5 DEF Recurses
  <2>7. k + 1 \in Nat
    OBVIOUS
  <2> QED BY <2>6, <2>7
<1>3. n \in S
  <2> HIDE DEF S
  <2> QED BY <1>1, <1>2, InductionOnNat
<1> QED BY <1>3

-----------------------------------------------------------------------------
(* Sequences. *)

\* Induction over sequences: P is the set of those that have the property.
COROLLARY InductionOnSeq ==
    ASSUME NEW X, NEW P, <<>> \in P,
           \A s \in Seq(X), e \in X : s \in P => Append(s, e) \in P
    PROVE  Seq(X) \subseteq P
<1> DEFINE S == {n \in Nat : \A s \in Seq(X) : Len(s) = n => s \in P}
<1>1. 0 \in S
  <2>1. \A s \in Seq(X) : Len(s) = 0 => s = <<>>
    OBVIOUS
  <2> QED BY <2>1
<1>2. ASSUME NEW n \in Nat, n \in S PROVE n + 1 \in S
  <2>1. ASSUME NEW s \in Seq(X), Len(s) = n + 1 PROVE s \in P
    <3>1. s # <<>>
      BY <2>1
    <3>2. PICK t \in Seq(X), e \in X : s = Append(t, e)
      BY <3>1, SequenceEmptyOrAppend
    <3>3. Len(t) = n
      BY <2>1, <3>2
    <3>4. t \in P
      BY <1>2, <3>3
    <3> QED BY <3>2, <3>4
  <2> QED BY <2>1
<1>3. Nat \subseteq S
  <2> HIDE DEF S
  <2> QED BY <1>1, <1>2, InductionOnNat
<1>4. ASSUME NEW s \in Seq(X) PROVE s \in P
  <2>1. Len(s) \in Nat
    OBVIOUS
  <2> QED BY <1>3, <2>1
<1> QED BY <1>4

LEMMA ConcatIs ==
    ASSUME NEW T, NEW s \in Seq(T), NEW t \in Seq(T)
    PROVE  /\ s \o t \in Seq(T) /\ Len(s) \in Nat /\ Len(t) \in Nat
           /\ Len(s \o t) = Len(s) + Len(t) /\ DOMAIN (s \o t) = 1..(Len(s) + Len(t))
           /\ \A i \in 1..Len(s) : (s \o t)[i] = s[i]
           /\ \A i \in 1..Len(t) : (s \o t)[Len(s) + i] = t[i]
OBVIOUS

\* The parts that FlattenSeq has put together, for each number of them.
Flattened(parts) ==
    LET flatten[i \in 1..Len(parts)] ==
            IF i = 1 THEN parts[i] ELSE flatten[i - 1] \o parts[i]
    IN  flatten

LEMMA FlattenedIs ==
    ASSUME NEW X, NEW parts \in Seq(Seq(X)), parts # <<>>
    PROVE  /\ FlattenSeq(parts) = Flattened(parts)[Len(parts)]
           /\ Flattened(parts)[1] = parts[1]
           /\ \A i \in 2..Len(parts) : Flattened(parts)[i] = Flattened(parts)[i - 1] \o parts[i]
           /\ \A i \in 1..Len(parts) : Flattened(parts)[i] \in Seq(X)
<1> DEFINE n == Len(parts)
           A == Seq(X)
           step == [i \in Nat |-> [sofar \in A |-> IF i \in 1..n THEN sofar \o parts[i] ELSE <<>>]]
           Is(f) == f = [i \in 1..n |-> IF i = 1 THEN parts[i] ELSE f[i - 1] \o parts[i]]
           F == Flattened(parts)
<1>0. n \in Nat \ {0}
  OBVIOUS
<1>1. <<>> \in A /\ \A i \in 1..n : parts[i] \in A /\ \A s \in A : s \o parts[i] \in A
  OBVIOUS
<1>2. step \in [Nat -> [A -> A]]
  BY <1>1
<1>3. PICK f : Recurses(f, A, <<>>, step, n)
  <2> HIDE DEF A, step, n
  <2> QED BY <1>0, <1>1, <1>2, RecursionExists
<1>4. ASSUME NEW i \in 1..n PROVE f[i] = f[i - 1] \o parts[i] /\ f[i - 1] \in A
  <2>1. i \in Nat /\ i - 1 \in 0..n
    BY <1>0
  <2>2. f[i - 1] \in A /\ f[i] = step[i][f[i - 1]]
    BY <1>3, <2>1 DEF Recurses
  <2> HIDE DEF A
  <2> QED BY <2>1, <2>2
<1>5. f[1] = parts[1]
  <2>1. 1 \in 1..n /\ 1 - 1 = 0 /\ f[0] = <<>>
    BY <1>0, <1>3 DEF Recurses
  <2>2. f[1] = <<>> \o parts[1]
    BY <1>4, <2>1
  <2>3. \A s \in A : <<>> \o s = s
    OBVIOUS
  <2>4. parts[1] \in A
    BY <1>1, <2>1
  <2> HIDE DEF A
  <2> QED BY <2>2, <2>3, <2>4
<1>6. Is([i \in 1..n |-> f[i]])
  <2> DEFINE g == [i \in 1..n |-> f[i]]
  <2>1. ASSUME NEW i \in 1..n PROVE g[i] = IF i = 1 THEN parts[i] ELSE g[i - 1] \o parts[i]
    <3>1. i = 1 \/ i - 1 \in 1..n
      BY <1>0
    <3> QED BY <1>4, <1>5, <3>1
  <2> QED BY <2>1
<1>7. Is(CHOOSE g : Is(g))
  <2> HIDE DEF Is
  <2> QED BY <1>6, Zenon
<1>8. F = CHOOSE g : Is(g)
  BY DEF Flattened
<1>9. Is(F)
  BY <1>7, <1>8
<1>10. FlattenSeq(parts) = F[n]
  BY <1>0 DEF FlattenSeq, Flattened
<1> HIDE DEF F
<1>11. F[1] = parts[1] /\ \A i \in 2..n : F[i] = F[i - 1] \o parts[i]
  <2>1. F = [i \in 1..n |-> IF i = 1 THEN parts[i] ELSE F[i - 1] \o parts[i]]
    BY <1>9
  <2>2. \A i \in 1..n : F[i] = IF i = 1 THEN parts[i] ELSE F[i - 1] \o parts[i]
    BY <2>1
  <2>3. 1 \in 1..n /\ \A i \in 2..n : i \in 1..n /\ i # 1
    BY <1>0
  <2> HIDE DEF n
  <2> QED BY <2>2, <2>3
<1>12. ASSUME NEW i \in 1..n PROVE F[i] \in Seq(X)
  <2> DEFINE S == {0} \cup {j \in 1..n : F[j] \in A}
  <2>1. 0..n \subseteq S
    <3>1. ASSUME NEW j \in 1..n, j - 1 \in S PROVE j \in S
      <4>1. CASE j = 1
        BY <1>1, <1>11, <4>1
      <4>2. CASE j \in 2..n
        <5>1. F[j - 1] \in A
          BY <3>1, <4>2
        <5> QED BY <1>1, <1>11, <4>2, <5>1
      <4> QED BY <1>0, <4>1, <4>2
    <3> HIDE DEF n
    <3>2. 0 \in S /\ n \in Nat
      BY <1>0
    <3> HIDE DEF S
    <3> QED BY <3>1, <3>2, InductionUpTo
  <2>2. i \in S
    BY <1>0, <2>1
  <2> QED BY <2>2
<1> QED BY <1>10, <1>11, <1>12 DEF F

\* FlattenSeq, one part at a time.
LEMMA FlattenAppend ==
    ASSUME NEW X, NEW parts \in Seq(Seq(X)), NEW s \in Seq(X)
    PROVE  /\ FlattenSeq(<<>>) = <<>>
           /\ FlattenSeq(parts) \in Seq(X)
           /\ FlattenSeq(Append(parts, s)) = FlattenSeq(parts) \o s
<1> DEFINE A == Seq(X)
           more == Append(parts, s)
           n == Len(parts)
           F == Flattened(parts)
           G == Flattened(more)
<1>0. FlattenSeq(<<>>) = <<>>
  <2>1. Len(<<>>) = 0
    OBVIOUS
  <2> QED BY <2>1, Zenon DEF FlattenSeq
<1>1. /\ n \in Nat /\ more \in Seq(A) /\ more # <<>> /\ Len(more) = n + 1
      /\ more[n + 1] = s /\ \A i \in 1..n : more[i] = parts[i]
      /\ s \in A /\ parts \in Seq(A)
  <2>1. parts \in Seq(A) /\ s \in A
    OBVIOUS
  <2> HIDE DEF A
  <2> QED BY <2>1, AppendProperties
<1>2. /\ FlattenSeq(more) = G[n + 1]
      /\ G[1] = more[1]
      /\ \A i \in 2..(n + 1) : G[i] = G[i - 1] \o more[i]
  <2> HIDE DEF more, n
  <2>1. more \in Seq(Seq(X)) /\ more # <<>>
    BY <1>1
  <2> QED BY <1>1, <2>1, FlattenedIs
<1>3. CASE parts = <<>>
  <2>1. n = 0 /\ FlattenSeq(parts) = <<>>
    BY <1>0, <1>3
  <2>2. FlattenSeq(more) = s
    <3> HIDE DEF G, more, n
    <3> QED BY <1>1, <1>2, <2>1
  <2>3. <<>> \o s = s /\ <<>> \in Seq(X)
    BY ConcatEmptySeq
  <2> QED BY <1>0, <2>1, <2>2, <2>3
<1>4. CASE parts # <<>>
  <2>1. /\ FlattenSeq(parts) = F[n] /\ F[1] = parts[1]
        /\ \A i \in 2..n : F[i] = F[i - 1] \o parts[i]
        /\ \A i \in 1..n : F[i] \in Seq(X)
    BY <1>4, FlattenedIs
  <2>2. n \in 1..n /\ n >= 1
    BY <1>1, <1>4
  <2> DEFINE S == {0} \cup {i \in 1..n : G[i] = F[i]}
  <2> HIDE DEF F, G, more, n, A
  <2>3. 0..n \subseteq S
    <3>1. ASSUME NEW i \in 1..n, i - 1 \in S PROVE i \in S
      <4>1. CASE i = 1
        BY <1>1, <1>2, <2>1, <2>2, <4>1
      <4>2. CASE i # 1
        <5>1. i \in 2..n /\ i \in 2..(n + 1) /\ G[i - 1] = F[i - 1] /\ more[i] = parts[i]
          BY <1>1, <3>1, <4>2
        <5> QED BY <1>2, <2>1, <5>1
      <4> QED BY <4>1, <4>2
    <3>2. 0 \in S
      OBVIOUS
    <3> HIDE DEF S
    <3> QED BY <1>1, <3>1, <3>2, InductionUpTo
  <2>4. G[n] = F[n]
    BY <2>2, <2>3
  <2>5. G[n + 1] = G[n] \o s
    <3>1. n + 1 \in 2..(n + 1) /\ (n + 1) - 1 = n
      BY <1>1, <2>2
    <3> QED BY <1>1, <1>2, <3>1
  <2> QED BY <1>0, <1>2, <2>1, <2>2, <2>4, <2>5 DEF more
<1> QED BY <1>0, <1>3, <1>4

LEMMA FlattenType ==
    ASSUME NEW X, NEW parts \in Seq(Seq(X))
    PROVE  FlattenSeq(parts) \in Seq(X)
<1>1. <<>> \in Seq(X)
  OBVIOUS
<1> QED BY <1>1, FlattenAppend

\* Each element replaced by a sequence of others.
Expanded(f, s) == FlattenSeq([i \in DOMAIN s |-> f[s[i]]])

Expands(f, X, Y) == f \in [X -> Seq(Y)]

LEMMA ExpandedEmpty ==
    ASSUME NEW f
    PROVE  Expanded(f, <<>>) = <<>>
<1>1. [i \in DOMAIN <<>> |-> f[<<>>[i]]] = <<>>
  OBVIOUS
<1>2. Len(<<>>) = 0
  OBVIOUS
<1> QED BY <1>1, <1>2, Zenon DEF Expanded, FlattenSeq

LEMMA ExpandedAppend ==
    ASSUME NEW X, NEW Y, NEW f, Expands(f, X, Y), NEW s \in Seq(X), NEW e \in X
    PROVE  /\ Expanded(f, <<>>) = <<>>
           /\ Expanded(f, s) \in Seq(Y)
           /\ Expanded(f, Append(s, e)) = Expanded(f, s) \o f[e]
<1> DEFINE A == Seq(Y)
           m(t) == [i \in DOMAIN t |-> f[t[i]]]
<1>1. m(s) \in Seq(A) /\ f[e] \in A /\ m(<<>>) = <<>>
  <2> HIDE DEF A
  <2>1. f \in [X -> A]
    BY DEF A, Expands
  <2>2. Len(s) \in Nat /\ DOMAIN s = 1..Len(s) /\ \A i \in 1..Len(s) : s[i] \in X
    OBVIOUS
  <2>3. m(s) \in [1..Len(s) -> A]
    BY <2>1, <2>2
  <2>4. m(s) \in Seq(A)
    BY <2>2, <2>3
  <2>5. m(<<>>) \in [1..0 -> A]
    OBVIOUS
  <2>6. m(<<>>) \in Seq(A) /\ Len(m(<<>>)) = 0
    BY <2>5
  <2> QED BY <2>1, <2>4, <2>6
<1>2. m(Append(s, e)) = Append(m(s), f[e])
  <2> HIDE DEF A
  <2>1. /\ Append(s, e) \in Seq(X) /\ Len(Append(s, e)) = Len(s) + 1 /\ Len(s) \in Nat
        /\ Append(s, e)[Len(s) + 1] = e /\ \A i \in 1..Len(s) : Append(s, e)[i] = s[i]
    BY AppendProperties
  <2> DEFINE t == Append(s, e)
             u == Append(m(s), f[e])
  <2>2. /\ m(s) \in Seq(A) /\ Len(m(s)) = Len(s) /\ f[e] \in A
    BY <1>1
  <2>3. /\ u \in Seq(A) /\ Len(u) = Len(s) + 1 /\ u[Len(s) + 1] = f[e]
        /\ \A i \in 1..Len(s) : u[i] = f[s[i]]
    <3>1. \A i \in 1..Len(s) : m(s)[i] = f[s[i]]
      OBVIOUS
    <3> DEFINE v == m(s)
               w == f[e]
    <3>2. v \in Seq(A) /\ w \in A /\ Len(v) = Len(s)
      BY <2>2
    <3> HIDE DEF v, w
    <3> HIDE DEF m
    <3>3. /\ Append(v, w) \in Seq(A) /\ Len(Append(v, w)) = Len(v) + 1
          /\ Append(v, w)[Len(v) + 1] = w /\ \A i \in 1..Len(v) : Append(v, w)[i] = v[i]
      BY <3>2
    <3> QED BY <3>1, <3>2, <3>3 DEF v, w
  <2> HIDE DEF t, u
  <2>4. DOMAIN t = 1..(Len(s) + 1) /\ DOMAIN u = 1..(Len(s) + 1)
    <3>1. t \in Seq(X) /\ Len(t) = Len(s) + 1
      BY <2>1 DEF t
    <3> QED BY <2>3, <3>1
  <2>5. \A i \in 1..(Len(s) + 1) : f[t[i]] = u[i]
    <3> SUFFICES ASSUME NEW i \in 1..(Len(s) + 1) PROVE f[t[i]] = u[i]
      OBVIOUS
    <3>1. i \in 1..Len(s) \/ i = Len(s) + 1
      BY <2>1
    <3> QED BY <2>1, <2>3, <3>1 DEF t
  <2>6. m(t) = [i \in 1..(Len(s) + 1) |-> u[i]]
    BY <2>4, <2>5
  <2>7. u = [i \in 1..(Len(s) + 1) |-> u[i]]
    BY <2>3, <2>4
  <2> QED BY <2>6, <2>7 DEF t, u
<1>3. /\ Expanded(f, <<>>) = FlattenSeq(m(<<>>)) /\ Expanded(f, s) = FlattenSeq(m(s))
      /\ Expanded(f, Append(s, e)) = FlattenSeq(m(Append(s, e)))
  BY DEF Expanded
<1> HIDE DEF m
<1> QED BY <1>1, <1>2, <1>3, FlattenAppend

LEMMA ExpandedType ==
    ASSUME NEW X, NEW Y, NEW f, Expands(f, X, Y), NEW s \in Seq(X)
    PROVE  Expanded(f, s) \in Seq(Y)
<1>1. CASE X = {}
  <2>1. s = <<>> /\ <<>> \in Seq(Y)
    BY <1>1
  <2> QED BY <2>1, ExpandedEmpty, Zenon
<1>2. CASE X # {}
  <2>1. PICK e \in X : TRUE
    BY <1>2
  <2> QED BY <2>1, ExpandedAppend
<1> QED BY <1>1, <1>2

\* Expanding goes along with putting sequences together...
LEMMA ExpandedConcat ==
    ASSUME NEW X, NEW Y, NEW f, Expands(f, X, Y), NEW s \in Seq(X), NEW t \in Seq(X)
    PROVE  Expanded(f, s \o t) = Expanded(f, s) \o Expanded(f, t)
<1> DEFINE P == {u \in Seq(X) : Expanded(f, s \o u) = Expanded(f, s) \o Expanded(f, u)}
<1>1. <<>> \in P
  <2>1. /\ s \o <<>> = s /\ <<>> \in Seq(X)
    BY ConcatEmptySeq
  <2>2. Expanded(f, s) \o <<>> = Expanded(f, s)
    <3>1. Expanded(f, s) \in Seq(Y)
      BY ExpandedType
    <3> QED BY <3>1, ConcatEmptySeq
  <2>3. Expanded(f, <<>>) = <<>>
    BY ExpandedEmpty
  <2> QED BY <2>1, <2>2, <2>3
<1>2. ASSUME NEW u \in Seq(X), NEW e \in X, u \in P PROVE Append(u, e) \in P
  <2>1. s \o Append(u, e) = Append(s \o u, e) /\ s \o u \in Seq(X) /\ Append(u, e) \in Seq(X)
    OBVIOUS
  <2>2. /\ Expanded(f, Append(s \o u, e)) = Expanded(f, s \o u) \o f[e]
        /\ Expanded(f, Append(u, e)) = Expanded(f, u) \o f[e]
        /\ Expanded(f, s) \in Seq(Y) /\ Expanded(f, u) \in Seq(Y) /\ f[e] \in Seq(Y)
    <3>1. Expanded(f, s) \in Seq(Y)
      BY ExpandedAppend
    <3>2. Expanded(f, Append(u, e)) = Expanded(f, u) \o f[e] /\ Expanded(f, u) \in Seq(Y)
      BY ExpandedAppend
    <3> DEFINE v == s \o u
    <3>3. v \in Seq(X)
      BY <2>1
    <3> HIDE DEF v
    <3>4. Expanded(f, Append(v, e)) = Expanded(f, v) \o f[e]
      BY <3>3, ExpandedAppend
    <3>5. f[e] \in Seq(Y)
      BY DEF Expands
    <3> QED BY <3>1, <3>2, <3>4, <3>5 DEF v
  <2>3. Expanded(f, s \o u) = Expanded(f, s) \o Expanded(f, u)
    BY <1>2
  <2>4. (Expanded(f, s) \o Expanded(f, u)) \o f[e] = Expanded(f, s) \o (Expanded(f, u) \o f[e])
    <3> DEFINE x == Expanded(f, s)
               y == Expanded(f, u)
               z == f[e]
    <3>1. x \in Seq(Y) /\ y \in Seq(Y) /\ z \in Seq(Y)
      BY <2>2
    <3> HIDE DEF x, y, z
    <3>2. (x \o y) \o z = x \o (y \o z)
      BY <3>1, ConcatAssociative
    <3> QED BY <3>2 DEF x, y, z
  <2> QED BY <2>1, <2>2, <2>3, <2>4
<1>3. Seq(X) \subseteq P
  <2> HIDE DEF P
  <2> QED BY <1>1, <1>2, InductionOnSeq
<1> QED BY <1>3

\* ...and leaves nothing of what expands to nothing, everything of what
\* expands to itself.
LEMMA ExpandedAlike ==
    ASSUME NEW X, NEW Y, NEW f, Expands(f, X, Y), NEW Z \in SUBSET X, NEW s \in Seq(Z)
    PROVE  /\ (\A x \in Z : f[x] = <<>>) => Expanded(f, s) = <<>>
           /\ (\A x \in Z : f[x] = <<x>>) => Expanded(f, s) = s
<1> DEFINE Is(u) == /\ (\A x \in Z : f[x] = <<>>) => Expanded(f, u) = <<>>
                    /\ (\A x \in Z : f[x] = <<x>>) => Expanded(f, u) = u
           P == {u \in Seq(Z) : Is(u)}
<1>1. <<>> \in P
  <2>1. Expanded(f, <<>>) = <<>>
    BY ExpandedEmpty
  <2> QED BY <2>1
<1>2. ASSUME NEW u \in Seq(Z), NEW e \in Z, u \in P PROVE Append(u, e) \in P
  <2>1. u \in Seq(X) /\ e \in X /\ Append(u, e) \in Seq(Z) /\ Append(u, e) = u \o <<e>>
    <3>1. u \in Seq(X) /\ e \in X
      OBVIOUS
    <3>2. Append(u, e) \in Seq(Z)
      OBVIOUS
    <3>3. Append(u, e) = u \o <<e>>
      BY AppendIsConcat
    <3> QED BY <3>1, <3>2, <3>3
  <2>2. Expanded(f, Append(u, e)) = Expanded(f, u) \o f[e] /\ Expanded(f, u) \in Seq(Y)
    <3>1. u \in Seq(X) /\ e \in X
      BY <2>1
    <3> HIDE DEF Is, P
    <3> QED BY <3>1, ExpandedAppend
  <2>3. <<>> \o <<>> = <<>>
    OBVIOUS
  <2>4. Is(u)
    BY <1>2
  <2>5. Is(Append(u, e))
    BY <2>1, <2>2, <2>3, <2>4
  <2> HIDE DEF Is
  <2> QED BY <2>1, <2>5
<1>3. Seq(Z) \subseteq P
  <2> HIDE DEF P
  <2> QED BY <1>1, <1>2, InductionOnSeq
<1> QED BY <1>3

\* FlattenSeq goes along with putting sequences of parts together.
LEMMA FlattenConcat ==
    ASSUME NEW X, NEW s \in Seq(Seq(X)), NEW t \in Seq(Seq(X))
    PROVE  FlattenSeq(s \o t) = FlattenSeq(s) \o FlattenSeq(t)
<1> DEFINE A == Seq(X)
           f == [part \in A |-> part]
<1>1. Expands(f, A, X)
  BY DEF Expands
<1>2. ASSUME NEW u \in Seq(A) PROVE Expanded(f, u) = FlattenSeq(u)
  <2>1. \A i \in DOMAIN u : f[u[i]] = u[i]
    <3> HIDE DEF A
    <3> QED OBVIOUS
  <2>2. [i \in DOMAIN u |-> f[u[i]]] = [i \in DOMAIN u |-> u[i]]
    BY <2>1
  <2>3. [i \in DOMAIN u |-> u[i]] = u
    <3> HIDE DEF A
    <3> QED OBVIOUS
  <2> QED BY <2>2, <2>3 DEF Expanded
<1>3. s \in Seq(A) /\ t \in Seq(A)
  OBVIOUS
<1> HIDE DEF f, A
<1>4. s \o t \in Seq(A)
  BY <1>3
<1>5. \A x, y \in Seq(A) : Expanded(f, x \o y) = Expanded(f, x) \o Expanded(f, y)
  <2> SUFFICES ASSUME NEW x \in Seq(A), NEW y \in Seq(A)
               PROVE  Expanded(f, x \o y) = Expanded(f, x) \o Expanded(f, y)
    OBVIOUS
  <2> QED BY <1>1, ExpandedConcat
<1> QED BY <1>2, <1>3, <1>4, <1>5
================================================================================
