---------------------------- MODULE SetInduction ----------------------------
(***************************************************************************)
(* Induction over the naturals, stated for a set instead of a predicate,   *)
(* so that a proof can use it without instantiating an operator, and what  *)
(* follows from it for sums and for FlattenSeq, defined by recursion.      *)
(***************************************************************************)
EXTENDS Integers, FiniteSets, SequencesExt, FiniteSetTheorems, SequenceTheorems, TLAPS

(* A set that holds 0 and the successor of each of its elements holds      *)
(* every natural.  Otherwise, below an x it misses, adding 1 would be an   *)
(* injection into a smaller set.                                           *)
LEMMA NatSetInduction ==
  ASSUME NEW S, 0 \in S, \A n \in Nat : n \in S => n + 1 \in S
  PROVE  Nat \subseteq S
<1> SUFFICES ASSUME NEW x \in Nat, x \notin S PROVE FALSE
  OBVIOUS
<1> DEFINE D == {n \in 0 .. x : n \in S}
           next == [n \in D |-> n + 1]
<1>1. IsFiniteSet(D)
  BY FS_Interval, FS_Subset, D \subseteq 0 .. x, 0 \in Int, x \in Int
<1>2. 0 \in D
  OBVIOUS
<1>3. IsFiniteSet(D \ {0}) /\ Cardinality(D \ {0}) < Cardinality(D)
  <2>1. Cardinality(D) \in Nat
    BY <1>1, FS_CardinalityType
  <2>2. IsFiniteSet(D \ {0}) /\ Cardinality(D \ {0}) = Cardinality(D) - 1
    BY <1>1, <1>2, FS_RemoveElement
  <2> QED  BY <2>1, <2>2
<1>4. next \in [D -> D \ {0}]
  OBVIOUS
<1>5. PICK m, n \in D : m # n /\ next[m] = next[n]
  <2> HIDE DEF D, next
  <2> QED  BY <1>1, <1>3, <1>4, FS_PigeonHole
<1> QED  BY <1>5

(* Every set of naturals that is not empty has a least element.            *)
LEMMA LeastElement ==
  ASSUME NEW S \in SUBSET Nat, S # {}
  PROVE  \E i \in S : \A j \in S : i <= j
<1> SUFFICES ASSUME \A i \in S : \E j \in S : j < i PROVE FALSE
  OBVIOUS
<1> DEFINE Below == {n \in Nat : \A k \in 0 .. n : k \notin S}
<1>1. 0 \in Below
  OBVIOUS
<1>2. ASSUME NEW n \in Nat, n \in Below PROVE n + 1 \in Below
  BY <1>2
<1>3. Nat \subseteq Below
  <2> HIDE DEF Below
  <2> QED  BY <1>1, <1>2, NatSetInduction
<1>4. \A n \in Nat : n \notin S
  BY <1>3
<1> QED  BY <1>4

(* The recursive definition of the partial sums of a sequence of naturals  *)
(* is sound: a function satisfies it, ...                                  *)
LEMMA SumExists ==
  ASSUME NEW n \in Nat, NEW a \in [1 .. n -> Nat]
  PROVE  \E f : f = [i \in 0 .. n |-> IF i = 0 THEN 0 ELSE f[i - 1] + a[i]]
<1> DEFINE Sums(f, k) == f = [i \in 0 .. k |-> IF i = 0 THEN 0 ELSE f[i - 1] + a[i]]
           S == {k \in Nat : k <= n => \E f : Sums(f, k)}
<1>1. 0 \in S
  <2>1. Sums([i \in 0 .. 0 |-> 0], 0)
    OBVIOUS
  <2> QED  BY <2>1
<1>2. ASSUME NEW k \in Nat, k \in S, k + 1 <= n
      PROVE  \E f : Sums(f, k + 1)
  <2>1. PICK f : Sums(f, k)
    BY <1>2
  <2> DEFINE g == [i \in 0 .. k + 1 |-> IF i = k + 1 THEN f[k] + a[k + 1] ELSE f[i]]
  <2>2. ASSUME NEW i \in 0 .. k + 1
        PROVE  g[i] = IF i = 0 THEN 0 ELSE g[i - 1] + a[i]
    BY <2>1
  <2>3. Sums(g, k + 1)
    BY <2>2
  <2> QED  BY <2>3
<1>3. Nat \subseteq S
  <2>1. \A k \in Nat : k \in S => k + 1 \in S
    <3> SUFFICES ASSUME NEW k \in Nat, k \in S PROVE k + 1 \in S
      OBVIOUS
    <3>1. k + 1 <= n => \E f : Sums(f, k + 1)
      BY <1>2
    <3> HIDE DEF Sums
    <3> QED  BY <3>1
  <2> HIDE DEF S
  <2> QED  BY <1>1, <2>1, NatSetInduction
<1>4. \E f : Sums(f, n)
  <2> HIDE DEF Sums
  <2> QED  BY <1>3
<1> QED  BY <1>4

(* ... and a function that satisfies it has natural values.                *)
LEMMA SumType ==
  ASSUME NEW n \in Nat, NEW a \in [1 .. n -> Nat], NEW f,
         f = [i \in 0 .. n |-> IF i = 0 THEN 0 ELSE f[i - 1] + a[i]]
  PROVE  f \in [0 .. n -> Nat]
<1> DEFINE S == {k \in Nat : k <= n => f[k] \in Nat}
<1>1. 0 \in S
  OBVIOUS
<1>2. ASSUME NEW k \in Nat, k \in S PROVE k + 1 \in S
  <2>1. CASE k + 1 <= n
    <3>1. f[k + 1] = f[k] + a[k + 1]
      BY <2>1
    <3> QED  BY <3>1, <2>1, <1>2, SMTT(30)
  <2> QED  BY <2>1, <1>2
<1>3. Nat \subseteq S
  <2> HIDE DEF S
  <2> QED  BY <1>1, <1>2, NatSetInduction
<1>4. \A k \in 0 .. n : f[k] \in Nat
  <2> SUFFICES ASSUME NEW k \in 0 .. n PROVE f[k] \in Nat
    OBVIOUS
  <2>1. k \in S
    <3> HIDE DEF S
    <3> QED  BY <1>3
  <2> QED  BY <2>1
<1>5. f = [k \in 0 .. n |-> f[k]]
  OBVIOUS
<1> HIDE DEF S
<1> QED  BY <1>4, <1>5

(* The function that looks from i to step[i], down to one of the stops.    *)
Descends(f, n, stops, value, step) ==
  f = [i \in 0 .. n |-> IF i \in stops THEN value[i] ELSE f[step[i]]]

(* A recursive definition that looks only further down a line is sound.    *)
LEMMA DescentExists ==
  ASSUME NEW n \in Nat, NEW stops, NEW value, NEW step,
         \A i \in (0 .. n) \ stops : step[i] \in i + 1 .. n
  PROVE  \E f : Descends(f, n, stops, value, step)
<1> DEFINE Value(f, i) == IF i \in stops THEN value[i] ELSE f[step[i]]
           Down(f, k) == \A i \in 0 .. n : n - k <= i => f[i] = Value(f, i)
           S == {k \in Nat : k <= n => \E f : f = [i \in 0 .. n |-> f[i]] /\ Down(f, k)}
<1>1. ASSUME NEW f, f = [i \in 0 .. n |-> f[i]], NEW k \in 0 .. n,
             \A i \in 0 .. n : k < i => f[i] = Value(f, i)
      PROVE  \E g : g = [i \in 0 .. n |-> g[i]] /\ \A i \in 0 .. n : k <= i => g[i] = Value(g, i)
  <2> DEFINE g == [f EXCEPT ![k] = Value(f, k)]
  <2>1. g = [i \in 0 .. n |-> g[i]]
    <3> HIDE DEF Value
    <3>1. g = [i \in DOMAIN f |-> g[i]]
      OBVIOUS
    <3> HIDE DEF g
    <3> QED  BY <1>1, <3>1
  <2>2. g[k] = Value(f, k) /\ \A i \in 0 .. n : i # k => g[i] = f[i]
    <3> HIDE DEF Value
    <3> QED  BY <1>1
  <2> HIDE DEF g
  <2>3. ASSUME NEW i \in 0 .. n, k <= i PROVE Value(g, i) = Value(f, i)
    <3>1. i \notin stops => step[i] \in 0 .. n /\ step[i] # k
      BY <2>3
    <3> QED  BY <3>1, <2>2
  <2>4. ASSUME NEW i \in 0 .. n, k <= i PROVE g[i] = Value(g, i)
    <3>1. CASE i = k
      BY <2>2, <2>3, <3>1
    <3>2. CASE i # k
      <4>1. f[i] = Value(f, i)
        <5>1. k < i
          BY <2>4, <3>2
        <5> HIDE DEF Value
        <5> QED  BY <1>1, <5>1
      <4>2. g[i] = f[i] /\ Value(g, i) = Value(f, i)
        <5> HIDE DEF Value
        <5> QED  BY <3>2, <2>2, <2>3, <2>4
      <4> HIDE DEF Value
      <4> QED  BY <4>1, <4>2
    <3> QED  BY <3>1, <3>2
  <2> QED  BY <2>1, <2>4
<1> HIDE DEF Value
<1>2. 0 \in S
  <2> DEFINE f == [i \in 0 .. n |-> 0]
  <2>1. f = [i \in 0 .. n |-> f[i]] /\ \A i \in 0 .. n : n < i => f[i] = Value(f, i)
    OBVIOUS
  <2> HIDE DEF f
  <2>2. \E g : g = [i \in 0 .. n |-> g[i]] /\ \A i \in 0 .. n : n <= i => g[i] = Value(g, i)
    BY <1>1, <2>1
  <2> QED  BY <2>2
<1>3. ASSUME NEW k \in Nat, k \in S PROVE k + 1 \in S
  <2> SUFFICES ASSUME k + 1 <= n
               PROVE  \E f : f = [i \in 0 .. n |-> f[i]] /\ Down(f, k + 1)
    OBVIOUS
  <2>1. PICK f : f = [i \in 0 .. n |-> f[i]] /\ Down(f, k)
    BY <1>3
  <2>2. n - (k + 1) \in 0 .. n /\ \A i \in 0 .. n : n - (k + 1) < i => f[i] = Value(f, i)
    BY <2>1
  <2>3. \E g : g = [i \in 0 .. n |-> g[i]]
               /\ \A i \in 0 .. n : n - (k + 1) <= i => g[i] = Value(g, i)
    BY <1>1, <2>1, <2>2
  <2> QED  BY <2>3
<1>4. Nat \subseteq S
  <2> HIDE DEF S
  <2> QED  BY <1>2, <1>3, NatSetInduction
<1>5. PICK f : f = [i \in 0 .. n |-> f[i]] /\ Down(f, n)
  BY <1>4
<1>6. f = [i \in 0 .. n |-> Value(f, i)]
  BY <1>5
<1> QED  BY <1>6 DEF Value, Descends

-----------------------------------------------------------------------------
(* The function that FlattenSeq defines by recursion for sequences a.      *)
Flattens(f, a, n) == f = [i \in 1 .. n |-> IF i = 1 THEN a[i] ELSE f[i - 1] \o a[i]]

Joins(f, a, n) ==
  /\ f = [i \in 1 .. n |-> f[i]]
  /\ 1 <= n => f[1] = a[1]
  /\ \A j, k \in 1 .. n : k = j + 1 => f[k] = f[j] \o a[k]

LEMMA FlattensPointwise ==
  ASSUME NEW n \in Nat, NEW a, NEW f
  PROVE  Flattens(f, a, n) <=> Joins(f, a, n)
<1> DEFINE Step(i) == IF i = 1 THEN a[i] ELSE f[i - 1] \o a[i]
<1>1. ASSUME NEW j \in 1 .. n, NEW k \in 1 .. n, k = j + 1 PROVE Step(k) = f[j] \o a[k]
  <2>1. k # 1 /\ k - 1 = j
    BY <1>1
  <2> QED  BY <2>1
<1>2. Step(1) = a[1]
  OBVIOUS
<1>3. Flattens(f, a, n) <=> f = [i \in 1 .. n |-> Step(i)]
  BY DEF Flattens
<1> HIDE DEF Step
<1>4. (f = [i \in 1 .. n |-> Step(i)]) <=>
        f = [i \in 1 .. n |-> f[i]] /\ \A i \in 1 .. n : f[i] = Step(i)
  OBVIOUS
<1>5. (\A i \in 1 .. n : f[i] = Step(i)) <=>
        /\ 1 <= n => f[1] = Step(1)
        /\ \A j, k \in 1 .. n : k = j + 1 => f[k] = Step(k)
  <2>1. ASSUME NEW i \in 1 .. n PROVE i = 1 \/ \E j \in 1 .. n : i = j + 1
    <3>1. i = 1 \/ (i - 1 \in 1 .. n /\ i = (i - 1) + 1)
      OBVIOUS
    <3> QED  BY <3>1
  <2> QED  BY <2>1
<1>6. (\A j, k \in 1 .. n : k = j + 1 => f[k] = Step(k)) <=>
        \A j, k \in 1 .. n : k = j + 1 => f[k] = f[j] \o a[k]
  BY <1>1, ZenonT(30)
<1> QED  BY <1>2, <1>3, <1>4, <1>5, <1>6, Zenon DEF Joins

(* There is one for any sequences, ...                                     *)
LEMMA FlattenExists ==
  ASSUME NEW n \in Nat, NEW a
  PROVE  \E f : Flattens(f, a, n)
<1> DEFINE S == {k \in Nat : \E f : Flattens(f, a, k)}
<1>1. 0 \in S
  <2>1. Flattens([i \in 1 .. 0 |-> 0], a, 0)
    BY DEF Flattens
  <2> QED  BY <2>1
<1>2. ASSUME NEW k \in Nat, k \in S PROVE k + 1 \in S
  <2>1. PICK f : Flattens(f, a, k)
    BY <1>2
  <2>2. /\ 1 <= k => f[1] = a[1]
        /\ \A i, j \in 1 .. k : j = i + 1 => f[j] = f[i] \o a[j]
    <3>1. Joins(f, a, k)
      BY <2>1, FlattensPointwise
    <3> QED  BY <3>1, Zenon DEF Joins
  <2> DEFINE l == k + 1
             new == IF k = 0 THEN a[1] ELSE f[k] \o a[l]
             g == [i \in 1 .. l |-> IF i = l THEN new ELSE f[i]]
  <2>3. l \in 1 .. l /\ k \in 0 .. l /\ l # k /\ \A i \in 1 .. l : i = l \/ (i \in 1 .. k /\ i # l)
    OBVIOUS
  <2>4. g[l] = new /\ \A i \in 1 .. l : i # l => g[i] = f[i]
    <3> HIDE DEF new, l
    <3> QED  BY <2>3
  <2>5. g = [i \in 1 .. l |-> g[i]]
    OBVIOUS
  <2> HIDE DEF g
  <2>6. g[1] = a[1]
    <3>1. CASE k = 0
      BY <3>1, <2>4
    <3>2. CASE k # 0
      <4>1. 1 \in 1 .. l /\ 1 # l /\ 1 <= k
        BY <3>2
      <4> QED  BY <4>1, <2>2, <2>4
    <3> QED  BY <3>1, <3>2
  <2>7. ASSUME NEW i \in 1 .. l, NEW j \in 1 .. l, j = i + 1
        PROVE  g[j] = g[i] \o a[j]
    <3>1. CASE j = l
      <4>1. i = k /\ k # 0 /\ i # l
        BY <3>1, <2>7
      <4>2. g[i] = f[k] /\ g[j] = f[k] \o a[l]
        BY <4>1, <3>1, <2>4
      <4> QED  BY <4>2, <3>1
    <3>2. CASE j # l
      <4>1. i \in 1 .. k /\ j \in 1 .. k /\ i # l
        BY <3>2, <2>7
      <4>2. f[j] = f[i] \o a[j]
        BY <4>1, <2>2, <2>7
      <4>3. g[j] = f[j] /\ g[i] = f[i]
        BY <4>1, <3>2, <2>4
      <4> QED  BY <4>2, <4>3
    <3> QED  BY <3>1, <3>2
  <2>8. Joins(g, a, l)
    BY <2>5, <2>6, <2>7 DEF Joins
  <2>9. Flattens(g, a, k + 1)
    BY <2>8, l \in Nat, FlattensPointwise
  <2> QED  BY <2>9
<1>3. Nat \subseteq S
  <2> HIDE DEF S
  <2> QED  BY <1>1, <1>2, NatSetInduction
<1> QED  BY <1>3

(* ... and only one: what it makes of the first sequences does not depend  *)
(* on what follows them.                                                   *)
LEMMA FlattenUnique ==
  ASSUME NEW m \in Nat, NEW n \in Nat, m <= n, NEW a, NEW b, NEW f, NEW g,
         \A i \in 1 .. m : a[i] = b[i],
         Flattens(f, a, m), Flattens(g, b, n)
  PROVE  \A i \in 1 .. m : f[i] = g[i]
<1> DEFINE S == {k \in Nat : k \in 1 .. m => f[k] = g[k]}
<1>1. 0 \in S
  OBVIOUS
<1>2. /\ 1 <= m => f[1] = a[1]
      /\ \A j, k \in 1 .. m : k = j + 1 => f[k] = f[j] \o a[k]
  <2>1. Joins(f, a, m)
    BY FlattensPointwise
  <2> QED  BY <2>1, Zenon DEF Joins
<1>3. /\ 1 <= n => g[1] = b[1]
      /\ \A j, k \in 1 .. n : k = j + 1 => g[k] = g[j] \o b[k]
  <2>1. Joins(g, b, n)
    BY FlattensPointwise
  <2> QED  BY <2>1, Zenon DEF Joins
<1>4. ASSUME NEW k \in Nat, k \in S PROVE k + 1 \in S
  <2> SUFFICES ASSUME NEW l \in 1 .. m, l = k + 1 PROVE f[l] = g[l]
    OBVIOUS
  <2>1. CASE k = 0
    BY <2>1, <1>2, <1>3
  <2>2. CASE k # 0
    <3>1. k \in 1 .. m /\ k \in 1 .. n /\ l \in 1 .. n
      BY <2>2
    <3>2. f[k] = g[k] /\ a[l] = b[l]
      BY <3>1, <1>4
    <3>3. f[l] = f[k] \o a[l] /\ g[l] = g[k] \o b[l]
      BY <3>1, <1>2, <1>3
    <3> QED  BY <3>2, <3>3
  <2> QED  BY <2>1, <2>2
<1>5. Nat \subseteq S
  <2> HIDE DEF S
  <2> QED  BY <1>1, <1>4, NatSetInduction
<1>6. ASSUME NEW k \in 1 .. m PROVE f[k] = g[k]
  BY <1>5
<1> QED  BY <1>6

LEMMA FlattenEmpty == FlattenSeq(<<>>) = <<>>
BY DEF FlattenSeq

LEMMA FlattenIs ==
  ASSUME NEW ss, NEW n \in Nat \ {0}, Len(ss) = n, NEW f, Flattens(f, ss, n)
  PROVE  FlattenSeq(ss) = f[n]
<1> DEFINE h == CHOOSE h : Flattens(h, ss, n)
<1>1. FlattenSeq(ss) = h[n]
  BY DEF FlattenSeq, Flattens
<1>2. Flattens(h, ss, n)
  OBVIOUS
<1> HIDE DEF h
<1>3. \A i \in 1 .. n : h[i] = f[i]
  <2>1. n <= n /\ n \in Nat /\ \A i \in 1 .. n : ss[i] = ss[i]
    OBVIOUS
  <2> QED  BY <2>1, <1>2, FlattenUnique
<1> QED  BY <1>1, <1>3

(* Flattening one sequence more appends it.                                *)
LEMMA FlattenAppend ==
  ASSUME NEW T, NEW ss \in Seq(Seq(T)), NEW s \in Seq(T)
  PROVE  /\ FlattenSeq(ss) \in Seq(T)
         /\ FlattenSeq(Append(ss, s)) = FlattenSeq(ss) \o s
<1> DEFINE n == Len(ss)
           rr == Append(ss, s)
<1>1. n \in Nat /\ \A i \in 1 .. n : ss[i] \in Seq(T)
  BY LenProperties, ElementOfSeq
<1>2. Len(rr) = n + 1 /\ rr[n + 1] = s /\ \A i \in 1 .. n : rr[i] = ss[i]
  BY AppendProperties
<1> HIDE DEF n, rr
<1>3. PICK f : Flattens(f, ss, n)
  BY <1>1, FlattenExists
<1>4. PICK g : Flattens(g, rr, n + 1)
  BY <1>1, FlattenExists, n + 1 \in Nat
<1>5. FlattenSeq(rr) = g[n + 1]
  BY <1>1, <1>2, <1>4, n + 1 \in Nat \ {0}, FlattenIs
<1>6. \A i \in 1 .. n : f[i] = g[i]
  <2>1. n <= n + 1 /\ n + 1 \in Nat /\ \A i \in 1 .. n : ss[i] = rr[i]
    BY <1>1, <1>2
  <2> QED  BY <2>1, <1>1, <1>3, <1>4, FlattenUnique
<1>7. /\ 1 <= n => f[1] = ss[1]
      /\ \A j, k \in 1 .. n : k = j + 1 => f[k] = f[j] \o ss[k]
  <2>1. Joins(f, ss, n)
    BY <1>1, <1>3, FlattensPointwise
  <2> QED  BY <2>1, Zenon DEF Joins
<1> DEFINE l == n + 1
<1>8. /\ g[1] = rr[1]
      /\ \A j, k \in 1 .. l : k = j + 1 => g[k] = g[j] \o rr[k]
  <2>1. Joins(g, rr, l)
    BY <1>1, <1>4, n + 1 \in Nat, FlattensPointwise
  <2>2. 1 <= l
    BY <1>1
  <2> HIDE DEF l
  <2> QED  BY <2>1, <2>2, Zenon DEF Joins
<1>9. \A i \in 1 .. n : f[i] \in Seq(T)
  <2> DEFINE S == {k \in Nat : k \in 1 .. n => f[k] \in Seq(T)}
  <2>1. 0 \in S
    OBVIOUS
  <2>2. ASSUME NEW k \in Nat, k \in S PROVE k + 1 \in S
    <3> SUFFICES ASSUME NEW j \in 1 .. n, j = k + 1 PROVE f[j] \in Seq(T)
      OBVIOUS
    <3>1. CASE k = 0
      BY <3>1, <1>1, <1>7
    <3>2. CASE k # 0
      <4>1. k \in 1 .. n
        BY <3>2, <1>1
      <4>2. f[j] = f[k] \o ss[j]
        BY <4>1, <1>7
      <4>3. f[k] \in Seq(T) /\ ss[j] \in Seq(T)
        BY <4>1, <2>2, <1>1
      <4> QED  BY <4>2, <4>3, ConcatProperties
    <3> QED  BY <3>1, <3>2
  <2>3. Nat \subseteq S
    <3> HIDE DEF S
    <3> QED  BY <2>1, <2>2, NatSetInduction
  <2>4. ASSUME NEW k \in 1 .. n PROVE f[k] \in Seq(T)
    BY <2>3
  <2> QED  BY <2>4
<1>10. CASE n = 0
  <2>1. ss = <<>>
    BY <1>10, EmptySeq DEF n
  <2>2. g[n + 1] = s
    BY <1>10, <1>8, <1>2
  <2>3. <<>> \o s = s /\ <<>> \in Seq(T)
    BY ConcatEmptySeq, EmptySeq
  <2> QED  BY <2>1, <2>2, <2>3, <1>5, FlattenEmpty DEF rr
<1>11. CASE n # 0
  <2>1. n \in 1 .. n /\ n \in 1 .. l /\ l \in 1 .. l /\ n \in Nat \ {0}
    BY <1>1, <1>11
  <2>2. g[l] = g[n] \o s
    BY <2>1, <1>8, <1>2
  <2>3. f[n] = g[n] /\ f[n] \in Seq(T)
    BY <2>1, <1>6, <1>9
  <2>4. FlattenSeq(ss) = f[n]
    BY <2>1, <1>3, FlattenIs DEF n
  <2> QED  BY <2>2, <2>3, <2>4, <1>5 DEF rr
<1> QED  BY <1>10, <1>11

(* Two sequences joined.  As a relation, because an \o between terms whose *)
(* sort the SMT solver does not see is beyond it, and all \o beyond Zenon. *)
IsJoin(s, t, joined) == joined = s \o t

LEMMA JoinAssociative ==
  ASSUME NEW T, NEW x \in Seq(T), NEW y \in Seq(T), NEW z \in Seq(T), NEW xy, NEW yz, NEW xyz,
         IsJoin(x, y, xy), IsJoin(y, z, yz), IsJoin(x, yz, xyz)
  PROVE  IsJoin(xy, z, xyz)
<1>1. xy = x \o y /\ yz = y \o z /\ xyz = x \o yz
  BY DEF IsJoin
<1>2. xy \o z = x \o yz
  BY <1>1
<1> QED  BY <1>1, <1>2 DEF IsJoin

(* What is appended to the last of several sequences is appended to all.   *)
LastGrows(a, b, n, s) ==
  /\ IsJoin(a[n], s, b[n])
  /\ \A i \in 1 .. n : i # n => b[i] = a[i]

LEMMA FlattenLast ==
  ASSUME NEW T, NEW n \in Nat \ {0}, NEW s \in Seq(T),
         NEW a \in [1 .. n -> Seq(T)], NEW b \in [1 .. n -> Seq(T)],
         LastGrows(a, b, n, s)
  PROVE  IsJoin(FlattenSeq(a), s, FlattenSeq(b))
<1> DEFINE front == [i \in 1 .. n - 1 |-> a[i]]
<1>1. front \in Seq(Seq(T)) /\ Len(front) = n - 1 /\ \A i \in 1 .. n - 1 : front[i] = a[i]
  OBVIOUS
<1>2. a[n] \in Seq(T) /\ b[n] \in Seq(T)
  OBVIOUS
<1>3. a \in Seq(Seq(T)) /\ b \in Seq(Seq(T)) /\ Len(a) = n /\ Len(b) = n
  OBVIOUS
<1> HIDE DEF front
<1>4. ASSUME NEW c \in Seq(Seq(T)), Len(c) = n, c[n] \in Seq(T),
             \A i \in 1 .. n - 1 : c[i] = a[i]
      PROVE  c = Append(front, c[n])
  <2>1. /\ Append(front, c[n]) \in Seq(Seq(T)) /\ Len(Append(front, c[n])) = n
        /\ \A i \in 1 .. n - 1 : Append(front, c[n])[i] = front[i]
        /\ Append(front, c[n])[n] = c[n]
    BY <1>1, <1>4, AppendProperties
  <2>2. ASSUME NEW i \in 1 .. n PROVE c[i] = Append(front, c[n])[i]
    <3>1. CASE i = n
      BY <2>1, <3>1
    <3>2. CASE i # n
      <4>1. i \in 1 .. n - 1
        BY <3>2
      <4> QED  BY <1>1, <1>4, <2>1, <4>1
    <3> QED  BY <3>1, <3>2
  <2> QED  BY <1>4, <2>1, <2>2, SeqEqual
<1>5. a = Append(front, a[n]) /\ b = Append(front, b[n])
  <2>1. \A i \in 1 .. n - 1 : b[i] = a[i]
    BY DEF LastGrows
  <2> QED  BY <1>2, <1>3, <1>4, <2>1
<1>6. \A x \in Seq(T) : FlattenSeq(front) \in Seq(T)
                        /\ IsJoin(FlattenSeq(front), x, FlattenSeq(Append(front, x)))
  BY <1>1, FlattenAppend DEF IsJoin
<1>7. /\ FlattenSeq(front) \in Seq(T)
      /\ IsJoin(FlattenSeq(front), a[n], FlattenSeq(a))
      /\ IsJoin(FlattenSeq(front), b[n], FlattenSeq(b))
  BY <1>2, <1>5, <1>6, Zenon
<1>8. IsJoin(a[n], s, b[n])
  BY DEF LastGrows
<1> QED  BY <1>2, <1>7, <1>8, JoinAssociative

(* Concatenation, and what the length depends on.                         *)
LEMMA FlattenConcat ==
  ASSUME NEW T, NEW a \in Seq(Seq(T)), NEW b \in Seq(Seq(T))
  PROVE  IsJoin(FlattenSeq(a), FlattenSeq(b), FlattenSeq(a \o b))
<1> DEFINE S == {n \in Nat : \A c \in Seq(Seq(T)) :
                   Len(c) = n => FlattenSeq(a \o c) = FlattenSeq(a) \o FlattenSeq(c)}
<1>1. \A c \in Seq(Seq(T)) : FlattenSeq(c) \in Seq(T)
  <2> SUFFICES ASSUME NEW c \in Seq(Seq(T)) PROVE FlattenSeq(c) \in Seq(T)
    OBVIOUS
  <2>1. <<>> \in Seq(T)
    OBVIOUS
  <2> QED  BY <2>1, FlattenAppend
<1>2. 0 \in S
  <2> SUFFICES ASSUME NEW c \in Seq(Seq(T)), Len(c) = 0
               PROVE  FlattenSeq(a \o c) = FlattenSeq(a) \o FlattenSeq(c)
    OBVIOUS
  <2>1. c = <<>> /\ FlattenSeq(c) = <<>>
    BY EmptySeq, FlattenEmpty
  <2>2. a \o c = a
    BY <2>1, ConcatEmptySeq
  <2>3. FlattenSeq(a) \o FlattenSeq(c) = FlattenSeq(a)
    BY <1>1, <2>1, ConcatEmptySeq
  <2> QED  BY <2>2, <2>3
<1>3. ASSUME NEW n \in Nat, n \in S PROVE n + 1 \in S
  <2> SUFFICES ASSUME NEW c \in Seq(Seq(T)), Len(c) = n + 1
               PROVE  FlattenSeq(a \o c) = FlattenSeq(a) \o FlattenSeq(c)
    OBVIOUS
  <2> DEFINE front == SubSeq(c, 1, n)
             last == c[n + 1]
  <2>1. last \in Seq(T)
    BY ElementOfSeq
  <2>2. front \in Seq(Seq(T)) /\ Len(front) = n
    <3>1. \A i \in 1 .. n : c[i] \in Seq(T)
      BY ElementOfSeq
    <3> QED  BY <3>1, SubSeqProperties
  <2>3. c = front \o <<last>>
    <3>1. SubSeq(c, 1, n + 1) = SubSeq(c, 1, (n + 1) - 1) \o <<c[n + 1]>>
      BY SubSeqRecursiveSecond
    <3>2. SubSeq(c, 1, n + 1) = c /\ (n + 1) - 1 = n
      BY SubSeqFull
    <3> QED  BY <3>1, <3>2
  <2> HIDE DEF front, last
  <2>4. c = Append(front, last)
    BY <2>1, <2>2, <2>3, AppendIsConcat
  <2>5. a \o c = Append(a \o front, last) /\ a \o front \in Seq(Seq(T))
    <3>1. a \o (front \o <<last>>) = (a \o front) \o <<last>>
      BY <2>1, <2>2, ConcatAssociative, SMTT(30)
    <3>2. a \o front \in Seq(Seq(T))
      BY <2>2, ConcatProperties
    <3> QED  BY <2>1, <2>3, <3>1, <3>2, AppendIsConcat
  <2>6. FlattenSeq(c) = FlattenSeq(front) \o last
    BY <2>1, <2>2, <2>4, FlattenAppend
  <2>7. FlattenSeq(a \o c) = FlattenSeq(a \o front) \o last
    BY <2>1, <2>5, FlattenAppend
  <2>8. FlattenSeq(a \o front) = FlattenSeq(a) \o FlattenSeq(front)
    BY <1>3, <2>2
  <2>9. (FlattenSeq(a) \o FlattenSeq(front)) \o last = FlattenSeq(a) \o (FlattenSeq(front) \o last)
    <3> DEFINE x == FlattenSeq(a)
               y == FlattenSeq(front)
    <3>1. x \in Seq(T) /\ y \in Seq(T)
      BY <1>1, <2>2
    <3> HIDE DEF x, y
    <3>2. (x \o y) \o last = x \o (y \o last)
      BY <2>1, <3>1, SMTT(30)
    <3> QED  BY <3>2 DEF x, y
  <2> QED  BY <2>6, <2>7, <2>8, <2>9
<1>4. Nat \subseteq S
  <2> HIDE DEF S
  <2> QED  BY <1>2, <1>3, NatSetInduction
<1>5. Len(b) \in S
  BY <1>4, LenProperties
<1> QED  BY <1>5 DEF IsJoin

LEMMA FlattenOne ==
  ASSUME NEW T, NEW s \in Seq(T)
  PROVE  FlattenSeq(<<s>>) = s
<1>1. <<>> \in Seq(Seq(T)) /\ <<s>> = Append(<<>>, s)
  OBVIOUS
<1>2. FlattenSeq(<<s>>) = <<>> \o s
  BY <1>1, FlattenAppend, FlattenEmpty
<1> QED  BY <1>2, ConcatEmptySeq

(* The length depends on the lengths alone.                                *)
SameLengths(a, b, n) == \A i \in 1 .. n : Len(a[i]) = Len(b[i])

LEMMA FlattenLength ==
  ASSUME NEW T, NEW n \in Nat, NEW a \in [1 .. n -> Seq(T)], NEW b \in [1 .. n -> Seq(T)],
         SameLengths(a, b, n)
  PROVE  Len(FlattenSeq(a)) = Len(FlattenSeq(b))
<1> DEFINE Upto(c, k) == [i \in 1 .. k |-> c[i]]
           S == {k \in Nat : k <= n => Len(FlattenSeq(Upto(a, k))) = Len(FlattenSeq(Upto(b, k)))}
<1>1. 0 \in S
  <2>1. Upto(a, 0) = Upto(b, 0)
    OBVIOUS
  <2> QED  BY <2>1
<1>2. ASSUME NEW k \in Nat, k \in S PROVE k + 1 \in S
  <2> SUFFICES ASSUME k + 1 <= n
               PROVE  Len(FlattenSeq(Upto(a, k + 1))) = Len(FlattenSeq(Upto(b, k + 1)))
    OBVIOUS
  <2>1. ASSUME NEW c \in [1 .. n -> Seq(T)]
        PROVE  /\ FlattenSeq(Upto(c, k)) \in Seq(T)
               /\ Len(FlattenSeq(Upto(c, k + 1))) = Len(FlattenSeq(Upto(c, k))) + Len(c[k + 1])
    <3> DEFINE s == Upto(c, k)
               t == Upto(c, k + 1)
               x == c[k + 1]
    <3>1. s \in Seq(Seq(T)) /\ Len(s) = k /\ t \in Seq(Seq(T)) /\ Len(t) = k + 1 /\ x \in Seq(T)
          /\ (\A i \in 1 .. k : s[i] = c[i]) /\ (\A i \in 1 .. k + 1 : t[i] = c[i])
      OBVIOUS
    <3> HIDE DEF s, t
    <3>2. t = Append(s, x)
      <4> HIDE DEF x
      <4>1. /\ Append(s, x) \in Seq(Seq(T)) /\ Len(Append(s, x)) = k + 1
            /\ \A i \in 1 .. k : Append(s, x)[i] = s[i]
            /\ Append(s, x)[k + 1] = x
        <5>1. s \in Seq(Seq(T)) /\ x \in Seq(T) /\ Len(s) = k
          BY <3>1
        <5> QED  BY <5>1, AppendProperties, SMTT(30)
      <4>2. \A i \in 1 .. k + 1 : t[i] = Append(s, x)[i]
        BY <3>1, <4>1, SMTT(30) DEF x
      <4> QED  BY <3>1, <4>1, <4>2, SeqEqual
    <3> HIDE DEF x
    <3>3. FlattenSeq(s) \in Seq(T) /\ FlattenSeq(t) = FlattenSeq(s) \o x
      BY <3>1, <3>2, FlattenAppend
    <3>4. Len(FlattenSeq(t)) = Len(FlattenSeq(s)) + Len(x)
      BY <3>1, <3>3, ConcatProperties
    <3> QED  BY <3>3, <3>4 DEF s, t, x
  <2>2. Len(FlattenSeq(Upto(a, k))) = Len(FlattenSeq(Upto(b, k)))
    BY <1>2
  <2>3. Len(a[k + 1]) = Len(b[k + 1])
    BY DEF SameLengths
  <2> HIDE DEF Upto, S
  <2> QED  BY <2>1, <2>2, <2>3
<1>3. n \in S
  <2>1. Nat \subseteq S
    <3> HIDE DEF S
    <3> QED  BY <1>1, <1>2, NatSetInduction
  <2> QED  BY <2>1
<1>4. Upto(a, n) = a /\ Upto(b, n) = b
  OBVIOUS
<1> HIDE DEF Upto
<1> QED  BY <1>3, <1>4
=============================================================================
