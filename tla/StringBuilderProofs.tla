------------------------ MODULE StringBuilderProofs ------------------------
(***************************************************************************)
(* The string builder for all sizes of buffers, strings, reservations and  *)
(* alignments, and any number of builders: no buffer overflows, no two     *)
(* pointers overlap, and the links are lists.                              *)
(***************************************************************************)
EXTENDS StringBuilder, SequenceTheorems, SetInduction

Data == Seq(Bytes \cup {Unset})

(* Two builders in use never append to the same buffer.  Without it an     *)
(* append to one could link a buffer behind the current one of another.    *)
CurrentsDiffer ==
  \A b, c \in InUse : b # c => builders[b].current # builders[c].current

(* The inductive invariant.                                                *)
Sound == MemorySafe /\ CurrentsDiffer

-----------------------------------------------------------------------------
(* What is appended to the list of a builder.                              *)

LEMMA PartOfString ==
  ASSUME NEW bytes \in Seq(Bytes), NEW m \in Nat \ {0}, NEW n \in Nat, n <= Len(bytes)
  PROVE  /\ SubSeq(bytes, m, n) \in Seq(Bytes)
         /\ SubSeq(bytes, m, n) \in Data
         /\ Len(SubSeq(bytes, m, n)) = IF m <= n THEN n - m + 1 ELSE 0
<1>1. \A i \in m .. n : bytes[i] \in Bytes
  BY LenProperties
<1>2. /\ SubSeq(bytes, m, n) \in Seq(Bytes)
      /\ Len(SubSeq(bytes, m, n)) = IF m <= n THEN n - m + 1 ELSE 0
  BY <1>1, SubSeqProperties
<1> QED  BY <1>2, SeqMonotonic, Bytes \subseteq Bytes \cup {Unset} DEF Data

(* The pieces of a string fit into a buffer each.                          *)
LEMMA PiecesFit ==
  ASSUME NEW bytes \in Seq(Bytes)
  PROVE  /\ Pieces(bytes) \in Seq(Data)
         /\ \A i \in 1 .. Len(Pieces(bytes)) : Len(Pieces(bytes)[i]) <= Capacity
<1> DEFINE count == (Len(bytes) + Capacity - 1) \div Capacity
           Piece(i) == SubSeq(bytes, (i - 1) * Capacity + 1,
                              IF i * Capacity < Len(bytes) THEN i * Capacity ELSE Len(bytes))
<1>1. Capacity \in Nat /\ Capacity > 0 /\ Len(bytes) \in Nat
  BY CapacityAssumption, LenProperties
<1>2. count \in Nat
  BY <1>1
<1>3. ASSUME NEW i \in 1 .. count
      PROVE  Piece(i) \in Data /\ Len(Piece(i)) <= Capacity
  <2> DEFINE m == (i - 1) * Capacity + 1
             n == IF i * Capacity < Len(bytes) THEN i * Capacity ELSE Len(bytes)
  <2>1. i \in Nat /\ i - 1 \in Nat
    BY <1>2
  <2>2. (i - 1) * Capacity \in Nat /\ i * Capacity = (i - 1) * Capacity + Capacity
    BY <2>1, <1>1
  <2>3. m \in Nat \ {0} /\ n \in Nat /\ n <= Len(bytes) /\ n < m + Capacity
    BY <2>2, <1>1
  <2>4. Piece(i) = SubSeq(bytes, m, n)
    OBVIOUS
  <2> HIDE DEF m, n, Piece
  <2>5. /\ SubSeq(bytes, m, n) \in Data
        /\ Len(SubSeq(bytes, m, n)) = IF m <= n THEN n - m + 1 ELSE 0
    BY <2>3, PartOfString
  <2> QED  BY <2>3, <2>4, <2>5, <1>1
<1>4. Pieces(bytes) = [i \in 1 .. count |-> Piece(i)]
  BY DEF Pieces
<1> HIDE DEF count, Piece
<1>5. Pieces(bytes) \in Seq(Data) /\ Len(Pieces(bytes)) = count
  BY <1>2, <1>3, <1>4
<1> QED  BY <1>3, <1>4, <1>5

(* Where the piece of a string with a given number ends.                   *)
LEMMA PieceEnds ==
  ASSUME NEW length \in Nat, NEW n, n = (length + Capacity - 1) \div Capacity
  PROVE  /\ n \in Nat /\ length <= n * Capacity
         /\ \A i \in Nat : i < n => i * Capacity \in Nat /\ i * Capacity < length
         /\ (n = 0 <=> length = 0)
<1>1. Capacity \in Nat /\ Capacity > 0
  BY CapacityAssumption
<1>2. n \in Nat
  BY <1>1
<1>3. Capacity * n <= length + Capacity - 1 /\ length + Capacity - 1 < Capacity * n + Capacity
  <2> DEFINE m == length + Capacity - 1
  <2>1. m \in Nat
    BY <1>1
  <2> HIDE DEF m
  <2>2. m = Capacity * (m \div Capacity) + (m % Capacity) /\ m % Capacity \in 0 .. Capacity - 1
    BY <1>1, <2>1
  <2>3. n = m \div Capacity
    BY DEF m
  <2> DEFINE product == Capacity * n
  <2>4. product \in Nat /\ m = product + (m % Capacity)
    <3>1. product = Capacity * (m \div Capacity)
      BY <2>3
    <3>2. product \in Nat
      BY <1>1, <1>2
    <3> HIDE DEF product
    <3> QED  BY <2>2, <3>1, <3>2
  <2> HIDE DEF product
  <2>5. product <= m /\ m < product + Capacity
    BY <1>1, <2>1, <2>2, <2>4
  <2> QED  BY <2>5 DEF m, product
<1>4. n * Capacity = Capacity * n /\ n * Capacity \in Nat
  BY <1>1, <1>2
<1>5. ASSUME NEW i \in Nat, i < n PROVE i * Capacity \in Nat /\ i * Capacity < length
  <2> DEFINE more == n - i - 1
  <2>1. more \in Nat /\ n = i + 1 + more
    BY <1>2, <1>5
  <2> HIDE DEF more
  <2>2. /\ n * Capacity = i * Capacity + Capacity + more * Capacity
        /\ i * Capacity \in Nat /\ more * Capacity \in Nat
    BY <1>1, <2>1
  <2> QED  BY <1>1, <1>3, <1>4, <2>2
<1>6. length <= n * Capacity
  BY <1>1, <1>3, <1>4
<1>7. n = 0 => length = 0
  BY <1>1, <1>6
<1>8. length = 0 => n = 0
  BY <1>1, <1>2, <1>5
<1> QED  BY <1>2, <1>5, <1>6, <1>7, <1>8

(* The pieces of a string make up the string.                              *)
LEMMA PiecesMakeUp ==
  ASSUME NEW bytes \in Seq(Bytes)
  PROVE  FlattenSeq(Pieces(bytes)) = bytes
<1> DEFINE length == Len(bytes)
           n == (length + Capacity - 1) \div Capacity
           End(i) == IF i * Capacity < length THEN i * Capacity ELSE length
           f == [i \in 1 .. n |-> SubSeq(bytes, 1, End(i))]
           pieces == Pieces(bytes)
<1>1. length \in Nat /\ Capacity \in Nat /\ Capacity > 0
  BY CapacityAssumption, LenProperties
<1>2. /\ n \in Nat /\ length <= n * Capacity
      /\ \A i \in Nat : i < n => i * Capacity \in Nat /\ i * Capacity < length
      /\ (n = 0 <=> length = 0)
  <2> DEFINE m == n
  <2>1. m = (length + Capacity - 1) \div Capacity
    OBVIOUS
  <2> HIDE DEF length, n
  <2> QED  BY <1>1, <2>1, PieceEnds
<1>3. pieces = [i \in 1 .. n |-> SubSeq(bytes, (i - 1) * Capacity + 1, End(i))]
  BY DEF Pieces
<1> HIDE DEF n, pieces
<1>4. Len(pieces) = n
  BY <1>2, <1>3
<1>5. CASE n = 0
  <2>1. bytes = <<>>
    BY <1>2, <1>5, EmptySeq
  <2>2. pieces = <<>>
    BY <1>3, <1>5
  <2> QED  BY <2>1, <2>2, FlattenEmpty DEF pieces
<1>6. CASE n # 0
  <2>1. f[1] = pieces[1]
    <3>1. 1 \in 1 .. n /\ (1 - 1) * Capacity + 1 = 1
      BY <1>1, <1>2, <1>6
    <3> QED  BY <1>3, <3>1
  <2>2. ASSUME NEW j \in 1 .. n, NEW k \in 1 .. n, k = j + 1
        PROVE  f[k] = f[j] \o pieces[k]
    <3> DEFINE at == j * Capacity
    <3>1. at \in Nat /\ at < length /\ End(j) = at
      BY <1>2, <2>2
    <3>2. End(k) \in at .. length
      <4>1. k * Capacity = at + Capacity
        BY <1>1, <2>2
      <4> HIDE DEF at, length
      <4> QED  BY <1>1, <3>1, <4>1
    <3>3. pieces[k] = SubSeq(bytes, at + 1, End(k))
      <4>1. k - 1 = j
        BY <2>2
      <4> QED  BY <1>3, <4>1
    <3>4. f[j] = SubSeq(bytes, 1, at) /\ f[k] = SubSeq(bytes, 1, End(k))
      BY <3>1
    <3> DEFINE last == End(k)
    <3> HIDE DEF at, f, End
    <3>5. last \in at .. Len(bytes) /\ at \in 1 - 1 .. Len(bytes) /\ 1 \in 1 .. Len(bytes) + 1
      BY <1>1, <3>1, <3>2
    <3> HIDE DEF last
    <3>6. SubSeq(bytes, 1, at) \o SubSeq(bytes, at + 1, last) = SubSeq(bytes, 1, last)
      BY <3>5, ConcatAdjacentSubSeq
    <3> QED  BY <3>3, <3>4, <3>6 DEF last
  <2>3. f = [i \in 1 .. n |-> f[i]]
    OBVIOUS
  <2>4. f[n] = bytes
    <3>1. n \in 1 .. n /\ End(n) = length
      <4>1. n * Capacity \in Nat
        BY <1>1, <1>2
      <4> QED  BY <1>1, <1>2, <1>6, <4>1
    <3>2. f[n] = SubSeq(bytes, 1, length)
      BY <3>1
    <3> QED  BY <3>2, SubSeqFull
  <2> HIDE DEF f
  <2>5. Flattens(f, pieces, n)
    <3>1. Joins(f, pieces, n)
      BY <2>1, <2>2, <2>3 DEF Joins
    <3> QED  BY <1>2, <3>1, FlattensPointwise
  <2> QED  BY <1>2, <1>4, <1>6, <2>4, <2>5, FlattenIs DEF pieces
<1> QED  BY <1>5, <1>6

-----------------------------------------------------------------------------
(* What the operations share: all buffers but the current one of a builder *)
(* in use stay as they are, this one gets longer, and k new ones follow.   *)
Grows(b, k) ==
  LET current == builders[b].current
      old == Len(buffers)
  IN  /\ buffers' \in Seq(Buffers) /\ Len(buffers') = old + k
      /\ \A i \in 1 .. old : i # current => buffers'[i] = buffers[i]
      /\ buffers'[current].next = IF k = 0 THEN 0 ELSE old + 1
      /\ Len(Current(b).data) <= Len(buffers'[current].data)
      /\ Len(buffers'[current].data) <= Capacity
      /\ \A i \in old + 1 .. old + k :
           /\ buffers'[i].next = IF i = old + k THEN 0 ELSE i + 1
           /\ Len(buffers'[i].data) <= Capacity
      /\ builders' = [builders EXCEPT ![b].current = IF k = 0 THEN current ELSE old + k]
      /\ appended' = appended

(* ... and what it adds to the bytes of the list: something to the buffer  *)
(* it starts in, and the new ones.                                         *)
Adds(b, k, added) ==
  \E fit \in Data, pieces \in Seq(Data) :
    /\ Len(pieces) = k
    /\ IsJoin(Current(b).data, fit, buffers'[builders[b].current].data)
    /\ \A i \in 1 .. k, j \in Nat : j = Len(buffers) + i => buffers'[j].data = pieces[i]
    /\ IsJoin(fit, FlattenSeq(pieces), added)

(* The parts of the invariant.                                             *)
HeapSafe ==
  /\ buffers \in Seq(Buffers)
  /\ \A i \in 1 .. Len(buffers) :
       Len(buffers[i].data) <= Capacity /\ buffers[i].next \in 0 .. Len(buffers)
  /\ \A i, j \in 1 .. Len(buffers) :
       buffers[i].next = buffers[j].next => i = j \/ buffers[i].next = 0

BuildersSafe ==
  /\ builders \in [Builders -> [first : 1 .. Len(buffers), current : 1 .. Len(buffers)]]
  /\ appended \subseteq Builders
  /\ \A b \in InUse :
       /\ Current(b).next = 0
       /\ \A i \in 1 .. Len(buffers) : buffers[i].next # builders[b].first
  /\ \A b, c \in InUse : b # c => builders[b].first # builders[c].first
  /\ CurrentsDiffer

PointersSafe ==
  /\ pointers \subseteq Pointers
  /\ \A p \in pointers :
       /\ p.buffer \in 1 .. Len(buffers)
       /\ p.offset + p.size <= Len(buffers[p.buffer].data)
  /\ \A p, q \in pointers :
       \/ p = q \/ p.buffer # q.buffer
       \/ p.offset + p.size <= q.offset \/ q.offset + q.size <= p.offset

LEMMA SoundParts == Sound <=> HeapSafe /\ BuildersSafe /\ PointersSafe
BY DEF Sound, MemorySafe, TypeOK, HeapSafe, BuildersSafe, PointersSafe

LEMMA BufferTypes ==
  ASSUME NEW heap \in Seq(Buffers)
  PROVE  /\ Len(heap) \in Nat
         /\ \A i \in 1 .. Len(heap) :
              /\ heap[i] \in Buffers /\ heap[i].next \in Nat
              /\ heap[i].data \in Data /\ Len(heap[i].data) \in Nat
<1>1. Len(heap) \in Nat /\ \A i \in 1 .. Len(heap) : heap[i] \in Buffers
  BY LenProperties
<1>2. \A i \in 1 .. Len(heap) : heap[i].next \in Nat /\ heap[i].data \in Data
  BY <1>1 DEF Buffers, Data
<1> QED  BY <1>1, <1>2, LenProperties DEF Data

(* Links behind the last buffer of a list and among new buffers lead where *)
(* no other link leads.                                                    *)
LEMMA LinkedOnce ==
  ASSUME NEW old \in Nat, NEW k \in Nat, NEW current \in 1 .. old,
         NEW before \in [1 .. old -> 0 .. old], NEW after,
         \A i, j \in 1 .. old : before[i] = before[j] => i = j \/ before[i] = 0,
         \A i \in 1 .. old : i # current => after[i] = before[i],
         after[current] = IF k = 0 THEN 0 ELSE old + 1,
         \A i \in old + 1 .. old + k : after[i] = IF i = old + k THEN 0 ELSE i + 1
  PROVE  \A i, j \in 1 .. old + k : after[i] = after[j] => i = j \/ after[i] = 0
<1> SUFFICES ASSUME NEW i \in 1 .. old + k, NEW j \in 1 .. old + k,
                    after[i] = after[j], after[i] # 0
             PROVE  i = j
  OBVIOUS
<1>1. ASSUME NEW n \in 1 .. old + k, after[n] # 0
      PROVE  \/ n \in 1 .. old /\ n # current /\ after[n] = before[n] /\ after[n] \in 1 .. old
             \/ n = current /\ after[n] = old + 1
             \/ n \in old + 1 .. old + k /\ after[n] = n + 1
  <2>1. CASE n \in 1 .. old /\ n # current
    BY <1>1, <2>1
  <2>2. CASE n = current
    BY <1>1, <2>2
  <2>3. CASE n \in old + 1 .. old + k
    BY <1>1, <2>3
  <2> QED  BY <2>1, <2>2, <2>3
<1>2. \/ i \in 1 .. old /\ i # current /\ after[i] = before[i] /\ after[i] \in 1 .. old
      \/ i = current /\ after[i] = old + 1
      \/ i \in old + 1 .. old + k /\ after[i] = i + 1
  BY <1>1
<1>3. \/ j \in 1 .. old /\ j # current /\ after[j] = before[j] /\ after[j] \in 1 .. old
      \/ j = current /\ after[j] = old + 1
      \/ j \in old + 1 .. old + k /\ after[j] = j + 1
  BY <1>1
<1> QED  BY <1>2, <1>3

(* A longer list is safe.                                                  *)
LEMMA GrownHeap ==
  ASSUME HeapSafe, BuildersSafe, NEW b \in InUse, NEW k \in Nat, Grows(b, k)
  PROVE  HeapSafe' /\ Len(buffers) \in Nat /\ builders[b].current \in 1 .. Len(buffers)
<1> DEFINE old == Len(buffers)
           current == builders[b].current
<1>1. old \in Nat /\ current \in 1 .. old
  BY BufferTypes DEF HeapSafe, BuildersSafe, InUse
<1>2. buffers[current].next = 0
  BY DEF BuildersSafe, Current
<1>3. buffers' \in Seq(Buffers) /\ Len(buffers') = old + k
  BY DEF Grows
<1>4. \A i \in 1 .. old : i # current => buffers'[i].next = buffers[i].next
  BY DEF Grows
<1>5. buffers'[current].next = IF k = 0 THEN 0 ELSE old + 1
  BY DEF Grows
<1>6. \A i \in old + 1 .. old + k : buffers'[i].next = IF i = old + k THEN 0 ELSE i + 1
  BY DEF Grows
<1>7. \A i \in 1 .. old : buffers[i].next \in 0 .. old
  BY DEF HeapSafe
<1>8. ASSUME NEW i \in 1 .. old + k
      PROVE  Len(buffers'[i].data) <= Capacity /\ buffers'[i].next \in 0 .. old + k
  <2>1. CASE i \in 1 .. old /\ i # current
    BY <1>1, <1>4, <1>7, <2>1 DEF Grows, HeapSafe
  <2>2. CASE i = current
    BY <1>1, <1>5, <2>2 DEF Grows
  <2>3. CASE i \in old + 1 .. old + k
    BY <1>1, <1>6, <2>3, SMTT(30) DEF Grows
  <2> QED  BY <1>1, <2>1, <2>2, <2>3
<1>9. \A i, j \in 1 .. old + k :
        buffers'[i].next = buffers'[j].next => i = j \/ buffers'[i].next = 0
  <2> DEFINE before == [i \in 1 .. old |-> buffers[i].next]
             after == [i \in 1 .. old + k |-> buffers'[i].next]
  <2>1. before \in [1 .. old -> 0 .. old]
    BY <1>7
  <2>2. \A i, j \in 1 .. old : before[i] = before[j] => i = j \/ before[i] = 0
    BY DEF HeapSafe
  <2>3. \A i \in 1 .. old : i # current => after[i] = before[i]
    BY <1>1, <1>4
  <2>4. after[current] = IF k = 0 THEN 0 ELSE old + 1
    BY <1>1, <1>5
  <2>5. \A i \in old + 1 .. old + k : after[i] = IF i = old + k THEN 0 ELSE i + 1
    BY <1>1, <1>6
  <2>6. old \in Nat /\ current \in 1 .. old
    BY <1>1
  <2> HIDE DEF before, after, old, current
  <2>7. \A i, j \in 1 .. old + k : after[i] = after[j] => i = j \/ after[i] = 0
    BY <2>1, <2>2, <2>3, <2>4, <2>5, <2>6, LinkedOnce, SMTT(30)
  <2> QED  BY <2>7 DEF after
<1> QED  BY <1>1, <1>3, <1>8, <1>9 DEF HeapSafe

LEMMA GrownBuilders ==
  ASSUME HeapSafe, BuildersSafe, NEW b \in InUse, NEW k \in Nat, Grows(b, k)
  PROVE  BuildersSafe'
<1> DEFINE old == Len(buffers)
           current == builders[b].current
           Pair(n) == [first : 1 .. n, current : 1 .. n]
<1>1. old \in Nat /\ current \in 1 .. old
  BY GrownHeap
<1>2. Len(buffers') = old + k /\ appended' = appended /\ InUse' = InUse /\ InUse \subseteq Builders
  BY DEF Grows, InUse
<1>3. builders \in [Builders -> Pair(old)]
  BY DEF BuildersSafe
<1>4. \A c \in Builders :
        /\ builders'[c].first = builders[c].first
        /\ builders'[c].current = IF c = b /\ k # 0 THEN old + k ELSE builders[c].current
        /\ builders'[c] \in Pair(old + k)
  BY <1>1, <1>3, SMTT(30) DEF Grows
<1>5. builders' \in [Builders -> Pair(old + k)]
  <2>1. DOMAIN builders' = Builders /\ builders' = [c \in Builders |-> builders'[c]]
    BY <1>3 DEF Grows
  <2> HIDE DEF Pair
  <2> QED  BY <2>1, <1>4
<1>6. \A c \in Builders : builders[c].first \in 1 .. old /\ builders[c].current \in 1 .. old
  BY <1>3
<1>7. \A c, d \in InUse :
        c # d => /\ builders[c].first # builders[d].first
                 /\ builders[c].current # builders[d].current
  BY DEF BuildersSafe, CurrentsDiffer
<1>8. ASSUME NEW c \in InUse
      PROVE  buffers'[builders'[c].current].next = 0
  <2>1. CASE c = b
    BY <1>1, <1>2, <1>4, <2>1 DEF Grows
  <2>2. CASE c # b
    <3>1. buffers[builders[c].current].next = 0
      BY DEF BuildersSafe, Current
    <3> QED  BY <1>1, <1>2, <1>4, <1>6, <1>7, <2>2, <3>1, SMTT(30) DEF Grows
  <2> QED  BY <2>1, <2>2
<1>9. ASSUME NEW c \in InUse, NEW i \in 1 .. old + k
      PROVE  buffers'[i].next # builders[c].first
  <2>1. builders[c].first \in 1 .. old
    BY <1>2, <1>6
  <2>2. CASE i \in 1 .. old /\ i # current
    BY <2>2 DEF Grows, BuildersSafe
  <2>3. CASE i = current
    BY <1>1, <2>1, <2>3 DEF Grows
  <2>4. CASE i \in old + 1 .. old + k
    BY <1>1, <2>1, <2>4 DEF Grows
  <2> QED  BY <1>1, <2>2, <2>3, <2>4
<1>10. \A c, d \in InUse : c # d => builders'[c].current # builders'[d].current
  BY <1>1, <1>2, <1>4, <1>6, <1>7
<1>11. \A c, d \in InUse : c # d => builders'[c].first # builders'[d].first
  BY <1>2, <1>4, <1>7
<1>12. \A c \in InUse : \A i \in 1 .. old + k : buffers'[i].next # builders'[c].first
  BY <1>2, <1>4, <1>9
<1>13. appended' \subseteq Builders
  BY <1>2 DEF BuildersSafe
<1> QED  BY <1>2, <1>5, <1>8, <1>10, <1>11, <1>12, <1>13
         DEF BuildersSafe, CurrentsDiffer, Current

(* The pointers stay safe when buffers only get longer.                    *)
LEMMA PointersStay ==
  ASSUME PointersSafe, pointers' = pointers, NEW old \in Nat, old = Len(buffers),
         Len(buffers') \in Nat, old <= Len(buffers'),
         buffers \in Seq(Buffers), buffers' \in Seq(Buffers),
         \A i \in 1 .. old : Len(buffers[i].data) <= Len(buffers'[i].data)
  PROVE  PointersSafe'
<1>1. ASSUME NEW p \in pointers
      PROVE  /\ p.buffer \in 1 .. Len(buffers')
             /\ p.offset + p.size <= Len(buffers'[p.buffer].data)
  <2>1. /\ p.buffer \in 1 .. old /\ p.offset \in Nat /\ p.size \in Nat
        /\ p.offset + p.size <= Len(buffers[p.buffer].data)
    BY DEF PointersSafe, Pointers
  <2>2. Len(buffers[p.buffer].data) \in Nat
    BY <2>1, BufferTypes
  <2>3. Len(buffers'[p.buffer].data) \in Nat
    BY <2>1, BufferTypes
  <2> QED  BY <2>1, <2>2, <2>3, SMTT(30)
<1> QED  BY <1>1 DEF PointersSafe

LEMMA GrownPointers ==
  ASSUME HeapSafe, BuildersSafe, PointersSafe, NEW b \in InUse, NEW k \in Nat, Grows(b, k),
         pointers' = pointers
  PROVE  PointersSafe'
<1> DEFINE old == Len(buffers)
<1>1. old \in Nat /\ builders[b].current \in 1 .. old
  BY GrownHeap
<1>2. /\ buffers \in Seq(Buffers) /\ buffers' \in Seq(Buffers)
      /\ Len(buffers') = old + k
  BY DEF HeapSafe, Grows
<1>3. \A i \in 1 .. old : Len(buffers[i].data) \in Nat
  BY <1>2, BufferTypes
<1>4. \A i \in 1 .. old : Len(buffers[i].data) <= Len(buffers'[i].data)
  BY <1>1, <1>3, SMTT(30) DEF Grows, Current
<1> QED  BY <1>1, <1>2, <1>4, PointersStay

-----------------------------------------------------------------------------
(* One lemma for every operation.                                          *)

LEMMA CurrentTypes ==
  ASSUME HeapSafe, BuildersSafe, NEW b \in InUse
  PROVE  /\ Len(buffers) \in Nat
         /\ b \in Builders /\ builders[b].current \in 1 .. Len(buffers)
         /\ buffers[builders[b].current] = Current(b) /\ Current(b).next = 0
         /\ Current(b).data \in Data /\ Len(Current(b).data) \in Nat
         /\ Room(b) \in Nat /\ Room(b) = Capacity - Len(Current(b).data)
<1>1. Len(buffers) \in Nat /\ b \in Builders /\ builders[b].current \in 1 .. Len(buffers)
  BY BufferTypes DEF HeapSafe, BuildersSafe, InUse
<1>2. buffers[builders[b].current] = Current(b) /\ Current(b).next = 0
  BY DEF Current, BuildersSafe
<1>3. Current(b).data \in Data /\ Len(Current(b).data) \in Nat
  BY <1>1, <1>2, BufferTypes DEF HeapSafe
<1>4. Len(Current(b).data) <= Capacity
  BY <1>1, <1>2 DEF HeapSafe
<1> QED  BY <1>1, <1>2, <1>3, <1>4, CapacityAssumption DEF Room

LEMMA LinkedTypes ==
  ASSUME NEW pieces \in Seq(Data), Len(buffers) \in Nat
  PROVE  /\ Linked(pieces) \in Seq(Buffers) /\ Len(Linked(pieces)) = Len(pieces)
         /\ \A i \in 1 .. Len(pieces) :
              /\ Linked(pieces)[i].next = IF i = Len(pieces) THEN 0 ELSE Len(buffers) + i + 1
              /\ Linked(pieces)[i].data = pieces[i]
<1>1. Len(pieces) \in Nat /\ \A i \in 1 .. Len(pieces) : pieces[i] \in Data
  BY LenProperties
<1> DEFINE Link(i) == [next |-> IF i = Len(pieces) THEN 0 ELSE Len(buffers) + i + 1,
                       data |-> pieces[i]]
<1>2. \A i \in 1 .. Len(pieces) : Link(i) \in Buffers
  BY <1>1 DEF Buffers, Data
<1>3. Linked(pieces) = [i \in 1 .. Len(pieces) |-> Link(i)]
  BY DEF Linked
<1>4. \A i \in 1 .. Len(pieces) : Linked(pieces)[i] = Link(i)
  BY <1>3
<1>5. \A i \in 1 .. Len(pieces) :
        /\ Link(i).next = IF i = Len(pieces) THEN 0 ELSE Len(buffers) + i + 1
        /\ Link(i).data = pieces[i]
  OBVIOUS
<1> HIDE DEF Link
<1>6. Linked(pieces) \in Seq(Buffers) /\ Len(Linked(pieces)) = Len(pieces)
  BY <1>1, <1>2, <1>3
<1> QED  BY <1>4, <1>5, <1>6

LEMMA StringStep ==
  ASSUME Sound, NEW b \in InUse, NEW str \in Seq(Bytes), AppendString(b, str)
  PROVE  Sound' /\ \E k \in Nat : Grows(b, k) /\ Adds(b, k, str)
<1> DEFINE old == Len(buffers)
           current == builders[b].current
           fits == IF Len(str) < Room(b) THEN Len(str) ELSE Room(b)
           start == SubSeq(str, 1, fits)
           rest == SubSeq(str, fits + 1, Len(str))
           pieces == IF Room(b) = 0 /\ str = <<>> THEN <<<<>>>> ELSE Pieces(rest)
           last == [next |-> IF pieces = <<>> THEN buffers[current].next ELSE old + 1,
                    data |-> Extended(buffers[current].data, start)]
           extended == [buffers EXCEPT ![current] = last]
<1>1. HeapSafe /\ BuildersSafe /\ PointersSafe
  BY SoundParts
<1>2. /\ old \in Nat /\ current \in 1 .. old /\ buffers[current] = Current(b)
      /\ Current(b).next = 0 /\ Current(b).data \in Data /\ Len(Current(b).data) \in Nat
      /\ Room(b) \in Nat /\ Room(b) = Capacity - Len(Current(b).data)
  BY <1>1, CurrentTypes
<1>3. /\ buffers' = extended \o Linked(pieces)
      /\ builders' = IF pieces = <<>> THEN builders
                     ELSE [builders EXCEPT ![b].current = old + Len(pieces)]
      /\ pointers' = pointers /\ appended' = appended
  BY DEF AppendString
<1>4. Len(str) \in Nat /\ fits \in Nat /\ fits <= Len(str) /\ fits <= Room(b)
  BY <1>2, LenProperties
<1>5. start \in Data /\ Len(start) = fits /\ rest \in Seq(Bytes)
  <2> HIDE DEF fits
  <2>1. start \in Data /\ Len(start) = IF 1 <= fits THEN fits - 1 + 1 ELSE 0
    BY <1>4, PartOfString
  <2>2. rest \in Seq(Bytes)
    <3>1. fits + 1 \in Nat \ {0}
      BY <1>4
    <3> QED  BY <1>4, <3>1, PartOfString
  <2> HIDE DEF start, rest
  <2> QED  BY <1>4, <2>1, <2>2
<1>6. pieces \in Seq(Data) /\ \A i \in 1 .. Len(pieces) : Len(pieces[i]) <= Capacity
  <2>1. CASE Room(b) = 0 /\ str = <<>>
    <3> DEFINE none == <<>>
    <3>1. pieces = <<none>>
      BY <2>1
    <3>2. none \in Data /\ Len(none) = 0
      BY EmptySeq DEF Data
    <3> HIDE DEF none, pieces
    <3>3. Len(none) <= Capacity
      BY <3>2, CapacityAssumption
    <3>4. <<none>> \in Seq(Data) /\ Len(<<none>>) = 1 /\ <<none>>[1] = none
      BY <3>2
    <3> QED  BY <3>1, <3>3, <3>4
  <2>2. CASE ~(Room(b) = 0 /\ str = <<>>)
    <3>1. pieces = Pieces(rest)
      BY <2>2
    <3> HIDE DEF pieces, rest
    <3> QED  BY <1>5, <3>1, PiecesFit
  <2> QED  BY <2>1, <2>2
<1>7. Len(pieces) \in Nat /\ (pieces = <<>> <=> Len(pieces) = 0)
  <2> HIDE DEF pieces
  <2> QED  BY <1>6, EmptySeq
<1>8. IsJoin(start, FlattenSeq(pieces), str)
  <2>1. CASE Room(b) = 0 /\ str = <<>>
    <3> DEFINE none == <<>>
    <3>1. pieces = <<none>> /\ start = none /\ str = none
      BY <1>4, <2>1, SubSeqEmpty
    <3>2. none \in Seq(Bytes)
      OBVIOUS
    <3>3. none \o none = none
      BY <3>2, ConcatEmptySeq
    <3> HIDE DEF none, pieces, start
    <3>4. FlattenSeq(pieces) = none
      BY <3>1, <3>2, FlattenOne
    <3> QED  BY <3>1, <3>3, <3>4 DEF IsJoin
  <2>2. CASE ~(Room(b) = 0 /\ str = <<>>)
    <3>1. FlattenSeq(pieces) = rest
      <4>1. pieces = Pieces(rest)
        BY <2>2
      <4> HIDE DEF pieces, rest
      <4> QED  BY <1>5, <4>1, PiecesMakeUp
    <3>2. start \o rest = str
      <4>1. fits \in 1 - 1 .. Len(str) /\ 1 \in 1 .. Len(str) + 1 /\ Len(str) \in fits .. Len(str)
        BY <1>4
      <4> HIDE DEF fits
      <4>2. start \o rest = SubSeq(str, 1, Len(str))
        BY <4>1, ConcatAdjacentSubSeq
      <4> QED  BY <4>2, SubSeqFull
    <3> QED  BY <3>1, <3>2 DEF IsJoin
  <2> QED  BY <2>1, <2>2
<1> HIDE DEF fits, start, rest, pieces
<1>9. last.data \in Data /\ Len(last.data) = Len(Current(b).data) + fits
      /\ IsJoin(Current(b).data, start, last.data)
  BY <1>2, <1>5, ConcatProperties, ZenonT(30) DEF Extended, Data, IsJoin
<1>10. last \in Buffers
  BY <1>2, <1>9 DEF Buffers, Data
<1>11. last.next = IF Len(pieces) = 0 THEN 0 ELSE old + 1
  BY <1>2, <1>7
<1> HIDE DEF last
<1>12. /\ extended \in Seq(Buffers) /\ Len(extended) = old
       /\ \A i \in 1 .. old : extended[i] = IF i = current THEN last ELSE buffers[i]
  BY <1>1, <1>2, <1>10, ExceptSeq DEF HeapSafe
<1>13. /\ Linked(pieces) \in Seq(Buffers) /\ Len(Linked(pieces)) = Len(pieces)
       /\ \A i \in 1 .. Len(pieces) :
            /\ Linked(pieces)[i].next = IF i = Len(pieces) THEN 0 ELSE old + i + 1
            /\ Linked(pieces)[i].data = pieces[i]
  BY <1>2, <1>6, LinkedTypes
<1> HIDE DEF extended
<1>14. /\ buffers' \in Seq(Buffers) /\ Len(buffers') = old + Len(pieces)
       /\ \A i \in 1 .. old + Len(pieces) :
            buffers'[i] = IF i <= old THEN extended[i] ELSE Linked(pieces)[i - old]
  <2> DEFINE links == Linked(pieces)
  <2>1. links \in Seq(Buffers) /\ Len(links) = Len(pieces) /\ buffers' = extended \o links
    BY <1>3, <1>13
  <2> HIDE DEF links
  <2>2. /\ extended \o links \in Seq(Buffers)
        /\ Len(extended \o links) = Len(extended) + Len(links)
        /\ \A i \in 1 .. Len(extended) + Len(links) :
             (extended \o links)[i] = IF i <= Len(extended) THEN extended[i]
                                      ELSE links[i - Len(extended)]
    BY <1>12, <2>1, ConcatProperties, ZenonT(30)
  <2> HIDE DEF old
  <2>3. /\ buffers' \in Seq(Buffers) /\ Len(buffers') = old + Len(pieces)
        /\ \A i \in 1 .. old + Len(pieces) :
             buffers'[i] = IF i <= old THEN extended[i] ELSE links[i - old]
    BY <1>12, <2>1, <2>2
  <2> QED  BY <2>3 DEF links
<1>15. Grows(b, Len(pieces))
  <2>1. \A i \in 1 .. old : i # current => buffers'[i] = buffers[i]
    BY <1>2, <1>7, <1>12, <1>14
  <2>2. buffers'[current] = last
    <3>1. current <= old /\ current \in 1 .. old + Len(pieces)
      BY <1>2, <1>7
    <3>2. buffers'[current] = extended[current]
      BY <1>14, <3>1
    <3>3. extended[current] = last
      BY <1>2, <1>12
    <3> QED  BY <3>2, <3>3
  <2>3. /\ Len(Current(b).data) <= Len(buffers'[current].data)
        /\ Len(buffers'[current].data) <= Capacity
    BY <1>2, <1>4, <1>9, <2>2, CapacityAssumption
  <2>4. ASSUME NEW i \in old + 1 .. old + Len(pieces)
        PROVE  /\ buffers'[i].next = IF i = old + Len(pieces) THEN 0 ELSE i + 1
               /\ Len(buffers'[i].data) <= Capacity
    <3>1. i - old \in 1 .. Len(pieces) /\ i \in 1 .. old + Len(pieces) /\ ~(i <= old)
      BY <1>2, <1>7
    <3>2. buffers'[i] = Linked(pieces)[i - old]
      BY <1>14, <3>1
    <3>3. /\ Linked(pieces)[i - old].next =
               IF i - old = Len(pieces) THEN 0 ELSE old + (i - old) + 1
          /\ Linked(pieces)[i - old].data = pieces[i - old]
      BY <1>13, <3>1
    <3>4. Len(pieces[i - old]) <= Capacity
      BY <1>6, <3>1
    <3>5. (i - old = Len(pieces) <=> i = old + Len(pieces)) /\ old + (i - old) + 1 = i + 1
      BY <1>2, <1>7
    <3> QED  BY <3>2, <3>3, <3>4, <3>5
  <2>5. builders' = [builders EXCEPT ![b].current =
                       IF Len(pieces) = 0 THEN current ELSE old + Len(pieces)]
    <3>1. CASE Len(pieces) = 0
      <4>1. builders' = builders
        BY <1>3, <1>7, <3>1
      <4>2. builders \in [Builders -> [first : 1 .. old, current : 1 .. old]] /\ b \in Builders
        BY <1>1 DEF BuildersSafe, InUse
      <4> QED  BY <3>1, <4>1, <4>2
    <3>2. CASE Len(pieces) # 0
      BY <1>3, <1>7, <3>2
    <3> QED  BY <3>1, <3>2
  <2> QED  BY <1>3, <1>11, <1>14, <2>1, <2>2, <2>3, <2>4, <2>5 DEF Grows
<1>16. Adds(b, Len(pieces), str)
  <2>1. buffers'[current] = last
    <3>1. current <= old /\ current \in 1 .. old + Len(pieces)
      BY <1>2, <1>7
    <3>2. buffers'[current] = extended[current]
      BY <1>14, <3>1
    <3> QED  BY <1>2, <1>12, <3>2
  <2>2. ASSUME NEW i \in 1 .. Len(pieces), NEW j \in Nat, j = old + i
        PROVE  buffers'[j].data = pieces[i]
    <3>1. j \in 1 .. old + Len(pieces) /\ ~(j <= old) /\ j - old = i
      BY <1>2, <1>7, <2>2
    <3> QED  BY <1>13, <1>14, <3>1
  <2> QED  BY <1>5, <1>6, <1>8, <1>9, <2>1, <2>2 DEF Adds
<1>17. HeapSafe' /\ BuildersSafe' /\ PointersSafe'
  BY <1>1, <1>3, <1>7, <1>15, GrownHeap, GrownBuilders, GrownPointers
<1>18. Sound'
  BY <1>17, SoundParts, PTL
<1> QED  BY <1>7, <1>15, <1>16, <1>18

Unwritten(size) == [i \in 1 .. size |-> Unset]

(* The pointer to the bytes reserved: they are the last of the list.       *)
Reserves(b, size) ==
  \E offset \in Nat :
    /\ pointers' = pointers \cup {[buffer |-> builders'[b].current, offset |-> offset,
                                   size |-> size]}
    /\ offset + size = Len(buffers'[builders'[b].current].data)

LEMMA ReservedTypes ==
  ASSUME NEW data \in Data, NEW size \in Nat
  PROVE  /\ Reserved(data, size) \in Data /\ Len(Reserved(data, size)) = Len(data) + size
         /\ Unwritten(size) \in Data /\ Len(Unwritten(size)) = size
         /\ IsJoin(data, Unwritten(size), Reserved(data, size))
<1>1. Unwritten(size) \in Data /\ Len(Unwritten(size)) = size
  BY DEF Data, Unwritten
<1>2. data \o Unwritten(size) \in Data /\ Len(data \o Unwritten(size)) = Len(data) + size
  BY <1>1, ConcatProperties DEF Data
<1>3. Reserved(data, size) = data \o Unwritten(size)
  BY DEF Reserved, Unwritten
<1> QED  BY <1>1, <1>2, <1>3 DEF IsJoin

(* A new pointer leads to bytes that were not in use.                      *)
LEMMA OneMorePointer ==
  ASSUME HeapSafe, PointersSafe, Len(buffers) \in Nat, buffers' \in Seq(Buffers),
         Len(buffers) <= Len(buffers'),
         \A i \in 1 .. Len(buffers) : Len(buffers[i].data) <= Len(buffers'[i].data),
         NEW buffer \in 1 .. Len(buffers'), NEW offset \in Nat, NEW size \in Nat,
         buffer \in 1 .. Len(buffers) => Len(buffers[buffer].data) <= offset,
         offset + size <= Len(buffers'[buffer].data),
         pointers' = pointers \cup {[buffer |-> buffer, offset |-> offset, size |-> size]}
  PROVE  PointersSafe'
<1> DEFINE new == [buffer |-> buffer, offset |-> offset, size |-> size]
<1>1. Len(buffers') \in Nat
  BY BufferTypes
<1>2. new \in Pointers /\ new.buffer = buffer /\ new.offset = offset /\ new.size = size
  BY <1>1 DEF Pointers
<1>3. pointers' = pointers \cup {new}
  OBVIOUS
<1> HIDE DEF new
<1>4. ASSUME NEW p \in pointers
      PROVE  /\ p.buffer \in 1 .. Len(buffers) /\ p.buffer \in 1 .. Len(buffers')
             /\ p.offset \in Nat /\ p.size \in Nat
             /\ p.offset + p.size <= Len(buffers[p.buffer].data)
             /\ p.offset + p.size <= Len(buffers'[p.buffer].data)
             /\ Len(buffers[p.buffer].data) \in Nat
  <2>1. /\ p.buffer \in 1 .. Len(buffers) /\ p.offset \in Nat /\ p.size \in Nat
        /\ p.offset + p.size <= Len(buffers[p.buffer].data)
    BY DEF PointersSafe, Pointers
  <2>2. p.buffer \in 1 .. Len(buffers')
    BY <1>1, <2>1
  <2>3. Len(buffers[p.buffer].data) \in Nat /\ Len(buffers'[p.buffer].data) \in Nat
    BY <2>1, <2>2, BufferTypes DEF HeapSafe
  <2>4. Len(buffers[p.buffer].data) <= Len(buffers'[p.buffer].data)
    BY <2>1
  <2>5. \A n, x, y \in Nat : n <= x /\ x <= y => n <= y
    OBVIOUS
  <2>6. p.offset + p.size \in Nat
    BY <2>1
  <2>7. p.offset + p.size <= Len(buffers'[p.buffer].data)
    BY <2>1, <2>3, <2>4, <2>5, <2>6
  <2> QED  BY <2>1, <2>2, <2>3, <2>7
<1>5. \A p \in pointers : p.buffer # new.buffer \/ p.offset + p.size <= new.offset
  <2> SUFFICES ASSUME NEW p \in pointers, p.buffer = buffer
               PROVE  p.offset + p.size <= offset
    BY <1>2
  <2>1. /\ p.buffer \in 1 .. Len(buffers) /\ p.offset + p.size <= Len(buffers[p.buffer].data)
        /\ p.offset \in Nat /\ p.size \in Nat /\ Len(buffers[p.buffer].data) \in Nat
    BY <1>4
  <2>2. Len(buffers[p.buffer].data) <= offset
    BY <2>1
  <2> QED  BY <2>1, <2>2
<1>6. \A p, q \in pointers :
        \/ p = q \/ p.buffer # q.buffer
        \/ p.offset + p.size <= q.offset \/ q.offset + q.size <= p.offset
  BY DEF PointersSafe
<1>7. \A p, q \in pointers' :
        \/ p = q \/ p.buffer # q.buffer
        \/ p.offset + p.size <= q.offset \/ q.offset + q.size <= p.offset
  BY <1>3, <1>5, <1>6
<1>8. pointers' \subseteq Pointers
  BY <1>2, <1>3 DEF PointersSafe
<1>9. \A p \in pointers' :
        /\ p.buffer \in 1 .. Len(buffers')
        /\ p.offset + p.size <= Len(buffers'[p.buffer].data)
  BY <1>2, <1>3, <1>4
<1> QED  BY <1>7, <1>8, <1>9 DEF PointersSafe

LEMMA SizeStep ==
  ASSUME Sound, NEW b \in InUse, NEW size \in Reservations, AppendSize(b, size)
  PROVE  Sound' /\ \E k \in Nat :
           Grows(b, k) /\ Adds(b, k, Unwritten(size)) /\ Reserves(b, size)
<1> DEFINE old == Len(buffers)
           current == builders[b].current
<1>1. HeapSafe /\ BuildersSafe /\ PointersSafe
  BY SoundParts
<1>2. /\ old \in Nat /\ b \in Builders /\ current \in 1 .. old
      /\ buffers[current] = Current(b) /\ Current(b).next = 0
      /\ Current(b).data \in Data /\ Len(Current(b).data) \in Nat
      /\ Room(b) \in Nat /\ Room(b) = Capacity - Len(Current(b).data)
  BY <1>1, CurrentTypes
<1>3. size \in Nat /\ size <= Capacity /\ Capacity \in Nat /\ size # 0
  BY ReservationsAssumption, CapacityAssumption
<1>4. buffers \in Seq(Buffers) /\ \A i \in 1 .. old : Len(buffers[i].data) \in Nat
  BY <1>1, BufferTypes DEF HeapSafe
<1>5. appended' = appended
  BY DEF AppendSize
<1>6. CASE size <= Room(b)
  <2> DEFINE more == [next |-> Current(b).next, data |-> Reserved(Current(b).data, size)]
  <2>1. /\ buffers' = [buffers EXCEPT ![current].data = Reserved(@, size)]
        /\ pointers' = pointers \cup {[buffer |-> current, offset |-> Len(Current(b).data),
                                       size |-> size]}
        /\ builders' = builders
    BY <1>6 DEF AppendSize
  <2>2. /\ more \in Buffers /\ more.next = 0 /\ Len(more.data) = Len(Current(b).data) + size
        /\ IsJoin(Current(b).data, Unwritten(size), more.data)
    <3>1. /\ Reserved(Current(b).data, size) \in Data
          /\ Len(Reserved(Current(b).data, size)) = Len(Current(b).data) + size
          /\ IsJoin(Current(b).data, Unwritten(size), Reserved(Current(b).data, size))
      BY <1>2, <1>3, ReservedTypes DEF IsJoin
    <3>2. more.next = 0 /\ more.data = Reserved(Current(b).data, size)
      BY <1>2
    <3>3. more = [next |-> 0, data |-> Reserved(Current(b).data, size)]
      BY <1>2
    <3>4. more \in Buffers
      BY <3>1, <3>3 DEF Buffers, Data
    <3> QED  BY <3>1, <3>2, <3>4
  <2>3. buffers' = [buffers EXCEPT ![current] = more]
    <3>1. buffers[current] \in Buffers
      BY <1>2, <1>4, BufferTypes
    <3>2. [buffers[current] EXCEPT !.data = Reserved(@, size)] = more
      BY <1>2, <3>1 DEF Buffers
    <3> QED  BY <2>1, <3>2
  <2> HIDE DEF more
  <2>4. /\ buffers' \in Seq(Buffers) /\ Len(buffers') = old
        /\ \A i \in 1 .. old : buffers'[i] = IF i = current THEN more ELSE buffers[i]
    BY <1>2, <1>4, <2>2, <2>3, ExceptSeq
  <2>5. /\ buffers'[current] = more
        /\ \A i \in 1 .. old : i # current => buffers'[i] = buffers[i]
    BY <1>2, <2>4
  <2>6. builders' = [builders EXCEPT ![b].current = current]
    <3>1. builders \in [Builders -> [first : 1 .. old, current : 1 .. old]]
      BY <1>1 DEF BuildersSafe
    <3> QED  BY <1>2, <2>1, <3>1
  <2>7. Grows(b, 0)
    <3>1. Len(Current(b).data) <= Len(more.data) /\ Len(more.data) <= Capacity
      BY <1>2, <1>3, <1>6, <2>2
    <3>2. old + 0 = old /\ old + 1 .. old + 0 = {}
      BY <1>2
    <3> QED  BY <1>5, <2>2, <2>4, <2>5, <2>6, <3>1, <3>2 DEF Grows
  <2>8. HeapSafe' /\ BuildersSafe'
    BY <1>1, <2>7, GrownHeap, GrownBuilders
  <2>9. PointersSafe'
    <3>1. \A i \in 1 .. old : Len(buffers[i].data) <= Len(buffers'[i].data)
      <4> SUFFICES ASSUME NEW i \in 1 .. old
                   PROVE  Len(buffers[i].data) <= Len(buffers'[i].data)
        OBVIOUS
      <4>1. CASE i = current
        BY <1>2, <1>3, <2>2, <2>5, <4>1, SMTT(30)
      <4>2. CASE i # current
        <5>1. buffers'[i] = buffers[i] /\ Len(buffers[i].data) \in Nat
          BY <1>4, <2>5, <4>2
        <5> QED  BY <5>1
      <4> QED  BY <4>1, <4>2
    <3>2. /\ Len(buffers[current].data) <= Len(Current(b).data)
          /\ Len(Current(b).data) + size <= Len(buffers'[current].data)
      BY <1>2, <1>3, <2>2, <2>5
    <3>3. old <= Len(buffers') /\ current \in 1 .. Len(buffers')
      BY <1>2, <2>4
    <3>4. /\ HeapSafe /\ PointersSafe /\ old \in Nat /\ buffers' \in Seq(Buffers)
          /\ Len(Current(b).data) \in Nat /\ size \in Nat
      BY <1>1, <1>2, <1>3, <2>4
    <3>5. pointers' = pointers \cup {[buffer |-> current, offset |-> Len(Current(b).data),
                                     size |-> size]}
      BY <2>1
    <3> QED  BY <3>1, <3>2, <3>3, <3>4, <3>5, OneMorePointer
  <2>10. Sound'
    BY <2>8, <2>9, SoundParts, PTL
  <2>11. Adds(b, 0, Unwritten(size))
    <3> DEFINE none == <<>>
    <3>1. none \in Seq(Data) /\ Len(none) = 0 /\ FlattenSeq(none) = <<>>
      BY FlattenEmpty
    <3>5. 1 .. 0 = {}
      OBVIOUS
    <3>2. IsJoin(Current(b).data, Unwritten(size), buffers'[current].data)
      BY <1>2, <1>3, <2>2, <2>5, ReservedTypes DEF IsJoin
    <3>3. IsJoin(Unwritten(size), FlattenSeq(none), Unwritten(size))
      <4>1. Unwritten(size) \in Data
        BY <1>2, <1>3, ReservedTypes
      <4> QED  BY <3>1, <4>1, ConcatEmptySeq DEF IsJoin, Data
    <3>4. Unwritten(size) \in Data
      BY <1>2, <1>3, ReservedTypes
    <3> HIDE DEF none
    <3> QED  BY <3>1, <3>2, <3>3, <3>4, <3>5 DEF Adds
  <2>12. Reserves(b, size)
    <3>1. builders'[b].current = current
      BY <2>1
    <3> QED  BY <1>2, <2>1, <2>2, <2>5, <3>1 DEF Reserves
  <2> QED  BY <2>7, <2>10, <2>11, <2>12
<1>7. CASE ~(size <= Room(b))
  <2> DEFINE linked == [next |-> old + 1, data |-> Current(b).data]
             new == [next |-> 0, data |-> Reserved(<<>>, size)]
             extended == [buffers EXCEPT ![current] = linked]
  <2>1. /\ buffers' = Append([buffers EXCEPT ![current].next = old + 1], new)
        /\ pointers' = pointers \cup {[buffer |-> old + 1, offset |-> 0, size |-> size]}
        /\ builders' = [builders EXCEPT ![b].current = old + 1]
    BY <1>7 DEF AppendSize
  <2>2. /\ linked \in Buffers /\ linked.next = old + 1 /\ linked.data = Current(b).data
    BY <1>2 DEF Buffers, Data
  <2>3. new \in Buffers /\ new.next = 0 /\ Len(new.data) = size /\ new.data = Unwritten(size)
    <3> DEFINE none == <<>>
    <3>1. none \in Data /\ Len(none) = 0
      BY EmptySeq DEF Data
    <3>2. new.data = Reserved(none, size) /\ new.next = 0
      OBVIOUS
    <3> HIDE DEF none
    <3>3. /\ Reserved(none, size) \in Data /\ Len(Reserved(none, size)) = size
          /\ Reserved(none, size) = Unwritten(size)
      <4>1. none \in Data
        BY DEF Data, none
      <4>2. /\ Reserved(none, size) \in Data /\ Len(Reserved(none, size)) = Len(none) + size
            /\ Unwritten(size) \in Data /\ IsJoin(none, Unwritten(size), Reserved(none, size))
        BY <1>3, <4>1, ReservedTypes
      <4>3. Reserved(none, size) = Unwritten(size)
        BY <4>2, ConcatEmptySeq DEF IsJoin, Data, none
      <4> QED  BY <1>3, <3>1, <4>2, <4>3
    <3> QED  BY <3>2, <3>3 DEF Buffers, Data
  <2>4. [buffers EXCEPT ![current].next = old + 1] = extended
    <3>1. buffers[current] \in Buffers
      BY <1>2, <1>4, BufferTypes
    <3>2. [buffers[current] EXCEPT !.next = old + 1] = linked
      BY <1>2, <3>1 DEF Buffers
    <3> QED  BY <3>2
  <2> HIDE DEF linked, new
  <2>5. /\ extended \in Seq(Buffers) /\ Len(extended) = old
        /\ \A i \in 1 .. old : extended[i] = IF i = current THEN linked ELSE buffers[i]
    BY <1>2, <1>4, <2>2, ExceptSeq
  <2>6. buffers' = Append(extended, new)
    BY <2>1, <2>4
  <2> HIDE DEF extended
  <2>7. /\ buffers' \in Seq(Buffers) /\ Len(buffers') = old + 1
        /\ \A i \in 1 .. old : buffers'[i] = extended[i]
        /\ buffers'[old + 1] = new
    BY <1>2, <2>3, <2>5, <2>6, AppendProperties
  <2>8. /\ buffers'[current] = linked
        /\ \A i \in 1 .. old : i # current => buffers'[i] = buffers[i]
    BY <1>2, <2>5, <2>7
  <2>9. Grows(b, 1)
    <3>1. Len(Current(b).data) <= Len(linked.data) /\ Len(linked.data) <= Capacity
      BY <1>2, <1>3, <2>2
    <3>2. \A i \in old + 1 .. old + 1 :
            /\ buffers'[i].next = IF i = old + 1 THEN 0 ELSE i + 1
            /\ Len(buffers'[i].data) <= Capacity
      <4>1. \A i \in old + 1 .. old + 1 : i = old + 1
        BY <1>2
      <4> QED  BY <1>3, <2>3, <2>7, <4>1
    <3>3. 1 # 0
      OBVIOUS
    <3>4. /\ Len(Current(b).data) <= Len(buffers'[current].data)
          /\ Len(buffers'[current].data) <= Capacity
          /\ buffers'[current].next = old + 1
      BY <2>2, <2>8, <3>1
    <3> HIDE DEF old, current
    <3> QED  BY <1>5, <2>1, <2>7, <2>8, <3>2, <3>3, <3>4 DEF Grows, old, current
  <2>10. HeapSafe' /\ BuildersSafe'
    BY <1>1, <2>9, GrownHeap, GrownBuilders
  <2>11. PointersSafe'
    <3>1. \A i \in 1 .. old : Len(buffers[i].data) <= Len(buffers'[i].data)
      BY <1>2, <1>4, <2>2, <2>8
    <3>2. 0 + size <= Len(buffers'[old + 1].data) /\ old + 1 \notin 1 .. old
          /\ old + 1 \in 1 .. Len(buffers') /\ old <= Len(buffers')
      BY <1>2, <1>3, <2>3, <2>7
    <3>3. /\ HeapSafe /\ PointersSafe /\ old \in Nat /\ buffers' \in Seq(Buffers)
          /\ 0 \in Nat /\ size \in Nat
      BY <1>1, <1>2, <1>3, <2>7
    <3>4. pointers' = pointers \cup {[buffer |-> old + 1, offset |-> 0, size |-> size]}
      BY <2>1
    <3> QED  BY <3>1, <3>2, <3>3, <3>4, OneMorePointer
  <2>12. Sound'
    BY <2>10, <2>11, SoundParts, PTL
  <2>13. Adds(b, 1, Unwritten(size))
    <3> DEFINE none == <<>>
               unset == Unwritten(size)
               pieces == <<unset>>
    <3>1. unset \in Data /\ none \in Data
      <4>1. none \in Data
        BY DEF Data
      <4>2. unset \in Data
        BY <1>2, <1>3, ReservedTypes
      <4> QED  BY <4>1, <4>2
    <3>2. pieces \in Seq(Data) /\ Len(pieces) = 1 /\ pieces[1] = unset
      BY <3>1
    <3>3. FlattenSeq(pieces) = unset
      <4> HIDE DEF unset
      <4> QED  BY <3>1, FlattenOne DEF Data
    <3>4. IsJoin(none, FlattenSeq(pieces), unset)
      <4> HIDE DEF unset, pieces
      <4> QED  BY <3>1, <3>3, ConcatEmptySeq DEF IsJoin, Data
    <3>5. IsJoin(Current(b).data, none, buffers'[current].data)
      BY <1>2, <2>2, <2>8, ConcatEmptySeq DEF IsJoin, Data
    <3>6. \A i \in 1 .. 1, j \in Nat : j = old + i => buffers'[j].data = pieces[i]
      BY <2>3, <2>7, <3>2
    <3> HIDE DEF none, unset, pieces
    <3> QED  BY <3>1, <3>2, <3>4, <3>5, <3>6 DEF Adds, unset
  <2>14. Reserves(b, size)
    <3>1. builders'[b].current = old + 1
      <4>1. builders \in [Builders -> [first : 1 .. old, current : 1 .. old]]
        BY <1>1 DEF BuildersSafe
      <4> QED  BY <1>2, <2>1, <4>1
    <3>2. Len(buffers'[old + 1].data) = 0 + size /\ 0 \in Nat
      BY <1>3, <2>3, <2>7
    <3> QED  BY <2>1, <3>1, <3>2 DEF Reserves
  <2> QED  BY <2>9, <2>12, <2>13, <2>14
<1> QED  BY <1>6, <1>7

(* Bytes written through a pointer change nothing that safety is about.    *)
LEMMA PatchStep ==
  ASSUME Sound, NEW pointer \in pointers, NEW bytes \in Strings, Patch(pointer, bytes)
  PROVE  Sound'
<1> DEFINE old == Len(buffers)
           at == pointer.buffer
           before == buffers[at]
           Byte(i) == IF i - pointer.offset \in 1 .. pointer.size
                      THEN bytes[i - pointer.offset] ELSE before.data[i]
           after == [i \in DOMAIN before.data |-> Byte(i)]
           patched == [next |-> before.next, data |-> after]
<1>1. HeapSafe /\ BuildersSafe /\ PointersSafe
  BY SoundParts
<1>2. /\ old \in Nat /\ at \in 1 .. old /\ before \in Buffers /\ before.next \in Nat
      /\ before.data \in Data /\ Len(before.data) \in Nat
  <2>1. old \in Nat /\ at \in 1 .. old /\ buffers \in Seq(Buffers)
    BY <1>1, BufferTypes DEF HeapSafe, PointersSafe
  <2> QED  BY <2>1, BufferTypes
<1>3. pointer.offset \in Nat /\ pointer.size \in Nat
  BY <1>1 DEF PointersSafe, Pointers
<1>4. bytes \in Seq(Bytes) /\ Len(bytes) = pointer.size
  BY InputsAssumption DEF Patch
<1>5. after \in Data /\ Len(after) = Len(before.data)
  <2>1. DOMAIN before.data = 1 .. Len(before.data)
        /\ \A i \in 1 .. Len(before.data) : before.data[i] \in Bytes \cup {Unset}
    BY <1>2, LenProperties DEF Data
  <2>2. \A i \in 1 .. pointer.size : bytes[i] \in Bytes
    BY <1>4, LenProperties
  <2>3. \A i \in 1 .. Len(before.data) : Byte(i) \in Bytes \cup {Unset}
    BY <2>1, <2>2
  <2>4. after = [i \in 1 .. Len(before.data) |-> Byte(i)]
    BY <2>1
  <2> HIDE DEF Byte, before, after
  <2> QED  BY <1>2, <2>3, <2>4 DEF Data
<1>6. buffers' = [buffers EXCEPT ![at] = patched]
  <2>1. buffers' = [buffers EXCEPT ![at].data =
                     [i \in DOMAIN @ |-> IF i - pointer.offset \in 1 .. pointer.size
                                         THEN bytes[i - pointer.offset] ELSE @[i]]]
    BY DEF Patch
  <2>2. [before EXCEPT !.data = after] = patched
    <3> HIDE DEF before, after
    <3> QED  BY <1>2 DEF Buffers
  <2>3. buffers' = [buffers EXCEPT ![at] = [before EXCEPT !.data = after]]
    BY <2>1
  <2> QED  BY <2>2, <2>3
<1>7. patched \in Buffers /\ patched.next = before.next /\ Len(patched.data) = Len(before.data)
  <2>1. patched.next = before.next /\ patched.data = after
    OBVIOUS
  <2>2. patched \in Buffers
    <3> HIDE DEF after, before
    <3> QED  BY <1>2, <1>5 DEF Buffers, Data
  <2> HIDE DEF patched
  <2> QED  BY <1>5, <2>1, <2>2
<1> HIDE DEF patched
<1>8. /\ buffers' \in Seq(Buffers) /\ Len(buffers') = old
      /\ \A i \in 1 .. old : buffers'[i] = IF i = at THEN patched ELSE buffers[i]
  BY <1>1, <1>2, <1>6, <1>7, ExceptSeq DEF HeapSafe
<1>9. \A i \in 1 .. old :
        buffers'[i].next = buffers[i].next /\ Len(buffers'[i].data) = Len(buffers[i].data)
  BY <1>7, <1>8
<1>10. builders' = builders /\ pointers' = pointers /\ appended' = appended /\ InUse' = InUse
  BY DEF Patch, InUse
<1>11. HeapSafe'
  BY <1>1, <1>8, <1>9 DEF HeapSafe
<1>12. BuildersSafe'
  <2>1. \A b \in InUse : builders[b].current \in 1 .. old
    BY <1>1 DEF BuildersSafe, InUse
  <2> QED  BY <1>1, <1>8, <1>9, <1>10, <2>1 DEF BuildersSafe, CurrentsDiffer, Current
<1>13. PointersSafe'
  BY <1>1, <1>8, <1>9, <1>10 DEF PointersSafe
<1> QED  BY <1>11, <1>12, <1>13, SoundParts, PTL

(* A list linked behind another one: the list before it ended in a current *)
(* buffer, and no link led to its own first buffer.                        *)
LEMMA BuilderStep ==
  ASSUME Sound, NEW b \in Builders, NEW append \in Builders, AppendBuilder(b, append)
  PROVE  Sound'
<1> DEFINE old == Len(buffers)
           current == builders[b].current
           before == buffers[current]
           first == builders[append].first
           linked == [next |-> first, data |-> before.data]
<1>1. HeapSafe /\ BuildersSafe /\ PointersSafe
  BY SoundParts
<1>2. b \in InUse /\ append \in InUse /\ b # append
  BY DEF AppendBuilder, InUse
<1>3. /\ old \in Nat /\ current \in 1 .. old /\ before.next = 0
      /\ before \in Buffers /\ before.data \in Data /\ Len(before.data) \in Nat
  BY <1>1, <1>2, CurrentTypes, BufferTypes DEF HeapSafe
<1>4. first \in 1 .. old
  BY <1>1 DEF BuildersSafe
<1>5. linked \in Buffers /\ linked.next = first /\ linked.data = before.data
  BY <1>3, <1>4 DEF Buffers, Data
<1>6. buffers' = [buffers EXCEPT ![current] = linked]
  <2>1. buffers' = [buffers EXCEPT ![current].next = first]
    BY DEF AppendBuilder
  <2>2. [before EXCEPT !.next = first] = linked
    BY <1>3 DEF Buffers
  <2> QED  BY <2>1, <2>2
<1> HIDE DEF linked
<1>7. /\ buffers' \in Seq(Buffers) /\ Len(buffers') = old
      /\ \A i \in 1 .. old : buffers'[i] = IF i = current THEN linked ELSE buffers[i]
  BY <1>1, <1>3, <1>5, <1>6, ExceptSeq DEF HeapSafe
<1>8. \A i \in 1 .. old :
        /\ buffers'[i].next = IF i = current THEN first ELSE buffers[i].next
        /\ buffers'[i].data = buffers[i].data
  BY <1>5, <1>7
<1>9. \A i \in 1 .. old : buffers[i].next # first
  BY <1>1, <1>2 DEF BuildersSafe
<1>10. HeapSafe'
  <2>1. ASSUME NEW i \in 1 .. old
        PROVE  Len(buffers'[i].data) <= Capacity /\ buffers'[i].next \in 0 .. old
    BY <1>1, <1>3, <1>4, <1>8, SMTT(30) DEF HeapSafe
  <2>2. ASSUME NEW i \in 1 .. old, NEW j \in 1 .. old,
               buffers'[i].next = buffers'[j].next, buffers'[i].next # 0
        PROVE  i = j
    BY <1>1, <1>8, <1>9, <2>2 DEF HeapSafe
  <2> QED  BY <1>7, <2>1, <2>2 DEF HeapSafe
<1>11. /\ builders' = [builders EXCEPT ![b].current = builders[append].current]
       /\ pointers' = pointers /\ appended' = appended \cup {append}
       /\ InUse' = InUse \ {append}
  BY DEF AppendBuilder, InUse
<1>12. builders \in [Builders -> [first : 1 .. old, current : 1 .. old]]
  BY <1>1 DEF BuildersSafe
<1>13. \A c \in Builders :
         /\ builders'[c].first = builders[c].first
         /\ builders'[c].current = IF c = b THEN builders[append].current ELSE builders[c].current
  BY <1>11, <1>12
<1>14. BuildersSafe'
  <2>1. builders' \in [Builders -> [first : 1 .. Len(buffers'), current : 1 .. Len(buffers')]]
    BY <1>7, <1>11, <1>12
  <2>2. appended' \subseteq Builders /\ InUse' \subseteq InUse /\ InUse \subseteq Builders
    BY <1>1, <1>11 DEF BuildersSafe, InUse
  <2>3. ASSUME NEW c \in InUse'
        PROVE  /\ buffers'[builders'[c].current].next = 0
               /\ \A i \in 1 .. old : buffers'[i].next # builders'[c].first
    <3>1. c \in InUse /\ c \in Builders /\ c # append
      BY <1>11, <2>2
    <3>2. \A d \in InUse : /\ buffers[builders[d].current].next = 0
                           /\ builders[d].current \in 1 .. old
                           /\ d # b => builders[d].current # current
      BY <1>1, <1>2, <1>12 DEF BuildersSafe, CurrentsDiffer, Current, InUse
    <3>3. buffers'[builders'[c].current].next = 0
      <4>1. CASE c = b
        BY <1>2, <1>8, <1>13, <3>1, <3>2, <4>1
      <4>2. CASE c # b
        BY <1>8, <1>13, <3>1, <3>2, <4>2
      <4> QED  BY <4>1, <4>2
    <3>4. /\ \A i \in 1 .. old : buffers[i].next # builders[c].first
          /\ first # builders[c].first
      BY <1>1, <1>2, <3>1 DEF BuildersSafe
    <3>5. \A i \in 1 .. old : buffers'[i].next # builders'[c].first
      BY <1>8, <1>13, <3>1, <3>4
    <3> QED  BY <3>3, <3>5
  <2>4. \A c, d \in InUse : c # d => /\ builders[c].first # builders[d].first
                                     /\ builders[c].current # builders[d].current
    BY <1>1 DEF BuildersSafe, CurrentsDiffer
  <2>5. \A c, d \in InUse' : c # d => /\ builders'[c].first # builders'[d].first
                                      /\ builders'[c].current # builders'[d].current
    BY <1>2, <1>11, <1>13, <2>2, <2>4
  <2> QED  BY <1>7, <2>1, <2>2, <2>3, <2>5 DEF BuildersSafe, CurrentsDiffer, Current
<1>15. PointersSafe'
  BY <1>1, <1>7, <1>8, <1>11 DEF PointersSafe
<1> QED  BY <1>10, <1>14, <1>15, SoundParts, PTL

-----------------------------------------------------------------------------
(* The theorem.                                                            *)

LEMMA InitSound == Init => Sound
<1> SUFFICES ASSUME Init PROVE HeapSafe /\ BuildersSafe /\ PointersSafe
  BY SoundParts
<1> DEFINE n == Cardinality(Builders)
<1>1. n \in Nat
  BY BuildersAssumption, FS_CardinalityType
<1>2. buffers = [i \in 1 .. n |-> NewBuffer] /\ pointers = {} /\ appended = {} /\ InUse = Builders
  BY DEF Init, InUse
<1>3. PICK order \in [Builders -> 1 .. n] :
        /\ \A b, c \in Builders : b # c => order[b] # order[c]
        /\ builders = [b \in Builders |-> [first |-> order[b], current |-> order[b]]]
  BY DEF Init
<1> HIDE DEF n
<1>4. NewBuffer \in Buffers /\ NewBuffer.next = 0 /\ Len(NewBuffer.data) = 0
  <2>1. <<>> \in Data /\ Len(<<>>) = 0
    BY EmptySeq DEF Data
  <2> QED  BY <2>1 DEF NewBuffer, Buffers, Data
<1> DEFINE new == NewBuffer
<1> HIDE DEF new
<1>5. buffers \in Seq(Buffers) /\ Len(buffers) = n /\ \A i \in 1 .. n : buffers[i] = new
  BY <1>1, <1>2, <1>4 DEF new
<1>6. HeapSafe
  BY <1>1, <1>4, <1>5, CapacityAssumption DEF HeapSafe, new
<1>7. \A b \in Builders : /\ order[b] \in 1 .. n
                          /\ builders[b].first = order[b] /\ builders[b].current = order[b]
  BY <1>3
<1>8. builders \in [Builders -> [first : 1 .. Len(buffers), current : 1 .. Len(buffers)]]
  BY <1>3, <1>5
<1>9. \A b \in InUse : /\ Current(b).next = 0
                       /\ \A i \in 1 .. Len(buffers) : buffers[i].next # builders[b].first
  <2> SUFFICES ASSUME NEW b \in Builders
               PROVE  /\ buffers[builders[b].current].next = 0
                      /\ \A i \in 1 .. n : buffers[i].next # builders[b].first
    BY <1>2, <1>5 DEF Current
  <2>1. \A i \in 1 .. n : buffers[i].next = 0
    BY <1>4, <1>5 DEF new
  <2> QED  BY <1>1, <1>7, <2>1
<1>10. BuildersSafe
  <2>1. \A b, c \in InUse : b # c => /\ builders[b].first # builders[c].first
                                    /\ builders[b].current # builders[c].current
    BY <1>2, <1>3, <1>7
  <2>2. appended \subseteq Builders
    BY <1>2
  <2> QED  BY <1>8, <1>9, <2>1, <2>2, Zenon DEF BuildersSafe, CurrentsDiffer
<1>11. PointersSafe
  BY <1>2 DEF PointersSafe
<1> QED  BY <1>6, <1>10, <1>11

LEMMA StepSound == Sound /\ [Next]_vars => Sound'
<1> SUFFICES ASSUME Sound, [Next]_vars PROVE Sound'
  OBVIOUS
<1>1. ASSUME NEW b \in Builders, AppendBytesTo(b) PROVE Sound'
  <2>1. PICK str \in Strings : AppendString(b, str)
    BY <1>1 DEF AppendBytesTo
  <2>2. b \in InUse /\ str \in Seq(Bytes)
    BY <1>1, InputsAssumption DEF AppendBytesTo, InUse
  <2> QED  BY <2>1, <2>2, StringStep
<1>2. ASSUME NEW b \in Builders, NEW alignment \in Alignments, Align(b, alignment) PROVE Sound'
  <2>1. PICK padding \in 1 .. alignment - 1 :
          AppendString(b, [i \in 1 .. padding |-> Fill])
    BY <1>2 DEF Align
  <2>2. alignment \in Nat /\ padding \in Nat /\ Fill \in Bytes /\ b \in InUse
    BY <1>2, InputsAssumption DEF Align, InUse
  <2> DEFINE str == [i \in 1 .. padding |-> Fill]
  <2>3. str \in Seq(Bytes)
    BY <2>2
  <2>4. AppendString(b, str)
    BY <2>1
  <2> HIDE DEF str
  <2> QED  BY <2>2, <2>3, <2>4, StringStep
<1>3. ASSUME NEW b \in Builders, NEW size \in Reservations, AppendSize(b, size) PROVE Sound'
  <2>1. b \in InUse
    BY <1>3 DEF AppendSize, InUse
  <2> QED  BY <1>3, <2>1, SizeStep
<1>4. ASSUME NEW pointer \in pointers, NEW bytes \in Strings, Patch(pointer, bytes) PROVE Sound'
  BY <1>4, PatchStep
<1>5. ASSUME NEW b \in Builders, NEW append \in Builders, AppendBuilder(b, append) PROVE Sound'
  BY <1>5, BuilderStep
<1>6. CASE UNCHANGED vars
  BY <1>6 DEF vars, Sound, MemorySafe, TypeOK, CurrentsDiffer, InUse, Current
<1> QED  BY <1>1, <1>2, <1>3, <1>4, <1>5, <1>6 DEF Next

(* Whatever the builders are asked for, no buffer overflows, links stay    *)
(* lists, and what string_builder_append_size returned designates bytes    *)
(* of its own for good: the patches of the code generators can be written  *)
(* at any time.                                                            *)
THEOREM BuildersStaySafe == Spec => []MemorySafe
<1>1. Sound => MemorySafe
  BY DEF Sound
<1> QED  BY <1>1, InitSound, StepSound, PTL DEF Spec

-----------------------------------------------------------------------------
(* The lists.  A path is what the links make of a list between two buffers *)
(* of a heap.                                                              *)
Path(path, first, last, heap) ==
  /\ path \in Seq(1 .. Len(heap)) /\ path # <<>>
  /\ path[1] = first /\ path[Len(path)] = last
  /\ \A i \in 1 .. Len(path) - 1 : heap[path[i]].next = path[i + 1]

(* From the first buffer of a builder the links lead to its current one.   *)
Leads(path, b) == Path(path, builders[b].first, builders[b].current, buffers)

ListsLead == \A b \in InUse : \E path : Leads(path, b)

LEMMA PathTypes ==
  ASSUME NEW path, NEW first, NEW last, NEW heap, Len(heap) \in Nat,
         Path(path, first, last, heap)
  PROVE  /\ Len(path) \in Nat /\ Len(path) > 0 /\ path \in [1 .. Len(path) -> 1 .. Len(heap)]
         /\ \A i \in 1 .. Len(path) : path[i] \in 1 .. Len(heap) /\ path[i] # 0
<1>1. path \in Seq(1 .. Len(heap)) /\ path # <<>>
  BY DEF Path
<1>2. Len(path) \in Nat /\ path \in [1 .. Len(path) -> 1 .. Len(heap)]
  BY <1>1, LenProperties
<1>3. Len(path) # 0
  BY <1>1, EmptySeq
<1>4. \A i \in 1 .. Len(path) : path[i] \in 1 .. Len(heap)
  BY <1>2
<1> QED  BY <1>2, <1>3, <1>4

(* A path stays one if no link on it changes.                              *)
LEMMA PathStays ==
  ASSUME NEW path, NEW first, NEW last, NEW heap, NEW after,
         Len(heap) \in Nat, Len(after) \in Nat, Len(heap) <= Len(after),
         Path(path, first, last, heap), NEW x,
         x = last \/ heap[x].next = 0,
         \A i \in 1 .. Len(path) - 1 : path[i] # x,
         \A i \in 1 .. Len(heap) : i # x => after[i].next = heap[i].next
  PROVE  Path(path, first, last, after)
<1>1. /\ Len(path) \in Nat /\ Len(path) > 0 /\ path \in [1 .. Len(path) -> 1 .. Len(heap)]
      /\ path \in Seq(1 .. Len(heap)) /\ path # <<>>
  BY PathTypes DEF Path
<1>2. path \in Seq(1 .. Len(after))
  BY <1>1, SeqMonotonic, 1 .. Len(heap) \subseteq 1 .. Len(after)
<1>3. ASSUME NEW i \in 1 .. Len(path) - 1 PROVE after[path[i]].next = path[i + 1]
  <2>1. i \in 1 .. Len(path)
    BY <1>1
  <2>2. path[i] \in 1 .. Len(heap)
    BY <1>1, <2>1
  <2> QED  BY <2>2 DEF Path
<1> QED  BY <1>1, <1>2, <1>3 DEF Path

(* Where nothing follows, a path ends.                                     *)
LEMMA PathAvoids ==
  ASSUME NEW path, NEW first, NEW last, NEW heap, Len(heap) \in Nat,
         Path(path, first, last, heap), NEW x, heap[x].next = 0
  PROVE  \A i \in 1 .. Len(path) - 1 : path[i] # x
<1> SUFFICES ASSUME NEW i \in 1 .. Len(path) - 1, path[i] = x PROVE FALSE
  OBVIOUS
<1>1. path[i + 1] = 0
  BY DEF Path
<1>2. i + 1 \in 1 .. Len(path)
  BY PathTypes
<1> QED  BY <1>1, <1>2, PathTypes

(* Paths that meet are one.                                                *)
LEMMA PathsJoin ==
  ASSUME NEW p, NEW q, NEW first, NEW middle, NEW next, NEW last, NEW heap,
         Len(heap) \in Nat, Path(p, first, middle, heap), Path(q, next, last, heap),
         heap[middle].next = next
  PROVE  Path(p \o q, first, last, heap)
<1> DEFINE m == Len(p)
           n == Len(q)
           pq == p \o q
<1>1. /\ m \in Nat /\ m > 0 /\ n \in Nat /\ n > 0
      /\ p \in Seq(1 .. Len(heap)) /\ q \in Seq(1 .. Len(heap))
      /\ p[1] = first /\ p[m] = middle /\ q[1] = next /\ q[n] = last
  BY PathTypes DEF Path
<1>2. /\ pq \in Seq(1 .. Len(heap)) /\ Len(pq) = m + n
      /\ \A i \in 1 .. m + n : pq[i] = IF i <= m THEN p[i] ELSE q[i - m]
  BY <1>1, ConcatProperties
<1>3. /\ \A i \in 1 .. m - 1 : heap[p[i]].next = p[i + 1]
      /\ \A i \in 1 .. n - 1 : heap[q[i]].next = q[i + 1]
  BY DEF Path
<1>4. pq # <<>>
  BY <1>1, <1>2, EmptySeq
<1> HIDE DEF pq, m, n
<1>5. ASSUME NEW k \in 1 .. m PROVE pq[k] = p[k]
  <2>1. k \in 1 .. m + n /\ k <= m
    BY <1>1
  <2> QED  BY <1>2, <2>1
<1>6. ASSUME NEW l \in 1 .. n PROVE pq[m + l] = q[l]
  <2>1. PICK k : k = m + l
    OBVIOUS
  <2>2. k \in 1 .. m + n /\ ~(k <= m) /\ k - m = l
    BY <1>1, <2>1
  <2>3. pq[k] = q[k - m]
    BY <1>2, <2>2
  <2> QED  BY <2>1, <2>2, <2>3
<1>7. pq[1] = first /\ pq[m + n] = last
  <2>1. 1 \in 1 .. m /\ n \in 1 .. n
    BY <1>1
  <2> QED  BY <1>1, <1>5, <1>6, <2>1
<1>8. ASSUME NEW i \in 1 .. (m + n) - 1 PROVE heap[pq[i]].next = pq[i + 1]
  <2>1. CASE i < m
    <3>1. i \in 1 .. m - 1 /\ i \in 1 .. m /\ i + 1 \in 1 .. m
      BY <1>1, <2>1
    <3> QED  BY <1>3, <1>5, <3>1
  <2>2. CASE i = m
    <3>1. m \in 1 .. m /\ 1 \in 1 .. n
      BY <1>1
    <3>2. pq[i] = middle /\ pq[i + 1] = next
      BY <1>1, <1>5, <1>6, <2>2, <3>1
    <3> QED  BY <3>2
  <2>3. CASE i > m
    <3>1. PICK l : l = i - m
      OBVIOUS
    <3>2. l \in 1 .. n - 1 /\ l \in 1 .. n /\ l + 1 \in 1 .. n /\ i = m + l /\ i + 1 = m + (l + 1)
      BY <1>1, <2>3, <3>1
    <3>3. pq[i] = q[l] /\ pq[i + 1] = q[l + 1]
      BY <1>6, <3>2
    <3> QED  BY <1>3, <3>2, <3>3
  <2> QED  BY <1>1, <2>1, <2>2, <2>3
<1>9. Path(pq, first, last, heap)
  BY <1>2, <1>4, <1>7, <1>8 DEF Path
<1> QED  BY <1>9 DEF pq

(* Two paths that start where no link leads have no buffer in common,      *)
(* unless they start at the same: none is passed twice.                    *)
LEMMA PathsApart ==
  ASSUME NEW heap, Len(heap) \in Nat,
         \A i, j \in 1 .. Len(heap) :
           heap[i].next = heap[j].next => i = j \/ heap[i].next = 0,
         NEW p, NEW first, NEW last, Path(p, first, last, heap),
         NEW q, NEW start, NEW end, Path(q, start, end, heap),
         \A i \in 1 .. Len(heap) : heap[i].next # first /\ heap[i].next # start,
         NEW i \in 1 .. Len(p), NEW j \in 1 .. Len(q), p[i] = q[j]
  PROVE  i = j /\ first = start
<1>1. /\ Len(p) \in Nat /\ Len(p) > 0 /\ Len(q) \in Nat /\ Len(q) > 0
      /\ \A k \in 1 .. Len(p) : p[k] \in 1 .. Len(heap) /\ p[k] # 0
      /\ \A k \in 1 .. Len(q) : q[k] \in 1 .. Len(heap) /\ q[k] # 0
  BY PathTypes
<1>2. p[1] = first /\ q[1] = start
  BY DEF Path
<1>3. ASSUME NEW k \in 1 .. Len(p), k # 1
      PROVE  k - 1 \in 1 .. Len(p) /\ p[k - 1] \in 1 .. Len(heap) /\ heap[p[k - 1]].next = p[k]
  <2>1. k - 1 \in 1 .. Len(p) - 1 /\ k - 1 \in 1 .. Len(p) /\ (k - 1) + 1 = k
    BY <1>1, <1>3
  <2> QED  BY <1>1, <2>1 DEF Path
<1>4. ASSUME NEW k \in 1 .. Len(q), k # 1
      PROVE  k - 1 \in 1 .. Len(q) /\ q[k - 1] \in 1 .. Len(heap) /\ heap[q[k - 1]].next = q[k]
  <2>1. k - 1 \in 1 .. Len(q) - 1 /\ k - 1 \in 1 .. Len(q) /\ (k - 1) + 1 = k
    BY <1>1, <1>4
  <2> QED  BY <1>1, <2>1 DEF Path
<1> DEFINE Same(k, l) == p[k] = q[l] => k = l /\ first = start
           S == {n \in Nat : n + 1 \in 1 .. Len(p) => \A l \in 1 .. Len(q) : Same(n + 1, l)}
<1>5. 0 \in S
  <2>1. ASSUME NEW l \in 1 .. Len(q), p[1] = q[l] PROVE l = 1 /\ first = start
    BY <1>2, <1>4, <2>1
  <2> QED  BY <2>1
<1>6. ASSUME NEW n \in Nat, n \in S PROVE n + 1 \in S
  <2> SUFFICES ASSUME (n + 1) + 1 \in 1 .. Len(p), NEW l \in 1 .. Len(q), p[(n + 1) + 1] = q[l]
               PROVE  (n + 1) + 1 = l /\ first = start
    OBVIOUS
  <2>1. /\ (n + 1) + 1 # 1 /\ ((n + 1) + 1) - 1 = n + 1 /\ n + 1 \in 1 .. Len(p)
        /\ p[n + 1] \in 1 .. Len(heap) /\ heap[p[n + 1]].next = p[(n + 1) + 1]
    <3>1. (n + 1) + 1 # 1 /\ ((n + 1) + 1) - 1 = n + 1
      OBVIOUS
    <3> QED  BY <1>3, <3>1
  <2>2. l # 1
    BY <1>2, <2>1
  <2>3. l - 1 \in 1 .. Len(q) /\ q[l - 1] \in 1 .. Len(heap) /\ heap[q[l - 1]].next = q[l]
    BY <1>4, <2>2
  <2>4. p[n + 1] = q[l - 1]
    BY <1>1, <2>1, <2>3
  <2>5. n + 1 = l - 1 /\ first = start
    BY <1>6, <2>1, <2>3, <2>4
  <2> QED  BY <2>5
<1>7. Nat \subseteq S
  <2> HIDE DEF S
  <2> QED  BY <1>5, <1>6, NatSetInduction
<1>8. i - 1 \in S /\ (i - 1) + 1 = i
  <2>1. i - 1 \in Nat /\ (i - 1) + 1 = i
    OBVIOUS
  <2> HIDE DEF S
  <2> QED  BY <1>7, <2>1
<1> QED  BY <1>8

(* What is linked behind the current buffer of a builder is on the way     *)
(* from its first buffer to the new current one.                           *)
NewOnes(old, k) == [i \in 1 .. k |-> old + i]

LEMMA GrownPath ==
  ASSUME Sound, NEW b \in InUse, NEW k \in Nat, Grows(b, k),
         NEW c \in InUse, NEW path, Leads(path, c), NEW new, new = NewOnes(Len(buffers), k)
  PROVE  /\ c # b => Leads(path, c)'
         /\ c = b => Leads(path \o new, b)'
<1> DEFINE old == Len(buffers)
           current == builders[b].current
<1>1. HeapSafe /\ BuildersSafe
  BY SoundParts
<1>2. old \in Nat /\ current \in 1 .. old /\ Len(buffers') = old + k /\ buffers[current].next = 0
  BY <1>1, CurrentTypes DEF Grows
<1>3. /\ builders'[c].first = builders[c].first
      /\ builders'[c].current = IF c = b /\ k # 0 THEN old + k ELSE builders[c].current
  <2>1. builders \in [Builders -> [first : 1 .. old, current : 1 .. old]]
    BY <1>1 DEF BuildersSafe
  <2> QED  BY <2>1 DEF Grows, InUse
<1>4. /\ \A i \in 1 .. old : i # current => buffers'[i].next = buffers[i].next
      /\ buffers'[current].next = IF k = 0 THEN 0 ELSE old + 1
      /\ \A i \in old + 1 .. old + k : buffers'[i].next = IF i = old + k THEN 0 ELSE i + 1
  BY DEF Grows
<1>5. PICK heap : heap = buffers'
  OBVIOUS
<1>6. Path(path, builders[c].first, builders[c].current, heap)
  <2> HIDE DEF current
  <2>1. Path(path, builders[c].first, builders[c].current, buffers)
    BY DEF Leads
  <2>2. \A i \in 1 .. Len(path) - 1 : path[i] # current
    BY <1>2, <2>1, PathAvoids
  <2>3. Len(buffers) \in Nat /\ Len(heap) \in Nat /\ Len(buffers) <= Len(heap)
    BY <1>2, <1>5
  <2>4. \A i \in 1 .. Len(buffers) : i # current => heap[i].next = buffers[i].next
    BY <1>4, <1>5
  <2> QED  BY <1>2, <2>1, <2>2, <2>3, <2>4, PathStays
<1>7. CASE c # b
  BY <1>3, <1>5, <1>6, <1>7 DEF Leads
<1>8. CASE c = b /\ k = 0
  <2>1. new = <<>>
    BY <1>8 DEF NewOnes
  <2>2. path \o new = path
    BY <1>6, <2>1, ConcatEmptySeq DEF Path
  <2>3. Path(path, builders'[b].first, builders'[b].current, heap)
    BY <1>3, <1>6, <1>8
  <2>4. Path(path \o new, builders'[b].first, builders'[b].current, heap)
    BY <2>2, <2>3
  <2>5. Leads(path \o new, b)'
    BY <1>5, <2>4 DEF Leads
  <2> QED  BY <1>8, <2>5
<1>9. CASE c = b /\ k # 0
  <2>1. Path(path, builders[b].first, current, heap)
    BY <1>6, <1>9
  <2> HIDE DEF old, current
  <2>2. /\ new \in Seq(1 .. Len(heap)) /\ Len(new) = k
        /\ \A i \in 1 .. k : new[i] = old + i
    <3>1. \A i \in 1 .. k : old + i \in 1 .. Len(heap)
      BY <1>2, <1>5
    <3> QED  BY <3>1 DEF NewOnes, old
  <2>3. new # <<>> /\ new[1] = old + 1 /\ new[Len(new)] = old + k
    <3>1. k \in 1 .. k /\ 1 \in 1 .. k
      BY <1>9
    <3> QED  BY <1>9, <2>2, <3>1, EmptySeq
  <2>4. ASSUME NEW i \in 1 .. Len(new) - 1 PROVE heap[new[i]].next = new[i + 1]
    <3>1. i \in 1 .. k /\ i + 1 \in 1 .. k /\ old + i \in old + 1 .. old + k /\ old + i # old + k
          /\ (old + i) + 1 = old + (i + 1)
      BY <1>2, <2>2
    <3>2. new[i] = old + i /\ new[i + 1] = old + (i + 1)
      BY <2>2, <3>1
    <3>3. heap[old + i].next = (old + i) + 1
      BY <1>4, <1>5, <3>1
    <3> QED  BY <3>1, <3>2, <3>3
  <2>5. Path(new, old + 1, old + k, heap)
    BY <2>2, <2>3, <2>4 DEF Path
  <2>6. heap[current].next = old + 1 /\ Len(heap) \in Nat
    BY <1>2, <1>4, <1>5, <1>9
  <2>7. Path(path \o new, builders[b].first, old + k, heap)
    BY <2>1, <2>5, <2>6, PathsJoin
  <2>8. builders'[b].first = builders[b].first /\ builders'[b].current = old + k
    BY <1>3, <1>9
  <2>9. Leads(path \o new, b)'
    BY <1>5, <2>7, <2>8 DEF Leads
  <2> QED  BY <1>9, <2>9
<1> QED  BY <1>7, <1>8, <1>9

LEMMA GrownLists ==
  ASSUME Sound, ListsLead, NEW b \in InUse, NEW k \in Nat, Grows(b, k)
  PROVE  ListsLead'
<1>1. InUse' = InUse
  BY DEF Grows, InUse
<1>2. ASSUME NEW c \in InUse PROVE \E path : Leads(path, c)'
  <2>1. PICK path : Leads(path, c)
    BY DEF ListsLead
  <2> QED  BY <2>1, GrownPath
<1> QED  BY <1>1, <1>2 DEF ListsLead

(* A list linked behind another one.                                       *)
LEMMA LinkedPath ==
  ASSUME Sound, NEW b \in Builders, NEW append \in Builders, AppendBuilder(b, append),
         NEW path, NEW c \in InUse, Leads(path, c)
  PROVE  /\ c # b => Leads(path, c)'
         /\ c = b => \A more : Leads(more, append) => Leads(path \o more, b)'
<1> DEFINE old == Len(buffers)
           current == builders[b].current
           first == builders[append].first
<1>1. HeapSafe /\ BuildersSafe
  BY SoundParts
<1>2. b \in InUse /\ append \in InUse /\ b # append
  BY DEF AppendBuilder, InUse
<1>3. old \in Nat /\ current \in 1 .. old /\ buffers[current].next = 0
  BY <1>1, <1>2, CurrentTypes
<1>4. /\ Len(buffers') = old /\ buffers'[current].next = first
      /\ \A i \in 1 .. old : i # current => buffers'[i].next = buffers[i].next
  <2>1. buffers' = [buffers EXCEPT ![current].next = first] /\ buffers \in Seq(Buffers)
    BY <1>1 DEF AppendBuilder, HeapSafe
  <2>2. \A i \in 1 .. old : buffers[i] \in Buffers
    BY <2>1, BufferTypes
  <2>3. DOMAIN buffers' = 1 .. old /\ Len(buffers') = old
    BY <2>1, <1>3
  <2>4. buffers'[current] = [buffers[current] EXCEPT !.next = first]
    BY <1>3, <2>1
  <2> QED  BY <1>3, <2>1, <2>2, <2>3, <2>4 DEF Buffers
<1>5. \A d \in InUse :
        /\ builders'[d].first = builders[d].first
        /\ builders'[d].current = IF d = b THEN builders[append].current ELSE builders[d].current
  <2>1. builders \in [Builders -> [first : 1 .. old, current : 1 .. old]]
    BY <1>1 DEF BuildersSafe
  <2> QED  BY <1>2, <2>1 DEF AppendBuilder, InUse
<1>6. PICK heap : heap = buffers'
  OBVIOUS
<1> HIDE DEF old, current, first
<1>7. ASSUME NEW d \in InUse, NEW p, Leads(p, d)
      PROVE  Path(p, builders[d].first, builders[d].current, heap)
  <2>1. Path(p, builders[d].first, builders[d].current, buffers)
    BY <1>7 DEF Leads
  <2>2. \A i \in 1 .. Len(p) - 1 : p[i] # current
    BY <1>3, <2>1, PathAvoids DEF old
  <2>3. Len(buffers) \in Nat /\ Len(heap) \in Nat /\ Len(buffers) <= Len(heap)
    BY <1>3, <1>4, <1>6 DEF old
  <2>4. \A i \in 1 .. Len(buffers) : i # current => heap[i].next = buffers[i].next
    BY <1>4, <1>6 DEF old
  <2> QED  BY <1>3, <2>1, <2>2, <2>3, <2>4, PathStays
<1>8. ASSUME c = b, NEW more, Leads(more, append)
      PROVE  Path(path \o more, builders[b].first, builders[append].current, heap)
  <2>1. Path(path, builders[b].first, current, heap)
    BY <1>7, <1>8 DEF current
  <2>2. Path(more, first, builders[append].current, heap)
    BY <1>2, <1>7, <1>8 DEF first
  <2>3. heap[current].next = first /\ Len(heap) \in Nat
    BY <1>3, <1>4, <1>6
  <2> QED  BY <2>1, <2>2, <2>3, PathsJoin
<1>9. c # b => Path(path, builders'[c].first, builders'[c].current, heap)
  BY <1>5, <1>7
<1>10. ASSUME c = b, NEW more, Leads(more, append)
       PROVE  Path(path \o more, builders'[b].first, builders'[b].current, heap)
  BY <1>2, <1>5, <1>8, <1>10
<1> QED  BY <1>6, <1>9, <1>10 DEF Leads

LEMMA LinkedLists ==
  ASSUME Sound, ListsLead, NEW b \in Builders, NEW append \in Builders,
         AppendBuilder(b, append)
  PROVE  ListsLead'
<1>1. append \in InUse /\ InUse' \subseteq InUse
  BY DEF AppendBuilder, InUse
<1>2. PICK more : Leads(more, append)
  BY <1>1 DEF ListsLead
<1>3. ASSUME NEW c \in InUse PROVE \E path : Leads(path, c)'
  <2>1. PICK path : Leads(path, c)
    BY DEF ListsLead
  <2> QED  BY <1>2, <2>1, LinkedPath
<1> QED  BY <1>1, <1>3 DEF ListsLead

(* Writing through a pointer changes no link.                              *)
LEMMA PatchedBuffers ==
  ASSUME Sound, NEW pointer \in pointers, NEW bytes \in Strings, Patch(pointer, bytes)
  PROVE  /\ Len(buffers') = Len(buffers) /\ builders' = builders /\ InUse' = InUse
         /\ \A i \in 1 .. Len(buffers) : buffers'[i].next = buffers[i].next
         /\ \A i \in 1 .. Len(buffers) : i # pointer.buffer => buffers'[i] = buffers[i]
         /\ buffers'[pointer.buffer].data =
              [i \in DOMAIN buffers[pointer.buffer].data |->
                 IF i - pointer.offset \in 1 .. pointer.size
                 THEN bytes[i - pointer.offset] ELSE buffers[pointer.buffer].data[i]]
<1> DEFINE at == pointer.buffer
           after == [i \in DOMAIN buffers[at].data |->
                      IF i - pointer.offset \in 1 .. pointer.size
                      THEN bytes[i - pointer.offset] ELSE buffers[at].data[i]]
<1>1. HeapSafe /\ PointersSafe
  BY SoundParts
<1>2. /\ Len(buffers) \in Nat /\ at \in 1 .. Len(buffers)
      /\ \A i \in 1 .. Len(buffers) : buffers[i] \in Buffers
  BY <1>1, BufferTypes DEF HeapSafe, PointersSafe
<1>3. buffers' = [buffers EXCEPT ![at].data = after]
  BY DEF Patch
<1> HIDE DEF after
<1>4. DOMAIN buffers' = 1 .. Len(buffers) /\ Len(buffers') = Len(buffers)
  BY <1>1, <1>2, <1>3 DEF HeapSafe
<1>5. buffers'[at] = [buffers[at] EXCEPT !.data = after]
      /\ \A i \in 1 .. Len(buffers) : i # at => buffers'[i] = buffers[i]
  BY <1>1, <1>2, <1>3 DEF HeapSafe
<1>6. buffers'[at].next = buffers[at].next /\ buffers'[at].data = after
  BY <1>2, <1>5 DEF Buffers
<1>7. builders' = builders /\ InUse' = InUse
  BY DEF Patch, InUse
<1> QED  BY <1>4, <1>5, <1>6, <1>7 DEF after

LEMMA PatchedPath ==
  ASSUME Sound, NEW pointer \in pointers, NEW bytes \in Strings, Patch(pointer, bytes),
         NEW path, NEW c \in InUse, Leads(path, c)
  PROVE  Leads(path, c)'
<1>1. Len(buffers) \in Nat
  BY SoundParts, BufferTypes DEF HeapSafe
<1>2. /\ Len(buffers') = Len(buffers) /\ builders' = builders
      /\ \A i \in 1 .. Len(buffers) : buffers'[i].next = buffers[i].next
  BY PatchedBuffers
<1>3. PICK heap : heap = buffers'
  OBVIOUS
<1>4. Path(path, builders[c].first, builders[c].current, buffers)
  BY DEF Leads
<1>5. Len(path) \in Nat /\ \A i \in 1 .. Len(path) : path[i] \in 1 .. Len(buffers)
  BY <1>1, <1>4, PathTypes
<1>6. \A i \in 1 .. Len(path) - 1 : heap[path[i]].next = buffers[path[i]].next
  <2>1. \A i \in 1 .. Len(path) - 1 : i \in 1 .. Len(path)
    BY <1>5
  <2> QED  BY <1>2, <1>3, <1>5, <2>1
<1>7. Path(path, builders[c].first, builders[c].current, heap)
  BY <1>2, <1>3, <1>4, <1>6 DEF Path
<1> QED  BY <1>2, <1>3, <1>7 DEF Leads

LEMMA PatchedLists ==
  ASSUME Sound, ListsLead, NEW pointer \in pointers, NEW bytes \in Strings,
         Patch(pointer, bytes)
  PROVE  ListsLead'
<1>1. InUse' = InUse
  BY DEF Patch, InUse
<1>2. ASSUME NEW c \in InUse PROVE \E path : Leads(path, c)'
  <2>1. PICK path : Leads(path, c)
    BY DEF ListsLead
  <2> QED  BY <2>1, PatchedPath
<1> QED  BY <1>1, <1>2 DEF ListsLead

LEMMA FirstPath ==
  ASSUME Init, NEW b \in InUse
  PROVE  Leads(<<builders[b].current>>, b) /\ builders[b].current \in 1 .. Len(buffers)
<1>1. HeapSafe /\ BuildersSafe
  BY InitSound, SoundParts
<1>2. builders[b].first = builders[b].current
  BY DEF Init, InUse
<1>3. Len(buffers) \in Nat /\ builders[b].current \in 1 .. Len(buffers)
  BY <1>1, CurrentTypes
<1> DEFINE at == builders[b].current
           path == <<at>>
<1>4. path \in Seq(1 .. Len(buffers)) /\ path # <<>> /\ Len(path) = 1 /\ path[1] = at
  BY <1>3
<1>5. \A i \in 1 .. Len(path) - 1 : buffers[path[i]].next = path[i + 1]
  BY <1>4
<1> HIDE DEF at, path
<1>6. Path(path, at, at, buffers)
  BY <1>4, <1>5 DEF Path
<1> QED  BY <1>2, <1>3, <1>6 DEF Leads, at, path

LEMMA InitLists == Init => ListsLead
BY FirstPath DEF ListsLead

LEMMA StepLists == Sound /\ ListsLead /\ [Next]_vars => ListsLead'
<1> SUFFICES ASSUME Sound, ListsLead, [Next]_vars PROVE ListsLead'
  OBVIOUS
<1>1. ASSUME NEW b \in Builders, AppendBytesTo(b) PROVE ListsLead'
  <2>1. PICK str \in Strings : AppendString(b, str)
    BY <1>1 DEF AppendBytesTo
  <2>2. b \in InUse /\ str \in Seq(Bytes)
    BY <1>1, InputsAssumption DEF AppendBytesTo, InUse
  <2>3. \E k \in Nat : Grows(b, k)
    BY <2>1, <2>2, StringStep
  <2> QED  BY <2>2, <2>3, GrownLists
<1>2. ASSUME NEW b \in Builders, NEW alignment \in Alignments, Align(b, alignment)
      PROVE  ListsLead'
  <2>1. PICK padding \in 1 .. alignment - 1 :
          AppendString(b, [i \in 1 .. padding |-> Fill])
    BY <1>2 DEF Align
  <2>2. alignment \in Nat /\ padding \in Nat /\ Fill \in Bytes /\ b \in InUse
    BY <1>2, InputsAssumption DEF Align, InUse
  <2> DEFINE str == [i \in 1 .. padding |-> Fill]
  <2>3. str \in Seq(Bytes)
    BY <2>2
  <2>4. AppendString(b, str)
    BY <2>1
  <2> HIDE DEF str
  <2>5. \E k \in Nat : Grows(b, k)
    BY <2>2, <2>3, <2>4, StringStep
  <2> QED  BY <2>2, <2>5, GrownLists
<1>3. ASSUME NEW b \in Builders, NEW size \in Reservations, AppendSize(b, size)
      PROVE  ListsLead'
  <2>1. b \in InUse
    BY <1>3 DEF AppendSize, InUse
  <2>2. \E k \in Nat : Grows(b, k)
    BY <1>3, <2>1, SizeStep
  <2> QED  BY <2>1, <2>2, GrownLists
<1>4. ASSUME NEW pointer \in pointers, NEW bytes \in Strings, Patch(pointer, bytes)
      PROVE  ListsLead'
  BY <1>4, PatchedLists
<1>5. ASSUME NEW b \in Builders, NEW append \in Builders, AppendBuilder(b, append)
      PROVE  ListsLead'
  BY <1>5, LinkedLists
<1>6. ASSUME UNCHANGED vars PROVE ListsLead'
  BY <1>6 DEF vars, ListsLead, Leads, InUse
<1> QED  BY <1>1, <1>2, <1>3, <1>4, <1>5, <1>6 DEF Next

(* No path is longer than the heap has buffers.                            *)
LEMMA PathLength ==
  ASSUME NEW n \in Nat, NEW m \in Nat, NEW path \in [1 .. m -> 1 .. n],
         \A i, j \in 1 .. m : path[i] = path[j] => i = j
  PROVE  m <= n
<1>1. IsFiniteSet(1 .. n) /\ Cardinality(1 .. n) = n
  <2>1. 1 \in Int /\ n \in Int
    OBVIOUS
  <2> QED  BY <2>1, FS_Interval
<1>2. IsFiniteSet(1 .. m) /\ Cardinality(1 .. m) = m
  <2>1. 1 \in Int /\ m \in Int
    OBVIOUS
  <2> QED  BY <2>1, FS_Interval
<1>3. path \in Injection(1 .. m, 1 .. n)
  BY DEF Injection, IsInjective
<1> QED  BY <1>1, <1>2, <1>3, FS_Injection

(* The walk from the first buffer of a path ends where the path does.      *)
LEMMA PathFollowed ==
  ASSUME NEW path, NEW first, NEW last, NEW heap, Len(heap) \in Nat,
         Path(path, first, last, heap), heap[last].next = 0, Len(path) <= Len(heap)
  PROVE  Follow(first, heap) = path
<1> DEFINE m == Len(path)
           n == Len(heap)
           Part(k) == SubSeq(path, 1, IF k < m THEN k + 1 ELSE m)
           Walks(f) == f = [k \in 0 .. n |-> IF k = 0 THEN <<first>> ELSE Extend(f[k - 1], heap)]
           parts == [k \in 0 .. n |-> Part(k)]
<1>1. /\ m \in Nat /\ m > 0 /\ m <= n /\ n \in Nat /\ path \in Seq(1 .. n)
      /\ \A i \in 1 .. m : path[i] \in 1 .. n /\ path[i] # 0
      /\ path[1] = first /\ path[m] = last
      /\ \A i \in 1 .. m - 1 : heap[path[i]].next = path[i + 1]
  BY PathTypes DEF Path
<1> HIDE DEF m, n
<1>2. ASSUME NEW k \in Nat
      PROVE  /\ Part(k) \in Seq(1 .. n) /\ Len(Part(k)) = IF k < m THEN k + 1 ELSE m
             /\ \A i \in 1 .. Len(Part(k)) : Part(k)[i] = path[i]
  <2> DEFINE l == IF k < m THEN k + 1 ELSE m
  <2>1. l \in Nat /\ 1 <= l /\ l <= m
    BY <1>1
  <2> HIDE DEF l
  <2>2. \A i \in 1 .. l : path[i] \in 1 .. n
    BY <1>1, <2>1, SMTT(30)
  <2>3. /\ SubSeq(path, 1, l) \in Seq(1 .. n) /\ Len(SubSeq(path, 1, l)) = l
        /\ \A i \in 1 .. l : SubSeq(path, 1, l)[i] = path[i]
    BY <2>1, <2>2, SubSeqProperties
  <2> QED  BY <2>3 DEF l
<1> HIDE DEF Part
<1>3. Part(0) = <<first>>
  <2>1. 0 \in Nat /\ 0 < m /\ 0 + 1 = 1 /\ 1 \in 1 .. 1
    BY <1>1
  <2>2. Len(Part(0)) = 1 /\ Part(0) \in Seq(1 .. n)
    BY <1>2, <2>1
  <2>3. Part(0)[1] = first
    BY <1>1, <1>2, <2>1, <2>2, ZenonT(60)
  <2> QED  BY <2>2, <2>3
<1>4. ASSUME NEW k \in Nat PROVE Part(k + 1) = Extend(Part(k), heap)
  <2> DEFINE p == Part(k)
             q == Part(k + 1)
  <2>1. /\ p \in Seq(1 .. n) /\ Len(p) = (IF k < m THEN k + 1 ELSE m)
        /\ \A i \in 1 .. Len(p) : p[i] = path[i]
    BY <1>2
  <2>2. /\ q \in Seq(1 .. n) /\ Len(q) = (IF k + 1 < m THEN (k + 1) + 1 ELSE m)
        /\ \A i \in 1 .. Len(q) : q[i] = path[i]
    <3>1. k + 1 \in Nat
      OBVIOUS
    <3> QED  BY <1>2, <3>1
  <2> HIDE DEF p, q
  <2>3. Last(p) = path[Len(p)]
    <3>1. Len(p) \in 1 .. Len(p)
      BY <1>1, <2>1
    <3> QED  BY <2>1, <3>1 DEF Last
  <2>4. CASE k + 1 < m
    <3>1. Len(p) = k + 1 /\ Len(q) = k + 2 /\ k + 1 \in 1 .. m - 1 /\ k + 2 \in 1 .. m
      BY <1>1, <2>1, <2>2, <2>4
    <3>2. heap[Last(p)].next = path[k + 2] /\ path[k + 2] \in 1 .. n /\ path[k + 2] # 0
      <4>1. (k + 1) + 1 = k + 2
        OBVIOUS
      <4>2. Last(p) = path[k + 1]
        BY <2>3, <3>1
      <4>3. heap[path[k + 1]].next = path[k + 2]
        BY <1>1, <3>1, <4>1
      <4>4. path[k + 2] \in 1 .. n /\ path[k + 2] # 0
        BY <1>1, <3>1
      <4> QED  BY <4>2, <4>3, <4>4
    <3>3. Extend(p, heap) = Append(p, path[k + 2])
      BY <3>2 DEF Extend
    <3> DEFINE r == Append(p, path[k + 2])
    <3>4. /\ r \in Seq(1 .. n) /\ Len(r) = Len(p) + 1
          /\ \A i \in 1 .. Len(p) : r[i] = p[i]
          /\ r[Len(p) + 1] = path[k + 2]
      BY <2>1, <3>2, AppendProperties
    <3> HIDE DEF r
    <3>5. Len(r) = Len(q) /\ Len(p) + 1 = k + 2 /\ k + 2 \in Nat
      BY <3>1, <3>4
    <3>6. \A i \in 1 .. Len(q) : r[i] = q[i]
      <4> SUFFICES ASSUME NEW i \in 1 .. Len(q) PROVE r[i] = q[i]
        OBVIOUS
      <4>1. i \in 1 .. Len(p) \/ i = k + 2
        BY <3>1
      <4> QED  BY <2>1, <2>2, <3>4, <3>5, <4>1
    <3>7. r = q
      BY <2>2, <3>4, <3>5, <3>6, SeqEqual
    <3> QED  BY <3>3, <3>7 DEF r, p, q
  <2>5. CASE ~(k + 1 < m)
    <3>1. Len(p) = m /\ Len(q) = m
      BY <1>1, <2>1, <2>2, <2>5
    <3>2. Extend(p, heap) = p
      BY <1>1, <2>3, <3>1 DEF Extend
    <3>3. p = q
      BY <2>1, <2>2, <3>1, SeqEqual
    <3> QED  BY <3>2, <3>3 DEF p, q
  <2> QED  BY <2>4, <2>5
<1>5. parts \in [0 .. n -> Seq(1 .. n)] /\ \A k \in 0 .. n : parts[k] = Part(k)
  BY <1>1, <1>2
<1> HIDE DEF parts
<1>6. Walks(parts)
  <2>1. ASSUME NEW k \in 0 .. n
        PROVE  parts[k] = IF k = 0 THEN <<first>> ELSE Extend(parts[k - 1], heap)
    <3>1. CASE k = 0
      BY <1>3, <1>5, <3>1
    <3>2. CASE k # 0
      <4>1. PICK j : j = k - 1
        OBVIOUS
      <4>2. j \in Nat /\ j \in 0 .. n /\ k = j + 1
        BY <1>1, <3>2, <4>1
      <4>3. Part(k) = Extend(Part(j), heap)
        BY <1>4, <4>2
      <4> QED  BY <1>5, <3>2, <4>1, <4>2, <4>3
    <3> QED  BY <3>1, <3>2
  <2>2. parts = [k \in 0 .. n |-> parts[k]]
    BY <1>5
  <2> QED  BY <2>1, <2>2
<1> DEFINE f == CHOOSE f : Walks(f)
<1>7. Walks(f)
  <2> HIDE DEF Walks
  <2> QED  BY <1>6
<1> HIDE DEF f
<1>8. f[n] = parts[n]
  <2> DEFINE S == {k \in Nat : k <= n => f[k] = parts[k]}
  <2>1. 0 \in S
    <3>1. 0 \in 0 .. n
      BY <1>1
    <3>2. f[0] = parts[0]
      BY <1>6, <1>7, <3>1
    <3> QED  BY <3>2
  <2>2. ASSUME NEW k \in Nat, k \in S PROVE k + 1 \in S
    <3>1. ASSUME k + 1 <= n PROVE f[k + 1] = parts[k + 1]
      <4>1. k + 1 \in 0 .. n /\ (k + 1) - 1 = k /\ k + 1 # 0 /\ k <= n
        BY <1>1, <3>1
      <4>2. f[k] = parts[k]
        BY <2>2, <4>1
      <4> QED  BY <1>6, <1>7, <4>1, <4>2
    <3> QED  BY <3>1
  <2>3. Nat \subseteq S
    <3> HIDE DEF S
    <3> QED  BY <2>1, <2>2, NatSetInduction
  <2>4. n \in S
    <3> HIDE DEF S
    <3> QED  BY <1>1, <2>3
  <2> QED  BY <1>1, <2>4
<1>9. parts[n] = path
  <2>1. n \in 0 .. n /\ n \in Nat
    BY <1>1
  <2>2. /\ Part(n) \in Seq(1 .. n) /\ Len(Part(n)) = m
        /\ \A i \in 1 .. Len(Part(n)) : Part(n)[i] = path[i]
    <3>1. n < m => FALSE
      BY <1>1
    <3> QED  BY <1>2, <2>1, <3>1
  <2>3. Part(n) = path
    BY <1>1, <2>2, SeqEqual DEF m
  <2> QED  BY <1>5, <2>1, <2>3
<1>10. Follow(first, heap) = f[n]
  BY DEF Follow, f, n
<1> QED  BY <1>8, <1>9, <1>10

(* The path is the list, and passes no buffer twice.                       *)
LEMMA ListIs ==
  ASSUME Sound, NEW c \in InUse, NEW path, Leads(path, c)
  PROVE  /\ List(c) = path
         /\ \A i, j \in 1 .. Len(path) : path[i] = path[j] => i = j
<1> DEFINE first == builders[c].first
           last == builders[c].current
<1>1. HeapSafe /\ BuildersSafe /\ Len(buffers) \in Nat
  BY SoundParts, BufferTypes DEF HeapSafe
<1>2. Path(path, first, last, buffers)
  BY DEF Leads
<1>3. /\ \A i, j \in 1 .. Len(buffers) :
           buffers[i].next = buffers[j].next => i = j \/ buffers[i].next = 0
      /\ \A i \in 1 .. Len(buffers) : buffers[i].next # first
      /\ buffers[last].next = 0
  BY <1>1 DEF HeapSafe, BuildersSafe, Current
<1> HIDE DEF first, last
<1>4. ASSUME NEW i \in 1 .. Len(path), NEW j \in 1 .. Len(path), path[i] = path[j]
      PROVE  i = j
  BY <1>1, <1>2, <1>3, <1>4, PathsApart, SMTT(60)
<1>5. Len(path) \in Nat /\ path \in [1 .. Len(path) -> 1 .. Len(buffers)]
  BY <1>1, <1>2, PathTypes
<1>6. Len(path) <= Len(buffers)
  BY <1>1, <1>4, <1>5, PathLength
<1>7. Follow(first, buffers) = path
  BY <1>1, <1>2, <1>3, <1>6, PathFollowed
<1> QED  BY <1>4, <1>7 DEF List, first

(* The lists of two builders in use have no buffer in common.              *)
LEMMA ListsApart ==
  ASSUME Sound, NEW b \in InUse, NEW c \in InUse, NEW p, NEW q, Leads(p, b), Leads(q, c),
         NEW i \in 1 .. Len(p), NEW j \in 1 .. Len(q), p[i] = q[j]
  PROVE  b = c /\ i = j
<1>1. HeapSafe /\ BuildersSafe /\ Len(buffers) \in Nat
  BY SoundParts, BufferTypes DEF HeapSafe
<1>2. /\ \A k, l \in 1 .. Len(buffers) :
           buffers[k].next = buffers[l].next => k = l \/ buffers[k].next = 0
      /\ \A k \in 1 .. Len(buffers) : /\ buffers[k].next # builders[b].first
                                      /\ buffers[k].next # builders[c].first
  BY <1>1 DEF HeapSafe, BuildersSafe
<1>3. /\ Path(p, builders[b].first, builders[b].current, buffers)
      /\ Path(q, builders[c].first, builders[c].current, buffers)
  BY DEF Leads
<1>4. i = j /\ builders[b].first = builders[c].first
  BY <1>1, <1>2, <1>3, PathsApart, SMTT(30)
<1> QED  BY <1>1, <1>4 DEF BuildersSafe

(* The lists of the builders in use lead to their current buffers and have *)
(* no buffer in common, whatever was appended to which of them before.     *)
THEOREM ListsStayApart == Spec => []ListsDisjoint
<1>1. ASSUME Sound, ListsLead PROVE ListsDisjoint
  <2>1. Len(buffers) \in Nat
    BY <1>1, SoundParts, BufferTypes DEF HeapSafe
  <2>2. ASSUME NEW b \in InUse
        PROVE  /\ List(b)[Len(List(b))] = builders[b].current
               /\ Cardinality(ToSet(List(b))) = Len(List(b))
    <3>1. PICK path : Leads(path, b)
      BY <1>1 DEF ListsLead
    <3>2. List(b) = path /\ path[Len(path)] = builders[b].current
      BY <1>1, <3>1, ListIs DEF Path, Leads
    <3>3. /\ Len(path) \in Nat /\ path \in [1 .. Len(path) -> 1 .. Len(buffers)]
          /\ DOMAIN path = 1 .. Len(path)
      BY <2>1, <3>1, PathTypes DEF Leads
    <3>4. \A i, j \in 1 .. Len(path) : path[i] = path[j] => i = j
      BY <1>1, <3>1, ListIs
    <3>5. path \in Bijection(1 .. Len(path), ToSet(path))
      <4>1. path \in [1 .. Len(path) -> ToSet(path)]
        BY <3>3 DEF ToSet
      <4>2. IsInjective(path)
        BY <3>3, <3>4 DEF IsInjective
      <4>3. \A t \in ToSet(path) : \E i \in 1 .. Len(path) : path[i] = t
        BY <3>3 DEF ToSet
      <4> QED  BY <4>1, <4>2, <4>3 DEF Bijection, Injection, Surjection
    <3>6. IsFiniteSet(1 .. Len(path)) /\ Cardinality(1 .. Len(path)) = Len(path)
      <4>1. 1 \in Int /\ Len(path) \in Int
        BY <3>3
      <4> QED  BY <3>3, <4>1, FS_Interval, SMTT(30)
    <3>7. Cardinality(ToSet(path)) = Len(path)
      BY <3>5, <3>6, FS_Bijection DEF ExistsBijection
    <3> QED  BY <3>2, <3>7
  <2>3. ASSUME NEW b \in InUse, NEW c \in InUse, b # c,
               NEW i, i \in ToSet(List(b)), i \in ToSet(List(c))
        PROVE  FALSE
    <3>1. PICK p : Leads(p, b)
      BY <1>1 DEF ListsLead
    <3>2. PICK q : Leads(q, c)
      BY <1>1 DEF ListsLead
    <3>3. List(b) = p /\ List(c) = q
      BY <1>1, <3>1, <3>2, ListIs
    <3>4. DOMAIN p = 1 .. Len(p) /\ DOMAIN q = 1 .. Len(q)
      BY <2>1, <3>1, <3>2, PathTypes DEF Leads
    <3>5. PICK j \in 1 .. Len(p) : p[j] = i
      BY <2>3, <3>3, <3>4 DEF ToSet
    <3>6. PICK k \in 1 .. Len(q) : q[k] = i
      BY <2>3, <3>3, <3>4 DEF ToSet
    <3>7. b = c
      BY <1>1, <3>1, <3>2, <3>5, <3>6, ListsApart
    <3> QED  BY <2>3, <3>7
  <2> QED  BY <2>2, <2>3 DEF ListsDisjoint
<1>2. Init => Sound /\ ListsLead
  BY InitSound, InitLists
<1>3. Sound /\ ListsLead /\ [Next]_vars => (Sound /\ ListsLead)'
  BY StepSound, StepLists
<1> QED  BY <1>1, <1>2, <1>3, PTL DEF Spec

-----------------------------------------------------------------------------
(***************************************************************************)
(* The bytes along a path.                                                 *)
(***************************************************************************)
(* The data of the buffers of a path.                                      *)
Datas(path, heap) == [i \in 1 .. Len(path) |-> heap[path[i]].data]

LEMMA BytesTypes ==
  ASSUME NEW heap \in Seq(Buffers), NEW path \in Seq(1 .. Len(heap))
  PROVE  /\ Datas(path, heap) \in Seq(Data) /\ Len(Datas(path, heap)) = Len(path)
         /\ Datas(path, heap) \in [1 .. Len(path) -> Data]
         /\ BytesIn(path, heap) = FlattenSeq(Datas(path, heap)) /\ BytesIn(path, heap) \in Data
<1> DEFINE datas == Datas(path, heap)
<1>1. /\ Len(path) \in Nat
      /\ \A i \in 1 .. Len(path) : path[i] \in 1 .. Len(heap)
  BY LenProperties
<1>2. \A i \in 1 .. Len(path) : heap[path[i]].data \in Data
  BY <1>1, BufferTypes
<1>3. datas \in [1 .. Len(path) -> Data] /\ datas \in Seq(Data) /\ Len(datas) = Len(path)
  BY <1>1, <1>2, IsASeq DEF Datas
<1>4. BytesIn(path, heap) = FlattenSeq(datas)
  BY DEF BytesIn, Datas
<1>5. FlattenSeq(datas) \in Data
  <2> HIDE DEF datas
  <2>1. <<>> \in Seq(Bytes \cup {Unset})
    OBVIOUS
  <2> QED  BY <1>3, <2>1, FlattenAppend DEF Data
<1> QED  BY <1>3, <1>4, <1>5

(* The bytes of a path and another one behind it.                          *)
LEMMA BytesJoin ==
  ASSUME NEW heap \in Seq(Buffers), NEW p \in Seq(1 .. Len(heap)), NEW q \in Seq(1 .. Len(heap))
  PROVE  IsJoin(BytesIn(p, heap), BytesIn(q, heap), BytesIn(p \o q, heap))
<1> DEFINE a == Datas(p, heap)
           b == Datas(q, heap)
           both == p \o q
           c == Datas(both, heap)
           m == Len(p)
           n == Len(q)
<1>1. /\ both \in Seq(1 .. Len(heap)) /\ Len(both) = m + n /\ m \in Nat /\ n \in Nat
      /\ \A i \in 1 .. m + n : both[i] = IF i <= m THEN p[i] ELSE q[i - m]
  BY ConcatProperties, LenProperties
<1>2. /\ a \in Seq(Data) /\ Len(a) = m /\ \A i \in 1 .. m : a[i] = heap[p[i]].data
      /\ b \in Seq(Data) /\ Len(b) = n /\ \A i \in 1 .. n : b[i] = heap[q[i]].data
      /\ c \in Seq(Data) /\ Len(c) = m + n /\ \A i \in 1 .. m + n : c[i] = heap[both[i]].data
  BY <1>1, BytesTypes DEF Datas
<1>3. /\ BytesIn(p, heap) = FlattenSeq(a) /\ BytesIn(q, heap) = FlattenSeq(b)
      /\ BytesIn(both, heap) = FlattenSeq(c)
  BY <1>1, BytesTypes
<1> HIDE DEF a, b, c, m, n, both
<1>4. /\ a \o b \in Seq(Data) /\ Len(a \o b) = m + n
      /\ \A i \in 1 .. m + n : (a \o b)[i] = IF i <= m THEN a[i] ELSE b[i - m]
  <2>1. a \in Seq(Data) /\ b \in Seq(Data)
    BY <1>2
  <2>2. Len(a) = m /\ Len(b) = n
    BY <1>2
  <2>3. /\ a \o b \in Seq(Data) /\ Len(a \o b) = Len(a) + Len(b)
        /\ \A i \in 1 .. Len(a) + Len(b) :
             (a \o b)[i] = IF i <= Len(a) THEN a[i] ELSE b[i - Len(a)]
    BY <2>1, ConcatProperties, Zenon
  <2> QED  BY <2>2, <2>3, Zenon
<1>5. ASSUME NEW i \in 1 .. m + n PROVE c[i] = (a \o b)[i]
  <2>1. CASE i <= m
    <3>1. i \in 1 .. m
      BY <1>1, <2>1
    <3>2. both[i] = p[i] /\ (a \o b)[i] = a[i]
      BY <1>1, <1>4, <2>1
    <3>3. c[i] = heap[both[i]].data /\ a[i] = heap[p[i]].data
      BY <1>2, <3>1
    <3> QED  BY <3>2, <3>3
  <2>2. CASE ~(i <= m)
    <3>1. PICK k \in 1 .. n : k = i - m
      BY <1>1, <2>2
    <3>2. both[i] = q[k] /\ (a \o b)[i] = b[k]
      BY <1>1, <1>4, <2>2, <3>1
    <3>3. c[i] = heap[both[i]].data /\ b[k] = heap[q[k]].data
      BY <1>2
    <3> QED  BY <3>2, <3>3
  <2> QED  BY <2>1, <2>2
<1>6. c = a \o b
  BY <1>2, <1>4, <1>5, SeqEqual
<1> QED  BY <1>2, <1>3, <1>6, FlattenConcat DEF Data, both

(* They depend on the data of the buffers of the path only, and their      *)
(* number on that of the data.                                             *)
LEMMA BytesSame ==
  ASSUME NEW heap, NEW after, NEW path,
         \A i \in 1 .. Len(path) : after[path[i]].data = heap[path[i]].data
  PROVE  BytesIn(path, after) = BytesIn(path, heap)
BY DEF BytesIn

LEMMA BytesLength ==
  ASSUME NEW heap \in Seq(Buffers), NEW after \in Seq(Buffers), Len(heap) <= Len(after),
         NEW path \in Seq(1 .. Len(heap)),
         \A i \in 1 .. Len(path) : Len(after[path[i]].data) = Len(heap[path[i]].data)
  PROVE  Len(BytesIn(path, after)) = Len(BytesIn(path, heap))
<1>1. Len(path) \in Nat /\ path \in Seq(1 .. Len(after))
  <2>1. 1 .. Len(heap) \subseteq 1 .. Len(after)
    BY LenProperties
  <2> QED  BY <2>1, SeqMonotonic, LenProperties
<1>2. /\ Datas(path, heap) \in [1 .. Len(path) -> Data]
      /\ Datas(path, after) \in [1 .. Len(path) -> Data]
      /\ BytesIn(path, heap) = FlattenSeq(Datas(path, heap))
      /\ BytesIn(path, after) = FlattenSeq(Datas(path, after))
  BY <1>1, BytesTypes
<1> DEFINE a == Datas(path, after)
           b == Datas(path, heap)
<1>3. \A i \in 1 .. Len(path) : Len(a[i]) = Len(b[i])
  BY DEF Datas
<1>4. /\ a \in [1 .. Len(path) -> Seq(Bytes \cup {Unset})]
      /\ b \in [1 .. Len(path) -> Seq(Bytes \cup {Unset})]
  BY <1>2 DEF Data
<1> HIDE DEF a, b
<1>5. Len(FlattenSeq(a)) = Len(FlattenSeq(b))
  <2> DEFINE T == Bytes \cup {Unset}
             n == Len(path)
  <2>1. n \in Nat /\ a \in [1 .. n -> Seq(T)] /\ b \in [1 .. n -> Seq(T)]
        /\ SameLengths(a, b, n)
    BY <1>1, <1>3, <1>4 DEF SameLengths
  <2> HIDE DEF T, n
  <2> QED  BY <2>1, FlattenLength, Zenon
<1> QED  BY <1>2, <1>5 DEF a, b

(***************************************************************************)
(* The lists of all builders in use, and what the streams are with them.   *)
(***************************************************************************)
AreLists(lists, heads, heap) ==
  /\ heap \in Seq(Buffers)
  /\ lists \in [DOMAIN heads -> Seq(1 .. Len(heap))]
  /\ \A b \in DOMAIN heads : Follow(heads[b], heap) = lists[b]
  /\ \A b, c \in DOMAIN heads : \A i \in 1 .. Len(lists[b]), j \in 1 .. Len(lists[c]) :
       lists[b][i] = lists[c][j] => b = c /\ i = j

(* The bytes of a list before its buffer j.                                *)
BytesBefore(list, j, heap) == Len(BytesIn(SubSeq(list, 1, j - 1), heap))

(* The buffer of a pointer, and its slot.                                  *)
Within(p, lists, b, j) ==
  b \in DOMAIN lists /\ j \in 1 .. Len(lists[b]) /\ lists[b][j] = p.buffer

SlotAt(p, lists, b, j, heap) ==
  [stream |-> b, at |-> BytesBefore(lists[b], j, heap) + p.offset, size |-> p.size]

(* Position finds the builder and the buffer: no other list has it.        *)
LEMMA PositionIs ==
  ASSUME NEW lists, NEW heads, NEW heap, AreLists(lists, heads, heap),
         NEW p, NEW b, NEW j, Within(p, lists, b, j)
  PROVE  Position(p, heads, heap) = SlotAt(p, lists, b, j, heap)
<1>0. b \in DOMAIN heads /\ j \in 1 .. Len(lists[b]) /\ lists[b][j] = p.buffer
  BY DEF AreLists, Within
<1> DEFINE stream == CHOOSE c \in DOMAIN heads : p.buffer \in ToSet(Follow(heads[c], heap))
<1>1. \A c \in DOMAIN heads :
        /\ Follow(heads[c], heap) = lists[c] /\ lists[c] \in Seq(1 .. Len(heap))
        /\ DOMAIN lists[c] = 1 .. Len(lists[c]) /\ Len(lists[c]) \in Nat
  BY LenProperties DEF AreLists
<1>2. \A c \in DOMAIN heads : p.buffer \in ToSet(lists[c]) <=> c = b
  <2> SUFFICES ASSUME NEW c \in DOMAIN heads PROVE p.buffer \in ToSet(lists[c]) <=> c = b
    OBVIOUS
  <2>1. ASSUME p.buffer \in ToSet(lists[c]) PROVE c = b
    <3>1. PICK i \in 1 .. Len(lists[c]) : lists[c][i] = p.buffer
      BY <1>1, <2>1 DEF ToSet
    <3>2. lists[c][i] = lists[b][j]
      BY <1>0, <3>1
    <3> QED  BY <1>0, <3>2 DEF AreLists
  <2>2. p.buffer \in ToSet(lists[b])
    BY <1>0, <1>1 DEF ToSet
  <2> QED  BY <2>1, <2>2
<1>3. stream = b
  BY <1>0, <1>1, <1>2
<1> HIDE DEF stream
<1>4. SelectInSeq(lists[b], LAMBDA i : i = p.buffer) = j
  <2>1. \A i \in 1 .. Len(lists[b]) : lists[b][i] = p.buffer => i = j
    BY <1>0 DEF AreLists
  <2>2. {i \in 1 .. Len(lists[b]) : lists[b][i] = p.buffer} = {j}
    BY <1>0, <2>1
  <2>3. Min({j}) = j
    <3>1. j \in Nat
      BY <1>0, <1>1
    <3> QED  BY <3>1 DEF Min
  <2> QED  BY <2>2, <2>3 DEF SelectInSeq
<1>5. Position(p, heads, heap) =
        [stream |-> stream,
         at |-> Len(BytesIn(SubSeq(Follow(heads[stream], heap), 1,
                                   SelectInSeq(Follow(heads[stream], heap),
                                               LAMBDA i : i = p.buffer) - 1),
                            heap)) + p.offset,
         size |-> p.size]
  BY DEF Position, stream
<1> QED  BY <1>0, <1>1, <1>3, <1>4, <1>5 DEF BytesBefore, SlotAt

LEMMA PartOfList ==
  ASSUME NEW n, NEW list \in Seq(1 .. n), NEW j \in 1 .. Len(list)
  PROVE  LET part == SubSeq(list, 1, j - 1)
         IN  /\ part \in Seq(1 .. n) /\ Len(part) = j - 1
             /\ \A i \in 1 .. j - 1 : part[i] = list[i] /\ i \in 1 .. Len(list)
<1>1. Len(list) \in Nat /\ \A i \in 1 .. Len(list) : list[i] \in 1 .. n
  BY LenProperties
<1>2. PICK k : k = j - 1
  OBVIOUS
<1>3. k \in Nat /\ k <= Len(list) /\ 1 .. k \subseteq 1 .. Len(list)
  BY <1>1, <1>2
<1>4. \A i \in 1 .. k : list[i] \in 1 .. n
  BY <1>1, <1>3
<1>5. /\ SubSeq(list, 1, k) \in Seq(1 .. n) /\ Len(SubSeq(list, 1, k)) = k
      /\ \A i \in 1 .. k : SubSeq(list, 1, k)[i] = list[i]
  BY <1>3, <1>4, SubSeqProperties
<1> QED  BY <1>2, <1>3, <1>5

(* What the members of a joined sequence are.                             *)
(* What u is if it is s followed by t.                                     *)
Joined(T, s, t, u) ==
  /\ u \in Seq(T) /\ Len(u) = Len(s) + Len(t)
  /\ \A i \in 1 .. Len(s) + Len(t) : u[i] = IF i <= Len(s) THEN s[i] ELSE t[i - Len(s)]

LEMMA JoinIs ==
  ASSUME NEW T, NEW s \in Seq(T), NEW t \in Seq(T), NEW u, IsJoin(s, t, u)
  PROVE  Joined(T, s, t, u)
<1>1. /\ s \o t \in Seq(T) /\ Len(s \o t) = Len(s) + Len(t)
      /\ \A i \in 1 .. Len(s) + Len(t) :
           (s \o t)[i] = IF i <= Len(s) THEN s[i] ELSE t[i - Len(s)]
  BY ConcatProperties
<1> QED  BY <1>1 DEF IsJoin, Joined

(* What is appended to a list is not before its buffers.                   *)
SameStart(a, b, k) == \A i \in 1 .. k : a[i] \in Nat /\ b[i] = a[i]

LEMMA StartsSame ==
  ASSUME NEW a, NEW b, NEW k \in Nat, SameStart(a, b, k)
  PROVE  SubSeq(a, 1, k) = SubSeq(b, 1, k)
<1>1. \A i \in 1 .. k : a[i] \in Nat /\ b[i] = a[i]
  BY DEF SameStart
<1>2. /\ SubSeq(a, 1, k) \in Seq(Nat) /\ Len(SubSeq(a, 1, k)) = k
      /\ \A i \in 1 .. k : SubSeq(a, 1, k)[i] = a[i]
  BY <1>1, SubSeqProperties
<1>3. /\ SubSeq(b, 1, k) \in Seq(Nat) /\ Len(SubSeq(b, 1, k)) = k
      /\ \A i \in 1 .. k : SubSeq(b, 1, k)[i] = b[i]
  BY <1>1, SubSeqProperties
<1>4. \A i \in 1 .. k : SubSeq(a, 1, k)[i] = SubSeq(b, 1, k)[i]
  BY <1>1, <1>2, <1>3
<1> QED  BY <1>2, <1>3, <1>4, SeqEqual

Continues(list, grown, j) ==
  /\ j \in 1 .. Len(grown) /\ grown[j] = list[j]
  /\ \A heap : BytesBefore(grown, j, heap) = BytesBefore(list, j, heap)

LEMMA LaterUnseen ==
  ASSUME NEW list \in Seq(Nat), NEW more \in Seq(Nat), NEW j \in 1 .. Len(list),
         NEW grown, IsJoin(list, more, grown)
  PROVE  Continues(list, grown, j)
<1>1. /\ Len(list) \in Nat /\ Len(more) \in Nat /\ j \in Nat
      /\ \A i \in 1 .. Len(list) : list[i] \in Nat
  BY LenProperties
<1>2. /\ Len(grown) = Len(list) + Len(more)
      /\ \A i \in 1 .. Len(list) + Len(more) :
           grown[i] = IF i <= Len(list) THEN list[i] ELSE more[i - Len(list)]
  <2>1. Joined(Nat, list, more, grown)
    BY JoinIs
  <2> QED  BY <2>1 DEF Joined
<1>3. \A i \in 1 .. j : i \in 1 .. Len(grown) /\ grown[i] = list[i] /\ list[i] \in Nat
  BY <1>1, <1>2
<1>4. PICK k : k = j - 1
  OBVIOUS
<1>5. k \in Nat /\ \A i \in 1 .. k : i \in 1 .. j
  BY <1>1, <1>4
<1>6. SameStart(list, grown, k)
  BY <1>3, <1>5 DEF SameStart
<1>7. SubSeq(grown, 1, k) = SubSeq(list, 1, k)
  BY <1>5, <1>6, StartsSame
<1>8. j \in 1 .. Len(grown) /\ grown[j] = list[j]
  BY <1>1, <1>3
<1> QED  BY <1>4, <1>7, <1>8 DEF Continues, BytesBefore

LEMMA JoinAssociates ==
  ASSUME NEW T, NEW x \in Seq(T), NEW y \in Seq(T), NEW z \in Seq(T), NEW xy, NEW yz, NEW xyz,
         IsJoin(x, y, xy), IsJoin(y, z, yz), IsJoin(xy, z, xyz)
  PROVE  IsJoin(x, yz, xyz)
<1>1. xy = x \o y /\ yz = y \o z /\ xyz = xy \o z
  BY DEF IsJoin
<1>2. xy \o z = x \o yz
  BY <1>1
<1> QED  BY <1>1, <1>2 DEF IsJoin

(* What is added to the end of one list shows in no other list, and not    *)
(* before the buffers of the list that it is added to.                     *)
AddsTo(list, k, added, heap, after) ==
  \E fit \in Data, pieces \in Seq(Data) :
    /\ Len(pieces) = k
    /\ IsJoin(heap[list[Len(list)]].data, fit, after[list[Len(list)]].data)
    /\ \A i \in 1 .. k, j \in Nat : j = Len(heap) + i => after[j].data = pieces[i]
    /\ IsJoin(fit, FlattenSeq(pieces), added)

(* No buffer changes but one.                                              *)
OthersKept(at, heap, after) == \A i \in 1 .. Len(heap) : i # at => after[i] = heap[i]

(* Bytes added at the end of a list show in no other one, and not before   *)
(* the buffers of any.                                                     *)
ShowsAlone(lists, heads, b, heap, after) ==
  /\ \A c \in DOMAIN heads : c # b => BytesIn(lists[c], after) = BytesIn(lists[c], heap)
  /\ \A c \in DOMAIN heads : \A j \in 1 .. Len(lists[c]) :
       BytesBefore(lists[c], j, after) = BytesBefore(lists[c], j, heap)

LEMMA AddedAlone ==
  ASSUME NEW heap, NEW after, NEW lists, NEW heads, AreLists(lists, heads, heap),
         NEW b \in DOMAIN heads, lists[b] # <<>>,
         OthersKept(lists[b][Len(lists[b])], heap, after)
  PROVE  ShowsAlone(lists, heads, b, heap, after)
<1>1. \A c \in DOMAIN heads :
        /\ lists[c] \in Seq(1 .. Len(heap)) /\ Len(lists[c]) \in Nat
        /\ \A i \in 1 .. Len(lists[c]) : lists[c][i] \in 1 .. Len(heap)
  BY LenProperties DEF AreLists
<1>2. Len(lists[b]) \in 1 .. Len(lists[b])
  <2>1. Len(lists[b]) # 0
    BY <1>1, EmptySeq
  <2> QED  BY <1>1, <2>1
<1>3. ASSUME NEW c \in DOMAIN heads, NEW i \in 1 .. Len(lists[c]), c # b \/ i # Len(lists[b])
      PROVE  after[lists[c][i]] = heap[lists[c][i]]
  <2>1. lists[c][i] # lists[b][Len(lists[b])]
    BY <1>2, <1>3 DEF AreLists
  <2> QED  BY <1>1, <2>1 DEF OthersKept
<1>4. ASSUME NEW c \in DOMAIN heads, c # b
      PROVE  BytesIn(lists[c], after) = BytesIn(lists[c], heap)
  BY <1>3, <1>4, BytesSame
<1>5. ASSUME NEW c \in DOMAIN heads, NEW j \in 1 .. Len(lists[c])
      PROVE  BytesBefore(lists[c], j, after) = BytesBefore(lists[c], j, heap)
  <2> DEFINE part == SubSeq(lists[c], 1, j - 1)
  <2>1. /\ Len(part) = j - 1
        /\ \A i \in 1 .. j - 1 : part[i] = lists[c][i] /\ i \in 1 .. Len(lists[c])
    BY <1>1, PartOfList
  <2>2. ASSUME NEW i \in 1 .. Len(part) PROVE after[part[i]].data = heap[part[i]].data
    <3>1. i \in 1 .. Len(lists[c]) /\ part[i] = lists[c][i] /\ (c = b => i # Len(lists[b]))
      BY <1>1, <2>1, SMTT(30)
    <3>2. after[lists[c][i]] = heap[lists[c][i]]
      BY <1>3, <3>1
    <3> QED  BY <3>1, <3>2
  <2> HIDE DEF part
  <2>3. BytesIn(part, after) = BytesIn(part, heap)
    BY <2>2, BytesSame
  <2> QED  BY <2>3 DEF BytesBefore, part
<1> QED  BY <1>4, <1>5 DEF ShowsAlone

(* There they follow those of the list.                                    *)
LEMMA AddedAtEnd ==
  ASSUME NEW heap, NEW after \in Seq(Buffers), NEW lists, NEW heads, AreLists(lists, heads, heap),
         NEW b \in DOMAIN heads, lists[b] # <<>>, NEW k \in Nat, Len(after) = Len(heap) + k,
         \A i \in 1 .. Len(heap) : i # lists[b][Len(lists[b])] => after[i] = heap[i],
         NEW added, AddsTo(lists[b], k, added, heap, after), NEW new, new = NewOnes(Len(heap), k)
  PROVE  IsJoin(BytesIn(lists[b], heap), added, BytesIn(lists[b] \o new, after))
<1> DEFINE list == lists[b]
           n == Len(list)
           old == Len(heap)
<1>1. /\ heap \in Seq(Buffers) /\ old \in Nat /\ list \in Seq(1 .. old) /\ n \in Nat
      /\ \A i \in 1 .. n : list[i] \in 1 .. old
  BY LenProperties DEF AreLists
<1>2. n \in 1 .. n /\ n \in Nat \ {0}
  <2>1. n # 0
    BY <1>1, EmptySeq
  <2> QED  BY <1>1, <2>1
<1>3. \A i \in 1 .. n : i # n => after[list[i]] = heap[list[i]]
  <2>1. \A i \in 1 .. n : i # n => list[i] # list[n]
    BY <1>2 DEF AreLists
  <2> QED  BY <1>1, <2>1
<1>4. PICK fit \in Data, pieces \in Seq(Data) :
        /\ Len(pieces) = k
        /\ IsJoin(heap[list[n]].data, fit, after[list[n]].data)
        /\ \A i \in 1 .. k, j \in Nat : j = old + i => after[j].data = pieces[i]
        /\ IsJoin(fit, FlattenSeq(pieces), added)
  BY DEF AddsTo
<1> HIDE DEF list, n, old
<1>5. list \in Seq(1 .. Len(after)) /\ new \in Seq(1 .. Len(after)) /\ Len(new) = k
      /\ \A i \in 1 .. k : new[i] = old + i
  <2>1. \A i \in 1 .. k : old + i \in 1 .. Len(after)
    BY <1>1 DEF old
  <2>2. new = [i \in 1 .. k |-> old + i]
    BY DEF NewOnes, old
  <2>3. list \in Seq(1 .. Len(after))
    <3>1. 1 .. old \subseteq 1 .. Len(after)
      BY <1>1 DEF old
    <3> QED  BY <1>1, <3>1, SeqMonotonic
  <2> QED  BY <2>1, <2>2, <2>3
<1>6. BytesIn(new, after) = FlattenSeq(pieces)
  <2>1. /\ Datas(new, after) \in Seq(Data) /\ Len(Datas(new, after)) = k
        /\ BytesIn(new, after) = FlattenSeq(Datas(new, after))
    BY <1>5, BytesTypes
  <2>2. ASSUME NEW i \in 1 .. k PROVE Datas(new, after)[i] = pieces[i]
    <3>1. Datas(new, after)[i] = after[new[i]].data
      BY <1>5 DEF Datas
    <3>2. new[i] = old + i /\ old + i \in Nat
      BY <1>1, <1>5
    <3>3. after[new[i]].data = pieces[i]
      BY <1>4, <3>2
    <3> QED  BY <3>1, <3>3
  <2>3. Datas(new, after) = pieces
    BY <1>4, <2>1, <2>2, SeqEqual
  <2> QED  BY <2>1, <2>3
<1>7. IsJoin(BytesIn(list, heap), fit, BytesIn(list, after))
  <2> DEFINE a == Datas(list, heap)
             c == Datas(list, after)
  <2>1. /\ a \in [1 .. n -> Data] /\ BytesIn(list, heap) = FlattenSeq(a)
        /\ c \in [1 .. n -> Data] /\ BytesIn(list, after) = FlattenSeq(c)
    BY <1>1, <1>5, BytesTypes DEF n, old
  <2>2. LastGrows(a, c, n, fit)
    <3>1. \A i \in 1 .. n : a[i] = heap[list[i]].data /\ c[i] = after[list[i]].data
      BY DEF Datas, n
    <3> HIDE DEF a, c
    <3> QED  BY <1>2, <1>3, <1>4, <3>1 DEF LastGrows
  <2> HIDE DEF a, c
  <2>3. IsJoin(FlattenSeq(a), fit, FlattenSeq(c))
    BY <1>2, <2>1, <2>2, FlattenLast, Zenon DEF Data
  <2> QED  BY <2>1, <2>3
<1>8. IsJoin(BytesIn(list, after), FlattenSeq(pieces), BytesIn(list \o new, after))
  BY <1>5, <1>6, BytesJoin
<1>9. BytesIn(list, heap) \in Data /\ FlattenSeq(pieces) \in Data
  <2>1. BytesIn(new, after) \in Data
    BY <1>5, BytesTypes
  <2> QED  BY <1>1, <1>6, <2>1, BytesTypes DEF old
<1> QED  BY <1>4, <1>7, <1>8, <1>9, JoinAssociates DEF Data, list

(***************************************************************************)
(* Bytes written into one buffer of a list.                                *)
(***************************************************************************)
Filled(s, at, size, bytes) ==
  [i \in DOMAIN s |-> IF i - at \in 1 .. size THEN bytes[i - at] ELSE s[i]]

LEMMA FilledTypes ==
  ASSUME NEW T, NEW s \in Seq(T), NEW at \in Nat, NEW size \in Nat, NEW bytes \in Seq(T),
         Len(bytes) = size
  PROVE  /\ Filled(s, at, size, bytes) \in Seq(T) /\ Len(Filled(s, at, size, bytes)) = Len(s)
         /\ \A i \in 1 .. Len(s) :
              Filled(s, at, size, bytes)[i] =
                IF i - at \in 1 .. size THEN bytes[i - at] ELSE s[i]
<1> DEFINE f == Filled(s, at, size, bytes)
<1>1. /\ Len(s) \in Nat /\ DOMAIN s = 1 .. Len(s) /\ \A i \in 1 .. Len(s) : s[i] \in T
      /\ \A i \in 1 .. size : bytes[i] \in T
  BY LenProperties
<1>2. \A i \in 1 .. Len(s) : f[i] = IF i - at \in 1 .. size THEN bytes[i - at] ELSE s[i]
  BY <1>1 DEF Filled
<1>3. \A i \in 1 .. Len(s) : f[i] \in T
  BY <1>1, <1>2
<1>4. f = [i \in 1 .. Len(s) |-> f[i]]
  BY <1>1 DEF Filled
<1> HIDE DEF f
<1>5. f \in Seq(T) /\ Len(f) = Len(s)
  BY <1>1, <1>3, <1>4
<1> QED  BY <1>2, <1>5 DEF f

(* What is filled in the middle of three sequences is filled in all.       *)
LEMMA FilledJoins ==
  ASSUME NEW T, NEW x \in Seq(T), NEW d \in Seq(T), NEW z \in Seq(T),
         NEW bytes \in Seq(T), NEW size \in Nat, Len(bytes) = size, NEW offset \in Nat,
         offset + size <= Len(d), NEW e, e = Filled(d, offset, size, bytes),
         NEW xd, IsJoin(x, d, xd), NEW w, IsJoin(xd, z, w),
         NEW xe, IsJoin(x, e, xe), NEW v, IsJoin(xe, z, v)
  PROVE  v = Filled(w, Len(x) + offset, size, bytes)
<1> DEFINE l == Len(x)
           m == Len(d)
           n == Len(z)
<1>1. l \in Nat /\ m \in Nat /\ n \in Nat
  BY LenProperties
<1>2. /\ e \in Seq(T) /\ Len(e) = m
      /\ \A i \in 1 .. m : e[i] = IF i - offset \in 1 .. size THEN bytes[i - offset] ELSE d[i]
  BY FilledTypes
<1> HIDE DEF l, m, n
<1>3. ASSUME NEW y \in Seq(T), Len(y) = m, NEW xy, IsJoin(x, y, xy), NEW u, IsJoin(xy, z, u)
      PROVE  /\ u \in Seq(T) /\ Len(u) = l + m + n
             /\ \A i \in 1 .. l + m + n :
                  u[i] = IF i <= l THEN x[i] ELSE IF i <= l + m THEN y[i - l] ELSE z[i - (l + m)]
  <2>1. /\ xy \in Seq(T) /\ Len(xy) = l + m
        /\ \A i \in 1 .. l + m : xy[i] = IF i <= l THEN x[i] ELSE y[i - l]
    <3>1. Joined(T, x, y, xy)
      BY <1>3, JoinIs
    <3> QED  BY <1>3, <3>1 DEF l, Joined
  <2>2. /\ u \in Seq(T) /\ Len(u) = (l + m) + n
        /\ \A i \in 1 .. (l + m) + n : u[i] = IF i <= l + m THEN xy[i] ELSE z[i - (l + m)]
    <3>1. Joined(T, xy, z, u)
      BY <1>3, <2>1, JoinIs
    <3> QED  BY <2>1, <3>1 DEF n, Joined
  <2>3. ASSUME NEW i \in 1 .. l + m + n
        PROVE  u[i] = IF i <= l THEN x[i] ELSE IF i <= l + m THEN y[i - l] ELSE z[i - (l + m)]
    <3>1. CASE i <= l + m
      <4>1. i \in 1 .. l + m
        BY <1>1, <3>1
      <4> QED  BY <1>1, <2>1, <2>2, <3>1, <4>1
    <3>2. CASE ~(i <= l + m)
      BY <1>1, <2>2, <3>2
    <3> QED  BY <3>1, <3>2
  <2> QED  BY <1>1, <2>2, <2>3
<1>4. /\ w \in Seq(T) /\ Len(w) = l + m + n
      /\ \A i \in 1 .. l + m + n :
           w[i] = IF i <= l THEN x[i] ELSE IF i <= l + m THEN d[i - l] ELSE z[i - (l + m)]
  BY <1>3 DEF m
<1>5. /\ v \in Seq(T) /\ Len(v) = l + m + n
      /\ \A i \in 1 .. l + m + n :
           v[i] = IF i <= l THEN x[i] ELSE IF i <= l + m THEN e[i - l] ELSE z[i - (l + m)]
  BY <1>2, <1>3
<1> DEFINE at == l + offset
           f == Filled(w, at, size, bytes)
<1>6. at \in Nat
  BY <1>1
<1>7. /\ f \in Seq(T) /\ Len(f) = l + m + n
      /\ \A i \in 1 .. l + m + n : f[i] = IF i - at \in 1 .. size THEN bytes[i - at] ELSE w[i]
  <2> HIDE DEF at
  <2> QED  BY <1>4, <1>6, FilledTypes
<1> HIDE DEF f
<1>8. ASSUME NEW i \in 1 .. l + m + n PROVE v[i] = f[i]
  <2>1. CASE i <= l \/ ~(i <= l + m)
    <3>1. ~(i - at \in 1 .. size)
      BY <1>1, <2>1 DEF m
    <3>2. v[i] = w[i]
      BY <1>1, <1>4, <1>5, <2>1
    <3> QED  BY <1>7, <3>1, <3>2
  <2>2. CASE ~(i <= l) /\ i <= l + m
    <3>1. PICK j : j = i - l
      OBVIOUS
    <3>2. j \in 1 .. m /\ i - at = j - offset
      BY <1>1, <2>2, <3>1
    <3>3. v[i] = e[j] /\ w[i] = d[j]
      BY <1>4, <1>5, <2>2, <3>1
    <3>4. e[j] = IF j - offset \in 1 .. size THEN bytes[j - offset] ELSE d[j]
      BY <1>2, <3>2
    <3>5. f[i] = IF i - at \in 1 .. size THEN bytes[i - at] ELSE w[i]
      BY <1>7
    <3> HIDE DEF at
    <3> QED  BY <3>2, <3>3, <3>4, <3>5
  <2> QED  BY <2>1, <2>2
<1>9. v = f
  BY <1>5, <1>7, <1>8, SeqEqual
<1> QED  BY <1>9 DEF f, l

(* A list around its element j.                                            *)
Splits(n, list, j, front, one, back) ==
  /\ front \in Seq(1 .. n) /\ back \in Seq(1 .. n) /\ one \in Seq(1 .. n)
  /\ list = (front \o one) \o back
  /\ \A i \in 1 .. Len(front) : front[i] = list[i] /\ i \in 1 .. Len(list) /\ i # j
  /\ \A i \in 1 .. Len(back) : \E l \in 1 .. Len(list) : back[i] = list[l] /\ l # j

LEMMA ListSplits ==
  ASSUME NEW n, NEW list \in Seq(1 .. n), NEW j \in 1 .. Len(list),
         NEW front, front = SubSeq(list, 1, j - 1),
         NEW back, back = SubSeq(list, j + 1, Len(list)), NEW one, one = <<list[j]>>
  PROVE  Splits(n, list, j, front, one, back)
<1> DEFINE m == Len(list)
<1>1. m \in Nat /\ j \in Nat /\ j <= m /\ \A i \in 1 .. m : list[i] \in 1 .. n
  <2>1. m \in Nat
    BY LenProperties
  <2>2. \A i \in 1 .. m : list[i] \in 1 .. n
    BY LenProperties
  <2> HIDE DEF m
  <2> QED  BY <2>1, <2>2 DEF m
<1>2. /\ front \in Seq(1 .. n) /\ Len(front) = j - 1
      /\ \A i \in 1 .. j - 1 : front[i] = list[i] /\ i \in 1 .. m
  BY PartOfList
<1>3. /\ back \in Seq(1 .. n) /\ Len(back) = m - j
      /\ \A i \in 1 .. m - j : back[i] = list[j + i] /\ j + i \in 1 .. m
  <2>1. PICK k : k = j + 1
    OBVIOUS
  <2>2. k \in Nat /\ 1 <= k /\ k <= m + 1 /\ k .. m \subseteq 1 .. m
    BY <1>1, <2>1
  <2>3. \A i \in k .. m : list[i] \in 1 .. n
    BY <1>1, <2>2
  <2> HIDE DEF m
  <2>4. /\ SubSeq(list, k, m) \in Seq(1 .. n)
        /\ Len(SubSeq(list, k, m)) = IF k <= m THEN m - k + 1 ELSE 0
        /\ \A i \in 1 .. m - k + 1 : SubSeq(list, k, m)[i] = list[k + i - 1]
    BY <1>1, <2>2, <2>3, SubSeqProperties
  <2>5. back = SubSeq(list, k, m)
    BY <2>1 DEF m
  <2>6. Len(back) = m - j /\ m - k + 1 = m - j
    BY <1>1, <2>1, <2>4, <2>5
  <2>7. ASSUME NEW i \in 1 .. m - j PROVE back[i] = list[j + i] /\ j + i \in 1 .. m
    <3>1. k + i - 1 = j + i /\ j + i \in 1 .. m
      BY <1>1, <2>1
    <3> QED  BY <2>4, <2>5, <2>6, <3>1
  <2> QED  BY <2>4, <2>5, <2>6, <2>7
<1>4. one \in Seq(1 .. n) /\ Len(one) = 1 /\ one[1] = list[j]
  BY <1>1
<1> HIDE DEF m
<1> DEFINE fo == front \o one
           all == fo \o back
<1>5. /\ fo \in Seq(1 .. n) /\ Len(fo) = (j - 1) + 1
      /\ \A i \in 1 .. (j - 1) + 1 : fo[i] = IF i <= j - 1 THEN front[i] ELSE one[i - (j - 1)]
  <2>1. IsJoin(front, one, fo)
    BY DEF IsJoin
  <2> HIDE DEF fo
  <2>2. Joined(1 .. n, front, one, fo)
    BY <1>2, <1>4, <2>1, JoinIs
  <2> QED  BY <1>2, <1>4, <2>2 DEF Joined
<1>6. /\ all \in Seq(1 .. n) /\ Len(all) = j + (m - j)
      /\ \A i \in 1 .. j + (m - j) : all[i] = IF i <= j THEN fo[i] ELSE back[i - j]
  <2>1. IsJoin(fo, back, all)
    BY DEF IsJoin
  <2>2. Len(fo) = j
    BY <1>1, <1>5
  <2> HIDE DEF fo, all
  <2>3. Joined(1 .. n, fo, back, all)
    BY <1>3, <1>5, <2>1, JoinIs
  <2> QED  BY <1>3, <2>2, <2>3 DEF Joined
<1> HIDE DEF fo, all
<1>7. ASSUME NEW i \in 1 .. m PROVE all[i] = list[i]
  <2>1. CASE i < j
    <3>1. all[i] = fo[i] /\ fo[i] = front[i]
      BY <1>1, <1>5, <1>6, <2>1
    <3> QED  BY <1>1, <1>2, <2>1, <3>1
  <2>2. CASE i = j
    <3>1. all[i] = fo[i] /\ fo[i] = one[1]
      BY <1>1, <1>5, <1>6, <2>2
    <3> QED  BY <1>4, <2>2, <3>1
  <2>3. CASE i > j
    <3>1. PICK l : l = i - j
      OBVIOUS
    <3>2. l \in 1 .. m - j /\ i = j + l
      BY <1>1, <2>3, <3>1
    <3>3. all[i] = back[l]
      <4>1. i \in 1 .. j + (m - j) /\ ~(i <= j)
        BY <1>1, <2>3
      <4>2. all[i] = back[i - j]
        BY <1>6, <4>1
      <4> QED  BY <3>1, <4>2
    <3> QED  BY <1>3, <3>2, <3>3
  <2> QED  BY <1>1, <2>1, <2>2, <2>3
<1>8. list = all
  <2>1. Len(all) = m
    BY <1>1, <1>6
  <2> QED  BY <1>6, <1>7, <2>1, SeqEqual DEF m
<1>9. \A i \in 1 .. Len(front) : front[i] = list[i] /\ i \in 1 .. m /\ i # j
  BY <1>1, <1>2
<1>10. ASSUME NEW i \in 1 .. Len(back) PROVE \E l \in 1 .. m : back[i] = list[l] /\ l # j
  <2>1. i \in 1 .. m - j /\ j + i # j
    BY <1>1, <1>3
  <2> QED  BY <1>3, <2>1
<1> QED  BY <1>2, <1>3, <1>4, <1>8, <1>9, <1>10 DEF Splits, all, fo, m

(* Of the buffer at a part is filled;                                      *)
PartFilled(at, offset, size, bytes, heap, after) ==
  /\ offset \in Nat /\ size \in Nat /\ bytes \in Data /\ Len(bytes) = size
  /\ offset + size <= Len(heap[at].data)
  /\ after[at].data = Filled(heap[at].data, offset, size, bytes)

(* so is one of the bytes of the list whose buffer j it is.                *)
FilledIn(list, j, offset, size, bytes, heap, after) ==
  BytesIn(list, after) =
    Filled(BytesIn(list, heap), BytesBefore(list, j, heap) + offset, size, bytes)

LEMMA FilledInList ==
  ASSUME NEW heap, NEW after \in Seq(Buffers), Len(after) = Len(heap),
         NEW lists, NEW heads, AreLists(lists, heads, heap),
         NEW b \in DOMAIN heads, NEW j \in 1 .. Len(lists[b]),
         OthersKept(lists[b][j], heap, after),
         NEW offset, NEW size, NEW bytes, PartFilled(lists[b][j], offset, size, bytes, heap, after)
  PROVE  FilledIn(lists[b], j, offset, size, bytes, heap, after)
<1> DEFINE list == lists[b]
           at == list[j]
           n == Len(heap)
           front == SubSeq(list, 1, j - 1)
           back == SubSeq(list, j + 1, Len(list))
           one == <<at>>
           fo == front \o one
<1>1. /\ heap \in Seq(Buffers) /\ n \in Nat /\ list \in Seq(1 .. n) /\ Len(list) \in Nat
      /\ \A i \in 1 .. Len(list) : list[i] \in 1 .. n
      /\ \A i \in 1 .. Len(list) : i # j => list[i] # at
  <2>1. heap \in Seq(Buffers) /\ list \in Seq(1 .. n)
    BY DEF AreLists
  <2>2. \A i \in 1 .. Len(list) : i # j => list[i] # at
    BY DEF AreLists
  <2> HIDE DEF list, n
  <2>3. Len(list) \in Nat /\ \A i \in 1 .. Len(list) : list[i] \in 1 .. n
    BY <2>1, LenProperties
  <2>4. n \in Nat
    BY <2>1, LenProperties DEF n
  <2> QED  BY <2>1, <2>2, <2>3, <2>4
<1>2. /\ front \in Seq(1 .. n) /\ back \in Seq(1 .. n) /\ one \in Seq(1 .. n)
      /\ list = fo \o back
      /\ \A i \in 1 .. Len(front) : front[i] = list[i] /\ i \in 1 .. Len(list) /\ i # j
      /\ \A i \in 1 .. Len(back) : \E l \in 1 .. Len(list) : back[i] = list[l] /\ l # j
  <2>1. j \in 1 .. Len(list)
    OBVIOUS
  <2>2. fo = front \o one
    OBVIOUS
  <2>3. one = <<list[j]>>
    OBVIOUS
  <2>4. front = SubSeq(list, 1, j - 1) /\ back = SubSeq(list, j + 1, Len(list))
    OBVIOUS
  <2> HIDE DEF list, n, front, back, one, fo
  <2>5. Splits(n, list, j, front, one, back)
    BY <1>1, <2>1, <2>3, <2>4, ListSplits
  <2> QED  BY <2>2, <2>5 DEF Splits
<1>3. at \in 1 .. n /\ heap[at].data \in Data /\ after[at].data \in Data
  <2>1. at \in 1 .. n
    BY <1>1
  <2> HIDE DEF at
  <2> QED  BY <1>1, <2>1, BufferTypes
<1>4. fo \in Seq(1 .. n)
  BY <1>2, ConcatProperties
<1>5. BytesBefore(list, j, heap) = Len(BytesIn(front, heap))
  BY DEF BytesBefore
<1>6. \A i \in 1 .. n : i # at => after[i] = heap[i]
  BY DEF OthersKept
<1>7. /\ offset \in Nat /\ size \in Nat /\ bytes \in Data /\ Len(bytes) = size
      /\ offset + size <= Len(heap[at].data)
      /\ after[at].data = Filled(heap[at].data, offset, size, bytes)
  BY DEF PartFilled
<1> HIDE DEF list, at, n, front, back
<1>8. BytesIn(front, after) = BytesIn(front, heap)
  <2>1. \A i \in 1 .. Len(front) : after[front[i]].data = heap[front[i]].data
    <3> SUFFICES ASSUME NEW i \in 1 .. Len(front) PROVE after[front[i]].data = heap[front[i]].data
      OBVIOUS
    <3>1. front[i] = list[i] /\ i \in 1 .. Len(list) /\ i # j
      BY <1>2
    <3> QED  BY <1>1, <1>6, <3>1
  <2> QED  BY <2>1, BytesSame
<1>9. BytesIn(back, after) = BytesIn(back, heap)
  <2>1. \A i \in 1 .. Len(back) : after[back[i]].data = heap[back[i]].data
    <3> SUFFICES ASSUME NEW i \in 1 .. Len(back) PROVE after[back[i]].data = heap[back[i]].data
      OBVIOUS
    <3>1. PICK l \in 1 .. Len(list) : back[i] = list[l] /\ l # j
      BY <1>2
    <3> QED  BY <1>1, <1>6, <3>1
  <2> QED  BY <2>1, BytesSame
<1>10. BytesIn(one, heap) = heap[at].data /\ BytesIn(one, after) = after[at].data
  <2>1. ASSUME NEW h, h[at].data \in Data PROVE BytesIn(one, h) = h[at].data
    <3>1. BytesIn(one, h) = FlattenSeq([i \in 1 .. Len(one) |-> h[one[i]].data])
      BY DEF BytesIn
    <3>2. [i \in 1 .. Len(one) |-> h[one[i]].data] = <<h[at].data>>
      OBVIOUS
    <3>3. FlattenSeq(<<h[at].data>>) = h[at].data
      BY <2>1, FlattenOne DEF Data
    <3> QED  BY <3>1, <3>2, <3>3
  <2> QED  BY <1>3, <2>1
<1> HIDE DEF one, fo
<1>11. ASSUME NEW h \in Seq(Buffers), Len(h) = n
       PROVE  /\ IsJoin(BytesIn(front, h), BytesIn(one, h), BytesIn(fo, h))
              /\ IsJoin(BytesIn(fo, h), BytesIn(back, h), BytesIn(list, h))
              /\ BytesIn(front, h) \in Data /\ BytesIn(back, h) \in Data
  <2>1. /\ front \in Seq(1 .. Len(h)) /\ back \in Seq(1 .. Len(h)) /\ one \in Seq(1 .. Len(h))
        /\ fo \in Seq(1 .. Len(h))
    BY <1>2, <1>4, <1>11
  <2>2. IsJoin(BytesIn(front, h), BytesIn(one, h), BytesIn(front \o one, h))
    BY <2>1, BytesJoin
  <2>3. IsJoin(BytesIn(fo, h), BytesIn(back, h), BytesIn(fo \o back, h))
    BY <2>1, BytesJoin
  <2> QED  BY <1>2, <2>1, <2>2, <2>3, BytesTypes DEF fo
<1>12. Len(heap) = n /\ Len(after) = n
  BY DEF n
<1> DEFINE x == BytesIn(front, heap)
           d == heap[at].data
           e == after[at].data
           z == BytesIn(back, heap)
           xd == BytesIn(fo, heap)
           xe == BytesIn(fo, after)
           w == BytesIn(list, heap)
           v == BytesIn(list, after)
<1>13. /\ x \in Data /\ z \in Data /\ d \in Data /\ IsJoin(x, d, xd) /\ IsJoin(xd, z, w)
       /\ IsJoin(x, e, xe) /\ IsJoin(xe, z, v)
  BY <1>1, <1>3, <1>8, <1>9, <1>10, <1>11, <1>12
<1>14. offset + size <= Len(d) /\ e = Filled(d, offset, size, bytes)
  BY <1>7
<1> HIDE DEF x, d, e, z, xd, xe, w, v
<1>15. v = Filled(w, Len(x) + offset, size, bytes)
  BY <1>7, <1>13, <1>14, FilledJoins DEF Data
<1> QED  BY <1>5, <1>15 DEF FilledIn, v, w, x, list

(***************************************************************************)
(* The streams that the builders are.                                      *)
(***************************************************************************)
(* The mapping that MCStringBuilder keeps in variables: a builder that was *)
(* appended to another has no bytes of its own.                            *)
StreamContent ==
  [b \in Builders |-> IF b \in InUse THEN Content(Heads, buffers)[b] ELSE <<>>]

StreamSlots == {Position(p, Heads, buffers) : p \in pointers}

Stream == INSTANCE ByteStream
            WITH Streams <- Builders, content <- StreamContent, slots <- StreamSlots,
                 joined <- appended

Lists == [b \in InUse |-> List(b)]

(* Every pointer leads into the list of a builder in use.                  *)
Pointed == \A p \in pointers : \E b, j : Within(p, Lists, b, j)

(* The lists, the streams and the slots as the steps know them.            *)
RightLists ==
  /\ AreLists(Lists, Heads, buffers)
  /\ DOMAIN Heads = InUse /\ DOMAIN Lists = InUse /\ InUse \subseteq Builders
  /\ \A b \in InUse : /\ Leads(Lists[b], b) /\ Lists[b] # <<>>
                      /\ Lists[b][Len(Lists[b])] = builders[b].current
                      /\ \A path : Leads(path, b) => Lists[b] = path

RightContent ==
  /\ StreamContent = [b \in Builders |-> StreamContent[b]]
  /\ \A b \in InUse : StreamContent[b] = BytesIn(Lists[b], buffers) /\ StreamContent[b] \in Data
  /\ \A b \in Builders \ InUse : StreamContent[b] = <<>>

RightSlots ==
  \A p, b, j : Within(p, Lists, b, j) =>
    Position(p, Heads, buffers) = SlotAt(p, Lists, b, j, buffers)

LEMMA ListsAre == Sound /\ ListsLead => RightLists
<1> SUFFICES ASSUME Sound, ListsLead PROVE RightLists
  OBVIOUS
<1>1. buffers \in Seq(Buffers)
  BY SoundParts DEF HeapSafe
<1>2. ASSUME NEW b \in InUse
      PROVE  /\ Leads(Lists[b], b) /\ \A path : Leads(path, b) => Lists[b] = path
             /\ Follow(Heads[b], buffers) = Lists[b]
  <2>1. Lists[b] = List(b) /\ Heads[b] = builders[b].first
    BY DEF Lists, Heads
  <2>2. PICK path : Leads(path, b)
    BY DEF ListsLead
  <2>3. \A q : Leads(q, b) => List(b) = q
    BY ListIs
  <2> QED  BY <2>1, <2>2, <2>3 DEF List
<1>3. ASSUME NEW b \in InUse
      PROVE  /\ Lists[b] # <<>> /\ Lists[b][Len(Lists[b])] = builders[b].current
             /\ Lists[b] \in Seq(1 .. Len(buffers))
  BY <1>2 DEF Leads, Path
<1>4. \A b, c \in InUse : \A i \in 1 .. Len(Lists[b]), j \in 1 .. Len(Lists[c]) :
        Lists[b][i] = Lists[c][j] => b = c /\ i = j
  BY <1>2, ListsApart
<1>5. /\ DOMAIN Heads = InUse /\ DOMAIN Lists = InUse /\ InUse \subseteq Builders
      /\ Lists \in [InUse -> Seq(1 .. Len(buffers))]
  BY <1>3 DEF Heads, Lists, InUse
<1>6. AreLists(Lists, Heads, buffers)
  BY <1>1, <1>2, <1>4, <1>5 DEF AreLists
<1> QED  BY <1>2, <1>3, <1>5, <1>6 DEF RightLists

LEMMA ContentIs == Sound /\ ListsLead => RightContent
<1> SUFFICES ASSUME Sound, ListsLead PROVE RightContent
  OBVIOUS
<1>1. DOMAIN Heads = InUse /\ InUse \subseteq Builders
  BY DEF Heads, InUse
<1>2. AreLists(Lists, Heads, buffers)
  BY ListsAre DEF RightLists
<1>3. /\ Content(Heads, buffers) = [b \in InUse |-> BytesIn(Follow(Heads[b], buffers), buffers)]
      /\ \A b \in InUse : Content(Heads, buffers)[b] = BytesIn(Lists[b], buffers)
  BY <1>1, <1>2 DEF Content, AreLists
<1>5. \A b \in InUse : BytesIn(Lists[b], buffers) \in Data
  <2> SUFFICES ASSUME NEW b \in InUse PROVE BytesIn(Lists[b], buffers) \in Data
    OBVIOUS
  <2>1. buffers \in Seq(Buffers) /\ Lists[b] \in Seq(1 .. Len(buffers))
    BY <1>1, <1>2 DEF AreLists
  <2> QED  BY <2>1, BytesTypes
<1> QED  BY <1>1, <1>3, <1>5 DEF RightContent, StreamContent

LEMMA SlotIs == Sound /\ ListsLead => RightSlots
BY ListsAre, PositionIs DEF RightLists, RightSlots

(* An append adds its bytes to one stream.                                 *)
LEMMA GrownListsAre ==
  ASSUME Sound, ListsLead, (Sound /\ ListsLead)', NEW b \in InUse, NEW k \in Nat, Grows(b, k),
         NEW new, new = NewOnes(Len(buffers), k)
  PROVE  /\ InUse' = InUse
         /\ \A c \in InUse : Lists'[c] = IF c = b THEN Lists[b] \o new ELSE Lists[c]
<1>1. InUse' = InUse
  BY DEF Grows, InUse
<1>2. \A c \in InUse : Leads(Lists[c], c)
  BY ListsAre DEF RightLists
<1>3. \A c \in InUse' : \A path : Leads(path, c)' => Lists'[c] = path
  <2>1. RightLists'
    BY ListsAre, PTL
  <2> QED  BY <2>1 DEF RightLists
<1>4. ASSUME NEW c \in InUse
      PROVE  Lists'[c] = IF c = b THEN Lists[b] \o new ELSE Lists[c]
  <2>1. PICK path : path = Lists[c]
    OBVIOUS
  <2>2. Leads(path, c)
    BY <1>2, <2>1
  <2>3. CASE c # b
    <3>1. Leads(path, c)'
      BY <2>2, <2>3, GrownPath
    <3>2. Lists'[c] = path
      BY <1>1, <1>3, <3>1
    <3> QED  BY <2>1, <2>3, <3>2
  <2>4. CASE c = b
    <3>1. Leads(path \o new, b)'
      BY <2>2, <2>4, GrownPath
    <3>2. Lists'[b] = path \o new
      BY <1>1, <1>3, <3>1
    <3> QED  BY <2>1, <2>4, <3>2
  <2> QED  BY <2>3, <2>4
<1> QED  BY <1>1, <1>4

LEMMA GrownContent ==
  ASSUME Sound, ListsLead, (Sound /\ ListsLead)', NEW b \in InUse, NEW k \in Nat, Grows(b, k),
         NEW added, Adds(b, k, added)
  PROVE  StreamContent' = [StreamContent EXCEPT ![b] = @ \o added]
<1>1. PICK more : more = NewOnes(Len(buffers), k)
  OBVIOUS
<1>2. /\ InUse' = InUse /\ InUse \subseteq Builders
      /\ \A c \in InUse : Lists'[c] = IF c = b THEN Lists[b] \o more ELSE Lists[c]
  BY <1>1, GrownListsAre DEF InUse
<1>3. /\ StreamContent = [c \in Builders |-> StreamContent[c]]
      /\ \A c \in InUse : StreamContent[c] = BytesIn(Lists[c], buffers)
      /\ \A c \in Builders \ InUse : StreamContent[c] = <<>>
  BY ContentIs DEF RightContent
<1>4. /\ StreamContent' = [c \in Builders |-> StreamContent'[c]]
      /\ \A c \in InUse' : StreamContent'[c] = BytesIn(Lists'[c], buffers')
      /\ \A c \in Builders \ InUse' : StreamContent'[c] = <<>>
  <2>1. RightContent'
    BY ContentIs, PTL
  <2> QED  BY <2>1 DEF RightContent
<1>5. /\ AreLists(Lists, Heads, buffers) /\ DOMAIN Heads = InUse
      /\ Lists[b] # <<>> /\ Lists[b][Len(Lists[b])] = builders[b].current
  BY ListsAre DEF RightLists
<1>6. /\ buffers' \in Seq(Buffers) /\ Len(buffers') = Len(buffers) + k
      /\ \A i \in 1 .. Len(buffers) : i # Lists[b][Len(Lists[b])] => buffers'[i] = buffers[i]
  BY <1>5 DEF Grows
<1>7. AddsTo(Lists[b], k, added, buffers, buffers')
  BY <1>5 DEF Adds, AddsTo, Current
<1>8. PICK lists, heads, heap, after :
        lists = Lists /\ heads = Heads /\ heap = buffers /\ after = buffers'
  OBVIOUS
<1>9. /\ AreLists(lists, heads, heap) /\ b \in DOMAIN heads /\ lists[b] # <<>>
      /\ after \in Seq(Buffers) /\ Len(after) = Len(heap) + k
      /\ \A i \in 1 .. Len(heap) : i # lists[b][Len(lists[b])] => after[i] = heap[i]
      /\ AddsTo(lists[b], k, added, heap, after) /\ more = NewOnes(Len(heap), k)
  BY <1>1, <1>5, <1>6, <1>7, <1>8
<1>10. \A c \in DOMAIN heads : c # b => BytesIn(lists[c], after) = BytesIn(lists[c], heap)
  <2>1. OthersKept(lists[b][Len(lists[b])], heap, after)
    BY <1>9 DEF OthersKept
  <2>2. AreLists(lists, heads, heap) /\ b \in DOMAIN heads /\ lists[b] # <<>>
    BY <1>9
  <2>3. ShowsAlone(lists, heads, b, heap, after)
    BY <2>1, <2>2, AddedAlone
  <2> QED  BY <2>3 DEF ShowsAlone
<1>11. IsJoin(BytesIn(lists[b], heap), added, BytesIn(lists[b] \o more, after))
  BY <1>9, AddedAtEnd
<1>12. ASSUME NEW c \in Builders, c # b PROVE StreamContent'[c] = StreamContent[c]
  <2>1. CASE c \in InUse
    <3>1. BytesIn(lists[c], after) = BytesIn(lists[c], heap) /\ Lists'[c] = lists[c]
      BY <1>2, <1>5, <1>8, <1>10, <1>12, <2>1
    <3> QED  BY <1>2, <1>3, <1>4, <1>8, <2>1, <3>1
  <2>2. CASE c \notin InUse
    BY <1>2, <1>3, <1>4, <2>2
  <2> QED  BY <2>1, <2>2
<1>13. IsJoin(StreamContent[b], added, StreamContent'[b])
  BY <1>2, <1>3, <1>4, <1>8, <1>11
<1> QED  BY <1>2, <1>3, <1>4, <1>12, <1>13 DEF IsJoin

(* Slots stay where they are.                                              *)
LEMMA GrownPositions ==
  ASSUME Sound, ListsLead, (Sound /\ ListsLead)', NEW b \in InUse, NEW k \in Nat, Grows(b, k),
         NEW p, NEW c, NEW j, Within(p, Lists, c, j)
  PROVE  Within(p, Lists', c, j) /\ Position(p, Heads, buffers)' = Position(p, Heads, buffers)
<1>1. PICK more : more = NewOnes(Len(buffers), k)
  OBVIOUS
<1>2. /\ InUse' = InUse /\ DOMAIN Lists = InUse /\ DOMAIN Lists' = InUse'
      /\ \A d \in InUse : Lists'[d] = IF d = b THEN Lists[b] \o more ELSE Lists[d]
  BY <1>1, GrownListsAre DEF Lists
<1>3. c \in InUse /\ j \in 1 .. Len(Lists[c]) /\ Lists[c][j] = p.buffer
  BY <1>2 DEF Within
<1>4. /\ AreLists(Lists, Heads, buffers) /\ DOMAIN Heads = InUse
      /\ Lists[b] # <<>> /\ Lists[b][Len(Lists[b])] = builders[b].current
  BY ListsAre DEF RightLists
<1>5. PICK lists, heads, heap, after :
        lists = Lists /\ heads = Heads /\ heap = buffers /\ after = buffers'
  OBVIOUS
<1>6. /\ AreLists(lists, heads, heap) /\ b \in DOMAIN heads /\ lists[b] # <<>>
      /\ \A i \in 1 .. Len(heap) : i # lists[b][Len(lists[b])] => after[i] = heap[i]
  BY <1>4, <1>5 DEF Grows
<1>7. \A d \in DOMAIN heads : \A i \in 1 .. Len(lists[d]) :
        BytesBefore(lists[d], i, after) = BytesBefore(lists[d], i, heap)
  <2>1. OthersKept(lists[b][Len(lists[b])], heap, after)
    BY <1>6 DEF OthersKept
  <2>2. AreLists(lists, heads, heap) /\ b \in DOMAIN heads /\ lists[b] # <<>>
    BY <1>6
  <2>3. ShowsAlone(lists, heads, b, heap, after)
    BY <2>1, <2>2, AddedAlone
  <2> QED  BY <2>3 DEF ShowsAlone
<1>8. PICK list, grown : list = lists[c] /\ grown = Lists'[c]
  OBVIOUS
<1>9. /\ j \in 1 .. Len(grown) /\ grown[j] = list[j]
      /\ BytesBefore(grown, j, after) = BytesBefore(list, j, after)
  <2>1. CASE c # b
    BY <1>2, <1>3, <1>5, <1>8, <2>1
  <2>2. CASE c = b
    <3>1. grown = list \o more
      BY <1>2, <1>3, <1>5, <1>8, <2>2
    <3>2. j \in 1 .. Len(list)
      BY <1>3, <1>5, <1>8
    <3>3. list \in Seq(Nat) /\ more \in Seq(Nat)
      <4>1. heap \in Seq(Buffers) /\ list \in Seq(1 .. Len(heap))
        BY <1>3, <1>4, <1>5, <1>6, <1>8 DEF AreLists
      <4>2. Len(heap) \in Nat /\ list \in Seq(Nat)
        BY <4>1, SeqMonotonic, LenProperties, 1 .. Len(heap) \subseteq Nat
      <4>3. more \in Seq(Nat)
        BY <1>1, <1>5, <4>2 DEF NewOnes
      <4> QED  BY <4>2, <4>3
    <3>4. Continues(list, grown, j)
      BY <3>1, <3>2, <3>3, LaterUnseen DEF IsJoin
    <3> QED  BY <3>4 DEF Continues
  <2> QED  BY <2>1, <2>2
<1>10. Within(p, Lists', c, j)
  BY <1>2, <1>3, <1>5, <1>8, <1>9 DEF Within
<1>11. Position(p, Heads, buffers) = SlotAt(p, lists, c, j, heap)
  BY <1>5, SlotIs DEF RightSlots
<1>12. Position(p, Heads, buffers)' = SlotAt(p, Lists', c, j, buffers')
  <2>1. RightSlots'
    BY SlotIs, PTL
  <2> QED  BY <1>10, <2>1 DEF RightSlots
<1>13. SlotAt(p, Lists', c, j, buffers') = SlotAt(p, lists, c, j, heap)
  <2>1. BytesBefore(Lists'[c], j, buffers') = BytesBefore(lists[c], j, heap)
    BY <1>2, <1>3, <1>4, <1>5, <1>7, <1>8, <1>9
  <2> QED  BY <2>1 DEF SlotAt
<1> QED  BY <1>10, <1>11, <1>12, <1>13

(* A list behind another one.                                              *)
Shifted(list, more, j, all, k, heap) ==
  /\ k \in 1 .. Len(all) /\ all[k] = more[j]
  /\ BytesBefore(all, k, heap) = Len(BytesIn(list, heap)) + BytesBefore(more, j, heap)

LEMMA ShiftedBefore ==
  ASSUME NEW heap \in Seq(Buffers), NEW list \in Seq(1 .. Len(heap)),
         NEW more \in Seq(1 .. Len(heap)), NEW j \in 1 .. Len(more),
         NEW all, IsJoin(list, more, all), NEW k, k = Len(list) + j
  PROVE  Shifted(list, more, j, all, k, heap)
<1> DEFINE n == Len(heap)
           m == Len(list)
           part == SubSeq(more, 1, j - 1)
           start == SubSeq(all, 1, k - 1)
           both == list \o part
<1>1. m \in Nat /\ Len(more) \in Nat /\ j \in Nat
  BY LenProperties
<1>2. /\ all \in Seq(1 .. n) /\ Len(all) = m + Len(more)
      /\ \A i \in 1 .. m + Len(more) : all[i] = IF i <= m THEN list[i] ELSE more[i - m]
  <2>1. Joined(1 .. n, list, more, all)
    BY JoinIs
  <2> QED  BY <2>1 DEF Joined
<1> HIDE DEF n, m
<1>3. k \in 1 .. Len(all) /\ all[k] = more[j]
  <2>1. k \in 1 .. m + Len(more) /\ ~(k <= m) /\ k - m = j
    BY <1>1 DEF m
  <2> QED  BY <1>2, <2>1
<1>4. /\ part \in Seq(1 .. n) /\ Len(part) = j - 1
      /\ \A i \in 1 .. j - 1 : part[i] = more[i] /\ i \in 1 .. Len(more)
  BY PartOfList DEF n
<1>5. /\ start \in Seq(1 .. n) /\ Len(start) = k - 1
      /\ \A i \in 1 .. k - 1 : start[i] = all[i] /\ i \in 1 .. Len(all)
  BY <1>2, <1>3, PartOfList, SMTT(30)
<1> HIDE DEF part, start
<1>6. /\ both \in Seq(1 .. n) /\ Len(both) = m + (j - 1)
      /\ \A i \in 1 .. m + (j - 1) : both[i] = IF i <= m THEN list[i] ELSE part[i - m]
  <2>1. IsJoin(list, part, both)
    BY DEF IsJoin
  <2> HIDE DEF both
  <2>2. Joined(1 .. n, list, part, both)
    BY <1>4, <2>1, JoinIs DEF n
  <2> QED  BY <1>4, <2>2 DEF Joined, m
<1> HIDE DEF both
<1>7. ASSUME NEW i \in 1 .. k - 1 PROVE start[i] = both[i]
  <2>1. i \in 1 .. m + (j - 1) /\ i \in 1 .. m + Len(more)
    BY <1>1 DEF m
  <2>2. CASE i <= m
    BY <1>2, <1>5, <1>6, <2>1, <2>2
  <2>3. CASE ~(i <= m)
    <3>1. i - m \in 1 .. j - 1
      BY <1>1, <2>1, <2>3
    <3>2. start[i] = more[i - m] /\ both[i] = part[i - m]
      BY <1>2, <1>5, <1>6, <2>1, <2>3
    <3> QED  BY <1>4, <3>1, <3>2
  <2> QED  BY <2>2, <2>3
<1>8. start = both
  <2>1. k - 1 = m + (j - 1)
    BY <1>1 DEF m
  <2> QED  BY <1>5, <1>6, <1>7, <2>1, SeqEqual
<1>9. IsJoin(BytesIn(list, heap), BytesIn(part, heap), BytesIn(both, heap))
  BY <1>4, BytesJoin DEF both, n
<1>10. BytesIn(list, heap) \in Data /\ BytesIn(part, heap) \in Data
  BY <1>4, BytesTypes DEF n
<1>11. Len(BytesIn(both, heap)) = Len(BytesIn(list, heap)) + Len(BytesIn(part, heap))
  <2>1. Joined(Bytes \cup {Unset}, BytesIn(list, heap), BytesIn(part, heap), BytesIn(both, heap))
    BY <1>9, <1>10, JoinIs DEF Data
  <2> QED  BY <2>1 DEF Joined
<1> QED  BY <1>3, <1>8, <1>11 DEF Shifted, BytesBefore, start, part

(* The lists when builder append is linked behind builder b,               *)
LEMMA LinkedListsAre ==
  ASSUME Sound, ListsLead, (Sound /\ ListsLead)', NEW b \in Builders, NEW append \in Builders,
         AppendBuilder(b, append)
  PROVE  /\ b \in InUse /\ append \in InUse /\ InUse' = InUse \ {append}
         /\ \A c \in InUse' : Lists'[c] = IF c = b THEN Lists[b] \o Lists[append] ELSE Lists[c]
         /\ Len(buffers') = Len(buffers)
         /\ \A i \in 1 .. Len(buffers) : buffers'[i].data = buffers[i].data
<1>1. b \in InUse /\ append \in InUse /\ b # append /\ InUse' = InUse \ {append}
  BY DEF AppendBuilder, InUse
<1>2. \A c \in InUse : Leads(Lists[c], c)
  BY ListsAre DEF RightLists
<1>3. \A c \in InUse' : \A path : Leads(path, c)' => Lists'[c] = path
  <2>1. RightLists'
    BY ListsAre, PTL
  <2> QED  BY <2>1 DEF RightLists
<1>4. ASSUME NEW c \in InUse'
      PROVE  Lists'[c] = IF c = b THEN Lists[b] \o Lists[append] ELSE Lists[c]
  <2>1. PICK path, more : path = Lists[c] /\ more = Lists[append]
    OBVIOUS
  <2>2. c \in InUse /\ Leads(path, c) /\ Leads(more, append)
    BY <1>1, <1>2, <2>1
  <2>3. CASE c # b
    <3>1. Leads(path, c)'
      BY <2>2, <2>3, LinkedPath
    <3>2. Lists'[c] = path
      BY <1>3, <3>1
    <3> QED  BY <2>1, <2>3, <3>2
  <2>4. CASE c = b
    <3>1. Leads(path \o more, b)'
      BY <2>2, <2>4, LinkedPath
    <3>2. Lists'[b] = path \o more
      BY <1>3, <2>4, <3>1
    <3> QED  BY <2>1, <2>4, <3>2
  <2> QED  BY <2>3, <2>4
<1>5. /\ Len(buffers') = Len(buffers)
      /\ \A i \in 1 .. Len(buffers) : buffers'[i].data = buffers[i].data
  <2> DEFINE first == builders[append].first
             current == builders[b].current
  <2>1. /\ buffers' = [buffers EXCEPT ![current].next = first]
        /\ buffers \in Seq(Buffers) /\ Len(buffers) \in Nat
        /\ \A i \in 1 .. Len(buffers) : buffers[i] \in Buffers
    BY SoundParts, BufferTypes DEF AppendBuilder, HeapSafe
  <2> HIDE DEF first, current
  <2>2. DOMAIN buffers' = 1 .. Len(buffers) /\ Len(buffers') = Len(buffers)
    BY <2>1
  <2>3. \A i \in 1 .. Len(buffers) :
          buffers'[i] = IF i = current THEN [buffers[i] EXCEPT !.next = first] ELSE buffers[i]
    BY <2>1
  <2> QED  BY <2>1, <2>2, <2>3 DEF Buffers
<1> QED  BY <1>1, <1>4, <1>5

(* the streams,                                                            *)
LEMMA LinkedContent ==
  ASSUME Sound, ListsLead, (Sound /\ ListsLead)', NEW b \in Builders, NEW append \in Builders,
         AppendBuilder(b, append)
  PROVE  StreamContent' = [StreamContent EXCEPT ![b] = @ \o StreamContent[append],
                                                ![append] = <<>>]
<1>1. /\ b \in InUse /\ append \in InUse /\ b # append /\ InUse' = InUse \ {append}
      /\ InUse \subseteq Builders
      /\ \A c \in InUse' : Lists'[c] = IF c = b THEN Lists[b] \o Lists[append] ELSE Lists[c]
      /\ Len(buffers') = Len(buffers)
      /\ \A i \in 1 .. Len(buffers) : buffers'[i].data = buffers[i].data
  BY LinkedListsAre DEF AppendBuilder, InUse
<1>2. /\ StreamContent = [c \in Builders |-> StreamContent[c]]
      /\ \A c \in InUse : StreamContent[c] = BytesIn(Lists[c], buffers)
      /\ \A c \in Builders \ InUse : StreamContent[c] = <<>>
  BY ContentIs DEF RightContent
<1>3. /\ StreamContent' = [c \in Builders |-> StreamContent'[c]]
      /\ \A c \in InUse' : StreamContent'[c] = BytesIn(Lists'[c], buffers')
      /\ \A c \in Builders \ InUse' : StreamContent'[c] = <<>>
  <2>1. RightContent'
    BY ContentIs, PTL
  <2> QED  BY <2>1 DEF RightContent
<1>4. /\ buffers \in Seq(Buffers)
      /\ \A c \in InUse : Lists[c] \in Seq(1 .. Len(buffers))
  BY ListsAre DEF RightLists, AreLists
<1>5. buffers' \in Seq(Buffers)
  <2>1. HeapSafe'
    BY SoundParts, PTL
  <2> QED  BY <2>1 DEF HeapSafe
<1>6. PICK lists, heap, after : lists = Lists /\ heap = buffers /\ after = buffers'
  OBVIOUS
<1>7. ASSUME NEW c \in InUse
      PROVE  BytesIn(lists[c], after) = BytesIn(lists[c], heap)
  <2>1. \A i \in 1 .. Len(lists[c]) : lists[c][i] \in 1 .. Len(heap)
    <3>1. lists[c] \in Seq(1 .. Len(heap))
      BY <1>4, <1>6
    <3> QED  BY <3>1, LenProperties
  <2>2. \A i \in 1 .. Len(lists[c]) : after[lists[c][i]].data = heap[lists[c][i]].data
    BY <1>1, <1>6, <2>1
  <2> QED  BY <2>2, BytesSame
<1>8. IsJoin(BytesIn(lists[b], after), BytesIn(lists[append], after),
             BytesIn(lists[b] \o lists[append], after))
  <2>1. /\ after \in Seq(Buffers) /\ lists[b] \in Seq(1 .. Len(after))
        /\ lists[append] \in Seq(1 .. Len(after))
    BY <1>1, <1>4, <1>5, <1>6
  <2> QED  BY <2>1, BytesJoin
<1>9. IsJoin(StreamContent[b], StreamContent[append], StreamContent'[b])
  <2>1. Lists'[b] = lists[b] \o lists[append] /\ b \in InUse'
    BY <1>1, <1>6
  <2>2. StreamContent'[b] = BytesIn(lists[b] \o lists[append], after)
    BY <1>3, <1>6, <2>1
  <2>3. /\ StreamContent[b] = BytesIn(lists[b], after)
        /\ StreamContent[append] = BytesIn(lists[append], after)
    BY <1>1, <1>2, <1>6, <1>7
  <2> QED  BY <1>8, <2>2, <2>3
<1>10. StreamContent'[append] = <<>>
  BY <1>1, <1>3
<1>11. ASSUME NEW c \in Builders, c # b, c # append
       PROVE  StreamContent'[c] = StreamContent[c]
  <2>1. CASE c \in InUse
    <3>1. c \in InUse' /\ Lists'[c] = lists[c]
      BY <1>1, <1>6, <1>11, <2>1
    <3> QED  BY <1>2, <1>3, <1>6, <1>7, <2>1, <3>1
  <2>2. CASE c \notin InUse
    BY <1>1, <1>2, <1>3, <2>2
  <2> QED  BY <2>1, <2>2
<1> QED  BY <1>1, <1>2, <1>3, <1>9, <1>10, <1>11 DEF IsJoin

(* and the slots: those of append move behind the bytes of b.              *)
Moved(slot, s, t, length) ==
  IF slot.stream = t THEN [slot EXCEPT !.stream = s, !.at = @ + length] ELSE slot

LEMMA LinkedPositions ==
  ASSUME Sound, ListsLead, (Sound /\ ListsLead)', NEW b \in Builders, NEW append \in Builders,
         AppendBuilder(b, append), NEW p \in pointers, NEW c, NEW j, Within(p, Lists, c, j)
  PROVE  /\ \E d, i : Within(p, Lists', d, i)
         /\ Position(p, Heads, buffers)' =
              Moved(Position(p, Heads, buffers), b, append, Len(StreamContent[b]))
<1>1. /\ b \in InUse /\ append \in InUse /\ b # append /\ InUse' = InUse \ {append}
      /\ \A d \in InUse' : Lists'[d] = IF d = b THEN Lists[b] \o Lists[append] ELSE Lists[d]
      /\ Len(buffers') = Len(buffers)
      /\ \A i \in 1 .. Len(buffers) : buffers'[i].data = buffers[i].data
  BY LinkedListsAre DEF AppendBuilder, InUse
<1>2. DOMAIN Lists = InUse /\ DOMAIN Lists' = InUse'
  BY DEF Lists
<1>3. c \in InUse /\ j \in 1 .. Len(Lists[c]) /\ Lists[c][j] = p.buffer
  BY <1>2 DEF Within
<1>4. /\ buffers \in Seq(Buffers) /\ \A d \in InUse : Lists[d] \in Seq(1 .. Len(buffers))
  BY ListsAre DEF RightLists, AreLists
<1>5. p.offset \in Nat
  BY SoundParts DEF PointersSafe, Pointers
<1>6. PICK lists, heap, after : lists = Lists /\ heap = buffers /\ after = buffers'
  OBVIOUS
<1>7. ASSUME NEW list \in Seq(1 .. Len(heap)), NEW i \in 1 .. Len(list)
      PROVE  BytesBefore(list, i, after) = BytesBefore(list, i, heap)
  <2>1. PICK part : part = SubSeq(list, 1, i - 1)
    OBVIOUS
  <2>2. part \in Seq(1 .. Len(heap))
    BY <2>1, PartOfList
  <2>3. \A l \in 1 .. Len(part) : after[part[l]].data = heap[part[l]].data
    <3>1. \A l \in 1 .. Len(part) : part[l] \in 1 .. Len(heap)
      BY <2>2, LenProperties
    <3> QED  BY <1>1, <1>6, <3>1
  <2>4. BytesIn(part, after) = BytesIn(part, heap)
    BY <2>3, BytesSame
  <2> QED  BY <2>1, <2>4 DEF BytesBefore
<1>8. Position(p, Heads, buffers) = SlotAt(p, lists, c, j, heap)
  BY <1>6, SlotIs DEF RightSlots
<1>9. \A d, i : Within(p, Lists', d, i) =>
        Position(p, Heads, buffers)' = SlotAt(p, Lists', d, i, buffers')
  <2>1. RightSlots'
    BY SlotIs, PTL
  <2> QED  BY <2>1 DEF RightSlots
<1>10. PICK all : all = lists[b] \o lists[append]
  OBVIOUS
<1>11. /\ lists[b] \in Seq(1 .. Len(heap)) /\ lists[append] \in Seq(1 .. Len(heap))
       /\ all \in Seq(1 .. Len(heap)) /\ IsJoin(lists[b], lists[append], all)
       /\ Lists'[b] = all /\ b \in InUse' /\ heap \in Seq(Buffers) /\ Len(heap) \in Nat
  <2>1. lists[b] \in Seq(1 .. Len(heap)) /\ lists[append] \in Seq(1 .. Len(heap))
    BY <1>1, <1>4, <1>6
  <2>2. all \in Seq(1 .. Len(heap)) /\ IsJoin(lists[b], lists[append], all)
    BY <1>10, <2>1, ConcatProperties DEF IsJoin
  <2> QED  BY <1>1, <1>4, <1>6, <1>10, <2>1, <2>2, LenProperties
<1>12. CASE c = append
  <2>1. PICK k : k = Len(lists[b]) + j
    OBVIOUS
  <2>2. /\ k \in 1 .. Len(all) /\ all[k] = lists[append][j]
        /\ BytesBefore(all, k, heap) =
             Len(BytesIn(lists[b], heap)) + BytesBefore(lists[append], j, heap)
    <3>1. j \in 1 .. Len(lists[append])
      BY <1>3, <1>6, <1>12
    <3>2. Shifted(lists[b], lists[append], j, all, k, heap)
      BY <1>11, <2>1, <3>1, ShiftedBefore
    <3> QED  BY <3>2 DEF Shifted
  <2>3. Within(p, Lists', b, k)
    BY <1>2, <1>3, <1>6, <1>11, <1>12, <2>2 DEF Within
  <2>4. Position(p, Heads, buffers)' = SlotAt(p, Lists', b, k, after)
    BY <1>6, <1>9, <2>3
  <2>5. BytesBefore(all, k, after) = BytesBefore(all, k, heap)
    BY <1>7, <1>11, <2>2
  <2>6. Len(StreamContent[b]) = Len(BytesIn(lists[b], heap))
    BY <1>1, <1>6, ContentIs DEF RightContent
  <2>7. /\ Len(BytesIn(lists[b], heap)) \in Nat
        /\ BytesBefore(lists[append], j, heap) \in Nat
    <3>1. BytesIn(lists[b], heap) \in Data
      BY <1>11, BytesTypes
    <3>2. PICK part : part = SubSeq(lists[append], 1, j - 1)
      OBVIOUS
    <3>3. part \in Seq(1 .. Len(heap))
      <4>1. j \in 1 .. Len(lists[append])
        BY <1>3, <1>6, <1>12
      <4> QED  BY <1>11, <3>2, <4>1, PartOfList
    <3>4. BytesIn(part, heap) \in Data
      BY <1>11, <3>3, BytesTypes
    <3> QED  BY <3>1, <3>2, <3>4, LenProperties DEF Data, BytesBefore
  <2>8. SlotAt(p, Lists', b, k, after) =
          Moved(SlotAt(p, lists, append, j, heap), b, append, Len(StreamContent[b]))
    <3>1. BytesBefore(Lists'[b], k, after) + p.offset =
            (BytesBefore(lists[append], j, heap) + p.offset) + Len(StreamContent[b])
      <4>1. PICK l, m : l = Len(BytesIn(lists[b], heap)) /\ m = BytesBefore(lists[append], j, heap)
        OBVIOUS
      <4>2. BytesBefore(Lists'[b], k, after) = l + m /\ Len(StreamContent[b]) = l
        BY <1>11, <2>2, <2>5, <2>6, <4>1
      <4>3. l \in Nat /\ m \in Nat
        BY <2>7, <4>1
      <4> QED  BY <1>5, <4>1, <4>2, <4>3
    <3> QED  BY <3>1 DEF SlotAt, Moved
  <2> QED  BY <1>8, <1>12, <2>3, <2>4, <2>8
<1>13. CASE c # append
  <2>1. c \in InUse'
    BY <1>1, <1>3, <1>13
  <2>2. PICK list, grown : list = lists[c] /\ grown = Lists'[c]
    OBVIOUS
  <2>3. Continues(list, grown, j)
    <3>1. j \in 1 .. Len(list)
      BY <1>3, <1>6, <2>2
    <3>2. CASE c # b
      <4>1. grown = list
        BY <1>1, <1>6, <2>1, <2>2, <3>2
      <4> QED  BY <3>1, <4>1 DEF Continues
    <3>3. CASE c = b
      <4>1. grown = all /\ list = lists[b]
        BY <1>11, <2>2, <3>3
      <4>2. list \in Seq(Nat) /\ lists[append] \in Seq(Nat)
        BY <1>11, <4>1, SeqMonotonic, 1 .. Len(heap) \subseteq Nat
      <4> QED  BY <1>11, <3>1, <4>1, <4>2, LaterUnseen
    <3> QED  BY <3>2, <3>3
  <2>4. Within(p, Lists', c, j)
    BY <1>2, <1>3, <1>6, <2>1, <2>2, <2>3 DEF Within, Continues
  <2>5. Position(p, Heads, buffers)' = SlotAt(p, Lists', c, j, after)
    BY <1>6, <1>9, <2>4
  <2>6. BytesBefore(grown, j, after) = BytesBefore(list, j, heap)
    <3>1. list \in Seq(1 .. Len(heap)) /\ j \in 1 .. Len(list)
      BY <1>3, <1>4, <1>6, <2>2
    <3>2. BytesBefore(list, j, after) = BytesBefore(list, j, heap)
      BY <1>7, <3>1
    <3> QED  BY <2>3, <3>2 DEF Continues
  <2>7. SlotAt(p, Lists', c, j, after) = SlotAt(p, lists, c, j, heap)
    BY <2>2, <2>6 DEF SlotAt
  <2>8. Moved(SlotAt(p, lists, c, j, heap), b, append, Len(StreamContent[b])) =
          SlotAt(p, lists, c, j, heap)
    BY <1>13 DEF SlotAt, Moved
  <2> QED  BY <1>8, <2>4, <2>5, <2>7, <2>8
<1> QED  BY <1>12, <1>13

(* Bytes written through a pointer fill its slot.                          *)
LEMMA PatchedListsAre ==
  ASSUME Sound, ListsLead, (Sound /\ ListsLead)', NEW pointer \in pointers,
         NEW bytes \in Strings, Patch(pointer, bytes)
  PROVE  InUse' = InUse /\ \A c \in InUse : Lists'[c] = Lists[c]
<1>1. InUse' = InUse
  BY DEF Patch, InUse
<1>2. \A c \in InUse : Leads(Lists[c], c)
  BY ListsAre DEF RightLists
<1>3. \A c \in InUse' : \A path : Leads(path, c)' => Lists'[c] = path
  <2>1. RightLists'
    BY ListsAre, PTL
  <2> QED  BY <2>1 DEF RightLists
<1>4. ASSUME NEW c \in InUse PROVE Lists'[c] = Lists[c]
  <2>1. PICK path : path = Lists[c]
    OBVIOUS
  <2>2. Leads(path, c)'
    BY <1>2, <2>1, PatchedPath
  <2> QED  BY <1>1, <1>3, <2>1, <2>2
<1> QED  BY <1>1, <1>4

LEMMA PatchedHeap ==
  ASSUME Sound, Sound', NEW pointer \in pointers, NEW bytes \in Strings, Patch(pointer, bytes)
  PROVE  LET at == pointer.buffer
         IN  /\ buffers \in Seq(Buffers) /\ buffers' \in Seq(Buffers)
             /\ Len(buffers') = Len(buffers) /\ at \in 1 .. Len(buffers)
             /\ \A i \in 1 .. Len(buffers) : i # at => buffers'[i] = buffers[i]
             /\ buffers'[at].data = Filled(buffers[at].data, pointer.offset, pointer.size, bytes)
             /\ Len(buffers'[at].data) = Len(buffers[at].data)
             /\ pointer.offset + pointer.size <= Len(buffers[at].data)
             /\ pointer.offset \in Nat /\ pointer.size \in Nat
             /\ bytes \in Data /\ bytes \in Seq(Bytes) /\ Len(bytes) = pointer.size
<1> DEFINE at == pointer.buffer
<1>1. HeapSafe /\ PointersSafe
  BY SoundParts
<1>2. buffers \in Seq(Buffers) /\ buffers' \in Seq(Buffers)
  <2>1. HeapSafe'
    BY SoundParts, PTL
  <2> QED  BY <1>1, <2>1 DEF HeapSafe
<1>3. /\ at \in 1 .. Len(buffers) /\ pointer.offset \in Nat /\ pointer.size \in Nat
      /\ pointer.offset + pointer.size <= Len(buffers[at].data)
  BY <1>1 DEF PointersSafe, Pointers
<1>4. bytes \in Seq(Bytes) /\ bytes \in Data /\ Len(bytes) = pointer.size
  BY InputsAssumption, SeqMonotonic, Bytes \subseteq Bytes \cup {Unset} DEF Patch, Data
<1>5. /\ Len(buffers') = Len(buffers)
      /\ \A i \in 1 .. Len(buffers) : i # at => buffers'[i] = buffers[i]
      /\ buffers'[at].data = Filled(buffers[at].data, pointer.offset, pointer.size, bytes)
  BY PatchedBuffers DEF Filled
<1>6. Len(buffers'[at].data) = Len(buffers[at].data)
  <2>1. buffers[at].data \in Data
    BY <1>2, <1>3, BufferTypes
  <2> HIDE DEF at
  <2> QED  BY <1>3, <1>4, <1>5, <2>1, FilledTypes DEF Data
<1> QED  BY <1>2, <1>3, <1>4, <1>5, <1>6

LEMMA PatchedContent ==
  ASSUME Sound, ListsLead, (Sound /\ ListsLead)', NEW pointer \in pointers,
         NEW bytes \in Strings, Patch(pointer, bytes), NEW c, NEW j, Within(pointer, Lists, c, j),
         NEW slot, slot = Position(pointer, Heads, buffers)
  PROVE  /\ slot.stream = c /\ c \in InUse /\ slot.size = pointer.size
         /\ StreamContent' = [StreamContent EXCEPT ![c] = Filled(@, slot.at, slot.size, bytes)]
<1>1. InUse' = InUse /\ InUse \subseteq Builders /\ \A d \in InUse : Lists'[d] = Lists[d]
  BY PatchedListsAre DEF InUse
<1>2. c \in InUse /\ j \in 1 .. Len(Lists[c]) /\ Lists[c][j] = pointer.buffer
  BY DEF Within, Lists
<1>3. slot = SlotAt(pointer, Lists, c, j, buffers)
  BY SlotIs DEF RightSlots
<1>4. /\ slot.stream = c /\ slot.size = pointer.size
      /\ slot.at = BytesBefore(Lists[c], j, buffers) + pointer.offset
  BY <1>3 DEF SlotAt
<1>5. /\ StreamContent = [d \in Builders |-> StreamContent[d]]
      /\ \A d \in InUse : StreamContent[d] = BytesIn(Lists[d], buffers)
      /\ \A d \in Builders \ InUse : StreamContent[d] = <<>>
  BY ContentIs DEF RightContent
<1>6. /\ StreamContent' = [d \in Builders |-> StreamContent'[d]]
      /\ \A d \in InUse' : StreamContent'[d] = BytesIn(Lists'[d], buffers')
      /\ \A d \in Builders \ InUse' : StreamContent'[d] = <<>>
  <2>1. RightContent'
    BY ContentIs, PTL
  <2> QED  BY <2>1 DEF RightContent
<1>7. PICK lists, heads, heap, after, offset, size :
        /\ lists = Lists /\ heads = Heads /\ heap = buffers /\ after = buffers'
        /\ offset = pointer.offset /\ size = pointer.size
  OBVIOUS
<1>8. /\ AreLists(lists, heads, heap) /\ DOMAIN heads = InUse /\ c \in DOMAIN heads
      /\ j \in 1 .. Len(lists[c]) /\ lists[c][j] = pointer.buffer
  BY <1>2, <1>7, ListsAre DEF RightLists
<1>9. /\ after \in Seq(Buffers) /\ Len(after) = Len(heap)
      /\ \A i \in 1 .. Len(heap) : i # lists[c][j] => after[i] = heap[i]
      /\ offset \in Nat /\ size \in Nat /\ bytes \in Data /\ Len(bytes) = size
      /\ offset + size <= Len(heap[lists[c][j]].data)
      /\ after[lists[c][j]].data = Filled(heap[lists[c][j]].data, offset, size, bytes)
  BY <1>7, <1>8, PatchedHeap
<1>10. BytesIn(lists[c], after) =
         Filled(BytesIn(lists[c], heap), BytesBefore(lists[c], j, heap) + offset, size, bytes)
  <2>1. OthersKept(lists[c][j], heap, after)
    BY <1>9 DEF OthersKept
  <2>2. AreLists(lists, heads, heap) /\ c \in DOMAIN heads /\ j \in 1 .. Len(lists[c])
    BY <1>8
  <2>3. after \in Seq(Buffers) /\ Len(after) = Len(heap)
    BY <1>9
  <2>4. PartFilled(lists[c][j], offset, size, bytes, heap, after)
    BY <1>9 DEF PartFilled
  <2>5. FilledIn(lists[c], j, offset, size, bytes, heap, after)
    BY <2>1, <2>2, <2>3, <2>4, FilledInList
  <2> QED  BY <2>5 DEF FilledIn
<1>11. StreamContent'[c] = Filled(StreamContent[c], slot.at, slot.size, bytes)
  BY <1>1, <1>2, <1>4, <1>5, <1>6, <1>7, <1>10
<1>12. ASSUME NEW d \in Builders, d # c PROVE StreamContent'[d] = StreamContent[d]
  <2>1. CASE d \in InUse
    <3>1. lists[d] \in Seq(1 .. Len(heap))
      BY <1>8, <2>1 DEF AreLists
    <3>2. \A i \in 1 .. Len(lists[d]) : lists[d][i] \in 1 .. Len(heap) /\ lists[d][i] # lists[c][j]
      <4>1. \A i \in 1 .. Len(lists[d]) : lists[d][i] \in 1 .. Len(heap)
        BY <3>1, LenProperties
      <4>2. \A i \in 1 .. Len(lists[d]) : lists[d][i] # lists[c][j]
        BY <1>8, <1>12, <2>1 DEF AreLists
      <4> QED  BY <4>1, <4>2
    <3>3. BytesIn(lists[d], after) = BytesIn(lists[d], heap)
      BY <1>9, <3>2, BytesSame
    <3> QED  BY <1>1, <1>5, <1>6, <1>7, <2>1, <3>3
  <2>2. CASE d \notin InUse
    BY <1>1, <1>5, <1>6, <2>2
  <2> QED  BY <2>1, <2>2
<1> QED  BY <1>1, <1>2, <1>4, <1>5, <1>6, <1>11, <1>12

(* No slot moves.                                                          *)
LEMMA PatchedPositions ==
  ASSUME Sound, ListsLead, (Sound /\ ListsLead)', NEW pointer \in pointers,
         NEW bytes \in Strings, Patch(pointer, bytes),
         NEW p, NEW c, NEW j, Within(p, Lists, c, j)
  PROVE  Within(p, Lists', c, j) /\ Position(p, Heads, buffers)' = Position(p, Heads, buffers)
<1>1. InUse' = InUse /\ \A d \in InUse : Lists'[d] = Lists[d]
  BY PatchedListsAre
<1>2. c \in InUse /\ j \in 1 .. Len(Lists[c]) /\ Lists[c][j] = p.buffer
  BY DEF Within, Lists
<1>3. Within(p, Lists', c, j)
  <2>1. DOMAIN Lists' = InUse'
    BY DEF Lists
  <2> QED  BY <1>1, <1>2, <2>1 DEF Within
<1>4. Position(p, Heads, buffers)' = SlotAt(p, Lists', c, j, buffers')
  <2>1. RightSlots'
    BY SlotIs, PTL
  <2> QED  BY <1>3, <2>1 DEF RightSlots
<1>5. Position(p, Heads, buffers) = SlotAt(p, Lists, c, j, buffers)
  BY SlotIs DEF RightSlots
<1>6. PICK list, heap, after : list = Lists[c] /\ heap = buffers /\ after = buffers'
  OBVIOUS
<1>7. /\ heap \in Seq(Buffers) /\ after \in Seq(Buffers) /\ Len(after) = Len(heap)
      /\ \A i \in 1 .. Len(heap) : Len(after[i].data) = Len(heap[i].data)
  BY <1>6, PatchedHeap
<1>8. list \in Seq(1 .. Len(heap)) /\ j \in 1 .. Len(list)
  BY <1>2, <1>6, ListsAre DEF RightLists, AreLists
<1>9. BytesBefore(list, j, after) = BytesBefore(list, j, heap)
  <2>1. PICK part : part = SubSeq(list, 1, j - 1)
    OBVIOUS
  <2>2. part \in Seq(1 .. Len(heap))
    BY <1>8, <2>1, PartOfList
  <2>3. \A i \in 1 .. Len(part) : Len(after[part[i]].data) = Len(heap[part[i]].data)
    <3>1. \A i \in 1 .. Len(part) : part[i] \in 1 .. Len(heap)
      BY <2>2, LenProperties
    <3> QED  BY <1>7, <3>1
  <2>4. Len(heap) <= Len(after)
    BY <1>7, LenProperties
  <2>5. Len(BytesIn(part, after)) = Len(BytesIn(part, heap))
    BY <1>7, <2>2, <2>3, <2>4, BytesLength
  <2> QED  BY <2>1, <2>5 DEF BytesBefore
<1>10. SlotAt(p, Lists', c, j, buffers') = SlotAt(p, Lists, c, j, buffers)
  BY <1>1, <1>2, <1>6, <1>9 DEF SlotAt
<1> QED  BY <1>3, <1>4, <1>5, <1>10

(* The bytes reserved follow those of the stream.                          *)
LEMMA EndOfList ==
  ASSUME NEW heap \in Seq(Buffers), NEW list \in Seq(1 .. Len(heap)), list # <<>>,
         NEW n, n = Len(list)
  PROVE  /\ n \in 1 .. Len(list) /\ BytesBefore(list, n, heap) \in Nat
         /\ Len(BytesIn(list, heap)) = BytesBefore(list, n, heap) + Len(heap[list[n]].data)
<1>1. n \in Nat /\ n \in 1 .. Len(list)
  <2>1. Len(list) \in Nat /\ Len(list) # 0
    BY LenProperties, EmptySeq
  <2> QED  BY <2>1
<1>2. PICK front, one, back, fo :
        /\ front = SubSeq(list, 1, n - 1) /\ one = <<list[n]>>
        /\ back = SubSeq(list, n + 1, n) /\ fo = front \o one
  OBVIOUS
<1>3. Splits(Len(heap), list, n, front, one, back)
  BY <1>1, <1>2, ListSplits
<1>4. back = <<>>
  BY <1>1, <1>2, SubSeqEmpty
<1>5. /\ front \in Seq(1 .. Len(heap)) /\ one \in Seq(1 .. Len(heap))
      /\ fo \in Seq(1 .. Len(heap)) /\ list = fo \o <<>>
  BY <1>2, <1>3, <1>4, ConcatProperties DEF Splits
<1>6. list = fo
  BY <1>5, ConcatEmptySeq
<1>7. IsJoin(BytesIn(front, heap), BytesIn(one, heap), BytesIn(fo, heap))
  BY <1>2, <1>5, BytesJoin
<1>8. BytesIn(front, heap) \in Data /\ BytesIn(one, heap) \in Data
  BY <1>5, BytesTypes
<1>9. BytesIn(one, heap) = heap[list[n]].data
  <2>1. list[n] \in 1 .. Len(heap)
    BY <1>1, LenProperties
  <2>2. heap[list[n]].data \in Data
    BY <2>1, BufferTypes
  <2>3. [i \in 1 .. Len(one) |-> heap[one[i]].data] = <<heap[list[n]].data>>
    BY <1>2
  <2>4. FlattenSeq(<<heap[list[n]].data>>) = heap[list[n]].data
    BY <2>2, FlattenOne DEF Data
  <2> QED  BY <2>3, <2>4 DEF BytesIn
<1>10. Joined(Bytes \cup {Unset}, BytesIn(front, heap), BytesIn(one, heap), BytesIn(fo, heap))
  BY <1>7, <1>8, JoinIs DEF Data
<1>11. Len(BytesIn(front, heap)) \in Nat
  BY <1>8, LenProperties DEF Data
<1>12. BytesBefore(list, n, heap) = Len(BytesIn(front, heap))
  BY <1>2 DEF BytesBefore
<1> QED  BY <1>1, <1>6, <1>9, <1>10, <1>11, <1>12 DEF Joined

LEMMA ReservedSlot ==
  ASSUME Sound, ListsLead, (Sound /\ ListsLead)', NEW b \in InUse, NEW k \in Nat, Grows(b, k),
         NEW size \in Nat, Adds(b, k, Unwritten(size)),
         NEW offset \in Nat, offset + size = Len(buffers'[builders'[b].current].data),
         NEW q, q = [buffer |-> builders'[b].current, offset |-> offset, size |-> size]
  PROVE  /\ \E n : Within(q, Lists', b, n)
         /\ Position(q, Heads, buffers)' =
              [stream |-> b, at |-> Len(StreamContent[b]), size |-> size]
<1>1. InUse' = InUse /\ InUse \subseteq Builders
  BY DEF Grows, InUse
<1>2. RightLists' /\ RightContent' /\ RightSlots' /\ RightContent
  BY ListsAre, ContentIs, SlotIs, PTL
<1>3. PICK list, after, n : list = Lists'[b] /\ after = buffers' /\ n = Len(list)
  OBVIOUS
<1>4. /\ after \in Seq(Buffers) /\ list \in Seq(1 .. Len(after)) /\ list # <<>>
      /\ list[n] = builders'[b].current /\ DOMAIN Lists' = InUse'
  BY <1>1, <1>2, <1>3 DEF RightLists, AreLists
<1>5. /\ n \in 1 .. Len(list) /\ BytesBefore(list, n, after) \in Nat
      /\ Len(BytesIn(list, after)) = BytesBefore(list, n, after) + Len(after[list[n]].data)
  BY <1>3, <1>4, EndOfList
<1>6. Within(q, Lists', b, n)
  BY <1>1, <1>3, <1>4, <1>5 DEF Within
<1>7. Position(q, Heads, buffers)' = SlotAt(q, Lists', b, n, after)
  BY <1>2, <1>3, <1>6 DEF RightSlots
<1>8. StreamContent'[b] = BytesIn(list, after)
  BY <1>1, <1>2, <1>3 DEF RightContent
<1>9. StreamContent[b] \in Data /\ Len(StreamContent[b]) \in Nat
  BY <1>2, LenProperties DEF RightContent, Data
<1>10. Len(StreamContent'[b]) = Len(StreamContent[b]) + size
  <2>1. StreamContent' = [StreamContent EXCEPT ![b] = @ \o Unwritten(size)]
    BY GrownContent
  <2>2. DOMAIN StreamContent = Builders
    BY DEF StreamContent
  <2>3. StreamContent'[b] = StreamContent[b] \o Unwritten(size)
    BY <1>1, <2>1, <2>2
  <2>4. Unwritten(size) \in Data /\ Len(Unwritten(size)) = size
    <3>1. <<>> \in Data
      BY DEF Data
    <3> QED  BY <3>1, ReservedTypes
  <2>5. Joined(Bytes \cup {Unset}, StreamContent[b], Unwritten(size), StreamContent'[b])
    BY <1>9, <2>3, <2>4, JoinIs DEF IsJoin, Data
  <2> QED  BY <2>4, <2>5 DEF Joined
<1>11. BytesBefore(list, n, after) + offset = Len(StreamContent[b])
  <2>1. PICK l, m, x : /\ l = BytesBefore(list, n, after) /\ m = Len(after[list[n]].data)
                       /\ x = Len(StreamContent[b])
    OBVIOUS
  <2>2. m = offset + size
    BY <1>3, <1>4, <2>1
  <2>3. Len(StreamContent'[b]) = l + m /\ Len(StreamContent'[b]) = x + size
    BY <1>5, <1>8, <1>10, <2>1
  <2>4. l \in Nat /\ x \in Nat
    BY <1>5, <1>9, <2>1
  <2>5. l + offset = x
    BY <2>2, <2>3, <2>4
  <2> QED  BY <2>1, <2>5
<1>12. SlotAt(q, Lists', b, n, after) =
         [stream |-> b, at |-> Len(StreamContent[b]), size |-> size]
  BY <1>3, <1>11 DEF SlotAt
<1> QED  BY <1>6, <1>7, <1>12


(* What the actions of the stream need of a step that keeps the slots.     *)
SlotStays(p) == Position(p, Heads, buffers)' = Position(p, Heads, buffers)

LEMMA SlotsStay ==
  ASSUME pointers' = pointers,
         \A p \in pointers : SlotStays(p) /\ \E c, j : Within(p, Lists', c, j)
  PROVE  StreamSlots' = StreamSlots /\ Pointed'
<1>1. Pointed'
  BY DEF Pointed
<1>2. StreamSlots' = {Position(p, Heads, buffers)' : p \in pointers}
  BY DEF StreamSlots
<1>3. \A p \in pointers : Position(p, Heads, buffers)' = Position(p, Heads, buffers)
  BY DEF SlotStays
<1> QED  BY <1>1, <1>2, <1>3 DEF StreamSlots

(* Every step of the builders is one of the streams.  A string is          *)
(* appended,                                                               *)
LEMMA StringAppends ==
  ASSUME Sound, ListsLead, (Sound /\ ListsLead)', Pointed, NEW b \in InUse,
         NEW str \in Seq(Bytes), AppendString(b, str)
  PROVE  Stream!StreamNext /\ Pointed'
<1>1. PICK k \in Nat : Grows(b, k) /\ Adds(b, k, str)
  BY StringStep
<1>2. StreamContent' = [StreamContent EXCEPT ![b] = @ \o str]
  BY <1>1, GrownContent
<1>3. pointers' = pointers /\ appended' = appended
  BY DEF AppendString
<1>4. ASSUME NEW p \in pointers PROVE SlotStays(p) /\ \E c, j : Within(p, Lists', c, j)
  <2>1. PICK c, j : Within(p, Lists, c, j)
    BY DEF Pointed
  <2> QED  BY <1>1, <2>1, GrownPositions DEF SlotStays
<1>5. StreamSlots' = StreamSlots /\ Pointed'
  BY <1>3, <1>4, SlotsStay
<1>6. b \in Builders /\ b \notin appended
  BY DEF InUse
<1>7. Stream!AppendBytes(b, str)
  BY <1>2, <1>3, <1>5, <1>6 DEF Stream!AppendBytes
<1> QED  BY <1>5, <1>6, <1>7 DEF Stream!StreamNext

(* a slot is reserved behind the bytes there are,                          *)
LEMMA SizeReserves ==
  ASSUME Sound, ListsLead, (Sound /\ ListsLead)', Pointed, NEW b \in Builders,
         NEW size \in Reservations, AppendSize(b, size)
  PROVE  Stream!StreamNext /\ Pointed'
<1>1. b \in InUse /\ b \notin appended /\ size \in Nat /\ appended' = appended
  BY ReservationsAssumption, CapacityAssumption DEF AppendSize, InUse
<1>2. PICK k \in Nat : Grows(b, k) /\ Adds(b, k, Unwritten(size)) /\ Reserves(b, size)
  BY <1>1, SizeStep
<1>3. StreamContent' = [StreamContent EXCEPT ![b] = @ \o Unwritten(size)]
  BY <1>1, <1>2, GrownContent
<1>4. PICK offset \in Nat :
        /\ pointers' = pointers \cup
             {[buffer |-> builders'[b].current, offset |-> offset, size |-> size]}
        /\ offset + size = Len(buffers'[builders'[b].current].data)
  BY <1>2 DEF Reserves
<1>5. PICK q : q = [buffer |-> builders'[b].current, offset |-> offset, size |-> size]
  OBVIOUS
<1>6. /\ \E n : Within(q, Lists', b, n)
      /\ Position(q, Heads, buffers)' = [stream |-> b, at |-> Len(StreamContent[b]), size |-> size]
  BY <1>1, <1>2, <1>4, <1>5, ReservedSlot
<1>7. ASSUME NEW p \in pointers PROVE SlotStays(p) /\ \E c, j : Within(p, Lists', c, j)
  <2>1. PICK c, j : Within(p, Lists, c, j)
    BY DEF Pointed
  <2> QED  BY <1>1, <1>2, <2>1, GrownPositions DEF SlotStays
<1>8. pointers' = pointers \cup {q}
  BY <1>4, <1>5
<1>9. Pointed'
  BY <1>6, <1>7, <1>8 DEF Pointed
<1>10. StreamSlots' = {Position(p, Heads, buffers)' : p \in pointers \cup {q}}
  BY <1>8 DEF StreamSlots
<1>11. \A p \in pointers : Position(p, Heads, buffers)' = Position(p, Heads, buffers)
  BY <1>7 DEF SlotStays
<1>12. StreamSlots' = StreamSlots \cup
         {[stream |-> b, at |-> Len(StreamContent[b]), size |-> size]}
  BY <1>6, <1>10, <1>11 DEF StreamSlots
<1>13. Stream!ReserveBytes(b, size)
  BY <1>1, <1>3, <1>12 DEF Stream!ReserveBytes, Unwritten
<1> QED  BY <1>1, <1>9, <1>13 DEF Stream!StreamNext

(* it is filled wherever its stream is by now,                             *)
LEMMA PatchFills ==
  ASSUME Sound, ListsLead, (Sound /\ ListsLead)', Pointed, NEW pointer \in pointers,
         NEW bytes \in Strings, Patch(pointer, bytes)
  PROVE  Stream!StreamNext /\ Pointed'
<1>1. PICK c, j : Within(pointer, Lists, c, j)
  BY DEF Pointed
<1>2. PICK slot : slot = Position(pointer, Heads, buffers)
  OBVIOUS
<1>3. /\ slot.stream = c /\ c \in InUse /\ slot.size = pointer.size
      /\ StreamContent' = [StreamContent EXCEPT ![c] = Filled(@, slot.at, slot.size, bytes)]
  BY <1>1, <1>2, PatchedContent
<1>4. pointers' = pointers /\ appended' = appended /\ Len(bytes) = pointer.size
  BY DEF Patch
<1>5. ASSUME NEW p \in pointers PROVE SlotStays(p) /\ \E d, i : Within(p, Lists', d, i)
  <2>1. PICK d, i : Within(p, Lists, d, i)
    BY DEF Pointed
  <2> QED  BY <2>1, PatchedPositions DEF SlotStays
<1>6. StreamSlots' = StreamSlots /\ Pointed'
  BY <1>4, <1>5, SlotsStay
<1>7. slot \in StreamSlots
  BY <1>2 DEF StreamSlots
<1>8. bytes \in [1 .. slot.size -> Bytes]
  BY <1>3, <1>4, InputsAssumption
<1>9. StreamContent' = [StreamContent EXCEPT ![slot.stream] =
                         [i \in DOMAIN @ |-> IF i - slot.at \in 1 .. slot.size
                                             THEN bytes[i - slot.at] ELSE @[i]]]
  BY <1>3 DEF Filled
<1>10. Stream!FillSlot(slot, bytes)
  BY <1>3, <1>4, <1>6, <1>7, <1>9 DEF Stream!FillSlot
<1> QED  BY <1>6, <1>7, <1>8, <1>10 DEF Stream!StreamNext

(* and a builder brings its slots along.                                   *)
LEMMA BuilderJoins ==
  ASSUME Sound, ListsLead, (Sound /\ ListsLead)', Pointed, NEW b \in Builders,
         NEW append \in Builders, AppendBuilder(b, append)
  PROVE  Stream!StreamNext /\ Pointed'
<1>1. /\ b # append /\ b \notin appended /\ append \notin appended
      /\ appended' = appended \cup {append} /\ pointers' = pointers
  BY DEF AppendBuilder
<1>2. StreamContent' = [StreamContent EXCEPT ![b] = @ \o StreamContent[append],
                                             ![append] = <<>>]
  BY LinkedContent
<1>3. ASSUME NEW p \in pointers
      PROVE  /\ \E d, i : Within(p, Lists', d, i)
             /\ Position(p, Heads, buffers)' =
                  Moved(Position(p, Heads, buffers), b, append, Len(StreamContent[b]))
  <2>1. PICK c, j : Within(p, Lists, c, j)
    BY DEF Pointed
  <2> QED  BY <2>1, LinkedPositions
<1>4. Pointed'
  BY <1>1, <1>3 DEF Pointed
<1>5. StreamSlots' = {Position(p, Heads, buffers)' : p \in pointers}
  BY <1>1 DEF StreamSlots
<1>6. StreamSlots' = {Moved(slot, b, append, Len(StreamContent[b])) : slot \in StreamSlots}
  BY <1>3, <1>5 DEF StreamSlots
<1>7. Stream!JoinStreams(b, append)
  BY <1>1, <1>2, <1>6 DEF Stream!JoinStreams, Moved
<1> QED  BY <1>4, <1>7 DEF Stream!StreamNext

(* Nothing else changes the streams.                                       *)
LEMMA NothingAppends ==
  ASSUME Pointed, UNCHANGED vars
  PROVE  UNCHANGED Stream!streamVars /\ Pointed'
<1>1. UNCHANGED <<buffers, builders, pointers, appended>>
  BY DEF vars
<1>2. InUse' = InUse /\ Heads' = Heads
  BY <1>1 DEF InUse, Heads
<1>3. StreamContent' = StreamContent /\ StreamSlots' = StreamSlots
  BY <1>1, <1>2 DEF StreamContent, StreamSlots
<1>4. Pointed'
  BY <1>1, <1>2 DEF Pointed, Lists, List
<1> QED  BY <1>1, <1>3, <1>4 DEF Stream!streamVars

LEMMA StepsOfStreams ==
  Sound /\ ListsLead /\ Pointed /\ (Sound /\ ListsLead)' /\ [Next]_vars =>
    Pointed' /\ [Stream!StreamNext]_(Stream!streamVars)
<1> SUFFICES ASSUME Sound, ListsLead, Pointed, (Sound /\ ListsLead)', [Next]_vars
             PROVE  Pointed' /\ (Stream!StreamNext \/ UNCHANGED Stream!streamVars)
  OBVIOUS
<1>1. ASSUME NEW b \in Builders, AppendBytesTo(b) PROVE Stream!StreamNext /\ Pointed'
  <2>1. PICK str \in Strings : AppendString(b, str)
    BY <1>1 DEF AppendBytesTo
  <2>2. b \in InUse /\ str \in Seq(Bytes)
    BY <1>1, InputsAssumption DEF AppendBytesTo, InUse
  <2> QED  BY <2>1, <2>2, StringAppends
<1>2. ASSUME NEW b \in Builders, NEW alignment \in Alignments, Align(b, alignment)
      PROVE  Stream!StreamNext /\ Pointed'
  <2>1. PICK padding \in 1 .. alignment - 1 :
          AppendString(b, [i \in 1 .. padding |-> Fill])
    BY <1>2 DEF Align
  <2>2. alignment \in Nat /\ padding \in Nat /\ Fill \in Bytes /\ b \in InUse
    BY <1>2, InputsAssumption DEF Align, InUse
  <2> DEFINE str == [i \in 1 .. padding |-> Fill]
  <2>3. str \in Seq(Bytes)
    BY <2>2
  <2>4. AppendString(b, str)
    BY <2>1
  <2> HIDE DEF str
  <2> QED  BY <2>2, <2>3, <2>4, StringAppends
<1>3. ASSUME NEW b \in Builders, NEW size \in Reservations, AppendSize(b, size)
      PROVE  Stream!StreamNext /\ Pointed'
  BY <1>3, SizeReserves
<1>4. ASSUME NEW pointer \in pointers, NEW bytes \in Strings, Patch(pointer, bytes)
      PROVE  Stream!StreamNext /\ Pointed'
  BY <1>4, PatchFills
<1>5. ASSUME NEW b \in Builders, NEW append \in Builders, AppendBuilder(b, append)
      PROVE  Stream!StreamNext /\ Pointed'
  BY <1>5, BuilderJoins
<1>6. ASSUME UNCHANGED vars PROVE UNCHANGED Stream!streamVars /\ Pointed'
  BY <1>6, NothingAppends
<1> QED  BY <1>1, <1>2, <1>3, <1>4, <1>5, <1>6 DEF Next

LEMMA InitStreams == Init => Stream!StreamInit /\ Pointed
<1> SUFFICES ASSUME Init PROVE Stream!StreamInit /\ Pointed
  OBVIOUS
<1>1. pointers = {} /\ appended = {}
  BY DEF Init
<1>2. RightLists /\ RightContent
  BY InitSound, InitLists, ListsAre, ContentIs
<1>3. ASSUME NEW b \in Builders PROVE StreamContent[b] = <<>>
  <2>1. b \in InUse
    BY <1>1 DEF InUse
  <2>2. PICK heap, at : heap = buffers /\ at = builders[b].current
    OBVIOUS
  <2>3. Leads(<<at>>, b) /\ at \in 1 .. Len(heap)
    BY <2>1, <2>2, FirstPath
  <2>4. StreamContent[b] = BytesIn(<<at>>, heap)
    BY <1>2, <2>1, <2>2, <2>3 DEF RightLists, RightContent
  <2>5. heap[at].data = <<>>
    <3>1. heap = [i \in 1 .. Cardinality(Builders) |-> NewBuffer]
      BY <2>2 DEF Init
    <3>2. Cardinality(Builders) \in Nat
      BY BuildersAssumption, FS_CardinalityType
    <3>3. Len(heap) = Cardinality(Builders)
      BY <3>1, <3>2
    <3> QED  BY <2>3, <3>1, <3>3 DEF NewBuffer
  <2>6. BytesIn(<<at>>, heap) = FlattenSeq(<<heap[at].data>>)
    <3>1. [i \in 1 .. Len(<<at>>) |-> heap[<<at>>[i]].data] = <<heap[at].data>>
      OBVIOUS
    <3> QED  BY <3>1 DEF BytesIn
  <2>7. <<>> \in Seq(Bytes)
    OBVIOUS
  <2> QED  BY <2>4, <2>5, <2>6, <2>7, FlattenOne
<1>4. StreamContent = [b \in Builders |-> <<>>]
  BY <1>3 DEF StreamContent
<1>5. StreamSlots = {} /\ Pointed
  BY <1>1 DEF StreamSlots, Pointed
<1> QED  BY <1>1, <1>4, <1>5 DEF Stream!StreamInit

(* The builders are streams of bytes, whatever their buffers: an append    *)
(* adds its bytes at the end of one stream and shows in no other, and a    *)
(* slot is filled where it was reserved however far the buffers were cut,  *)
(* padded and linked in the meantime.                                      *)
THEOREM BuildersAreStreams == Spec => Stream!StreamSpec
<1> DEFINE Inv == Sound /\ ListsLead /\ Pointed
<1>1. Init => Inv /\ Stream!StreamInit
  BY InitSound, InitLists, InitStreams
<1>2. Inv /\ [Next]_vars => Inv' /\ [Stream!StreamNext]_(Stream!streamVars)
  BY StepSound, StepLists, StepsOfStreams
<1> QED  BY <1>1, <1>2, PTL DEF Spec, Stream!StreamSpec
=============================================================================
