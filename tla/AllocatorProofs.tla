--------------------------- MODULE AllocatorProofs ---------------------------
(***************************************************************************)
(* The allocator for all sizes of blocks, footers and requests: what it    *)
(* hands out never overlaps, and what is written there stays there.        *)
(***************************************************************************)
EXTENDS Allocator, SetInduction

Allocators == [capacity : Nat, occupied : Nat, memory : Nat]
Regions == [at : Nat \ {0}, size : Nat]
Ranges == [at : Nat, size : Nat, alignment : Nat \ {0}]

Inside(r, b) == b.at <= r.at /\ r.at + r.size <= b.at + b.size - FooterSize

(***************************************************************************)
(* The layout: the mapped blocks, the one in use, and what was handed out. *)
(***************************************************************************)
Using(a, blocks) ==
  /\ a \in Allocators /\ a.occupied <= a.capacity
  /\ a.memory = Null => a.capacity = 0
  /\ a.memory # Null => BlockOf(a) \in blocks

Blocks(blocks) ==
  /\ blocks \subseteq Regions
  /\ \A b \in blocks : Words(b.at, b.size) \subseteq Addresses /\ b.size >= FooterSize
  /\ \A b, c \in blocks : b = c \/ Disjoint(b, c)

HandedOut(given, blocks) ==
  /\ given \subseteq Ranges
  /\ \A r \in given : r.at % r.alignment = 0
  /\ \A r \in given : r.size > 0 => \E b \in blocks : Inside(r, b)
  /\ \A r, s \in given : r = s \/ Disjoint(r, s)

(* Nothing handed out lies where the block in use has room.                *)
Unused(a, given) ==
  a.memory # Null =>
    \A r \in given :
      r.size > 0 => \/ r.at + r.size <= a.memory + a.occupied
                    \/ a.memory + a.capacity + FooterSize <= r.at

Layout(a, blocks, given) ==
  Using(a, blocks) /\ Blocks(blocks) /\ HandedOut(given, blocks) /\ Unused(a, given)

-----------------------------------------------------------------------------
(* Arithmetic.                                                             *)

LEMMA Division ==
  ASSUME NEW n \in Nat, NEW d \in Nat \ {0}
  PROVE  n = d * (n \div d) + (n % d) /\ n % d \in 0 .. d - 1 /\ n \div d \in Nat
OBVIOUS

LEMMA Multiple ==
  ASSUME NEW q \in Int, NEW d \in Nat \ {0}
  PROVE  (d * q) % d = 0
OBVIOUS

LEMMA RoundedUp ==
  ASSUME NEW n \in Nat, NEW d \in Nat \ {0}
  PROVE  d * ((n + d - 1) \div d) \in Nat /\ d * ((n + d - 1) \div d) >= n
<1> DEFINE q == (n + d - 1) \div d
<1>1. n + d - 1 \in Nat
  OBVIOUS
<1>2. n + d - 1 = d * q + ((n + d - 1) % d) /\ (n + d - 1) % d \in 0 .. d - 1 /\ q \in Nat
  BY <1>1, Division
<1>3. d * q \in Nat
  BY <1>2
<1> HIDE DEF q
<1>4. d * q >= n
  BY <1>2, <1>3
<1> QED  BY <1>3, <1>4 DEF q

(* What is aligned to a page is aligned to what divides a page.            *)
LEMMA PageAligned ==
  ASSUME NEW n \in Nat, NEW p \in Nat \ {0}, NEW d \in Nat \ {0}, n % p = 0, p % d = 0
  PROVE  n % d = 0
<1>1. n = p * (n \div p) /\ n \div p \in Nat
  BY Division
<1>2. p = d * (p \div d) /\ p \div d \in Nat
  BY Division
<1>3. PICK a, b \in Nat : n = p * a /\ p = d * b
  BY <1>1, <1>2
<1>4. b * a \in Int /\ (d * b) * a = d * (b * a)
  OBVIOUS
<1>5. (d * (b * a)) % d = 0
  BY <1>4, Multiple
<1> QED  BY <1>3, <1>4, <1>5

(* The padding makes an address a multiple of the alignment.               *)
LEMMA Padding ==
  ASSUME NEW a \in Allocators, NEW d \in Nat \ {0}
  PROVE  /\ AlignmentOffset(a, d) \in Nat
         /\ (a.memory + a.occupied + AlignmentOffset(a, d)) % d = 0
<1> DEFINE n == a.memory + a.occupied
<1>1. n \in Nat
  BY DEF Allocators
<1> HIDE DEF n
<1>2. AlignmentOffset(a, d) = IF n % d = 0 THEN 0 ELSE d - (n % d)
  BY DEF AlignmentOffset, n
<1>3. CASE n % d = 0
  BY <1>1, <1>2, <1>3 DEF n
<1>4. CASE n % d # 0
  <2>1. PICK q \in Nat : n = d * q + (n % d)
    BY <1>1, Division
  <2>2. n % d \in Nat
    BY <1>1, Division
  <2>3. d * (q + 1) = d * q + d
    OBVIOUS
  <2>4. d * q \in Nat
    OBVIOUS
  <2>5. n + (d - (n % d)) = d * (q + 1)
    BY <2>1, <2>2, <2>3, <2>4
  <2>6. (d * (q + 1)) % d = 0
    BY Multiple
  <2>7. (n + (d - (n % d))) % d = 0
    BY <2>5, <2>6
  <2> QED  BY <1>1, <1>2, <1>4, <2>7, Division, SMTT(30) DEF n
<1> QED  BY <1>3, <1>4

LEMMA BlockForSize ==
  ASSUME NEW size \in Nat
  PROVE  BlockFor(size) \in Nat /\ BlockFor(size) >= size + FooterSize
<1>1. Granule \in Nat \ {0} /\ FooterSize \in Nat /\ BlockSize \in Nat
  BY SizesAssumption
<1>2. size + FooterSize \in Nat
  BY <1>1
<1> DEFINE required == Granule * ((size + FooterSize + Granule - 1) \div Granule)
<1>3. required \in Nat /\ required >= size + FooterSize
  BY <1>1, <1>2, RoundedUp
<1>4. BlockFor(size) = IF required > BlockSize THEN required ELSE BlockSize
  BY DEF BlockFor
<1> HIDE DEF required
<1> QED  BY <1>1, <1>3, <1>4

-----------------------------------------------------------------------------
(* The two halves of alloc.                                                *)

(* Taking what fits in the block in use.                                   *)
LEMMA TakenLayout ==
  ASSUME NEW a, NEW blocks, NEW given, Layout(a, blocks, given),
         NEW size \in Nat, NEW alignment \in Nat \ {0},
         a.occupied + AlignmentOffset(a, alignment) + size <= a.capacity
  PROVE  /\ Layout(Taken(a, size, alignment), blocks, given \cup {Allocated(a, size, alignment)})
         /\ \A r \in given : Disjoint(r, Allocated(a, size, alignment))
         /\ size > 0 => a.memory # Null /\ Inside(Allocated(a, size, alignment), BlockOf(a))
<1> DEFINE offset == AlignmentOffset(a, alignment)
           new == Allocated(a, size, alignment)
           after == Taken(a, size, alignment)
<1>1. a \in Allocators /\ a.capacity \in Nat /\ a.occupied \in Nat /\ a.memory \in Nat
  BY DEF Layout, Using, Allocators
<1>2. offset \in Nat /\ (a.memory + a.occupied + offset) % alignment = 0
  BY <1>1, Padding
<1>3. FooterSize \in Nat
  BY SizesAssumption
<1>4. /\ new \in Ranges /\ new.size = size /\ new.alignment = alignment
      /\ new.at = a.memory + a.occupied + offset /\ new.at % new.alignment = 0
  <2> HIDE DEF offset
  <2> QED  BY <1>1, <1>2 DEF Ranges, Allocated, offset
<1>5. /\ after \in Allocators /\ after.memory = a.memory /\ after.capacity = a.capacity
      /\ after.occupied = a.occupied + offset + size
  <2>1. after = [a EXCEPT !.occupied = a.occupied + offset + size]
    BY DEF Taken
  <2> HIDE DEF after, offset
  <2> QED  BY <1>1, <1>2, <2>1 DEF Allocators
<1>6. a.occupied + offset + size <= a.capacity
  OBVIOUS
<1>7. /\ BlockOf(after) = BlockOf(a) /\ BlockOf(a).at = a.memory
      /\ BlockOf(a).size = a.capacity + FooterSize
  BY <1>5 DEF BlockOf
<1> HIDE DEF offset, new, after
<1>8. Using(after, blocks)
  BY <1>1, <1>2, <1>5, <1>6, <1>7 DEF Layout, Using
<1>9. ASSUME size > 0
      PROVE  a.memory # Null /\ BlockOf(a) \in blocks /\ Inside(new, BlockOf(a))
  <2>1. a.memory # Null
    BY <1>1, <1>2, <1>6, <1>9 DEF Layout, Using
  <2>2. BlockOf(a) \in blocks
    BY <2>1 DEF Layout, Using
  <2>3. new.at + new.size <= a.memory + (a.capacity + FooterSize) - FooterSize
    BY <1>1, <1>2, <1>3, <1>4, <1>6
  <2>4. a.memory <= new.at
    BY <1>1, <1>2, <1>4
  <2> QED  BY <1>7, <2>1, <2>2, <2>3, <2>4 DEF Inside
<1>10. ASSUME NEW r \in given PROVE Disjoint(r, new)
  <2>1. r.at \in Nat /\ r.size \in Nat
    BY DEF Layout, HandedOut, Ranges
  <2>2. CASE r.size = 0 \/ size = 0
    BY <1>4, <2>2 DEF Disjoint
  <2>3. CASE r.size > 0 /\ size > 0
    <3>1. r.at + r.size <= a.memory + a.occupied \/ a.memory + a.capacity + FooterSize <= r.at
      BY <1>9, <2>3 DEF Layout, Unused
    <3> QED  BY <1>1, <1>2, <1>3, <1>4, <1>6, <2>1, <3>1 DEF Disjoint
  <2> QED  BY <1>4, <2>1, <2>2, <2>3
<1>11. HandedOut(given \cup {new}, blocks)
  <2>1. \A r \in given : Disjoint(r, new) /\ Disjoint(new, r)
    BY <1>10 DEF Disjoint
  <2>2. given \cup {new} \subseteq Ranges
    BY <1>4 DEF Layout, HandedOut
  <2>3. \A r \in given \cup {new} : r.at % r.alignment = 0
    BY <1>4 DEF Layout, HandedOut
  <2>4. \A r \in given \cup {new} : r.size > 0 => \E b \in blocks : Inside(r, b)
    BY <1>4, <1>9 DEF Layout, HandedOut
  <2>5. \A r, s \in given \cup {new} : r = s \/ Disjoint(r, s)
    BY <2>1 DEF Layout, HandedOut
  <2> QED  BY <2>2, <2>3, <2>4, <2>5 DEF HandedOut
<1>12. Unused(after, given \cup {new})
  <2> SUFFICES ASSUME after.memory # Null, NEW r \in given \cup {new}, r.size > 0
               PROVE  \/ r.at + r.size <= a.memory + a.occupied + offset + size
                      \/ a.memory + a.capacity + FooterSize <= r.at
    BY <1>1, <1>2, <1>5 DEF Unused
  <2>1. CASE r = new
    BY <1>1, <1>2, <1>4, <2>1
  <2>2. CASE r \in given
    <3>1. r.at \in Nat /\ r.size \in Nat
      BY <2>2 DEF Layout, HandedOut, Ranges
    <3>2. r.at + r.size <= a.memory + a.occupied \/ a.memory + a.capacity + FooterSize <= r.at
      BY <1>5, <2>2 DEF Layout, Unused
    <3> QED  BY <1>1, <1>2, <3>1, <3>2
  <2> QED  BY <2>1, <2>2
<1> QED  BY <1>8, <1>9, <1>10, <1>11, <1>12 DEF Layout, new, after

(* A new block: nothing handed out is in it, and what it was mapped for    *)
(* fits.                                                                   *)
LEMMA BlockLayout ==
  ASSUME NEW a, NEW given, Layout(a, mapped, given),
         NEW size \in Nat, NEW at \in Room(BlockFor(size))
  PROVE  LET block == [at |-> at, size |-> BlockFor(size)]
         IN  /\ Layout(InBlock(block), mapped \cup {block}, given)
             /\ \A b \in mapped : Disjoint(block, b)
             /\ BlockOf(InBlock(block)) = block
             /\ Words(at, BlockFor(size)) \subseteq Addresses
             /\ \A alignment \in Nat \ {0} :
                  Page % alignment = 0 =>
                    InBlock(block).occupied + AlignmentOffset(InBlock(block), alignment) + size
                      <= InBlock(block).capacity
<1> DEFINE n == BlockFor(size)
           block == [at |-> at, size |-> n]
           in == InBlock(block)
<1>1. n \in Nat /\ n >= size + FooterSize
  BY BlockForSize
<1>2. FooterSize \in Nat \ {0} /\ Page \in Nat \ {0}
  BY SizesAssumption
<1>3. /\ at \in Nat \ {0} /\ at % Page = 0 /\ Words(at, n) \subseteq Addresses
      /\ \A b \in mapped : Disjoint(block, b)
  BY SizesAssumption DEF Room, Null
<1> HIDE DEF n
<1>4. block \in Regions /\ block.at = at /\ block.size = n
  BY <1>1, <1>3 DEF Regions
<1>5. /\ in \in Allocators /\ in.capacity = n - FooterSize /\ in.occupied = 0
      /\ in.memory = at /\ BlockOf(in) = block
  BY <1>1, <1>2, <1>3 DEF InBlock, Allocators, BlockOf
<1> HIDE DEF block, in
<1>6. Using(in, mapped \cup {block})
  BY <1>1, <1>2, <1>3, <1>5 DEF Using, Null
<1>7. Blocks(mapped \cup {block})
  <2>1. \A b \in mapped : Disjoint(b, block) /\ Disjoint(block, b)
    BY <1>3 DEF Disjoint
  <2>2. Words(block.at, block.size) \subseteq Addresses /\ block.size >= FooterSize
    BY <1>1, <1>2, <1>3, <1>4
  <2> QED  BY <1>4, <2>1, <2>2 DEF Layout, Blocks
<1>8. HandedOut(given, mapped \cup {block})
  BY DEF Layout, HandedOut
<1>9. Unused(in, given)
  <2> SUFFICES ASSUME NEW r \in given, r.size > 0
               PROVE  r.at + r.size <= at \/ at + (n - FooterSize) + FooterSize <= r.at
    BY <1>1, <1>2, <1>3, <1>5 DEF Unused
  <2>1. r.at \in Nat /\ r.size \in Nat
    BY DEF Layout, HandedOut, Ranges
  <2>2. PICK b \in mapped : Inside(r, b)
    BY DEF Layout, HandedOut
  <2>3. b.at \in Nat /\ b.size \in Nat /\ b.size >= FooterSize /\ Disjoint(block, b)
    BY <1>3 DEF Layout, Blocks, Regions
  <2> QED  BY <1>1, <1>2, <1>3, <1>4, <2>1, <2>2, <2>3 DEF Inside, Disjoint
<1>10. ASSUME NEW alignment \in Nat \ {0}, Page % alignment = 0
       PROVE  in.occupied + AlignmentOffset(in, alignment) + size <= in.capacity
  <2>1. at % alignment = 0
    BY <1>2, <1>3, <1>10, PageAligned
  <2>2. AlignmentOffset(in, alignment) = 0
    BY <1>3, <1>5, <2>1 DEF AlignmentOffset
  <2> QED  BY <1>1, <1>2, <1>5, <2>2
<1> QED  BY <1>3, <1>5, <1>6, <1>7, <1>8, <1>9, <1>10 DEF Layout, block, in, n

-----------------------------------------------------------------------------
(* alloc as a whole.                                                       *)

LEMMA AllocationsLayout ==
  ASSUME Layout(allocator, mapped, ranges), NEW size \in Nat, NEW alignment \in Nat \ {0},
         Page % alignment = 0, NEW outcome \in Allocations(size, alignment)
  PROVE  /\ Layout(outcome.in, outcome.mapped, ranges)
         /\ mapped \subseteq outcome.mapped
         /\ outcome.in.occupied + AlignmentOffset(outcome.in, alignment) + size
              <= outcome.in.capacity
         /\ Layout(Taken(outcome.in, size, alignment), outcome.mapped,
                   ranges \cup {Allocated(outcome.in, size, alignment)})
         /\ \A r \in ranges : Disjoint(r, Allocated(outcome.in, size, alignment))
<1>1. CASE Fits(size, alignment)
  <2>1. outcome = [in |-> allocator, mapped |-> mapped, words |-> words]
    BY <1>1 DEF Allocations
  <2>2. /\ Layout(outcome.in, outcome.mapped, ranges) /\ outcome.mapped = mapped
        /\ outcome.in.occupied + AlignmentOffset(outcome.in, alignment) + size
             <= outcome.in.capacity
    BY <1>1, <2>1 DEF Fits
  <2> QED  BY <2>2, TakenLayout
<1>2. CASE ~ Fits(size, alignment)
  <2>1. PICK at \in Room(BlockFor(size)) :
          /\ outcome.in = InBlock([at |-> at, size |-> BlockFor(size)])
          /\ outcome.mapped = mapped \cup {[at |-> at, size |-> BlockFor(size)]}
    BY <1>2 DEF Allocations
  <2>2. /\ Layout(outcome.in, outcome.mapped, ranges) /\ mapped \subseteq outcome.mapped
        /\ outcome.in.occupied + AlignmentOffset(outcome.in, alignment) + size
             <= outcome.in.capacity
    BY <2>1, BlockLayout
  <2> QED  BY <2>2, TakenLayout
<1> QED  BY <1>1, <1>2

-----------------------------------------------------------------------------
(* The inductive invariant.                                                *)
ArrayTypes ==
  arrays \in [Arrays -> {array \in [items : Nat, count : Nat, allocated : Nat] :
                           array.count <= array.allocated}]

LayoutInv ==
  /\ ArrayTypes
  /\ \/ phase \in {"allocating", "crashed"} /\ Layout(allocator, mapped, ranges)
     \/ phase \in {"freeing", "freed"} /\ ranges = {}

LEMMA GrownType ==
  ASSUME NEW array, array.allocated \in Nat
  PROVE  Grown(array) \in Nat /\ Grown(array) > array.allocated
BY SizesAssumption DEF Grown

LEMMA InitLayout == Init => LayoutInv
<1> SUFFICES ASSUME Init PROVE LayoutInv
  OBVIOUS
<1>1. Layout(allocator, mapped, ranges)
  BY DEF Init, Layout, Using, Blocks, HandedOut, Unused, Allocators, Null
<1>2. ArrayTypes
  BY DEF Init, ArrayTypes, Null
<1> QED  BY <1>1, <1>2 DEF Init, LayoutInv

LEMMA TakesLayout ==
  ASSUME Layout(allocator, mapped, ranges), NEW size \in Nat, NEW alignment \in Nat \ {0},
         Page % alignment = 0, NEW outcome \in Allocations(size, alignment),
         Takes(outcome, size, alignment)
  PROVE  Layout(allocator, mapped, ranges)'
<1>1. Layout(allocator', mapped', ranges')
  BY AllocationsLayout DEF Takes
<1> QED  BY <1>1

LEMMA NextLayout == LayoutInv /\ [Next]_vars => LayoutInv'
<1> SUFFICES ASSUME LayoutInv, [Next]_vars PROVE LayoutInv'
  OBVIOUS
<1>1. ASSUME NEW request \in Requests, Alloc(request) PROVE LayoutInv'
  <2>1. request.size \in Nat /\ request.alignment \in Nat \ {0} /\ Page % request.alignment = 0
    BY SizesAssumption
  <2>2. PICK outcome \in Allocations(request.size, request.alignment) :
          Takes(outcome, request.size, request.alignment)
    BY <1>1 DEF Alloc
  <2>3. phase = "allocating" /\ UNCHANGED <<arrays, phase>> /\ Layout(allocator, mapped, ranges)
    BY <1>1 DEF Alloc, LayoutInv
  <2>4. Layout(allocator, mapped, ranges)'
    BY <2>1, <2>2, <2>3, TakesLayout
  <2> QED  BY <2>3, <2>4 DEF LayoutInv, ArrayTypes
<1>2. ASSUME NEW a \in Arrays, AppendItem(a) PROVE LayoutInv'
  <2>1. /\ phase = "allocating" /\ UNCHANGED <<allocator, mapped, ranges, phase>>
        /\ arrays[a].count < arrays[a].allocated
        /\ arrays' = [arrays EXCEPT ![a].count = @ + 1]
    BY <1>2 DEF AppendItem
  <2>2. ArrayTypes'
    BY <2>1 DEF LayoutInv, ArrayTypes
  <2>3. Layout(allocator, mapped, ranges)'
    BY <2>1 DEF LayoutInv
  <2> QED  BY <2>1, <2>2, <2>3 DEF LayoutInv
<1>3. ASSUME NEW a \in Arrays, GrowAndAppendItem(a) PROVE LayoutInv'
  <2> DEFINE size == Grown(arrays[a])
  <2>1. arrays[a] \in [items : Nat, count : Nat, allocated : Nat]
        /\ arrays[a].count <= arrays[a].allocated
    BY DEF LayoutInv, ArrayTypes
  <2>2. size \in Nat /\ size > arrays[a].allocated
    BY <2>1, GrownType
  <2>3. phase = "allocating" /\ UNCHANGED phase /\ Layout(allocator, mapped, ranges)
    BY <1>3 DEF GrowAndAppendItem, LayoutInv
  <2>4. PICK outcome \in Allocations(size, 1) :
          /\ Takes(outcome, size, 1)
          /\ arrays' = [arrays EXCEPT ![a] = [items |-> Allocated(outcome.in, size, 1).at,
                                              count |-> @.count + 1, allocated |-> Grown(@)]]
    BY <1>3 DEF GrowAndAppendItem
  <2>5. Page % 1 = 0
    BY SizesAssumption
  <2>6. Layout(allocator, mapped, ranges)'
    BY <2>2, <2>3, <2>4, <2>5, TakesLayout
  <2>7. Allocated(outcome.in, size, 1).at \in Nat
    <3>1. Allocated(outcome.in, size, 1) \in ranges'
      BY <2>4 DEF Takes
    <3>2. ranges' \subseteq Ranges
      BY <2>6 DEF Layout, HandedOut
    <3> QED  BY <3>1, <3>2 DEF Ranges
  <2>8. ArrayTypes'
    <3> DEFINE at == Allocated(outcome.in, size, 1).at
    <3>1. arrays' = [arrays EXCEPT ![a] = [items |-> at, count |-> arrays[a].count + 1,
                                           allocated |-> size]]
      BY <2>4 DEF LayoutInv, ArrayTypes
    <3> HIDE DEF size, at
    <3>2. [items |-> at, count |-> arrays[a].count + 1, allocated |-> size]
            \in {array \in [items : Nat, count : Nat, allocated : Nat] :
                   array.count <= array.allocated}
      BY <2>1, <2>2, <2>7 DEF at
    <3> QED  BY <3>1, <3>2 DEF LayoutInv, ArrayTypes
  <2> QED  BY <2>3, <2>6, <2>8 DEF LayoutInv
<1>4. ASSUME FreeAll PROVE LayoutInv'
  BY <1>4 DEF FreeAll, LayoutInv, ArrayTypes
<1>5. ASSUME FreeBlock \/ AllFreed PROVE LayoutInv'
  BY <1>5 DEF FreeBlock, AllFreed, LayoutInv, ArrayTypes
<1>6. ASSUME OutOfMemory
      PROVE  LayoutInv'
  <2>1. Layout(allocator, mapped, ranges)'
    BY <1>6 DEF OutOfMemory, LayoutInv
  <2> QED  BY <1>6, <2>1 DEF OutOfMemory, LayoutInv, ArrayTypes
<1>7. ASSUME UNCHANGED vars PROVE LayoutInv'
  <2>1. Layout(allocator, mapped, ranges) => Layout(allocator, mapped, ranges)'
    BY <1>7 DEF vars
  <2> QED  BY <1>7, <2>1 DEF vars, LayoutInv, ArrayTypes
<1> QED  BY <1>1, <1>2, <1>3, <1>4, <1>5, <1>6, <1>7 DEF Next

(* Whatever is requested, for all sizes of blocks and footers and all      *)
(* alignments up to a page: what alloc hands out is aligned, lies in a     *)
(* block before its footer, and never overlaps.                            *)
THEOREM NothingOverlaps == Spec => []RangesDisjoint
<1>1. LayoutInv => RangesDisjoint
  BY DEF LayoutInv, Layout, HandedOut, RangesDisjoint, Inside
<1>2. Spec => []LayoutInv
  BY InitLayout, NextLayout, PTL DEF Spec
<1> QED  BY <1>1, <1>2, PTL

-----------------------------------------------------------------------------
(* What is written in the memory.                                          *)

LEMMA DisjointWords ==
  ASSUME NEW r, r.at \in Nat, r.size \in Nat, NEW s, s.at \in Nat, s.size \in Nat,
         Disjoint(r, s), NEW w \in Words(r.at, r.size)
  PROVE  w \notin Words(s.at, s.size)
BY DEF Disjoint, Words

(* What was handed out is in the memory.                                   *)
LEMMA GivenWords ==
  ASSUME NEW a, NEW blocks, NEW given, Layout(a, blocks, given),
         NEW r \in given, NEW w \in Words(r.at, r.size)
  PROVE  \E b \in blocks : w \in Words(b.at, b.size) /\ w \in Addresses
<1>1. r.at \in Nat /\ r.size \in Nat /\ FooterSize \in Nat
  BY SizesAssumption DEF Layout, HandedOut, Ranges
<1>2. PICK b \in blocks : Inside(r, b)
  BY <1>1 DEF Words, Layout, HandedOut
<1>3. b.at \in Nat /\ b.size \in Nat /\ Words(b.at, b.size) \subseteq Addresses
  BY DEF Layout, Blocks, Regions
<1>4. w \in Words(b.at, b.size)
  BY <1>1, <1>2, <1>3 DEF Words, Inside
<1> QED  BY <1>3, <1>4

(* alloc itself writes nothing but a footer outside what was handed out.   *)
LEMMA AllocationsWords ==
  ASSUME Layout(allocator, mapped, ranges), \E S : words \in [Addresses -> S],
         NEW size \in Nat, NEW alignment \in Nat \ {0},
         NEW outcome \in Allocations(size, alignment)
  PROVE  /\ \E S : outcome.words \in [Addresses -> S]
         /\ \A b \in mapped : \A w \in Words(b.at, b.size) :
              w \in Addresses /\ outcome.words[w] = words[w]
<1>1. \A b \in mapped : \A w \in Words(b.at, b.size) : w \in Addresses
  BY DEF Layout, Blocks
<1>2. CASE Fits(size, alignment)
  <2>1. outcome.words = words
    BY <1>2 DEF Allocations
  <2> QED  BY <1>1, <2>1
<1>3. CASE ~ Fits(size, alignment)
  <2>1. PICK at \in Room(BlockFor(size)) :
          outcome.words = [w \in Addresses |->
            IF w \in Words(FooterOf(InBlock([at |-> at, size |-> BlockFor(size)])), FooterSize)
              THEN Footer(allocator) ELSE words[w]]
    BY <1>3 DEF Allocations
  <2> DEFINE n == BlockFor(size)
             block == [at |-> at, size |-> n]
             footer == FooterOf(InBlock(block))
  <2>2. n \in Nat /\ n >= size + FooterSize /\ FooterSize \in Nat /\ at \in Nat
    BY BlockForSize, SizesAssumption DEF Room
  <2>3. \A b \in mapped : Disjoint(block, b)
    BY DEF Room
  <2>4. footer = at + (n - FooterSize)
    BY DEF FooterOf, InBlock
  <2> HIDE DEF n, footer
  <2>5. ASSUME NEW b \in mapped, NEW w \in Words(b.at, b.size)
        PROVE  w \notin Words(footer, FooterSize)
    <3>1. b.at \in Nat /\ b.size \in Nat
      BY DEF Layout, Blocks, Regions
    <3>2. Disjoint(block, b)
      BY <2>3
    <3>3. /\ block.at = at /\ block.size = n
      OBVIOUS
    <3> HIDE DEF block
    <3>4. n = 0 \/ b.size = 0 \/ at + n <= b.at \/ b.at + b.size <= at
      BY <3>2, <3>3 DEF Disjoint
    <3> QED  BY <2>2, <2>4, <3>1, <3>4 DEF Words
  <2>6. outcome.words = [w \in Addresses |->
          IF w \in Words(footer, FooterSize) THEN Footer(allocator) ELSE words[w]]
    BY <2>1 DEF footer, n
  <2>7. \E S : outcome.words \in [Addresses -> S]
    <3>1. PICK S : words \in [Addresses -> S]
      OBVIOUS
    <3>2. outcome.words \in [Addresses -> S \cup {Footer(allocator)}]
      BY <2>6, <3>1
    <3> QED  BY <3>2
  <2>8. \A w \in Addresses : w \notin Words(footer, FooterSize) => outcome.words[w] = words[w]
    BY <2>6
  <2> QED  BY <1>1, <2>5, <2>7, <2>8
<1> QED  BY <1>2, <1>3

(***************************************************************************)
(* The arrays: their items are where they say, each in a range of its own. *)
(***************************************************************************)
ItemsOf(array) == [at |-> array.items, size |-> array.allocated, alignment |-> 1]

Items ==
  /\ \E S : words \in [Addresses -> S]
  /\ \A a \in Arrays : arrays[a].allocated > 0 => ItemsOf(arrays[a]) \in ranges
  /\ \A a, b \in Arrays :
       a = b \/ Disjoint(ItemsOf(arrays[a]), ItemsOf(arrays[b]))
  /\ \A a \in Arrays : \A i \in 0 .. arrays[a].count - 1 :
       words[arrays[a].items + i] = Item(a, i)

ItemsInv == phase = "allocating" => Items

(* The words of the items of an array.                                     *)
LEMMA ItemWords ==
  ASSUME LayoutInv, phase = "allocating", Items, NEW a \in Arrays,
         NEW i \in 0 .. arrays[a].allocated - 1
  PROVE  /\ arrays[a].items + i \in Addresses
         /\ arrays[a].items + i \in Words(ItemsOf(arrays[a]).at, ItemsOf(arrays[a]).size)
         /\ ItemsOf(arrays[a]) \in ranges
         /\ \E b \in mapped : arrays[a].items + i \in Words(b.at, b.size)
<1>1. arrays[a].items \in Nat /\ arrays[a].allocated \in Nat /\ arrays[a].allocated > 0
  BY DEF LayoutInv, ArrayTypes
<1>2. ItemsOf(arrays[a]) \in ranges
  BY <1>1 DEF Items
<1>3. arrays[a].items + i \in Words(ItemsOf(arrays[a]).at, ItemsOf(arrays[a]).size)
  BY <1>1 DEF ItemsOf, Words
<1>4. Layout(allocator, mapped, ranges)
  BY DEF LayoutInv
<1> QED  BY <1>2, <1>3, <1>4, GivenWords

(* alloc changes no item, and what it returns is away from all items.      *)
LEMMA AllocationKeepsItems ==
  ASSUME LayoutInv, phase = "allocating", Items,
         NEW size \in Nat, NEW alignment \in Nat \ {0}, Page % alignment = 0,
         NEW outcome \in Allocations(size, alignment), Takes(outcome, size, alignment),
         NEW r, r = Allocated(outcome.in, size, alignment)
  PROVE  /\ \E S : outcome.words \in [Addresses -> S]
         /\ ranges' = ranges \cup {r} /\ r.at \in Nat /\ r.size = size
         /\ r.alignment = alignment /\ r \in Ranges
         /\ Words(r.at, r.size) \subseteq Addresses
         /\ \A a \in Arrays : Disjoint(ItemsOf(arrays[a]), r)
         /\ \A a \in Arrays : \A i \in 0 .. arrays[a].allocated - 1 :
              /\ arrays[a].items + i \in Addresses
              /\ arrays[a].items + i \notin Words(r.at, r.size)
              /\ outcome.words[arrays[a].items + i] = words[arrays[a].items + i]
<1>1. Layout(allocator, mapped, ranges) /\ \E S : words \in [Addresses -> S]
  BY DEF LayoutInv, Items
<1>2. ranges' = ranges \cup {r}
  BY DEF Takes
<1>3. Layout(allocator', mapped', ranges')
  BY <1>1, AllocationsLayout DEF Takes
<1>4. r \in Ranges /\ r.size = size /\ r.alignment = alignment
  <2>1. r \in Ranges
    BY <1>2, <1>3 DEF Layout, HandedOut
  <2> QED  BY <2>1 DEF Allocated
<1>5. Words(r.at, r.size) \subseteq Addresses
  BY <1>2, <1>3, GivenWords
<1>6. \A s \in ranges : Disjoint(s, r)
  BY <1>1, AllocationsLayout
<1>7. r.at \in Nat /\ r.size \in Nat
  BY <1>4 DEF Ranges
<1>8. ASSUME NEW a \in Arrays PROVE Disjoint(ItemsOf(arrays[a]), r)
  <2>1. CASE arrays[a].allocated > 0
    BY <1>6, <2>1 DEF Items
  <2>2. CASE arrays[a].allocated = 0
    BY <2>2 DEF ItemsOf, Disjoint
  <2> QED  BY <2>1, <2>2 DEF LayoutInv, ArrayTypes
<1>9. ASSUME NEW a \in Arrays, NEW i \in 0 .. arrays[a].allocated - 1
      PROVE  /\ arrays[a].items + i \in Addresses
             /\ arrays[a].items + i \notin Words(r.at, r.size)
             /\ outcome.words[arrays[a].items + i] = words[arrays[a].items + i]
  <2> DEFINE w == arrays[a].items + i
             s == ItemsOf(arrays[a])
  <2>1. w \in Addresses /\ w \in Words(s.at, s.size) /\ \E b \in mapped : w \in Words(b.at, b.size)
    BY ItemWords
  <2>2. s.at \in Nat /\ s.size \in Nat
    BY DEF ItemsOf, LayoutInv, ArrayTypes
  <2>3. Disjoint(s, r)
    BY <1>8
  <2> HIDE DEF w, s
  <2>4. w \notin Words(r.at, r.size)
    BY <1>7, <2>1, <2>2, <2>3, DisjointWords
  <2>5. outcome.words[w] = words[w]
    <3>1. \A b \in mapped : \A v \in Words(b.at, b.size) : outcome.words[v] = words[v]
      BY <1>1, AllocationsWords
    <3> QED  BY <2>1, <3>1
  <2> QED  BY <2>1, <2>4, <2>5 DEF w
<1>10. \E S : outcome.words \in [Addresses -> S]
  BY <1>1, AllocationsWords
<1> QED  BY <1>2, <1>4, <1>5, <1>7, <1>8, <1>9, <1>10

LEMMA InitItems == Init => ItemsInv
<1> SUFFICES ASSUME Init PROVE Items
  BY DEF ItemsInv
<1>1. words \in [Addresses -> {Zero}]
  BY DEF Init
<1>2. \A a \in Arrays : arrays[a].allocated = 0 /\ arrays[a].count = 0
  BY DEF Init
<1>3. \A a, b \in Arrays : Disjoint(ItemsOf(arrays[a]), ItemsOf(arrays[b]))
  BY <1>2 DEF Disjoint, ItemsOf
<1>4. \A a \in Arrays : 0 .. arrays[a].count - 1 = {}
  BY <1>2
<1>5. \E S : words \in [Addresses -> S]
  BY <1>1
<1>6. \A a \in Arrays : ~ (arrays[a].allocated > 0)
  BY <1>2
<1> QED  BY <1>3, <1>4, <1>5, <1>6, Zenon DEF Items

LEMMA AllocItems ==
  ASSUME LayoutInv, ItemsInv, NEW request \in Requests, Alloc(request)
  PROVE  ItemsInv'
<1> DEFINE size == request.size
           alignment == request.alignment
<1>1. size \in Nat /\ alignment \in Nat \ {0} /\ Page % alignment = 0
  BY SizesAssumption
<1>2. phase = "allocating" /\ Items /\ UNCHANGED arrays
  BY DEF Alloc, ItemsInv
<1>3. PICK outcome \in Allocations(size, alignment) :
        /\ Takes(outcome, size, alignment)
        /\ words' = [w \in Addresses |->
             IF w \in Words(Allocated(outcome.in, size, alignment).at,
                            Allocated(outcome.in, size, alignment).size)
               THEN Client ELSE outcome.words[w]]
  BY DEF Alloc
<1> HIDE DEF size, alignment
<1> DEFINE r == Allocated(outcome.in, size, alignment)
<1>5. words' = [w \in Addresses |->
        IF w \in Words(r.at, r.size) THEN Client ELSE outcome.words[w]]
  BY <1>3
<1>8. r = Allocated(outcome.in, size, alignment)
  OBVIOUS
<1> HIDE DEF r
<1>4. /\ \E S : outcome.words \in [Addresses -> S]
      /\ ranges' = ranges \cup {r}
      /\ \A a \in Arrays : \A i \in 0 .. arrays[a].allocated - 1 :
           /\ arrays[a].items + i \in Addresses
           /\ arrays[a].items + i \notin Words(r.at, r.size)
           /\ outcome.words[arrays[a].items + i] = words[arrays[a].items + i]
  BY <1>1, <1>2, <1>3, <1>8, AllocationKeepsItems
<1>6. \E S : words' \in [Addresses -> S]
  <2>1. PICK S : outcome.words \in [Addresses -> S]
    BY <1>4
  <2>2. words' \in [Addresses -> S \cup {Client}]
    BY <1>5, <2>1
  <2> QED  BY <2>2
<1>7. ASSUME NEW a \in Arrays, NEW i \in 0 .. arrays[a].count - 1
      PROVE  words'[arrays[a].items + i] = Item(a, i)
  <2>1. i \in 0 .. arrays[a].allocated - 1
    BY DEF LayoutInv, ArrayTypes
  <2>2. words[arrays[a].items + i] = Item(a, i)
    BY <1>2 DEF Items
  <2> QED  BY <1>4, <1>5, <2>1, <2>2
<1> QED  BY <1>2, <1>4, <1>6, <1>7 DEF Items, ItemsInv

LEMMA AppendItems ==
  ASSUME LayoutInv, ItemsInv, NEW a \in Arrays, AppendItem(a)
  PROVE  ItemsInv'
<1> DEFINE n == arrays[a].count
           at == arrays[a].items + n
<1>1. phase = "allocating" /\ Items /\ UNCHANGED ranges
  BY DEF AppendItem, ItemsInv
<1>2. /\ n < arrays[a].allocated /\ words' = [words EXCEPT ![at] = Item(a, n)]
      /\ arrays' = [arrays EXCEPT ![a].count = n + 1]
  BY DEF AppendItem
<1>3. /\ n \in Nat /\ arrays[a].allocated \in Nat /\ n \in 0 .. arrays[a].allocated - 1
      /\ arrays[a].items \in Nat
  BY <1>2 DEF LayoutInv, ArrayTypes
<1>4. \A b \in Arrays :
        /\ arrays'[b].items = arrays[b].items /\ arrays'[b].allocated = arrays[b].allocated
        /\ arrays'[b].count = IF b = a THEN n + 1 ELSE arrays[b].count
  BY <1>2 DEF LayoutInv, ArrayTypes
<1>5. /\ at \in Addresses /\ at \in Words(ItemsOf(arrays[a]).at, ItemsOf(arrays[a]).size)
  BY <1>1, <1>3, ItemWords
<1> HIDE DEF n, at
<1>6. \E S : words' \in [Addresses -> S]
  <2>1. PICK S : words \in [Addresses -> S]
    BY <1>1 DEF Items
  <2>2. words' \in [Addresses -> S \cup {Item(a, n)}]
    BY <1>2, <2>1
  <2> QED  BY <2>2
<1>7. \A w \in Addresses : words'[w] = IF w = at THEN Item(a, n) ELSE words[w]
  BY <1>1, <1>2 DEF Items
<1>8. ASSUME NEW b \in Arrays, NEW i \in 0 .. arrays'[b].count - 1
      PROVE  words'[arrays'[b].items + i] = Item(b, i)
  <2>1. CASE b = a /\ i = n
    BY <1>4, <1>5, <1>7, <2>1 DEF at, n
  <2>2. CASE b # a \/ i # n
    <3>1. i \in 0 .. arrays[b].count - 1 /\ i \in 0 .. arrays[b].allocated - 1
      BY <1>3, <1>4, <2>2 DEF n, LayoutInv, ArrayTypes
    <3>2. /\ arrays[b].items + i \in Addresses
          /\ arrays[b].items + i \in Words(ItemsOf(arrays[b]).at, ItemsOf(arrays[b]).size)
      BY <1>1, <3>1, ItemWords
    <3>3. arrays[b].items + i # at
      <4>1. CASE b = a
        BY <1>3, <2>2, <4>1 DEF at
      <4>2. CASE b # a
        <5>1. Disjoint(ItemsOf(arrays[b]), ItemsOf(arrays[a]))
          BY <1>1, <4>2 DEF Items
        <5>2. \A c \in Arrays : ItemsOf(arrays[c]).at \in Nat /\ ItemsOf(arrays[c]).size \in Nat
          BY DEF ItemsOf, LayoutInv, ArrayTypes
        <5> QED  BY <1>5, <3>2, <5>1, <5>2, DisjointWords
      <4> QED  BY <4>1, <4>2
    <3>4. words[arrays[b].items + i] = Item(b, i)
      BY <1>1, <3>1 DEF Items
    <3> QED  BY <1>4, <1>7, <3>2, <3>3, <3>4
  <2> QED  BY <2>1, <2>2
<1>9. \A b \in Arrays : ItemsOf(arrays'[b]) = ItemsOf(arrays[b])
  BY <1>4 DEF ItemsOf
<1> QED  BY <1>1, <1>4, <1>6, <1>8, <1>9 DEF Items, ItemsInv

LEMMA GrowItems ==
  ASSUME LayoutInv, ItemsInv, NEW a \in Arrays, GrowAndAppendItem(a)
  PROVE  ItemsInv'
<1> DEFINE size == Grown(arrays[a])
           old == arrays[a].allocated
           n == arrays[a].count
           from == arrays[a].items
<1>1. phase = "allocating" /\ Items /\ old \in Nat /\ n \in Nat /\ from \in Nat /\ n = old
  <2>1. phase = "allocating" /\ arrays[a].count >= arrays[a].allocated
    BY DEF GrowAndAppendItem
  <2>2. /\ arrays[a] \in [items : Nat, count : Nat, allocated : Nat]
        /\ arrays[a].count <= arrays[a].allocated
    <3>1. arrays \in [Arrays -> {array \in [items : Nat, count : Nat, allocated : Nat] :
                                   array.count <= array.allocated}]
      BY DEF LayoutInv, ArrayTypes
    <3> QED  BY <3>1
  <2>3. old \in Nat /\ n \in Nat /\ from \in Nat
    BY <2>2
  <2>4. n = old
    BY <2>1, <2>2, <2>3
  <2> QED  BY <2>1, <2>3, <2>4 DEF ItemsInv
<1>2. size \in Nat /\ size > old /\ 1 \in Nat \ {0} /\ Page % 1 = 0
  BY <1>1, GrownType, SizesAssumption
<1>3. PICK outcome \in Allocations(size, 1) :
        /\ Takes(outcome, size, 1)
        /\ words' = [Copied(outcome.words, from, Allocated(outcome.in, size, 1).at, old)
             EXCEPT ![Allocated(outcome.in, size, 1).at + n] = Item(a, n)]
        /\ arrays' = [arrays EXCEPT ![a] = [items |-> Allocated(outcome.in, size, 1).at,
                                            count |-> @.count + 1, allocated |-> Grown(@)]]
  BY DEF GrowAndAppendItem
<1> DEFINE r == Allocated(outcome.in, size, 1)
           heap == outcome.words
<1>4. r = Allocated(outcome.in, size, 1)
  OBVIOUS
<1>5. /\ words' = [Copied(heap, from, r.at, old) EXCEPT ![r.at + n] = Item(a, n)]
      /\ arrays' = [arrays EXCEPT ![a] = [items |-> r.at, count |-> n + 1, allocated |-> size]]
  BY <1>3 DEF LayoutInv, ArrayTypes
<1> HIDE DEF r, size
<1>6. /\ \E S : heap \in [Addresses -> S]
      /\ ranges' = ranges \cup {r} /\ r.at \in Nat /\ r.size = size
      /\ r.alignment = 1 /\ r \in Ranges
      /\ Words(r.at, r.size) \subseteq Addresses
      /\ \A b \in Arrays : Disjoint(ItemsOf(arrays[b]), r)
      /\ \A b \in Arrays : \A i \in 0 .. arrays[b].allocated - 1 :
           /\ arrays[b].items + i \in Addresses
           /\ arrays[b].items + i \notin Words(r.at, r.size)
           /\ heap[arrays[b].items + i] = words[arrays[b].items + i]
  <2>1. phase = "allocating" /\ Items /\ Takes(outcome, size, 1)
    BY <1>1, <1>3
  <2>2. size \in Nat /\ 1 \in Nat \ {0} /\ Page % 1 = 0
    BY <1>2
  <2>3. outcome \in Allocations(size, 1)
    BY <1>3
  <2> HIDE DEF n, old, from, heap
  <2>4. \E S : outcome.words \in [Addresses -> S]
    <3>1. Layout(allocator, mapped, ranges) /\ \E S : words \in [Addresses -> S]
      BY <2>1 DEF LayoutInv, Items
    <3> QED  BY <2>2, <2>3, <3>1, AllocationsWords
  <2>5. ranges' = ranges \cup {r} /\ r.at \in Nat /\ r.size = size /\ r.alignment = 1 /\ r \in Ranges
    BY <1>4, <2>1, <2>2, <2>3, AllocationKeepsItems
  <2>6. /\ Words(r.at, r.size) \subseteq Addresses
        /\ \A b \in Arrays : Disjoint(ItemsOf(arrays[b]), r)
    BY <1>4, <2>1, <2>2, <2>3, AllocationKeepsItems
  <2>7. \A b \in Arrays : \A i \in 0 .. arrays[b].allocated - 1 :
           /\ arrays[b].items + i \in Addresses
           /\ arrays[b].items + i \notin Words(r.at, r.size)
           /\ outcome.words[arrays[b].items + i] = words[arrays[b].items + i]
    BY <1>4, <2>1, <2>2, <2>3, AllocationKeepsItems
  <2> QED  BY <2>4, <2>5, <2>6, <2>7 DEF heap
<1>7. /\ arrays'[a].items = r.at /\ arrays'[a].count = n + 1 /\ arrays'[a].allocated = size
      /\ \A b \in Arrays : b # a => arrays'[b] = arrays[b]
  BY <1>5 DEF LayoutInv, ArrayTypes
<1> HIDE DEF heap, n, old, from
<1>8. Copied(heap, from, r.at, old) = [w \in Addresses |->
        IF w \in Words(r.at, old) THEN heap[from + (w - r.at)] ELSE heap[w]]
  BY DEF Copied
<1>9. r.at + n \in Words(r.at, r.size) /\ r.at + n \in Addresses
  BY <1>1, <1>2, <1>6 DEF Words
<1>10. \A w \in Addresses :
         words'[w] = IF w = r.at + n THEN Item(a, n)
                     ELSE IF w \in Words(r.at, old) THEN heap[from + (w - r.at)] ELSE heap[w]
  BY <1>5, <1>8, <1>9
<1>11. \E S : words' \in [Addresses -> S]
  <2>1. words' = [w \in Addresses |-> words'[w]]
    BY <1>5, <1>8
  <2>2. words' \in [Addresses -> {words'[w] : w \in Addresses}]
    BY <2>1
  <2> QED  BY <2>2
<1>12. ASSUME NEW b \in Arrays, NEW i \in 0 .. arrays'[b].count - 1
       PROVE  words'[arrays'[b].items + i] = Item(b, i)
  <2>1. CASE b # a
    <3>1. arrays'[b] = arrays[b] /\ i \in 0 .. arrays[b].count - 1
      BY <1>7, <2>1
    <3>2. i \in 0 .. arrays[b].allocated - 1
      BY <3>1 DEF LayoutInv, ArrayTypes
    <3> DEFINE w == arrays[b].items + i
    <3>3. w \in Addresses /\ w \notin Words(r.at, r.size) /\ heap[w] = words[w]
      BY <1>6, <3>2
    <3>4. words[w] = Item(b, i)
      BY <1>1, <3>1 DEF Items
    <3> HIDE DEF w
    <3>5. w # r.at + n /\ w \notin Words(r.at, old)
      BY <1>1, <1>2, <1>6, <1>9, <3>3 DEF Words
    <3>6. words'[w] = heap[w]
      BY <1>10, <3>3, <3>5
    <3> QED  BY <3>1, <3>3, <3>4, <3>6 DEF w
  <2>2. CASE b = a /\ i = n
    BY <1>7, <1>9, <1>10, <2>2
  <2>3. CASE b = a /\ i # n
    <3>1. i \in 0 .. n - 1 /\ i \in 0 .. old - 1
      BY <1>1, <1>7, <2>3
    <3>2. r.at + i \in Words(r.at, old) /\ r.at + i \in Addresses /\ r.at + i # r.at + n
      BY <1>1, <1>2, <1>6, <3>1 DEF Words
    <3>3. from + ((r.at + i) - r.at) = from + i
      BY <1>1, <1>6, <3>1
    <3>4. words'[r.at + i] = heap[from + i]
      BY <1>10, <3>2, <3>3
    <3>5. heap[from + i] = words[from + i]
      BY <1>6, <3>1 DEF from, old
    <3>6. words[from + i] = Item(a, i)
      BY <1>1, <3>1 DEF Items, from, n
    <3> QED  BY <1>7, <2>3, <3>4, <3>5, <3>6
  <2> QED  BY <2>1, <2>2, <2>3
<1>13. ItemsOf(arrays'[a]) = r
  BY <1>6, <1>7 DEF ItemsOf, Ranges
<1>14. \A b \in Arrays : arrays'[b].allocated > 0 => ItemsOf(arrays'[b]) \in ranges'
  BY <1>1, <1>6, <1>7, <1>13 DEF Items
<1>15. \A b, c \in Arrays : b = c \/ Disjoint(ItemsOf(arrays'[b]), ItemsOf(arrays'[c]))
  <2>1. \A b \in Arrays : Disjoint(ItemsOf(arrays[b]), r) /\ Disjoint(r, ItemsOf(arrays[b]))
    BY <1>6 DEF Disjoint
  <2>2. \A b \in Arrays : b # a => ItemsOf(arrays'[b]) = ItemsOf(arrays[b])
    BY <1>7
  <2> QED  BY <1>1, <1>13, <2>1, <2>2 DEF Items
<1> QED  BY <1>11, <1>12, <1>14, <1>15 DEF Items, ItemsInv

LEMMA NextItems == LayoutInv /\ ItemsInv /\ [Next]_vars => ItemsInv'
<1> SUFFICES ASSUME LayoutInv, ItemsInv, [Next]_vars PROVE ItemsInv'
  OBVIOUS
<1>1. ASSUME FreeAll \/ FreeBlock \/ AllFreed PROVE ItemsInv'
  BY <1>1 DEF FreeAll, FreeBlock, AllFreed, ItemsInv
<1>2. ASSUME OutOfMemory
      PROVE  ItemsInv'
  BY <1>2 DEF OutOfMemory, ItemsInv
<1>3. ASSUME UNCHANGED vars PROVE ItemsInv'
  <2>1. Items => Items'
    BY <1>3 DEF vars, Items
  <2> QED  BY <1>3, <2>1 DEF vars, ItemsInv
<1> QED  BY <1>1, <1>2, <1>3, AllocItems, AppendItems, GrowItems DEF Next

(* Every array of the compiler, of tokens to load, source files, datatypes *)
(* or patches, keeps its items, however often it has to move and whatever  *)
(* other clients of the allocator write in between.                        *)
THEOREM ItemsSurvive == Spec => []ArraysKeepTheirItems
<1>1. ItemsInv => ArraysKeepTheirItems
  BY DEF ItemsInv, Items, ArraysKeepTheirItems
<1>2. Init => LayoutInv /\ ItemsInv
  BY InitLayout, InitItems
<1>3. LayoutInv /\ ItemsInv /\ [Next]_vars => (LayoutInv /\ ItemsInv)'
  BY NextLayout, NextItems
<1> QED  BY <1>1, <1>2, <1>3, PTL DEF Spec

-----------------------------------------------------------------------------
(***************************************************************************)
(* The footers: a chain of allocators, from the one in use to the empty    *)
(* one, each saved in the footer of the block of the one before it.        *)
(***************************************************************************)
FooterAt(b) == b.at + b.size - FooterSize

Chain(chain, n, heap, blocks) ==
  /\ n \in Nat /\ chain \in [0 .. n -> Allocators]
  /\ \A i \in 0 .. n - 1 :
       /\ chain[i].memory # Null
       /\ heap[FooterOf(chain[i])] = Footer(chain[i + 1])
  /\ chain[n].memory = Null /\ chain[n].capacity = 0
  /\ \A i, j \in 0 .. n - 1 : BlockOf(chain[i]) = BlockOf(chain[j]) => i = j
  /\ blocks = {BlockOf(chain[i]) : i \in 0 .. n - 1}

Chained(a, heap, blocks) ==
  \E n \in Nat : \E chain \in [0 .. n -> Allocators] :
    Chain(chain, n, heap, blocks) /\ chain[0] = a

LEMMA FooterOfBlock ==
  ASSUME NEW a \in Allocators
  PROVE  FooterAt(BlockOf(a)) = FooterOf(a)
BY SizesAssumption DEF FooterAt, BlockOf, FooterOf, Allocators

(* The allocator in use may take more of its block, and what it hands out  *)
(* may be written, as long as that is no footer.                           *)
LEMMA TakenChained ==
  ASSUME NEW a \in Allocators, NEW heap, NEW blocks, Chained(a, heap, blocks),
         NEW b \in Allocators, b.memory = a.memory, b.capacity = a.capacity,
         NEW after, \A c \in blocks : after[FooterAt(c)] = heap[FooterAt(c)]
  PROVE  Chained(b, after, blocks)
<1>0. PICK n \in Nat : \E chain \in [0 .. n -> Allocators] :
        Chain(chain, n, heap, blocks) /\ chain[0] = a
  BY DEF Chained
<1>1. PICK chain \in [0 .. n -> Allocators] :
        Chain(chain, n, heap, blocks) /\ chain[0] = a
  BY <1>0
<1> DEFINE taken == [i \in 0 .. n |-> IF i = 0 THEN b ELSE chain[i]]
<1>2. taken \in [0 .. n -> Allocators] /\ taken[0] = b
  OBVIOUS
<1>3. ASSUME NEW i \in 0 .. n
      PROVE  /\ taken[i].memory = chain[i].memory /\ taken[i].capacity = chain[i].capacity
             /\ BlockOf(taken[i]) = BlockOf(chain[i]) /\ FooterOf(taken[i]) = FooterOf(chain[i])
  <2>1. taken[i].memory = chain[i].memory /\ taken[i].capacity = chain[i].capacity
    BY <1>1
  <2> QED  BY <2>1 DEF BlockOf, FooterOf
<1>4. \A i \in 0 .. n - 1 : taken[i + 1] = chain[i + 1]
  OBVIOUS
<1> HIDE DEF taken
<1>5. ASSUME NEW i \in 0 .. n - 1
      PROVE  taken[i].memory # Null /\ after[FooterOf(taken[i])] = Footer(taken[i + 1])
  <2>1. i \in 0 .. n /\ chain[i] \in Allocators
    OBVIOUS
  <2>2. /\ chain[i].memory # Null /\ heap[FooterOf(chain[i])] = Footer(chain[i + 1])
        /\ BlockOf(chain[i]) \in blocks
    BY <1>1 DEF Chain
  <2>3. after[FooterOf(chain[i])] = heap[FooterOf(chain[i])]
    BY <2>1, <2>2, FooterOfBlock
  <2> QED  BY <1>3, <1>4, <2>1, <2>2, <2>3
<1>6. taken[n].memory = Null /\ taken[n].capacity = 0
  BY <1>1, <1>3 DEF Chain
<1>7. /\ \A i, j \in 0 .. n - 1 : BlockOf(taken[i]) = BlockOf(taken[j]) => i = j
      /\ blocks = {BlockOf(taken[i]) : i \in 0 .. n - 1}
  <2>1. \A i \in 0 .. n - 1 : i \in 0 .. n
    OBVIOUS
  <2> QED  BY <1>1, <1>3, <2>1 DEF Chain
<1>8. Chain(taken, n, after, blocks)
  BY <1>2, <1>5, <1>6, <1>7 DEF Chain
<1> QED  BY <1>2, <1>8 DEF Chained

(* A new block comes before the others.                                    *)
LEMMA BlockChained ==
  ASSUME NEW a \in Allocators, NEW heap, NEW blocks, Chained(a, heap, blocks),
         NEW b \in Allocators, b.memory # Null, BlockOf(b) \notin blocks,
         heap[FooterOf(b)] = Footer(a)
  PROVE  Chained(b, heap, blocks \cup {BlockOf(b)})
<1>0. PICK n \in Nat : \E chain \in [0 .. n -> Allocators] :
        Chain(chain, n, heap, blocks) /\ chain[0] = a
  BY DEF Chained
<1>1. PICK chain \in [0 .. n -> Allocators] :
        Chain(chain, n, heap, blocks) /\ chain[0] = a
  BY <1>0
<1> DEFINE longer == [i \in 0 .. n + 1 |-> IF i = 0 THEN b ELSE chain[i - 1]]
<1>2. longer \in [0 .. n + 1 -> Allocators] /\ longer[0] = b
  OBVIOUS
<1>3. \A i \in 0 .. n : longer[i + 1] = chain[i]
  OBVIOUS
<1> HIDE DEF longer
<1>4. ASSUME NEW i \in 0 .. n
      PROVE  longer[i].memory # Null /\ heap[FooterOf(longer[i])] = Footer(longer[i + 1])
  <2>1. CASE i = 0
    <3>1. longer[i + 1] = a
      BY <1>1, <1>3, <2>1
    <3> QED  BY <1>2, <2>1, <3>1
  <2>2. CASE i # 0
    <3>1. i - 1 \in 0 .. n - 1 /\ i - 1 \in 0 .. n /\ (i - 1) + 1 = i
      BY <2>2
    <3>2. longer[i] = chain[i - 1] /\ longer[i + 1] = chain[i]
      BY <1>3, <3>1
    <3>3. chain[i - 1].memory # Null /\ heap[FooterOf(chain[i - 1])] = Footer(chain[i])
      BY <1>1, <3>1 DEF Chain
    <3> QED  BY <3>2, <3>3
  <2> QED  BY <2>1, <2>2
<1>5. longer[n + 1].memory = Null /\ longer[n + 1].capacity = 0
  BY <1>1, <1>3 DEF Chain
<1>6. \A i \in 1 .. n : longer[i] = chain[i - 1] /\ BlockOf(longer[i]) \in blocks
  <2> SUFFICES ASSUME NEW i \in 1 .. n
               PROVE  longer[i] = chain[i - 1] /\ BlockOf(longer[i]) \in blocks
    OBVIOUS
  <2>1. i - 1 \in 0 .. n - 1 /\ i - 1 \in 0 .. n /\ (i - 1) + 1 = i
    OBVIOUS
  <2>2. longer[i] = chain[i - 1]
    BY <1>3, <2>1
  <2>3. BlockOf(chain[i - 1]) \in blocks
    BY <1>1, <2>1 DEF Chain
  <2> QED  BY <2>2, <2>3
<1>7. ASSUME NEW i \in 0 .. n, NEW j \in 0 .. n, BlockOf(longer[i]) = BlockOf(longer[j])
      PROVE  i = j
  <2>1. CASE i = 0 \/ j = 0
    <3>1. \A k \in 0 .. n : k = 0 \/ k \in 1 .. n
      OBVIOUS
    <3> QED  BY <1>2, <1>6, <1>7, <2>1, <3>1
  <2>2. CASE i # 0 /\ j # 0
    <3>1. i \in 1 .. n /\ j \in 1 .. n /\ i - 1 \in 0 .. n - 1 /\ j - 1 \in 0 .. n - 1
      BY <2>2
    <3>2. BlockOf(chain[i - 1]) = BlockOf(chain[j - 1])
      BY <1>6, <1>7, <3>1
    <3>3. i - 1 = j - 1
      BY <1>1, <3>1, <3>2 DEF Chain
    <3> QED  BY <3>3
  <2> QED  BY <2>1, <2>2
<1>8. blocks \cup {BlockOf(b)} = {BlockOf(longer[i]) : i \in 0 .. n}
  <2>1. ASSUME NEW c \in blocks PROVE c \in {BlockOf(longer[i]) : i \in 0 .. n}
    <3>1. PICK i \in 0 .. n - 1 : c = BlockOf(chain[i])
      BY <1>1 DEF Chain
    <3>2. i + 1 \in 0 .. n /\ i \in 0 .. n
      OBVIOUS
    <3> QED  BY <1>3, <3>1, <3>2
  <2>2. 0 \in 0 .. n /\ \A i \in 0 .. n : i = 0 \/ i \in 1 .. n
    OBVIOUS
  <2> QED  BY <1>2, <1>6, <2>1, <2>2
<1>9. Chain(longer, n + 1, heap, blocks \cup {BlockOf(b)})
  <2>1. n + 1 \in Nat /\ (n + 1) - 1 = n
    OBVIOUS
  <2> QED  BY <1>2, <1>4, <1>5, <1>7, <1>8, <2>1 DEF Chain
<1>10. n + 1 \in Nat
  OBVIOUS
<1> QED  BY <1>2, <1>9, <1>10 DEF Chained

(* The first block may go.                                                 *)
LEMMA RestChained ==
  ASSUME NEW a, NEW heap, NEW blocks, Chained(a, heap, blocks), a.memory # Null
  PROVE  Chained(heap[FooterOf(a)].saved, heap, blocks \ {BlockOf(a)})
<1>0. PICK n \in Nat : \E chain \in [0 .. n -> Allocators] :
        Chain(chain, n, heap, blocks) /\ chain[0] = a
  BY DEF Chained
<1>1. PICK chain \in [0 .. n -> Allocators] :
        Chain(chain, n, heap, blocks) /\ chain[0] = a
  BY <1>0
<1>2. n # 0 /\ n - 1 \in Nat /\ 0 \in 0 .. n - 1
  BY <1>1 DEF Chain
<1> DEFINE rest == [i \in 0 .. n - 1 |-> chain[i + 1]]
<1>3. rest \in [0 .. n - 1 -> Allocators]
  BY <1>2
<1>4. \A i \in 0 .. n - 1 : rest[i] = chain[i + 1]
  OBVIOUS
<1> HIDE DEF rest
<1>5. rest[0] = heap[FooterOf(a)].saved
  <2>1. heap[FooterOf(chain[0])] = Footer(chain[0 + 1])
    BY <1>1, <1>2 DEF Chain
  <2> QED  BY <1>1, <1>2, <1>4, <2>1 DEF Footer
<1>6. ASSUME NEW i \in 0 .. (n - 1) - 1
      PROVE  rest[i].memory # Null /\ heap[FooterOf(rest[i])] = Footer(rest[i + 1])
  <2>1. i \in 0 .. n - 1 /\ i + 1 \in 0 .. n - 1
    BY <1>2
  <2> QED  BY <1>1, <1>4, <2>1 DEF Chain
<1>7. rest[n - 1].memory = Null /\ rest[n - 1].capacity = 0
  <2>1. n - 1 \in 0 .. n - 1 /\ (n - 1) + 1 = n
    BY <1>2
  <2> QED  BY <1>1, <1>4, <2>1 DEF Chain
<1>8. ASSUME NEW i \in 0 .. (n - 1) - 1, NEW j \in 0 .. (n - 1) - 1,
             BlockOf(rest[i]) = BlockOf(rest[j])
      PROVE  i = j
  <2>1. i \in 0 .. n - 1 /\ i + 1 \in 0 .. n - 1 /\ j \in 0 .. n - 1 /\ j + 1 \in 0 .. n - 1
    BY <1>2
  <2>2. i + 1 = j + 1
    BY <1>1, <1>4, <1>8, <2>1 DEF Chain
  <2> QED  BY <2>2
<1>9. blocks \ {BlockOf(a)} = {BlockOf(rest[i]) : i \in 0 .. (n - 1) - 1}
  <2>1. ASSUME NEW c \in blocks, c # BlockOf(a)
        PROVE  c \in {BlockOf(rest[i]) : i \in 0 .. (n - 1) - 1}
    <3>1. PICK i \in 0 .. n - 1 : c = BlockOf(chain[i])
      BY <1>1 DEF Chain
    <3>2. i # 0
      BY <1>1, <2>1, <3>1
    <3>3. i - 1 \in 0 .. (n - 1) - 1 /\ i - 1 \in 0 .. n - 1 /\ (i - 1) + 1 = i
      BY <3>2
    <3>4. c = BlockOf(rest[i - 1])
      BY <1>4, <3>1, <3>3
    <3> QED  BY <3>3, <3>4
  <2>2. ASSUME NEW i \in 0 .. (n - 1) - 1
        PROVE  BlockOf(rest[i]) \in blocks /\ BlockOf(rest[i]) # BlockOf(a)
    <3>1. i \in 0 .. n - 1 /\ i + 1 \in 0 .. n - 1 /\ i + 1 # 0
      BY <1>2
    <3>2. rest[i] = chain[i + 1] /\ BlockOf(chain[i + 1]) \in blocks
      BY <1>1, <1>4, <3>1 DEF Chain
    <3>3. BlockOf(chain[i + 1]) # BlockOf(chain[0])
      BY <1>1, <1>2, <3>1 DEF Chain
    <3> QED  BY <1>1, <3>2, <3>3
  <2> QED  BY <2>1, <2>2
<1>10. Chain(rest, n - 1, heap, blocks \ {BlockOf(a)})
  BY <1>2, <1>3, <1>6, <1>7, <1>8, <1>9 DEF Chain
<1> QED  BY <1>2, <1>3, <1>5, <1>10 DEF Chained

(* Nothing handed out covers a footer.                                     *)
LEMMA FootersSpared ==
  ASSUME NEW blocks, Blocks(blocks), NEW b \in blocks, NEW c \in blocks,
         NEW r, r.at \in Nat, r.size \in Nat, Inside(r, b)
  PROVE  /\ FooterAt(c) \in Addresses /\ FooterAt(c) \in Words(c.at, c.size)
         /\ FooterAt(c) \notin Words(r.at, r.size)
<1>1. FooterSize \in Nat \ {0}
  BY SizesAssumption
<1>2. /\ b.at \in Nat /\ b.size \in Nat /\ c.at \in Nat /\ c.size \in Nat
      /\ c.size >= FooterSize /\ b.size >= FooterSize /\ Words(c.at, c.size) \subseteq Addresses
  BY DEF Blocks, Regions
<1>3. FooterAt(c) \in Words(c.at, c.size)
  BY <1>1, <1>2 DEF FooterAt, Words
<1>4. CASE b = c
  <2>1. r.at + r.size <= FooterAt(c)
    BY <1>4 DEF Inside, FooterAt
  <2> QED  BY <1>1, <1>2, <1>3, <2>1 DEF Words, FooterAt
<1>5. CASE b # c
  <2>1. Disjoint(b, c)
    BY <1>5 DEF Blocks
  <2>2. FooterAt(c) \notin Words(b.at, b.size)
    BY <1>2, <1>3, <2>1 DEF Disjoint, Words
  <2>3. Words(r.at, r.size) \subseteq Words(b.at, b.size)
    BY <1>1, <1>2 DEF Inside, Words
  <2> QED  BY <1>2, <1>3, <2>2, <2>3
<1> QED  BY <1>4, <1>5

LEMMA AllocationsChained ==
  ASSUME Layout(allocator, mapped, ranges), \E S : words \in [Addresses -> S],
         Chained(allocator, words, mapped), NEW size \in Nat, NEW alignment \in Nat \ {0},
         NEW outcome \in Allocations(size, alignment)
  PROVE  Chained(outcome.in, outcome.words, outcome.mapped)
<1>1. CASE Fits(size, alignment)
  <2>1. outcome.in = allocator /\ outcome.words = words /\ outcome.mapped = mapped
    BY <1>1 DEF Allocations
  <2> QED  BY <2>1
<1>2. CASE ~Fits(size, alignment)
  <2>1. PICK at \in Room(BlockFor(size)) :
          outcome = [in |-> InBlock([at |-> at, size |-> BlockFor(size)]),
                     mapped |-> mapped \cup {[at |-> at, size |-> BlockFor(size)]},
                     words |-> [w \in Addresses |->
                       IF w \in Words(FooterOf(InBlock([at |-> at, size |-> BlockFor(size)])), FooterSize)
                         THEN Footer(allocator) ELSE words[w]]]
    BY <1>2 DEF Allocations
  <2> DEFINE block == [at |-> at, size |-> BlockFor(size)]
             b == InBlock(block)
  <2>2. /\ outcome.in = b /\ outcome.mapped = mapped \cup {block}
        /\ outcome.words = [w \in Addresses |->
             IF w \in Words(FooterOf(b), FooterSize) THEN Footer(allocator) ELSE words[w]]
    BY <2>1
  <2>3. /\ Layout(b, mapped \cup {block}, ranges) /\ BlockOf(b) = block
        /\ \A c \in mapped : Disjoint(block, c)
    BY BlockLayout
  <2>4. b.memory = at /\ at \in Nat \ {0} /\ block.at = at /\ block.size = BlockFor(size)
    BY SizesAssumption DEF Room, InBlock, Null
  <2> HIDE DEF b, block
  <2>5. FooterSize \in Nat \ {0}
    BY SizesAssumption
  <2>6. /\ allocator \in Allocators /\ b \in Allocators /\ b.memory # Null
        /\ Blocks(mapped) /\ Blocks(mapped \cup {block})
    BY <2>3, <2>4 DEF Layout, Using, Null
  <2>7. block \in Regions /\ block.size >= FooterSize /\ block.size \in Nat /\ block.at \in Nat
    BY <2>6 DEF Blocks, Regions
  <2>8. block \notin mapped
    <3> SUFFICES ASSUME block \in mapped PROVE FALSE
      OBVIOUS
    <3>1. Disjoint(block, block)
      BY <2>3
    <3> QED  BY <2>5, <2>7, <3>1 DEF Disjoint
  <2>9. FooterOf(b) \in Addresses /\ FooterOf(b) \in Words(FooterOf(b), FooterSize)
    <3>1. FooterOf(b) = FooterAt(block)
      BY <2>3, <2>6, FooterOfBlock
    <3>2. FooterAt(block) \in Words(block.at, block.size) /\ FooterAt(block) \in Nat
      BY <2>5, <2>7 DEF FooterAt, Words
    <3>3. Words(block.at, block.size) \subseteq Addresses
      BY <2>6 DEF Blocks
    <3> QED  BY <2>5, <3>1, <3>2, <3>3 DEF Words
  <2>10. outcome.words[FooterOf(b)] = Footer(allocator)
    BY <2>2, <2>9
  <2>11. ASSUME NEW c \in mapped PROVE outcome.words[FooterAt(c)] = words[FooterAt(c)]
    <3>1. c.at \in Nat /\ c.size \in Nat /\ c.size >= FooterSize
      BY <2>6 DEF Blocks, Regions
    <3>2. FooterAt(c) \in Words(c.at, c.size)
      BY <2>5, <3>1 DEF FooterAt, Words
    <3> QED  BY <3>2, AllocationsWords
  <2>12. Chained(allocator, outcome.words, mapped)
    BY <2>6, <2>11, TakenChained
  <2> QED  BY <2>2, <2>3, <2>6, <2>8, <2>10, <2>12, BlockChained
<1> QED  BY <1>1, <1>2

(* The heap after an allocation, whatever is written to what was given.    *)
LEMMA TakesChained ==
  ASSUME Layout(allocator, mapped, ranges), \E S : words \in [Addresses -> S],
         Chained(allocator, words, mapped), NEW size \in Nat, NEW alignment \in Nat \ {0},
         Page % alignment = 0, NEW outcome \in Allocations(size, alignment),
         Takes(outcome, size, alignment), NEW r, r = Allocated(outcome.in, size, alignment),
         NEW after, \A w \in Addresses : w \notin Words(r.at, size) => after[w] = outcome.words[w]
  PROVE  Chained(allocator', after, mapped')
<1>1. /\ Layout(outcome.in, outcome.mapped, ranges)
      /\ outcome.in.occupied + AlignmentOffset(outcome.in, alignment) + size
           <= outcome.in.capacity
  BY AllocationsLayout
<1>2. /\ Layout(allocator', mapped', ranges') /\ mapped' = outcome.mapped
      /\ allocator' = Taken(outcome.in, size, alignment) /\ r \in ranges'
  BY TakesLayout DEF Takes
<1>3. size > 0 => outcome.in.memory # Null /\ Inside(r, BlockOf(outcome.in))
  BY <1>1, TakenLayout
<1>4. /\ outcome.in \in Allocators /\ allocator' \in Allocators /\ Blocks(outcome.mapped)
      /\ outcome.in.memory # Null => BlockOf(outcome.in) \in outcome.mapped
      /\ r.at \in Nat /\ r.size = size
  BY <1>1, <1>2 DEF Layout, Using, HandedOut, Ranges, Allocated
<1>5. allocator'.memory = outcome.in.memory /\ allocator'.capacity = outcome.in.capacity
  BY <1>2, <1>4 DEF Taken, Allocators
<1>6. ASSUME NEW c \in outcome.mapped
      PROVE  after[FooterAt(c)] = outcome.words[FooterAt(c)]
  <2>1. FooterAt(c) \in Addresses /\ FooterAt(c) \notin Words(r.at, size)
    <3>1. CASE size > 0
      BY <1>3, <1>4, <3>1, FootersSpared
    <3>2. CASE size = 0
      <4>1. /\ c.at \in Nat /\ c.size \in Nat /\ c.size >= FooterSize /\ FooterSize \in Nat \ {0}
            /\ Words(c.at, c.size) \subseteq Addresses
        BY <1>4, SizesAssumption DEF Blocks, Regions
      <4> QED  BY <1>4, <3>2, <4>1 DEF FooterAt, Words
    <3> QED  BY <3>1, <3>2
  <2> QED  BY <2>1
<1>7. Chained(outcome.in, outcome.words, outcome.mapped)
  BY AllocationsChained
<1> QED  BY <1>2, <1>4, <1>5, <1>6, <1>7, TakenChained

ChainInv == Chained(allocator, words, mapped)

LEMMA InitChain == Init => ChainInv
<1> SUFFICES ASSUME Init PROVE ChainInv
  OBVIOUS
<1> DEFINE chain == [i \in 0 .. 0 |-> allocator]
<1>1. allocator \in Allocators /\ allocator.memory = Null /\ allocator.capacity = 0 /\ mapped = {}
  BY DEF Init, Allocators, Null
<1>2. chain \in [0 .. 0 -> Allocators] /\ chain[0] = allocator /\ 0 .. 0 - 1 = {}
  BY <1>1
<1> HIDE DEF chain
<1>3. Chain(chain, 0, words, mapped)
  BY <1>1, <1>2 DEF Chain
<1> QED  BY <1>2, <1>3 DEF ChainInv, Chained

LEMMA NextChain == LayoutInv /\ ItemsInv /\ ChainInv /\ [Next]_vars => ChainInv'
<1> SUFFICES ASSUME LayoutInv, ItemsInv, ChainInv, [Next]_vars PROVE ChainInv'
  OBVIOUS
<1>1. phase = "allocating" => Layout(allocator, mapped, ranges) /\ Items
  BY DEF LayoutInv, ItemsInv
<1>2. phase = "allocating" => \E S : words \in [Addresses -> S]
  BY <1>1 DEF Items
<1>3. ASSUME NEW request \in Requests, Alloc(request) PROVE ChainInv'
  <2> DEFINE size == request.size
             alignment == request.alignment
  <2>1. size \in Nat /\ alignment \in Nat \ {0} /\ Page % alignment = 0
    BY SizesAssumption
  <2>2. PICK outcome \in Allocations(size, alignment) :
          /\ Takes(outcome, size, alignment)
          /\ words' = [w \in Addresses |->
               IF w \in Words(Allocated(outcome.in, size, alignment).at,
                              Allocated(outcome.in, size, alignment).size)
                 THEN Client ELSE outcome.words[w]]
    BY <1>3 DEF Alloc
  <2>3. phase = "allocating"
    BY <1>3 DEF Alloc
  <2>4. PICK r : r = Allocated(outcome.in, size, alignment)
    OBVIOUS
  <2>5. r.size = size
    BY <2>4 DEF Allocated
  <2> HIDE DEF size, alignment
  <2>6. PICK after : after = words'
    OBVIOUS
  <2>7. \A w \in Addresses : w \notin Words(r.at, size) => after[w] = outcome.words[w]
    BY <2>2, <2>4, <2>5, <2>6
  <2>8. Chained(allocator', after, mapped')
    BY <1>1, <1>2, <2>1, <2>2, <2>3, <2>4, <2>7, TakesChained DEF ChainInv
  <2> QED  BY <2>6, <2>8 DEF ChainInv
<1>4. ASSUME NEW a \in Arrays, AppendItem(a) PROVE ChainInv'
  <2> DEFINE n == arrays[a].count
             at == arrays[a].items + n
  <2>1. /\ phase = "allocating" /\ n < arrays[a].allocated
        /\ words' = [words EXCEPT ![at] = Item(a, n)] /\ UNCHANGED <<allocator, mapped>>
    BY <1>4 DEF AppendItem
  <2>2. n \in 0 .. arrays[a].allocated - 1
    BY <2>1 DEF LayoutInv, ArrayTypes
  <2> DEFINE r == ItemsOf(arrays[a])
  <2>3. at \in Words(r.at, r.size) /\ r \in ranges
    BY <1>1, <2>1, <2>2, ItemWords
  <2>4. r.at \in Nat /\ r.size \in Nat /\ r.size > 0
    BY <2>1, <2>2 DEF ItemsOf, LayoutInv, ArrayTypes
  <2> HIDE DEF r, n, at
  <2>5. Blocks(mapped) /\ \E b \in mapped : Inside(r, b)
    BY <1>1, <2>1, <2>3, <2>4 DEF Layout, HandedOut
  <2>6. ASSUME NEW c \in mapped PROVE words'[FooterAt(c)] = words[FooterAt(c)]
    <3>1. FooterAt(c) # at
      BY <2>3, <2>4, <2>5, FootersSpared
    <3> QED  BY <1>2, <2>1, <3>1
  <2>7. allocator \in Allocators
    BY <1>1, <2>1 DEF Layout, Using
  <2>8. PICK after : after = words'
    OBVIOUS
  <2>9. Chained(allocator, after, mapped)
    BY <2>6, <2>7, <2>8, TakenChained DEF ChainInv
  <2> QED  BY <2>1, <2>8, <2>9 DEF ChainInv
<1>5. ASSUME NEW a \in Arrays, GrowAndAppendItem(a) PROVE ChainInv'
  <2> DEFINE size == Grown(arrays[a])
             old == arrays[a].allocated
             n == arrays[a].count
             from == arrays[a].items
  <2>1. phase = "allocating" /\ arrays[a].count >= arrays[a].allocated
    BY <1>5 DEF GrowAndAppendItem
  <2>2. old \in Nat /\ n \in Nat /\ n = old
    <3>1. arrays \in [Arrays -> {array \in [items : Nat, count : Nat, allocated : Nat] :
                                   array.count <= array.allocated}]
      BY DEF LayoutInv, ArrayTypes
    <3>2. old \in Nat /\ n \in Nat /\ n <= old
      BY <3>1
    <3> QED  BY <2>1, <3>2
  <2>3. size \in Nat /\ size > old /\ 1 \in Nat \ {0} /\ Page % 1 = 0
    BY <2>2, GrownType, SizesAssumption
  <2>4. PICK outcome \in Allocations(size, 1) :
          /\ Takes(outcome, size, 1)
          /\ words' = [Copied(outcome.words, from, Allocated(outcome.in, size, 1).at, old)
               EXCEPT ![Allocated(outcome.in, size, 1).at + n] = Item(a, n)]
    BY <1>5 DEF GrowAndAppendItem
  <2>5. PICK r : r = Allocated(outcome.in, size, 1)
    OBVIOUS
  <2>6. PICK after : after = words'
    OBVIOUS
  <2> HIDE DEF size, old, n, from
  <2>7. Layout(allocator', mapped', ranges') /\ r \in ranges' /\ r.at \in Nat
    <3>1. Layout(allocator, mapped, ranges)'
      BY <1>1, <2>1, <2>3, <2>4, TakesLayout
    <3>2. r \in ranges'
      BY <2>4, <2>5 DEF Takes
    <3> QED  BY <3>1, <3>2 DEF Layout, HandedOut, Ranges
  <2>8. ASSUME NEW w \in Addresses, w \notin Words(r.at, size)
        PROVE  after[w] = outcome.words[w]
    <3>1. w # r.at + n /\ w \notin Words(r.at, old)
      BY <2>2, <2>3, <2>7, <2>8 DEF Words
    <3> DEFINE heap == Copied(outcome.words, from, r.at, old)
    <3>2. heap[w] = outcome.words[w]
      BY <3>1 DEF Copied
    <3>3. after = [heap EXCEPT ![r.at + n] = Item(a, n)]
      BY <2>4, <2>5, <2>6
    <3>4. DOMAIN heap = Addresses
      BY DEF Copied
    <3> HIDE DEF heap
    <3> QED  BY <3>1, <3>2, <3>3, <3>4
  <2>9. Chained(allocator', after, mapped')
    BY <1>1, <1>2, <2>1, <2>3, <2>4, <2>5, <2>8, TakesChained DEF ChainInv
  <2> QED  BY <2>6, <2>9 DEF ChainInv
<1>6. ASSUME FreeBlock PROVE ChainInv'
  BY <1>6, RestChained DEF FreeBlock, ChainInv
<1>7. ASSUME OutOfMemory \/ FreeAll \/ AllFreed \/ UNCHANGED vars PROVE ChainInv'
  BY <1>7 DEF OutOfMemory, FreeAll, AllFreed, vars, ChainInv
<1> QED  BY <1>3, <1>4, <1>5, <1>6, <1>7 DEF Next

(* As many blocks as there are links.                                      *)
LEMMA ChainLength ==
  ASSUME NEW n, NEW chain, NEW heap, NEW blocks, Chain(chain, n, heap, blocks)
  PROVE  Cardinality(blocks) = n
<1> DEFINE block == [i \in 0 .. n - 1 |-> BlockOf(chain[i])]
<1>1. n \in Nat
  BY DEF Chain
<1>2. /\ IsFiniteSet(0 .. n - 1) /\ Cardinality(0 .. n - 1) = n
  <2>1. 0 \in Int /\ n - 1 \in Int
    BY <1>1
  <2> QED  BY <1>1, <2>1, FS_Interval
<1>3. block \in Bijection(0 .. n - 1, blocks)
  <2>1. block \in [0 .. n - 1 -> blocks]
    BY DEF Chain
  <2>2. IsInjective(block)
    BY DEF Chain, IsInjective
  <2>3. \A b \in blocks : \E i \in 0 .. n - 1 : block[i] = b
    BY DEF Chain
  <2> HIDE DEF block
  <2> QED  BY <2>1, <2>2, <2>3 DEF Bijection, Injection, Surjection
<1>4. ExistsBijection(0 .. n - 1, blocks)
  BY <1>3 DEF ExistsBijection
<1> QED  BY <1>2, <1>4, FS_Bijection

(* The chain is what following the footers computes.                       *)
LEMMA ChainFollowed ==
  ASSUME NEW n \in Nat, NEW chain \in [0 .. n -> Allocators],
         Chain(chain, n, words, mapped), chain[0] = allocator
  PROVE  BlocksChained
<1>1. Cardinality(mapped) = n
  BY ChainLength
<1> DEFINE Follows(f) == f = [i \in 0 .. n |->
             IF i = 0 THEN allocator ELSE words[FooterOf(f[i - 1])].saved]
<1>2. Follows(chain)
  <2>1. ASSUME NEW i \in 0 .. n
        PROVE  chain[i] = IF i = 0 THEN allocator ELSE words[FooterOf(chain[i - 1])].saved
    <3>1. CASE i # 0
      <4>1. i - 1 \in 0 .. n - 1 /\ (i - 1) + 1 = i
        BY <3>1
      <4>2. words[FooterOf(chain[i - 1])] = Footer(chain[i])
        BY <4>1 DEF Chain
      <4> QED  BY <3>1, <4>2 DEF Footer
    <3> QED  BY <3>1
  <2>2. chain = [i \in 0 .. n |-> chain[i]]
    OBVIOUS
  <2> QED  BY <2>1, <2>2
<1> DEFINE f == CHOOSE f : Follows(f)
<1>3. Follows(f)
  <2> HIDE DEF Follows
  <2> QED  BY <1>2
<1>4. f = chain
  <2> DEFINE S == {k \in Nat : k <= n => f[k] = chain[k]}
  <2>1. 0 \in S
    <3>1. 0 \in 0 .. n
      OBVIOUS
    <3>2. f[0] = chain[0]
      <4> HIDE DEF f
      <4> QED  BY <1>2, <1>3, <3>1
    <3> HIDE DEF f
    <3> QED  BY <3>2
  <2>2. ASSUME NEW k \in Nat, k \in S PROVE k + 1 \in S
    <3>1. CASE k + 1 <= n
      <4>1. k + 1 \in 0 .. n /\ (k + 1) - 1 = k /\ k + 1 # 0
        BY <3>1
      <4>2. f[k] = chain[k]
        BY <2>2, <3>1
      <4> HIDE DEF f
      <4> QED  BY <1>2, <1>3, <4>1, <4>2
    <3> QED  BY <3>1
  <2>3. Nat \subseteq S
    <3> HIDE DEF S
    <3> QED  BY <2>1, <2>2, NatSetInduction
  <2>4. \A k \in 0 .. n : f[k] = chain[k]
    BY <2>3
  <2> HIDE DEF S, f
  <2>5. f = [k \in 0 .. n |-> f[k]]
    BY <1>3
  <2>6. chain = [k \in 0 .. n |-> chain[k]]
    OBVIOUS
  <2> QED  BY <2>4, <2>5, <2>6
<1>5. /\ mapped = {BlockOf(f[i]) : i \in 0 .. n - 1}
      /\ f[n].memory = Null /\ f[n].capacity = 0
  <2> HIDE DEF f
  <2> QED  BY <1>4 DEF Chain
<1> QED  BY <1>1, <1>5 DEF BlocksChained

(* From the allocator the footers lead through exactly the blocks that are *)
(* mapped, however often something was handed out, written or unmapped:    *)
(* free_all (allocator.c) unmaps all of them.                              *)
THEOREM FootersLeadEverywhere == Spec => []BlocksChained
<1>1. ChainInv => BlocksChained
  BY ChainFollowed DEF ChainInv, Chained
<1>2. Init => LayoutInv /\ ItemsInv /\ ChainInv
  BY InitLayout, InitItems, InitChain
<1>3. LayoutInv /\ ItemsInv /\ ChainInv /\ [Next]_vars => (LayoutInv /\ ItemsInv /\ ChainInv)'
  BY NextLayout, NextItems, NextChain
<1> QED  BY <1>1, <1>2, <1>3, PTL DEF Spec
=============================================================================
