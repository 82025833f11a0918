------------------------------ MODULE Allocator ------------------------------
(***************************************************************************)
(* The allocator that everything the compiler keeps comes from             *)
(* (allocator.c) and the growing arrays on top of it (array_append,        *)
(* main.c:97-107), with the memory they live in.                           *)
(*                                                                         *)
(* Addresses count words of eight bytes.  A word holds what was written to *)
(* it last, be it a client's or the allocator's own: the footers of the    *)
(* blocks are in the same memory as what is handed out.  A client writes   *)
(* everything it was given.  Nothing is freed before free_all.             *)
(***************************************************************************)
EXTENDS Integers, FiniteSets

CONSTANTS
  Addresses,   \* where the system may map memory
  Page,        \* what it aligns the mapped memory to
  BlockSize,   \* 64 * 1024, the size of a block
  Granule,     \* 16 * 1024, what larger blocks are a multiple of
  FooterSize,  \* sizeof(AllocatorFooter)
  Requests,    \* the requests of the clients: [size, alignment]
  Arrays,      \* the growing arrays; an item takes one word
  FirstCount   \* 16, the items an array has room for at first

Null == 0

ASSUME SizesAssumption ==
  /\ Addresses \subseteq Nat \ {Null}
  /\ {Page, BlockSize, Granule, FooterSize, FirstCount} \subseteq Nat \ {0}
  /\ BlockSize > FooterSize
  /\ Requests \subseteq [size : Nat, alignment : Nat \ {0}]
  \* Alignments are powers of two, and none is larger than a page.
  /\ \A request \in Requests : Page % request.alignment = 0

VARIABLES
  allocator,   \* default_allocator: [capacity, occupied, memory]
  words,       \* the contents of the memory
  mapped,      \* the regions that are mapped: [at, size]
  ranges,      \* what was handed out: [at, size, alignment]
  arrays,      \* every array: [items, count, allocated]
  phase        \* "allocating", "freeing", "freed" or "crashed"

vars == <<allocator, words, mapped, ranges, arrays, phase>>

(* What a word may hold.                                                   *)
Zero == [zero |-> 0]
Client == [client |-> 0]
Item(array, index) == [array |-> array, index |-> index]
Footer(a) == [saved |-> a]

Words(at, size) == at .. at + size - 1

Disjoint(a, b) ==
  \/ a.size = 0 \/ b.size = 0
  \/ a.at + a.size <= b.at \/ b.at + b.size <= a.at

-----------------------------------------------------------------------------
(* alloc.                                                                  *)

(* get_alignment_offset.                                                   *)
AlignmentOffset(a, alignment) ==
  LET past == (a.memory + a.occupied) % alignment
  IN  IF past = 0 THEN 0 ELSE alignment - past

Fits(size, alignment) ==
  allocator.occupied + AlignmentOffset(allocator, alignment) + size <= allocator.capacity

(* Mutant: a large block has no room for its footer.                       *)
BlockWithoutFooter(size) ==
  LET required == Granule * ((size + Granule - 1) \div Granule)
  IN  IF required > BlockSize THEN required ELSE BlockSize

(* The size of a block for a request that the current one has no room for. *)
BlockFor(size) ==
  LET required == Granule * ((size + FooterSize + Granule - 1) \div Granule)
  IN  IF required > BlockSize THEN required ELSE BlockSize

(* Where the system finds room for a region.                               *)
Room(size) ==
  {at \in Addresses :
     /\ at % Page = 0
     /\ Words(at, size) \subseteq Addresses
     /\ \A r \in mapped : Disjoint([at |-> at, size |-> size], r)}

(* The allocator in a new block.                                           *)
InBlock(block) ==
  [capacity |-> block.size - FooterSize, occupied |-> 0, memory |-> block.at]

BlockOf(a) == [at |-> a.memory, size |-> a.capacity + FooterSize]
FooterOf(a) == a.memory + a.capacity

(* What alloc returns in the block of a, and the allocator after it.       *)
Allocated(a, size, alignment) ==
  [at |-> a.memory + a.occupied + AlignmentOffset(a, alignment),
   size |-> size, alignment |-> alignment]

Taken(a, size, alignment) ==
  [a EXCEPT !.occupied = @ + AlignmentOffset(a, alignment) + size]

(* The outcomes of alloc: in the current block, or in a new one, at the    *)
(* end of which the footer saves the allocator.                            *)
Allocations(size, alignment) ==
  IF Fits(size, alignment)
    THEN {[in |-> allocator, mapped |-> mapped, words |-> words]}
    ELSE {[in |-> InBlock(block), mapped |-> mapped \cup {block},
           words |-> [w \in Addresses |->
                        IF w \in Words(FooterOf(InBlock(block)), FooterSize)
                          THEN Footer(allocator) ELSE words[w]]] :
            block \in {[at |-> at, size |-> BlockFor(size)] : at \in Room(BlockFor(size))}}

Takes(outcome, size, alignment) ==
  /\ allocator' = Taken(outcome.in, size, alignment)
  /\ mapped' = outcome.mapped
  /\ ranges' = ranges \cup {Allocated(outcome.in, size, alignment)}

-----------------------------------------------------------------------------
(* The clients: buffers of string builders, strings, files; and arrays.    *)

Alloc(request) ==
  /\ phase = "allocating"
  /\ \E outcome \in Allocations(request.size, request.alignment) :
       LET r == Allocated(outcome.in, request.size, request.alignment)
       IN  /\ Takes(outcome, request.size, request.alignment)
           /\ words' = [w \in Addresses |->
                          IF w \in Words(r.at, r.size) THEN Client ELSE outcome.words[w]]
  /\ UNCHANGED <<arrays, phase>>

(* array_append while there is room.                                       *)
AppendItem(a) ==
  /\ phase = "allocating"
  /\ arrays[a].count < arrays[a].allocated
  /\ words' = [words EXCEPT ![arrays[a].items + arrays[a].count] = Item(a, arrays[a].count)]
  /\ arrays' = [arrays EXCEPT ![a].count = @ + 1]
  /\ UNCHANGED <<allocator, mapped, ranges, phase>>

(* The room after an array has grown.                                      *)
Grown(array) == IF array.allocated = 0 THEN FirstCount ELSE 2 * array.allocated

(* Mutant: the items are not copied.                                       *)
CopiedNothing(heap, from, to, count) == heap

(* The loop of reallocate.                                                 *)
Copied(heap, from, to, count) ==
  [w \in Addresses |->
     IF w \in Words(to, count) THEN heap[from + (w - to)] ELSE heap[w]]

(* array_append when there is none: reallocate, then the item.             *)
GrowAndAppendItem(a) ==
  /\ phase = "allocating"
  /\ arrays[a].count >= arrays[a].allocated
  /\ \E outcome \in Allocations(Grown(arrays[a]), 1) :
       LET r == Allocated(outcome.in, Grown(arrays[a]), 1)
       IN  /\ Takes(outcome, Grown(arrays[a]), 1)
           /\ words' = [Copied(outcome.words, arrays[a].items, r.at, arrays[a].allocated)
                          EXCEPT ![r.at + arrays[a].count] = Item(a, arrays[a].count)]
           /\ arrays' = [arrays EXCEPT ![a] = [items |-> r.at, count |-> @.count + 1,
                                               allocated |-> Grown(@)]]
  /\ UNCHANGED phase

(* allocate returns null for a request or for an array that has to grow,   *)
(* and alloc writes the footer into that.                                  *)
OutOfMemory ==
  /\ phase = "allocating"
  /\ \/ \E request \in Requests : Allocations(request.size, request.alignment) = {}
     \/ \E a \in Arrays : /\ arrays[a].count >= arrays[a].allocated
                          /\ Allocations(Grown(arrays[a]), 1) = {}
  /\ phase' = "crashed"
  /\ UNCHANGED <<allocator, words, mapped, ranges, arrays>>

-----------------------------------------------------------------------------
(* free_all, at the end of main.                                           *)
FreeAll ==
  /\ phase = "allocating"
  /\ phase' = "freeing"
  /\ ranges' = {}
  /\ UNCHANGED <<allocator, words, mapped, arrays>>

(* Mutant: the region is unmapped without its footer.                      *)
FreeBlockAsOffered ==
  /\ phase = "freeing"
  /\ allocator.memory # Null
  /\ allocator' = words[FooterOf(allocator)].saved
  /\ mapped' = mapped \ {[at |-> allocator.memory, size |-> allocator.capacity]}
  /\ UNCHANGED <<words, ranges, arrays, phase>>

FreeBlock ==
  /\ phase = "freeing"
  /\ allocator.memory # Null
  /\ allocator' = words[FooterOf(allocator)].saved
  /\ mapped' = mapped \ {BlockOf(allocator)}
  /\ UNCHANGED <<words, ranges, arrays, phase>>

AllFreed ==
  /\ phase = "freeing"
  /\ allocator.memory = Null
  /\ phase' = "freed"
  /\ UNCHANGED <<allocator, words, mapped, ranges, arrays>>

Init ==
  /\ allocator = [capacity |-> 0, occupied |-> 0, memory |-> Null]
  /\ words = [w \in Addresses |-> Zero]
  /\ mapped = {}
  /\ ranges = {}
  /\ arrays = [a \in Arrays |-> [items |-> Null, count |-> 0, allocated |-> 0]]
  /\ phase = "allocating"

Next ==
  \/ \E request \in Requests : Alloc(request)
  \/ \E a \in Arrays : AppendItem(a) \/ GrowAndAppendItem(a)
  \/ OutOfMemory \/ FreeAll \/ FreeBlock \/ AllFreed

Spec == Init /\ [][Next]_vars

-----------------------------------------------------------------------------
(* Properties.                                                             *)

(* What was handed out is aligned, lies in a block before its footer, and  *)
(* never overlaps, however requests, blocks and padding alternate.         *)
RangesDisjoint ==
  /\ \A r, s \in ranges : r = s \/ Disjoint(r, s)
  /\ \A r \in ranges :
       /\ r.at % r.alignment = 0
       /\ r.size > 0 => \E b \in mapped :
                          b.at <= r.at /\ r.at + r.size <= b.at + b.size - FooterSize

(* The items of an array are where it says, however often it moved and     *)
(* whatever was allocated and written in between.                          *)
ArraysKeepTheirItems ==
  phase = "allocating" =>
    \A a \in Arrays : \A i \in 0 .. arrays[a].count - 1 :
      words[arrays[a].items + i] = Item(a, i)

(* From the allocator the footers lead through all mapped blocks, each     *)
(* with its own size, and then to the empty allocator: free_all unmaps     *)
(* every block once and as it was mapped, and then ends.                   *)
BlocksChained ==
  LET chain[i \in 0 .. Cardinality(mapped)] ==
        IF i = 0 THEN allocator ELSE words[FooterOf(chain[i - 1])].saved
      last == Cardinality(mapped)
  IN  /\ mapped = {BlockOf(chain[i]) : i \in 0 .. last - 1}
      /\ chain[last].memory = Null /\ chain[last].capacity = 0
=============================================================================
