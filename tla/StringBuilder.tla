--------------------------- MODULE StringBuilder ----------------------------
(***************************************************************************)
(* The string builder of main.c:212-410: a linked list of buffers of       *)
(* Capacity bytes.  Buffers are never moved or split, so a pointer into    *)
(* one (string_builder_append_size) can be written through later, and one  *)
(* builder is appended to another by linking its list.                     *)
(*                                                                         *)
(* The buffers allocated so far are the sequence buffers; a pointer to a   *)
(* buffer is its index and 0 is the null pointer.  Of the data of a buffer *)
(* only the count bytes in use are kept.                                   *)
(***************************************************************************)
EXTENDS Integers, FiniteSets, SequencesExt

CONSTANTS
  Builders,
  Bytes,
  Unset,       \* the content of allocated memory
  Strings,     \* the strings the callers append
  Capacity,    \* MAX_STRING_BUFFER_COUNT
  Alignments,  \* of string_builder_align,
  Fill,        \* and the byte it fills with
  Reservations, \* the sizes asked of string_builder_append_size
  MaxBuffers,  \* bound on the buffers allocated
  MaxSlots     \* bound on the pointers handed out

ASSUME BuildersAssumption == IsFiniteSet(Builders)
ASSUME CapacityAssumption == Capacity \in Nat \ {0}
ASSUME ReservationsAssumption == Reservations \subseteq 1 .. Capacity
ASSUME InputsAssumption ==
  /\ Unset \notin Bytes /\ Fill \in Bytes
  /\ Strings \subseteq Seq(Bytes)
  /\ Alignments \subseteq Nat \ {0}

VARIABLES
  buffers,   \* [next, data] of every buffer
  builders,  \* [first, current] of every builder
  pointers,  \* what string_builder_append_size returned: [buffer, offset, size]
  appended   \* the builders given to string_builder_append_builder

vars == <<buffers, builders, pointers, appended>>

-----------------------------------------------------------------------------
Buffers == [next : Nat, data : Seq(Bytes \cup {Unset})]

NewBuffer == [next |-> 0, data |-> <<>>]

Current(b) == buffers[builders[b].current]

(* The bytes that string_builder_ensure_space finds free.                  *)
Room(b) == Capacity - Len(Current(b).data)

ReservedNothing(data, size) == data \* mutant

Reserved(data, size) == data \o [i \in 1 .. size |-> Unset]

(* The list of a builder, as the loop of string_builder_get_size and of    *)
(* main (main.c:831-838) walks it: next from first_buffer on until null.   *)
Extend(list, heap) ==
  IF heap[Last(list)].next = 0 THEN list ELSE Append(list, heap[Last(list)].next)

Follow(first, heap) ==
  LET list[n \in 0 .. Len(heap)] == IF n = 0 THEN <<first>> ELSE Extend(list[n - 1], heap)
  IN  list[Len(heap)]

List(b) == Follow(builders[b].first, buffers)

GetSize(b) ==
  FoldLeft(LAMBDA size, i : size + Len(buffers[i].data), 0, List(b))

(* The loops of string_builder_append_string: what fits into the current   *)
(* buffer goes there, the rest into new buffers of Capacity bytes each.    *)
(* ensure_space(1) comes first, so that a full buffer is followed by a new *)
(* one even for the empty string.                                          *)
Pieces(bytes) ==
  [i \in 1 .. (Len(bytes) + Capacity - 1) \div Capacity |->
     SubSeq(bytes, (i - 1) * Capacity + 1,
            IF i * Capacity < Len(bytes) THEN i * Capacity ELSE Len(bytes))]

(* Buffers for the pieces linked after the last buffer of the list.        *)
Linked(pieces) ==
  [i \in 1 .. Len(pieces) |->
     [next |-> IF i = Len(pieces) THEN 0 ELSE Len(buffers) + i + 1, data |-> pieces[i]]]

ExtendedFromStart(data, bytes) == IF bytes = <<>> THEN data ELSE bytes \* mutant

(* What a string adds to the buffer it starts in.                          *)
Extended(data, bytes) == data \o bytes

AppendString(b, str) ==
  LET fits == IF Len(str) < Room(b) THEN Len(str) ELSE Room(b)
      rest == SubSeq(str, fits + 1, Len(str))
      pieces == IF Room(b) = 0 /\ str = <<>> THEN <<<<>>>> ELSE Pieces(rest)
  IN  /\ Len(buffers) + Len(pieces) <= MaxBuffers
      /\ buffers' = [buffers EXCEPT
                       ![builders[b].current] =
                          [next |-> IF pieces = <<>> THEN @.next ELSE Len(buffers) + 1,
                           data |-> Extended(@.data, SubSeq(str, 1, fits))]]
                    \o Linked(pieces)
      /\ builders' = IF pieces = <<>> THEN builders
                     ELSE [builders EXCEPT ![b].current = Len(buffers) + Len(pieces)]
      /\ UNCHANGED <<pointers, appended>>

AppendBytesTo(b) == b \notin appended /\ \E str \in Strings : AppendString(b, str)

(* string_builder_align pads to the next multiple of alignment with single *)
(* bytes, each after ensure_space(1).                                      *)
Align(b, alignment) ==
  /\ b \notin appended
  /\ \E padding \in 1 .. alignment - 1 :
       /\ (GetSize(b) + padding) % alignment = 0
       /\ AppendString(b, [i \in 1 .. padding |-> Fill])

(* string_builder_append_size: the bytes are contiguous, what is left of a *)
(* buffer too small for them stays unused.                                 *)
AppendSize(b, size) ==
  /\ b \notin appended
  /\ Cardinality(pointers) < MaxSlots
  /\ IF size <= Room(b)
     THEN /\ buffers' = [buffers EXCEPT ![builders[b].current].data = Reserved(@, size)]
          /\ pointers' = pointers \cup {[buffer |-> builders[b].current,
                                         offset |-> Len(Current(b).data), size |-> size]}
          /\ UNCHANGED builders
     ELSE /\ Len(buffers) < MaxBuffers
          /\ buffers' = Append([buffers EXCEPT ![builders[b].current].next = Len(buffers) + 1],
                               [next |-> 0, data |-> Reserved(<<>>, size)])
          /\ pointers' = pointers \cup {[buffer |-> Len(buffers) + 1, offset |-> 0, size |-> size]}
          /\ builders' = [builders EXCEPT ![b].current = Len(buffers) + 1]
  /\ UNCHANGED appended

(* A caller writes a value of the size reserved through its pointer.       *)
Patch(pointer, bytes) ==
  /\ Len(bytes) = pointer.size
  /\ buffers' = [buffers EXCEPT ![pointer.buffer].data =
                   [i \in DOMAIN @ |-> IF i - pointer.offset \in 1 .. pointer.size
                                       THEN bytes[i - pointer.offset] ELSE @[i]]]
  /\ UNCHANGED <<builders, pointers, appended>>

AppendBuilderKept(b, append) == \* mutant: current_buffer not updated
  /\ b # append /\ b \notin appended /\ append \notin appended
  /\ buffers' = [buffers EXCEPT ![builders[b].current].next = builders[append].first]
  /\ appended' = appended \cup {append}
  /\ UNCHANGED <<builders, pointers>>

(* string_builder_append_builder.  No caller uses the appended builder or  *)
(* appends a builder to itself afterwards.                                 *)
AppendBuilder(b, append) ==
  /\ b # append /\ b \notin appended /\ append \notin appended
  /\ buffers' = [buffers EXCEPT ![builders[b].current].next = builders[append].first]
  /\ builders' = [builders EXCEPT ![b].current = builders[append].current]
  /\ appended' = appended \cup {append}
  /\ UNCHANGED pointers

(* initialize_string_builder, for every builder.                           *)
Init ==
  /\ \E order \in [Builders -> 1 .. Cardinality(Builders)] :
       /\ \A b, c \in Builders : b # c => order[b] # order[c]
       /\ builders = [b \in Builders |-> [first |-> order[b], current |-> order[b]]]
  /\ buffers = [i \in 1 .. Cardinality(Builders) |-> NewBuffer]
  /\ pointers = {}
  /\ appended = {}

Next ==
  \/ \E b \in Builders : AppendBytesTo(b)
  \/ \E b \in Builders, alignment \in Alignments : Align(b, alignment)
  \/ \E b \in Builders, size \in Reservations : AppendSize(b, size)
  \/ \E pointer \in pointers, bytes \in Strings : Patch(pointer, bytes)
  \/ \E b, append \in Builders : AppendBuilder(b, append)

Spec == Init /\ [][Next]_vars

-----------------------------------------------------------------------------
(* Properties.                                                             *)

Pointers == [buffer : Nat, offset : Nat, size : Nat]

(* Every variable has its type.                                            *)
TypeOK ==
  /\ buffers \in Seq(Buffers)
  /\ builders \in [Builders -> [first : 1 .. Len(buffers), current : 1 .. Len(buffers)]]
  /\ pointers \subseteq Pointers
  /\ appended \subseteq Builders

InUse == Builders \ appended

(* No buffer overflows, and a pointer that was handed out designates bytes *)
(* in use of one buffer, for good, which no other pointer overlaps:        *)
(* filling one slot leaves the others alone.  Links lead to buffers, never *)
(* two to the same nor one to the first of a builder in use, so that from  *)
(* there they are a list; and nothing follows the current buffer of a      *)
(* builder in use, so that linking another behind it loses none.           *)
MemorySafe ==
  /\ TypeOK
  /\ \A i \in 1 .. Len(buffers) :
       Len(buffers[i].data) <= Capacity /\ buffers[i].next \in 0 .. Len(buffers)
  /\ \A p \in pointers :
       /\ p.buffer \in 1 .. Len(buffers)
       /\ p.offset + p.size <= Len(buffers[p.buffer].data)
  /\ \A p, q \in pointers :
       \/ p = q \/ p.buffer # q.buffer
       \/ p.offset + p.size <= q.offset \/ q.offset + q.size <= p.offset
  /\ \A i, j \in 1 .. Len(buffers) :
       buffers[i].next = buffers[j].next => i = j \/ buffers[i].next = 0
  /\ \A b \in InUse :
       /\ Current(b).next = 0
       /\ \A i \in 1 .. Len(buffers) : buffers[i].next # builders[b].first
  /\ \A b, c \in InUse : b # c => builders[b].first # builders[c].first

(* The lists of the builders in use are disjoint and lead to the current   *)
(* buffer, so that an append to one builder never shows in another.        *)
ListsDisjoint ==
  \A b \in InUse :
    /\ List(b)[Len(List(b))] = builders[b].current
    /\ Cardinality(ToSet(List(b))) = Len(List(b))
    /\ \A c \in InUse : b # c => ToSet(List(b)) \cap ToSet(List(c)) = {}

-----------------------------------------------------------------------------
(* The streams that the builders are, when the buffers are heap and the    *)
(* first buffers of the builders in use are given by heads: chunking,      *)
(* padding to the end of a buffer and sharing of buffers do not show.      *)
BytesIn(list, heap) == FlattenSeq([i \in 1 .. Len(list) |-> heap[list[i]].data])

Content(heads, heap) == [b \in DOMAIN heads |-> BytesIn(Follow(heads[b], heap), heap)]

(* The builder whose list a pointer leads into, and how far into it.       *)
Position(p, heads, heap) ==
  LET b == CHOOSE c \in DOMAIN heads : p.buffer \in ToSet(Follow(heads[c], heap))
      list == Follow(heads[b], heap)
      before == SelectInSeq(list, LAMBDA i : i = p.buffer) - 1
  IN  [stream |-> b, at |-> Len(BytesIn(SubSeq(list, 1, before), heap)) + p.offset,
       size |-> p.size]

Heads == [b \in InUse |-> builders[b].first]
=============================================================================
