----------------------------- MODULE ByteStream -----------------------------
(***************************************************************************)
(* What the code generators and the writers of binary files expect of a    *)
(* string builder (main.c:212-410): an append-only sequence of bytes with  *)
(* slots that are reserved now and filled in later, in which one stream    *)
(* can be appended to another together with its slots.                     *)
(***************************************************************************)
EXTENDS Integers, Sequences

CONSTANTS
  Streams,
  Bytes,
  Unset      \* the unknown content of a reserved byte

VARIABLES
  content,   \* the bytes of every stream
  slots,     \* the slots reserved: [stream, at, size], at counted from 0
  joined     \* the streams that are now part of another one

streamVars == <<content, slots, joined>>

Slots == [stream : Streams, at : Nat, size : Nat]

StreamTypeOK ==
  /\ content \in [Streams -> Seq(Bytes \cup {Unset})]
  /\ slots \subseteq Slots
  /\ joined \subseteq Streams

StreamInit ==
  /\ content = [s \in Streams |-> <<>>]
  /\ slots = {}
  /\ joined = {}

AppendBytes(s, bytes) ==
  /\ s \notin joined
  /\ content' = [content EXCEPT ![s] = @ \o bytes]
  /\ UNCHANGED <<slots, joined>>

ReserveBytes(s, n) ==
  /\ s \notin joined
  /\ content' = [content EXCEPT ![s] = @ \o [i \in 1 .. n |-> Unset]]
  /\ slots' = slots \cup {[stream |-> s, at |-> Len(content[s]), size |-> n]}
  /\ UNCHANGED joined

(* A slot may be filled at any time, also after its stream was joined.     *)
FillSlot(slot, bytes) ==
  /\ slot \in slots
  /\ Len(bytes) = slot.size
  /\ content' = [content EXCEPT ![slot.stream] =
                   [i \in DOMAIN @ |-> IF i - slot.at \in 1 .. slot.size
                                       THEN bytes[i - slot.at] ELSE @[i]]]
  /\ UNCHANGED <<slots, joined>>

JoinStreams(s, t) ==
  /\ s # t /\ s \notin joined /\ t \notin joined
  /\ content' = [content EXCEPT ![s] = @ \o content[t], ![t] = <<>>]
  /\ slots' = {IF slot.stream = t
               THEN [slot EXCEPT !.stream = s, !.at = @ + Len(content[s])]
               ELSE slot : slot \in slots}
  /\ joined' = joined \cup {t}

StreamNext ==
  \/ \E s \in Streams, bytes \in Seq(Bytes) : AppendBytes(s, bytes)
  \/ \E s \in Streams, n \in Nat : ReserveBytes(s, n)
  \/ \E slot \in slots : \E bytes \in [1 .. slot.size -> Bytes] : FillSlot(slot, bytes)
  \/ \E s, t \in Streams : JoinStreams(s, t)

StreamSpec == StreamInit /\ [][StreamNext]_streamVars
=============================================================================
