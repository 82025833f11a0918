-------------------------- MODULE MCStringBuilder --------------------------
(***************************************************************************)
(* StringBuilder for TLC: buffers of two bytes instead of 1024 and        *)
(* strings shorter and longer than a buffer.  The streams that the         *)
(* builders are (the refinement mapping) are kept in variables, which are  *)
(* functions of the others, so that TLC computes them once per state.      *)
(***************************************************************************)
EXTENDS StringBuilder

Permuted == Permutations(Builders)

VARIABLES content, slots

SomeStrings == {<<>>, <<"x">>, <<"y", "x">>, <<"y", "x", "x">>}

MCInit ==
  /\ Init
  /\ content = [b \in Builders |-> <<>>]
  /\ slots = {}

MCNext ==
  /\ Next
  /\ \E heads \in {Heads'}, heap \in {buffers'} :
       /\ content' = Content(heads, heap) @@ [b \in Builders |-> <<>>]
       /\ slots' = {Position(p, heads, heap) : p \in pointers'}

MCSpec == MCInit /\ [][MCNext]_<<vars, content, slots>>

Stream == INSTANCE ByteStream WITH Streams <- Builders, joined <- appended

(* ByteStream!StreamNext with inputs that TLC can enumerate.               *)
Paddings == {[i \in 1 .. n |-> Fill] : n \in 1 .. 2}
StreamStep ==
  \/ \E b \in Builders, bytes \in SomeStrings \cup Paddings : Stream!AppendBytes(b, bytes)
  \/ \E b \in Builders, n \in Reservations : Stream!ReserveBytes(b, n)
  \/ \E slot \in slots, bytes \in SomeStrings : Stream!FillSlot(slot, bytes)
  \/ \E b, c \in Builders : Stream!JoinStreams(b, c)

(* The builders behave like streams: whatever the buffers, an append adds  *)
(* its bytes at the end of its stream alone, and a slot filled through a   *)
(* pointer is the one reserved, wherever its stream went in the meantime   *)
(* (generate_x64 keeps such pointers for its patches while sections are    *)
(* joined into the file).                                                  *)
ImplementsByteStream == Stream!StreamInit /\ [][StreamStep]_(Stream!streamVars)
=============================================================================
