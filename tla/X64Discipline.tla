--------------------------- MODULE X64Discipline ---------------------------
(***************************************************************************)
(* The x86-64 emitter as an AbstractEmitter: every value takes up as many  *)
(* bytes on the stack as it has, and a call pushes the return address.     *)
(***************************************************************************)
EXTENDS X64Emit, AbstractEmitter

ASSUME SlotsOfX64 == Slot = Size /\ Gap = ReturnAddressSize
=============================================================================
