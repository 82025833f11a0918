-------------------------- MODULE Arm64Discipline --------------------------
(***************************************************************************)
(* The arm64 emitter as an AbstractEmitter: values have slots of multiples *)
(* of 16 bytes, and the prologue pushes the link register.                 *)
(***************************************************************************)
EXTENDS Arm64Emit, AbstractEmitter

ASSUME SlotsOfArm64 == Slot = Slots /\ Gap = ReturnAddressSize
=============================================================================
