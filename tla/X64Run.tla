------------------------------- MODULE X64Run -------------------------------
(***************************************************************************)
(* The function that X64Emit emits, executed.  The processor is reduced to *)
(* the position in the text and to depth, the bytes RSP is below its value *)
(* at the entry of the function; conditional jumps go either way.          *)
(*                                                                         *)
(* The emitter addresses every slot relative to RSP with the depth it      *)
(* believes in, so the code is right only if that belief is true on every  *)
(* path through loops, early returns and nested scopes.                    *)
(***************************************************************************)
EXTENDS X64Emit

VARIABLES
  phase,   \* "emit", "run" or "returned"
  pc,      \* the next instruction
  depth    \* RSP_entry - RSP

runVars == <<phase, pc, depth>>

Emit == phase = "emit" /\ Next /\ UNCHANGED runVars

(* The function is called: RSP points to the return address.               *)
Enter ==
  /\ phase = "emit" /\ frames = <<>>
  /\ phase' = "run" /\ pc' = 1 /\ depth' = 0
  /\ UNCHANGED vars

Fetch(op) == phase = "run" /\ pc \in 1 .. Len(text) /\ text[pc].op = op

Execute == UNCHANGED vars /\ UNCHANGED phase

AdjustRsp ==
  /\ Fetch("rsp")
  /\ pc' = pc + 1
  /\ depth' = depth + text[pc].by
  /\ Execute

JumpIfZero ==
  /\ Fetch("je")
  /\ pc' \in {pc + 1, text[pc].to}
  /\ UNCHANGED depth
  /\ Execute

Jump ==
  /\ Fetch("jmp")
  /\ pc' = text[pc].to
  /\ UNCHANGED depth
  /\ Execute

(* The callee returns with RSP as it found it.                             *)
CallReturns ==
  /\ Fetch("call")
  /\ pc' = pc + 1
  /\ UNCHANGED depth
  /\ Execute

Ret ==
  /\ Fetch("ret")
  /\ phase' = "returned"
  /\ UNCHANGED <<pc, depth>>
  /\ UNCHANGED vars

RunInit == Init /\ phase = "emit" /\ pc = 0 /\ depth = 0

RunNext ==
  \/ Emit
  \/ Enter \/ AdjustRsp \/ JumpIfZero \/ Jump \/ CallReturns \/ Ret

RunSpec == RunInit /\ [][RunNext]_<<vars, runVars>>

-----------------------------------------------------------------------------
(* No path leaves the function's text (no jump was left unpatched, and the *)
(* last instruction does not fall through), on every path the stack        *)
(* pointer is where the compiler believed it to be when it emitted the     *)
(* instruction, and ret finds the return address: RSP is back at its value *)
(* on entry.                                                               *)
RspAsCompiled ==
  /\ phase = "run" => pc \in 1 .. Len(text) /\ depth = text[pc].depth
  /\ phase = "returned" => depth = 0
=============================================================================
