---------------------------- MODULE CodegenStack ----------------------------
(***************************************************************************)
(* The compile-time model of the run-time stack that both backends keep    *)
(* in struct Codegen (main.c:497-509) and its five primitives              *)
(* (main.c:511-552).  Offsets count bytes below the stack pointer the      *)
(* function is entered with, so that a value "at offset o" occupies the    *)
(* bytes  RSP_entry - o .. RSP_entry - o + size - 1.                       *)
(*                                                                         *)
(* Each primitive is an operator from a stack to a stack; its C assertion  *)
(* is the Can... predicate beside it, which a handler tests first.         *)
(***************************************************************************)
EXTENDS Integers, Sequences

CONSTANT MaxScopes   \* ArrayCount(stack_scopes): 64 in the code

ASSUME MaxScopesAssumption == MaxScopes \in Nat /\ MaxScopes > 1

(* stack_scopes[0 .. stack_scope_index] is the sequence scopes, so that    *)
(* stack_scope_index = Len(scopes) - 1.                                    *)
Stacks == [allocated : Int, committed : Int, scopes : Seq(Int)]

(* The state x64_emit_function starts every function with.                 *)
FreshStack == [allocated |-> 0, committed |-> 0, scopes |-> <<0>>]

Innermost(s) == s.scopes[Len(s.scopes)]

CanPushScope(s) == Len(s.scopes) < MaxScopes

PushScope(s) == [s EXCEPT !.scopes = Append(@, Innermost(s))]

(* Mutant: the index is decremented twice.                                 *)
PopScopeTwice(s) == [s EXCEPT !.allocated = s.scopes[Len(s.scopes) - 1],
                              !.scopes = SubSeq(@, 1, Len(@) - 2)]

(* Everything pushed in the scope has been popped again.                   *)
CanPopScope(s) == Len(s.scopes) > 1 /\ s.allocated = Innermost(s)

PopScope(s) == [s EXCEPT !.allocated = s.scopes[Len(s.scopes) - 1],
                         !.scopes = SubSeq(@, 1, Len(@) - 1)]

CanAllocateStack(s) == Len(s.scopes) > 1 /\ s.allocated = Innermost(s)

AllocateStack(s, size) == [s EXCEPT !.scopes[Len(s.scopes)] = @ + size,
                                    !.allocated = @ + size]

PushStack(s, size) == [s EXCEPT !.allocated = @ + size]

PopStack(s, size) == [s EXCEPT !.allocated = @ - size]

(* x64_commit_stack, the part that is not emitted code: afterwards the     *)
(* stack pointer covers exactly what is allocated.                         *)
CommitStack(s) == [s EXCEPT !.committed = s.allocated]
=============================================================================
