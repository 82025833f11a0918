---------------------------- MODULE MCAllocator ----------------------------
(***************************************************************************)
(* Allocator for TLC: blocks of eight words instead of 8192, footers of    *)
(* one word, and requests that are empty, that need padding, and that only *)
(* a block larger than usual has room for.                                 *)
(***************************************************************************)
EXTENDS Allocator, TLC

Permuted == Permutations(Arrays)

SomeRequests ==
  {[size |-> 0, alignment |-> 2], [size |-> 3, alignment |-> 2], [size |-> 8, alignment |-> 1]}

Memory == 8 .. 31
=============================================================================
