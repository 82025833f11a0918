----------------------------- MODULE MCX64Emit -----------------------------
(***************************************************************************)
(* X64Emit for TLC: the sizes of the code's base types, one signed         *)
(* integer type of each of two widths, and functions to call and to emit.  *)
(***************************************************************************)
EXTENDS X64Discipline, TLC

BaseSizes == "bool" :> 1 @@ "s8" :> 1 @@ "s64" :> 8 @@ "string" :> 16 @@ "void" :> 0

Main == [params |-> <<>>, returns |-> "void"]
Sub == [params |-> <<"s64", "s8">>, returns |-> "s64"]

TwoWidths == {Main, Sub}
=============================================================================
