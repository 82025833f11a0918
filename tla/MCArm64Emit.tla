---------------------------- MODULE MCArm64Emit ----------------------------
(***************************************************************************)
(* Arm64Emit for TLC: the sizes of the code's base types, one signed       *)
(* integer type of each of two widths, and functions to call and to emit.  *)
(***************************************************************************)
EXTENDS Arm64Discipline, TLC

BaseSizes == "bool" :> 1 @@ "s8" :> 1 @@ "s64" :> 8 @@ "string" :> 16 @@ "void" :> 0

Main == [params |-> <<>>, returns |-> "void"]
Sub == [params |-> <<"s64", "string", "s8">>, returns |-> "s64"]

Functions == {Main, Sub}
=============================================================================
