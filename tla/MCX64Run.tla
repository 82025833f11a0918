----------------------------- MODULE MCX64Run -----------------------------
(***************************************************************************)
(* X64Run for TLC, with the constants of MCX64Emit.                        *)
(***************************************************************************)
EXTENDS X64Run, X64Discipline, TLC

BaseSizes == "bool" :> 1 @@ "s8" :> 1 @@ "s64" :> 8 @@ "string" :> 16 @@ "void" :> 0

Main == [params |-> <<>>, returns |-> "void"]
Sub == [params |-> <<"s64", "s8">>, returns |-> "s64"]

TwoWidths == {Main, Sub}

(* Large frames: a function without parameters that declares strings only. *)
Strings == "bool" :> 1 @@ "string" :> 16 @@ "void" :> 0
OnlyMain == {Main}
DeclarationsOnly ==
  \A i \in 1 .. Len(frames) : frames[i].kind \in {"?", "function", "declaration"}
=============================================================================
