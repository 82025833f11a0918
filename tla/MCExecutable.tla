---------------------------- MODULE MCExecutable ----------------------------
(***************************************************************************)
(* Executable for TLC: file systems of a few files that ask for each       *)
(* other, with functions that call each other in all orders.               *)
(***************************************************************************)
EXTENDS Executable

Function(name, returns, body) ==
  [kind |-> "function", name |-> name, returns |-> returns, body |-> body]
Code(size) == [kind |-> "code", size |-> size]
Call(name) == [kind |-> "call", name |-> name]
String(count) == [kind |-> "string", count |-> count]

Load(path) == [kind |-> "load", path |-> path]
Import(name) == [kind |-> "import", path |-> <<name>>]
Malformed == [kind |-> "malformed"]

MainFile == <<"main">>
PrintFile == <<"libraries", "print">>
PartFile == <<"lib", "part">>

Bodies ==
  {<<>>, <<Call("f"), Code(3)>>, <<Code(1), Call("g"), Call("main")>>,
   <<Code(4090), String(5), Call("g"), String(4099)>>, <<String(3), Call("exit")>>}

Exit == Function("exit", FALSE, <<>>)

(* One file: main and f around each other.                                 *)
Programs ==
  {<<Function(x, FALSE, b), Exit, Function("g", TRUE, <<String(2)>>), Function(y, r, c)>> :
     x \in {"main", "f"}, y \in {"main", "f"}, b \in Bodies, c \in Bodies, r \in BOOLEAN}
OneFile == {MainFile :> program : program \in Programs}

(* Several files that ask for each other, for themselves and for others.   *)
Directives == {<<>>, <<Load(<<"part">>)>>, <<Import("print"), Load(<<"lib", "part">>)>>,
               <<Load(<<"main">>)>>, <<Import("print"), Malformed, Load(<<"nowhere">>)>>}
ManyFiles ==
  {MainFile :> (d \o <<Function("main", FALSE, <<Call("f")>>)>>) @@
   PrintFile :> (e \o <<Function("f", TRUE, <<>>)>>) @@
   PartFile :> (<<Function("g", TRUE, <<>>)>> \o f) : d, e, f \in Directives}

SomeDisks == OneFile \cup ManyFiles
AllTargets == [platform : {"linux", "macos", "windows"}, architecture : {"arm64", "x86_64"}]
=============================================================================
