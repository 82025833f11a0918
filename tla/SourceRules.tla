----------------------------- MODULE SourceRules -----------------------------
(***************************************************************************)
(* The rules for the order and the types of what is evaluated in a call,   *)
(* shared by the meaning of a program (SourceValues) and the code that is  *)
(* compiled for it (CompiledValues).                                       *)
(***************************************************************************)
EXTENDS Integers, Sequences

CONSTANTS
  Size,        \* Datatype.size of every type
  IntegerTypes, Unsigned,   \* the integer types, and those without a sign
  Bool, String, Void,
  Members,     \* the type of each member of a string, by its name
  Functions,   \* the functions by their names: [params, returns]
  Main         \* the one that is executed

ASSUME RulesAssumption ==
  /\ IntegerTypes \cup {Bool, String, Void} \subseteq DOMAIN Size
  /\ Unsigned \subseteq IntegerTypes
  /\ DOMAIN Members = {"count", "data"}
  /\ Main \in DOMAIN Functions

-----------------------------------------------------------------------------
Comparisons == {"==", "!=", "<", ">", "<=", ">="}
Sums == {"+", "-"}

(* The functions that the system provides.                                 *)
Systems == {"exit", "write"}

TypeOf(op, t) == IF op \in Comparisons THEN Bool ELSE t

(* What a step evaluates: a kind of node with its operator, type, member   *)
(* or function, and its variable.                                          *)
Node(kind, name, i) == [kind |-> kind, name |-> name, variable |-> i]

(* The operands of the innermost construct are complete.                   *)
Completed == Node("end", Main, 0)

(* A call is a function with its variables (the parameters first), the     *)
(* operands that are evaluated but not used yet, and the constructs that   *)
(* are open: [construct, type, of, base, names], where base and names      *)
(* count the operands and variables that were there before, and of names   *)
(* the function that is called or the member that is read.                 *)

Last(s) == s[Len(s)]
Without(s, n) == SubSeq(s, 1, Len(s) - n)

(* A construct that begins in c, for a value of type t.                    *)
Construct(construct, t, of, c) ==
  [construct |-> construct, type |-> t, of |-> of,
   base |-> Len(c.operands), names |-> Len(c.variables)]

IsOpen(c, construct) == c.open # <<>> /\ Last(c.open).construct = construct
Blocks == {"block", "then", "else"}
InBlock(c) == c.open # <<>> => Last(c.open).construct \in Blocks
Closed(c) == [c EXCEPT !.open = Without(@, 1)]

(* The operands of the innermost construct.                                *)
Ready(c) == Len(c.operands) - (IF c.open = <<>> THEN 0 ELSE Last(c.open).base)

(* A statement may begin; an expression that is a statement is complete.   *)
AtStatement(c) == c.operands = <<>> /\ InBlock(c)
AtExpression(c) == Len(c.operands) = 1 /\ InBlock(c)

(* The rules of the type checker, for operands of one type; the orders of  *)
(* booleans are left out.                                                  *)
CanCombine(c, op) ==
  /\ Ready(c) >= 2
  /\ LET t == Last(c.operands).type
     IN  /\ c.operands[Len(c.operands) - 1].type = t
         /\ t \in IntegerTypes \/ (t = Bool /\ op \in {"==", "!="})

CanAssign(c, i) ==
  /\ Ready(c) >= 1
  /\ i > Len(Functions[c.function].params)
  /\ c.variables[i].type = Last(c.operands).type

(* Casts to a type that is no larger.                                      *)
CanCast(c, t) ==
  /\ Ready(c) >= 1
  /\ t \in IntegerTypes /\ Last(c.operands).type \in IntegerTypes
  /\ t # Last(c.operands).type /\ Size[t] <= Size[Last(c.operands).type]

CanRead(c) == IsOpen(c, "member") /\ Ready(c) = 1 /\ Last(c.operands).type = String

CanDeclare(c) ==
  IsOpen(c, "declaration") /\ Ready(c) = 1 /\ Last(c.operands).type = Last(c.open).type

Arguments(c) == SubSeq(c.operands, Last(c.open).base + 1, Len(c.operands))

(* The arguments are complete.                                             *)
CanEnter(c) ==
  /\ IsOpen(c, "call")
  /\ LET params == Functions[Last(c.open).of].params
     IN  /\ Ready(c) = Len(params)
         /\ \A i \in 1 .. Ready(c) : Arguments(c)[i].type = params[i]

CanReturn(c) ==
  /\ AtExpression(c) /\ Functions[c.function].returns # Void
  /\ Last(c.operands).type = Functions[c.function].returns

(* Functions with returns = Void are those without a written return type:  *)
(* one that is declared "-> void" gets no ret and is left out here.        *)
CanEnd(c) == AtStatement(c) /\ c.open = <<>> /\ Functions[c.function].returns = Void

(* The parser knows no call without arguments.                             *)
Callees == {f \in DOMAIN Functions : Functions[f].params # <<>>}
=============================================================================
