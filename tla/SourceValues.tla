---------------------------- MODULE SourceValues ----------------------------
(***************************************************************************)
(* What a program means: the values that its expressions, declarations,    *)
(* assignments, ifs and calls compute.  This is the abstract specification *)
(* of the code that both backends emit (module CompiledValues); it knows   *)
(* neither registers nor memory.                                           *)
(*                                                                         *)
(* A step evaluates one node of the syntax tree, left before right and     *)
(* operands before operators.  The tree is not given in advance: a step    *)
(* chooses among the nodes that the type checker accepts there.  Loops     *)
(* repeat what is here and are left to module X64Run.                      *)
(***************************************************************************)
EXTENDS SourceRules

CONSTANTS
  Radix,       \* the number of values of a byte: 256
  Literals     \* the literals of the program: [type, value]

VARIABLES
  calls,    \* the active calls, the innermost last
  request,  \* what the system was called with last
  node      \* what the last step evaluated

sourceVars == <<calls, request, node>>

-----------------------------------------------------------------------------
(* Values.  A string is a pair of numbers, its count and its data.         *)

(* The value that a type has for a number: as much of it as fits.          *)
Wrap(t, n) ==
  LET modulus == Radix ^ Size[t]
      m == n % modulus
  IN  IF t \in IntegerTypes \ Unsigned /\ 2 * m >= modulus THEN m - modulus ELSE m

Holds(op, l, r) ==
  CASE op = "==" -> l = r [] op = "!=" -> l # r
    [] op = "<" -> l < r [] op = ">" -> l > r
    [] op = "<=" -> l <= r [] op = ">=" -> l >= r

Sum(op, l, r) == IF op = "+" THEN l + r ELSE l - r

Combine(op, t, l, r) ==
  IF op \in Sums THEN Wrap(t, Sum(op, l, r)) ELSE IF Holds(op, l, r) THEN 1 ELSE 0

-----------------------------------------------------------------------------
Top == Last(calls)
Becomes(c) == calls' = Append(Without(calls, 1), c) /\ UNCHANGED request

(* In c, n operands are replaced by one of type t.                         *)
Replaced(c, n, t, v) ==
  [c EXCEPT !.operands = Append(Without(@, n), [type |-> t, value |-> v])]

Literal ==
  /\ node' = Node("literal", Main, 0)
  /\ \E l \in Literals : Becomes(Replaced(Top, 0, l.type, l.value))

Identifier ==
  \E i \in 1 .. Len(Top.variables) :
    /\ node' = Node("identifier", Main, i)
    /\ Becomes(Replaced(Top, 0, Top.variables[i].type, Top.variables[i].value))

Binary ==
  \E op \in Comparisons \cup Sums :
    /\ node' = Node("binary", op, 0)
    /\ CanCombine(Top, op)
    /\ LET l == Top.operands[Len(Top.operands) - 1]
           r == Last(Top.operands)
       IN  Becomes(Replaced(Top, 2, TypeOf(op, r.type), Combine(op, r.type, l.value, r.value)))

(* The value of an assignment is the assigned one.                         *)
Assign ==
  \E i \in 1 .. Len(Top.variables) :
    /\ node' = Node("=", Main, i)
    /\ CanAssign(Top, i)
    /\ Becomes([Top EXCEPT !.variables[i].value = Last(Top.operands).value])

AssignSum ==
  \E i \in 1 .. Len(Top.variables), op \in Sums :
    /\ node' = Node("assign", op, i)
    /\ CanAssign(Top, i) /\ Last(Top.operands).type \in IntegerTypes
    /\ LET r == Last(Top.operands)
           v == Combine(op, r.type, Top.variables[i].value, r.value)
       IN  Becomes([Replaced(Top, 1, r.type, v) EXCEPT !.variables[i].value = v])

Cast ==
  \E t \in IntegerTypes :
    /\ node' = Node("cast", t, 0)
    /\ CanCast(Top, t) /\ Becomes(Replaced(Top, 1, t, Wrap(t, Last(Top.operands).value)))

Open(construct, t, of) ==
  Becomes([Top EXCEPT !.open = Append(@, Construct(construct, t, of, Top))])

OpenMember ==
  \E name \in DOMAIN Members :
    node' = Node("member", name, 0) /\ Open("member", Members[name], name)

Read ==
  /\ node' = Completed
  /\ CanRead(Top)
  /\ Becomes(Replaced(Closed(Top), 1, Last(Top.open).type,
                      Last(Top.operands).value[Last(Top.open).of]))

OpenDeclaration ==
  /\ node' = Node("declaration", Main, 0)
  /\ AtStatement(Top) /\ \E t \in DOMAIN Size \ {Void} : Open("declaration", t, Main)

Declare ==
  /\ node' = Completed
  /\ CanDeclare(Top)
  /\ Becomes([Closed(Top) EXCEPT !.variables = Append(@, Last(Top.operands)),
                                 !.operands = <<>>])

(* A declaration without an initializer: the value is not specified.       *)
DeclareOnly ==
  /\ node' = Node("uninitialized", Main, 0)
  /\ AtStatement(Top)
  /\ LET unspecified == Last(Last(calls').variables)
     IN  /\ unspecified.type \in DOMAIN Size \ {Void}
         /\ Becomes([Top EXCEPT !.variables = Append(@, unspecified)])

Discard ==
  /\ node' = Completed
  /\ AtExpression(Top) /\ Becomes([Top EXCEPT !.operands = <<>>])

OpenBlock ==
  /\ node' = Node("block", Main, 0)
  /\ AtStatement(Top) /\ Open("block", Void, Main)

(* If the condition is true its block is entered, otherwise the block of   *)
(* the else, if there is one.                                              *)
If ==
  /\ node' = Node("if", Main, 0)
  /\ AtExpression(Top) /\ Last(Top.operands).type = Bool
  /\ LET c == [Top EXCEPT !.operands = <<>>]
         part == IF Last(Top.operands).value = 0 THEN "else" ELSE "then"
     IN  \/ Becomes([c EXCEPT !.open = Append(@, Construct(part, Void, Main, c))])
         \/ part = "else" /\ Becomes(c)

(* The names of a block end with it.                                       *)
EndBlock ==
  /\ node' = Completed
  /\ AtStatement(Top) /\ Top.open # <<>>
  /\ Becomes([Closed(Top) EXCEPT !.variables = SubSeq(@, 1, Last(Top.open).names)])

OpenCall ==
  \E f \in Callees :
    node' = Node("call", f, 0) /\ Open("call", Functions[f].returns, f)

Enter ==
  /\ node' = Completed
  /\ CanEnter(Top) /\ Last(Top.open).of \notin Systems
  /\ calls' = Append(calls, [function |-> Last(Top.open).of, variables |-> Arguments(Top),
                             operands |-> <<>>, open |-> <<>>])
  /\ UNCHANGED request

(* The call that is open in c has returned v.                              *)
Returned(c, v) ==
  Replaced(Closed(c), Len(Arguments(c)), Last(c.open).type, v)

(* The system gets its arguments.  exit does not return; what write        *)
(* returns is not specified.                                               *)
System ==
  /\ node' = Completed
  /\ CanEnter(Top) /\ Last(Top.open).of \in Systems
  /\ request' = [i \in 1 .. Ready(Top) |-> Arguments(Top)[i].value]
  /\ IF Last(Top.open).of = "exit" THEN calls' = <<>>
     ELSE LET unspecified == Last(Last(calls').operands).value
          IN  calls' = Append(Without(calls, 1), Returned(Top, unspecified))

Return ==
  /\ node' = Completed
  /\ Len(calls) > 1
  /\ CanReturn(Top) \/ CanEnd(Top)
  /\ LET value == IF CanEnd(Top) THEN 0 ELSE Last(Top.operands).value
     IN  calls' = Append(Without(calls, 2), Returned(calls[Len(calls) - 1], value))
  /\ UNCHANGED request

(* Main has declared some variables.                                       *)
SourceInit ==
  /\ Len(calls) = 1
  /\ calls[1] = [function |-> Main, variables |-> Top.variables,
                 operands |-> <<>>, open |-> <<>>]
  /\ request = <<>> /\ node = Completed

SourceNext ==
  /\ calls # <<>>
  /\ \/ Literal \/ Identifier \/ Binary \/ Assign \/ AssignSum \/ Cast
     \/ OpenMember \/ Read \/ OpenDeclaration \/ Declare \/ DeclareOnly \/ Discard
     \/ OpenBlock \/ If \/ EndBlock \/ OpenCall \/ Enter \/ System \/ Return
=============================================================================
