---------------------------- MODULE TypeChecker -----------------------------
(***************************************************************************)
(* The type checker: type_checking, type_check_statement,                  *)
(* type_check_expression and resolve_type (type_checking.c:62-688) with    *)
(* the lookups of names in the syntax tree (ast.c:513-621).                *)
(*                                                                         *)
(* The routines are mutually recursive; their C call stack is the sequence *)
(* frames.  The syntax tree is a constant of the code but not of the       *)
(* model: a node has the kind "?" until the checker looks at it, and       *)
(* ChooseSyntax makes it any construct the parser can build there.  The    *)
(* behaviours are therefore the checks of all programs with the functions, *)
(* out of the constructs and of at most the nodes that one of Programs     *)
(* allows.                                                                 *)
(***************************************************************************)
EXTENDS Datatypes

CONSTANTS
  Programs,    \* what is checked: [functions, constructs, types, nodes]
  Variables,   \* names that statements declare and use
  Literals,    \* values of integer literals
  MaxArguments,
  MaxDepth     \* how many activations the C stack holds

VARIABLES
  program,     \* the one of Programs that is checked
  ast,         \* the nodes; a node's parent comes before it
  frames,      \* the activations of the checker, outermost first
  table,       \* compiler->datatypes
  reported,    \* an error message was printed
  outcome,     \* "running", "done", or what stopped the compiler
  absent       \* <<f, x>>: the body of f, not looked at yet, declares no x

vars == <<program, ast, frames, table, reported, outcome, absent>>

Binary == {"compare", "arithmetic"}
Leaves == {"integer", "boolean", "string", "float", "identifier", "unsupported"}
TypeKinds == {"named", "pointer", "type_of"}
StatementKinds == {"declaration", "if", "for", "return", "block"}
ExpressionKinds == Leaves \cup Binary \cup
  {"minus", "size_of", "cast", "member", "assign", "call", "call_other"}

ASSUME ConstantsAssumption ==
  /\ Programs \subseteq
       [functions : Seq([name : STRING, params : Seq(STRING), returns : BOOLEAN]),
        constructs : SUBSET (StatementKinds \cup ExpressionKinds \cup TypeKinds),
        types : SUBSET STRING, nodes : Nat]
  /\ Literals \subseteq {v \in Literal : v.bits < 64 /\ ~ v.negative}
  /\ MaxArguments \in Nat /\ MaxDepth \in Nat

Node(kind, parent, role, name) ==
  [kind |-> kind, parent |-> parent, role |-> role, name |-> name, type |-> 0,
   decl |-> 0, value |-> Magnitude(0, FALSE)]

Unknown(parent, role) == Node("?", parent, role, "")

Children(n, role) == {i \in DOMAIN ast : ast[i].parent = n /\ ast[i].role = role}
Child(n, role) == CHOOSE i \in Children(n, role) : TRUE
Has(n, role) == Children(n, role) # {}
Least(S) == CHOOSE i \in S : \A j \in S : i <= j
Nth(n, role, k) ==
  CHOOSE i \in Children(n, role) :
    Cardinality({j \in Children(n, role) : j <= i}) = k

(* Here is the node the running activation works on.                       *)
Top == frames[Len(frames)]
Here == ast[Top.node]
Left == ast[Child(Top.node, "left")]
Right == ast[Child(Top.node, "right")]
TypeDef == ast[Child(Top.node, "type_def")]

Running == outcome = "running"
At(routine, step) == Running /\ Top.routine = routine /\ Top.step = step
AtNode(routine, kinds, step) == At(routine, step) /\ Here.kind \in kinds

-----------------------------------------------------------------------------
(* The syntax.                                                             *)

Shape(kind, name, roles) == [kind |-> kind, name |-> name, roles |-> roles,
                             type |-> 0, value |-> Magnitude(0, FALSE)]

(* Literals come with their type out of the parser.                        *)
LiteralShapes ==
  {[Shape("integer", "", <<>>) EXCEPT !.value = v, !.type = S64] : v \in Literals} \cup
  {[Shape(k[1], "", <<>>) EXCEPT !.type = k[2]] :
     k \in {<<"boolean", Bool>>, <<"string", String>>, <<"float", F32>>}}

FunctionNames == {ast[f].name : f \in Children(0, "function")} \cup {"undeclared"}

CallShapes ==
  {Shape("call", f, [i \in 1 .. n |-> "argument"]) :
     f \in FunctionNames, n \in 1 .. MaxArguments}

ExpressionShapes ==
  LiteralShapes \cup
  {Shape("identifier", x, <<>>) : x \in Variables} \cup
  {Shape("assign", x, <<"right">>) : x \in Variables} \cup
  CallShapes \cup
  {Shape("member", m, <<"left">>) : m \in {"count", "data", "other"}} \cup
  {Shape(k, "", <<"left", "right">>) : k \in Binary} \cup
  {Shape("minus", "", <<"left">>), Shape("size_of", "", <<"type_def">>),
   Shape("cast", "", <<"type_def", "left">>),
   Shape("unsupported", "", <<>>), Shape("call_other", "", <<>>)}

DeclarationShapes ==
  {Shape("declaration", x, roles) :
     x \in Variables, roles \in {<<"type_def">>, <<"right">>, <<"type_def", "right">>}}

StatementShapes ==
  DeclarationShapes \cup ExpressionShapes \cup
  {Shape("if", "", <<"left", "body">>), Shape("return", "", <<"left">>),
   Shape("for", "", <<"decl", "left", "right", "body">>), Shape("block", "", <<>>)}

TypeShapes ==
  {Shape("named", t, <<>>) : t \in program.types} \cup
  {Shape("pointer", "", <<"left">>), Shape("type_of", "", <<"left">>)}

Shapes(n) ==
  CASE ast[n].role = "type_def" -> TypeShapes
    [] ast[n].role = "left" /\ ast[ast[n].parent].kind = "pointer" -> TypeShapes
    [] ast[n].role = "decl" -> DeclarationShapes
    [] ast[n].role \in {"statement", "body"} -> StatementShapes
    [] OTHER -> ExpressionShapes

Growing(n, s) ==
  [i \in 1 .. Len(ast) + Len(s.roles) |->
     IF i = n THEN [ast[n] EXCEPT !.kind = s.kind, !.name = s.name, !.type = s.type,
                                  !.value = s.value]
     ELSE IF i <= Len(ast) THEN ast[i]
     ELSE Unknown(n, s.roles[i - Len(ast)])]

(* A loop's declaration still needs a node for its type or its initializer. *)
Affordable(nodes) ==
  Len(nodes) + Cardinality({n \in DOMAIN nodes : nodes[n].role = "decl" /\ nodes[n].kind = "?"})
    <= program.nodes

(* The handlers read the kind of their node, those of binary operators     *)
(* also that of the left operand.                                          *)
Wanted ==
  LET n == Top.node
  IN  IF Top.step # "enter" \/ n = 0 THEN 0
      ELSE IF Here.kind = "?" THEN n
      ELSE IF Here.kind \in Binary /\ Left.kind = "?" THEN Child(n, "left")
      ELSE 0

(* The function in whose signature, that is not in whose body, n is.       *)
SignatureAround(n) ==
  LET up[i \in 0 .. Len(ast)] ==
        IF i = 0 \/ ast[i].role = "statement" THEN 0
        ELSE IF ast[ast[i].parent].kind = "function" THEN ast[i].parent
        ELSE up[ast[i].parent]
  IN  up[n]

ChooseSyntax ==
  /\ Running /\ Wanted # 0
  /\ \E s \in {t \in Shapes(Wanted) : t.kind \in program.constructs} :
       /\ Affordable(Growing(Wanted, s))
       /\ s.kind = "declaration" =>
            ~ (ast[Wanted].role = "statement" /\ <<ast[Wanted].parent, s.name>> \in absent)
       /\ ast' = Growing(Wanted, s)
       /\ \/ UNCHANGED absent
          \/ /\ s.kind \in {"identifier", "assign"} /\ SignatureAround(Wanted) # 0
             /\ absent' = absent \cup {<<SignatureAround(Wanted), s.name>>}
  /\ UNCHANGED <<frames, table, reported, outcome>>

-----------------------------------------------------------------------------
(* Lookups.                                                                *)

(* What find_declaration_by_name finds in the scope that it enters from    *)
(* its child before.                                                       *)
DeclaredIn(scope, before, name) ==
  LET named(role) == {i \in Children(scope, role) :
                        ast[i].kind = "declaration" /\ ast[i].name = name}
      earlier == {i \in named("statement") : i < before}
  IN  CASE ast[scope].kind = "function" ->
             IF earlier # {} THEN earlier ELSE named("parameter")
        [] ast[scope].kind = "block" -> earlier
        [] ast[scope].kind = "for" -> named("decl")
        [] OTHER -> {}

(* Mutant: the walk goes on to the outermost declaration.                  *)
FindOutermostDeclaration(n, name) ==
  LET find[before \in DOMAIN ast] ==
        LET scope == ast[before].parent
            found == DeclaredIn(scope, before, name)
        IN  IF scope = 0 THEN 0
            ELSE IF find[scope] # 0 THEN find[scope]
            ELSE IF found # {} THEN Least(found) ELSE 0
  IN  find[n]

FindDeclaration(n, name) ==
  LET find[before \in DOMAIN ast] ==
        LET scope == ast[before].parent
            found == DeclaredIn(scope, before, name)
        IN  IF scope = 0 THEN 0
            ELSE IF found # {} THEN Least(found) ELSE find[scope]
  IN  find[n]

FindFunction(name) ==
  LET found == {f \in Children(0, "function") : ast[f].name = name}
  IN  IF found = {} THEN 0 ELSE Least(found)

(* From a signature the lookup sees all declarations of the body, which    *)
(* the checker has not come to: they have no type yet.                     *)
InBody(n, name) == SignatureAround(n) # 0 /\ <<SignatureAround(n), name>> \notin absent

LookUp(n, name) ==
  LET d == FindDeclaration(n, name)
  IN  CASE InBody(n, name) -> [found |-> TRUE, decl |-> 0, type |-> 0]
        [] ~ InBody(n, name) /\ d # 0 -> [found |-> TRUE, decl |-> d, type |-> ast[d].type]
        [] OTHER -> [found |-> FALSE, decl |-> 0, type |-> 0]

Declared(answer) ==
  [ast EXCEPT ![Top.node].decl = answer.decl, ![Top.node].type = answer.type]

-----------------------------------------------------------------------------
(* Activations.                                                            *)

Frame(routine, node, preferred) ==
  [routine |-> routine, node |-> node, preferred |-> preferred, step |-> "enter",
   position |-> 0]

Stepping(step) == [frames EXCEPT ![Len(frames)].step = step]
Popped == SubSeq(frames, 1, Len(frames) - 1)

Stop(why) ==
  outcome' = why /\ UNCHANGED <<ast, frames, table, reported, absent>>

(* A call of one of the routines, after which this one goes on at step.    *)
CallFrom(waiting, routine, node, preferred) ==
  IF Len(frames) < MaxDepth
  THEN frames' = Append(waiting, Frame(routine, node, preferred)) /\ UNCHANGED outcome
  ELSE outcome' = "overflow" /\ UNCHANGED frames

Call(step, role, routine, preferred) ==
  /\ CallFrom(Stepping(step), routine, Child(Top.node, role), preferred)
  /\ UNCHANGED <<table, absent>>

Check(step, role, preferred) == Call(step, role, "expression", preferred)
Resolve(step) == Call(step, "type_def", "type", 0)

(* The first call of a handler that changes nothing before it.             *)
Begin(routine, kind) == AtNode(routine, {kind}, "enter") /\ UNCHANGED <<ast, reported>>

Typed(type) == [ast EXCEPT ![Top.node].type = type]

(* The end of a routine, with the node as it leaves it.  Expressions and   *)
(* type definitions assert that they have a type.                          *)
Finish(nodes, error) ==
  /\ reported' = (reported \/ error)
  /\ IF Top.routine \in {"expression", "type"} /\ nodes[Top.node].type = 0
     THEN outcome' = "untyped" /\ UNCHANGED <<ast, frames>>
     ELSE ast' = nodes /\ frames' = Popped /\ UNCHANGED outcome
  /\ UNCHANGED absent

FinishWith(nodes) == Finish(nodes, FALSE) /\ UNCHANGED table

-----------------------------------------------------------------------------
(* resolve_type.                                                           *)

AlreadyResolved == At("type", "enter") /\ Here.type # 0 /\ FinishWith(ast)

Unresolved(kind) == Begin("type", kind) /\ Here.type = 0

NamedType ==
  /\ AtNode("type", {"named"}, "enter") /\ Here.type = 0
  /\ IF FindByName(table, Here.name) = 0 THEN Stop("not_implemented")
     ELSE FinishWith(Typed(FindByName(table, Here.name)))

BeginPointer == Unresolved("pointer") /\ Call("referenced", "left", "type", 0)

EndPointer ==
  /\ AtNode("type", {"pointer"}, "referenced")
  /\ table' = WithPointerTo(table, Left.type)
  /\ Finish(Typed(PointerTo(table, Left.type)), FALSE)

BeginTypeOf == Unresolved("type_of") /\ Check("expression", "left", 0)

EndTypeOf == AtNode("type", {"type_of"}, "expression") /\ FinishWith(Typed(Left.type))

ResolveType ==
  AlreadyResolved \/ NamedType \/ BeginPointer \/ EndPointer \/ BeginTypeOf \/ EndTypeOf

-----------------------------------------------------------------------------
(* type_check_expression.                                                  *)

OtherLiteral ==
  AtNode("expression", {"boolean", "string", "float"}, "enter") /\ FinishWith(ast)

IntegerLiteral ==
  /\ AtNode("expression", {"integer"}, "enter")
  /\ IF Top.preferred = 0 THEN FinishWith(ast)
     ELSE IF ~ IsInteger(table, Top.preferred) THEN Stop("not_an_integer")
     ELSE FinishWith(Typed(LiteralType(table, Here.value, Here.type, Top.preferred)))

Unsupported ==
  AtNode("expression", {"unsupported"}, "enter") /\ Stop("not_implemented")

(* The callee is not a name.                                               *)
CallOther ==
  AtNode("expression", {"call_other"}, "enter") /\ Finish(ast, TRUE) /\ UNCHANGED table

Identifier ==
  /\ AtNode("expression", {"identifier"}, "enter")
  /\ LET answer == LookUp(Top.node, Here.name)
     IN  Finish(Declared(answer), ~ answer.found) /\ UNCHANGED table

BeginSizeOf == Begin("expression", "size_of") /\ Resolve("type")

(* The query becomes a literal; what is preferred makes no difference.     *)
EndSizeOf ==
  /\ AtNode("expression", {"size_of"}, "type")
  /\ FinishWith([ast EXCEPT ![Top.node].kind = "integer", ![Top.node].type = U64,
                            ![Top.node].value = SizeAsLiteral(table[TypeDef.type].size)])

(* A literal on the left is checked after the right side.                  *)
BeginBinary ==
  /\ AtNode("expression", Binary, "enter") /\ Left.kind # "?"
  /\ IF Left.kind = "integer" THEN Check("right", "right", 0) ELSE Check("left", "left", 0)
  /\ UNCHANGED <<ast, reported>>

SecondOperand ==
  /\ \/ AtNode("expression", Binary, "right") /\ Check("both", "left", Right.type)
     \/ AtNode("expression", Binary, "left") /\ Check("both", "right", Left.type)
  /\ UNCHANGED <<ast, reported>>

EndBinary ==
  /\ AtNode("expression", Binary, "both")
  /\ LET answer == CanImplicitlyCastEitherWay(table, Left.type, Right.type)
         larger == IF table[Left.type].size > table[Right.type].size THEN Left.type
                   ELSE Right.type
     IN  CASE answer = "yes" ->
                FinishWith(Typed(IF Here.kind = "compare" THEN Bool ELSE larger))
           [] answer = "no" ->
                /\ Finish(IF Here.kind = "compare" THEN Typed(Bool) ELSE ast, TRUE)
                /\ UNCHANGED table
           [] OTHER -> Stop(answer)

(* A signed type that is preferred, s64 otherwise.                         *)
MinusType ==
  IF IsInteger(table, Top.preferred) /\ ~ table[Top.preferred].unsigned
  THEN Top.preferred ELSE S64

BeginMinus == Begin("expression", "minus") /\ Check("operand", "left", MinusType)

EndMinus ==
  /\ AtNode("expression", {"minus"}, "operand")
  /\ FinishWith(IF Left.kind = "integer"
                THEN [Typed(MinusType) EXCEPT ![Top.node].kind = "integer",
                                              ![Top.node].value = Negated(Left.value)]
                ELSE Typed(MinusType))

(* Mutant: the type of a function that was not checked yet is not asked for. *)
CallWithoutSignature ==
  /\ AtNode("expression", {"call"}, "enter")
  /\ LET callee == FindFunction(Here.name)
     IN  IF callee = 0 THEN Finish(ast, TRUE) /\ UNCHANGED table
         ELSE /\ ast' = [ast EXCEPT ![Top.node].decl = callee]
              /\ frames' = Stepping("signature")
              /\ UNCHANGED <<table, reported, outcome, absent>>

(* Mutant: every call checks the signature of its callee.                  *)
CallAlwaysWithSignature ==
  /\ AtNode("expression", {"call"}, "enter")
  /\ LET callee == FindFunction(Here.name)
     IN  IF callee = 0 THEN Finish(ast, TRUE) /\ UNCHANGED table
         ELSE /\ ast' = [ast EXCEPT ![Top.node].decl = callee]
              /\ CallFrom(Stepping("signature"), "signature", callee, 0)
              /\ UNCHANGED <<table, reported, absent>>

(* The callee's signature is checked now unless it has been.               *)
BeginCall ==
  /\ AtNode("expression", {"call"}, "enter")
  /\ LET callee == FindFunction(Here.name)
     IN  IF callee = 0 THEN Finish(ast, TRUE) /\ UNCHANGED table
         ELSE /\ ast' = [ast EXCEPT ![Top.node].decl = callee]
              /\ IF ast[callee].type = 0
                 THEN CallFrom(Stepping("signature"), "signature", callee, 0)
                 ELSE frames' = Stepping("signature") /\ UNCHANGED outcome
              /\ UNCHANGED <<table, reported, absent>>

Parameter(k) == ast[Nth(Here.decl, "parameter", k)]
Argument(k) == ast[Nth(Top.node, "argument", k)]

CheckArgument(k) ==
  CallFrom([Stepping("argument") EXCEPT ![Len(frames)].position = k],
           "expression", Nth(Top.node, "argument", k), Parameter(k).type)

Parameters == Cardinality(Children(Here.decl, "parameter"))
Arguments == Cardinality(Children(Top.node, "argument"))

CheckArguments ==
  /\ AtNode("expression", {"call"}, "signature")
  /\ IF Arguments = Parameters
     THEN CheckArgument(1) /\ UNCHANGED <<ast, table, reported, absent>>
     ELSE Finish(Typed(ast[Here.decl].type), TRUE) /\ UNCHANGED table

NextArgument ==
  /\ AtNode("expression", {"call"}, "argument")
  /\ LET k == Top.position
         answer == CanImplicitlyCastTo(table, Argument(k).type, Parameter(k).type)
     IN  IF answer \notin {"yes", "no"} THEN Stop(answer)
         ELSE IF k < Parameters
         THEN /\ CheckArgument(k + 1)
              /\ reported' = (reported \/ answer = "no")
              /\ UNCHANGED <<ast, table, absent>>
         ELSE Finish(Typed(ast[Here.decl].type), answer = "no") /\ UNCHANGED table

BeginAssign ==
  /\ AtNode("expression", {"assign"}, "enter")
  /\ LET answer == LookUp(Top.node, Here.name)
     IN  /\ ast' = Declared(answer)
         /\ reported' = (reported \/ ~ answer.found)
         /\ Check("right", "right", answer.type)

EndAssign ==
  /\ AtNode("expression", {"assign"}, "right")
  /\ LET answer == CanImplicitlyCastTo(table, Right.type, Here.type)
     IN  IF answer \in {"yes", "no"} THEN Finish(ast, answer = "no") /\ UNCHANGED table
         ELSE Stop(answer)

BeginMember == Begin("expression", "member") /\ Check("object", "left", 0)

EndMember ==
  /\ AtNode("expression", {"member"}, "object")
  /\ CASE Left.type = String /\ Here.name = "count" -> FinishWith(Typed(S64))
       [] Left.type = String /\ Here.name = "data" ->
            /\ table' = WithPointerTo(table, U8)
            /\ Finish(Typed(PointerTo(table, U8)), FALSE)
       [] OTHER -> Finish(ast, TRUE) /\ UNCHANGED table

BeginCast == Begin("expression", "cast") /\ Resolve("type")

CastOperand ==
  /\ AtNode("expression", {"cast"}, "type")
  /\ ast' = Typed(TypeDef.type)
  /\ Check("operand", "left", 0) /\ UNCHANGED reported

EndCast ==
  /\ AtNode("expression", {"cast"}, "operand")
  /\ LET answer == CanCastTo(table, Left.type, Here.type)
     IN  IF answer = "yes" THEN FinishWith(ast) ELSE Stop(answer)

CheckExpression ==
  \/ OtherLiteral \/ IntegerLiteral \/ Unsupported \/ CallOther \/ Identifier
  \/ BeginSizeOf \/ EndSizeOf \/ BeginBinary \/ SecondOperand \/ EndBinary
  \/ BeginMinus \/ EndMinus \/ BeginCall \/ CheckArguments \/ NextArgument
  \/ BeginAssign \/ EndAssign \/ BeginMember \/ EndMember
  \/ BeginCast \/ CastOperand \/ EndCast

-----------------------------------------------------------------------------
(* type_check_statement.                                                   *)

ExpressionStatement ==
  /\ AtNode("statement", ExpressionKinds, "enter")
  /\ frames' = [frames EXCEPT ![Len(frames)] = Frame("expression", Top.node, 0)]
  /\ UNCHANGED <<ast, table, reported, outcome, absent>>

BeginDeclaration ==
  /\ AtNode("statement", {"declaration"}, "enter")
  /\ IF Has(Top.node, "type_def") THEN Resolve("type") ELSE Check("inferred", "right", 0)
  /\ UNCHANGED <<ast, reported>>

(* The initializer's type is not compared with the declaration's.          *)
TypedDeclaration ==
  /\ AtNode("statement", {"declaration"}, "type")
  /\ IF Has(Top.node, "right")
     THEN ast' = Typed(TypeDef.type) /\ Check("initialized", "right", TypeDef.type)
          /\ UNCHANGED reported
     ELSE FinishWith(Typed(TypeDef.type))

EndDeclaration ==
  \/ AtNode("statement", {"declaration"}, "initialized") /\ FinishWith(ast)
  \/ AtNode("statement", {"declaration"}, "inferred") /\ FinishWith(Typed(Right.type))

BeginIf == Begin("statement", "if") /\ Check("condition", "left", 0)

BeginFor == Begin("statement", "for") /\ Call("decl", "decl", "statement", 0)

ForCondition ==
  AtNode("statement", {"for"}, "decl")
  /\ Check("condition", "left", 0) /\ UNCHANGED <<ast, reported>>

(* A condition that is not of type bool is reported and accepted.          *)
AfterCondition ==
  /\ AtNode("statement", {"if", "for"}, "condition")
  /\ reported' = (reported \/ Left.type # Bool)
  /\ IF Here.kind = "for" THEN Check("step", "right", 0)
     ELSE Call("body", "body", "statement", 0)
  /\ UNCHANGED ast

ForBody ==
  AtNode("statement", {"for"}, "step")
  /\ Call("body", "body", "statement", 0) /\ UNCHANGED <<ast, reported>>

AfterBody == AtNode("statement", {"if", "for"}, "body") /\ FinishWith(ast)

(* The value's type is not compared with the function's return type.       *)
BeginReturn == Begin("statement", "return") /\ Check("value", "left", 0)

EndReturn == AtNode("statement", {"return"}, "value") /\ FinishWith(Typed(Left.type))

(* The statements of a block or of a function, as many as the parser found. *)
InList == AtNode("statement", {"block"}, "enter") \/ At("function", "statements")

NextStatement ==
  /\ InList
  /\ ast' = Append(ast, Unknown(Top.node, "statement"))
  /\ Affordable(ast')
  /\ CallFrom(frames, "statement", Len(ast) + 1, 0)
  /\ UNCHANGED <<table, reported, absent>>

EndList == InList /\ FinishWith(ast)

CheckStatement ==
  \/ ExpressionStatement \/ BeginDeclaration \/ TypedDeclaration \/ EndDeclaration
  \/ BeginIf \/ BeginFor \/ ForCondition \/ AfterCondition \/ ForBody \/ AfterBody
  \/ BeginReturn \/ EndReturn \/ NextStatement \/ EndList

-----------------------------------------------------------------------------
(* type_check_function_signature and type_checking.                        *)

(* Mutant: void until the return type is known.                            *)
BeginSignatureAsVoid ==
  /\ At("signature", "enter")
  /\ ast' = Typed(Void)
  /\ IF Has(Top.node, "type_def") THEN Resolve("returns")
     ELSE frames' = Stepping("parameters") /\ UNCHANGED <<table, outcome, absent>>
  /\ UNCHANGED reported

BeginSignature ==
  /\ At("signature", "enter")
  /\ IF Has(Top.node, "type_def") THEN Resolve("returns") /\ UNCHANGED ast
     ELSE /\ ast' = Typed(Void)
          /\ frames' = Stepping("parameters")
          /\ UNCHANGED <<table, outcome, absent>>
  /\ UNCHANGED reported

EndReturnType ==
  /\ At("signature", "returns")
  /\ ast' = Typed(TypeDef.type)
  /\ frames' = Stepping("parameters")
  /\ UNCHANGED <<table, reported, outcome, absent>>

(* Mutant: the loop over the parameters does not advance.                  *)
SameParameter ==
  /\ At("signature", "parameters")
  /\ LET k == Top.position + 1
     IN  IF k <= Cardinality(Children(Top.node, "parameter"))
         THEN /\ CallFrom(frames, "statement", Nth(Top.node, "parameter", k), 0)
              /\ UNCHANGED <<ast, table, reported, absent>>
         ELSE FinishWith(ast)

NextParameter ==
  /\ At("signature", "parameters")
  /\ LET k == Top.position + 1
     IN  IF k <= Cardinality(Children(Top.node, "parameter"))
         THEN /\ CallFrom([frames EXCEPT ![Len(frames)].position = k],
                          "statement", Nth(Top.node, "parameter", k), 0)
              /\ UNCHANGED <<ast, table, reported, absent>>
         ELSE FinishWith(ast)

BeginFunction ==
  /\ At("function", "enter")
  /\ CallFrom(Stepping("statements"), "signature", Top.node, 0)
  /\ UNCHANGED <<ast, table, reported, absent>>

(* The functions in the order of their declarations.                       *)
NextFunction ==
  /\ At("program", "enter")
  /\ LET f == Top.position + 1
     IN  IF f <= Cardinality(Children(0, "function"))
         THEN /\ CallFrom([frames EXCEPT ![Len(frames)].position = f], "function", f, 0)
              /\ UNCHANGED <<ast, table, reported, absent>>
         ELSE /\ outcome' = "done"
              /\ UNCHANGED <<ast, frames, table, reported, absent>>

CheckDeclaration ==
  BeginSignature \/ EndReturnType \/ NextParameter \/ BeginFunction \/ NextFunction

-----------------------------------------------------------------------------
(* The declarations as the parser leaves them: the functions, then the     *)
(* return type and the parameters of each.                                 *)
SignatureNodes(f, header, n) ==
  LET returns == IF header.returns THEN <<Unknown(f, "type_def")>> ELSE <<>>
  IN  returns \o [i \in 1 .. 2 * Len(header.params) |->
                    IF i % 2 = 1
                    THEN Node("declaration", f, "parameter", header.params[(i + 1) \div 2])
                    ELSE Unknown(n + Len(returns) + i - 1, "type_def")]

Declarations(p) ==
  LET functions == [f \in DOMAIN p |-> Node("function", 0, "function", p[f].name)]
      upTo[f \in 0 .. Len(p)] ==
        IF f = 0 THEN functions
        ELSE upTo[f - 1] \o SignatureNodes(f, p[f], Len(upTo[f - 1]))
  IN  upTo[Len(p)]

Init ==
  /\ program \in Programs
  /\ ast = Declarations(program.functions)
  /\ frames = <<Frame("program", 0, 0)>>
  /\ table = BaseTypes
  /\ reported = FALSE
  /\ outcome = "running"
  /\ absent = {}

Next ==
  /\ ChooseSyntax \/ ResolveType \/ CheckExpression \/ CheckStatement \/ CheckDeclaration
  /\ UNCHANGED program

Spec == Init /\ [][Next]_vars /\ WF_vars(Next)

-----------------------------------------------------------------------------
(* Properties.                                                             *)

(* Types are compared by their ids, so no two entries of the table may be  *)
(* the same type, however often and wherever a pointer type is written.    *)
OneIdPerType ==
  \A i, j \in DOMAIN table : i # j => table[i] # table[j]

(* Those who read the type of a declaration, a signature, a type           *)
(* definition or an expression keep what they read: it never changes       *)
(* afterwards, although signatures are checked when they are first called  *)
(* and again in their turn.  Only the literal being checked is retyped.    *)
TypesAreFinal ==
  [][\A n \in DOMAIN ast :
       (ast[n].type # 0 /\ ~ (n = Top.node /\ Here.kind = "integer"))
         => ast'[n].type = ast[n].type]_vars

(* Every value of type from is one of type to, told by their ranges.       *)
ValueBits(t) == 8 * t.size - (IF t.unsigned THEN 0 ELSE 1)
Holds(to, from) ==
  \/ from = to
  \/ /\ IsInteger(table, from) /\ IsInteger(table, to)
     /\ ValueBits(table[from]) <= ValueBits(table[to])
     /\ table[to].unsigned => table[from].unsigned
  \/ /\ table[from].kind = "pointer" /\ table[to].kind = "pointer"
     /\ table[to].ref = Void

TypeOf(n, role) == ast[Child(n, role)].type

(* What the emitters take for granted about a node, by its kind.           *)
EmitterAccepts(n) ==
  LET node == ast[n]
      left == TypeOf(n, "left")
      right == TypeOf(n, "right")
  IN  CASE node.kind = "identifier" -> node.decl # 0 /\ node.type = ast[node.decl].type
        [] node.kind = "assign" ->
             node.decl # 0 /\ node.type = ast[node.decl].type /\ Holds(node.type, right)
        [] node.kind = "integer" ->
             IsInteger(table, node.type) /\ (Has(n, "left") \/ Fits(node.value, table[node.type]))
        [] node.kind = "compare" ->
             node.type = Bool /\ (Holds(left, right) \/ Holds(right, left))
        [] node.kind = "arithmetic" -> Holds(node.type, left) /\ Holds(node.type, right)
        [] node.kind = "call" ->
             LET args == Cardinality(Children(n, "argument"))
             IN  /\ node.type = ast[node.decl].type
                 /\ args = Cardinality(Children(node.decl, "parameter"))
                 /\ \A k \in 1 .. args :
                      Holds(ast[Nth(node.decl, "parameter", k)].type,
                            ast[Nth(n, "argument", k)].type)
        [] node.kind = "member" -> left = String
        [] node.kind \in {"if", "for"} -> left = Bool
        [] node.kind = "declaration" /\ Has(n, "type_def") -> node.type = TypeOf(n, "type_def")
        [] node.kind = "declaration" /\ ~ Has(n, "type_def") -> node.type = right
        [] OTHER -> TRUE

(* A program that the checker accepts without a message is one that the    *)
(* emitters were written for: their assertions about types and the types   *)
(* of operands, arguments and assigned values hold in the tree as it is    *)
(* left.  (Initializers and returned values are not in it: nothing         *)
(* compares them.  Nor are the sizes of operands: two strings pass, and    *)
(* the emitters stop when they load them, x64.c:268 and arm64.c:315.)      *)
AcceptedTreesCanBeEmitted ==
  (outcome = "done" /\ ~ reported) =>
    \A n \in DOMAIN ast :
      /\ ast[n].kind # "?"
      /\ ast[n].kind \in ExpressionKinds \cup TypeKinds \cup {"function", "declaration"}
           => ast[n].type # 0
      /\ EmitterAccepts(n)

(* The node and all it is part of.                                         *)
Path(n) ==
  LET up[i \in 0 .. Len(ast)] == IF i = 0 THEN {} ELSE {i} \cup up[ast[i].parent]
  IN  up[n]

(* The emitter has come to d before n and has not left the scope of d.     *)
InScope(d, n) ==
  /\ d < n /\ d \notin Path(n) /\ ast[d].parent \in Path(n)
  /\ ast[d].kind = "declaration" /\ ast[d].role # "body"

(* n is in the initializer of the loop variable d.                         *)
OwnInitializer(d, n) == ast[d].role = "decl" /\ d \in Path(n)

(* A name that is emitted, one outside the types of signatures, stands for *)
(* a declaration that the emitter has emitted and whose slot is still      *)
(* reserved when it comes to the name, and for the innermost one.  Only    *)
(* the initializer of a loop variable may name that variable.              *)
NamesFollowScopes ==
  \A n \in DOMAIN ast :
    (ast[n].kind \in {"identifier", "assign"} /\ ast[n].decl # 0 /\ SignatureAround(n) = 0) =>
      LET d == ast[n].decl
      IN  /\ InScope(d, n) \/ OwnInitializer(d, n)
          /\ \A e \in DOMAIN ast :
               (InScope(e, n) /\ ast[e].name = ast[d].name /\ e # d) =>
                 \/ ast[e].parent < ast[d].parent
                 \/ ast[e].parent = ast[d].parent /\ ast[e].role = "parameter"
                 \/ ast[e].parent = ast[d].parent /\ d < e /\ ast[d].role # "parameter"

(* When an assertion or a null pointer stops the compiler without any      *)
(* message, the program uses what the code declares not implemented, or a  *)
(* literal where the other type is no integer, or the checker came back to *)
(* a declaration it had not finished: the loop variable in its own         *)
(* initializer, or a name or call in a type_of of a signature.             *)
StopsForAReason ==
  (outcome \in {"untyped", "null"} /\ ~ reported) =>
    \/ /\ Here.kind \in {"identifier", "assign"}
       /\ \E d \in DOMAIN ast : ast[d].name = Here.name /\ OwnInitializer(d, Top.node)
    \/ SignatureAround(Top.node) # 0

(* g is called in the type_of that is the return type of f.                *)
ReturnTypeCalls(f, g) ==
  \E n \in DOMAIN ast :
    /\ ast[n].kind = "call" /\ FindFunction(ast[n].name) = g
    /\ \E t \in Children(f, "type_def") : t \in Path(n)

ReturnTypesCircular ==
  \E S \in SUBSET Children(0, "function") :
    S # {} /\ \A f \in S : \E g \in S : ReturnTypeCalls(f, g)

(* Checking signatures on demand recurses without end exactly when the     *)
(* return types of some functions are each other's type_of.                *)
OverflowIsCircular ==
  /\ outcome = "overflow" => ReturnTypesCircular
  /\ outcome = "done" /\ ~ reported => ~ ReturnTypesCircular

(* The checker comes to an end, one way or the other.                      *)
Terminates == <>(outcome # "running")
=============================================================================
