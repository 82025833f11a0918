------------------------------- MODULE Parser -------------------------------
(***************************************************************************)
(* The recursive descent parser (parser.c).  Every parse_... function is a *)
(* program: the sequence of its calls of expect_token and match_token, of  *)
(* the other functions, and of what it does with the nodes they return.    *)
(* An action executes one instruction of the innermost activation, so that *)
(* the stack of C is the variable frames.                                  *)
(*                                                                         *)
(* Tokens are their kinds, read from an input that is any continuation of  *)
(* the prefix of its shape; a token is named by its index.  A node is the       *)
(* sequence of what it is made of: operands before their operator,         *)
(* statements and declarations before their parts.  The null pointer is    *)
(* the empty sequence.                                                     *)
(***************************************************************************)
EXTENDS Integers, SequencesExt

CONSTANT
  Shapes   \* the files: [prefix, kinds, limit], what the file begins with,
           \* the kinds of the tokens after that and a bound on their number

AssignmentOperators == {"=", "+=", "-=", "*=", "/=", "|=", "&=", "^="}
Literals == {"string", "integer", "float", "true", "false"}

(* TokenType, as far as a parser function asks for it.                     *)
Tokens ==
  AssignmentOperators \cup Literals
  \cup {"identifier", "if", "struct", "for", "while", "null", "return", "size_of", "type_of",
        "cast", "import", "load", "==", "!=", "<", ">", "<=", ">=", "||", "&&", ":=", "::", "->",
        "!", "(", ")", "*", "+", ",", "-", ".", "/", ":", ";", "[", "{", "}", "end"}

ASSUME ShapesAssumption ==
  Shapes \subseteq [prefix : Seq(Tokens \ {"end"}), kinds : SUBSET (Tokens \ {"end"}), limit : Nat]

VARIABLES
  shape,      \* the file that is parsed
  input,      \* the tokens lexed so far
  lexed,      \* lexer.current, as the number of tokens before it
  previous,   \* parser.previous
  current,    \* parser.current
  hasError,   \* parser.has_error
  reported,   \* report_error was called
  frames,     \* activations: [todo, node], the innermost last
  result,     \* what the last function returned
  outcome     \* "none", what parse returned, or how the program ended

tokens == <<shape, input, lexed, previous, current>>
errors == <<hasError, reported>>
vars == <<tokens, errors, frames, result, outcome>>

Null == <<>>

-----------------------------------------------------------------------------
(* Instructions; every operator is a program of one.                       *)
Expect(kind) == <<[op |-> "expect", kind |-> kind]>>
Call(routine) == <<[op |-> "call", routine |-> routine]>>
Require == <<[op |-> "require"]>>              \* if (!result) return 0;
New(mark) == <<[op |-> "new", mark |-> mark]>> \* append_ast without children yet
Keep == <<[op |-> "keep"]>>                    \* the result becomes the node
Set == <<[op |-> "set"]>>                      \* ast_set_..., ast_list_append
Mark(mark) == <<[op |-> "mark", mark |-> mark]>> \* a parent for the node
Join(mark) == <<[op |-> "join", mark |-> mark]>> \* a parent for node and result
Report == <<[op |-> "report"]>>                \* report_error alone
Fail == <<[op |-> "fail"]>>                    \* report_error, has_error = true
Abort == <<[op |-> "abort"]>>                  \* assert(!"not implemented")
Switch(cases, otherwise) == <<[op |-> "switch", cases |-> cases, otherwise |-> otherwise]>>
While(cases) == <<[op |-> "while", cases |-> cases]>>
Until(kind, body) == <<[op |-> "until", kind |-> kind, body |-> body]>>
(* expect_token(identifier), then a look at the token after it.            *)
Ahead(cases, otherwise) ==
  Expect("identifier") \o <<[op |-> "ahead", cases |-> cases, otherwise |-> otherwise]>>

List(item) == item \o While("," :> (Expect(",") \o item))

-----------------------------------------------------------------------------
(* The functions.                                                          *)
ParseTypeDefinition ==
  While(("*" :> (Expect("*") \o New("pointer"))) @@ ("[" :> Abort))
  \o Switch("type_of" :> (Expect("type_of") \o Expect("(") \o New("type_of")
                          \o Call("expression") \o Set \o Expect(")")),
            Expect("identifier") \o New("type"))

ParsePrimary ==
  Switch([kind \in Literals \cup {"identifier"} |-> Expect(kind) \o New(kind)]
         @@ ("null" :> Abort)
         @@ ("(" :> (Expect("(") \o Call("expression") \o Keep \o Expect(")"))),
         Fail)

ParsePostfixExpression ==
  Call("primary") \o Keep
  \o While(("(" :> (Expect("(") \o Mark("callee")
                    \o List(Call("expression") \o Require \o Set \o Mark("argument"))
                    \o Expect(")") \o Mark("call")))
           @@ ("." :> (Expect(".") \o Expect("identifier") \o Mark("member"))))

ParseUnary ==
  Switch([kind \in {"!", "-"} |-> Expect(kind) \o Call("unary") \o Keep \o Mark("unary")]
         @@ ("cast" :> (Expect("cast") \o Expect("(") \o Call("type") \o Keep \o Expect(")")
                        \o Call("unary") \o Join("cast")))
         @@ ("size_of" :> (Expect("size_of") \o Expect("(") \o Call("type") \o Keep
                           \o Mark("size_of") \o Expect(")"))),
         Call("postfix") \o Keep)

(* parse_logic_or, parse_logic_and, parse_equality, parse_comparison,      *)
(* parse_term and parse_factor differ in their operators.                  *)
Levels == <<"or", "and", "equality", "comparison", "term", "factor", "unary">>
Operators == [or |-> {"||"}, and |-> {"&&"}, equality |-> {"==", "!="},
              comparison |-> {"<", ">", "<=", ">="}, term |-> {"+", "-"}, factor |-> {"*", "/"}]

ParseBinaryRight(level, operand) == \* mutant
  Call(operand) \o Keep
  \o While([kind \in Operators[level] |-> Expect(kind) \o Call(level) \o Join(kind)])

ParseBinary(level, operand) ==
  Call(operand) \o Keep
  \o While([kind \in Operators[level] |-> Expect(kind) \o Call(operand) \o Join(kind)])

ParseAssignment ==
  Expect("identifier")
  \o Switch([kind \in AssignmentOperators |->
               New("identifier") \o Expect(kind) \o Call("or") \o Join(kind)],
            Report)

ParseExpression ==
  Switch("identifier" :>
           Ahead([kind \in AssignmentOperators |-> Call("assignment") \o Keep], Call("or") \o Keep),
         Call("or") \o Keep)

ParseVariableDeclaration ==
  Expect("identifier") \o New("variable")
  \o Switch(":=" :> (Expect(":=") \o Call("expression") \o Set),
            Expect(":") \o Call("type") \o Set
            \o Switch("=" :> (Expect("=") \o Call("expression") \o Set), <<>>))

StatementsKeptTrying == \* mutant
  Until("}", Call("statement")) \o Expect("}") \o Mark("}")

(* The loop and the closing brace of blocks and functions.                 *)
Statements == Until("}", Call("statement") \o Require \o Set) \o Expect("}") \o Mark("}")

ParseStatement ==
  Switch(
    ("identifier" :>
       (Ahead([kind \in {":", ":="} |-> Call("variable")], Call("expression")) \o Keep
        \o Expect(";")))
    @@ ("if" :> (Expect("if") \o New("if") \o Expect("(") \o Call("expression") \o Set
                 \o Expect(")") \o Call("statement") \o Require \o Set))
    @@ ("for" :> (Expect("for") \o New("for") \o Expect("(") \o Call("variable") \o Set
                  \o Expect(";") \o Call("expression") \o Set
                  \o Expect(";") \o Call("expression") \o Set
                  \o Expect(")") \o Call("statement") \o Require \o Set))
    @@ ("while" :> Abort)
    @@ ("return" :> (Expect("return") \o New("return") \o Call("expression") \o Set \o Expect(";")))
    @@ ("{" :> (Expect("{") \o New("block") \o Statements)),
    Report)

ParseParameter == Expect("identifier") \o New("parameter") \o Expect(":") \o Call("type") \o Set

ParseDeclaration ==
  Expect("identifier") \o Expect("::")
  \o Switch(("struct" :> (Expect("struct") \o New("struct")))
            @@ ("(" :> (Expect("(") \o New("function")
                        \o Switch(")" :> Expect(")"),
                                  List(Call("parameter") \o Require \o Set) \o Expect(")"))
                        \o Switch("->" :> (Expect("->") \o Call("type") \o Set), <<>>)
                        \o Expect("{") \o Statements)),
            Report)

(* The body of the loop of parse.                                          *)
ParseFile ==
  Switch([kind \in {"import", "load"} |-> Expect(kind) \o Expect("string") \o Expect(";")],
         Call("declaration") \o Require \o Set)

Body(routine) ==
  CASE routine = "type" -> ParseTypeDefinition
    [] routine = "primary" -> ParsePrimary
    [] routine = "postfix" -> ParsePostfixExpression
    [] routine = "unary" -> ParseUnary
    [] routine \in DOMAIN Operators ->
         ParseBinary(routine, Levels[SelectInSeq(Levels, LAMBDA l : l = routine) + 1])
    [] routine = "assignment" -> ParseAssignment
    [] routine = "expression" -> ParseExpression
    [] routine = "variable" -> ParseVariableDeclaration
    [] routine = "statement" -> ParseStatement
    [] routine = "parameter" -> ParseParameter
    [] routine = "declaration" -> ParseDeclaration

-----------------------------------------------------------------------------
(* Execution.                                                              *)
Running == outcome = "none"
Top == Last(frames)
Instruction == Head(Top.todo)
Executes(op) == Running /\ Top.todo # <<>> /\ Instruction.op = op
Kind == input[current]

(* The kinds the lexer may find next: after the end only the end.          *)
Following ==
  IF input # <<>> /\ Last(input) = "end" THEN {"end"}
  ELSE IF Len(input) < Len(shape.prefix) THEN {shape.prefix[Len(input) + 1]}
  ELSE IF Len(input) < Len(shape.prefix) + shape.limit THEN shape.kinds \cup {"end"} ELSE {"end"}

AdvanceToken ==
  /\ previous' = current
  /\ current' = lexed + 1
  /\ lexed' = lexed + 1
  /\ IF lexed < Len(input) THEN UNCHANGED input
     ELSE \E kind \in Following : input' = Append(input, kind)
  /\ UNCHANGED shape

(* rollback_one_token: the lexer goes back to where the current token      *)
(* starts and the previous token is current again.                         *)
RollbackOneToken ==
  /\ lexed' = current - 1
  /\ current' = previous
  /\ UNCHANGED <<shape, input, previous>>

Continue(todo, node) ==
  frames' = [frames EXCEPT ![Len(frames)] = [todo |-> todo, node |-> node]]
Proceed(node) == Continue(Tail(Top.todo), node)
Insert(program) == Continue(program \o Tail(Top.todo), Top.node)

(* A node is written through a null pointer.                               *)
Crash == outcome' = "null dereferenced" /\ UNCHANGED <<frames, result>>

ExpectToken ==
  /\ Executes("expect")
  /\ IF Kind = Instruction.kind
     THEN AdvanceToken /\ UNCHANGED errors
     ELSE hasError' = TRUE /\ reported' = TRUE /\ UNCHANGED tokens
  /\ Proceed(Top.node)
  /\ UNCHANGED <<result, outcome>>

CallFunction ==
  /\ Executes("call")
  /\ frames' = Append([frames EXCEPT ![Len(frames)].todo = Tail(@)],
                      [todo |-> Body(Instruction.routine), node |-> Null])
  /\ UNCHANGED <<tokens, errors, result, outcome>>

(* A function returns; parse returns false when a declaration is null.     *)
ReturnNode(node) ==
  /\ frames' = Front(frames)
  /\ result' = node
  /\ outcome' = IF Len(frames) = 1 THEN "rejected" ELSE outcome

Return ==
  /\ Running /\ Top.todo = <<>>
  /\ ReturnNode(Top.node)
  /\ UNCHANGED <<tokens, errors>>

RequireNode ==
  /\ Executes("require")
  /\ IF result = Null THEN ReturnNode(Null)
     ELSE Proceed(Top.node) /\ UNCHANGED <<result, outcome>>
  /\ UNCHANGED <<tokens, errors>>

NewNode ==
  /\ Executes("new")
  /\ Proceed(Append(Top.node, Instruction.mark))
  /\ UNCHANGED <<tokens, errors, result, outcome>>

KeepNode ==
  /\ Executes("keep")
  /\ Proceed(result)
  /\ UNCHANGED <<tokens, errors, result, outcome>>

SetNode ==
  /\ Executes("set")
  /\ IF result = Null THEN Crash
     ELSE Proceed(Top.node \o result) /\ UNCHANGED <<result, outcome>>
  /\ UNCHANGED <<tokens, errors>>

MarkNode ==
  /\ Executes("mark")
  /\ IF Top.node = Null THEN Crash
     ELSE Proceed(Append(Top.node, Instruction.mark)) /\ UNCHANGED <<result, outcome>>
  /\ UNCHANGED <<tokens, errors>>

JoinNodes ==
  /\ Executes("join")
  /\ IF Top.node = Null \/ result = Null THEN Crash
     ELSE /\ Proceed(Append(Top.node \o result, Instruction.mark))
          /\ UNCHANGED <<result, outcome>>
  /\ UNCHANGED <<tokens, errors>>

ReportError ==
  /\ Executes("report") \/ Executes("fail")
  /\ reported' = TRUE
  /\ hasError' = (hasError \/ Instruction.op = "fail")
  /\ Proceed(Top.node)
  /\ UNCHANGED <<tokens, result, outcome>>

NotImplemented ==
  /\ Executes("abort")
  /\ outcome' = "not implemented"
  /\ UNCHANGED <<tokens, errors, frames, result>>

(* Tests of the current token.                                             *)
TestToken ==
  /\ \/ /\ Executes("switch")
        /\ Insert(IF Kind \in DOMAIN Instruction.cases THEN Instruction.cases[Kind]
                  ELSE Instruction.otherwise)
     \/ /\ Executes("while")
        /\ Insert(IF Kind \in DOMAIN Instruction.cases
                  THEN Append(Instruction.cases[Kind], Instruction) ELSE <<>>)
     \/ /\ Executes("until")
        /\ Insert(IF Kind # Instruction.kind THEN Append(Instruction.body, Instruction) ELSE <<>>)
  /\ UNCHANGED <<tokens, errors, result, outcome>>

LookAhead ==
  /\ Executes("ahead")
  /\ Insert(IF Kind \in DOMAIN Instruction.cases THEN Instruction.cases[Kind]
            ELSE Instruction.otherwise)
  /\ RollbackOneToken
  /\ UNCHANGED <<errors, result, outcome>>

NextDeclarationAfterError == \* mutant
  /\ Executes("parse")
  /\ IF Kind = "end" THEN AdvanceToken ELSE UNCHANGED tokens
  /\ IF Kind = "end" \/ hasError
     THEN outcome' = "accepted" /\ UNCHANGED frames
     ELSE Continue(Append(ParseFile, Instruction), Top.node) /\ UNCHANGED outcome
  /\ UNCHANGED <<errors, result>>

(* The condition of the loop of parse.                                     *)
NextDeclaration ==
  /\ Executes("parse")
  /\ IF Kind = "end" THEN AdvanceToken ELSE UNCHANGED tokens
  /\ IF Kind = "end" \/ hasError
     THEN /\ outcome' = IF hasError THEN "rejected" ELSE "accepted"
          /\ UNCHANGED frames
     ELSE /\ Continue(Append(ParseFile, Instruction), Top.node)
          /\ UNCHANGED outcome
  /\ UNCHANGED <<errors, result>>

Init ==
  /\ shape \in Shapes
  /\ \E kind \in IF shape.prefix = <<>> THEN shape.kinds \cup {"end"} ELSE {shape.prefix[1]} :
       input = <<kind>>
  /\ lexed = 1 /\ current = 1 /\ previous = 0
  /\ hasError = FALSE /\ reported = FALSE
  /\ frames = <<[todo |-> <<[op |-> "parse"]>>, node |-> Null]>>
  /\ result = Null
  /\ outcome = "none"

Next ==
  \/ ExpectToken \/ CallFunction \/ Return \/ RequireNode \/ NewNode \/ KeepNode \/ SetNode
  \/ MarkNode \/ JoinNodes \/ ReportError \/ NotImplemented \/ TestToken \/ LookAhead
  \/ NextDeclaration

(* The parser runs to its end: nothing it does waits for another process.  *)
Spec == Init /\ [][Next]_vars /\ WF_vars(Next)
-----------------------------------------------------------------------------
(* Properties.                                                             *)

(* The parser reports exactly what it refuses: parse fails, or the program *)
(* ends early, only after a message, and once there was a message nothing  *)
(* is accepted, whichever functions returned in between.                   *)
ReportedIffRefused ==
  /\ outcome \in {"rejected", "null dereferenced"} => reported
  /\ outcome = "accepted" => ~reported

(* No function writes through the null pointer that another returned for a *)
(* missing operand: the callers check for it (parser.c:441, 781).          *)
NoNullDereference == outcome # "null dereferenced"

(* Whatever the input, the parser comes to an end: it neither loops        *)
(* without reading nor descends without end.                               *)
Terminates == <>(outcome # "none")
=============================================================================
