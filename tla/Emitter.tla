------------------------------- MODULE Emitter -------------------------------
(***************************************************************************)
(* What the emitters of the two backends (X64Emit, Arm64Emit) have in      *)
(* common: the functions they are given, the state they keep and the text  *)
(* they emit.                                                              *)
(*                                                                         *)
(* The emitters of statements and expressions are mutually recursive.      *)
(* Their C call stack is the sequence frames; a frame is one activation    *)
(* with its locals, and step names the recursive call it waits for.  The   *)
(* syntax tree is not a constant: an activation chooses its node when it   *)
(* is entered, among the nodes the parser builds and the type checker      *)
(* accepts there, so that the behaviours of an emitter are the emissions   *)
(* of all well-typed functions of at most MaxNodes nodes.                  *)
(*                                                                         *)
(* Of the text only the instructions that move the stack pointer, jump,    *)
(* call or return are kept; the loads and stores of the last handler are   *)
(* in accesses.                                                            *)
(***************************************************************************)
EXTENDS CodegenStack, FiniteSets

CONSTANTS
  Size,        \* Datatype.size of every type: a function from type names
  IntegerTypes,   \* the types of kind DATATYPE_INTEGER, all of one signedness
  Bool, String, Void,  \* compiler->basetype_bool, _string, _void
  Members,     \* the types of the members "count" and "data" of a string
  Signatures,  \* the functions of the program: [params, returns]
  MaxNodes,    \* bound on the nodes of the function that is emitted
  Features     \* constructs the front end accepts and the backend mishandles

FeatureNames == {"widening_assignment", "widening_argument", "widening_initializer",
                 "mismatched_return", "assign_to_parameter", "loop_without_initializer",
                 "declaration_as_loop_body", "missing_return"}

Types == DOMAIN Size
ValueTypes == Types \ {Void}

ASSUME TypesAssumption ==
  /\ Size \in [Types -> Nat]
  /\ IntegerTypes \subseteq ValueTypes
  /\ {Bool, String, Void} \subseteq Types
  /\ Members \subseteq ValueTypes
  /\ Bool # Void /\ String # Void
  /\ Size[Void] = 0
  /\ \A t \in ValueTypes : Size[t] > 0
  /\ \A t \in Members : Size[t] <= Size[String]

ASSUME SignaturesAssumption ==
  Signatures \subseteq [params : Seq(ValueTypes), returns : Types]

ASSUME BoundsAssumption == MaxNodes \in Nat /\ Features \subseteq FeatureNames

VARIABLES
  signature,   \* the function being emitted
  stack,       \* codegen->stack_*
  frames,      \* the activations of the emitters, outermost first
  result,      \* stack_offset of the expression emitted last
  locals,      \* the declarations visible here: [type, offset], oldest first
  text,        \* section_text
  accesses,    \* the loads and stores the last handler emitted
  nodes        \* nodes chosen so far

vars == <<signature, stack, frames, result, locals, text, accesses, nodes>>

-----------------------------------------------------------------------------
(* The front end's rules for types.                                        *)

(* can_implicitly_cast_to, on integers of one signedness and on itself.    *)
CanImplicitlyCast(from, to) ==
  \/ from = to
  \/ from \in IntegerTypes /\ to \in IntegerTypes /\ Size[to] > Size[from]

(* The types an expression of type from may have where type to is asked    *)
(* for, when the implicit cast is only allowed under a feature.            *)
Accepted(to, feature) ==
  {from \in ValueTypes : from = to \/ (feature \in Features /\ CanImplicitlyCast(from, to))}

(* A declaration's initializer is not compared with its type at all.       *)
Initializers(t) ==
  IF "widening_initializer" \in Features THEN IntegerTypes \cup {t} ELSE {t}

(* The types of operands.  The checker lets two strings pass as well, but  *)
(* the emitters stop when they load them (x64.c:268, arm64.c:315), and two *)
(* pointers, which are to the emitters like integers of their size.        *)
Scalars == IntegerTypes \cup {Bool}

(* Operands of comparisons and of + and -, and the type of the result: the *)
(* larger of the two for the latter.                                       *)
Operands(l, r, t) ==
  /\ CanImplicitlyCast(l, r) \/ CanImplicitlyCast(r, l)
  /\ \/ t = Bool
     \/ t = IF Size[l] > Size[r] THEN l ELSE r

(* The values that a function may return.                                  *)
ReturnTypes ==
  IF "mismatched_return" \in Features THEN ValueTypes ELSE {signature.returns} \ {Void}

(* Where a declaration may stand, and the names after it.                  *)
Declaring(routine) ==
  \/ routine \in {"statement", "loop_declaration"}
  \/ routine = "loop_body" /\ "declaration_as_loop_body" \in Features

Declared(t, s) == Append(locals, [type |-> t, offset |-> s.allocated])

-----------------------------------------------------------------------------
(* Activations.                                                            *)

Routines == {"function", "statement", "loop_declaration", "loop_body", "expression"}
Kinds == {"?", "function", "binary", "call", "assign", "member", "cast", "declaration",
          "discard", "if", "for", "return", "block"}
Steps == {"enter", "left", "right", "arguments", "argument", "value", "string",
          "initializer", "condition", "then", "declaration", "body", "step", "statements"}

(* The locals of an activation.  kind and step are "?" and "enter" until   *)
(* it chooses a node.  at and scope record the stack it found (its         *)
(* stack_allocated and number of scopes) and visible the number of names.  *)
Activations ==
  [routine : Routines, type : Types, kind : Kinds, step : Steps,
   at : Int, scope : Nat, visible : Nat, left : Types, right : Types, slot : Int,
   patch : Nat, start : Nat, args : Seq([offset : Int, size : Nat]), argsize : Nat,
   callee : Signatures]

Activation(routine, t, s, visible) ==
  [routine |-> routine, type |-> t, kind |-> "?", step |-> "enter",
   at |-> s.allocated, scope |-> Len(s.scopes), visible |-> visible,
   left |-> t, right |-> t, slot |-> 0, patch |-> 0, start |-> 0,
   args |-> <<>>, argsize |-> 0, callee |-> signature]

Expression(t, s) == Activation("expression", t, s, Len(locals))
Statement(s, visible) == Activation("statement", Void, s, visible)
LoopDeclaration(s) == Activation("loop_declaration", Void, s, Len(locals))
LoopBody(s, visible) == Activation("loop_body", Void, s, visible)

Running == frames # <<>>
Top == frames[Len(frames)]

At(kind, step) == Running /\ Top.kind = kind /\ Top.step = step
Entering(routines) == Running /\ Top.routine \in routines /\ Top.step = "enter"

Becoming(f) == [frames EXCEPT ![Len(frames)] = f]
Calling(f, callee) == Append(Becoming(f), callee)
Returning == SubSeq(frames, 1, Len(frames) - 1)

Visible == {locals[i] : i \in 1 .. Len(locals)}

(* The assertion most handlers make after a recursive call.                *)
ResultOnTop == result = stack.allocated

NewNode == nodes < MaxNodes /\ nodes' = nodes + 1

(* The variables that may be assigned to.                                  *)
Targets(t) ==
  {local \in Visible :
     local.type = t /\ (local.offset > 0 \/ "assign_to_parameter" \in Features)}

-----------------------------------------------------------------------------
(* Where a function finds its parameters and the slot of its return value: *)
(* above what the call pushes (pushed bytes), the last parameter first.    *)
(* slot is the number of bytes that a value of each type takes up on the   *)
(* stack of the backend.                                                   *)
BytesOfLast(slot, n, params) ==
  LET bytes[i \in 0 .. n] ==
        IF i = 0 THEN 0 ELSE bytes[i - 1] + slot[params[Len(params) + 1 - i]]
  IN  bytes[n]

ParameterAt(slot, pushed, f, i) == -pushed - BytesOfLast(slot, Len(f.params) - i, f.params)
ReturnAt(slot, pushed, f) == -pushed - BytesOfLast(slot, Len(f.params), f.params)

-----------------------------------------------------------------------------
(* The emitted code.                                                       *)

(* An instruction, with the committed stack the compiler reckons with when *)
(* the instruction starts.                                                 *)
Instruction(op, s, by) == [op |-> op, depth |-> s.committed, by |-> by, to |-> 0]

Label == Len(text) + 1

Operations == {"rsp", "sp", "je", "jmp", "call", "push_lr", "pop_lr", "ret"}
Instructions == [op : Operations, depth : Int, by : Int, to : Nat]

(* A function that is declared with a return type gets no ret at its end:  *)
(* its last statement is a return, or control falls off the end.  That is  *)
(* a missing return also where the type is void, because the emitters test *)
(* whether a type was written: the two ends of a function with returns =   *)
(* Void are that of one without a type and, as a feature, of a "-> void".  *)
EndsWithoutRet ==
  \/ "missing_return" \in Features
  \/ signature.returns # Void /\ text # <<>> /\ text[Len(text)].op = "ret"

(* Every variable has its type.                                            *)
TypeOK ==
  /\ signature \in Signatures
  /\ stack \in Stacks /\ Len(stack.scopes) >= 1
  /\ frames \in Seq(Activations)
  /\ result \in Int
  /\ locals \in Seq([type : Types, offset : Int])
  /\ text \in Seq(Instructions)
  /\ nodes \in 0 .. MaxNodes

(* The code at label p is compiled for a committed stack of d.             *)
CompiledFor(p, d) ==
  /\ p \in 1 .. Label
  /\ IF p = Label THEN stack.committed = d ELSE text[p].depth = d

(* All paths to a label agree on the committed stack: the code after a     *)
(* label is compiled for the very depth at which every jump arrives.       *)
JumpsAgree ==
  \A i \in 1 .. Len(text) : text[i].to # 0 => CompiledFor(text[i].to, text[i].depth)
=============================================================================
