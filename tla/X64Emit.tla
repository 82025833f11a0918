------------------------------- MODULE X64Emit -------------------------------
(***************************************************************************)
(* The emission of one function by the x86-64 backend: x64_emit_function,  *)
(* x64_emit_statement and x64_emit_expression (x64.c:691-1452), seen       *)
(* through what they do to the compile-time stack of module CodegenStack,  *)
(* to the stack offsets stored in the syntax tree and to the emitted text. *)
(*                                                                         *)
(* Activations, nodes and text are those of module Emitter.                *)
(***************************************************************************)
EXTENDS Emitter

(* Where x64_emit_function finds the parameters and the return value: above *)
(* the return address, the last parameter first.                           *)
ReturnAddressSize == 8

(* Mutant: the parameters in the opposite order.                           *)
ParameterOffsetForward(f, i) == -ReturnAddressSize - BytesOfLast(Size, i - 1, f.params)

ParameterOffset(f, i) == ParameterAt(Size, ReturnAddressSize, f, i)
ReturnOffset(f) == ReturnAt(Size, ReturnAddressSize, f)

-----------------------------------------------------------------------------
(* The emitted code.                                                       *)

(* The 8-bit immediate of add and sub is sign-extended by the processor    *)
(* (x64.c:68 and 91 use it for every value up to 0xFF).                    *)
Immediate(n) == IF n >= 128 /\ n <= 255 THEN n - 256 ELSE n

(* How far RSP really moves when add or sub is emitted for n bytes.        *)
Moves(n) == IF n < 0 THEN -Immediate(-n) ELSE Immediate(n)

(* What commit_stack emits to go from stack s to stack c: add or sub on    *)
(* RSP.  An adjustment by 0 stands for no instruction.                     *)
Adjustment(s, c) == Instruction("rsp", s, Moves(c.committed - s.committed))

(* An access to size of the bytes of the value at offset slot, of which of *)
(* are the value's; rsp is the committed stack at that point.              *)
Load(slot, size, of, s) ==
  [mode |-> "load", slot |-> slot, size |-> size, of |-> of, rsp |-> s.committed, assigns |-> 0]
Store(slot, size, of, s) ==
  [mode |-> "store", slot |-> slot, size |-> size, of |-> of, rsp |-> s.committed, assigns |-> 0]
Assign(local, s) ==
  [mode |-> "store", slot |-> local.offset, size |-> Size[local.type], of |-> Size[local.type],
   rsp |-> s.committed, assigns |-> local.offset]

-----------------------------------------------------------------------------
(* Expressions.                                                            *)

(* Mutant: the push is not committed.                                      *)
EmitLiteralUncommitted ==
  /\ Entering({"expression"})
  /\ Top.type \in Scalars \cup {String}
  /\ LET c == PushStack(stack, Size[Top.type])
     IN  /\ stack' = c
         /\ result' = c.allocated
         /\ text' = Append(text, Adjustment(stack, c))
         /\ accesses' = {Store(c.allocated, Size[Top.type], Size[Top.type], c)}
  /\ frames' = Returning
  /\ UNCHANGED <<signature, locals, nodes>>

(* A boolean or integer literal, or a string literal's count and pointer:  *)
(* push, commit, store.  The compiler stops at integers of more than 32    *)
(* bits (x64.c:763, 774: not implemented); these are the others, so that   *)
(* the texts are those of the emissions that come to an end.               *)
EmitLiteral ==
  /\ Entering({"expression"})
  /\ Top.type \in Scalars \cup {String}
  /\ LET c == CommitStack(PushStack(stack, Size[Top.type]))
     IN  /\ stack' = c
         /\ result' = c.allocated
         /\ text' = Append(text, Adjustment(stack, c))
         /\ accesses' = {Store(c.allocated, Size[Top.type], Size[Top.type], c)}
  /\ frames' = Returning
  /\ UNCHANGED <<signature, locals, nodes>>

(* A copy of a variable or parameter on top of the stack.                  *)
EmitIdentifier ==
  /\ Entering({"expression"})
  /\ \E local \in Visible :
       /\ local.type = Top.type
       /\ LET c == CommitStack(PushStack(stack, Size[Top.type]))
          IN  /\ stack' = c
              /\ result' = c.allocated
              /\ text' = Append(text, Adjustment(stack, c))
              /\ accesses' = {Load(local.offset, Size[Top.type], Size[Top.type], c),
                              Store(c.allocated, Size[Top.type], Size[Top.type], c)}
  /\ frames' = Returning
  /\ UNCHANGED <<signature, locals, nodes>>

(* Comparisons, + and -: left, then right, ...                             *)
BeginBinary ==
  /\ Entering({"expression"})
  /\ NewNode
  /\ \E l, r \in Scalars :
       /\ Operands(l, r, Top.type)
       /\ frames' = Calling([Top EXCEPT !.kind = "binary", !.step = "left",
                                        !.left = l, !.right = r],
                            Expression(l, stack))
  /\ accesses' = {}
  /\ UNCHANGED <<signature, stack, result, locals, text>>

BinaryRight ==
  /\ At("binary", "left")
  /\ frames' = Calling([Top EXCEPT !.step = "right", !.slot = result],
                       Expression(Top.right, stack))
  /\ accesses' = {}
  /\ UNCHANGED <<signature, stack, result, locals, text, nodes>>

(* ... then both operands are loaded and popped and the result is pushed.  *)
OperandsOnTop ==
  /\ result = stack.allocated
  /\ Top.slot = stack.allocated - Size[Top.right]

EndBinary ==
  /\ At("binary", "right")
  /\ OperandsOnTop
  /\ LET popped == PopStack(PopStack(stack, Size[Top.right]), Size[Top.left])
         c == CommitStack(PushStack(popped, Size[Top.type]))
     IN  /\ stack' = c
         /\ result' = c.allocated
         /\ text' = Append(text, Adjustment(stack, c))
         /\ accesses' = {Load(result, Size[Top.right], Size[Top.right], stack),
                         Load(Top.slot, Size[Top.left], Size[Top.left], stack),
                         Store(c.allocated, Size[Top.type], Size[Top.type], c)}
  /\ frames' = Returning
  /\ UNCHANGED <<signature, locals, nodes>>

(* A call: the slot of the result is pushed but not committed, the         *)
(* arguments are emitted left to right, ...                                *)
BeginCall ==
  /\ Entering({"expression"})
  /\ NewNode
  /\ \E callee \in Signatures :
       /\ callee.returns = Top.type
       /\ callee.params # <<>>   \* the parser knows no call without arguments
       /\ LET c == PushStack(stack, Size[Top.type])
          IN  /\ stack' = c
              /\ frames' = Becoming([Top EXCEPT !.kind = "call", !.step = "arguments",
                                                !.slot = c.allocated, !.callee = callee])
  /\ accesses' = {}
  /\ UNCHANGED <<signature, result, locals, text>>

BeginArgument ==
  /\ At("call", "arguments")
  /\ Len(Top.args) < Len(Top.callee.params)
  /\ \E t \in Accepted(Top.callee.params[Len(Top.args) + 1], "widening_argument") :
       frames' = Calling([Top EXCEPT !.step = "argument", !.left = t], Expression(t, stack))
  /\ accesses' = {}
  /\ UNCHANGED <<signature, stack, result, locals, text, nodes>>

EndArgument ==
  /\ At("call", "argument")
  /\ frames' = Becoming([Top EXCEPT
                           !.step = "arguments",
                           !.args = Append(@, [offset |-> result, size |-> Size[Top.left]]),
                           !.argsize = @ + Size[Top.left]])  \* arguments_stack_size
  /\ accesses' = {}
  /\ UNCHANGED <<signature, stack, result, locals, text, nodes>>

(* ... the call instruction (or a syscall) follows, and the caller pops    *)
(* the arguments but keeps the result.                                     *)
EndCall ==
  /\ At("call", "arguments")
  /\ Len(Top.args) = Len(Top.callee.params)
  /\ LET c == CommitStack(PopStack(stack, Top.argsize))
     IN  /\ stack' = c
         /\ text' = text \o <<Instruction("call", stack, 0), Adjustment(stack, c)>>
  /\ result' = Top.slot
  /\ frames' = Returning
  /\ accesses' = {}
  /\ UNCHANGED <<signature, locals, nodes>>

(* =, += and -=: the value of the right side is copied into the variable   *)
(* and stays on the stack as the value of the expression.                  *)
BeginAssign ==
  /\ Entering({"expression"})
  /\ NewNode
  /\ \E local \in Targets(Top.type), t \in Accepted(Top.type, "widening_assignment") :
       /\ local.offset > 0   \* assert(decl->stack_offset > 0)
       /\ frames' = Calling([Top EXCEPT !.kind = "assign", !.step = "value",
                                        !.slot = local.offset, !.left = t],
                            Expression(t, stack))
  /\ accesses' = {}
  /\ UNCHANGED <<signature, stack, result, locals, text>>

EndAssign ==
  /\ At("assign", "value")
  /\ ResultOnTop
  /\ LET variable == [offset |-> Top.slot, type |-> Top.type]
     IN  \/ accesses' = {Load(result, Size[Top.type], Size[Top.left], stack),
                         Assign(variable, stack)}
         \/ accesses' = {Load(result, Size[Top.left], Size[Top.left], stack),
                         Load(Top.slot, Size[Top.type], Size[Top.type], stack),
                         Assign(variable, stack),
                         Store(result, Size[Top.type], Size[Top.left], stack)}
  /\ frames' = Returning
  /\ UNCHANGED <<signature, stack, result, locals, text, nodes>>

(* .count and .data of a string: the result's slot first, then the string. *)
BeginMember ==
  /\ Entering({"expression"})
  /\ Top.type \in Members
  /\ NewNode
  /\ LET c == CommitStack(PushStack(stack, Size[Top.type]))
     IN  /\ stack' = c
         /\ text' = Append(text, Adjustment(stack, c))
         /\ frames' = Calling([Top EXCEPT !.kind = "member", !.step = "string",
                                          !.slot = c.allocated],
                              Expression(String, c))
  /\ accesses' = {}
  /\ UNCHANGED <<signature, result, locals>>

EndMember ==
  /\ At("member", "string")
  /\ LET c == CommitStack(PopStack(stack, Size[String]))
     IN  /\ stack' = c
         /\ text' = Append(text, Adjustment(stack, c))
         /\ accesses' = {Load(result, Size[Top.type], Size[String], stack),
                         Store(Top.slot, Size[Top.type], Size[Top.type], stack)}
  /\ result' = Top.slot
  /\ frames' = Returning
  /\ UNCHANGED <<signature, locals, nodes>>

(* An explicit cast between integers; widening is not implemented and      *)
(* aborts the compiler by design (x64.c:721).                              *)
BeginCast ==
  /\ Entering({"expression"})
  /\ Top.type \in IntegerTypes
  /\ NewNode
  /\ \E from \in IntegerTypes :
       /\ Size[from] >= Size[Top.type]
       /\ frames' = Calling([Top EXCEPT !.kind = "cast", !.step = "value", !.left = from],
                            Expression(from, stack))
  /\ accesses' = {}
  /\ UNCHANGED <<signature, stack, result, locals, text>>

EndCast ==
  /\ At("cast", "value")
  /\ IF Size[Top.left] > Size[Top.type]
       THEN LET c == CommitStack(PushStack(PopStack(stack, Size[Top.left]), Size[Top.type]))
            IN  /\ stack' = c
                /\ text' = Append(text, Adjustment(stack, c))
                /\ accesses' = {Load(stack.allocated, Size[Top.left], Size[Top.left], stack),
                                Store(c.allocated, Size[Top.type], Size[Top.type], c)}
       ELSE accesses' = {} /\ UNCHANGED <<stack, text>>
  /\ result' = stack'.allocated
  /\ frames' = Returning
  /\ UNCHANGED <<signature, locals, nodes>>

-----------------------------------------------------------------------------
(* Statements.                                                             *)

(* A declaration allocates its slot, then copies the initializer into it.  *)
(* The declared name is visible to the statements that follow.             *)
DeclareOnly ==
  /\ Entering({"statement", "loop_declaration", "loop_body"})
  /\ Declaring(Top.routine)
  /\ Top.routine = "loop_declaration" => "loop_without_initializer" \in Features
  /\ CanAllocateStack(stack)
  /\ \E t \in ValueTypes :
       LET c == AllocateStack(stack, Size[t])
       IN  stack' = c /\ locals' = Declared(t, c)
  /\ frames' = Returning
  /\ accesses' = {}
  /\ UNCHANGED <<signature, result, text, nodes>>

BeginDeclaration ==
  /\ Entering({"statement", "loop_declaration", "loop_body"})
  /\ Declaring(Top.routine)
  /\ CanAllocateStack(stack)
  /\ \E t \in ValueTypes : \E initializer \in Initializers(t) :
       LET c == AllocateStack(stack, Size[t])
       IN  /\ stack' = c
           /\ frames' = Calling([Top EXCEPT !.kind = "declaration", !.step = "initializer",
                                            !.type = t, !.left = initializer,
                                            !.slot = c.allocated],
                                Expression(initializer, c))
  /\ accesses' = {}
  /\ UNCHANGED <<signature, result, locals, text, nodes>>

EndDeclaration ==
  /\ At("declaration", "initializer")
  /\ ResultOnTop
  /\ LET c == CommitStack(PopStack(stack, Size[Top.left]))
         variable == [type |-> Top.type, offset |-> Top.slot]
     IN  /\ stack' = c
         /\ text' = Append(text, Adjustment(stack, c))
         /\ accesses' = {Load(result, Size[Top.type], Size[Top.left], stack),
                         Assign(variable, stack)}
         /\ locals' = Append(locals, variable)
  /\ frames' = Returning
  /\ UNCHANGED <<signature, result, nodes>>

(* Mutant: the value stays on the stack.                                   *)
EndDiscardKept ==
  /\ At("discard", "value")
  /\ frames' = Returning
  /\ accesses' = {}
  /\ UNCHANGED <<signature, stack, result, locals, text, nodes>>

(* An expression as a statement: its value is dropped.                     *)
BeginDiscard ==
  /\ Entering({"statement", "loop_body"})
  /\ \E t \in Types : frames' = Calling([Top EXCEPT !.kind = "discard", !.step = "value",
                                                    !.left = t],
                                        Expression(t, stack))
  /\ accesses' = {}
  /\ UNCHANGED <<signature, stack, result, locals, text, nodes>>

EndDiscard ==
  /\ At("discard", "value")
  /\ LET c == CommitStack(PopStack(stack, Size[Top.left]))
     IN  /\ stack' = c
         /\ text' = Append(text, Adjustment(stack, c))
  /\ frames' = Returning
  /\ accesses' = {}
  /\ UNCHANGED <<signature, result, locals, nodes>>

(* if: the condition is loaded and popped before the conditional jump, the *)
(* body runs in a scope of its own.  The parser knows no else.             *)
BeginIf ==
  /\ Entering({"statement", "loop_body"})
  /\ NewNode
  /\ frames' = Calling([Top EXCEPT !.kind = "if", !.step = "condition"],
                       Expression(Bool, stack))
  /\ accesses' = {}
  /\ UNCHANGED <<signature, stack, result, locals, text>>

(* Mutant: the jump goes to before the release of the scope.               *)
EndIfBeforeRelease ==
  /\ At("if", "then")
  /\ CanPopScope(stack)
  /\ LET c == CommitStack(PopScope(stack))
     IN  /\ stack' = c
         /\ text' = Append([text EXCEPT ![Top.patch].to = Label], Adjustment(stack, c))
  /\ locals' = SubSeq(locals, 1, Top.visible)
  /\ frames' = Returning
  /\ accesses' = {}
  /\ UNCHANGED <<signature, result, nodes>>

IfThen ==
  /\ At("if", "condition")
  /\ ResultOnTop
  /\ LET c == CommitStack(PopStack(stack, Size[Bool]))
     IN  /\ CanPushScope(c)
         /\ stack' = PushScope(c)
         /\ text' = text \o <<Adjustment(stack, c), Instruction("je", c, 0)>>
         /\ frames' = Calling([Top EXCEPT !.step = "then", !.patch = Label + 1],
                              Statement(PushScope(c), Len(locals)))
  /\ accesses' = {Load(result, Size[Bool], Size[Bool], stack)}
  /\ UNCHANGED <<signature, result, locals, nodes>>

EndIf ==
  /\ At("if", "then")
  /\ CanPopScope(stack)
  /\ LET c == CommitStack(PopScope(stack))
     IN  /\ stack' = c
         /\ text' = Append([text EXCEPT ![Top.patch].to = Label + 1], Adjustment(stack, c))
  /\ locals' = SubSeq(locals, 1, Top.visible)
  /\ frames' = Returning
  /\ accesses' = {}
  /\ UNCHANGED <<signature, result, nodes>>

(* Mutant: the loop has no scope of its own.                               *)
BeginForUnscoped ==
  /\ Entering({"statement", "loop_body"})
  /\ NewNode
  /\ frames' = Calling([Top EXCEPT !.kind = "for", !.step = "declaration"],
                       LoopDeclaration(stack))
  /\ accesses' = {}
  /\ UNCHANGED <<signature, stack, result, locals, text>>

(* for: the declaration in a scope around the loop, then the condition at  *)
(* the label start, the body, the step expression, the jump back.          *)
BeginFor ==
  /\ Entering({"statement", "loop_body"})
  /\ NewNode
  /\ CanPushScope(stack)
  /\ stack' = PushScope(stack)
  /\ frames' = Calling([Top EXCEPT !.kind = "for", !.step = "declaration"],
                       LoopDeclaration(PushScope(stack)))
  /\ accesses' = {}
  /\ UNCHANGED <<signature, result, locals, text>>

ForCondition ==
  /\ At("for", "declaration")
  /\ frames' = Calling([Top EXCEPT !.step = "condition", !.start = Label],
                       Expression(Bool, stack))
  /\ accesses' = {}
  /\ UNCHANGED <<signature, stack, result, locals, text, nodes>>

ForBody ==
  /\ At("for", "condition")
  /\ ResultOnTop
  /\ LET c == CommitStack(PopStack(stack, Size[Bool]))
     IN  /\ stack' = c
         /\ text' = text \o <<Adjustment(stack, c), Instruction("je", c, 0)>>
         /\ frames' = Calling([Top EXCEPT !.step = "body", !.patch = Label + 1],
                              LoopBody(c, Len(locals)))
  /\ accesses' = {Load(result, Size[Bool], Size[Bool], stack)}
  /\ UNCHANGED <<signature, result, locals, nodes>>

(* A name declared by the body itself is not visible to the step.          *)
ForStep ==
  /\ At("for", "body")
  /\ locals' = SubSeq(locals, 1, Top.visible + 1)
  /\ \E t \in Types :
       frames' = Calling([Top EXCEPT !.step = "step", !.left = t],
                         Activation("expression", t, stack, Top.visible + 1))
  /\ accesses' = {}
  /\ UNCHANGED <<signature, stack, result, text, nodes>>

EndFor ==
  /\ At("for", "step")
  /\ LET stepped == CommitStack(PopStack(stack, Size[Top.left]))
         c == CommitStack(PopScope(stepped))
         jump == [Instruction("jmp", stepped, 0) EXCEPT !.to = Top.start]
     IN  /\ CanPopScope(stepped)
         /\ stack' = c
         /\ text' = [text EXCEPT ![Top.patch].to = Label + 2]
                       \o <<Adjustment(stack, stepped), jump, Adjustment(stepped, c)>>
  /\ locals' = SubSeq(locals, 1, Top.visible)
  /\ frames' = Returning
  /\ accesses' = {}
  /\ UNCHANGED <<signature, result, nodes>>

(* return: the value goes to the slot the caller left below the arguments, *)
(* the whole frame is released.                                            *)
BeginReturn ==
  /\ Entering({"statement", "loop_body"})
  /\ \E t \in ReturnTypes :
       frames' = Calling([Top EXCEPT !.kind = "return", !.step = "value", !.left = t],
                         Expression(t, stack))
  /\ accesses' = {}
  /\ UNCHANGED <<signature, stack, result, locals, text, nodes>>

EndReturn ==
  /\ At("return", "value")
  /\ ResultOnTop
  /\ LET c == CommitStack(PopStack(stack, Size[Top.left]))
     IN  /\ c.allocated = Innermost(c)
         /\ stack' = c
         /\ text' = text \o <<Adjustment(stack, c), Adjustment(c, FreshStack),
                              Instruction("ret", FreshStack, 0)>>
  /\ accesses' = {Load(result, Size[signature.returns], Size[Top.left], stack),
                  Store(ReturnOffset(signature), Size[signature.returns],
                        Size[signature.returns], stack)}
  /\ frames' = Returning
  /\ UNCHANGED <<signature, result, locals, nodes>>

(* A block, and the statements of a block or of the function's body.       *)
BeginBlock ==
  /\ Entering({"statement", "loop_body"})
  /\ CanPushScope(stack)
  /\ stack' = PushScope(stack)
  /\ frames' = Becoming([Top EXCEPT !.kind = "block", !.step = "statements"])
  /\ accesses' = {}
  /\ UNCHANGED <<signature, result, locals, text, nodes>>

(* Mutant: the names of the block stay visible.                            *)
EndBlockNamesKept ==
  /\ At("block", "statements")
  /\ CanPopScope(stack)
  /\ LET c == CommitStack(PopScope(stack))
     IN  /\ stack' = c
         /\ text' = Append(text, Adjustment(stack, c))
  /\ frames' = Returning
  /\ accesses' = {}
  /\ UNCHANGED <<signature, result, locals, nodes>>

NextStatement ==
  /\ At("block", "statements") \/ At("function", "statements")
  /\ NewNode
  /\ frames' = Calling(Top, Statement(stack, Len(locals)))
  /\ accesses' = {}
  /\ UNCHANGED <<signature, stack, result, locals, text>>

EndBlock ==
  /\ At("block", "statements")
  /\ CanPopScope(stack)
  /\ LET c == CommitStack(PopScope(stack))
     IN  /\ stack' = c
         /\ text' = Append(text, Adjustment(stack, c))
  /\ locals' = SubSeq(locals, 1, Top.visible)
  /\ frames' = Returning
  /\ accesses' = {}
  /\ UNCHANGED <<signature, result, nodes>>

(* The end of the function: without a written return type the frame is     *)
(* released and ret emitted, with one nothing is (see EndsWithoutRet).     *)
EndFunction ==
  /\ At("function", "statements")
  /\ CanPopScope(stack)
  /\ \/ /\ signature.returns = Void
        /\ LET c == CommitStack(PopScope(stack))
           IN  /\ stack' = c
               /\ text' = text \o <<Adjustment(stack, c), Instruction("ret", c, 0)>>
     \/ /\ EndsWithoutRet
        /\ stack' = PopScope(stack)
        /\ UNCHANGED text
  /\ frames' = Returning
  /\ locals' = <<>>
  /\ accesses' = {}
  /\ UNCHANGED <<signature, result, nodes>>

-----------------------------------------------------------------------------
(* x64_emit_function up to its first statement.                            *)
Init ==
  /\ signature \in Signatures
  /\ stack = PushScope(FreshStack)
  /\ locals = [i \in 1 .. Len(signature.params) |->
                 [type |-> signature.params[i], offset |-> ParameterOffset(signature, i)]]
  /\ frames = <<[Activation("function", Void, FreshStack, Len(locals))
                   EXCEPT !.kind = "function", !.step = "statements"]>>
  /\ result = 0
  /\ text = <<>>
  /\ accesses = {}
  /\ nodes = 0

EmitExpression ==
  \/ EmitLiteral \/ EmitIdentifier
  \/ BeginBinary \/ BinaryRight \/ EndBinary
  \/ BeginCall \/ BeginArgument \/ EndArgument \/ EndCall
  \/ BeginAssign \/ EndAssign
  \/ BeginMember \/ EndMember
  \/ BeginCast \/ EndCast

EmitStatement ==
  \/ DeclareOnly \/ BeginDeclaration \/ EndDeclaration
  \/ BeginDiscard \/ EndDiscard
  \/ BeginIf \/ IfThen \/ EndIf
  \/ BeginFor \/ ForCondition \/ ForBody \/ ForStep \/ EndFor
  \/ BeginReturn \/ EndReturn
  \/ BeginBlock \/ NextStatement \/ EndBlock
  \/ EndFunction

Next == EmitExpression \/ EmitStatement

Spec == Init /\ [][Next]_vars

-----------------------------------------------------------------------------
(* Properties.                                                             *)

(* None of the assertions that check the stack accounting fails: wherever  *)
(* a handler is about to run, what it asserts first holds (main.c:523-524, *)
(* 533, x64.c:859-860, 951-952, 1105, 1113, 1122, 1225, 1244, 1316, 1362,  *)
(* 1370).                                                                  *)
AssertionsHold ==
  /\ At("binary", "right") => OperandsOnTop
  /\ \A k \in {<<"assign", "value">>, <<"declaration", "initializer">>, <<"if", "condition">>,
               <<"for", "condition">>, <<"return", "value">>} :
       At(k[1], k[2]) => ResultOnTop
  /\ At("return", "value") => stack.allocated - Size[Top.left] = Innermost(stack)
  /\ At("if", "then") \/ At("block", "statements") \/ At("function", "statements")
       => CanPopScope(stack)
  /\ At("for", "step") => CanPopScope(PopStack(stack, Size[Top.left]))
  /\ Entering({"statement", "loop_declaration", "loop_body"}) => CanAllocateStack(stack)
  /\ Entering({"expression"}) => \A local \in Targets(Top.type) : local.offset > 0

(* The array of scopes is large enough wherever one is pushed (main.c:515). *)
ScopesFit ==
  Entering({"statement", "loop_body"}) \/ At("if", "condition") => CanPushScope(stack)

(* No load or store is emitted for memory below the stack pointer, and     *)
(* none reaches past the value it is meant for.                            *)
AccessesInBounds ==
  \A a \in accesses : a.slot <= a.rsp /\ a.size <= a.of

(* A store never overlaps a variable that is visible, except the store     *)
(* that assigns that very variable: temporaries, results and other         *)
(* variables are kept apart for as long as the name can still be used.     *)
StoresSpareVariables ==
  \A a \in accesses, local \in Visible :
    \/ a.mode = "load" \/ a.assigns = local.offset
    \/ a.slot <= local.offset - Size[local.type]
    \/ local.offset <= a.slot - a.size

(* Caller and callee agree on the frame of a call: when the call is        *)
(* emitted, the offsets at which x64_emit_function places the callee's     *)
(* parameters and return value designate the slots the caller pushed.      *)
CallFramesAgree ==
  At("call", "arguments") /\ Len(Top.args) = Len(Top.callee.params) =>
    LET entry == stack.committed + ReturnAddressSize
    IN  /\ Top.slot = entry + ReturnOffset(Top.callee)
        /\ \A i \in 1 .. Len(Top.args) :
             /\ Top.args[i].offset = entry + ParameterOffset(Top.callee, i)
             /\ Top.args[i].size = Size[Top.callee.params[i]]

=============================================================================
