------------------------------ MODULE Arm64Emit ------------------------------
(***************************************************************************)
(* The emission of one function by the arm64 backend: arm64_emit_function, *)
(* arm64_emit_statement and arm64_emit_expression (arm64.c:518-1328), with *)
(* the activations, nodes and text of module Emitter.                      *)
(*                                                                         *)
(* Every value has a slot of a multiple of 16 bytes, whatever its size,    *)
(* which is why this backend survives the implicit widenings that upset    *)
(* the other.  It asserts nothing about the slots of the values that the   *)
(* emitter has just pushed, but that their offsets fit the instructions.   *)
(***************************************************************************)
EXTENDS Emitter

(* Mutant: slots are not aligned.                                          *)
PackedStackSize(t) == 8 * ((Size[t] + 7) \div 8)

(* Align(size, 16).                                                        *)
StackSize(t) == 16 * ((Size[t] + 15) \div 16)

(* Mutant: as on x86-64.                                                   *)
ReturnAddressSizeOfX64 == 8

(* The link register is saved above the frame, in 16 bytes at offset 0;    *)
(* the parameters and the slot of the return value are above it, the last  *)
(* parameter first.                                                        *)
ReturnAddressSize == 16

Slots == [t \in Types |-> StackSize(t)]

ParameterOffset(f, i) == ParameterAt(Slots, ReturnAddressSize, f, i)
ReturnOffset(f) == ReturnAt(Slots, ReturnAddressSize, f)

-----------------------------------------------------------------------------
(* The emitted code.                                                       *)

(* arm64_commit_stack: add or sub on SP.                                   *)
Adjustment(s, c) == Instruction("sp", s, c.committed - s.committed)

(* An access to size bytes, skip bytes into the value in the slot at       *)
(* offset slot; sp is the committed stack at that point.                   *)
Access(mode, slot, skip, size, s) ==
  [mode |-> mode, slot |-> slot, skip |-> skip, size |-> size, sp |-> s.committed,
   assigns |-> 0]
Load(slot, size, s) == Access("load", slot, 0, size, s)
Store(slot, size, s) == Access("store", slot, 0, size, s)
Assign(local, s) ==
  [Store(local.offset, Size[local.type], s) EXCEPT !.assigns = local.offset]

(* How far above SP the access is.                                         *)
Distance(a) == a.sp - a.slot + a.skip

(* The distances that the processor decodes from the immediates: 12 bits   *)
(* that count in units of the access, for LDP and STP a signed number of   *)
(* 7 bits that counts in units of 8.                                       *)
DecodedPair(distance) ==
  LET imm7 == (distance \div 8) % 128
  IN  8 * (IF imm7 < 64 THEN imm7 ELSE imm7 - 128)

(* Mutant: the distance is not shifted.                                    *)
DecodedUnshifted(size, distance) ==
  IF size = 16 THEN DecodedPair(distance) ELSE size * (distance % 4096)

Decoded(size, distance) ==
  IF size = 16 THEN DecodedPair(distance) ELSE size * ((distance \div size) % 4096)

(* What the helpers that copy to and from the stack assert.                *)
Encodable(a) ==
  /\ a.size \in {1, 2, 4, 8, 16}
  /\ Distance(a) % 8 = 0 /\ 0 <= Distance(a) /\ Distance(a) <= 32767
  /\ a.size = 16 => Distance(a) <= 1023

-----------------------------------------------------------------------------
(* What the handlers do.                                                   *)

(* They call an emitter, or go on without emitting anything.               *)
Proceed(to) ==
  /\ frames' = to /\ accesses' = {}
  /\ UNCHANGED <<signature, stack, result, locals, text>>

(* They leave stack c and text code behind and return.                     *)
Leave(c, code, moved) ==
  /\ stack' = c /\ text' = text \o code /\ accesses' = moved
  /\ frames' = Returning
  /\ UNCHANGED <<signature, nodes>>

(* The same with a value on top of stack c.                                *)
LeaveValue(c, moved) ==
  Leave(c, <<Adjustment(stack, c)>>, moved) /\ result' = c.allocated /\ UNCHANGED locals

(* The stack with a value of type t more, or less.                         *)
With(s, t) == CommitStack(PushStack(s, StackSize(t)))
Without(s, t) == CommitStack(PopStack(s, StackSize(t)))

-----------------------------------------------------------------------------
(* Expressions.                                                            *)

EmitLiteral ==
  /\ Entering({"expression"})
  /\ Top.type \in Scalars \cup {String}
  /\ LET c == With(stack, Top.type)
     IN  LeaveValue(c, {Store(c.allocated, Size[Top.type], c)})

EmitIdentifier ==
  /\ Entering({"expression"})
  /\ \E local \in Visible :
       /\ local.type = Top.type
       /\ LET c == With(stack, Top.type)
          IN  LeaveValue(c, {Load(local.offset, Size[Top.type], c),
                             Store(c.allocated, Size[Top.type], c)})

(* Comparisons, + and -: both operands are pushed, loaded and popped, then *)
(* the result is pushed.                                                   *)
BeginBinary ==
  /\ Entering({"expression"}) /\ NewNode
  /\ \E l, r \in Scalars :
       /\ Operands(l, r, Top.type)
       /\ Proceed(Calling([Top EXCEPT !.kind = "binary", !.step = "left",
                                      !.left = l, !.right = r],
                          Expression(l, stack)))

BinaryRight ==
  /\ At("binary", "left")
  /\ Proceed(Calling([Top EXCEPT !.step = "right", !.slot = result],
                     Expression(Top.right, stack)))
  /\ UNCHANGED nodes

EndBinary ==
  /\ At("binary", "right")
  /\ LET popped == PopStack(PopStack(stack, StackSize(Top.right)), StackSize(Top.left))
         c == With(popped, Top.type)
     IN  LeaveValue(c, {Load(result, Size[Top.right], stack),
                        Load(Top.slot, Size[Top.left], stack),
                        Store(c.allocated, Size[Top.type], c)})

(* A call: the slot of the result is pushed but not committed, then the    *)
(* arguments; after the call the caller pops the arguments.  exit and      *)
(* write are system calls, which take their arguments in registers.        *)
BeginCall ==
  /\ Entering({"expression"}) /\ NewNode
  /\ \E callee \in Signatures :
       /\ callee.returns = Top.type
       /\ callee.params # <<>>   \* the parser knows no call without arguments
       /\ stack' = PushStack(stack, StackSize(Top.type))
       /\ frames' = Becoming([Top EXCEPT !.kind = "call", !.step = "arguments",
                                         !.slot = stack'.allocated, !.callee = callee])
  /\ accesses' = {}
  /\ UNCHANGED <<signature, result, locals, text>>

BeginArgument ==
  /\ At("call", "arguments")
  /\ Len(Top.args) < Len(Top.callee.params)
  /\ \E t \in Accepted(Top.callee.params[Len(Top.args) + 1], "widening_argument") :
       Proceed(Calling([Top EXCEPT !.step = "argument", !.left = t], Expression(t, stack)))
  /\ UNCHANGED nodes

EndArgument ==
  /\ At("call", "argument")
  /\ Proceed(Becoming([Top EXCEPT
                         !.step = "arguments",
                         !.args = Append(@, [offset |-> result, size |-> StackSize(Top.left)]),
                         !.argsize = @ + StackSize(Top.left)]))
  /\ UNCHANGED nodes

EndCall ==
  /\ At("call", "arguments")
  /\ Len(Top.args) = Len(Top.callee.params)
  /\ LET c == CommitStack(PopStack(stack, Top.argsize))
     IN  \E moved \in {{}, {Load(Top.args[i].offset, 8, stack) : i \in 1 .. Len(Top.args)}} :
           Leave(c, <<Instruction("call", stack, 0), Adjustment(stack, c)>>, moved)
  /\ result' = Top.slot
  /\ UNCHANGED locals

(* =, += and -=: the variable is stored, the right side stays on the stack *)
(* as the value of the expression.                                         *)
BeginAssign ==
  /\ Entering({"expression"}) /\ NewNode
  /\ \E local \in Targets(Top.type), t \in Accepted(Top.type, "widening_assignment") :
       /\ local.offset > 0   \* assert(decl->stack_offset > 0)
       /\ Proceed(Calling([Top EXCEPT !.kind = "assign", !.step = "value",
                                      !.slot = local.offset, !.left = t],
                          Expression(t, stack)))

EndAssign ==
  /\ At("assign", "value")
  /\ LET variable == Assign([offset |-> Top.slot, type |-> Top.type], stack)
     IN  \/ accesses' = {Load(result, Size[Top.type], stack), variable}
         \/ /\ Top.type \in Scalars
            /\ accesses' = {Load(result, Size[Top.left], stack),
                            Load(Top.slot, Size[Top.type], stack),
                            variable, Store(result, Size[Top.type], stack)}
  /\ frames' = Returning
  /\ UNCHANGED <<signature, stack, result, locals, text, nodes>>

(* .count and .data: the result's slot first, then the string, of which    *)
(* one half is copied.                                                     *)
BeginMember ==
  /\ Entering({"expression"}) /\ NewNode
  /\ Top.type \in Members
  /\ LET c == With(stack, Top.type)
     IN  /\ stack' = c
         /\ text' = Append(text, Adjustment(stack, c))
         /\ frames' = Calling([Top EXCEPT !.kind = "member", !.step = "string",
                                          !.slot = c.allocated],
                              Expression(String, c))
  /\ accesses' = {}
  /\ UNCHANGED <<signature, result, locals>>

EndMember ==
  /\ At("member", "string")
  /\ \E skip \in {0, 8} :
       LET c == Without(stack, String)
       IN  Leave(c, <<Adjustment(stack, c)>>,
                 {Access("load", result, skip, Size[Top.type], stack),
                  Store(Top.slot, Size[Top.type], stack)})
  /\ result' = Top.slot
  /\ UNCHANGED locals

(* A cast to an integer type that is not larger: the slot stays if its     *)
(* size does.  Widening is not implemented (arm64.c:570).                  *)
BeginCast ==
  /\ Entering({"expression"}) /\ NewNode
  /\ Top.type \in IntegerTypes
  /\ \E from \in IntegerTypes :
       /\ Size[from] >= Size[Top.type]
       /\ Proceed(Calling([Top EXCEPT !.kind = "cast", !.step = "value", !.left = from],
                          Expression(from, stack)))

EndCast ==
  /\ At("cast", "value")
  /\ LET popped == PopStack(stack, StackSize(Top.left))
         c == With(popped, Top.type)
     IN  IF StackSize(Top.left) # StackSize(Top.type)
         THEN LeaveValue(c, {Load(stack.allocated, Size[Top.left], stack),
                             Store(c.allocated, Size[Top.type], c)})
         ELSE Leave(stack, <<>>, {}) /\ result' = stack.allocated /\ UNCHANGED locals

-----------------------------------------------------------------------------
(* Statements.                                                             *)

DeclareOnly ==
  /\ Entering({"statement", "loop_declaration", "loop_body"})
  /\ Declaring(Top.routine)
  /\ Top.routine = "loop_declaration" => "loop_without_initializer" \in Features
  /\ CanAllocateStack(stack)
  /\ \E t \in ValueTypes :
       LET c == AllocateStack(stack, StackSize(t))
       IN  Leave(c, <<>>, {}) /\ locals' = Declared(t, c)
  /\ UNCHANGED result

BeginDeclaration ==
  /\ Entering({"statement", "loop_declaration", "loop_body"})
  /\ Declaring(Top.routine)
  /\ CanAllocateStack(stack)
  /\ \E t \in ValueTypes : \E initializer \in Initializers(t) :
       /\ stack' = AllocateStack(stack, StackSize(t))
       /\ frames' = Calling([Top EXCEPT !.kind = "declaration", !.step = "initializer",
                                        !.type = t, !.left = initializer,
                                        !.slot = stack'.allocated],
                            Expression(initializer, stack'))
  /\ accesses' = {}
  /\ UNCHANGED <<signature, result, locals, text, nodes>>

EndDeclaration ==
  /\ At("declaration", "initializer")
  /\ LET c == Without(stack, Top.left)
         variable == [type |-> Top.type, offset |-> Top.slot]
     IN  /\ Leave(c, <<Adjustment(stack, c)>>,
                  {Load(result, Size[Top.type], stack), Assign(variable, stack)})
         /\ locals' = Append(locals, variable)
  /\ UNCHANGED result

(* Mutant: the value stays on the stack.                                   *)
EndDiscardKept ==
  /\ At("discard", "value")
  /\ Leave(stack, <<>>, {})
  /\ UNCHANGED <<result, locals>>

BeginDiscard ==
  /\ Entering({"statement", "loop_body"})
  /\ \E t \in Types :
       Proceed(Calling([Top EXCEPT !.kind = "discard", !.step = "value", !.left = t],
                       Expression(t, stack)))
  /\ UNCHANGED nodes

EndDiscard ==
  /\ At("discard", "value")
  /\ LET c == Without(stack, Top.left) IN Leave(c, <<Adjustment(stack, c)>>, {})
  /\ UNCHANGED <<result, locals>>

(* if: the condition is popped before the jump, the body has a scope.  The *)
(* parser knows no else.                                                   *)
BeginIf ==
  /\ Entering({"statement", "loop_body"}) /\ NewNode
  /\ Proceed(Calling([Top EXCEPT !.kind = "if", !.step = "condition"],
                     Expression(Bool, stack)))

IfThen ==
  /\ At("if", "condition")
  /\ LET c == Without(stack, Bool)
     IN  /\ CanPushScope(c)
         /\ stack' = PushScope(c)
         /\ text' = text \o <<Adjustment(stack, c), Instruction("je", c, 0)>>
         /\ frames' = Calling([Top EXCEPT !.step = "then", !.patch = Label + 1],
                              Statement(PushScope(c), Len(locals)))
  /\ accesses' = {Load(result, Size[Bool], stack)}
  /\ UNCHANGED <<signature, result, locals, nodes>>

(* The frame on leaving a scope: the names declared in it are gone.        *)
LeaveScope(c, code) ==
  /\ Leave(c, code, {})
  /\ locals' = SubSeq(locals, 1, Top.visible)
  /\ UNCHANGED result

(* Mutant: the jump goes to before the release of the scope.               *)
EndIfBeforeRelease ==
  /\ At("if", "then")
  /\ CanPopScope(stack)
  /\ LET c == CommitStack(PopScope(stack))
     IN  /\ stack' = c /\ accesses' = {} /\ frames' = Returning
         /\ text' = Append([text EXCEPT ![Top.patch].to = Label], Adjustment(stack, c))
  /\ locals' = SubSeq(locals, 1, Top.visible)
  /\ UNCHANGED <<signature, result, nodes>>

EndIf ==
  /\ At("if", "then")
  /\ CanPopScope(stack)
  /\ LET c == CommitStack(PopScope(stack))
     IN  /\ stack' = c /\ accesses' = {} /\ frames' = Returning
         /\ text' = Append([text EXCEPT ![Top.patch].to = Label + 1], Adjustment(stack, c))
  /\ locals' = SubSeq(locals, 1, Top.visible)
  /\ UNCHANGED <<signature, result, nodes>>

(* for: the declaration in a scope around the loop, then the condition at  *)
(* the label start, the body, the step expression, the jump back.          *)
BeginFor ==
  /\ Entering({"statement", "loop_body"}) /\ NewNode
  /\ CanPushScope(stack)
  /\ stack' = PushScope(stack)
  /\ frames' = Calling([Top EXCEPT !.kind = "for", !.step = "declaration"],
                       LoopDeclaration(stack'))
  /\ accesses' = {}
  /\ UNCHANGED <<signature, result, locals, text>>

ForCondition ==
  /\ At("for", "declaration")
  /\ Proceed(Calling([Top EXCEPT !.step = "condition", !.start = Label],
                     Expression(Bool, stack)))
  /\ UNCHANGED nodes

ForBody ==
  /\ At("for", "condition")
  /\ LET c == Without(stack, Bool)
     IN  /\ stack' = c
         /\ text' = text \o <<Adjustment(stack, c), Instruction("je", c, 0)>>
         /\ frames' = Calling([Top EXCEPT !.step = "body", !.patch = Label + 1],
                              LoopBody(c, Len(locals)))
  /\ accesses' = {Load(result, Size[Bool], stack)}
  /\ UNCHANGED <<signature, result, locals, nodes>>

(* A name declared by the body itself is not visible to the step.          *)
ForStep ==
  /\ At("for", "body")
  /\ locals' = SubSeq(locals, 1, Top.visible + 1)
  /\ \E t \in Types :
       frames' = Calling([Top EXCEPT !.step = "step", !.left = t],
                         Activation("expression", t, stack, Top.visible + 1))
  /\ accesses' = {}
  /\ UNCHANGED <<signature, stack, result, text, nodes>>

EndFor ==
  /\ At("for", "step")
  /\ LET stepped == Without(stack, Top.left)
         c == CommitStack(PopScope(stepped))
         jump == [Instruction("jmp", stepped, 0) EXCEPT !.to = Top.start]
     IN  /\ CanPopScope(stepped)
         /\ stack' = c /\ accesses' = {} /\ frames' = Returning
         /\ text' = [text EXCEPT ![Top.patch].to = Label + 2]
                       \o <<Adjustment(stack, stepped), jump, Adjustment(stepped, c)>>
  /\ locals' = SubSeq(locals, 1, Top.visible)
  /\ UNCHANGED <<signature, result, nodes>>

(* return: the value goes to the slot below the parameters, the frame is   *)
(* released and the link register restored.                                *)
BeginReturn ==
  /\ Entering({"statement", "loop_body"})
  /\ \E t \in ReturnTypes :
       Proceed(Calling([Top EXCEPT !.kind = "return", !.step = "value", !.left = t],
                       Expression(t, stack)))
  /\ UNCHANGED nodes

Ret(s) == <<Instruction("pop_lr", s, 0), Instruction("ret", s, 0)>>

EndReturn ==
  /\ At("return", "value")
  /\ LET c == Without(stack, Top.left)
     IN  /\ c.allocated = Innermost(c)
         /\ Leave(c, <<Adjustment(stack, c), Adjustment(c, FreshStack)>> \o Ret(FreshStack),
                  {Load(result, Size[signature.returns], stack),
                   Store(ReturnOffset(signature), Size[signature.returns], stack)})
  /\ UNCHANGED <<result, locals>>

BeginBlock ==
  /\ Entering({"statement", "loop_body"})
  /\ CanPushScope(stack)
  /\ stack' = PushScope(stack)
  /\ frames' = Becoming([Top EXCEPT !.kind = "block", !.step = "statements"])
  /\ accesses' = {}
  /\ UNCHANGED <<signature, result, locals, text, nodes>>

(* The statements of a block or of the function's body.                    *)
NextStatement ==
  /\ At("block", "statements") \/ At("function", "statements")
  /\ NewNode
  /\ Proceed(Calling(Top, Statement(stack, Len(locals))))

(* Mutant: the names of a block stay visible after it.                     *)
EndBlockNamesKept ==
  /\ At("block", "statements")
  /\ CanPopScope(stack)
  /\ LET c == CommitStack(PopScope(stack)) IN Leave(c, <<Adjustment(stack, c)>>, {})
  /\ UNCHANGED <<result, locals>>

EndBlock ==
  /\ At("block", "statements")
  /\ CanPopScope(stack)
  /\ LET c == CommitStack(PopScope(stack)) IN LeaveScope(c, <<Adjustment(stack, c)>>)

(* The end of the function: without a written return type the frame is     *)
(* released, the link register restored and ret emitted, with one nothing  *)
(* is (see EndsWithoutRet).                                                *)
EndFunction ==
  /\ At("function", "statements")
  /\ CanPopScope(stack)
  /\ \/ /\ signature.returns = Void
        /\ LET c == CommitStack(PopScope(stack))
           IN  LeaveScope(c, <<Adjustment(stack, c)>> \o Ret(c))
     \/ EndsWithoutRet /\ LeaveScope(PopScope(stack), <<>>)

-----------------------------------------------------------------------------
(* arm64_emit_function up to its first statement.                          *)
Init ==
  /\ signature \in Signatures
  /\ stack = PushScope(FreshStack)
  /\ locals = [i \in 1 .. Len(signature.params) |->
                 [type |-> signature.params[i], offset |-> ParameterOffset(signature, i)]]
  /\ frames = <<[Activation("function", Void, FreshStack, Len(locals))
                   EXCEPT !.kind = "function", !.step = "statements"]>>
  /\ result = 0
  /\ text = <<Instruction("push_lr", FreshStack, 0)>>
  /\ accesses = {}
  /\ nodes = 0

EmitExpression ==
  \/ EmitLiteral \/ EmitIdentifier
  \/ BeginBinary \/ BinaryRight \/ EndBinary
  \/ BeginCall \/ BeginArgument \/ EndArgument \/ EndCall
  \/ BeginAssign \/ EndAssign
  \/ BeginMember \/ EndMember
  \/ BeginCast \/ EndCast

EmitStatement ==
  \/ DeclareOnly \/ BeginDeclaration \/ EndDeclaration
  \/ BeginDiscard \/ EndDiscard
  \/ BeginIf \/ IfThen \/ EndIf
  \/ BeginFor \/ ForCondition \/ ForBody \/ ForStep \/ EndFor
  \/ BeginReturn \/ EndReturn
  \/ BeginBlock \/ NextStatement \/ EndBlock
  \/ EndFunction

Next == EmitExpression \/ EmitStatement

Spec == Init /\ [][Next]_vars

-----------------------------------------------------------------------------
(* Properties.                                                             *)

(* What an add to SP or a subtraction from it takes has 12 bits             *)
(* (arm64.c:102, 112).                                                     *)
AdjustmentsFit == \A i \in 1 .. Len(text) : -4095 <= text[i].by /\ text[i].by <= 4095

(* The assertions about the compile-time stack never fail (main.c:523-524, *)
(* 533, arm64.c:982, 1239-1240), the adjustments of SP fit an immediate    *)
(* (arm64.c:102, 112), and a value is on top of the stack wherever the     *)
(* handler that asked for it goes on: what x64.c asserts there and arm64.c *)
(* relies on.  This includes the implicit widenings, with which x64.c      *)
(* fails.                                                                  *)
AssertionsHold ==
  /\ \A k \in {<<"binary", "right">>, <<"call", "argument">>, <<"assign", "value">>,
               <<"member", "string">>, <<"cast", "value">>, <<"declaration", "initializer">>,
               <<"if", "condition">>, <<"for", "condition">>, <<"return", "value">>} :
       At(k[1], k[2]) => ResultOnTop
  /\ At("binary", "right") => Top.slot = stack.allocated - StackSize(Top.right)
  /\ At("return", "value") => stack.allocated - StackSize(Top.left) = Innermost(stack)
  /\ At("if", "then") \/ At("block", "statements") \/ At("function", "statements")
       => CanPopScope(stack)
  /\ At("for", "step") => CanPopScope(PopStack(stack, StackSize(Top.left)))
  /\ Entering({"statement", "loop_declaration", "loop_body"}) => CanAllocateStack(stack)
  /\ Entering({"expression"}) => \A local \in Targets(Top.type) : local.offset > 0
  /\ AdjustmentsFit

(* Every load and store is one that the helpers can encode and that the    *)
(* processor decodes to the address it is meant for (arm64.c:277-437), and *)
(* SP is then a multiple of 16, without which the processor faults.        *)
AccessesArrive ==
  \A a \in accesses :
    Encodable(a) /\ Decoded(a.size, Distance(a)) = Distance(a) /\ a.sp % 16 = 0

(* A store never overlaps the saved link register or a variable that is    *)
(* visible, except the store that assigns that very variable.              *)
StoresSpareVariables ==
  \A a \in {b \in accesses : b.mode = "store"} :
    /\ a.slot <= -16 \/ 0 <= a.slot - a.size
    /\ \A local \in Visible :
         \/ a.assigns = local.offset
         \/ a.slot <= local.offset - Size[local.type]
         \/ local.offset <= a.slot - a.size

(* Caller and callee agree on the frame of a call although one computes it *)
(* from the types of the arguments and the other from those of the         *)
(* parameters: also when an argument is implicitly widened.                *)
CallFramesAgree ==
  At("call", "arguments") /\ Len(Top.args) = Len(Top.callee.params) =>
    LET entry == stack.committed + 16
    IN  /\ Top.slot = entry + ReturnOffset(Top.callee)
        /\ \A i \in 1 .. Len(Top.args) :
             Top.args[i].offset = entry + ParameterOffset(Top.callee, i)
=============================================================================
