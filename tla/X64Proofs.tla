------------------------------ MODULE X64Proofs ------------------------------
(***************************************************************************)
(* The x86-64 emitter implements AbstractEmitter, and therefore keeps its  *)
(* discipline; its assertions about the stack hold, and its loads and      *)
(* stores stay inside the values they are meant for and clear of all other *)
(* variables, for all types, functions and nodes, in every program without *)
(* the constructs the emitter is known to mishandle.  And the code that it *)
(* emits, when it runs, has the stack pointer where the emitter compiled   *)
(* each instruction for, while no frame outgrows the exact immediates.     *)
(***************************************************************************)
EXTENDS X64Discipline, X64Run, AbstractEmitterProofs

(* The values have slots of their sizes.                                   *)
LEMMA SlotIsSize == Slot = Size /\ Gap = ReturnAddressSize /\ \A t \in Types : Slot[t] = Size[t]
BY SlotsOfX64

-----------------------------------------------------------------------------
(* What the handlers emit.                                                 *)

LEMMA AdjustmentFields ==
  ASSUME NEW s \in ScopedStacks, NEW c \in ScopedStacks
  PROVE  /\ Adjustment(s, c) \in Instructions
         /\ Adjustment(s, c).depth = s.committed /\ Adjustment(s, c).to = 0
<1>1. s.committed \in Int /\ c.committed \in Int /\ "rsp" \in Operations
  BY StackHeights DEF Operations
<1>2. Moves(c.committed - s.committed) \in Int
  BY <1>1 DEF Moves, Immediate
<1> QED  BY <1>1, <1>2, InstructionFields DEF Adjustment

LEMMA OtherFields ==
  ASSUME NEW s \in ScopedStacks, NEW op \in {"je", "jmp", "call", "ret"}
  PROVE  /\ Instruction(op, s, 0) \in Instructions /\ Instruction(op, s, 0).op = op
         /\ Instruction(op, s, 0).depth = s.committed /\ Instruction(op, s, 0).to = 0
         /\ \A p \in Nat : [Instruction(op, s, 0) EXCEPT !.to = p] \in Instructions
<1>1. op \in Operations /\ 0 \in Int
  BY DEF Operations
<1> QED  BY <1>1, InstructionFields

(* An adjustment.                                                          *)
LEMMA Adjusts ==
  ASSUME Sound, Running, NEW c \in ScopedStacks, text' = Append(text, Adjustment(stack, c))
  PROVE  Emits
BY HandlerStacks, AdjustmentFields, EmitsOne

(* An adjustment and a conditional jump.                                   *)
LEMMA AdjustsAndBranches ==
  ASSUME Sound, Running, NEW c \in ScopedStacks,
         text' = text \o <<Adjustment(stack, c), Instruction("je", c, 0)>>
  PROVE  EmitsBranch(c) /\ Len(text') = Len(text) + 2
<1> DEFINE a == Adjustment(stack, c)
           b == Instruction("je", c, 0)
<1>1. /\ a \in Instructions /\ a.depth = stack.committed /\ a.to = 0
      /\ b \in Instructions /\ b.op = "je" /\ b.depth = c.committed /\ b.to = 0
      /\ text \in Seq(Instructions)
  BY HandlerStacks, AdjustmentFields, OtherFields
<1>2. text' = text \o <<a, b>>
  OBVIOUS
<1> HIDE DEF a, b, Instructions
<1> QED  BY <1>1, <1>2, EmitsTwo DEF EmitsBranch

-----------------------------------------------------------------------------
(* Each action is one of AbstractEmitter.                                  *)

(* A literal and a copy of a variable.                                     *)
LEMMA PushImplements ==
  ASSUME Sound, EmitLiteral \/ EmitIdentifier PROVE PushStep
<1> DEFINE c == Pushed(stack, Top.type)
<1>1. Entering({"expression"}) /\ Running
  BY DEF EmitLiteral, EmitIdentifier, Entering
<1>2. c \in ScopedStacks /\ Slot[Top.type] = Size[Top.type]
  BY <1>1, HandlerStacks, SlotIsSize
<1>3. /\ stack' = c /\ result' = c.allocated /\ text' = Append(text, Adjustment(stack, c))
      /\ frames' = Returning /\ UNCHANGED <<signature, locals, nodes>>
  BY <1>2 DEF EmitLiteral, EmitIdentifier, Pushed
<1>4. Emits
  BY <1>1, <1>2, <1>3, Adjusts
<1> QED  BY <1>1, <1>3, <1>4 DEF PushStep, Yields, Returns

LEMMA BeginBinaryImplements ==
  ASSUME Sound, BeginBinary PROVE BeginBinaryStep
<1>1. Scalars \subseteq ValueTypes
  BY TypesAssumption DEF Scalars, ValueTypes
<1> QED  BY <1>1 DEF BeginBinary, BeginBinaryStep, Goes

LEMMA BinaryRightImplements ==
  ASSUME Sound, BinaryRight PROVE BinaryRightStep
BY DEF BinaryRight, BinaryRightStep, Goes

LEMMA EndBinaryImplements ==
  ASSUME Sound, EndBinary PROVE EndBinaryStep
<1> DEFINE c == Pushed(PopStack(PopStack(stack, Slot[Top.right]), Slot[Top.left]), Top.type)
<1>1. At("binary", "right") /\ Running
  BY DEF EndBinary, At
<1>2. /\ c \in ScopedStacks /\ Slot[Top.type] = Size[Top.type]
      /\ Slot[Top.left] = Size[Top.left] /\ Slot[Top.right] = Size[Top.right]
  BY <1>1, HandlerStacks, SlotIsSize
<1>3. /\ stack' = c /\ result' = c.allocated /\ text' = Append(text, Adjustment(stack, c))
      /\ frames' = Returning /\ UNCHANGED <<signature, locals, nodes>>
  BY <1>2 DEF EndBinary, Pushed
<1>4. Emits
  BY <1>1, <1>2, <1>3, Adjusts
<1> QED  BY <1>1, <1>3, <1>4 DEF EndBinaryStep, Yields, Returns

LEMMA BeginCallImplements ==
  ASSUME Sound, BeginCall PROVE BeginCallStep
<1>1. Running
  BY DEF BeginCall, Entering
<1>2. Slot[Top.type] = Size[Top.type]
  BY <1>1, HandlerStacks, SlotIsSize
<1> QED  BY <1>2 DEF BeginCall, BeginCallStep, Goes

LEMMA BeginArgumentImplements ==
  ASSUME Sound, BeginArgument PROVE BeginArgumentStep
BY DEF BeginArgument, BeginArgumentStep, Goes

LEMMA EndArgumentImplements ==
  ASSUME Sound, EndArgument PROVE EndArgumentStep
<1>1. Running
  BY DEF EndArgument, At
<1>2. Slot[Top.left] = Size[Top.left]
  BY <1>1, HandlerStacks, SlotIsSize
<1> QED  BY <1>2 DEF EndArgument, EndArgumentStep, Goes

LEMMA EndCallImplements ==
  ASSUME Sound, EndCall PROVE EndCallStep
<1> DEFINE c == CommitStack(PopStack(stack, Top.argsize))
           a == Instruction("call", stack, 0)
           b == Adjustment(stack, c)
<1>1. /\ At("call", "arguments") /\ Running /\ Len(Top.args) = Len(Top.callee.params)
      /\ stack' = c /\ text' = text \o <<a, b>> /\ result' = Top.slot
      /\ frames' = Returning /\ UNCHANGED <<signature, locals, nodes>>
  BY DEF EndCall, At
<1>2. /\ a \in Instructions /\ a.depth = stack.committed /\ a.to = 0
      /\ b \in Instructions /\ b.to = 0 /\ text \in Seq(Instructions)
  BY <1>1, HandlerStacks, AdjustmentFields, OtherFields, SMTT(30)
<1>3. Emits
  <2> HIDE DEF a, b, Instructions
  <2> QED  BY <1>1, <1>2, EmitsTwo
<1> QED  BY <1>1, <1>3 DEF EndCallStep, Returns

LEMMA BeginAssignImplements ==
  ASSUME Sound, BeginAssign PROVE BeginAssignStep
BY DEF BeginAssign, BeginAssignStep, Goes

LEMMA EndAssignImplements ==
  ASSUME Sound, EndAssign PROVE EndAssignStep
BY DEF EndAssign, EndAssignStep, Returns

LEMMA BeginMemberImplements ==
  ASSUME Sound, BeginMember PROVE BeginMemberStep
<1> DEFINE c == Pushed(stack, Top.type)
<1>1. Entering({"expression"}) /\ Running
  BY DEF BeginMember, Entering
<1>2. c \in ScopedStacks /\ Slot[Top.type] = Size[Top.type]
  BY <1>1, HandlerStacks, SlotIsSize
<1>3. /\ Top.type \in Members /\ NewNode /\ stack' = c
      /\ text' = Append(text, Adjustment(stack, c))
      /\ frames' = Calling([Top EXCEPT !.kind = "member", !.step = "string",
                                       !.slot = c.allocated], Expression(String, c))
      /\ UNCHANGED <<signature, result, locals>>
  BY <1>2 DEF BeginMember, Pushed
<1>4. Emits
  BY <1>1, <1>2, <1>3, Adjusts
<1> QED  BY <1>1, <1>3, <1>4 DEF BeginMemberStep, Goes

LEMMA EndMemberImplements ==
  ASSUME Sound, EndMember PROVE EndMemberStep
<1> DEFINE c == Popped(stack, String)
<1>1. At("member", "string") /\ Running
  BY DEF EndMember, At
<1>2. c \in ScopedStacks /\ Slot[String] = Size[String]
  BY <1>1, HandlerStacks, SlotIsSize, Sizes
<1>3. /\ stack' = c /\ text' = Append(text, Adjustment(stack, c)) /\ result' = Top.slot
      /\ frames' = Returning /\ UNCHANGED <<signature, locals, nodes>>
  BY <1>2 DEF EndMember, Popped
<1>4. Emits
  BY <1>1, <1>2, <1>3, Adjusts
<1> QED  BY <1>1, <1>3, <1>4 DEF EndMemberStep, Returns

LEMMA BeginCastImplements ==
  ASSUME Sound, BeginCast PROVE BeginCastStep
<1>1. \A t \in IntegerTypes : Slot[t] = Size[t]
  BY SlotIsSize, Sizes
<1> QED  BY <1>1 DEF BeginCast, BeginCastStep, Goes

LEMMA EndCastImplements ==
  ASSUME Sound, EndCast PROVE EndCastStep
<1> DEFINE c == Pushed(PopStack(stack, Slot[Top.left]), Top.type)
<1>1. /\ At("cast", "value") /\ Running /\ result' = stack'.allocated
      /\ frames' = Returning /\ UNCHANGED <<signature, locals, nodes>>
  BY DEF EndCast, At
<1>2. /\ c \in ScopedStacks /\ Slot[Top.type] = Size[Top.type] /\ Slot[Top.left] = Size[Top.left]
      /\ Size[Top.type] \in Nat /\ Size[Top.left] \in Nat
  BY <1>1, HandlerStacks, SlotIsSize, Sizes
<1>3. CASE Size[Top.left] > Size[Top.type]
  <2>1. stack' = c /\ text' = Append(text, Adjustment(stack, c))
    BY <1>2, <1>3 DEF EndCast, Pushed
  <2>2. Emits
    BY <1>1, <1>2, <2>1, Adjusts
  <2> QED  BY <1>1, <2>1, <2>2 DEF EndCastStep, Yields, Returns
<1>4. CASE ~(Size[Top.left] > Size[Top.type])
  <2>1. stack' = stack /\ text' = text /\ Slot[Top.left] <= Slot[Top.type]
    BY <1>2, <1>4 DEF EndCast
  <2> QED  BY <1>1, <2>1 DEF EndCastStep, Yields, Returns
<1> QED  BY <1>3, <1>4

LEMMA DeclareOnlyImplements ==
  ASSUME Sound, DeclareOnly PROVE DeclareOnlyStep
<1>1. \A t \in ValueTypes : Slot[t] = Size[t]
  BY SlotIsSize, Sizes
<1> QED  BY <1>1 DEF DeclareOnly, DeclareOnlyStep, Returns

LEMMA BeginDeclarationImplements ==
  ASSUME Sound, BeginDeclaration PROVE BeginDeclarationStep
<1>1. \A t \in ValueTypes : Slot[t] = Size[t]
  BY SlotIsSize, Sizes
<1> QED  BY <1>1 DEF BeginDeclaration, BeginDeclarationStep, Goes

LEMMA EndDeclarationImplements ==
  ASSUME Sound, EndDeclaration PROVE EndDeclarationStep
<1> DEFINE c == Popped(stack, Top.left)
<1>1. At("declaration", "initializer") /\ Running
  BY DEF EndDeclaration, At
<1>2. c \in ScopedStacks /\ Slot[Top.left] = Size[Top.left]
  BY <1>1, HandlerStacks, SlotIsSize
<1>3. /\ stack' = c /\ text' = Append(text, Adjustment(stack, c))
      /\ locals' = Append(locals, [type |-> Top.type, offset |-> Top.slot])
      /\ frames' = Returning /\ UNCHANGED <<signature, result, nodes>>
  BY <1>2 DEF EndDeclaration, Popped
<1>4. Emits
  BY <1>1, <1>2, <1>3, Adjusts
<1> QED  BY <1>1, <1>3, <1>4 DEF EndDeclarationStep, Returns

LEMMA BeginDiscardImplements ==
  ASSUME Sound, BeginDiscard PROVE BeginDiscardStep
BY DEF BeginDiscard, BeginDiscardStep, Goes

LEMMA EndDiscardImplements ==
  ASSUME Sound, EndDiscard PROVE EndDiscardStep
<1> DEFINE c == Popped(stack, Top.left)
<1>1. At("discard", "value") /\ Running
  BY DEF EndDiscard, At
<1>2. c \in ScopedStacks /\ Slot[Top.left] = Size[Top.left]
  BY <1>1, HandlerStacks, SlotIsSize
<1>3. /\ stack' = c /\ text' = Append(text, Adjustment(stack, c))
      /\ frames' = Returning /\ UNCHANGED <<signature, result, locals, nodes>>
  BY <1>2 DEF EndDiscard, Popped
<1>4. Emits
  BY <1>1, <1>2, <1>3, Adjusts
<1> QED  BY <1>1, <1>3, <1>4 DEF EndDiscardStep, Returns

LEMMA BeginIfImplements ==
  ASSUME Sound, BeginIf PROVE BeginIfStep
BY DEF BeginIf, BeginIfStep, Goes

LEMMA IfThenImplements ==
  ASSUME Sound, IfThen PROVE IfThenStep
<1> DEFINE c == Popped(stack, Bool)
<1>1. At("if", "condition") /\ Running
  BY DEF IfThen, At
<1>2. c \in ScopedStacks /\ Slot[Bool] = Size[Bool] /\ Len(text) \in Nat
  BY <1>1, HandlerStacks, SlotIsSize, Sizes
<1>3. /\ CanPushScope(c) /\ stack' = PushScope(c)
      /\ text' = text \o <<Adjustment(stack, c), Instruction("je", c, 0)>>
      /\ frames' = Calling([Top EXCEPT !.step = "then", !.patch = Label + 1],
                           Statement(PushScope(c), Len(locals)))
      /\ UNCHANGED <<signature, result, locals, nodes>>
  BY <1>2 DEF IfThen, Popped
<1>4. EmitsBranch(c) /\ Len(text') = Len(text) + 2
  BY <1>1, <1>2, <1>3, AdjustsAndBranches
<1>5. Label + 1 = Len(text')
  BY <1>2, <1>4 DEF Label
<1> HIDE DEF c
<1> QED  BY <1>1, <1>3, <1>4, <1>5 DEF IfThenStep, Goes, c

LEMMA EndIfImplements ==
  ASSUME Sound, EndIf PROVE EndIfStep
<1> DEFINE c == CommitStack(PopScope(stack))
           t == [text EXCEPT ![Top.patch].to = Label + 1]
           a == Adjustment(stack, c)
<1>1. /\ At("if", "then") /\ Running /\ CanPopScope(stack) /\ stack' = c
      /\ text' = Append(t, a) /\ locals' = Outer
      /\ frames' = Returning /\ UNCHANGED <<signature, result, nodes>>
  BY DEF EndIf, At, Outer
<1>2. /\ a \in Instructions /\ a.depth = stack.committed /\ a.to = 0
      /\ text \in Seq(Instructions) /\ Len(text) \in Nat
  BY <1>1, HandlerStacks, AdjustmentFields
<1>3. t \in Seq(Instructions) /\ Len(t) = Len(text)
  <2>1. Top.patch \in Nat /\ Label + 1 \in Nat
    BY <1>1, <1>2, HandlerStacks, ActivationFields DEF Label
  <2> QED  BY <1>2, <2>1, PatchType
<1>4. EmitsAfter(t) /\ Len(text') = Len(text) + 1 /\ \A i \in New : text'[i].to = 0
  <2> HIDE DEF a, t, Instructions
  <2> QED  BY <1>1, <1>2, <1>3, EmitsOne
<1>5. t = [text EXCEPT ![Top.patch].to = Len(text') + 1]
  BY <1>2, <1>4 DEF Label
<1> HIDE DEF t
<1> QED  BY <1>1, <1>4, <1>5 DEF EndIfStep, Returns

LEMMA BeginForImplements ==
  ASSUME Sound, BeginFor PROVE BeginForStep
BY DEF BeginFor, BeginForStep, Goes

LEMMA ForConditionImplements ==
  ASSUME Sound, ForCondition PROVE ForConditionStep
BY DEF ForCondition, ForConditionStep, Goes

LEMMA ForBodyImplements ==
  ASSUME Sound, ForBody PROVE ForBodyStep
<1> DEFINE c == Popped(stack, Bool)
<1>1. At("for", "condition") /\ Running
  BY DEF ForBody, At
<1>2. c \in ScopedStacks /\ Slot[Bool] = Size[Bool] /\ Len(text) \in Nat
  BY <1>1, HandlerStacks, SlotIsSize, Sizes
<1>3. /\ stack' = c
      /\ text' = text \o <<Adjustment(stack, c), Instruction("je", c, 0)>>
      /\ frames' = Calling([Top EXCEPT !.step = "body", !.patch = Label + 1],
                           LoopBody(c, Len(locals)))
      /\ UNCHANGED <<signature, result, locals, nodes>>
  BY <1>2 DEF ForBody, Popped
<1>4. EmitsBranch(c) /\ Len(text') = Len(text) + 2
  BY <1>1, <1>2, <1>3, AdjustsAndBranches
<1>5. Label + 1 = Len(text')
  BY <1>2, <1>4 DEF Label
<1> HIDE DEF c
<1> QED  BY <1>1, <1>3, <1>4, <1>5 DEF ForBodyStep, Goes, c

LEMMA ForStepImplements ==
  ASSUME Sound, ForStep PROVE ForStepStep
BY DEF ForStep, ForStepStep

LEMMA EndForImplements ==
  ASSUME Sound, EndFor PROVE EndForStep
<1> DEFINE stepped == Popped(stack, Top.left)
           c == CommitStack(PopScope(stepped))
           t == [text EXCEPT ![Top.patch].to = Label + 2]
           a == Adjustment(stack, stepped)
           jump == [Instruction("jmp", stepped, 0) EXCEPT !.to = Top.start]
           b == Adjustment(stepped, c)
<1>1. At("for", "step") /\ Running
  BY DEF EndFor, At
<1>2. /\ stepped \in ScopedStacks /\ Slot[Top.left] = Size[Top.left] /\ Top \in Activations
      /\ text \in Seq(Instructions) /\ Len(text) \in Nat /\ stack \in ScopedStacks
  BY <1>1, HandlerStacks, SlotIsSize
<1>3. /\ CanPopScope(stepped) /\ stack' = c /\ text' = t \o <<a, jump, b>> /\ locals' = Outer
      /\ frames' = Returning /\ UNCHANGED <<signature, result, nodes>>
  BY <1>2 DEF EndFor, Popped, Outer
<1>4. c \in ScopedStacks
  <2> HIDE DEF stepped
  <2> QED  BY <1>2, <1>3, 0 \in Int, CompositeTypes
<1>5. /\ a \in Instructions /\ a.depth = stack.committed /\ a.to = 0
      /\ b \in Instructions /\ b.depth = stepped.committed /\ b.to = 0
  BY <1>2, <1>4, AdjustmentFields
<1>6. /\ jump \in Instructions /\ jump.to = Top.start /\ jump.depth = stepped.committed
  <2>1. Top.start \in Nat
    BY <1>2, ActivationFields
  <2>2. jump \in Instructions
    BY <1>2, <2>1, OtherFields
  <2> QED  BY <2>2 DEF Instruction
<1>7. t \in Seq(Instructions) /\ Len(t) = Len(text)
  <2>1. Top.patch \in Nat /\ Label + 2 \in Nat
    BY <1>2, ActivationFields DEF Label
  <2> QED  BY <1>2, <2>1, PatchType
<1>8. /\ EmitsAfter(t) /\ Len(text') = Len(text) + 3 /\ LastEmitted = b
      /\ \A i \in New : text'[i] \in {a, jump, b}
  <2>1. text' = t \o <<a, jump, b>> /\ text \in Seq(Instructions)
    BY <1>2, <1>3
  <2> HIDE DEF a, b, jump, t, stepped, c, Instructions
  <2>2. t \in Seq(Instructions) /\ Len(t) = Len(text)
    BY <1>7
  <2>3. /\ a \in Instructions /\ b \in Instructions /\ jump \in Instructions
        /\ a.depth = stack.committed
    BY <1>5, <1>6
  <2>4. EmitsAfter(t)
    BY <2>1, <2>2, <2>3, EmitsThree
  <2>6. Len(text') = Len(text) + 3
    BY <2>1, <2>2, <2>3, EmitsThree
  <2>7. text'[Len(text) + 3] = b
    BY <2>1, <2>2, <2>3, EmitsThree
  <2>8. LastEmitted = b
    BY <2>6, <2>7 DEF LastEmitted
  <2>5. \A i \in New : text'[i] \in {a, jump, b}
    BY <2>1, <2>2, <2>3, EmitsThree
  <2> QED  BY <2>4, <2>5, <2>6, <2>8
<1>9. t = [text EXCEPT ![Top.patch].to = Len(text')]
  <2>1. Label + 2 = Len(text')
    BY <1>2, <1>8 DEF Label
  <2> QED  BY <2>1
<1>10. \A i \in New : text'[i].to # 0 => text'[i].to = Top.start /\ text'[i].depth = stepped.committed
  <2> HIDE DEF a, b, jump, stepped
  <2> QED  BY <1>5, <1>6, <1>8
<1>11. LastEmitted.to = 0 /\ LastEmitted.depth = stepped.committed
  BY <1>5, <1>8
<1> HIDE DEF t, c
<1> QED  BY <1>1, <1>3, <1>8, <1>9, <1>10, <1>11 DEF EndForStep, Returns, c

LEMMA BeginReturnImplements ==
  ASSUME Sound, BeginReturn PROVE BeginReturnStep
BY DEF BeginReturn, BeginReturnStep, Goes

LEMMA EndReturnImplements ==
  ASSUME Sound, EndReturn PROVE EndReturnStep
<1> DEFINE c == Popped(stack, Top.left)
           a == Adjustment(stack, c)
           b == Adjustment(c, FreshStack)
           r == Instruction("ret", FreshStack, 0)
<1>1. At("return", "value") /\ Running
  BY DEF EndReturn, At
<1>2. /\ c \in ScopedStacks /\ Slot[Top.left] = Size[Top.left] /\ FreshStack \in ScopedStacks
      /\ text \in Seq(Instructions) /\ stack \in ScopedStacks
  BY <1>1, HandlerStacks, SlotIsSize
<1>3. /\ stack' = c /\ text' = text \o <<a, b, r>>
      /\ frames' = Returning /\ UNCHANGED <<signature, result, locals, nodes>>
  BY <1>2 DEF EndReturn, Popped
<1>4. /\ a \in Instructions /\ a.depth = stack.committed /\ a.to = 0
      /\ b \in Instructions /\ b.to = 0 /\ r \in Instructions /\ r.to = 0
  BY <1>2, AdjustmentFields, OtherFields
<1>5. Emits
  <2>1. text' = text \o <<a, b, r>> /\ text \in Seq(Instructions)
    BY <1>2, <1>3
  <2>2. /\ a \in Instructions /\ b \in Instructions /\ r \in Instructions
        /\ a.depth = stack.committed
    BY <1>4
  <2>3. a.to = 0 /\ b.to = 0 /\ r.to = 0
    BY <1>4
  <2> HIDE DEF a, b, r, c, Instructions
  <2> QED  BY <2>1, <2>2, <2>3, EmitsThreeStraight
<1> QED  BY <1>1, <1>3, <1>5 DEF EndReturnStep, Returns

LEMMA BeginBlockImplements ==
  ASSUME Sound, BeginBlock PROVE BeginBlockStep
BY DEF BeginBlock, BeginBlockStep, Goes

LEMMA NextStatementImplements ==
  ASSUME Sound, NextStatement PROVE NextStatementStep
BY DEF NextStatement, NextStatementStep, Goes

LEMMA EndBlockImplements ==
  ASSUME Sound, EndBlock PROVE EndBlockStep
<1> DEFINE c == CommitStack(PopScope(stack))
<1>1. /\ At("block", "statements") /\ Running /\ CanPopScope(stack) /\ stack' = c
      /\ text' = Append(text, Adjustment(stack, c)) /\ locals' = Outer
      /\ frames' = Returning /\ UNCHANGED <<signature, result, nodes>>
  BY DEF EndBlock, At, Outer
<1>2. c \in ScopedStacks
  BY <1>1, HandlerStacks
<1>3. Emits
  BY <1>1, <1>2, Adjusts
<1> QED  BY <1>1, <1>3 DEF EndBlockStep, Returns

(* The names that are left at the end are none.                            *)
LEMMA EndFunctionImplements ==
  ASSUME Sound, EndFunction PROVE EndFunctionStep
<1> DEFINE c == CommitStack(PopScope(stack))
           a == Adjustment(stack, c)
           r == Instruction("ret", c, 0)
<1>1. /\ At("function", "statements") /\ Running /\ CanPopScope(stack)
      /\ locals' = <<>> /\ frames' = Returning /\ UNCHANGED <<signature, result, nodes>>
  BY DEF EndFunction, At
<1>2. c \in ScopedStacks /\ stack \in ScopedStacks /\ text \in Seq(Instructions)
  BY <1>1, HandlerStacks
<1>3. 0 \in 0 .. Top.visible /\ locals' = SubSeq(locals, 1, 0)
  <2>1. Top.visible \in Nat /\ locals \in Seq(Locals)
    BY <1>1, Context
  <2> QED  BY <1>1, <2>1
<1>4. CASE stack' = c /\ text' = text \o <<a, r>>
  <2>1. /\ a \in Instructions /\ a.depth = stack.committed /\ a.to = 0
        /\ r \in Instructions /\ r.to = 0
    BY <1>2, AdjustmentFields, OtherFields
  <2>2. Emits
    <3> HIDE DEF a, r, Instructions
    <3> QED  BY <1>2, <1>4, <2>1, EmitsTwo
  <2> QED  BY <1>1, <1>3, <1>4, <2>2 DEF EndFunctionStep, Returns
<1>5. CASE stack' = PopScope(stack) /\ text' = text
  BY <1>1, <1>3, <1>5 DEF EndFunctionStep, Returns
<1> QED  BY <1>4, <1>5 DEF EndFunction

LEMMA InitImplements ==
  ASSUME Init PROVE EmitterInit
<1>1. text \in Seq(Instructions) /\ \A i \in 1 .. Len(text) : text[i].to = 0
  BY DEF Init
<1>2. \A i : ParameterOffset(signature, i) = ParameterAt(Slot, Gap, signature, i)
  BY SlotIsSize DEF ParameterOffset
<1> QED  BY <1>1, <1>2 DEF Init, EmitterInit

LEMMA NextImplements ==
  ASSUME Sound, [Next]_vars PROVE [EmitterNext]_emission
<1>1. CASE EmitExpression
  <2>1. ExpressionStep
    BY <1>1, PushImplements, BeginBinaryImplements, BinaryRightImplements, EndBinaryImplements,
       BeginCallImplements, BeginArgumentImplements, EndArgumentImplements, EndCallImplements,
       BeginAssignImplements, EndAssignImplements, BeginMemberImplements, EndMemberImplements,
       BeginCastImplements, EndCastImplements, Zenon DEF EmitExpression, ExpressionStep
  <2> QED  BY <2>1 DEF EmitterNext
<1>2. CASE EmitStatement
  <2>1. StatementStep
    BY <1>2, DeclareOnlyImplements, BeginDeclarationImplements, EndDeclarationImplements,
       BeginDiscardImplements, EndDiscardImplements, BeginIfImplements, IfThenImplements,
       EndIfImplements, BeginForImplements, ForConditionImplements, ForBodyImplements,
       ForStepImplements, EndForImplements, BeginReturnImplements, EndReturnImplements,
       BeginBlockImplements, NextStatementImplements, EndBlockImplements,
       EndFunctionImplements, Zenon DEF EmitStatement, StatementStep
  <2> QED  BY <2>1 DEF EmitterNext
<1>3. CASE UNCHANGED vars
  BY <1>3 DEF vars, emission
<1> QED  BY <1>1, <1>2, <1>3 DEF Next

(* The x86-64 emitter does nothing that AbstractEmitter does not promise.  *)
THEOREM EmitterImplements == Spec => EmitterSpec
<1>1. Init => EmitterInit /\ Sound
  BY InitImplements, InitSound
<1>2. Sound /\ [Next]_vars => [EmitterNext]_emission /\ Sound'
  BY NextImplements, NextSound
<1> QED  BY <1>1, <1>2, PTL DEF Spec, EmitterSpec

-----------------------------------------------------------------------------
(* The discipline of AbstractEmitter, which the emitter therefore keeps.   *)

(* Soundness of the bookkeeping: whatever the program, the types and the   *)
(* feature set, every variable of the emitter keeps its type, the          *)
(* activations are a chain of calls the handlers make, and no name that an *)
(* activation counts on disappears under it.                               *)
THEOREM Soundness == Spec => []Sound
BY EmitterImplements, EmissionSound, PTL

(* Every variable of the emitter keeps its type.                           *)
THEOREM TypeCorrect == Spec => []TypeOK
<1>1. Sound => TypeOK
  BY DEF Sound
<1> QED  BY <1>1, Soundness, PTL

(* In every program without the constructs that StraightFeatures excludes, *)
(* whatever its functions, types and nesting, each recursive call of the   *)
(* emitters leaves exactly its value on the compile-time stack and each    *)
(* scope is closed at the height it was opened.                            *)
THEOREM StackBalanced == ASSUME StraightFeatures PROVE Spec => []Discipline
<1>1. Accounting => Discipline
  BY DEF Accounting, Sound, Discipline
<1> QED  BY <1>1, EmitterImplements, EmissionAccounted, PTL

(* Every jump arrives with the committed stack its target is compiled for. *)
THEOREM JumpsLand == ASSUME StraightFeatures PROVE Spec => []JumpsAgree
<1>1. Accounting => JumpsAgree
  BY DEF Accounting
<1> QED  BY <1>1, EmitterImplements, EmissionAccounted, PTL

(* What a handler asserts first follows from the accounting.               *)
LEMMA AssertionsFollow ==
  ASSUME AssertedFeatures, Accounting PROVE AssertionsHold
<1> SUFFICES ASSUME Running PROVE AssertionsHold
  BY DEF AssertionsHold, At, Entering
<1>1. /\ Top.right \in Types /\ Top.left \in Types /\ Slot[Top.right] = Size[Top.right]
      /\ Slot[Top.left] = Size[Top.left]
  BY HandlerStacks, SlotIsSize DEF Accounting
<1>2. AwaitsExpression(Top) => ResultOnTop
  BY AccountingAsserts
<1>3. At("binary", "right") => OperandsOnTop
  <2> SUFFICES ASSUME At("binary", "right") PROVE OperandsOnTop
    OBVIOUS
  <2>1. AwaitsExpression(Top)
    BY DEF At, AwaitsExpression
  <2> QED  BY <1>1, <1>2, <2>1, AccountingAsserts DEF OperandsOnTop, ResultOnTop
<1>4. \A k \in {<<"assign", "value">>, <<"declaration", "initializer">>, <<"if", "condition">>,
                <<"for", "condition">>, <<"return", "value">>} : At(k[1], k[2]) => ResultOnTop
  <2>1. Top.step \in {"value", "initializer", "condition"} => ResultOnTop
    BY <1>2 DEF AwaitsExpression
  <2> QED  BY <2>1 DEF At
<1>5. /\ At("return", "value") => stack.allocated - Size[Top.left] = Innermost(stack)
      /\ At("if", "then") \/ At("block", "statements") \/ At("function", "statements")
           => CanPopScope(stack)
      /\ At("for", "step") => CanPopScope(PopStack(stack, Size[Top.left]))
      /\ Entering({"statement", "loop_declaration", "loop_body"}) => CanAllocateStack(stack)
  BY <1>1, AccountingAsserts
<1>6. Entering({"expression"}) => \A local \in Targets(Top.type) : local.offset > 0
  BY DEF AssertedFeatures, Targets
<1> QED  BY <1>3, <1>4, <1>5, <1>6 DEF AssertionsHold

(* None of the assertions that check the stack accounting fails, in any    *)
(* program without the constructs that AssertedFeatures excludes.          *)
THEOREM AssertionsAlwaysHold == ASSUME AssertedFeatures PROVE Spec => []AssertionsHold
<1>1. StraightFeatures
  BY DEF AssertedFeatures
<1>2. Accounting => AssertionsHold
  BY AssertionsFollow
<1> QED  BY <1>1, <1>2, EmitterImplements, EmissionAccounted, PTL

(* The variables lie one below the other, the temporaries beyond them, the *)
(* arguments of a call in the order of the parameters.                     *)
THEOREM LayoutHolds == ASSUME AlignedFeatures PROVE Spec => []LaidOut
BY EmitterImplements, EmissionLaidOut, PTL

(* Whatever the types of the parameters, the callee finds its parameters   *)
(* and the slot of its result where the caller pushed them.                *)
THEOREM FramesAlwaysAgree == ASSUME AlignedFeatures PROVE Spec => []CallFramesAgree
<1>1. LaidOut => CallFramesAgree
  <2>1. LaidOut => CallsAgree
    BY LaidOutFramesAgree
  <2>2. \A f, i : /\ ParameterOffset(f, i) = ParameterAt(Slot, Gap, f, i)
                  /\ ReturnOffset(f) = ReturnAt(Slot, Gap, f)
    BY SlotIsSize DEF ParameterOffset, ReturnOffset
  <2> QED  BY <2>1, <2>2, SlotIsSize DEF CallsAgree, CallFramesAgree
<1> QED  BY <1>1, LayoutHolds, PTL

-----------------------------------------------------------------------------
(* The loads and stores.                                                   *)

(* The constructs that copy a value as one of another size are out of use, *)
(* too.                                                                    *)
TypedFeatures ==
  AlignedFeatures /\ {"widening_initializer", "mismatched_return"} \cap Features = {}

(* What the two properties ask of an access, of the variables that are     *)
(* visible after the action.                                               *)
Safe(a) ==
  /\ a.slot <= a.rsp /\ a.size <= a.of
  /\ \A k \in 1 .. Len(locals') :
       \/ a.mode = "load" \/ a.assigns = locals'[k].offset
       \/ a.slot <= locals'[k].offset - Size[locals'[k].type]
       \/ locals'[k].offset <= a.slot - a.size

AccessesAreSafe == AccessesInBounds /\ StoresSpareVariables

LEMMA AllSafe ==
  ASSUME \A a \in accesses' : Safe(a) PROVE AccessesAreSafe'
BY DEF Safe, AccessesAreSafe, AccessesInBounds, StoresSpareVariables, Visible

LEMMA LoadSafe ==
  ASSUME NEW slot \in Int, NEW size \in Nat, NEW of \in Nat, NEW s \in ScopedStacks,
         slot <= s.committed, size <= of
  PROVE  Safe(Load(slot, size, of, s))
BY DEF Safe, Load

(* A temporary lies beyond the innermost scope.                            *)
LEMMA StoreSafe ==
  ASSUME LaidOut, Running, locals' = locals,
         NEW slot \in Int, NEW size \in Nat, NEW of \in Nat, NEW s \in ScopedStacks,
         slot <= s.committed, size <= of, Innermost(stack) <= slot - size
  PROVE  Safe(Store(slot, size, of, s))
<1> DEFINE a == Store(slot, size, of, s)
<1>1. a.slot = slot /\ a.size = size /\ a.rsp = s.committed /\ a.of = of
  BY DEF Store
<1>2. ASSUME NEW k \in 1 .. Len(locals) PROVE locals'[k].offset <= a.slot - a.size
  <2>1. locals[k].offset \in Int /\ locals[k].offset <= Innermost(stack) /\ Innermost(stack) \in Int
    BY Offsets
  <2> QED  BY <1>1, <2>1
<1> HIDE DEF a
<1>3. Safe(a)
  BY <1>1, <1>2 DEF Safe
<1> QED  BY <1>3 DEF a

LEMMA PushSafe ==
  ASSUME LaidOut, EmitLiteral \/ EmitIdentifier PROVE AccessesAreSafe'
<1> DEFINE n == Size[Top.type]
           c == CommitStack(PushStack(stack, n))
<1>1. Entering({"expression"}) /\ locals' = locals
  BY DEF EmitLiteral, EmitIdentifier
<1>2. Top.type \in Types /\ Slot[Top.type] = n /\ c = Pushed(stack, Top.type)
  BY <1>1, HandlerStacks, SlotIsSize DEF LaidOut, Accounting, Pushed, Entering
<1>3. /\ Running /\ Innermost(stack) <= Top.at /\ Innermost(stack) \in Int /\ Top.at \in Int
      /\ n \in Nat /\ c \in ScopedStacks /\ c.allocated = Top.at + n /\ c.committed = Top.at + n
  BY <1>1, <1>2, PushHeights
<1>4. \/ accesses' = {Store(c.allocated, n, n, c)}
      \/ \E k \in 1 .. Len(locals) :
           accesses' = {Load(locals[k].offset, n, n, c), Store(c.allocated, n, n, c)}
  BY DEF EmitLiteral, EmitIdentifier, Visible
<1> HIDE DEF c, n
<1>5. Safe(Store(c.allocated, n, n, c))
  <2>1. c.allocated \in Int /\ c.allocated <= c.committed /\ n <= n
        /\ Innermost(stack) <= c.allocated - n
    BY <1>3
  <2> QED  BY <1>1, <1>3, <2>1, StoreSafe
<1>6. ASSUME NEW k \in 1 .. Len(locals) PROVE Safe(Load(locals[k].offset, n, n, c))
  <2>1. locals[k].offset \in Int /\ locals[k].offset <= Innermost(stack)
    BY <1>3, Offsets
  <2>2. locals[k].offset <= c.committed /\ n <= n
    BY <1>3, <2>1
  <2> QED  BY <1>3, <2>1, <2>2, LoadSafe
<1> QED  BY <1>4, <1>5, <1>6, AllSafe

LEMMA EndBinarySafe ==
  ASSUME LaidOut, EndBinary PROVE AccessesAreSafe'
<1> DEFINE l == Size[Top.left]
           r == Size[Top.right]
           n == Size[Top.type]
           c == CommitStack(PushStack(PopStack(PopStack(stack, r), l), n))
<1>1. At("binary", "right") /\ locals' = locals
      /\ accesses' = {Load(result, r, r, stack), Load(Top.slot, l, l, stack),
                      Store(c.allocated, n, n, c)}
  BY DEF EndBinary
<1>2. /\ Slot[Top.left] = l /\ Slot[Top.right] = r /\ Slot[Top.type] = n
      /\ c = Pushed(PopStack(PopStack(stack, Slot[Top.right]), Slot[Top.left]), Top.type)
  BY <1>1, HandlerStacks, SlotIsSize DEF LaidOut, Accounting, Pushed, At
<1>3. /\ Running /\ Innermost(stack) <= Top.at /\ Innermost(stack) \in Int /\ Top.at \in Int
      /\ stack \in ScopedStacks /\ n \in Nat /\ l \in Nat /\ r \in Nat
      /\ result = (Top.at + l) + r /\ Top.slot = Top.at + l /\ stack.committed = result
      /\ c \in ScopedStacks /\ c.allocated = Top.at + n /\ c.committed = Top.at + n
  BY <1>1, <1>2, BinaryHeights
<1> HIDE DEF c, n, l, r
<1>4. Safe(Store(c.allocated, n, n, c))
  <2>1. c.allocated \in Int /\ c.allocated <= c.committed /\ n <= n
        /\ Innermost(stack) <= c.allocated - n
    BY <1>3
  <2> QED  BY <1>1, <1>3, <2>1, StoreSafe
<1>5. Safe(Load(result, r, r, stack)) /\ Safe(Load(Top.slot, l, l, stack))
  <2>1. /\ result \in Int /\ result <= stack.committed /\ r <= r /\ l <= l
        /\ Top.slot \in Int /\ Top.slot <= stack.committed
    BY <1>3
  <2> QED  BY <1>3, <2>1, LoadSafe
<1> QED  BY <1>1, <1>4, <1>5, AllSafe

(* What an assignment writes lies clear of all other variables.            *)
LEMMA AssignSafe ==
  ASSUME LaidOut, Running, locals' = locals, NEW s \in ScopedStacks, NEW variable \in Locals,
         NEW k \in 1 .. Len(locals), locals[k] = variable, Innermost(stack) <= s.committed
  PROVE  Safe(Assign(variable, s))
<1> DEFINE a == Assign(variable, s)
<1>1. /\ a.slot = variable.offset /\ a.size = Size[variable.type] /\ a.of = Size[variable.type]
      /\ a.rsp = s.committed /\ a.assigns = variable.offset
  BY DEF Assign
<1>2. /\ variable.offset \in Int /\ variable.offset <= Innermost(stack) /\ Innermost(stack) \in Int
      /\ Size[variable.type] \in Nat /\ s.committed \in Int
  BY Offsets, SlotIsSize DEF ScopedStacks, Stacks
<1> HIDE DEF a
<1>3. a.slot <= a.rsp /\ a.size <= a.of
  BY <1>1, <1>2
<1>4. ASSUME NEW j \in 1 .. Len(locals')
      PROVE  \/ a.assigns = locals'[j].offset
             \/ a.slot <= locals'[j].offset - Size[locals'[j].type]
             \/ locals'[j].offset <= a.slot - a.size
  BY <1>1, VariablesApart, SlotIsSize
<1>5. Safe(a)
  BY <1>3, <1>4 DEF Safe
<1> QED  BY <1>5 DEF a

LEMMA EndAssignSafe ==
  ASSUME LaidOut, EndAssign PROVE AccessesAreSafe'
<1> DEFINE n == Size[Top.type]
           variable == [offset |-> Top.slot, type |-> Top.type]
<1>1. At("assign", "value") /\ locals' = locals
  BY DEF EndAssign
<1>2. Slot[Top.type] = n /\ Slot[Top.left] = Size[Top.left]
  BY <1>1, HandlerStacks, SlotIsSize DEF LaidOut, Accounting, At
<1>3. /\ Running /\ Innermost(stack) <= Top.at /\ Innermost(stack) \in Int /\ Top.at \in Int
      /\ stack \in ScopedStacks /\ n \in Nat /\ Size[Top.left] = n
      /\ result = Top.at + n /\ stack.committed = result
  BY <1>1, <1>2, AssignHeights
<1>4. PICK k \in 1 .. Len(locals) : locals[k].type = Top.type /\ locals[k].offset = Top.slot
  BY <1>1, AssignHeights
<1>5. \/ accesses' = {Load(result, n, n, stack), Assign(variable, stack)}
      \/ accesses' = {Load(result, n, n, stack), Load(Top.slot, n, n, stack),
                      Assign(variable, stack), Store(result, n, n, stack)}
  BY <1>3 DEF EndAssign
<1>6. /\ locals[k] \in Locals /\ locals[k].offset \in Int
      /\ locals[k].offset <= Innermost(stack)
  BY <1>3, Offsets
<1>7. Innermost(stack) <= stack.committed
  BY <1>3
<1>8. Safe(Assign(variable, stack))
  <2>1. Safe(Assign(locals[k], stack))
    BY <1>1, <1>3, <1>6, <1>7, AssignSafe
  <2>2. Assign(locals[k], stack) = Assign(variable, stack)
    BY <1>4 DEF Assign
  <2> QED  BY <2>1, <2>2
<1> HIDE DEF n, variable
<1>9. Safe(Load(result, n, n, stack)) /\ Safe(Load(Top.slot, n, n, stack))
  <2>1. /\ result \in Int /\ result <= stack.committed /\ n <= n
        /\ Top.slot \in Int /\ Top.slot <= stack.committed
    BY <1>3, <1>4, <1>6
  <2> QED  BY <1>3, <2>1, LoadSafe
<1>10. Safe(Store(result, n, n, stack))
  <2>1. /\ result \in Int /\ result <= stack.committed /\ n <= n
        /\ Innermost(stack) <= result - n
    BY <1>3
  <2> QED  BY <1>1, <1>3, <2>1, StoreSafe
<1> QED  BY <1>5, <1>8, <1>9, <1>10, AllSafe

LEMMA EndMemberSafe ==
  ASSUME LaidOut, EndMember PROVE AccessesAreSafe'
<1> DEFINE n == Size[Top.type]
           m == Size[String]
<1>1. /\ At("member", "string") /\ locals' = locals
      /\ accesses' = {Load(result, n, m, stack), Store(Top.slot, n, n, stack)}
  BY DEF EndMember
<1>2. Slot[Top.type] = n /\ Slot[String] = m
  BY <1>1, HandlerStacks, SlotIsSize, Sizes DEF LaidOut, Accounting, At
<1>3. /\ Running /\ Innermost(stack) <= Top.at /\ Innermost(stack) \in Int /\ Top.at \in Int
      /\ stack \in ScopedStacks /\ Top.type \in Members /\ n \in Nat /\ m \in Nat
      /\ Top.slot = Top.at + n /\ result = (Top.at + n) + m /\ stack.committed = result
  BY <1>1, <1>2, MemberHeights
<1>4. n <= m
  BY <1>3, TypesAssumption
<1> HIDE DEF n, m
<1>5. Safe(Load(result, n, m, stack))
  <2>1. result \in Int /\ result <= stack.committed
    BY <1>3
  <2> QED  BY <1>3, <1>4, <2>1, LoadSafe
<1>6. Safe(Store(Top.slot, n, n, stack))
  <2>1. /\ Top.slot \in Int /\ Top.slot <= stack.committed /\ n <= n
        /\ Innermost(stack) <= Top.slot - n
    BY <1>3
  <2> QED  BY <1>1, <1>3, <2>1, StoreSafe
<1> QED  BY <1>1, <1>5, <1>6, AllSafe

LEMMA EndCastSafe ==
  ASSUME LaidOut, EndCast PROVE AccessesAreSafe'
<1> DEFINE l == Size[Top.left]
           n == Size[Top.type]
           c == CommitStack(PushStack(PopStack(stack, l), n))
<1>1. /\ At("cast", "value") /\ locals' = locals
      /\ \/ accesses' = {Load(stack.allocated, l, l, stack), Store(c.allocated, n, n, c)}
         \/ accesses' = {}
  BY Zenon DEF EndCast
<1>2. /\ Slot[Top.left] = l /\ Slot[Top.type] = n
      /\ c = Pushed(PopStack(stack, Slot[Top.left]), Top.type)
  BY <1>1, HandlerStacks, SlotIsSize DEF LaidOut, Accounting, Pushed, At
<1>3. /\ Running /\ Innermost(stack) <= Top.at /\ Innermost(stack) \in Int /\ Top.at \in Int
      /\ stack \in ScopedStacks /\ n \in Nat /\ l \in Nat
      /\ stack.allocated = Top.at + l /\ stack.committed = stack.allocated
      /\ c \in ScopedStacks /\ c.allocated = Top.at + n /\ c.committed = Top.at + n
  BY <1>1, <1>2, CastHeights
<1> HIDE DEF c, l, n
<1>4. Safe(Load(stack.allocated, l, l, stack))
  <2>1. stack.allocated \in Int /\ stack.allocated <= stack.committed /\ l <= l
    BY <1>3
  <2> QED  BY <1>3, <2>1, LoadSafe
<1>5. Safe(Store(c.allocated, n, n, c))
  <2>1. c.allocated \in Int /\ c.allocated <= c.committed /\ n <= n
        /\ Innermost(stack) <= c.allocated - n
    BY <1>3
  <2> QED  BY <1>1, <1>3, <2>1, StoreSafe
<1> QED  BY <1>1, <1>4, <1>5, AllSafe

(* The slot of a declaration lies below all other variables.               *)
LEMMA EndDeclarationSafe ==
  ASSUME TypedFeatures, LaidOut, EndDeclaration PROVE AccessesAreSafe'
<1> DEFINE n == Size[Top.type]
           variable == [type |-> Top.type, offset |-> Top.slot]
           a == Assign(variable, stack)
<1>1. At("declaration", "initializer")
  BY DEF EndDeclaration
<1>2. /\ Running /\ Top.type \in ValueTypes /\ Top.left \in Initializers(Top.type)
      /\ Top.at \in Int /\ Top.slot = Top.at + n /\ n \in Nat
      /\ \A k \in 1 .. Len(locals) : locals[k].offset <= Top.at
  BY <1>1, DeclarationHeights, SlotIsSize
<1>3. Top.left = Top.type
  BY <1>2 DEF TypedFeatures, Initializers
<1>4. /\ stack \in ScopedStacks /\ result = Top.slot + n /\ stack.committed = result
  BY <1>1, <1>3, DeclarationHeights, SlotIsSize
<1>5. accesses' = {Load(result, n, n, stack), a} /\ locals' = Append(locals, variable)
  BY <1>3 DEF EndDeclaration
<1>6. /\ a.mode = "store" /\ a.slot = Top.slot /\ a.size = n /\ a.of = n
      /\ a.rsp = stack.committed /\ a.assigns = Top.slot
  BY DEF Assign
<1>7. /\ variable \in Locals /\ locals \in Seq(Locals) /\ Len(locals) \in Nat
      /\ variable.offset = Top.slot
  BY <1>2, Offsets DEF Locals, ValueTypes
<1> HIDE DEF n, variable, a
<1>8. Safe(Load(result, n, n, stack))
  <2>1. result \in Int /\ result <= stack.committed /\ n <= n
    BY <1>2, <1>4
  <2> QED  BY <1>2, <1>4, <2>1, LoadSafe
<1>9. Safe(a)
  <2>1. a.slot <= a.rsp /\ a.size <= a.of
    BY <1>2, <1>4, <1>6
  <2>2. ASSUME NEW k \in 1 .. Len(locals')
        PROVE  a.assigns = locals'[k].offset \/ locals'[k].offset <= a.slot - a.size
    <3>1. /\ Len(locals') = Len(locals) + 1 /\ locals'[Len(locals) + 1] = variable
          /\ \A j \in 1 .. Len(locals) : locals'[j] = locals[j]
      BY <1>5, <1>7, AppendProperties
    <3>2. CASE k = Len(locals) + 1
      BY <1>6, <1>7, <3>1, <3>2
    <3>3. CASE k \in 1 .. Len(locals)
      <4>1. locals'[k].offset <= Top.at
        BY <1>2, <3>1, <3>3
      <4>2. a.slot - a.size = Top.at
        BY <1>2, <1>6
      <4> QED  BY <4>1, <4>2
    <3> QED  BY <1>7, <3>1, <3>2, <3>3
  <2> QED  BY <2>1, <2>2 DEF Safe
<1> QED  BY <1>5, <1>8, <1>9, AllSafe

(* The condition of an if and of a loop.                                   *)
LEMMA ConditionSafe ==
  ASSUME LaidOut, IfThen \/ ForBody PROVE AccessesAreSafe'
<1> DEFINE n == Size[Bool]
<1>1. /\ Running /\ AwaitsExpression(Top)
      /\ accesses' = {Load(result, n, n, stack)}
  BY DEF IfThen, ForBody, At, AwaitsExpression
<1>2. n \in Nat
  BY TypesAssumption DEF Types
<1>3. stack \in ScopedStacks /\ stack.committed = result /\ result \in Int
  BY <1>1, ResultHeights
<1> HIDE DEF n
<1>4. result <= stack.committed /\ n <= n
  BY <1>2, <1>3
<1>5. Safe(Load(result, n, n, stack))
  BY <1>2, <1>3, <1>4, LoadSafe
<1> QED  BY <1>1, <1>5, AllSafe

(* The return value lies above all variables.                              *)
LEMMA EndReturnSafe ==
  ASSUME TypedFeatures, LaidOut, EndReturn PROVE AccessesAreSafe'
<1> DEFINE n == Size[signature.returns]
           a == Store(ReturnOffset(signature), n, n, stack)
<1>1. At("return", "value")
  BY DEF EndReturn
<1>2. Top.left = signature.returns
  BY <1>1, ReturnHeights DEF TypedFeatures, ReturnTypes
<1>3. accesses' = {Load(result, n, n, stack), a} /\ locals' = locals
  BY <1>2 DEF EndReturn
<1>4. /\ n \in Nat /\ stack \in ScopedStacks /\ Innermost(stack) \in Int /\ Innermost(stack) >= 0
      /\ result = Innermost(stack) + n /\ stack.committed = result
      /\ ReturnOffset(signature) \in Int /\ ReturnOffset(signature) <= 0
      /\ \A k \in 1 .. Len(locals) :
           ReturnOffset(signature) <= locals[k].offset - Slot[locals[k].type]
  <2>1. ReturnOffset(signature) = ReturnAt(Slot, Gap, signature)
    BY SlotIsSize DEF ReturnOffset
  <2> QED  BY <1>1, <1>2, <2>1, ReturnHeights, SlotIsSize
<1>5. a.slot = ReturnOffset(signature) /\ a.size = n /\ a.of = n /\ a.rsp = stack.committed
  BY DEF Store
<1> HIDE DEF n, a
<1>6. Safe(Load(result, n, n, stack))
  <2>1. result \in Int /\ result <= stack.committed /\ n <= n
    BY <1>4
  <2> QED  BY <1>4, <2>1, LoadSafe
<1>7. Safe(a)
  <2>1. a.slot <= a.rsp /\ a.size <= a.of
    BY <1>4, <1>5
  <2>2. \A k \in 1 .. Len(locals') : a.slot <= locals'[k].offset - Size[locals'[k].type]
    BY <1>3, <1>4, <1>5, SlotIsSize
  <2> QED  BY <2>1, <2>2 DEF Safe
<1> QED  BY <1>3, <1>6, <1>7, AllSafe

(* The other actions emit no access.                                       *)
LEMMA SilentSafe ==
  ASSUME \/ BeginBinary \/ BinaryRight \/ BeginCall \/ BeginArgument \/ EndArgument \/ EndCall
         \/ BeginAssign \/ BeginMember \/ BeginCast
         \/ DeclareOnly \/ BeginDeclaration \/ BeginDiscard \/ EndDiscard \/ BeginIf \/ EndIf
         \/ BeginFor \/ ForCondition \/ ForStep \/ EndFor \/ BeginReturn
         \/ BeginBlock \/ NextStatement \/ EndBlock \/ EndFunction
  PROVE  AccessesAreSafe'
<1>1. accesses' = {}
  BY DEF BeginBinary, BinaryRight, BeginCall, BeginArgument, EndArgument, EndCall,
         BeginAssign, BeginMember, BeginCast,
         DeclareOnly, BeginDeclaration, BeginDiscard, EndDiscard, BeginIf, EndIf,
         BeginFor, ForCondition, ForStep, EndFor, BeginReturn,
         BeginBlock, NextStatement, EndBlock, EndFunction
<1> QED  BY <1>1, AllSafe

LEMMA NextSafe ==
  ASSUME TypedFeatures, LaidOut, AccessesAreSafe, [Next]_vars PROVE AccessesAreSafe'
<1>1. CASE EmitExpression
  BY <1>1, PushSafe, EndBinarySafe, EndAssignSafe, EndMemberSafe, EndCastSafe, SilentSafe, Zenon
     DEF EmitExpression
<1>2. CASE EmitStatement
  BY <1>2, EndDeclarationSafe, ConditionSafe, EndReturnSafe, SilentSafe, Zenon
     DEF EmitStatement
<1>3. CASE UNCHANGED vars
  <2>1. accesses' = accesses /\ locals' = locals
    BY <1>3 DEF vars
  <2> QED  BY <2>1 DEF AccessesAreSafe, AccessesInBounds, StoresSpareVariables, Visible
<1> QED  BY <1>1, <1>2, <1>3 DEF Next

LEMMA AccessesAlwaysSafe == ASSUME TypedFeatures PROVE Spec => []AccessesAreSafe
<1>1. AlignedFeatures
  BY DEF TypedFeatures
<1>2. Init => AccessesAreSafe
  BY DEF Init, AccessesAreSafe, AccessesInBounds, StoresSpareVariables
<1>3. LaidOut /\ AccessesAreSafe /\ [Next]_vars => AccessesAreSafe'
  BY NextSafe
<1> QED  BY <1>1, <1>2, <1>3, LayoutHolds, PTL DEF Spec

(* No load or store is emitted for memory below the stack pointer, and     *)
(* none reaches past the value it is meant for, in any program without the *)
(* constructs that mix sizes.                                              *)
THEOREM AccessesStayInBounds == ASSUME TypedFeatures PROVE Spec => []AccessesInBounds
<1>1. AccessesAreSafe => AccessesInBounds
  BY DEF AccessesAreSafe
<1> QED  BY <1>1, AccessesAlwaysSafe, PTL

(* No store overlaps a variable that is visible but the one it assigns.    *)
THEOREM StoresNeverClash == ASSUME TypedFeatures PROVE Spec => []StoresSpareVariables
<1>1. AccessesAreSafe => StoresSpareVariables
  BY DEF AccessesAreSafe
<1> QED  BY <1>1, AccessesAlwaysSafe, PTL

-----------------------------------------------------------------------------
(* The outermost scope.                                                    *)

(* No stack operation touches the outermost scope.                         *)
LEMMA OutermostScope ==
  ASSUME NEW s \in ScopedStacks
  PROVE  /\ \A n : PushStack(s, n).scopes[1] = s.scopes[1] /\ PopStack(s, n).scopes[1] = s.scopes[1]
         /\ CommitStack(s).scopes[1] = s.scopes[1]
         /\ PushScope(s).scopes[1] = s.scopes[1]
         /\ CanPopScope(s) => PopScope(s).scopes[1] = s.scopes[1]
         /\ \A n \in Int : CanAllocateStack(s) => AllocateStack(s, n).scopes[1] = s.scopes[1]
<1>1. s.scopes \in Seq(Int) /\ Len(s.scopes) \in Nat \ {0} /\ s \in Stacks
  BY DEF ScopedStacks, Stacks
<1>2. /\ \A n : PushStack(s, n).scopes = s.scopes /\ PopStack(s, n).scopes = s.scopes
      /\ CommitStack(s).scopes = s.scopes
  BY <1>1 DEF PushStack, PopStack, CommitStack, Stacks
<1>3. PushScope(s).scopes[1] = s.scopes[1]
  <2>1. Innermost(s) \in Int
    BY <1>1 DEF Innermost
  <2>2. PushScope(s).scopes = Append(s.scopes, Innermost(s))
    BY <1>1 DEF PushScope, Stacks
  <2> QED  BY <1>1, <2>1, <2>2
<1>4. CanPopScope(s) => PopScope(s).scopes[1] = s.scopes[1]
  <2> SUFFICES ASSUME CanPopScope(s) PROVE PopScope(s).scopes[1] = s.scopes[1]
    OBVIOUS
  <2>1. PopScope(s).scopes = SubSeq(s.scopes, 1, Len(s.scopes) - 1)
    BY <1>1 DEF PopScope, Stacks
  <2>2. Len(s.scopes) - 1 \in 0 .. Len(s.scopes) /\ 1 \in 1 .. Len(s.scopes) - 1
    BY <1>1 DEF CanPopScope
  <2> QED  BY <1>1, <2>1, <2>2, Prefix
<1>5. \A n \in Int : CanAllocateStack(s) => AllocateStack(s, n).scopes[1] = s.scopes[1]
  <2> SUFFICES ASSUME NEW n \in Int, CanAllocateStack(s)
               PROVE  AllocateStack(s, n).scopes[1] = s.scopes[1]
    OBVIOUS
  <2>1. AllocateStack(s, n).scopes = [s.scopes EXCEPT ![Len(s.scopes)] = @ + n]
    BY <1>1 DEF AllocateStack, Stacks
  <2>2. 1 # Len(s.scopes) /\ 1 \in 1 .. Len(s.scopes)
    <3>1. PICK k \in Nat : k = Len(s.scopes)
      BY <1>1
    <3>2. k > 1
      BY <3>1, Zenon DEF CanAllocateStack
    <3>3. \A m \in Nat : m > 1 => 1 # m /\ 1 \in 1 .. m
      OBVIOUS
    <3> QED  BY <3>1, <3>2, <3>3, Zenon
  <2> QED  BY <1>1, <2>1, <2>2
<1> QED  BY <1>2, <1>3, <1>4, <1>5

LEMMA StepOutermost ==
  ASSUME Sound, EmitterNext PROVE Running /\ stack'.scopes[1] = stack.scopes[1]
<1>1. Running
  BY DEF EmitterNext, ExpressionStep, StatementStep, PushStep, BeginBinaryStep, BinaryRightStep,
         EndBinaryStep, BeginCallStep, BeginArgumentStep, EndArgumentStep, EndCallStep,
         BeginAssignStep, EndAssignStep, BeginMemberStep, EndMemberStep, BeginCastStep, EndCastStep,
         DeclareOnlyStep, BeginDeclarationStep, EndDeclarationStep, BeginDiscardStep,
         EndDiscardStep, BeginIfStep, IfThenStep, EndIfStep, BeginForStep, ForConditionStep,
         ForBodyStep, ForStepStep, EndForStep, BeginReturnStep, EndReturnStep, BeginBlockStep,
         NextStatementStep, EndBlockStep, EndFunctionStep, At, Entering
<1>2. /\ stack \in ScopedStacks /\ Top.type \in Types /\ Top.left \in Types /\ Top.right \in Types
      /\ Top.argsize \in Int /\ \A t \in Types : Slot[t] \in Int
      /\ String \in Types /\ Bool \in Types /\ \A t \in ValueTypes : t \in Types
  BY <1>1, HandlerStacks, ActivationFields, Sizes, TypesAssumption DEF ValueTypes
<1> DEFINE Rooted(s) == s \in ScopedStacks /\ s.scopes[1] = stack.scopes[1]
<1>3. ASSUME NEW s, Rooted(s), NEW n \in Int
      PROVE  /\ Rooted(PushStack(s, n)) /\ Rooted(PopStack(s, n)) /\ Rooted(CommitStack(s))
             /\ Rooted(PushScope(s)) /\ (CanPopScope(s) => Rooted(PopScope(s)))
             /\ CanAllocateStack(s) => Rooted(AllocateStack(s, n))
  <2>1. s \in ScopedStacks /\ s.scopes[1] = stack.scopes[1]
    BY <1>3
  <2>2. /\ PushStack(s, n) \in ScopedStacks /\ PopStack(s, n) \in ScopedStacks
        /\ CommitStack(s) \in ScopedStacks /\ PushScope(s) \in ScopedStacks
        /\ AllocateStack(s, n) \in ScopedStacks /\ (CanPopScope(s) => PopScope(s) \in ScopedStacks)
    BY <2>1, ScopedStackTypes
  <2>3. /\ PushStack(s, n).scopes[1] = s.scopes[1] /\ PopStack(s, n).scopes[1] = s.scopes[1]
        /\ CommitStack(s).scopes[1] = s.scopes[1] /\ PushScope(s).scopes[1] = s.scopes[1]
        /\ (CanPopScope(s) => PopScope(s).scopes[1] = s.scopes[1])
        /\ (CanAllocateStack(s) => AllocateStack(s, n).scopes[1] = s.scopes[1])
    BY <2>1, OutermostScope
  <2> QED  BY <2>1, <2>2, <2>3, Zenon
<1>4. Rooted(stack)
  BY <1>2
<1> HIDE DEF Rooted
<1>5. CASE ExpressionStep
  <2>1. /\ Rooted(Pushed(stack, Top.type)) /\ Rooted(PushStack(stack, Slot[Top.type]))
        /\ Rooted(CommitStack(PopStack(stack, Top.argsize))) /\ Rooted(Popped(stack, String))
        /\ Rooted(Pushed(PopStack(stack, Slot[Top.left]), Top.type))
        /\ Rooted(Pushed(PopStack(PopStack(stack, Slot[Top.right]), Slot[Top.left]), Top.type))
    BY <1>2, <1>3, <1>4 DEF Pushed, Popped
  <2>2. Rooted(stack')
    BY <1>4, <1>5, <2>1
       DEF ExpressionStep, PushStep, BeginBinaryStep, BinaryRightStep,
           EndBinaryStep, BeginCallStep, BeginArgumentStep, EndArgumentStep, EndCallStep,
           BeginAssignStep, EndAssignStep, BeginMemberStep, EndMemberStep, BeginCastStep,
           EndCastStep, Goes, Returns, Yields
  <2> QED  BY <1>1, <2>2 DEF Rooted
<1>6. CASE StatementStep
  <2>1. /\ Rooted(Popped(stack, Top.left)) /\ Rooted(Popped(stack, Bool))
        /\ Rooted(PushScope(stack)) /\ Rooted(PushScope(Popped(stack, Bool)))
        /\ CanPopScope(stack) => Rooted(PopScope(stack)) /\ Rooted(CommitStack(PopScope(stack)))
        /\ CanPopScope(Popped(stack, Top.left)) =>
             Rooted(CommitStack(PopScope(Popped(stack, Top.left))))
        /\ CanAllocateStack(stack) => \A t \in ValueTypes : Rooted(AllocateStack(stack, Slot[t]))
    <3>1. Rooted(Popped(stack, Top.left)) /\ Rooted(Popped(stack, Bool))
      BY <1>2, <1>3, <1>4 DEF Popped
    <3>2. /\ Rooted(PushScope(stack)) /\ Rooted(PushScope(Popped(stack, Bool)))
          /\ CanPopScope(stack) => Rooted(PopScope(stack))
          /\ CanPopScope(Popped(stack, Top.left)) => Rooted(PopScope(Popped(stack, Top.left)))
      BY <1>3, <1>4, <3>1, 0 \in Int
    <3>3. \A s : Rooted(s) => Rooted(CommitStack(s))
      BY <1>3, 0 \in Int
    <3>4. CanAllocateStack(stack) => \A t \in ValueTypes : Rooted(AllocateStack(stack, Slot[t]))
      BY <1>2, <1>3, <1>4
    <3> QED  BY <3>1, <3>2, <3>3, <3>4
  <2>2. Rooted(stack')
    BY <1>4, <1>6, <2>1
       DEF StatementStep, DeclareOnlyStep, BeginDeclarationStep, EndDeclarationStep,
           BeginDiscardStep, EndDiscardStep, BeginIfStep, IfThenStep, EndIfStep, BeginForStep,
           ForConditionStep, ForBodyStep, ForStepStep, EndForStep, BeginReturnStep, EndReturnStep,
           BeginBlockStep, NextStatementStep, EndBlockStep, EndFunctionStep, Goes, Returns
  <2> QED  BY <1>1, <2>2 DEF Rooted
<1> QED  BY <1>1, <1>5, <1>6 DEF EmitterNext

LEMMA FirstKept ==
  ASSUME Sound, Running, NEW f, NEW g, f.scope = Top.scope,
         frames' = Becoming(f) \/ frames' = Calling(f, g) \/ frames' = Returning
  PROVE  frames' # <<>> => frames'[1].scope = frames[1].scope
<1> DEFINE S == Activations \cup {f, g}
<1> HIDE DEF Activations
<1>1. /\ frames \in Seq(Activations) /\ frames \in Seq(S) /\ f \in S /\ g \in S
      /\ Len(frames) \in 1 .. Len(frames) /\ Len(frames) \in Nat /\ Top = frames[Len(frames)]
  BY FrameTypes DEF Sound, TypeOK
<1> HIDE DEF S
<1>2. /\ Becoming(f) \in Seq(S) /\ Len(Becoming(f)) = Len(frames)
      /\ \A j \in 1 .. Len(frames) : Becoming(f)[j] = IF j = Len(frames) THEN f ELSE frames[j]
  BY <1>1, ExceptSeq DEF Becoming
<1>3. 1 \in 1 .. Len(frames)
  BY <1>1
<1>4. Becoming(f)[1].scope = frames[1].scope
  BY <1>1, <1>2, <1>3
<1>5. CASE frames' = Becoming(f)
  BY <1>4, <1>5
<1>6. CASE frames' = Calling(f, g)
  <2>1. \A j \in 1 .. Len(frames) : Calling(f, g)[j] = Becoming(f)[j]
    BY <1>1, <1>2, AppendProperties DEF Calling
  <2> QED  BY <1>3, <1>4, <1>6, <2>1
<1>7. CASE frames' = Returning
  <2>1. /\ frames' \in Seq(Activations) /\ Len(frames') = Len(frames) - 1
        /\ \A i \in 1 .. Len(frames) - 1 : frames'[i] = frames[i]
    BY <1>1, <1>7, ReturnShape
  <2>2. frames' # <<>> => 1 \in 1 .. Len(frames) - 1
    BY <1>1, <2>1
  <2> QED  BY <2>1, <2>2
<1> QED  BY <1>5, <1>6, <1>7

LEMMA ExpressionFirst ==
  ASSUME Sound, Running, ExpressionStep
  PROVE  \/ frames' = Returning
         \/ \E f, g : f.scope = Top.scope /\ (frames' = Becoming(f) \/ frames' = Calling(f, g))
<1>1. Top \in Activations
  BY Context
<1>2. CASE PushStep \/ EndBinaryStep \/ EndCallStep \/ EndAssignStep \/ EndMemberStep \/ EndCastStep
  BY <1>2 DEF PushStep, EndBinaryStep, EndCallStep, EndAssignStep, EndMemberStep, EndCastStep,
              Yields, Returns
<1>3. CASE BeginBinaryStep
  <2>1. PICK l, r : frames' = Calling([Top EXCEPT !.kind = "binary", !.step = "left",
                                                  !.left = l, !.right = r],
                                      Expression(l, stack))
    BY <1>3 DEF BeginBinaryStep, Goes
  <2>2. [Top EXCEPT !.kind = "binary", !.step = "left", !.left = l, !.right = r].scope = Top.scope
    BY <1>1 DEF Activations
  <2> QED  BY <2>1, <2>2
<1>4. CASE BinaryRightStep
  <2>1. [Top EXCEPT !.step = "right", !.slot = result].scope = Top.scope
    BY <1>1 DEF Activations
  <2> QED  BY <1>4, <2>1 DEF BinaryRightStep, Goes
<1>5. CASE BeginCallStep
  <2>1. PICK callee, n : frames' = Becoming([Top EXCEPT !.kind = "call", !.step = "arguments",
                                                        !.slot = n, !.callee = callee])
    BY <1>5 DEF BeginCallStep, Goes
  <2>2. [Top EXCEPT !.kind = "call", !.step = "arguments",
                    !.slot = n, !.callee = callee].scope = Top.scope
    BY <1>1 DEF Activations
  <2> QED  BY <2>1, <2>2
<1>6. CASE BeginArgumentStep
  <2>1. PICK t : frames' = Calling([Top EXCEPT !.step = "argument", !.left = t], Expression(t, stack))
    BY <1>6 DEF BeginArgumentStep, Goes
  <2>2. [Top EXCEPT !.step = "argument", !.left = t].scope = Top.scope
    BY <1>1 DEF Activations
  <2> QED  BY <2>1, <2>2
<1>7. CASE EndArgumentStep
  <2>1. PICK x, n : frames' = Becoming([Top EXCEPT !.step = "arguments", !.args = x, !.argsize = n])
    BY <1>7 DEF EndArgumentStep, Goes
  <2>2. [Top EXCEPT !.step = "arguments", !.args = x, !.argsize = n].scope = Top.scope
    BY <1>1 DEF Activations
  <2> QED  BY <2>1, <2>2
<1>8. CASE BeginAssignStep
  <2>1. PICK n, t : frames' = Calling([Top EXCEPT !.kind = "assign", !.step = "value",
                                                  !.slot = n, !.left = t],
                                      Expression(t, stack))
    BY <1>8 DEF BeginAssignStep, Goes
  <2>2. [Top EXCEPT !.kind = "assign", !.step = "value", !.slot = n, !.left = t].scope = Top.scope
    BY <1>1 DEF Activations
  <2> QED  BY <2>1, <2>2
<1>9. CASE BeginMemberStep
  <2>1. PICK n, s : frames' = Calling([Top EXCEPT !.kind = "member", !.step = "string", !.slot = n],
                                      Expression(String, s))
    BY <1>9 DEF BeginMemberStep, Goes
  <2>2. [Top EXCEPT !.kind = "member", !.step = "string", !.slot = n].scope = Top.scope
    BY <1>1 DEF Activations
  <2> QED  BY <2>1, <2>2
<1>10. CASE BeginCastStep
  <2>1. PICK t : frames' = Calling([Top EXCEPT !.kind = "cast", !.step = "value", !.left = t],
                                   Expression(t, stack))
    BY <1>10 DEF BeginCastStep, Goes
  <2>2. [Top EXCEPT !.kind = "cast", !.step = "value", !.left = t].scope = Top.scope
    BY <1>1 DEF Activations
  <2> QED  BY <2>1, <2>2
<1> QED  BY <1>2, <1>3, <1>4, <1>5, <1>6, <1>7, <1>8, <1>9, <1>10, Zenon DEF ExpressionStep

LEMMA StatementFirst ==
  ASSUME Sound, Running, StatementStep
  PROVE  \/ frames' = Returning
         \/ \E f, g : f.scope = Top.scope /\ (frames' = Becoming(f) \/ frames' = Calling(f, g))
<1>1. Top \in Activations
  BY Context
<1>2. CASE \/ DeclareOnlyStep \/ EndDeclarationStep \/ EndDiscardStep \/ EndIfStep \/ EndForStep
           \/ EndReturnStep \/ EndBlockStep \/ EndFunctionStep
  BY <1>2 DEF DeclareOnlyStep, EndDeclarationStep, EndDiscardStep, EndIfStep, EndForStep,
              EndReturnStep, EndBlockStep, EndFunctionStep, Returns
<1>3. CASE BeginDeclarationStep
  <2>1. PICK t, u, n, c :
          frames' = Calling([Top EXCEPT !.kind = "declaration", !.step = "initializer",
                                        !.type = t, !.left = u, !.slot = n],
                            Expression(u, c))
    BY <1>3 DEF BeginDeclarationStep, Goes
  <2>2. [Top EXCEPT !.kind = "declaration", !.step = "initializer",
                    !.type = t, !.left = u, !.slot = n].scope = Top.scope
    BY <1>1 DEF Activations
  <2> QED  BY <2>1, <2>2
<1>4. CASE BeginDiscardStep
  <2>1. PICK t : frames' = Calling([Top EXCEPT !.kind = "discard", !.step = "value", !.left = t],
                                   Expression(t, stack))
    BY <1>4 DEF BeginDiscardStep, Goes
  <2>2. [Top EXCEPT !.kind = "discard", !.step = "value", !.left = t].scope = Top.scope
    BY <1>1 DEF Activations
  <2> QED  BY <2>1, <2>2
<1>5. CASE BeginIfStep
  <2>1. [Top EXCEPT !.kind = "if", !.step = "condition"].scope = Top.scope
    BY <1>1 DEF Activations
  <2> QED  BY <1>5, <2>1 DEF BeginIfStep, Goes
<1>6. CASE IfThenStep
  <2>1. PICK n, g : frames' = Calling([Top EXCEPT !.step = "then", !.patch = n], g)
    BY <1>6 DEF IfThenStep, Goes
  <2>2. [Top EXCEPT !.step = "then", !.patch = n].scope = Top.scope
    BY <1>1 DEF Activations
  <2> QED  BY <2>1, <2>2
<1>7. CASE BeginForStep
  <2>1. [Top EXCEPT !.kind = "for", !.step = "declaration"].scope = Top.scope
    BY <1>1 DEF Activations
  <2> QED  BY <1>7, <2>1 DEF BeginForStep, Goes
<1>8. CASE ForConditionStep
  <2>1. [Top EXCEPT !.step = "condition", !.start = Label].scope = Top.scope
    BY <1>1 DEF Activations
  <2> QED  BY <1>8, <2>1 DEF ForConditionStep, Goes
<1>9. CASE ForBodyStep
  <2>1. PICK n, g : frames' = Calling([Top EXCEPT !.step = "body", !.patch = n], g)
    BY <1>9 DEF ForBodyStep, Goes
  <2>2. [Top EXCEPT !.step = "body", !.patch = n].scope = Top.scope
    BY <1>1 DEF Activations
  <2> QED  BY <2>1, <2>2
<1>10. CASE ForStepStep
  <2>1. PICK t, g : frames' = Calling([Top EXCEPT !.step = "step", !.left = t], g)
    BY <1>10 DEF ForStepStep
  <2>2. [Top EXCEPT !.step = "step", !.left = t].scope = Top.scope
    BY <1>1 DEF Activations
  <2> QED  BY <2>1, <2>2
<1>11. CASE BeginReturnStep
  <2>1. PICK t : frames' = Calling([Top EXCEPT !.kind = "return", !.step = "value", !.left = t],
                                   Expression(t, stack))
    BY <1>11 DEF BeginReturnStep, Goes
  <2>2. [Top EXCEPT !.kind = "return", !.step = "value", !.left = t].scope = Top.scope
    BY <1>1 DEF Activations
  <2> QED  BY <2>1, <2>2
<1>12. CASE BeginBlockStep
  <2>1. [Top EXCEPT !.kind = "block", !.step = "statements"].scope = Top.scope
    BY <1>1 DEF Activations
  <2> QED  BY <1>12, <2>1 DEF BeginBlockStep, Goes
<1>13. CASE NextStatementStep
  BY <1>13 DEF NextStatementStep, Goes
<1> QED  BY <1>2, <1>3, <1>4, <1>5, <1>6, <1>7, <1>8, <1>9, <1>10, <1>11, <1>12, <1>13, Zenon
            DEF StatementStep

(* Whatever the program, the function's scope starts at depth 0 for as     *)
(* long as it is emitted.                                                  *)
THEOREM EmissionGrounded == EmitterSpec => []Grounded
<1>1. EmitterInit => Grounded
  <2> SUFFICES ASSUME EmitterInit PROVE Grounded
    OBVIOUS
  <2> DEFINE f == [Activation("function", Void, FreshStack, Len(locals))
                     EXCEPT !.kind = "function", !.step = "statements"]
  <2>1. frames = <<f>> /\ stack = PushScope(FreshStack)
    BY Zenon DEF EmitterInit
  <2>2. f.scope = 1
    BY DEF Activation, FreshStack
  <2>3. stack.scopes = Append(<<0>>, 0)
    BY <2>1 DEF PushScope, FreshStack, Innermost
  <2> HIDE DEF f
  <2> QED  BY <2>1, <2>2, <2>3 DEF Grounded
<1>2. Sound /\ Grounded /\ [EmitterNext]_emission => Grounded'
  <2> SUFFICES ASSUME Sound, Grounded, [EmitterNext]_emission PROVE Grounded'
    OBVIOUS
  <2>1. CASE EmitterNext
    <3>1. Running /\ stack'.scopes[1] = stack.scopes[1]
      BY <2>1, StepOutermost
    <3>2. \/ frames' = Returning
          \/ \E f, g : f.scope = Top.scope /\ (frames' = Becoming(f) \/ frames' = Calling(f, g))
      BY <2>1, <3>1, ExpressionFirst, StatementFirst DEF EmitterNext
    <3>3. frames' # <<>> => frames'[1].scope = frames[1].scope
      BY <3>1, <3>2, FirstKept
    <3> QED  BY <3>1, <3>3 DEF Grounded, Running
  <2>2. CASE UNCHANGED emission
    BY <2>2 DEF emission, Grounded, Running
  <2> QED  BY <2>1, <2>2
<1> QED  BY <1>1, <1>2, EmissionSound, PTL DEF EmitterSpec

-----------------------------------------------------------------------------
(* The stack pointer of the emitted code.                                  *)

(* The frames that are no larger than the immediates that are exact.       *)
ShortFrame == stack.committed <= 127

(* Instruction a moves the stack pointer to depth d, where the code after  *)
(* it is compiled for.  Nothing runs on after a jump or a return.          *)
Rests(a, d) ==
  /\ a.op \notin {"jmp", "ret"} => d = a.depth + a.by
  /\ a.op = "ret" => a.depth = 0
  /\ a.op = "jmp" => a.to # 0
  /\ a.op \in {"je", "call"} => a.by = 0

(* Text t is compiled from depth 0 to depth d, each instruction for the    *)
(* depth at which the one before rests.  Only the conditional jumps at the *)
(* positions W have no target yet.                                         *)
Threaded(t, d, W) ==
  /\ t = <<>> => d = 0
  /\ t # <<>> => t[1].depth = 0
  /\ \A i \in 1 .. Len(t) :
       /\ Rests(t[i], IF i = Len(t) THEN d ELSE t[i + 1].depth)
       /\ t[i].op = "je" /\ t[i].to = 0 => i \in W

(* The jumps that the activations F have still to patch.                   *)
Waiting(F) == {F[k].patch : k \in {j \in 1 .. Len(F) : WaitingForPatch(F[j])}}

(* Text u is t and instruction a.                                          *)
Extends(u, t, a) ==
  /\ u \in Seq(Instructions) /\ Len(u) = Len(t) + 1 /\ u[Len(u)] = a
  /\ \A i \in 1 .. Len(t) : u[i] = t[i]

LEMMA Appended ==
  ASSUME NEW t \in Seq(Instructions), NEW a \in Instructions
  PROVE  Extends(Append(t, a), t, a) /\ Extends(t \o <<a>>, t, a)
<1> HIDE DEF Instructions
<1> QED  BY DEF Extends

LEMMA ThreadedOn ==
  ASSUME NEW t \in Seq(Instructions), NEW u, NEW a \in Instructions, NEW W, NEW d, NEW e,
         Threaded(t, d, W), Extends(u, t, a), a.depth = d, Rests(a, e),
         a.op = "je" /\ a.to = 0 => Len(u) \in W
  PROVE  Threaded(u, e, W)
<1>1. Len(t) \in Nat /\ u \in Seq(Instructions) /\ Len(u) = Len(t) + 1 /\ u[Len(u)] = a
  BY DEF Extends
<1>2. u # <<>> /\ Len(u) \in 1 .. Len(u)
  BY <1>1
<1>3. u[1].depth = 0
  <2>1. CASE t = <<>>
    <3>1. Len(u) = 1
      BY <1>1, <2>1
    <3> QED  BY <1>1, <2>1, <3>1 DEF Threaded
  <2>2. CASE t # <<>>
    <3>1. 1 \in 1 .. Len(t)
      BY <2>2
    <3> QED  BY <2>2, <3>1 DEF Threaded, Extends
  <2> QED  BY <2>1, <2>2
<1>4. ASSUME NEW i \in 1 .. Len(u)
      PROVE  /\ Rests(u[i], IF i = Len(u) THEN e ELSE u[i + 1].depth)
             /\ u[i].op = "je" /\ u[i].to = 0 => i \in W
  <2>1. CASE i = Len(u)
    BY <1>1, <2>1
  <2>2. CASE i = Len(t)
    <3>1. i \in 1 .. Len(t) /\ i # Len(u) /\ i + 1 = Len(u)
      BY <1>1, <1>4, <2>2
    <3>2. Rests(t[i], d) /\ (t[i].op = "je" /\ t[i].to = 0 => i \in W)
      BY <2>2, <3>1 DEF Threaded
    <3>3. u[i] = t[i] /\ u[i + 1].depth = d
      BY <1>1, <3>1 DEF Extends
    <3> QED  BY <3>1, <3>2, <3>3
  <2>3. CASE i # Len(u) /\ i # Len(t)
    <3>1. i \in 1 .. Len(t) /\ i + 1 \in 1 .. Len(t)
      BY <1>1, <1>4, <2>3
    <3>2. Rests(t[i], t[i + 1].depth) /\ (t[i].op = "je" /\ t[i].to = 0 => i \in W)
      BY <2>3, <3>1 DEF Threaded
    <3>3. u[i] = t[i] /\ u[i + 1] = t[i + 1]
      BY <3>1 DEF Extends
    <3> QED  BY <2>3, <3>2, <3>3
  <2> QED  BY <2>1, <2>2, <2>3
<1> QED  BY <1>2, <1>3, <1>4 DEF Threaded

(* More jumps may wait.                                                    *)
LEMMA ThreadedWider ==
  ASSUME NEW t, NEW d, NEW W, NEW V, Threaded(t, d, W), W \subseteq V
  PROVE  Threaded(t, d, V)
BY DEF Threaded

(* A jump that is patched does not wait any more.                          *)
LEMMA ThreadedPatch ==
  ASSUME NEW t \in Seq(Instructions), NEW d, NEW W, NEW p \in Nat, NEW to \in Nat \ {0},
         Threaded(t, d, W)
  PROVE  Threaded([t EXCEPT ![p].to = to], d, W \ {p})
<1> DEFINE u == [t EXCEPT ![p].to = to]
<1>1. Len(u) = Len(t) /\ u \in Seq(Instructions)
  BY PatchType
<1>2. \A i \in 1 .. Len(t) : /\ u[i].op = t[i].op /\ u[i].depth = t[i].depth /\ u[i].by = t[i].by
                             /\ u[i].to = IF i = p THEN to ELSE t[i].to
  BY DEF Instructions
<1>3. u = <<>> <=> t = <<>>
  BY <1>1
<1>4. t # <<>> => 1 \in 1 .. Len(t)
  OBVIOUS
<1> HIDE DEF u
<1>5. ASSUME NEW i \in 1 .. Len(u)
      PROVE  /\ Rests(u[i], IF i = Len(u) THEN d ELSE u[i + 1].depth)
             /\ u[i].op = "je" /\ u[i].to = 0 => i \in W \ {p}
  <2>1. i \in 1 .. Len(t)
    BY <1>1, <1>5
  <2>2. /\ Rests(t[i], IF i = Len(t) THEN d ELSE t[i + 1].depth)
        /\ t[i].op = "je" /\ t[i].to = 0 => i \in W
    BY <2>1 DEF Threaded
  <2>3. i # Len(t) => i + 1 \in 1 .. Len(t)
    BY <2>1
  <2>4. Rests(u[i], IF i = Len(u) THEN d ELSE u[i + 1].depth)
    BY <1>1, <1>2, <2>1, <2>2, <2>3 DEF Rests
  <2> QED  BY <1>2, <2>1, <2>2, <2>4
<1> QED  BY <1>2, <1>3, <1>4, <1>5 DEF Threaded, u

-----------------------------------------------------------------------------
(* The jumps that wait.                                                    *)

LEMMA WaitingAtFrames ==
  ASSUME NEW F, NEW k \in 1 .. Len(F), WaitingForPatch(F[k])
  PROVE  F[k].patch \in Waiting(F)
BY DEF Waiting

(* An activation goes on, keeps the jump it waits for and may call.        *)
LEMMA WaitingKept ==
  ASSUME NEW F \in Seq(Activations), F # <<>>, NEW f \in Activations, NEW G \in Seq(Activations),
         Len(F) <= Len(G), G[Len(F)] = f, \A k \in 1 .. Len(F) - 1 : G[k] = F[k],
         WaitingForPatch(F[Len(F)]) => WaitingForPatch(f) /\ f.patch = F[Len(F)].patch
  PROVE  Waiting(F) \subseteq Waiting(G)
<1> SUFFICES ASSUME NEW k \in 1 .. Len(F), WaitingForPatch(F[k]) PROVE F[k].patch \in Waiting(G)
  BY DEF Waiting
<1>1. k \in 1 .. Len(G)
  OBVIOUS
<1>2. CASE k = Len(F)
  BY <1>1, <1>2, WaitingAtFrames
<1>3. CASE k # Len(F)
  <2>1. k \in 1 .. Len(F) - 1
    BY <1>3
  <2>2. G[k] = F[k]
    BY <2>1
  <2> QED  BY <1>1, <2>2, WaitingAtFrames
<1> QED  BY <1>2, <1>3

(* An activation returns, and with it goes the jump it waited for.         *)
LEMMA WaitingReturned ==
  ASSUME frames \in Seq(Activations), Running, frames' = Returning
  PROVE  /\ Waiting(frames) \ {Top.patch} \subseteq Waiting(frames')
         /\ ~WaitingForPatch(Top) => Waiting(frames) \subseteq Waiting(frames')
<1>1. /\ frames' \in Seq(Activations) /\ Len(frames') = Len(frames) - 1
      /\ \A k \in 1 .. Len(frames') : frames'[k] = frames[k]
  BY ReturnShape DEF Running
<1>2. ASSUME NEW k \in 1 .. Len(frames), WaitingForPatch(frames[k]), k # Len(frames)
      PROVE  frames[k].patch \in Waiting(frames')
  <2>1. k \in 1 .. Len(frames')
    BY <1>1, <1>2
  <2>2. frames'[k] = frames[k]
    BY <1>1, <2>1
  <2> QED  BY <1>2, <2>1, <2>2, WaitingAtFrames
<1>3. \A k \in 1 .. Len(frames) : k = Len(frames) => frames[k] = Top
  BY DEF Top
<1> QED  BY <1>2, <1>3 DEF Waiting

(* An activation goes on, or calls another.                                *)
LEMMA WaitingGoesOn ==
  ASSUME frames \in Seq(Activations), Running, NEW f, NEW g,
         frames' = Calling(f, g) \/ frames' = Becoming(f),
         WaitingForPatch(Top) => WaitingForPatch(f) /\ f.patch = Top.patch
  PROVE  /\ Waiting(frames) \subseteq Waiting(frames')
         /\ WaitingForPatch(f) => f.patch \in Waiting(frames')
<1> DEFINE S == Activations \cup {f, g}
<1>1. Len(frames) \in 1 .. Len(frames) /\ Len(frames) \in Nat /\ Top = frames[Len(frames)]
  BY FrameTypes
<1>2. frames \in Seq(S) /\ f \in S /\ g \in S
  <2>1. \A i \in 1 .. Len(frames) : frames[i] \in S
    <3> HIDE DEF Activations
    <3> QED  OBVIOUS
  <2> HIDE DEF Activations
  <2> QED  BY <2>1
<1> HIDE DEF S
<1>3. /\ Becoming(f) \in Seq(S) /\ Len(Becoming(f)) = Len(frames)
      /\ \A j \in 1 .. Len(frames) : Becoming(f)[j] = IF j = Len(frames) THEN f ELSE frames[j]
  BY <1>1, <1>2, ExceptSeq DEF Becoming
<1>4. /\ Calling(f, g) \in Seq(S) /\ Len(Calling(f, g)) = Len(frames) + 1
      /\ \A j \in 1 .. Len(frames) : Calling(f, g)[j] = Becoming(f)[j]
  BY <1>2, <1>3, AppendProperties DEF Calling
<1>5. /\ Len(frames) <= Len(frames') /\ Len(frames') \in Nat /\ frames'[Len(frames)] = f
      /\ \A k \in 1 .. Len(frames) - 1 : frames'[k] = frames[k]
  <2>1. CASE frames' = Becoming(f)
    BY <1>1, <1>3, <2>1
  <2>2. CASE frames' = Calling(f, g)
    BY <1>1, <1>3, <1>4, <2>2
  <2> QED  BY <2>1, <2>2
<1>6. Len(frames) \in 1 .. Len(frames')
  BY <1>1, <1>5
<1>7. ASSUME NEW k \in 1 .. Len(frames), WaitingForPatch(frames[k])
      PROVE  frames[k].patch \in Waiting(frames')
  <2>1. k \in 1 .. Len(frames')
    BY <1>1, <1>5
  <2>2. CASE k = Len(frames)
    BY <1>1, <1>5, <1>6, <1>7, <2>2, WaitingAtFrames
  <2>3. CASE k # Len(frames)
    <3>1. k \in 1 .. Len(frames) - 1
      BY <2>3
    <3>2. frames'[k] = frames[k]
      BY <1>5, <3>1
    <3> QED  BY <1>7, <2>1, <3>2, WaitingAtFrames
  <2> QED  BY <2>2, <2>3
<1>8. WaitingForPatch(f) => f.patch \in Waiting(frames')
  BY <1>5, <1>6, WaitingAtFrames
<1> QED  BY <1>7, <1>8 DEF Waiting

-----------------------------------------------------------------------------
(* The adjustments.                                                        *)

Short(s) ==
  /\ s \in ScopedStacks /\ s.committed \in Int
  /\ 0 <= s.committed /\ s.committed <= 127

LEMMA AdjustmentRests ==
  ASSUME NEW s, NEW c, Short(s), Short(c)
  PROVE  /\ Adjustment(s, c) \in Instructions /\ Adjustment(s, c).depth = s.committed
         /\ Adjustment(s, c).op = "rsp" /\ Adjustment(s, c).to = 0
         /\ Rests(Adjustment(s, c), c.committed)
<1>1. /\ Adjustment(s, c) \in Instructions /\ Adjustment(s, c).depth = s.committed
      /\ Adjustment(s, c).to = 0
  BY AdjustmentFields DEF Short
<1>2. Moves(c.committed - s.committed) = c.committed - s.committed
  BY DEF Short, Moves, Immediate
<1>3. /\ Adjustment(s, c).op = "rsp" /\ Adjustment(s, c).depth = s.committed
      /\ Adjustment(s, c).by = c.committed - s.committed
  BY <1>2 DEF Adjustment, Instruction
<1>4. c.committed = s.committed + (c.committed - s.committed)
  BY DEF Short
<1> QED  BY <1>1, <1>3, <1>4 DEF Rests

LEMMA OtherRests ==
  ASSUME NEW s, Short(s), NEW op \in {"je", "jmp", "call", "ret"}
  PROVE  /\ Instruction(op, s, 0) \in Instructions /\ Instruction(op, s, 0).op = op
         /\ Instruction(op, s, 0).depth = s.committed /\ Instruction(op, s, 0).to = 0
         /\ op \in {"je", "call"} => Rests(Instruction(op, s, 0), s.committed)
<1>1. /\ Instruction(op, s, 0) \in Instructions /\ Instruction(op, s, 0).op = op
      /\ Instruction(op, s, 0).depth = s.committed /\ Instruction(op, s, 0).to = 0
  BY OtherFields DEF Short
<1>2. Instruction(op, s, 0).by = 0 /\ s.committed = s.committed + 0
  BY DEF Instruction, Short
<1> QED  BY <1>1, <1>2 DEF Rests

(* Text u is t and an adjustment from s to c.                              *)
LEMMA AdjustmentThreaded ==
  ASSUME NEW t \in Seq(Instructions), NEW s, NEW c, Short(s), Short(c), NEW W,
         Threaded(t, s.committed, W)
  PROVE  /\ Append(t, Adjustment(s, c)) \in Seq(Instructions)
         /\ Len(Append(t, Adjustment(s, c))) = Len(t) + 1
         /\ Threaded(Append(t, Adjustment(s, c)), c.committed, W)
         /\ Append(t, Adjustment(s, c))[Len(t) + 1].op = "rsp"
<1> DEFINE a == Adjustment(s, c)
           u == Append(t, a)
<1>1. a \in Instructions /\ a.depth = s.committed /\ a.op = "rsp" /\ Rests(a, c.committed)
  BY AdjustmentRests
<1> HIDE DEF a
<1>2. Extends(u, t, a)
  BY <1>1, Appended
<1>3. u \in Seq(Instructions) /\ Len(u) = Len(t) + 1 /\ u[Len(t) + 1] = a
  BY <1>2 DEF Extends
<1> HIDE DEF u
<1>4. Threaded(u, c.committed, W)
  BY <1>1, <1>2, ThreadedOn
<1> QED  BY <1>1, <1>3, <1>4 DEF a, u

LEMMA ThreadedAppend ==
  ASSUME NEW t \in Seq(Instructions), NEW a \in Instructions, NEW W, NEW d, NEW e,
         Threaded(t, d, W), a.depth = d, Rests(a, e),
         a.op = "je" /\ a.to = 0 => Len(t) + 1 \in W
  PROVE  /\ Append(t, a) \in Seq(Instructions) /\ Len(Append(t, a)) = Len(t) + 1
         /\ Threaded(Append(t, a), e, W) /\ Append(t, a)[Len(t) + 1] = a
<1> DEFINE u == Append(t, a)
<1>1. Extends(u, t, a)
  BY Appended
<1>2. u \in Seq(Instructions) /\ Len(u) = Len(t) + 1 /\ u[Len(t) + 1] = a
  BY <1>1 DEF Extends
<1> HIDE DEF u
<1>3. Threaded(u, e, W)
  BY <1>1, <1>2, ThreadedOn
<1> QED  BY <1>2, <1>3 DEF u

LEMMA InTurn ==
  ASSUME NEW t \in Seq(Instructions), NEW a \in Instructions, NEW b \in Instructions
  PROVE  t \o <<a, b>> = Append(Append(t, a), b)
<1> HIDE DEF Instructions
<1> QED  OBVIOUS

LEMMA AllInTurn ==
  ASSUME NEW t \in Seq(Instructions),
         NEW a \in Instructions, NEW b \in Instructions, NEW c \in Instructions
  PROVE  t \o <<a, b, c>> = Append(Append(Append(t, a), b), c)
<1> HIDE DEF Instructions
<1> QED  OBVIOUS

-----------------------------------------------------------------------------
(* The actions keep the text compiled for the stack.                       *)

LaidClear == LaidOut /\ ClearsGap
Compiled == Threaded(text, stack.committed, Waiting(frames))

LEMMA ShortStacks == LaidClear /\ ShortFrame => Short(stack)
<1> SUFFICES ASSUME LaidClear, ShortFrame PROVE Short(stack)
  OBVIOUS
<1>1. stack \in ScopedStacks /\ stack.committed \in Int
  <2>1. stack \in ScopedStacks
    BY DEF LaidClear, LaidOut, Accounting, Sound, TypeOK, ScopedStacks
  <2> QED  BY <2>1, StackHeights
<1>2. 0 <= stack.committed /\ stack.committed <= 127
  BY <1>1 DEF LaidClear, ClearsGap, ShortFrame
<1> QED  BY <1>1, <1>2 DEF Short

LEMMA ShortAfter == (LaidClear /\ ShortFrame => Short(stack))'
BY ShortStacks, PTL

LEMMA ValueDroppedShort ==
  ASSUME LaidClear, ShortFrame, Running, ~IsExpression(Top), AwaitsExpression(Top),
         Awaited(Top) = Top.left
  PROVE  Short(Popped(stack, Top.left))
<1> DEFINE c == Popped(stack, Top.left)
<1>1. /\ c \in ScopedStacks /\ c.committed = Innermost(stack) /\ c.allocated = Innermost(stack)
      /\ stack \in ScopedStacks /\ Innermost(stack) \in Int
      /\ Len(stack.scopes) \in Nat \ {0}
  BY ValueDropped DEF Popped, LaidClear, LaidOut
<1>2. Innermost(stack) >= 0 /\ Slot[Top.left] \in Nat
  <2>1. Top.left \in Types
    BY HandlerStacks DEF LaidClear, LaidOut, Accounting
  <2>2. Len(stack.scopes) \in 1 .. Len(stack.scopes)
    BY <1>1
  <2>3. Innermost(stack) >= 0
    BY <2>2 DEF LaidClear, LaidOut, Layout, Placed, Innermost
  <2> QED  BY <2>1, <2>3, Sizes
<1>3. result = stack.allocated /\ stack.committed = result /\ result \in Int
  BY ResultHeights DEF LaidClear
<1>4. c.allocated = stack.allocated - Slot[Top.left]
  <2>1. PICK n \in Int : n = Slot[Top.left]
    BY <1>2
  <2>2. CommitStack(PopStack(stack, n)).allocated = stack.allocated - n
    BY <1>1, <2>1, CommittedPop
  <2> QED  BY <2>1, <2>2 DEF Popped
<1> HIDE DEF c
<1>5. c.committed <= stack.committed
  BY <1>1, <1>2, <1>3, <1>4
<1>6. stack.committed <= 127
  BY DEF ShortFrame
<1> QED  BY <1>1, <1>2, <1>3, <1>5, <1>6 DEF Short, c

(* What the state is before a handler.                                     *)
LEMMA Handlers ==
  ASSUME LaidClear, Running
  PROVE  /\ Sound /\ Accounting /\ text \in Seq(Instructions) /\ Len(text) \in Nat
         /\ frames \in Seq(Activations) /\ Top \in Activations /\ stack \in ScopedStacks
BY HandlerStacks, Accounts DEF LaidClear, LaidOut, Accounting

(* Nothing is emitted and the stack pointer stays where it is.             *)
LEMMA SilentCompiled ==
  ASSUME LaidClear, Compiled,
         \/ BeginBinary \/ BinaryRight \/ BeginCall \/ BeginArgument \/ EndArgument
         \/ BeginAssign \/ EndAssign \/ BeginCast
         \/ DeclareOnly \/ BeginDeclaration \/ BeginDiscard \/ BeginIf
         \/ BeginFor \/ ForCondition \/ ForStep \/ BeginReturn
         \/ BeginBlock \/ NextStatement
  PROVE  Compiled' /\ text' = text
<1>1. Running
  BY DEF BeginBinary, BinaryRight, BeginCall, BeginArgument, EndArgument,
         BeginAssign, EndAssign, BeginCast, DeclareOnly, BeginDeclaration, BeginDiscard, BeginIf,
         BeginFor, ForCondition, ForStep, BeginReturn, BeginBlock, NextStatement, At, Entering
<1>2. text' = text
  BY Zenon
     DEF BeginBinary, BinaryRight, BeginCall, BeginArgument, EndArgument,
         BeginAssign, EndAssign, BeginCast, DeclareOnly, BeginDeclaration, BeginDiscard, BeginIf,
         BeginFor, ForCondition, ForStep, BeginReturn, BeginBlock, NextStatement
<1>3. stack'.committed = stack.committed
  <2>1. /\ \A n : PushStack(stack, n).committed = stack.committed
        /\ \A n : AllocateStack(stack, n).committed = stack.committed
        /\ PushScope(stack).committed = stack.committed
    BY <1>1, Handlers DEF ScopedStacks, Stacks, PushStack, AllocateStack, PushScope
  <2> QED
    BY <2>1
       DEF BeginBinary, BinaryRight, BeginCall, BeginArgument, EndArgument,
         BeginAssign, EndAssign, BeginCast, DeclareOnly, BeginDeclaration, BeginDiscard, BeginIf,
         BeginFor, ForCondition, ForStep, BeginReturn, BeginBlock, NextStatement
<1>4. Waiting(frames) \subseteq Waiting(frames')
  <2>1. CASE EndAssign \/ DeclareOnly
    <3>1. frames' = Returning /\ ~WaitingForPatch(Top)
      BY <2>1 DEF EndAssign, DeclareOnly, At, Entering, WaitingForPatch
    <3> QED  BY <1>1, <3>1, Handlers, WaitingReturned
  <2>2. CASE ForStep
    <3>1. PICK t, g : frames' = Calling([Top EXCEPT !.step = "step", !.left = t], g)
      BY <2>2 DEF ForStep
    <3> DEFINE f == [Top EXCEPT !.step = "step", !.left = t]
    <3>2. Top.kind = "for" /\ Top \in Activations
      BY <1>1, <2>2, Handlers DEF ForStep, At
    <3>3. f.kind = "for" /\ f.step = "step" /\ f.patch = Top.patch
      BY <3>2 DEF Activations
    <3>4. WaitingForPatch(f)
      BY <3>3 DEF WaitingForPatch
    <3> HIDE DEF f
    <3>5. frames' = Calling(f, g)
      BY <3>1 DEF f
    <3> QED  BY <1>1, <3>3, <3>4, <3>5, Handlers, WaitingGoesOn
  <2>3. CASE ~(EndAssign \/ DeclareOnly \/ ForStep)
    <3>1. \E f, g : frames' = Calling(f, g) \/ frames' = Becoming(f)
      BY <2>3
         DEF BeginBinary, BinaryRight, BeginCall, BeginArgument, EndArgument,
             BeginAssign, BeginCast, BeginDeclaration, BeginDiscard, BeginIf,
             BeginFor, ForCondition, BeginReturn, BeginBlock, NextStatement
    <3>2. ~WaitingForPatch(Top)
      <4>1. \/ Top.step \in {"enter", "left", "arguments", "argument"}
            \/ Top.kind = "for" /\ Top.step = "declaration"
            \/ Top.step = "statements"
        BY <2>3
           DEF BeginBinary, BinaryRight, BeginCall, BeginArgument, EndArgument,
               BeginAssign, BeginCast, BeginDeclaration, BeginDiscard, BeginIf,
               BeginFor, ForCondition, BeginReturn, BeginBlock, NextStatement, At, Entering
      <4> QED  BY <4>1 DEF WaitingForPatch
    <3> QED  BY <1>1, <3>1, <3>2, Handlers, WaitingGoesOn
  <2> QED  BY <2>1, <2>2, <2>3
<1>5. Threaded(text, stack.committed, Waiting(frames'))
  BY <1>4, ThreadedWider DEF Compiled
<1> QED  BY <1>2, <1>3, <1>5 DEF Compiled

(* The stack pointer is adjusted.                                          *)
LEMMA AdjustingCompiled ==
  ASSUME LaidClear, Short(stack), Short(stack'), Compiled,
         \/ EmitLiteral \/ EmitIdentifier \/ EndBinary \/ BeginMember \/ EndMember
         \/ EndDeclaration \/ EndDiscard \/ EndBlock
  PROVE  Compiled' /\ text' # <<>> /\ text'[Len(text')].op = "rsp"
<1>1. Running
  BY DEF EmitLiteral, EmitIdentifier, EndBinary, BeginMember, EndMember, EndDeclaration,
         EndDiscard, EndBlock, At, Entering
<1>2. text' = Append(text, Adjustment(stack, stack'))
  BY Zenon DEF EmitLiteral, EmitIdentifier, EndBinary, BeginMember, EndMember, EndDeclaration,
               EndDiscard, EndBlock
<1>3. ~WaitingForPatch(Top)
  <2>1. Top.step \in {"enter", "right", "string", "initializer", "value", "statements"}
    BY DEF EmitLiteral, EmitIdentifier, EndBinary, BeginMember, EndMember, EndDeclaration,
           EndDiscard, EndBlock, At, Entering
  <2> QED  BY <2>1 DEF WaitingForPatch
<1>4. Waiting(frames) \subseteq Waiting(frames')
  <2>1. CASE BeginMember
    <3>1. \E f, g : frames' = Calling(f, g)
      BY <2>1 DEF BeginMember
    <3> QED  BY <1>1, <1>3, <3>1, Handlers, WaitingGoesOn
  <2>2. CASE ~BeginMember
    <3>1. frames' = Returning
      BY <2>2 DEF EmitLiteral, EmitIdentifier, EndBinary, EndMember, EndDeclaration,
                  EndDiscard, EndBlock
    <3> QED  BY <1>1, <1>3, <3>1, Handlers, WaitingReturned
  <2> QED  BY <2>1, <2>2
<1>5. Threaded(text, stack.committed, Waiting(frames'))
  BY <1>4, ThreadedWider DEF Compiled
<1>6. text \in Seq(Instructions) /\ Len(text) \in Nat
  BY <1>1, Handlers
<1> HIDE DEF Instructions
<1>7. /\ text' \in Seq(Instructions) /\ Len(text') = Len(text) + 1
      /\ Threaded(text', stack'.committed, Waiting(frames')) /\ text'[Len(text) + 1].op = "rsp"
  BY <1>2, <1>5, <1>6, AdjustmentThreaded
<1> QED  BY <1>6, <1>7 DEF Compiled

LEMMA EndCastCompiled ==
  ASSUME LaidClear, Short(stack), Short(stack'), Compiled, EndCast
  PROVE  /\ Compiled'
         /\ text' = text \/ (text' # <<>> /\ text'[Len(text')].op = "rsp")
<1>1. Running /\ frames' = Returning /\ ~WaitingForPatch(Top)
  BY DEF EndCast, At, WaitingForPatch
<1>2. Waiting(frames) \subseteq Waiting(frames')
  BY <1>1, Handlers, WaitingReturned
<1>3. Threaded(text, stack.committed, Waiting(frames'))
  BY <1>2, ThreadedWider DEF Compiled
<1>4. CASE text' = Append(text, Adjustment(stack, stack'))
  <2>1. text \in Seq(Instructions) /\ Len(text) \in Nat
    BY <1>1, Handlers
  <2> HIDE DEF Instructions
  <2>2. /\ text' \in Seq(Instructions) /\ Len(text') = Len(text) + 1
        /\ Threaded(text', stack'.committed, Waiting(frames')) /\ text'[Len(text) + 1].op = "rsp"
    BY <1>3, <1>4, <2>1, AdjustmentThreaded
  <2> QED  BY <2>1, <2>2 DEF Compiled
<1>5. CASE UNCHANGED <<stack, text>>
  BY <1>3, <1>5 DEF Compiled
<1>6. text' = Append(text, Adjustment(stack, stack')) \/ UNCHANGED <<stack, text>>
  BY DEF EndCast
<1> QED  BY <1>4, <1>5, <1>6

(* The callee returns with the stack pointer as it was.                    *)
LEMMA EndCallCompiled ==
  ASSUME LaidClear, Short(stack), Short(stack'), Compiled, EndCall
  PROVE  Compiled' /\ text' # <<>> /\ text'[Len(text')].op = "rsp"
<1> DEFINE a == Instruction("call", stack, 0)
           b == Adjustment(stack, stack')
           u == Append(text, a)
           W == Waiting(frames')
<1>1. Running /\ frames' = Returning /\ ~WaitingForPatch(Top) /\ text' = text \o <<a, b>>
  BY DEF EndCall, At, WaitingForPatch
<1>2. Waiting(frames) \subseteq W
  BY <1>1, Handlers, WaitingReturned
<1>3. Threaded(text, stack.committed, W)
  BY <1>2, ThreadedWider DEF Compiled
<1>4. text \in Seq(Instructions) /\ Len(text) \in Nat
  BY <1>1, Handlers
<1>5. /\ a \in Instructions /\ a.op = "call" /\ a.depth = stack.committed /\ Rests(a, stack.committed)
      /\ b \in Instructions
  BY AdjustmentRests, OtherRests
<1>6. text' = Append(u, b)
  <2> HIDE DEF a, b, Instructions
  <2> QED  BY <1>1, <1>4, <1>5, InTurn
<1> HIDE DEF Instructions, a, W
<1>7. u \in Seq(Instructions) /\ Len(u) = Len(text) + 1 /\ Threaded(u, stack.committed, W)
  BY <1>3, <1>4, <1>5, ThreadedAppend
<1> HIDE DEF u
<1>8. /\ text' \in Seq(Instructions) /\ Len(text') = Len(u) + 1
      /\ Threaded(text', stack'.committed, W) /\ text'[Len(u) + 1].op = "rsp"
  BY <1>6, <1>7, AdjustmentThreaded
<1> QED  BY <1>4, <1>7, <1>8 DEF Compiled, W

(* The jump of a condition waits for the end of what depends on it.        *)
LEMMA ConditionCompiled ==
  ASSUME LaidClear, Short(stack), Short(stack'), Compiled, IfThen \/ ForBody
  PROVE  Compiled'
<1> DEFINE c == Popped(stack, Bool)
           a == Adjustment(stack, c)
           b == Instruction("je", c, 0)
           u == Append(text, a)
           W == Waiting(frames')
<1>1. Running /\ ~WaitingForPatch(Top) /\ Top \in Activations /\ text \in Seq(Instructions)
      /\ Len(text) \in Nat /\ Accounting /\ Sound
  <2>1. Running /\ ~WaitingForPatch(Top)
    BY DEF IfThen, ForBody, At, WaitingForPatch
  <2> QED  BY <2>1, Handlers
<1>2. c \in ScopedStacks /\ c = CommitStack(PopStack(stack, Size[Bool]))
  BY <1>1, HandlerStacks, SlotIsSize, TypesAssumption DEF Popped
<1>3. text' = text \o <<a, b>> /\ (stack' = c \/ stack' = PushScope(c))
  BY <1>2 DEF IfThen, ForBody
<1>4. stack'.committed = c.committed
  <2>1. PushScope(c).committed = c.committed
    BY DEF PushScope, Popped, CommitStack, PopStack
  <2> QED  BY <1>3, <2>1
<1>5. Short(c)
  BY <1>2, <1>4 DEF Short
<1>6. Waiting(frames) \subseteq W /\ Len(text) + 2 \in W
  <2>1. \E f, g : /\ frames' = Calling(f, g) /\ WaitingForPatch(f) /\ f.patch = Len(text) + 2
    <3>1. CASE IfThen
      <4> DEFINE f == [Top EXCEPT !.step = "then", !.patch = Label + 1]
      <4>1. f.step = "then" /\ f.patch = Label + 1
        BY <1>1 DEF Activations
      <4>2. \E g : frames' = Calling(f, g)
        BY <3>1 DEF IfThen
      <4>3. WaitingForPatch(f) /\ f.patch = Len(text) + 2
        BY <1>1, <4>1 DEF WaitingForPatch, Label
      <4> HIDE DEF f
      <4> QED  BY <4>2, <4>3
    <3>2. CASE ForBody
      <4> DEFINE f == [Top EXCEPT !.step = "body", !.patch = Label + 1]
      <4>1. f.kind = Top.kind /\ f.step = "body" /\ f.patch = Label + 1
        BY <1>1 DEF Activations
      <4>2. (\E g : frames' = Calling(f, g)) /\ Top.kind = "for"
        BY <3>2 DEF ForBody, At
      <4>3. WaitingForPatch(f) /\ f.patch = Len(text) + 2
        BY <1>1, <4>1, <4>2 DEF WaitingForPatch, Label
      <4> HIDE DEF f
      <4> QED  BY <4>2, <4>3
    <3> QED  BY <3>1, <3>2
  <2>2. PICK f, g : frames' = Calling(f, g) /\ WaitingForPatch(f) /\ f.patch = Len(text) + 2
    BY <2>1
  <2> QED  BY <1>1, <2>2, Handlers, WaitingGoesOn
<1>7. Threaded(text, stack.committed, W)
  BY <1>6, ThreadedWider DEF Compiled
<1>8. /\ b \in Instructions /\ b.op = "je" /\ b.depth = c.committed /\ Rests(b, c.committed)
      /\ a \in Instructions
  BY <1>5, AdjustmentRests, OtherRests
<1>9. text' = Append(u, b)
  <2>1. text' = text \o <<a, b>>
    BY <1>3
  <2> HIDE DEF a, b, Instructions
  <2> QED  BY <1>1, <1>8, <2>1, InTurn
<1> HIDE DEF Instructions, b, W, c
<1>10. u \in Seq(Instructions) /\ Len(u) = Len(text) + 1 /\ Threaded(u, c.committed, W)
  BY <1>1, <1>5, <1>7, AdjustmentThreaded
<1> HIDE DEF u
<1>11. Len(u) + 1 \in W
  BY <1>1, <1>6, <1>10
<1>12. Threaded(text', c.committed, W)
  BY <1>8, <1>9, <1>10, <1>11, ThreadedAppend
<1> QED  BY <1>4, <1>12 DEF Compiled, W

(* The jump over the body goes behind the release of the scope.            *)
LEMMA EndIfCompiled ==
  ASSUME LaidClear, Short(stack), Short(stack'), Compiled, EndIf
  PROVE  Compiled' /\ text' # <<>> /\ text'[Len(text')].op = "rsp"
<1> DEFINE t == [text EXCEPT ![Top.patch].to = Label + 1]
           W == Waiting(frames')
<1>1. Running /\ frames' = Returning /\ text' = Append(t, Adjustment(stack, stack'))
  BY DEF EndIf, At
<1>2. /\ text \in Seq(Instructions) /\ Len(text) \in Nat /\ Top.patch \in Nat
      /\ Label + 1 \in Nat \ {0}
  BY <1>1, Handlers, ActivationFields DEF Label
<1>3. Waiting(frames) \ {Top.patch} \subseteq W
  BY <1>1, Handlers, WaitingReturned
<1>4. /\ Threaded(t, stack.committed, Waiting(frames) \ {Top.patch})
      /\ t \in Seq(Instructions) /\ Len(t) = Len(text)
  BY <1>2, ThreadedPatch, PatchType DEF Compiled
<1> HIDE DEF t, W, Instructions
<1>5. Threaded(t, stack.committed, W)
  BY <1>3, <1>4, ThreadedWider
<1>6. /\ text' \in Seq(Instructions) /\ Len(text') = Len(t) + 1
      /\ Threaded(text', stack'.committed, W) /\ text'[Len(t) + 1].op = "rsp"
  BY <1>1, <1>4, <1>5, AdjustmentThreaded
<1> QED  BY <1>2, <1>4, <1>6 DEF Compiled, W

(* The step's value is dropped, the loop jumps back, and behind the jump   *)
(* its scope is released.                                                  *)
LEMMA EndForCompiled ==
  ASSUME LaidClear, ShortFrame, Short(stack), Short(stack'), Compiled, EndFor
  PROVE  Compiled' /\ text' # <<>> /\ text'[Len(text')].op = "rsp"
<1> DEFINE stepped == Popped(stack, Top.left)
           t == [text EXCEPT ![Top.patch].to = Label + 2]
           a == Adjustment(stack, stepped)
           jump == [Instruction("jmp", stepped, 0) EXCEPT !.to = Top.start]
           b == Adjustment(stepped, stack')
           u == Append(t, a)
           v == Append(u, jump)
           W == Waiting(frames')
<1>1. Running /\ frames' = Returning /\ Top.kind = "for" /\ Top.step = "step"
  BY DEF EndFor, At
<1>2. /\ stepped = CommitStack(PopStack(stack, Size[Top.left]))
      /\ text \in Seq(Instructions) /\ Len(text) \in Nat /\ Accounting
  BY <1>1, Handlers, HandlerStacks, SlotIsSize DEF Popped
<1>3. text' = t \o <<a, jump, b>>
  BY <1>2 DEF EndFor
<1>4. Short(stepped)
  <2>1. ~IsExpression(Top) /\ AwaitsExpression(Top) /\ Awaited(Top) = Top.left
    BY <1>1, <1>2, InLoop DEF AwaitsExpression, Awaited
  <2> QED  BY <1>1, <2>1, ValueDroppedShort
<1>5. Top.patch \in Nat /\ Top.start \in Nat \ {0} /\ Label + 2 \in Nat \ {0}
  <2>1. Top.patch \in Nat /\ Top.start \in Nat
    BY <1>1, Handlers, ActivationFields
  <2>2. FrameDiscipline(Top)
    BY <1>1, <1>2, Accounts
  <2>3. Top.start \in 1 .. Label
    BY <1>1, <2>2 DEF FrameDiscipline, CompiledFor
  <2> QED  BY <1>2, <2>1, <2>3 DEF Label
<1>6. Waiting(frames) \ {Top.patch} \subseteq W
  BY <1>1, Handlers, WaitingReturned
<1>7. /\ Threaded(t, stack.committed, Waiting(frames) \ {Top.patch})
      /\ t \in Seq(Instructions) /\ Len(t) = Len(text)
  BY <1>2, <1>5, ThreadedPatch, PatchType DEF Compiled
<1>8. /\ a \in Instructions /\ b \in Instructions
      /\ jump \in Instructions /\ jump.op = "jmp" /\ jump.to # 0 /\ jump.depth = stepped.committed
  <2>1. a \in Instructions /\ b \in Instructions
    BY <1>4, AdjustmentRests
  <2>2. jump \in Instructions
    BY <1>4, <1>5, OtherFields DEF Short
  <2>3. jump.op = "jmp" /\ jump.to = Top.start /\ jump.depth = stepped.committed
    BY DEF Instruction
  <2> QED  BY <1>5, <2>1, <2>2, <2>3
<1>9. Rests(jump, stepped.committed)
  BY <1>8 DEF Rests
<1>10. text' = Append(v, b)
  <2> HIDE DEF a, b, jump, t, Instructions
  <2> QED  BY <1>3, <1>7, <1>8, AllInTurn
<1> HIDE DEF t, jump, W, stepped, Instructions
<1>11. Threaded(t, stack.committed, W)
  BY <1>6, <1>7, ThreadedWider
<1>12. u \in Seq(Instructions) /\ Len(u) = Len(text) + 1 /\ Threaded(u, stepped.committed, W)
  BY <1>4, <1>7, <1>11, AdjustmentThreaded
<1> HIDE DEF u
<1>13. v \in Seq(Instructions) /\ Len(v) = Len(u) + 1 /\ Threaded(v, stepped.committed, W)
  BY <1>8, <1>9, <1>12, ThreadedAppend
<1> HIDE DEF v
<1>14. /\ text' \in Seq(Instructions) /\ Len(text') = Len(v) + 1
       /\ Threaded(text', stack'.committed, W) /\ text'[Len(v) + 1].op = "rsp"
  BY <1>4, <1>10, <1>13, AdjustmentThreaded
<1> QED  BY <1>2, <1>12, <1>13, <1>14 DEF Compiled, W

(* The whole frame is released before the return.                          *)
LEMMA EndReturnCompiled ==
  ASSUME LaidClear, ShortFrame, Short(stack), Short(stack'), Compiled, EndReturn
  PROVE  Compiled'
<1> DEFINE c == Popped(stack, Top.left)
           a == Adjustment(stack, c)
           b == Adjustment(c, FreshStack)
           r == Instruction("ret", FreshStack, 0)
           u == Append(text, a)
           v == Append(u, b)
           W == Waiting(frames')
<1>1. At("return", "value") /\ Running /\ frames' = Returning /\ ~WaitingForPatch(Top)
  BY DEF EndReturn, At, WaitingForPatch
<1>2. /\ c = CommitStack(PopStack(stack, Size[Top.left])) /\ FreshStack \in ScopedStacks
      /\ text \in Seq(Instructions) /\ Len(text) \in Nat /\ Accounting
  BY <1>1, Handlers, HandlerStacks, SlotIsSize DEF Popped
<1>3. text' = text \o <<a, b, r>>
  BY <1>2 DEF EndReturn
<1>4. Short(c)
  <2>1. AwaitsExpression(Top) /\ Awaited(Top) = Top.left /\ ~IsExpression(Top)
    BY <1>1, <1>2, Accounts DEF At, AwaitsExpression, Awaited, IsExpression, InControl, KindsOf
  <2> QED  BY <1>1, <2>1, ValueDroppedShort
<1>5. Short(FreshStack) /\ FreshStack.committed = 0
  <2>1. FreshStack.committed = 0
    BY DEF FreshStack
  <2> QED  BY <1>2, <2>1 DEF Short
<1>6. Threaded(text, stack.committed, W)
  <2>1. Waiting(frames) \subseteq W
    BY <1>1, Handlers, WaitingReturned
  <2> QED  BY <2>1, ThreadedWider DEF Compiled
<1>7. /\ a \in Instructions /\ b \in Instructions
      /\ r \in Instructions /\ r.op = "ret" /\ r.depth = FreshStack.committed
  BY <1>4, <1>5, AdjustmentRests, OtherRests
<1>8. Rests(r, stack'.committed)
  BY <1>5, <1>7 DEF Rests
<1>9. text' = Append(v, r)
  <2> HIDE DEF a, b, r, Instructions
  <2> QED  BY <1>2, <1>3, <1>7, AllInTurn
<1> HIDE DEF r, W, c, Instructions
<1>10. u \in Seq(Instructions) /\ Threaded(u, c.committed, W)
  BY <1>2, <1>4, <1>6, AdjustmentThreaded
<1> HIDE DEF u
<1>11. v \in Seq(Instructions) /\ Threaded(v, FreshStack.committed, W)
  BY <1>4, <1>5, <1>10, AdjustmentThreaded
<1> HIDE DEF v
<1>12. Threaded(text', stack'.committed, W)
  BY <1>7, <1>8, <1>9, <1>11, ThreadedAppend
<1> QED  BY <1>12 DEF Compiled, W

(* Where the body ends only the scope of the function is left.             *)
LEMMA FunctionHeight ==
  ASSUME LaidClear, Grounded, At("function", "statements"), CanPopScope(stack)
  PROVE  CommitStack(PopScope(stack)).committed = 0 /\ Len(frames) = 1
<1>1. Running /\ Top.kind = "function" /\ Top.step = "statements"
  BY DEF At
<1>2. /\ frames \in Seq(Activations) /\ Len(frames) \in 1 .. Len(frames)
      /\ Top = frames[Len(frames)] /\ Accounting /\ Sound
  BY <1>1, Handlers, FrameTypes
<1>3. Len(frames) = 1
  BY <1>1, <1>2 DEF Sound, ControlDiscipline
<1>4. Top.scope = 1 /\ stack.scopes[1] = 0
  BY <1>1, <1>2, <1>3 DEF Grounded
<1>5. Len(stack.scopes) = 2
  <2>1. Len(stack.scopes) = Inner(Top)
    BY <1>1, <1>2, Accounts
  <2>2. Scoped(Top)
    BY <1>1 DEF Scoped
  <2> QED  BY <1>4, <2>1, <2>2 DEF Inner
<1>6. PopScope(stack).allocated = stack.scopes[Len(stack.scopes) - 1]
  <2>1. stack \in ScopedStacks
    BY <1>1, Handlers
  <2> QED  BY <2>1, StackFields DEF ScopedStacks
<1>7. CommitStack(PopScope(stack)).committed = PopScope(stack).allocated
  <2>1. stack \in ScopedStacks
    BY <1>1, Handlers
  <2>2. PopScope(stack) \in ScopedStacks
    BY <2>1, ScopedStackTypes, 0 \in Int
  <2> QED  BY <2>2, StackFields DEF ScopedStacks
<1> QED  BY <1>3, <1>4, <1>5, <1>6, <1>7

(* The function ends with a return.                                        *)
LEMMA EndFunctionCompiled ==
  ASSUME "missing_return" \notin Features, LaidClear, Grounded,
         Short(stack), Short(stack'), Compiled, EndFunction
  PROVE  Compiled' /\ text' # <<>> /\ text'[Len(text')].op = "ret"
<1> DEFINE a == Adjustment(stack, stack')
           r == Instruction("ret", stack', 0)
           u == Append(text, a)
           W == Waiting(frames')
<1>1. /\ At("function", "statements") /\ Running /\ CanPopScope(stack)
      /\ frames' = Returning /\ ~WaitingForPatch(Top)
  BY DEF EndFunction, At, WaitingForPatch
<1>2. text \in Seq(Instructions) /\ Len(text) \in Nat /\ stack \in ScopedStacks
  BY <1>1, Handlers
<1>3. Threaded(text, stack.committed, W)
  <2>1. Waiting(frames) \subseteq W
    BY <1>1, Handlers, WaitingReturned
  <2> QED  BY <2>1, ThreadedWider DEF Compiled
<1>4. CASE stack' = CommitStack(PopScope(stack)) /\ text' = text \o <<a, r>>
  <2>1. stack'.committed = 0
    BY <1>1, <1>4, FunctionHeight
  <2>2. /\ a \in Instructions
        /\ r \in Instructions /\ r.op = "ret" /\ r.depth = stack'.committed
    BY AdjustmentRests, OtherRests
  <2>3. Rests(r, stack'.committed)
    BY <2>1, <2>2 DEF Rests
  <2>4. text' = Append(u, r)
    <3> HIDE DEF a, r, Instructions
    <3> QED  BY <1>2, <1>4, <2>2, InTurn
  <2> HIDE DEF r, W, Instructions
  <2>5. u \in Seq(Instructions) /\ Len(u) = Len(text) + 1 /\ Threaded(u, stack'.committed, W)
    BY <1>2, <1>3, AdjustmentThreaded
  <2> HIDE DEF u
  <2>6. /\ text' \in Seq(Instructions) /\ Len(text') = Len(u) + 1
        /\ Threaded(text', stack'.committed, W) /\ text'[Len(u) + 1] = r
    BY <2>2, <2>3, <2>4, <2>5, ThreadedAppend
  <2> QED  BY <1>2, <2>2, <2>5, <2>6 DEF Compiled, W
<1>5. CASE EndsWithoutRet /\ stack' = PopScope(stack) /\ text' = text
  <2>1. text # <<>> /\ text[Len(text)].op = "ret"
    BY <1>5 DEF EndsWithoutRet
  <2>2. stack'.committed = stack.committed
    BY <1>2, <1>5, StackFields DEF ScopedStacks
  <2> QED  BY <1>3, <1>5, <2>1, <2>2 DEF Compiled
<1> QED  BY <1>4, <1>5 DEF EndFunction

-----------------------------------------------------------------------------
(* The end of the text.                                                    *)

(* Only behind an adjustment may a jump arrive whose target is not emitted *)
(* yet, and what is emitted last is a return.                              *)
Sealed == \A i \in 1 .. Len(text) : text[i].to = Label => text[Len(text)].op = "rsp"
Closed == frames = <<>> => text # <<>> /\ text[Len(text)].op = "ret"
Runnable == Compiled /\ Sealed /\ Closed

LEMMA SealedStraight ==
  ASSUME Accounting, Running, Emits PROVE Sealed'
<1>1. text \in Seq(Instructions) /\ JumpsAgree /\ Len(text) \in Nat
  BY Accounts
<1>2. /\ text' \in Seq(Instructions) /\ Len(text') \in Nat /\ Len(text) < Len(text')
      /\ \A i \in 1 .. Len(text) : text'[i] = text[i]
      /\ \A i \in Len(text) + 1 .. Len(text') : text'[i].to = 0
  BY DEF Emits, EmitsAfter, New
<1>3. ASSUME NEW i \in 1 .. Len(text') PROVE text'[i].to # Len(text') + 1
  <2>1. CASE i \in 1 .. Len(text)
    <3>1. text'[i].to = text[i].to
      BY <1>2, <2>1
    <3>2. text[i].to # 0 => text[i].to \in 1 .. Len(text) + 1
      BY <1>1, <2>1 DEF JumpsAgree, CompiledFor, Label
    <3> QED  BY <1>1, <1>2, <3>1, <3>2
  <2>2. CASE i \in Len(text) + 1 .. Len(text')
    BY <1>2, <2>2
  <2> QED  BY <1>1, <1>2, <1>3, <2>1, <2>2
<1> QED  BY <1>3 DEF Sealed, Label

LEMMA NextRunning ==
  ASSUME Next PROVE Running
BY DEF Next, EmitExpression, EmitStatement, EmitLiteral, EmitIdentifier, BeginBinary,
       BinaryRight, EndBinary, BeginCall, BeginArgument, EndArgument, EndCall, BeginAssign,
       EndAssign, BeginMember, EndMember, BeginCast, EndCast, DeclareOnly, BeginDeclaration,
       EndDeclaration, BeginDiscard, EndDiscard, BeginIf, IfThen, EndIf, BeginFor,
       ForCondition, ForBody, ForStep, EndFor, BeginReturn, EndReturn, BeginBlock, NextStatement,
       EndBlock, EndFunction, At, Entering

(* The emission ends with the activation of the function, no other returns *)
(* last.                                                                   *)
LEMMA StaysOpen ==
  ASSUME Sound, Next, ~EndFunction PROVE frames' # <<>>
<1>1. [EmitterNext]_emission /\ Running
  BY NextImplements, NextRunning
<1>2. /\ frames \in Seq(Activations) /\ Len(frames) \in 1 .. Len(frames) /\ Len(frames) \in Nat
      /\ Top = frames[Len(frames)] /\ InControl(Top)
  BY <1>1, FrameTypes, Context DEF Sound, TypeOK
<1>3. ASSUME NEW f, NEW g, frames' = Becoming(f) \/ frames' = Calling(f, g) PROVE frames' # <<>>
  <2>1. Len(Becoming(f)) = Len(frames)
    BY <1>2 DEF Becoming
  <2>2. DOMAIN Calling(f, g) # {}
    BY <1>2, <2>1 DEF Calling
  <2> QED  BY <1>2, <1>3, <2>1, <2>2
<1>4. CASE Top.kind = "function"
  <2>1. Top.step = "statements"
    BY <1>2, <1>4 DEF InControl, StepsOf
  <2>2. NextStatement
    BY <1>4, <2>1
       DEF Next, EmitExpression, EmitStatement, EmitLiteral, EmitIdentifier, BeginBinary,
           BinaryRight, EndBinary, BeginCall, BeginArgument, EndArgument, EndCall, BeginAssign,
           EndAssign, BeginMember, EndMember, BeginCast, EndCast, DeclareOnly, BeginDeclaration,
           EndDeclaration, BeginDiscard, EndDiscard, BeginIf, IfThen, EndIf, BeginFor,
           ForCondition, ForBody, ForStep, EndFor, BeginReturn, EndReturn, BeginBlock, EndBlock,
           At, Entering
  <2> QED  BY <1>3, <2>2 DEF NextStatement
<1>5. CASE Top.kind # "function"
  <2>1. Len(frames) # 1
    BY <1>2, <1>5 DEF Sound, ControlDiscipline
  <2>2. CASE frames' = Returning
    <3>1. Len(frames') = Len(frames) - 1
      BY <1>1, <1>2, <2>2, ReturnShape
    <3> QED  BY <1>2, <2>1, <3>1
  <2>3. CASE frames' # Returning /\ frames' # frames
    <3>1. \E f, g : frames' = Becoming(f) \/ frames' = Calling(f, g)
      BY <1>1, <2>3, ExpressionFirst, StatementFirst DEF EmitterNext, emission
    <3> QED  BY <1>3, <3>1
  <2> QED  BY <1>1, <2>2, <2>3 DEF Running
<1> QED  BY <1>4, <1>5

LEMMA NextRunnable ==
  ASSUME AlignedFeatures, "missing_return" \notin Features,
         LaidClear, ShortFrame, LaidClear', ShortFrame', Grounded, Runnable, Next
  PROVE  Runnable'
<1>1. Short(stack) /\ Compiled /\ Sealed /\ Sound /\ Accounting
  BY ShortStacks DEF Runnable, LaidClear, LaidOut, Accounting
<1>2. Short(stack')
  BY ShortAfter
<1>3. Running
  BY NextRunning
<1>4. ~EndFunction => Closed'
  BY <1>1, StaysOpen DEF Closed
<1>5. text' # <<>> /\ text'[Len(text')].op = "rsp" => Sealed'
  BY DEF Sealed
<1>6. text' = text => Sealed'
  BY <1>1 DEF Sealed, Label
<1>7. CASE EndFunction
  <2>1. Compiled' /\ text' # <<>> /\ text'[Len(text')].op = "ret"
    BY <1>1, <1>2, <1>7, EndFunctionCompiled
  <2>2. Emits \/ text' = text
    BY <1>1, <1>7, EndFunctionImplements DEF EndFunctionStep
  <2>3. Sealed'
    BY <1>1, <1>3, <1>6, <2>2, SealedStraight
  <2> QED  BY <2>1, <2>3 DEF Runnable, Closed
<1>8. CASE EmitExpression
  <2>1. ~EndFunction
    <3>1. EndFunction => Top.kind = "function" /\ Top.step = "statements"
      BY DEF EndFunction, At
    <3>2. Top.step # "statements"
      BY <1>8 DEF EmitExpression, EmitLiteral, EmitIdentifier, BeginBinary, BinaryRight, EndBinary,
                  BeginCall, BeginArgument, EndArgument, EndCall, BeginAssign, EndAssign,
                  BeginMember, EndMember, BeginCast, EndCast, At, Entering
    <3> QED  BY <3>1, <3>2
  <2>2. Compiled' /\ (text' = text \/ (text' # <<>> /\ text'[Len(text')].op = "rsp"))
    BY <1>1, <1>2, <1>8, AdjustingCompiled, EndCastCompiled, EndCallCompiled, SilentCompiled, Zenon
       DEF EmitExpression
  <2> QED  BY <1>4, <1>5, <1>6, <2>1, <2>2 DEF Runnable
<1>9. CASE EmitStatement /\ ~EndFunction
  <2>1. CASE IfThen \/ ForBody \/ EndReturn
    <3>1. Compiled'
      BY <1>1, <1>2, <2>1, ConditionCompiled, EndReturnCompiled
    <3>2. Emits
      BY <1>1, <2>1, IfThenImplements, ForBodyImplements, EndReturnImplements
         DEF IfThenStep, ForBodyStep, EndReturnStep, EmitsBranch
    <3> QED  BY <1>1, <1>3, <1>4, <1>9, <3>1, <3>2, SealedStraight DEF Runnable
  <2>2. CASE ~(IfThen \/ ForBody \/ EndReturn)
    <3>1. Compiled' /\ (text' = text \/ (text' # <<>> /\ text'[Len(text')].op = "rsp"))
      BY <1>1, <1>2, <1>9, <2>2, AdjustingCompiled, EndIfCompiled, EndForCompiled, SilentCompiled,
         Zenon DEF EmitStatement
    <3> QED  BY <1>4, <1>5, <1>6, <1>9, <3>1 DEF Runnable
  <2> QED  BY <2>1, <2>2
<1> QED  BY <1>7, <1>8, <1>9 DEF Next

LEMMA InitRunnable == Init => Runnable
<1> SUFFICES ASSUME Init PROVE Runnable
  OBVIOUS
<1>1. text = <<>> /\ frames # <<>> /\ stack.committed = 0
  BY DEF Init, PushScope, FreshStack
<1> QED  BY <1>1 DEF Runnable, Compiled, Threaded, Sealed, Closed

-----------------------------------------------------------------------------
(* The execution.                                                          *)

(* The code runs only when it is complete.                                 *)
Runs ==
  /\ phase = "run" => frames = <<>> /\ pc \in 1 .. Len(text) /\ depth = text[pc].depth
  /\ phase = "returned" => depth = 0

(* An instruction hands over to one compiled for the depth it leaves.      *)
LEMMA Continues ==
  ASSUME LaidClear, Runnable, frames = <<>>, pc \in 1 .. Len(text)
  PROVE  /\ text[pc].op \notin {"jmp", "ret"} =>
              /\ pc + 1 \in 1 .. Len(text)
              /\ text[pc + 1].depth = text[pc].depth + text[pc].by
         /\ text[pc].op \in {"je", "jmp"} =>
              /\ text[pc].to \in 1 .. Len(text)
              /\ text[text[pc].to].depth = text[pc].depth
         /\ text[pc].op \in {"je", "call"} => text[pc].by = 0
         /\ text[pc].op = "ret" => text[pc].depth = 0
<1>1. text \in Seq(Instructions) /\ JumpsAgree
  BY DEF LaidClear, LaidOut, Accounting, Sound, TypeOK
<1>2. text # <<>> /\ text[Len(text)].op = "ret" /\ Sealed /\ Compiled
  BY DEF Runnable, Closed
<1>3. Waiting(frames) = {}
  <2>1. 1 .. Len(frames) = {}
    OBVIOUS
  <2> QED  BY <2>1 DEF Waiting
<1>4. /\ Rests(text[pc], IF pc = Len(text) THEN stack.committed ELSE text[pc + 1].depth)
      /\ text[pc].op = "je" => text[pc].to # 0
  BY <1>2, <1>3 DEF Compiled, Threaded
<1>5. ASSUME text[pc].op \notin {"jmp", "ret"}
      PROVE  pc + 1 \in 1 .. Len(text) /\ text[pc + 1].depth = text[pc].depth + text[pc].by
  <2>1. pc # Len(text)
    BY <1>2, <1>5
  <2> QED  BY <1>1, <1>4, <1>5, <2>1 DEF Rests
<1>6. ASSUME text[pc].op \in {"je", "jmp"}
      PROVE  text[pc].to \in 1 .. Len(text) /\ text[text[pc].to].depth = text[pc].depth
  <2>1. text[pc].to # 0
    BY <1>4, <1>6 DEF Rests
  <2>2. CompiledFor(text[pc].to, text[pc].depth)
    BY <2>1, <1>1 DEF JumpsAgree
  <2>3. text[pc].to # Label
    BY <1>2 DEF Sealed
  <2>4. Len(text) \in Nat
    BY <1>1
  <2> QED  BY <2>2, <2>3, <2>4 DEF CompiledFor, Label
<1> QED  BY <1>4, <1>5, <1>6 DEF Rests

LEMMA RunsOn ==
  ASSUME LaidClear, Runnable, Runs, [RunNext]_<<vars, runVars>>
  PROVE  Runs'
<1>1. CASE Emit
  BY <1>1 DEF Emit, Runs, runVars
<1>2. CASE Enter
  <2>1. /\ frames = <<>> /\ phase' = "run" /\ pc' = 1 /\ depth' = 0
        /\ text' = text /\ frames' = frames
    BY <1>2 DEF Enter, vars
  <2>2. text # <<>> /\ text[1].depth = 0
    BY <2>1 DEF Runnable, Closed, Compiled, Threaded
  <2>3. 1 \in 1 .. Len(text)
    <3>1. text \in Seq(Instructions)
      BY DEF LaidClear, LaidOut, Accounting, Sound, TypeOK
    <3> HIDE DEF Instructions
    <3> QED  BY <2>2, <3>1
  <2> QED  BY <2>1, <2>2, <2>3 DEF Runs
<1>3. CASE AdjustRsp \/ JumpIfZero \/ Jump \/ CallReturns
  <2>1. /\ phase = "run" /\ phase' = "run" /\ pc \in 1 .. Len(text)
        /\ text' = text /\ frames' = frames
    BY <1>3 DEF AdjustRsp, JumpIfZero, Jump, CallReturns, Fetch, Execute, vars
  <2>2. frames = <<>> /\ depth = text[pc].depth
    BY <2>1 DEF Runs
  <2>3. text[pc].depth \in Int
    <3>1. text \in Seq(Instructions)
      BY DEF LaidClear, LaidOut, Accounting, Sound, TypeOK
    <3>2. \A a \in Instructions : a.depth \in Int
      BY DEF Instructions
    <3> HIDE DEF Instructions
    <3> QED  BY <2>1, <3>1, <3>2
  <2>4. pc' \in 1 .. Len(text) /\ depth' = text[pc'].depth
    <3>1. CASE AdjustRsp
      <4>1. text[pc].op = "rsp" /\ pc' = pc + 1 /\ depth' = depth + text[pc].by
        BY <3>1 DEF AdjustRsp, Fetch
      <4> QED  BY <2>1, <2>2, <4>1, Continues
    <3>2. CASE CallReturns
      <4>1. text[pc].op = "call" /\ pc' = pc + 1 /\ depth' = depth
        BY <3>2 DEF CallReturns, Fetch
      <4> QED  BY <2>1, <2>2, <2>3, <4>1, Continues
    <3>3. CASE JumpIfZero
      <4>1. text[pc].op = "je" /\ pc' \in {pc + 1, text[pc].to} /\ depth' = depth
        BY <3>3 DEF JumpIfZero, Fetch
      <4> QED  BY <2>1, <2>2, <2>3, <4>1, Continues
    <3>4. CASE Jump
      <4>1. text[pc].op = "jmp" /\ pc' = text[pc].to /\ depth' = depth
        BY <3>4 DEF Jump, Fetch
      <4> QED  BY <2>1, <2>2, <4>1, Continues
    <3> QED  BY <1>3, <3>1, <3>2, <3>3, <3>4
  <2> QED  BY <2>1, <2>2, <2>4 DEF Runs
<1>4. CASE Ret
  <2>1. /\ phase = "run" /\ phase' = "returned" /\ pc \in 1 .. Len(text)
        /\ text[pc].op = "ret" /\ depth' = depth
    BY <1>4 DEF Ret, Fetch
  <2>2. frames = <<>> /\ depth = text[pc].depth
    BY <2>1 DEF Runs
  <2>3. depth = 0
    BY <2>1, <2>2, Continues
  <2> QED  BY <2>1, <2>3 DEF Runs
<1>5. CASE UNCHANGED <<vars, runVars>>
  BY <1>5 DEF Runs, vars, runVars
<1> QED  BY <1>1, <1>2, <1>3, <1>4, <1>5 DEF RunNext

(* On every path through the emitted code, through loops, early returns    *)
(* and nested scopes, the stack pointer is where the compiler believed it  *)
(* to be, no path leaves the text and ret finds the return address: in all *)
(* functions whose frames have at most 127 bytes, unless they end without  *)
(* a return or use the constructs that AlignedFeatures excludes.           *)
THEOREM RspAlwaysAsCompiled ==
  ASSUME AlignedFeatures, "missing_return" \notin Features
  PROVE  RunSpec /\ []ShortFrame => []RspAsCompiled
<1>1. RunInit => Init /\ Runs
  BY DEF RunInit, Runs
<1>2. [RunNext]_<<vars, runVars>> => [Next]_vars
  BY DEF RunNext, Emit, Enter, AdjustRsp, JumpIfZero, Jump, CallReturns, Ret, Execute, vars, runVars
<1>3. RunSpec => Spec
  BY <1>1, <1>2, PTL DEF RunSpec, Spec
<1>4. Spec => []LaidClear /\ []Grounded
  <2>1. LaidOut /\ ClearsGap => LaidClear
    BY DEF LaidClear
  <2> QED
    BY <2>1, EmitterImplements, EmissionLaidOut, EmissionClearsGap, EmissionGrounded, PTL
<1>5. Init => Runnable
  BY InitRunnable
<1>6. /\ LaidClear /\ ShortFrame /\ Grounded /\ Runnable /\ [Next]_vars
      /\ LaidClear' /\ ShortFrame'
      => Runnable'
  <2> SUFFICES ASSUME LaidClear, ShortFrame, Grounded, Runnable, [Next]_vars,
                      LaidClear', ShortFrame'
               PROVE  Runnable'
    OBVIOUS
  <2>1. CASE Next
    BY <2>1, NextRunnable
  <2>2. CASE UNCHANGED vars
    BY <2>2 DEF vars, Runnable, Compiled, Sealed, Closed, Label
  <2> QED  BY <2>1, <2>2
<1>7. Spec /\ []ShortFrame => []Runnable
  BY <1>4, <1>5, <1>6, PTL DEF Spec
<1>8. LaidClear /\ Runnable /\ Runs /\ [RunNext]_<<vars, runVars>> => Runs'
  BY RunsOn
<1>9. Runs => RspAsCompiled
  BY DEF Runs, RspAsCompiled
<1> QED  BY <1>1, <1>3, <1>4, <1>7, <1>8, <1>9, PTL DEF RunSpec
=============================================================================
