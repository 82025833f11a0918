----------------------------- MODULE Arm64Proofs -----------------------------
(***************************************************************************)
(* The arm64 emitter implements AbstractEmitter, and therefore keeps its   *)
(* discipline, for all types, functions and nodes.  Slots of 16 bytes keep *)
(* it through the implicit widenings: where all integers take one slot the *)
(* results need not exclude them.  Its loads and stores arrive where they  *)
(* are meant to, clear of all other variables, and its assertions about    *)
(* the stack hold, in frames within the reach of its instructions.         *)
(***************************************************************************)
EXTENDS Arm64Discipline, AbstractEmitterProofs

(* The values have aligned slots.                                          *)
LEMMA SlotIsStackSize ==
  Slot = Slots /\ Gap = ReturnAddressSize /\ \A t \in Types : Slot[t] = StackSize(t)
BY SlotsOfArm64 DEF Slots

(* A slot holds its value, and slots are ordered as the values are.        *)
LEMMA StackSizes ==
  ASSUME NEW t \in Types
  PROVE  /\ StackSize(t) \in Nat /\ Size[t] \in Nat /\ Size[t] <= StackSize(t)
         /\ StackSize(t) % 16 = 0
         /\ \A s \in Types : Size[s] >= Size[t] => StackSize(s) >= StackSize(t)
<1>1. \A s \in Types : Size[s] \in Nat
  BY TypesAssumption DEF Types
<1> QED  BY <1>1 DEF StackSize

-----------------------------------------------------------------------------
(* What the handlers emit.                                                 *)

LEMMA AdjustmentFields ==
  ASSUME NEW s \in ScopedStacks, NEW c \in ScopedStacks
  PROVE  /\ Adjustment(s, c) \in Instructions
         /\ Adjustment(s, c).depth = s.committed /\ Adjustment(s, c).to = 0
<1>1. s.committed \in Int /\ c.committed \in Int /\ "sp" \in Operations
  BY StackHeights DEF Operations
<1>2. c.committed - s.committed \in Int
  BY <1>1
<1> QED  BY <1>1, <1>2, InstructionFields DEF Adjustment

LEMMA OtherFields ==
  ASSUME NEW s \in ScopedStacks, NEW op \in {"je", "jmp", "call", "push_lr", "pop_lr", "ret"}
  PROVE  /\ Instruction(op, s, 0) \in Instructions /\ Instruction(op, s, 0).op = op
         /\ Instruction(op, s, 0).depth = s.committed /\ Instruction(op, s, 0).to = 0
         /\ \A p \in Nat : [Instruction(op, s, 0) EXCEPT !.to = p] \in Instructions
<1>1. op \in Operations /\ 0 \in Int
  BY DEF Operations
<1> QED  BY <1>1, InstructionFields

(* An adjustment.                                                          *)
LEMMA Adjusts ==
  ASSUME Sound, Running, NEW c \in ScopedStacks, text' = text \o <<Adjustment(stack, c)>>
  PROVE  Emits
<1> DEFINE a == Adjustment(stack, c)
<1>1. /\ a \in Instructions /\ a.depth = stack.committed /\ a.to = 0
      /\ text \in Seq(Instructions)
  BY HandlerStacks, AdjustmentFields
<1>2. text' = text \o <<a>>
  OBVIOUS
<1> HIDE DEF a, Instructions
<1>3. text' = Append(text, a)
  BY <1>1, <1>2
<1> QED  BY <1>1, <1>3, EmitsOne

(* An adjustment and a conditional jump.                                   *)
LEMMA AdjustsAndBranches ==
  ASSUME Sound, Running, NEW c \in ScopedStacks,
         text' = text \o <<Adjustment(stack, c), Instruction("je", c, 0)>>
  PROVE  EmitsBranch(c) /\ Len(text') = Len(text) + 2
<1> DEFINE a == Adjustment(stack, c)
           b == Instruction("je", c, 0)
<1>1. /\ a \in Instructions /\ a.depth = stack.committed /\ a.to = 0
      /\ b \in Instructions /\ b.op = "je" /\ b.depth = c.committed /\ b.to = 0
      /\ text \in Seq(Instructions)
  <2> HIDE DEF Instructions
  <2>1. stack \in ScopedStacks /\ text \in Seq(Instructions)
    BY HandlerStacks
  <2>2. a \in Instructions /\ a.depth = stack.committed /\ a.to = 0
    BY <2>1, AdjustmentFields
  <2>3. b \in Instructions /\ b.op = "je" /\ b.depth = c.committed /\ b.to = 0
    BY OtherFields
  <2> QED  BY <2>1, <2>2, <2>3
<1>2. text' = text \o <<a, b>>
  OBVIOUS
<1> HIDE DEF a, b, Instructions
<1> QED  BY <1>1, <1>2, EmitsTwo DEF EmitsBranch

-----------------------------------------------------------------------------
(* Each action is one of AbstractEmitter.                                  *)

(* A literal and a copy of a variable.                                     *)
LEMMA PushImplements ==
  ASSUME Sound, EmitLiteral \/ EmitIdentifier PROVE PushStep
<1> DEFINE c == Pushed(stack, Top.type)
<1>1. Entering({"expression"}) /\ Running
  BY DEF EmitLiteral, EmitIdentifier, Entering
<1>2. c \in ScopedStacks /\ Slot[Top.type] = StackSize(Top.type)
  BY <1>1, HandlerStacks, SlotIsStackSize
<1>3. /\ stack' = c /\ result' = c.allocated /\ text' = text \o <<Adjustment(stack, c)>>
      /\ frames' = Returning /\ UNCHANGED <<signature, locals, nodes>>
  BY <1>2 DEF EmitLiteral, EmitIdentifier, LeaveValue, Leave, With, Pushed
<1>4. Emits
  BY <1>1, <1>2, <1>3, Adjusts
<1> QED  BY <1>1, <1>3, <1>4 DEF PushStep, Yields, Returns

LEMMA BeginBinaryImplements ==
  ASSUME Sound, BeginBinary PROVE BeginBinaryStep
<1>1. Scalars \subseteq ValueTypes
  BY TypesAssumption DEF Scalars, ValueTypes
<1> QED  BY <1>1 DEF BeginBinary, BeginBinaryStep, Proceed, Goes

LEMMA BinaryRightImplements ==
  ASSUME Sound, BinaryRight PROVE BinaryRightStep
BY DEF BinaryRight, BinaryRightStep, Proceed, Goes

LEMMA EndBinaryImplements ==
  ASSUME Sound, EndBinary PROVE EndBinaryStep
<1> DEFINE c == Pushed(PopStack(PopStack(stack, Slot[Top.right]), Slot[Top.left]), Top.type)
<1>1. At("binary", "right") /\ Running
  BY DEF EndBinary, At
<1>2. /\ c \in ScopedStacks /\ Slot[Top.type] = StackSize(Top.type)
      /\ Slot[Top.left] = StackSize(Top.left) /\ Slot[Top.right] = StackSize(Top.right)
  BY <1>1, HandlerStacks, SlotIsStackSize
<1>3. /\ stack' = c /\ result' = c.allocated /\ text' = text \o <<Adjustment(stack, c)>>
      /\ frames' = Returning /\ UNCHANGED <<signature, locals, nodes>>
  BY <1>2 DEF EndBinary, LeaveValue, Leave, With, Pushed
<1>4. Emits
  BY <1>1, <1>2, <1>3, Adjusts
<1> QED  BY <1>1, <1>3, <1>4 DEF EndBinaryStep, Yields, Returns

LEMMA BeginCallImplements ==
  ASSUME Sound, BeginCall PROVE BeginCallStep
<1>1. Running
  BY DEF BeginCall, Entering
<1>2. Slot[Top.type] = StackSize(Top.type)
  BY <1>1, HandlerStacks, SlotIsStackSize
<1> QED  BY <1>2 DEF BeginCall, BeginCallStep, Goes

LEMMA BeginArgumentImplements ==
  ASSUME Sound, BeginArgument PROVE BeginArgumentStep
BY DEF BeginArgument, BeginArgumentStep, Proceed, Goes

LEMMA EndArgumentImplements ==
  ASSUME Sound, EndArgument PROVE EndArgumentStep
<1>1. Running
  BY DEF EndArgument, At
<1>2. Slot[Top.left] = StackSize(Top.left)
  BY <1>1, HandlerStacks, SlotIsStackSize
<1> QED  BY <1>2 DEF EndArgument, EndArgumentStep, Proceed, Goes

LEMMA EndCallImplements ==
  ASSUME Sound, EndCall PROVE EndCallStep
<1> DEFINE c == CommitStack(PopStack(stack, Top.argsize))
           a == Instruction("call", stack, 0)
           b == Adjustment(stack, c)
<1>1. /\ At("call", "arguments") /\ Running /\ Len(Top.args) = Len(Top.callee.params)
      /\ stack' = c /\ text' = text \o <<a, b>> /\ result' = Top.slot
      /\ frames' = Returning /\ UNCHANGED <<signature, locals, nodes>>
  BY DEF EndCall, Leave, At
<1>2. /\ a \in Instructions /\ a.depth = stack.committed /\ a.to = 0
      /\ b \in Instructions /\ b.to = 0 /\ text \in Seq(Instructions)
  BY <1>1, HandlerStacks, AdjustmentFields, OtherFields, SMTT(30)
<1>3. Emits
  <2> HIDE DEF a, b, Instructions
  <2> QED  BY <1>1, <1>2, EmitsTwo
<1> QED  BY <1>1, <1>3 DEF EndCallStep, Returns

LEMMA BeginAssignImplements ==
  ASSUME Sound, BeginAssign PROVE BeginAssignStep
BY DEF BeginAssign, BeginAssignStep, Proceed, Goes

LEMMA EndAssignImplements ==
  ASSUME Sound, EndAssign PROVE EndAssignStep
BY DEF EndAssign, EndAssignStep, Returns

LEMMA BeginMemberImplements ==
  ASSUME Sound, BeginMember PROVE BeginMemberStep
<1> DEFINE c == Pushed(stack, Top.type)
<1>1. Entering({"expression"}) /\ Running
  BY DEF BeginMember, Entering
<1>2. c \in ScopedStacks /\ Slot[Top.type] = StackSize(Top.type)
  BY <1>1, HandlerStacks, SlotIsStackSize
<1>3. /\ Top.type \in Members /\ NewNode /\ stack' = c
      /\ text' = text \o <<Adjustment(stack, c)>>
      /\ frames' = Calling([Top EXCEPT !.kind = "member", !.step = "string",
                                       !.slot = c.allocated], Expression(String, c))
      /\ UNCHANGED <<signature, result, locals>>
  <2>1. /\ Top.type \in Members /\ NewNode /\ stack' = c
        /\ text' = Append(text, Adjustment(stack, c))
        /\ frames' = Calling([Top EXCEPT !.kind = "member", !.step = "string",
                                         !.slot = c.allocated], Expression(String, c))
        /\ UNCHANGED <<signature, result, locals>>
    BY <1>2 DEF BeginMember, With, Pushed
  <2>2. Adjustment(stack, c) \in Instructions /\ text \in Seq(Instructions)
    BY <1>1, <1>2, HandlerStacks, AdjustmentFields
  <2>3. text \o <<Adjustment(stack, c)>> = Append(text, Adjustment(stack, c))
    <3> DEFINE a == Adjustment(stack, c)
    <3>1. a \in Instructions
      BY <2>2
    <3> HIDE DEF a, Instructions
    <3>2. text \o <<a>> = Append(text, a)
      BY <2>2, <3>1
    <3> QED  BY <3>2 DEF a
  <2> QED  BY <2>1, <2>3
<1>4. Emits
  BY <1>1, <1>2, <1>3, Adjusts
<1> QED  BY <1>1, <1>3, <1>4 DEF BeginMemberStep, Goes

LEMMA EndMemberImplements ==
  ASSUME Sound, EndMember PROVE EndMemberStep
<1> DEFINE c == Popped(stack, String)
<1>1. At("member", "string") /\ Running
  BY DEF EndMember, At
<1>2. c \in ScopedStacks /\ Slot[String] = StackSize(String)
  BY <1>1, HandlerStacks, SlotIsStackSize, Sizes
<1>3. /\ stack' = c /\ text' = text \o <<Adjustment(stack, c)>> /\ result' = Top.slot
      /\ frames' = Returning /\ UNCHANGED <<signature, locals, nodes>>
  BY <1>2 DEF EndMember, Leave, Without, Popped
<1>4. Emits
  BY <1>1, <1>2, <1>3, Adjusts
<1> QED  BY <1>1, <1>3, <1>4 DEF EndMemberStep, Returns

LEMMA BeginCastImplements ==
  ASSUME Sound, BeginCast PROVE BeginCastStep
<1>1. \A s, t \in IntegerTypes : Size[s] >= Size[t] => Slot[s] >= Slot[t]
  BY StackSizes, SlotIsStackSize, Sizes
<1> QED  BY <1>1 DEF BeginCast, BeginCastStep, Proceed, Goes

(* No cast that stays in place would need a larger slot.                   *)
LEMMA EndCastImplements ==
  ASSUME Sound, EndCast PROVE EndCastStep
<1> DEFINE c == Pushed(PopStack(stack, Slot[Top.left]), Top.type)
<1>1. At("cast", "value") /\ Running
  BY DEF EndCast, At
<1>2. /\ c \in ScopedStacks /\ Slot[Top.type] = StackSize(Top.type)
      /\ Slot[Top.left] = StackSize(Top.left)
      /\ StackSize(Top.type) \in Nat /\ StackSize(Top.left) \in Nat
      /\ text \in Seq(Instructions)
  BY <1>1, HandlerStacks, SlotIsStackSize, StackSizes
<1>3. CASE StackSize(Top.left) # StackSize(Top.type)
  <2>1. /\ stack' = c /\ text' = text \o <<Adjustment(stack, c)>> /\ result' = c.allocated
        /\ frames' = Returning /\ UNCHANGED <<signature, locals, nodes>>
    BY <1>2, <1>3 DEF EndCast, LeaveValue, Leave, With, Pushed
  <2>2. Emits
    BY <1>1, <1>2, <2>1, Adjusts
  <2> QED  BY <1>1, <2>1, <2>2 DEF EndCastStep, Yields, Returns
<1>4. CASE StackSize(Top.left) = StackSize(Top.type)
  <2>1. /\ stack' = stack /\ text' = text \o <<>> /\ result' = stack.allocated
        /\ frames' = Returning /\ UNCHANGED <<signature, locals, nodes>>
    BY <1>2, <1>4 DEF EndCast, Leave
  <2>2. text \o <<>> = text
    <3> HIDE DEF Instructions
    <3> QED  BY <1>2
  <2>3. Slot[Top.left] <= Slot[Top.type]
    BY <1>2, <1>4
  <2> QED  BY <1>1, <2>1, <2>2, <2>3 DEF EndCastStep, Yields, Returns
<1> QED  BY <1>3, <1>4

LEMMA DeclareOnlyImplements ==
  ASSUME Sound, DeclareOnly PROVE DeclareOnlyStep
<1>1. \A t \in ValueTypes : Slot[t] = StackSize(t)
  BY SlotIsStackSize, Sizes
<1>2. text \o <<>> = text
  <2>1. text \in Seq(Instructions)
    BY HandlerStacks DEF DeclareOnly, Entering
  <2> HIDE DEF Instructions
  <2> QED  BY <2>1
<1> QED  BY <1>1, <1>2 DEF DeclareOnly, DeclareOnlyStep, Leave, Returns

LEMMA BeginDeclarationImplements ==
  ASSUME Sound, BeginDeclaration PROVE BeginDeclarationStep
<1>1. \A t \in ValueTypes : Slot[t] = StackSize(t)
  BY SlotIsStackSize, Sizes
<1> QED  BY <1>1 DEF BeginDeclaration, BeginDeclarationStep, Goes

LEMMA EndDeclarationImplements ==
  ASSUME Sound, EndDeclaration PROVE EndDeclarationStep
<1> DEFINE c == Popped(stack, Top.left)
<1>1. At("declaration", "initializer") /\ Running
  BY DEF EndDeclaration, At
<1>2. c \in ScopedStacks /\ Slot[Top.left] = StackSize(Top.left)
  BY <1>1, HandlerStacks, SlotIsStackSize
<1>3. /\ stack' = c /\ text' = text \o <<Adjustment(stack, c)>>
      /\ locals' = Append(locals, [type |-> Top.type, offset |-> Top.slot])
      /\ frames' = Returning /\ UNCHANGED <<signature, result, nodes>>
  BY <1>2 DEF EndDeclaration, Leave, Without, Popped
<1>4. Emits
  BY <1>1, <1>2, <1>3, Adjusts
<1> QED  BY <1>1, <1>3, <1>4 DEF EndDeclarationStep, Returns

LEMMA BeginDiscardImplements ==
  ASSUME Sound, BeginDiscard PROVE BeginDiscardStep
BY DEF BeginDiscard, BeginDiscardStep, Proceed, Goes

LEMMA EndDiscardImplements ==
  ASSUME Sound, EndDiscard PROVE EndDiscardStep
<1> DEFINE c == Popped(stack, Top.left)
<1>1. At("discard", "value") /\ Running
  BY DEF EndDiscard, At
<1>2. c \in ScopedStacks /\ Slot[Top.left] = StackSize(Top.left)
  BY <1>1, HandlerStacks, SlotIsStackSize
<1>3. /\ stack' = c /\ text' = text \o <<Adjustment(stack, c)>>
      /\ frames' = Returning /\ UNCHANGED <<signature, result, locals, nodes>>
  BY <1>2 DEF EndDiscard, Leave, Without, Popped
<1>4. Emits
  BY <1>1, <1>2, <1>3, Adjusts
<1> QED  BY <1>1, <1>3, <1>4 DEF EndDiscardStep, Returns

LEMMA BeginIfImplements ==
  ASSUME Sound, BeginIf PROVE BeginIfStep
BY DEF BeginIf, BeginIfStep, Proceed, Goes

LEMMA IfThenImplements ==
  ASSUME Sound, IfThen PROVE IfThenStep
<1> DEFINE c == Popped(stack, Bool)
<1>1. At("if", "condition") /\ Running
  BY DEF IfThen, At
<1>2. c \in ScopedStacks /\ Slot[Bool] = StackSize(Bool) /\ Len(text) \in Nat
  BY <1>1, HandlerStacks, SlotIsStackSize, Sizes
<1>3. /\ CanPushScope(c) /\ stack' = PushScope(c)
      /\ text' = text \o <<Adjustment(stack, c), Instruction("je", c, 0)>>
      /\ frames' = Calling([Top EXCEPT !.step = "then", !.patch = Label + 1],
                           Statement(PushScope(c), Len(locals)))
      /\ UNCHANGED <<signature, result, locals, nodes>>
  BY <1>2 DEF IfThen, Without, Popped
<1>4. EmitsBranch(c) /\ Len(text') = Len(text) + 2
  BY <1>1, <1>2, <1>3, AdjustsAndBranches
<1>5. Label + 1 = Len(text')
  BY <1>2, <1>4 DEF Label
<1> HIDE DEF c
<1> QED  BY <1>1, <1>3, <1>4, <1>5 DEF IfThenStep, Goes, c

LEMMA EndIfImplements ==
  ASSUME Sound, EndIf PROVE EndIfStep
<1> DEFINE c == CommitStack(PopScope(stack))
           t == [text EXCEPT ![Top.patch].to = Label + 1]
           a == Adjustment(stack, c)
<1>1. /\ At("if", "then") /\ Running /\ CanPopScope(stack) /\ stack' = c
      /\ text' = Append(t, a) /\ locals' = Outer
      /\ frames' = Returning /\ UNCHANGED <<signature, result, nodes>>
  BY DEF EndIf, At, Outer
<1>2. /\ a \in Instructions /\ a.depth = stack.committed /\ a.to = 0
      /\ text \in Seq(Instructions) /\ Len(text) \in Nat
  BY <1>1, HandlerStacks, AdjustmentFields
<1>3. t \in Seq(Instructions) /\ Len(t) = Len(text)
  <2>1. Top.patch \in Nat /\ Label + 1 \in Nat
    BY <1>1, <1>2, HandlerStacks, ActivationFields DEF Label
  <2> QED  BY <1>2, <2>1, PatchType
<1>4. EmitsAfter(t) /\ Len(text') = Len(text) + 1 /\ \A i \in New : text'[i].to = 0
  <2> HIDE DEF a, t, Instructions
  <2> QED  BY <1>1, <1>2, <1>3, EmitsOne
<1>5. t = [text EXCEPT ![Top.patch].to = Len(text') + 1]
  BY <1>2, <1>4 DEF Label
<1> HIDE DEF t
<1> QED  BY <1>1, <1>4, <1>5 DEF EndIfStep, Returns

LEMMA BeginForImplements ==
  ASSUME Sound, BeginFor PROVE BeginForStep
BY DEF BeginFor, BeginForStep, Goes

LEMMA ForConditionImplements ==
  ASSUME Sound, ForCondition PROVE ForConditionStep
BY DEF ForCondition, ForConditionStep, Proceed, Goes

LEMMA ForBodyImplements ==
  ASSUME Sound, ForBody PROVE ForBodyStep
<1> DEFINE c == Popped(stack, Bool)
<1>1. At("for", "condition") /\ Running
  BY DEF ForBody, At
<1>2. c \in ScopedStacks /\ Slot[Bool] = StackSize(Bool) /\ Len(text) \in Nat
  BY <1>1, HandlerStacks, SlotIsStackSize, Sizes
<1>3. /\ stack' = c
      /\ text' = text \o <<Adjustment(stack, c), Instruction("je", c, 0)>>
      /\ frames' = Calling([Top EXCEPT !.step = "body", !.patch = Label + 1],
                           LoopBody(c, Len(locals)))
      /\ UNCHANGED <<signature, result, locals, nodes>>
  BY <1>2 DEF ForBody, Without, Popped
<1>4. EmitsBranch(c) /\ Len(text') = Len(text) + 2
  BY <1>1, <1>2, <1>3, AdjustsAndBranches
<1>5. Label + 1 = Len(text')
  BY <1>2, <1>4 DEF Label
<1> HIDE DEF c
<1> QED  BY <1>1, <1>3, <1>4, <1>5 DEF ForBodyStep, Goes, c

LEMMA ForStepImplements ==
  ASSUME Sound, ForStep PROVE ForStepStep
BY DEF ForStep, ForStepStep

LEMMA EndForImplements ==
  ASSUME Sound, EndFor PROVE EndForStep
<1> DEFINE stepped == Popped(stack, Top.left)
           c == CommitStack(PopScope(stepped))
           t == [text EXCEPT ![Top.patch].to = Label + 2]
           a == Adjustment(stack, stepped)
           jump == [Instruction("jmp", stepped, 0) EXCEPT !.to = Top.start]
           b == Adjustment(stepped, c)
<1>1. At("for", "step") /\ Running
  BY DEF EndFor, At
<1>2. /\ stepped \in ScopedStacks /\ Slot[Top.left] = StackSize(Top.left) /\ Top \in Activations
      /\ text \in Seq(Instructions) /\ Len(text) \in Nat /\ stack \in ScopedStacks
  BY <1>1, HandlerStacks, SlotIsStackSize
<1>3. /\ CanPopScope(stepped) /\ stack' = c /\ text' = t \o <<a, jump, b>> /\ locals' = Outer
      /\ frames' = Returning /\ UNCHANGED <<signature, result, nodes>>
  BY <1>2 DEF EndFor, Without, Popped, Outer
<1>4. c \in ScopedStacks
  <2> HIDE DEF stepped
  <2> QED  BY <1>2, <1>3, 0 \in Int, CompositeTypes
<1>5. /\ a \in Instructions /\ a.depth = stack.committed /\ a.to = 0
      /\ b \in Instructions /\ b.depth = stepped.committed /\ b.to = 0
  BY <1>2, <1>4, AdjustmentFields
<1>6. /\ jump \in Instructions /\ jump.to = Top.start /\ jump.depth = stepped.committed
  <2>1. Top.start \in Nat
    BY <1>2, ActivationFields
  <2>2. jump \in Instructions
    BY <1>2, <2>1, OtherFields
  <2> QED  BY <2>2 DEF Instruction
<1>7. t \in Seq(Instructions) /\ Len(t) = Len(text)
  <2>1. Top.patch \in Nat /\ Label + 2 \in Nat
    BY <1>2, ActivationFields DEF Label
  <2> QED  BY <1>2, <2>1, PatchType
<1>8. /\ EmitsAfter(t) /\ Len(text') = Len(text) + 3 /\ LastEmitted = b
      /\ \A i \in New : text'[i] \in {a, jump, b}
  <2>1. text' = t \o <<a, jump, b>> /\ text \in Seq(Instructions)
    BY <1>2, <1>3
  <2> HIDE DEF a, b, jump, t, stepped, c, Instructions
  <2>2. t \in Seq(Instructions) /\ Len(t) = Len(text)
    BY <1>7
  <2>3. /\ a \in Instructions /\ b \in Instructions /\ jump \in Instructions
        /\ a.depth = stack.committed
    BY <1>5, <1>6
  <2>4. EmitsAfter(t)
    BY <2>1, <2>2, <2>3, EmitsThree
  <2>6. Len(text') = Len(text) + 3
    BY <2>1, <2>2, <2>3, EmitsThree
  <2>7. text'[Len(text) + 3] = b
    BY <2>1, <2>2, <2>3, EmitsThree
  <2>8. LastEmitted = b
    BY <2>6, <2>7 DEF LastEmitted
  <2>5. \A i \in New : text'[i] \in {a, jump, b}
    BY <2>1, <2>2, <2>3, EmitsThree
  <2> QED  BY <2>4, <2>5, <2>6, <2>8
<1>9. t = [text EXCEPT ![Top.patch].to = Len(text')]
  <2>1. Label + 2 = Len(text')
    BY <1>2, <1>8 DEF Label
  <2> QED  BY <2>1
<1>10. \A i \in New : text'[i].to # 0 => text'[i].to = Top.start /\ text'[i].depth = stepped.committed
  <2> HIDE DEF a, b, jump, stepped
  <2> QED  BY <1>5, <1>6, <1>8
<1>11. LastEmitted.to = 0 /\ LastEmitted.depth = stepped.committed
  BY <1>5, <1>8
<1> HIDE DEF t, c
<1> QED  BY <1>1, <1>3, <1>8, <1>9, <1>10, <1>11 DEF EndForStep, Returns, c

LEMMA BeginReturnImplements ==
  ASSUME Sound, BeginReturn PROVE BeginReturnStep
BY DEF BeginReturn, BeginReturnStep, Proceed, Goes

(* The end of the code of a return.                                        *)
LEMMA ReturnCode ==
  ASSUME NEW s \in ScopedStacks, NEW u \in Seq(Instructions)
  PROVE  /\ u \o Ret(s) \in Seq(Instructions) /\ Len(u \o Ret(s)) = Len(u) + 2
         /\ \A i \in 1 .. Len(u) : (u \o Ret(s))[i] = u[i]
         /\ (\A i \in 1 .. Len(u) : u[i].to = 0)
              => \A i \in 1 .. Len(u \o Ret(s)) : (u \o Ret(s))[i].to = 0
<1> DEFINE p == Instruction("pop_lr", s, 0)
           r == Instruction("ret", s, 0)
           w == <<p, r>>
<1>1. p \in Instructions /\ p.to = 0 /\ r \in Instructions /\ r.to = 0
  BY OtherFields
<1>2. w = Ret(s)
  BY DEF Ret
<1> HIDE DEF p, r, Instructions
<1>3. w \in Seq(Instructions) /\ Len(w) = 2 /\ w[1] = p /\ w[2] = r
  BY <1>1
<1> HIDE DEF w
<1>4. /\ u \o w \in Seq(Instructions) /\ Len(u \o w) = Len(u) + Len(w)
      /\ \A i \in 1 .. Len(u) : (u \o w)[i] = u[i]
      /\ \A i \in 1 .. Len(w) : (u \o w)[Len(u) + i] = w[i]
  BY <1>3, Concatenation
<1> DEFINE v == u \o w
<1>5. ASSUME \A i \in 1 .. Len(u) : u[i].to = 0, NEW i \in 1 .. Len(v) PROVE v[i].to = 0
  <2>1. Len(u) \in Nat
    OBVIOUS
  <2>2. CASE i \in 1 .. Len(u)
    BY <1>4, <1>5, <2>2
  <2>3. CASE i = Len(u) + 1
    <3>1. v[Len(u) + 1] = p
      BY <1>3, <1>4
    <3> QED  BY <1>1, <2>3, <3>1
  <2>4. CASE i = Len(u) + 2
    <3>1. v[Len(u) + 2] = r
      BY <1>3, <1>4
    <3> QED  BY <1>1, <2>4, <3>1
  <2>5. i \in 1 .. Len(u) \/ i = Len(u) + 1 \/ i = Len(u) + 2
    BY <1>3, <1>4, <2>1
  <2> QED  BY <2>2, <2>3, <2>4, <2>5
<1> QED  BY <1>2, <1>3, <1>4, <1>5

LEMMA EndReturnImplements ==
  ASSUME Sound, EndReturn PROVE EndReturnStep
<1> DEFINE c == Popped(stack, Top.left)
           a == Adjustment(stack, c)
           b == Adjustment(c, FreshStack)
           u == <<a, b>>
           code == u \o Ret(FreshStack)
<1>1. At("return", "value") /\ Running
  BY DEF EndReturn, At
<1>2. /\ c \in ScopedStacks /\ Slot[Top.left] = StackSize(Top.left) /\ FreshStack \in ScopedStacks
      /\ text \in Seq(Instructions) /\ stack \in ScopedStacks
  BY <1>1, HandlerStacks, SlotIsStackSize
<1>3. c = Without(stack, Top.left)
  BY <1>2 DEF Without, Popped
<1>4. /\ stack' = c /\ text' = text \o code
      /\ frames' = Returning /\ UNCHANGED <<signature, result, locals, nodes>>
  BY <1>3 DEF EndReturn, Leave
<1>5. /\ a \in Instructions /\ a.depth = stack.committed /\ a.to = 0
      /\ b \in Instructions /\ b.to = 0
  BY <1>2, AdjustmentFields
<1>6. /\ u \in Seq(Instructions) /\ Len(u) = 2 /\ u[1].depth = stack.committed
      /\ \A i \in 1 .. Len(u) : u[i].to = 0
  <2> HIDE DEF a, b, c, Instructions
  <2>1. u \in Seq(Instructions) /\ Len(u) = 2 /\ u[1] = a /\ u[2] = b
    BY <1>5
  <2> QED  BY <1>5, <2>1
<1> HIDE DEF u, c
<1>7. /\ code \in Seq(Instructions) /\ Len(code) = 4 /\ code[1].depth = stack.committed
      /\ \A i \in 1 .. Len(code) : code[i].to = 0
  <2> HIDE DEF Instructions
  <2>1. /\ code \in Seq(Instructions) /\ Len(code) = Len(u) + 2
        /\ \A i \in 1 .. Len(u) : code[i] = u[i]
    BY <1>2, <1>6, ReturnCode
  <2>2. \A i \in 1 .. Len(code) : code[i].to = 0
    BY <1>2, <1>6, ReturnCode
  <2> HIDE DEF code
  <2>3. 1 \in 1 .. Len(u)
    BY <1>6
  <2> QED  BY <1>6, <2>1, <2>2, <2>3
<1>8. Emits
  <2>1. text' = text \o code
    BY <1>4
  <2> HIDE DEF code
  <2>2. code # <<>>
    <3>1. Len(code) = 4
      BY <1>7
    <3>2. \A s : s = <<>> => Len(s) = 0
      OBVIOUS
    <3> QED  BY <3>1, <3>2
  <2> QED  BY <1>2, <1>7, <2>1, <2>2, Emission
<1> QED  BY <1>1, <1>4, <1>8 DEF EndReturnStep, Returns, c

LEMMA BeginBlockImplements ==
  ASSUME Sound, BeginBlock PROVE BeginBlockStep
BY DEF BeginBlock, BeginBlockStep, Goes

LEMMA NextStatementImplements ==
  ASSUME Sound, NextStatement PROVE NextStatementStep
BY DEF NextStatement, NextStatementStep, Proceed, Goes

LEMMA EndBlockImplements ==
  ASSUME Sound, EndBlock PROVE EndBlockStep
<1> DEFINE c == CommitStack(PopScope(stack))
<1>1. /\ At("block", "statements") /\ Running /\ CanPopScope(stack) /\ stack' = c
      /\ text' = text \o <<Adjustment(stack, c)>> /\ locals' = Outer
      /\ frames' = Returning /\ UNCHANGED <<signature, result, nodes>>
  BY DEF EndBlock, LeaveScope, Leave, At, Outer
<1>2. c \in ScopedStacks
  BY <1>1, HandlerStacks
<1>3. Emits
  BY <1>1, <1>2, Adjusts
<1> QED  BY <1>1, <1>3 DEF EndBlockStep, Returns

LEMMA EndFunctionImplements ==
  ASSUME Sound, EndFunction PROVE EndFunctionStep
<1> DEFINE c == CommitStack(PopScope(stack))
           a == Adjustment(stack, c)
<1>1. /\ At("function", "statements") /\ Running /\ CanPopScope(stack)
      /\ locals' = Outer /\ frames' = Returning /\ UNCHANGED <<signature, result, nodes>>
  BY DEF EndFunction, LeaveScope, Leave, At, Outer
<1>2. c \in ScopedStacks /\ stack \in ScopedStacks /\ text \in Seq(Instructions)
  BY <1>1, HandlerStacks
<1>3. Top.visible \in 0 .. Top.visible /\ locals' = SubSeq(locals, 1, Top.visible)
  <2>1. Top.visible \in Nat
    BY <1>1, Context
  <2> QED  BY <1>1, <2>1 DEF Outer
<1>4. CASE stack' = c /\ text' = text \o (<<a>> \o Ret(c))
  <2> DEFINE u == <<a>>
             code == u \o Ret(c)
  <2>1. stack' = c /\ text' = text \o code
    BY <1>4
  <2>2. a \in Instructions /\ a.depth = stack.committed /\ a.to = 0
    BY <1>2, AdjustmentFields
  <2>3. /\ u \in Seq(Instructions) /\ Len(u) = 1 /\ u[1].depth = stack.committed
        /\ \A i \in 1 .. Len(u) : u[i].to = 0
    <3> HIDE DEF a, c, Instructions
    <3>1. u \in Seq(Instructions) /\ Len(u) = 1 /\ u[1] = a
      BY <2>2
    <3> QED  BY <2>2, <3>1
  <2>4. Emits
    <3> HIDE DEF u, c
    <3>1. /\ code \in Seq(Instructions) /\ Len(code) = 3 /\ code[1].depth = stack.committed
          /\ \A i \in 1 .. Len(code) : code[i].to = 0
      <4> HIDE DEF Instructions
      <4>1. /\ code \in Seq(Instructions) /\ Len(code) = Len(u) + 2
            /\ \A i \in 1 .. Len(u) : code[i] = u[i]
        BY <1>2, <2>3, ReturnCode
      <4>2. \A i \in 1 .. Len(code) : code[i].to = 0
        BY <1>2, <2>3, ReturnCode
      <4> HIDE DEF code
      <4>3. 1 \in 1 .. Len(u)
        BY <2>3
      <4> QED  BY <2>3, <4>1, <4>2, <4>3
    <3>2. text' = text \o code
      BY <2>1
    <3> HIDE DEF code
    <3>3. code # <<>>
      <4>1. Len(code) = 3
        BY <3>1
      <4>2. code = <<>> => Len(code) = 0
        OBVIOUS
      <4> QED  BY <4>1, <4>2
    <3> QED  BY <1>2, <3>1, <3>2, <3>3, Emission
  <2> QED  BY <1>1, <1>3, <2>1, <2>4 DEF EndFunctionStep, Returns
<1>5. CASE stack' = PopScope(stack) /\ text' = text \o <<>>
  <2>1. text \o <<>> = text
    <3> HIDE DEF Instructions
    <3> QED  BY <1>2
  <2> QED  BY <1>1, <1>3, <1>5, <2>1 DEF EndFunctionStep, Returns
<1> QED  BY <1>4, <1>5 DEF EndFunction, LeaveScope, Leave

LEMMA InitImplements ==
  ASSUME Init PROVE EmitterInit
<1>1. text \in Seq(Instructions) /\ \A i \in 1 .. Len(text) : text[i].to = 0
  <2> DEFINE a == Instruction("push_lr", FreshStack, 0)
  <2>1. a \in Instructions /\ a.to = 0
    <3>1. FreshStack \in ScopedStacks
      BY DEF FreshStack, ScopedStacks, Stacks
    <3> QED  BY <3>1, OtherFields
  <2>2. text = <<a>>
    BY DEF Init
  <2> HIDE DEF a, Instructions
  <2> QED  BY <2>1, <2>2
<1>2. \A i : ParameterOffset(signature, i) = ParameterAt(Slot, Gap, signature, i)
  BY SlotIsStackSize DEF ParameterOffset
<1> QED  BY <1>1, <1>2 DEF Init, EmitterInit

LEMMA NextImplements ==
  ASSUME Sound, [Next]_vars PROVE [EmitterNext]_emission
<1>1. CASE EmitExpression
  <2>1. ExpressionStep
    BY <1>1, PushImplements, BeginBinaryImplements, BinaryRightImplements, EndBinaryImplements,
       BeginCallImplements, BeginArgumentImplements, EndArgumentImplements, EndCallImplements,
       BeginAssignImplements, EndAssignImplements, BeginMemberImplements, EndMemberImplements,
       BeginCastImplements, EndCastImplements, Zenon DEF EmitExpression, ExpressionStep
  <2> QED  BY <2>1 DEF EmitterNext
<1>2. CASE EmitStatement
  <2>1. StatementStep
    BY <1>2, DeclareOnlyImplements, BeginDeclarationImplements, EndDeclarationImplements,
       BeginDiscardImplements, EndDiscardImplements, BeginIfImplements, IfThenImplements,
       EndIfImplements, BeginForImplements, ForConditionImplements, ForBodyImplements,
       ForStepImplements, EndForImplements, BeginReturnImplements, EndReturnImplements,
       BeginBlockImplements, NextStatementImplements, EndBlockImplements,
       EndFunctionImplements, Zenon DEF EmitStatement, StatementStep
  <2> QED  BY <2>1 DEF EmitterNext
<1>3. CASE UNCHANGED vars
  BY <1>3 DEF vars, emission
<1> QED  BY <1>1, <1>2, <1>3 DEF Next

(* The arm64 emitter does nothing that AbstractEmitter does not promise.  *)
THEOREM EmitterImplements == Spec => EmitterSpec
<1>1. Init => EmitterInit /\ Sound
  BY InitImplements, InitSound
<1>2. Sound /\ [Next]_vars => [EmitterNext]_emission /\ Sound'
  BY NextImplements, NextSound
<1> QED  BY <1>1, <1>2, PTL DEF Spec, EmitterSpec

-----------------------------------------------------------------------------
(* The discipline of AbstractEmitter, which the emitter therefore keeps.   *)

(* Soundness of the bookkeeping: whatever the program, the types and the   *)
(* feature set, every variable of the emitter keeps its type, the          *)
(* activations are a chain of calls the handlers make, and no name that an *)
(* activation counts on disappears under it.                               *)
THEOREM Soundness == Spec => []Sound
BY EmitterImplements, EmissionSound, PTL

(* Every variable of the emitter keeps its type.                           *)
THEOREM TypeCorrect == Spec => []TypeOK
<1>1. Sound => TypeOK
  BY DEF Sound
<1> QED  BY <1>1, Soundness, PTL

(* In every program without the constructs that StraightFeatures excludes, *)
(* whatever its functions, types and nesting, each recursive call of the   *)
(* emitters leaves exactly its value on the compile-time stack and each    *)
(* scope is closed at the height it was opened.                            *)
THEOREM StackBalanced == ASSUME StraightFeatures PROVE Spec => []Discipline
<1>1. Accounting => Discipline
  BY DEF Accounting, Sound, Discipline
<1> QED  BY <1>1, EmitterImplements, EmissionAccounted, PTL

(* Every jump arrives with the committed stack its target is compiled for. *)
THEOREM JumpsLand == ASSUME StraightFeatures PROVE Spec => []JumpsAgree
<1>1. Accounting => JumpsAgree
  BY DEF Accounting
<1> QED  BY <1>1, EmitterImplements, EmissionAccounted, PTL

(* The variables lie one below the other, the temporaries beyond them, the *)
(* arguments of a call in the order of the parameters.                     *)
THEOREM LayoutHolds == ASSUME AlignedFeatures PROVE Spec => []LaidOut
BY EmitterImplements, EmissionLaidOut, PTL

(* Whatever the types of the parameters, the callee finds its parameters   *)
(* and the slot of its result where the caller pushed them.                *)
THEOREM FramesAlwaysAgree == ASSUME AlignedFeatures PROVE Spec => []CallFramesAgree
<1>1. LaidOut => CallFramesAgree
  <2>1. LaidOut => CallsAgree
    BY LaidOutFramesAgree
  <2>2. \A f, i : /\ ParameterOffset(f, i) = ParameterAt(Slot, Gap, f, i)
                  /\ ReturnOffset(f) = ReturnAt(Slot, Gap, f)
    BY SlotIsStackSize DEF ParameterOffset, ReturnOffset
  <2>3. Gap = 16
    BY SlotIsStackSize DEF ReturnAddressSize
  <2> DEFINE Complete == At("call", "arguments") /\ Len(Top.args) = Len(Top.callee.params)
  <2>4. ASSUME CallsAgree, Complete
        PROVE  /\ Top.slot = (stack.committed + 16) + ReturnOffset(Top.callee)
               /\ \A i \in 1 .. Len(Top.args) :
                    Top.args[i].offset = (stack.committed + 16) + ParameterOffset(Top.callee, i)
    <3>1. /\ Top.slot = (stack.committed + Gap) + ReturnAt(Slot, Gap, Top.callee)
          /\ \A i \in 1 .. Len(Top.args) :
               Top.args[i].offset = (stack.committed + Gap) + ParameterAt(Slot, Gap, Top.callee, i)
      BY <2>4 DEF CallsAgree
    <3> QED  BY <2>2, <2>3, <3>1
  <2> QED  BY <2>1, <2>4 DEF CallFramesAgree
<1> QED  BY <1>1, LayoutHolds, PTL

-----------------------------------------------------------------------------
(***************************************************************************)
(* Where all slots are multiples of 16 bytes, so are all offsets.          *)
(***************************************************************************)
LEMMA MultiplesClosed ==
  /\ 0 \in Multiples /\ Multiples \subseteq Int
  /\ \A m, n \in Multiples : m + n \in Multiples /\ m - n \in Multiples
BY DEF Multiples

(* The stacks that the primitives leave.                                   *)
LEMMA PrimitivesAligned ==
  ASSUME NEW s \in ScopedStacks, StackOnMultiples(s), NEW n \in Multiples
  PROVE  /\ s.allocated + n \in Multiples /\ s.allocated - n \in Multiples
         /\ PushStack(s, n) \in ScopedStacks /\ StackOnMultiples(PushStack(s, n))
         /\ PopStack(s, n) \in ScopedStacks /\ StackOnMultiples(PopStack(s, n))
         /\ CommitStack(s) \in ScopedStacks /\ StackOnMultiples(CommitStack(s))
         /\ PushScope(s) \in ScopedStacks /\ StackOnMultiples(PushScope(s))
         /\ CanAllocateStack(s) => /\ AllocateStack(s, n) \in ScopedStacks
                                   /\ StackOnMultiples(AllocateStack(s, n))
         /\ CanPopScope(s) => PopScope(s) \in ScopedStacks /\ StackOnMultiples(PopScope(s))
<1>1. n \in Int /\ s.allocated + n \in Multiples /\ s.allocated - n \in Multiples
  BY MultiplesClosed DEF StackOnMultiples
<1>2. /\ PushStack(s, n) \in ScopedStacks /\ StackOnMultiples(PushStack(s, n))
      /\ PopStack(s, n) \in ScopedStacks /\ StackOnMultiples(PopStack(s, n))
      /\ CommitStack(s) \in ScopedStacks /\ StackOnMultiples(CommitStack(s))
  BY <1>1, Committed DEF StackOnMultiples
<1>3. PushScope(s) \in ScopedStacks /\ StackOnMultiples(PushScope(s))
  <2> DEFINE c == PushScope(s)
  <2>1. /\ c \in ScopedStacks /\ Len(c.scopes) = Len(s.scopes) + 1
        /\ \A k \in 1 .. Len(s.scopes) : c.scopes[k] = s.scopes[k]
        /\ Innermost(c) = Innermost(s)
        /\ c.allocated = s.allocated /\ c.committed = s.committed
    BY ScopePushed
  <2>2. Len(s.scopes) \in Nat \ {0}
    BY ScopesType
  <2> HIDE DEF c
  <2>3. c.scopes[Len(s.scopes) + 1] = s.scopes[Len(s.scopes)]
    BY <2>1 DEF Innermost
  <2>4. Len(s.scopes) \in 1 .. Len(s.scopes)
    BY <2>2
  <2>5. \A k \in 1 .. Len(c.scopes) : k \in 1 .. Len(s.scopes) \/ k = Len(s.scopes) + 1
    BY <2>1, <2>2
  <2>6. StackOnMultiples(c)
    BY <2>1, <2>3, <2>4, <2>5 DEF StackOnMultiples
  <2> QED  BY <2>1, <2>6 DEF c
<1>4. ASSUME CanAllocateStack(s)
      PROVE  AllocateStack(s, n) \in ScopedStacks /\ StackOnMultiples(AllocateStack(s, n))
  <2> DEFINE c == AllocateStack(s, n)
             m == Len(s.scopes)
  <2>1. /\ c \in ScopedStacks /\ Len(c.scopes) = m
        /\ \A k \in 1 .. m - 1 : c.scopes[k] = s.scopes[k]
        /\ c.scopes[m] = s.allocated + n
        /\ c.allocated = s.allocated + n /\ c.committed = s.committed
    BY <1>1, <1>4, Allocated
  <2>2. m \in Nat \ {0}
    BY ScopesType
  <2> HIDE DEF c
  <2>3. \A k \in 1 .. m : (k \in 1 .. m - 1 /\ k \in 1 .. Len(s.scopes)) \/ k = m
    BY <2>2
  <2>4. StackOnMultiples(c)
    BY <1>1, <2>1, <2>3 DEF StackOnMultiples
  <2> QED  BY <2>1, <2>4 DEF c
<1>5. ASSUME CanPopScope(s) PROVE PopScope(s) \in ScopedStacks /\ StackOnMultiples(PopScope(s))
  <2> DEFINE c == PopScope(s)
             m == Len(s.scopes) - 1
  <2>1. /\ s \in Stacks /\ Len(s.scopes) >= 1 /\ s.scopes \in Seq(Int) /\ m \in Nat \ {0}
        /\ Len(s.scopes) \in Nat
    BY <1>5, ScopesType DEF ScopedStacks, CanPopScope
  <2>2. /\ c.allocated = s.scopes[m] /\ c.scopes = SubSeq(s.scopes, 1, m)
        /\ c.committed = s.committed
    BY <2>1, StackFields
  <2>3. c \in ScopedStacks
    BY <1>5, 0 \in Int, ScopedStackTypes
  <2> HIDE DEF c
  <2>4. Len(c.scopes) = m /\ \A k \in 1 .. m : c.scopes[k] = s.scopes[k]
    <3>1. m \in 0 .. Len(s.scopes)
      BY <2>1
    <3> HIDE DEF m
    <3> QED  BY <2>1, <2>2, <3>1, Prefix
  <2>5. m \in 1 .. Len(s.scopes) /\ \A k \in 1 .. m : k \in 1 .. Len(s.scopes)
    <3>1. \A i \in Nat : i - 1 \in Nat \ {0} => /\ i - 1 \in 1 .. i
                                              /\ \A k \in 1 .. i - 1 : k \in 1 .. i
      OBVIOUS
    <3> QED  BY <2>1, <3>1
  <2> HIDE DEF m
  <2>6. StackOnMultiples(c)
    BY <2>2, <2>4, <2>5 DEF StackOnMultiples
  <2> QED  BY <2>3, <2>6 DEF c
<1> QED  BY <1>1, <1>2, <1>3, <1>4, <1>5

(* The frames that a handler leaves.                                       *)
FramesAligned(q) == \A i \in 1 .. Len(q) : OnMultiples(q[i])

LEMMA BecomingAligned ==
  ASSUME Sound, Running, Aligned, NEW f, OnMultiples(f)
  PROVE  FramesAligned(Becoming(f))
<1> DEFINE S == Activations \cup {f}
<1> HIDE DEF Activations
<1>1. frames \in Seq(S) /\ f \in S /\ Len(frames) \in 1 .. Len(frames)
  BY FrameTypes DEF Sound, TypeOK
<1> HIDE DEF S
<1>2. /\ Len(Becoming(f)) = Len(frames)
      /\ \A j \in 1 .. Len(frames) : Becoming(f)[j] = IF j = Len(frames) THEN f ELSE frames[j]
  BY <1>1, ExceptSeq DEF Becoming
<1> QED  BY <1>1, <1>2 DEF FramesAligned, Aligned

LEMMA CallingAligned ==
  ASSUME Sound, Running, Aligned, NEW f, NEW g, OnMultiples(f), OnMultiples(g)
  PROVE  FramesAligned(Calling(f, g))
<1> DEFINE S == Activations \cup {f, g}
<1> HIDE DEF Activations
<1>1. /\ frames \in Seq(S) /\ f \in S /\ g \in S
      /\ Len(frames) \in 1 .. Len(frames) /\ Len(frames) \in Nat
  BY FrameTypes DEF Sound, TypeOK
<1> HIDE DEF S
<1>2. /\ Becoming(f) \in Seq(S) /\ Len(Becoming(f)) = Len(frames)
  BY <1>1, ExceptSeq DEF Becoming
<1>3. /\ Len(Calling(f, g)) = Len(frames) + 1
      /\ \A j \in 1 .. Len(frames) : Calling(f, g)[j] = Becoming(f)[j]
      /\ Calling(f, g)[Len(frames) + 1] = g
  BY <1>1, <1>2, AppendProperties DEF Calling
<1>4. FramesAligned(Becoming(f))
  BY BecomingAligned
<1>5. \A i \in 1 .. Len(frames) + 1 : i \in 1 .. Len(frames) \/ i = Len(frames) + 1
  BY <1>1
<1> QED  BY <1>2, <1>3, <1>4, <1>5 DEF FramesAligned

LEMMA ReturningAligned ==
  ASSUME Sound, Running, Aligned PROVE FramesAligned(Returning)
<1> HIDE DEF Activations
<1>1. frames \in Seq(Activations) /\ Len(frames) \in Nat \ {0}
  BY FrameTypes DEF Sound, TypeOK
<1>2. Len(frames) - 1 \in 0 .. Len(frames) /\ 1 .. Len(frames) - 1 \subseteq 1 .. Len(frames)
  BY <1>1
<1>3. /\ Len(Returning) = Len(frames) - 1
      /\ \A i \in 1 .. Len(frames) - 1 : Returning[i] = frames[i]
  BY <1>1, <1>2, Prefix DEF Returning
<1> QED  BY <1>2, <1>3 DEF FramesAligned, Aligned

LEMMA GoesAligned ==
  ASSUME Aligned, NEW to, NEW s, Goes(to, s), StackOnMultiples(s), FramesAligned(to)
  PROVE  Aligned'
<1>1. /\ frames' = to /\ stack' = s /\ UNCHANGED <<result, locals>>
  BY DEF Goes
<1> QED  BY <1>1 DEF Aligned, FramesAligned, StackOnMultiples

LEMMA ReturnsAligned ==
  ASSUME Sound, Running, Aligned, NEW s, NEW names, Returns(s, names), StackOnMultiples(s),
         \A k \in 1 .. Len(names) : names[k].offset \in Multiples, result' \in Multiples
  PROVE  Aligned'
<1>1. /\ frames' = Returning /\ stack' = s /\ locals' = names
  BY DEF Returns
<1>2. FramesAligned(Returning)
  BY ReturningAligned
<1> QED  BY <1>1, <1>2 DEF Aligned, FramesAligned, StackOnMultiples

(* A new activation, and a step of the innermost.                          *)
LEMMA ActivationAligned ==
  ASSUME NEW s, s.allocated \in Multiples
  PROVE  \A routine, t, visible : OnMultiples(Activation(routine, t, s, visible))
BY MultiplesClosed DEF OnMultiples, Activation

LEMMA StepAligned ==
  ASSUME NEW f \in Activations, OnMultiples(f), NEW n \in Multiples
  PROVE  \A kind, step, type, left, right, patch, start :
           /\ OnMultiples([f EXCEPT !.kind = kind, !.step = step, !.left = left])
           /\ OnMultiples([f EXCEPT !.kind = kind, !.step = step])
           /\ OnMultiples([f EXCEPT !.step = step, !.left = left])
           /\ OnMultiples([f EXCEPT !.step = step, !.patch = patch])
           /\ OnMultiples([f EXCEPT !.step = step, !.start = start])
           /\ OnMultiples([f EXCEPT !.kind = kind, !.step = step, !.left = left, !.right = right])
           /\ OnMultiples([f EXCEPT !.step = step, !.slot = n])
           /\ OnMultiples([f EXCEPT !.kind = kind, !.step = step, !.slot = n])
           /\ OnMultiples([f EXCEPT !.kind = kind, !.step = step, !.slot = n, !.left = left])
           /\ OnMultiples([f EXCEPT !.kind = kind, !.step = step, !.type = type, !.left = left,
                                    !.slot = n])
           /\ \A callee : OnMultiples([f EXCEPT !.kind = kind, !.step = step, !.slot = n,
                                                !.callee = callee])
BY DEF Activations, OnMultiples

(* What the handlers find.                                                 *)
LEMMA FindsAligned ==
  ASSUME SixteenByteSlots, Sound, Running, Aligned
  PROVE  /\ stack \in ScopedStacks /\ StackOnMultiples(stack) /\ stack.allocated \in Multiples
         /\ result \in Multiples /\ Top \in Activations /\ OnMultiples(Top)
         /\ Top.slot \in Multiples /\ Top.argsize \in Multiples
         /\ Slot[Top.type] \in Multiples /\ Slot[Top.left] \in Multiples
         /\ Slot[Top.right] \in Multiples
         /\ Slot[String] \in Multiples /\ Slot[Bool] \in Multiples
         /\ \A t \in ValueTypes : Slot[t] \in Multiples
         /\ \A k \in 1 .. Len(locals) : locals[k].offset \in Multiples
<1>1. /\ stack \in ScopedStacks /\ Top \in Activations
      /\ Top.type \in Types /\ Top.left \in Types /\ Top.right \in Types
  BY HandlerStacks
<1>2. Len(frames) \in 1 .. Len(frames) /\ Top = frames[Len(frames)]
  BY FrameTypes DEF Sound, TypeOK
<1>3. OnMultiples(Top)
  BY <1>2 DEF Aligned
<1> QED  BY <1>1, <1>3, Sizes DEF Aligned, SixteenByteSlots, OnMultiples, StackOnMultiples

(* The names that are visible then.                                        *)
NamesAligned(q) == \A k \in 1 .. Len(q) : q[k].offset \in Multiples

LEMMA NamesShortened ==
  ASSUME Sound, Running, Aligned, NEW n \in 0 .. Len(locals)
  PROVE  NamesAligned(SubSeq(locals, 1, n))
<1>1. locals \in Seq(Locals) /\ Len(locals) \in Nat
  BY Context
<1>2. /\ Len(SubSeq(locals, 1, n)) = n
      /\ \A k \in 1 .. n : SubSeq(locals, 1, n)[k] = locals[k]
  <2> HIDE DEF Locals
  <2> QED  BY <1>1, Prefix
<1> QED  BY <1>1, <1>2 DEF NamesAligned, Aligned

LEMMA NamesExtended ==
  ASSUME Sound, Running, Aligned, NEW t \in Types, NEW o \in Multiples
  PROVE  NamesAligned(Append(locals, [type |-> t, offset |-> o]))
<1> DEFINE v == [type |-> t, offset |-> o]
<1>1. locals \in Seq(Locals) /\ v \in Locals /\ v.offset \in Multiples /\ Len(locals) \in Nat
  BY Context, MultiplesClosed DEF Locals
<1> HIDE DEF v
<1>2. /\ Len(Append(locals, v)) = Len(locals) + 1
      /\ \A k \in 1 .. Len(locals) : Append(locals, v)[k] = locals[k]
      /\ Append(locals, v)[Len(locals) + 1] = v
  <2> HIDE DEF Locals
  <2> QED  BY <1>1, AppendProperties
<1>3. \A k \in 1 .. Len(locals) + 1 : k \in 1 .. Len(locals) \/ k = Len(locals) + 1
  BY <1>1
<1>4. NamesAligned(Append(locals, v))
  BY <1>1, <1>2, <1>3 DEF NamesAligned, Aligned
<1> QED  BY <1>4 DEF v

(* A call with s on the stack.                                             *)
LEMMA CallAligned ==
  ASSUME Sound, Running, Aligned, NEW f, OnMultiples(f), NEW s, StackOnMultiples(s),
         NEW routine, NEW t, NEW visible,
         Goes(Calling(f, Activation(routine, t, s, visible)), s)
  PROVE  Aligned'
<1>1. OnMultiples(Activation(routine, t, s, visible))
  BY ActivationAligned DEF StackOnMultiples
<1>2. FramesAligned(Calling(f, Activation(routine, t, s, visible)))
  BY <1>1, CallingAligned
<1> QED  BY <1>2, GoesAligned

LEMMA BecomesAligned ==
  ASSUME Sound, Running, Aligned, NEW f, OnMultiples(f), NEW s, StackOnMultiples(s),
         Goes(Becoming(f), s)
  PROVE  Aligned'
BY BecomingAligned, GoesAligned

(* The calls of the emitters of expressions.                               *)
LEMMA OperandsAligned ==
  ASSUME SixteenByteSlots, Sound, Aligned,
         BeginBinaryStep \/ BinaryRightStep \/ BeginArgumentStep \/ BeginAssignStep
         \/ BeginCastStep \/ BeginDiscardStep \/ BeginIfStep \/ ForConditionStep
         \/ BeginReturnStep
  PROVE  Aligned'
<1>1. Running
  BY DEF BeginBinaryStep, BinaryRightStep, BeginArgumentStep, BeginAssignStep, BeginCastStep,
         BeginDiscardStep, BeginIfStep, ForConditionStep, BeginReturnStep, Entering, At
<1>2. /\ Top \in Activations /\ OnMultiples(Top) /\ StackOnMultiples(stack)
      /\ result \in Multiples /\ NamesAligned(locals)
  BY <1>1, FindsAligned DEF NamesAligned
<1> HIDE DEF Activations
<1>3. CASE BeginBinaryStep
  <2>1. PICK l, r \in ValueTypes :
          Goes(Calling([Top EXCEPT !.kind = "binary", !.step = "left", !.left = l, !.right = r],
                       Expression(l, stack)), stack)
    BY <1>3 DEF BeginBinaryStep
  <2>2. OnMultiples([Top EXCEPT !.kind = "binary", !.step = "left", !.left = l, !.right = r])
    BY <1>2, StepAligned
  <2> QED  BY <1>1, <1>2, <2>1, <2>2, CallAligned DEF Expression
<1>4. CASE BinaryRightStep
  <2>1. Goes(Calling([Top EXCEPT !.step = "right", !.slot = result],
                     Expression(Top.right, stack)), stack)
    BY <1>4 DEF BinaryRightStep
  <2>2. OnMultiples([Top EXCEPT !.step = "right", !.slot = result])
    BY <1>2, StepAligned
  <2> QED  BY <1>1, <1>2, <2>1, <2>2, CallAligned DEF Expression
<1>5. CASE BeginArgumentStep
  <2>1. PICK t : Goes(Calling([Top EXCEPT !.step = "argument", !.left = t],
                              Expression(t, stack)), stack)
    BY <1>5 DEF BeginArgumentStep
  <2>2. OnMultiples([Top EXCEPT !.step = "argument", !.left = t])
    BY <1>2, StepAligned, MultiplesClosed
  <2> QED  BY <1>1, <1>2, <2>1, <2>2, CallAligned DEF Expression
<1>6. CASE BeginAssignStep
  <2>1. PICK local, t :
          /\ local \in Visible
          /\ Goes(Calling([Top EXCEPT !.kind = "assign", !.step = "value",
                                   !.slot = local.offset, !.left = t],
                       Expression(t, stack)), stack)
    BY <1>6, Zenon DEF BeginAssignStep, Targets
  <2>2. local.offset \in Multiples
    <3>1. local \in Visible
      BY <2>1
    <3> QED  BY <1>2, <3>1 DEF Visible, NamesAligned
  <2>3. OnMultiples([Top EXCEPT !.kind = "assign", !.step = "value",
                                !.slot = local.offset, !.left = t])
    BY <1>2, <2>2, StepAligned
  <2> QED  BY <1>1, <1>2, <2>1, <2>3, CallAligned DEF Expression
<1>7. CASE BeginCastStep
  <2>1. PICK from : Goes(Calling([Top EXCEPT !.kind = "cast", !.step = "value", !.left = from],
                                 Expression(from, stack)), stack)
    BY <1>7 DEF BeginCastStep
  <2>2. OnMultiples([Top EXCEPT !.kind = "cast", !.step = "value", !.left = from])
    BY <1>2, StepAligned, MultiplesClosed
  <2> QED  BY <1>1, <1>2, <2>1, <2>2, CallAligned DEF Expression
<1>8. CASE BeginDiscardStep
  <2>1. PICK t : Goes(Calling([Top EXCEPT !.kind = "discard", !.step = "value", !.left = t],
                              Expression(t, stack)), stack)
    BY <1>8 DEF BeginDiscardStep
  <2>2. OnMultiples([Top EXCEPT !.kind = "discard", !.step = "value", !.left = t])
    BY <1>2, StepAligned, MultiplesClosed
  <2> QED  BY <1>1, <1>2, <2>1, <2>2, CallAligned DEF Expression
<1>9. CASE BeginIfStep
  <2>1. Goes(Calling([Top EXCEPT !.kind = "if", !.step = "condition"],
                     Expression(Bool, stack)), stack)
    BY <1>9 DEF BeginIfStep
  <2>2. OnMultiples([Top EXCEPT !.kind = "if", !.step = "condition"])
    BY <1>2, StepAligned, MultiplesClosed
  <2> QED  BY <1>1, <1>2, <2>1, <2>2, CallAligned DEF Expression
<1>10. CASE ForConditionStep
  <2>1. Goes(Calling([Top EXCEPT !.step = "condition", !.start = Label],
                     Expression(Bool, stack)), stack)
    BY <1>10 DEF ForConditionStep
  <2>2. OnMultiples([Top EXCEPT !.step = "condition", !.start = Label])
    BY <1>2, StepAligned, MultiplesClosed
  <2> QED  BY <1>1, <1>2, <2>1, <2>2, CallAligned DEF Expression
<1>11. CASE BeginReturnStep
  <2>1. PICK t : Goes(Calling([Top EXCEPT !.kind = "return", !.step = "value", !.left = t],
                              Expression(t, stack)), stack)
    BY <1>11 DEF BeginReturnStep
  <2>2. OnMultiples([Top EXCEPT !.kind = "return", !.step = "value", !.left = t])
    BY <1>2, StepAligned, MultiplesClosed
  <2> QED  BY <1>1, <1>2, <2>1, <2>2, CallAligned DEF Expression
<1> QED  BY <1>3, <1>4, <1>5, <1>6, <1>7, <1>8, <1>9, <1>10, <1>11

(* The handlers that take up room first, open a scope or start a call.     *)
LEMMA RoomAligned ==
  ASSUME SixteenByteSlots, Sound, Aligned,
         BeginCallStep \/ EndArgumentStep \/ BeginMemberStep \/ BeginDeclarationStep
  PROVE  Aligned'
<1>1. Running
  BY DEF BeginCallStep, EndArgumentStep, BeginMemberStep, BeginDeclarationStep, Entering, At
<1>2. /\ stack \in ScopedStacks /\ StackOnMultiples(stack)
      /\ Top \in Activations /\ OnMultiples(Top) /\ result \in Multiples
      /\ Slot[Top.type] \in Multiples /\ Slot[Top.left] \in Multiples
      /\ \A t \in ValueTypes : Slot[t] \in Multiples
      /\ Top.argsize \in Multiples
  BY <1>1, FindsAligned
<1> HIDE DEF Activations
<1>3. CASE BeginCallStep
  <2> DEFINE c == PushStack(stack, Slot[Top.type])
  <2>1. PICK callee \in Signatures :
          Goes(Becoming([Top EXCEPT !.kind = "call", !.step = "arguments",
                                    !.slot = c.allocated, !.callee = callee]), c)
    BY <1>3 DEF BeginCallStep
  <2>2. StackOnMultiples(c) /\ c.allocated \in Multiples
    BY <1>2, PrimitivesAligned DEF StackOnMultiples
  <2> HIDE DEF c
  <2>3. OnMultiples([Top EXCEPT !.kind = "call", !.step = "arguments",
                                !.slot = c.allocated, !.callee = callee])
    BY <1>2, <2>2, StepAligned
  <2> QED  BY <1>1, <1>2, <2>1, <2>2, <2>3, BecomesAligned
<1>4. CASE EndArgumentStep
  <2> DEFINE a == [offset |-> result, size |-> Slot[Top.left]]
             f == [Top EXCEPT !.step = "arguments", !.args = Append(@, a),
                              !.argsize = @ + Slot[Top.left]]
  <2>1. Goes(Becoming(f), stack)
    BY <1>4 DEF EndArgumentStep
  <2>2. /\ f.at = Top.at /\ f.slot = Top.slot /\ f.args = Append(Top.args, a)
        /\ f.argsize = Top.argsize + Slot[Top.left]
        /\ Top.args \in Seq([offset : Int, size : Nat]) /\ a \in [offset : Int, size : Nat]
        /\ a.offset \in Multiples /\ Len(Top.args) \in Nat
    <3>1. Top.args \in Seq([offset : Int, size : Nat])
      BY <1>2 DEF Activations
    <3>2. Top.left \in Types /\ result \in Int
      BY <1>2, ActivationFields, MultiplesClosed
    <3>3. Slot[Top.left] \in Nat
      BY <3>2, Sizes
    <3>4. a \in [offset : Int, size : Nat]
      BY <3>2, <3>3
    <3>5. /\ f.at = Top.at /\ f.slot = Top.slot /\ f.args = Append(Top.args, a)
          /\ f.argsize = Top.argsize + Slot[Top.left]
      BY <1>2 DEF Activations
    <3> QED  BY <1>2, <3>1, <3>4, <3>5
  <2> HIDE DEF a, f
  <2>3. /\ Len(f.args) = Len(Top.args) + 1
        /\ \A i \in 1 .. Len(Top.args) : f.args[i] = Top.args[i]
        /\ f.args[Len(Top.args) + 1] = a
    BY <2>2, AppendProperties
  <2>4. \A i \in 1 .. Len(Top.args) + 1 : i \in 1 .. Len(Top.args) \/ i = Len(Top.args) + 1
    BY <2>2
  <2>5. f.argsize \in Multiples
    <3>1. PICK m \in Multiples, n \in Multiples : m = Top.argsize /\ n = Slot[Top.left]
      BY <1>2
    <3>2. m + n \in Multiples
      BY MultiplesClosed
    <3> QED  BY <2>2, <3>1, <3>2
  <2>6. OnMultiples(f)
    BY <1>2, <2>2, <2>3, <2>4, <2>5 DEF OnMultiples
  <2> QED  BY <1>1, <1>2, <2>1, <2>6, BecomesAligned
<1>5. CASE BeginMemberStep
  <2> DEFINE c == Pushed(stack, Top.type)
  <2>1. Goes(Calling([Top EXCEPT !.kind = "member", !.step = "string", !.slot = c.allocated],
                     Expression(String, c)), c)
    BY <1>5 DEF BeginMemberStep
  <2>2. StackOnMultiples(c) /\ c.allocated \in Multiples
    BY <1>2, PrimitivesAligned DEF StackOnMultiples, Pushed
  <2> HIDE DEF c
  <2>3. OnMultiples([Top EXCEPT !.kind = "member", !.step = "string", !.slot = c.allocated])
    BY <1>2, <2>2, StepAligned
  <2> QED  BY <1>1, <1>2, <2>1, <2>2, <2>3, CallAligned DEF Expression
<1>6. CASE BeginDeclarationStep
  <2>1. CanAllocateStack(stack)
    BY <1>6 DEF BeginDeclarationStep
  <2>2. PICK t \in ValueTypes : \E initializer \in Initializers(t) :
          LET c == AllocateStack(stack, Slot[t])
          IN  Goes(Calling([Top EXCEPT !.kind = "declaration", !.step = "initializer",
                                       !.type = t, !.left = initializer, !.slot = c.allocated],
                           Expression(initializer, c)), c)
    BY <1>6 DEF BeginDeclarationStep
  <2> DEFINE c == AllocateStack(stack, Slot[t])
  <2>3. PICK initializer \in Initializers(t) :
          Goes(Calling([Top EXCEPT !.kind = "declaration", !.step = "initializer",
                                   !.type = t, !.left = initializer, !.slot = c.allocated],
                       Expression(initializer, c)), c)
    BY <2>2
  <2>4. StackOnMultiples(c) /\ c.allocated \in Multiples
    BY <1>2, <2>1, PrimitivesAligned DEF StackOnMultiples
  <2> HIDE DEF c
  <2>5. OnMultiples([Top EXCEPT !.kind = "declaration", !.step = "initializer",
                                !.type = t, !.left = initializer, !.slot = c.allocated])
    BY <1>2, <2>4, StepAligned
  <2> QED  BY <1>1, <1>2, <2>3, <2>4, <2>5, CallAligned DEF Expression
<1> QED  BY <1>3, <1>4, <1>5, <1>6

(* The calls of the emitters of statements.                                *)
LEMMA StatementsAligned ==
  ASSUME SixteenByteSlots, Sound, Aligned,
         IfThenStep \/ BeginForStep \/ ForBodyStep \/ BeginBlockStep \/ NextStatementStep
  PROVE  Aligned'
<1>1. Running
  BY DEF IfThenStep, BeginForStep, ForBodyStep, BeginBlockStep, NextStatementStep, Entering, At
<1>2. /\ stack \in ScopedStacks /\ StackOnMultiples(stack)
      /\ Top \in Activations /\ OnMultiples(Top) /\ Slot[Bool] \in Multiples
  BY <1>1, FindsAligned
<1>3. Popped(stack, Bool) \in ScopedStacks /\ StackOnMultiples(Popped(stack, Bool))
  BY <1>2, PrimitivesAligned DEF Popped
<1> HIDE DEF Activations
<1>4. CASE IfThenStep
  <2> DEFINE c == PushScope(Popped(stack, Bool))
  <2>1. Goes(Calling([Top EXCEPT !.step = "then", !.patch = Len(text')],
                     Statement(c, Len(locals))), c)
    BY <1>4 DEF IfThenStep
  <2>2. StackOnMultiples(c)
    BY <1>3, PrimitivesAligned, MultiplesClosed
  <2> HIDE DEF c
  <2>3. OnMultiples([Top EXCEPT !.step = "then", !.patch = Len(text')])
    BY <1>2, StepAligned
  <2> QED  BY <1>1, <1>2, <2>1, <2>2, <2>3, CallAligned DEF Statement
<1>5. CASE BeginForStep
  <2> DEFINE c == PushScope(stack)
  <2>1. Goes(Calling([Top EXCEPT !.kind = "for", !.step = "declaration"], LoopDeclaration(c)), c)
    BY <1>5 DEF BeginForStep
  <2>2. StackOnMultiples(c)
    BY <1>2, PrimitivesAligned
  <2> HIDE DEF c
  <2>3. OnMultiples([Top EXCEPT !.kind = "for", !.step = "declaration"])
    BY <1>2, StepAligned
  <2> QED  BY <1>1, <1>2, <2>1, <2>2, <2>3, CallAligned DEF LoopDeclaration
<1>6. CASE ForBodyStep
  <2> DEFINE c == Popped(stack, Bool)
  <2>1. Goes(Calling([Top EXCEPT !.step = "body", !.patch = Len(text')],
                     LoopBody(c, Len(locals))), c)
    BY <1>6 DEF ForBodyStep
  <2>2. StackOnMultiples(c)
    BY <1>3
  <2> HIDE DEF c
  <2>3. OnMultiples([Top EXCEPT !.step = "body", !.patch = Len(text')])
    BY <1>2, StepAligned
  <2> QED  BY <1>1, <1>2, <2>1, <2>2, <2>3, CallAligned DEF LoopBody
<1>7. CASE BeginBlockStep
  <2> DEFINE c == PushScope(stack)
  <2>1. Goes(Becoming([Top EXCEPT !.kind = "block", !.step = "statements"]), c)
    BY <1>7 DEF BeginBlockStep
  <2>2. StackOnMultiples(c)
    BY <1>2, PrimitivesAligned
  <2> HIDE DEF c
  <2>3. OnMultiples([Top EXCEPT !.kind = "block", !.step = "statements"])
    BY <1>2, StepAligned
  <2> QED  BY <1>1, <1>2, <2>1, <2>2, <2>3, BecomesAligned
<1>8. CASE NextStatementStep
  <2>1. Goes(Calling(Top, Statement(stack, Len(locals))), stack)
    BY <1>8 DEF NextStatementStep
  <2> QED  BY <1>1, <1>2, <2>1, CallAligned DEF Statement
<1> QED  BY <1>4, <1>5, <1>6, <1>7, <1>8

LEMMA ForStepAligned == ASSUME SixteenByteSlots, Sound, Aligned, ForStepStep PROVE Aligned'
<1> HIDE DEF Activations
<1>1. Running /\ Top.kind = "for" /\ Top.step = "body"
  BY DEF ForStepStep, At
<1>2. /\ Top \in Activations /\ OnMultiples(Top) /\ StackOnMultiples(stack)
      /\ result \in Multiples
  BY <1>1, FindsAligned
<1>3. Top.visible + 1 \in 0 .. Len(locals)
  <2>1. Names(Top) = Top.visible + 1
    BY <1>1 DEF Names
  <2> QED  BY <1>1, <2>1, Context
<1>4. PICK t \in Types :
        frames' = Calling([Top EXCEPT !.step = "step", !.left = t],
                          Activation("expression", t, stack, Top.visible + 1))
  BY DEF ForStepStep
<1>5. OnMultiples([Top EXCEPT !.step = "step", !.left = t])
  BY <1>2, StepAligned
<1>6. OnMultiples(Activation("expression", t, stack, Top.visible + 1))
  BY <1>2, ActivationAligned DEF StackOnMultiples
<1>7. FramesAligned(frames')
  BY <1>1, <1>4, <1>5, <1>6, CallingAligned
<1>8. NamesAligned(locals')
  BY <1>1, <1>3, NamesShortened DEF ForStepStep
<1>9. UNCHANGED <<stack, result>>
  BY DEF ForStepStep
<1> QED  BY <1>2, <1>7, <1>8, <1>9 DEF Aligned, FramesAligned, NamesAligned, StackOnMultiples

(* The handlers of expressions that return.                                *)
LEMMA ValuesAligned ==
  ASSUME SixteenByteSlots, Sound, Aligned,
         PushStep \/ EndBinaryStep \/ EndCallStep \/ EndAssignStep \/ EndMemberStep \/ EndCastStep
  PROVE  Aligned'
<1>1. Running
  BY DEF PushStep, EndBinaryStep, EndCallStep, EndAssignStep, EndMemberStep, EndCastStep,
         Entering, At
<1>2. /\ stack \in ScopedStacks /\ StackOnMultiples(stack) /\ stack.allocated \in Multiples
      /\ result \in Multiples /\ Top.slot \in Multiples /\ Top.argsize \in Multiples
      /\ Slot[Top.type] \in Multiples /\ Slot[Top.left] \in Multiples
      /\ Slot[Top.right] \in Multiples /\ Slot[String] \in Multiples
      /\ \A k \in 1 .. Len(locals) : locals[k].offset \in Multiples
  BY <1>1, FindsAligned
<1>3. \A s : StackOnMultiples(s) => s.allocated \in Multiples
  BY DEF StackOnMultiples
<1>4. CASE PushStep
  <2>1. StackOnMultiples(Pushed(stack, Top.type))
    BY <1>2, PrimitivesAligned DEF Pushed
  <2>2. /\ Returns(Pushed(stack, Top.type), locals)
        /\ result' = Pushed(stack, Top.type).allocated
    BY <1>4 DEF PushStep, Yields
  <2> QED  BY <1>1, <1>2, <1>3, <2>1, <2>2, ReturnsAligned
<1>5. CASE EndBinaryStep
  <2> DEFINE p == PopStack(PopStack(stack, Slot[Top.right]), Slot[Top.left])
  <2>1. p \in ScopedStacks /\ StackOnMultiples(p)
    BY <1>2, PrimitivesAligned
  <2>2. Returns(Pushed(p, Top.type), locals) /\ result' = Pushed(p, Top.type).allocated
    BY <1>5 DEF EndBinaryStep, Yields
  <2> HIDE DEF p
  <2>3. StackOnMultiples(Pushed(p, Top.type))
    BY <1>2, <2>1, PrimitivesAligned DEF Pushed
  <2> QED  BY <1>1, <1>2, <1>3, <2>2, <2>3, ReturnsAligned
<1>6. CASE EndCallStep
  <2>1. StackOnMultiples(CommitStack(PopStack(stack, Top.argsize)))
    BY <1>2, PrimitivesAligned
  <2>2. Returns(CommitStack(PopStack(stack, Top.argsize)), locals) /\ result' = Top.slot
    BY <1>6 DEF EndCallStep
  <2> QED  BY <1>1, <1>2, <2>1, <2>2, ReturnsAligned
<1>7. CASE EndAssignStep
  <2>1. Returns(stack, locals) /\ result' = result
    BY <1>7 DEF EndAssignStep
  <2> QED  BY <1>1, <1>2, <2>1, ReturnsAligned
<1>8. CASE EndMemberStep
  <2>1. StackOnMultiples(Popped(stack, String))
    BY <1>2, PrimitivesAligned DEF Popped
  <2>2. Returns(Popped(stack, String), locals) /\ result' = Top.slot
    BY <1>8 DEF EndMemberStep
  <2> QED  BY <1>1, <1>2, <2>1, <2>2, ReturnsAligned
<1>9. CASE EndCastStep
  <2>1. /\ PopStack(stack, Slot[Top.left]) \in ScopedStacks
        /\ StackOnMultiples(PopStack(stack, Slot[Top.left]))
    BY <1>2, PrimitivesAligned
  <2>2. StackOnMultiples(Pushed(PopStack(stack, Slot[Top.left]), Top.type))
    BY <1>2, <2>1, PrimitivesAligned DEF Pushed
  <2>3. \/ Yields(Pushed(PopStack(stack, Slot[Top.left]), Top.type))
        \/ Yields(stack)
    BY <1>9 DEF EndCastStep
  <2>4. PICK s : StackOnMultiples(s) /\ Returns(s, locals) /\ result' = s.allocated
    BY <1>2, <2>2, <2>3 DEF Yields
  <2> QED  BY <1>1, <1>2, <1>3, <2>4, ReturnsAligned
<1> QED  BY <1>4, <1>5, <1>6, <1>7, <1>8, <1>9

(* The handlers of statements that return.                                 *)
LEMMA EndsAligned ==
  ASSUME SixteenByteSlots, Sound, Aligned,
         DeclareOnlyStep \/ EndDeclarationStep \/ EndDiscardStep \/ EndIfStep \/ EndForStep
         \/ EndReturnStep \/ EndBlockStep \/ EndFunctionStep
  PROVE  Aligned'
<1>1. Running /\ result' = result
  BY DEF DeclareOnlyStep, EndDeclarationStep, EndDiscardStep, EndIfStep, EndForStep,
         EndReturnStep, EndBlockStep, EndFunctionStep, Entering, At
<1>2. /\ stack \in ScopedStacks /\ StackOnMultiples(stack)
      /\ result \in Multiples /\ Top.slot \in Multiples
      /\ Slot[Top.left] \in Multiples /\ \A t \in ValueTypes : Slot[t] \in Multiples
      /\ NamesAligned(locals)
  BY <1>1, FindsAligned DEF NamesAligned
<1>3. Popped(stack, Top.left) \in ScopedStacks /\ StackOnMultiples(Popped(stack, Top.left))
  BY <1>2, PrimitivesAligned DEF Popped
<1>4. /\ Top.visible \in 0 .. Len(locals)
      /\ \A n \in 0 .. Top.visible : n \in 0 .. Len(locals)
  BY <1>1, Context
<1>5. SUFFICES ASSUME NEW s, NEW names, Returns(s, names)
               PROVE  StackOnMultiples(s) /\ NamesAligned(names)
  <2>1. \E s, names : Returns(s, names)
    BY Zenon DEF DeclareOnlyStep, EndDeclarationStep, EndDiscardStep, EndIfStep, EndForStep,
                 EndReturnStep, EndBlockStep, EndFunctionStep
  <2> QED  BY <1>1, <1>2, <1>5, <2>1, ReturnsAligned DEF NamesAligned
<1>6. s = stack' /\ names = locals'
  BY <1>5 DEF Returns
<1>7. CASE DeclareOnlyStep
  <2>1. PICK t \in ValueTypes :
          Returns(AllocateStack(stack, Slot[t]), Declared(t, AllocateStack(stack, Slot[t])))
    BY <1>7 DEF DeclareOnlyStep
  <2> DEFINE c == AllocateStack(stack, Slot[t])
  <2>2. StackOnMultiples(c) /\ c.allocated \in Multiples /\ t \in Types
    BY <1>2, <1>7, PrimitivesAligned, Sizes DEF DeclareOnlyStep, StackOnMultiples
  <2>3. stack' = c /\ locals' = Append(locals, [type |-> t, offset |-> c.allocated])
    BY <2>1 DEF Returns, Declared
  <2> HIDE DEF c
  <2> QED  BY <1>1, <1>6, <2>2, <2>3, NamesExtended
<1>8. CASE EndDeclarationStep
  <2>1. /\ stack' = Popped(stack, Top.left)
        /\ locals' = Append(locals, [type |-> Top.type, offset |-> Top.slot])
    BY <1>8 DEF EndDeclarationStep, Returns
  <2>2. Top.type \in Types
    BY <1>1, HandlerStacks
  <2> QED  BY <1>1, <1>2, <1>3, <1>6, <2>1, <2>2, NamesExtended
<1>9. CASE EndDiscardStep \/ EndReturnStep
  BY <1>2, <1>3, <1>6, <1>9 DEF EndDiscardStep, EndReturnStep, Returns
<1>10. CASE EndIfStep \/ EndBlockStep
  <2>1. CanPopScope(stack) /\ stack' = CommitStack(PopScope(stack)) /\ locals' = Outer
    BY <1>10 DEF EndIfStep, EndBlockStep, Returns
  <2>2. StackOnMultiples(CommitStack(PopScope(stack)))
    BY <1>2, <2>1, PrimitivesAligned, MultiplesClosed
  <2> QED  BY <1>1, <1>4, <1>6, <2>1, <2>2, NamesShortened DEF Outer
<1>11. CASE EndForStep
  <2> DEFINE c == Popped(stack, Top.left)
  <2>1. CanPopScope(c) /\ stack' = CommitStack(PopScope(c)) /\ locals' = Outer
    BY <1>11 DEF EndForStep, Returns
  <2>2. c \in ScopedStacks /\ StackOnMultiples(c)
    BY <1>3
  <2> HIDE DEF c
  <2>3. StackOnMultiples(CommitStack(PopScope(c)))
    BY <2>1, <2>2, PrimitivesAligned, MultiplesClosed
  <2> QED  BY <1>1, <1>4, <1>6, <2>1, <2>3, NamesShortened DEF Outer
<1>12. CASE EndFunctionStep
  <2>1. PICK n \in 0 .. Top.visible :
          Returns(CommitStack(PopScope(stack)), SubSeq(locals, 1, n))
          \/ Returns(PopScope(stack), SubSeq(locals, 1, n))
    BY <1>12, Zenon DEF EndFunctionStep
  <2>2. CanPopScope(stack)
    BY <1>12 DEF EndFunctionStep
  <2>3. StackOnMultiples(PopScope(stack)) /\ StackOnMultiples(CommitStack(PopScope(stack)))
    BY <1>2, <2>2, PrimitivesAligned, MultiplesClosed
  <2>4. StackOnMultiples(stack')
    BY <2>1, <2>3 DEF Returns
  <2>5. locals' = SubSeq(locals, 1, n)
    BY <2>1 DEF Returns
  <2> QED  BY <1>1, <1>4, <1>6, <2>4, <2>5, NamesShortened
<1> QED  BY <1>7, <1>8, <1>9, <1>10, <1>11, <1>12

(* The parameters.                                                         *)
LEMMA BytesAligned ==
  ASSUME SixteenByteSlots, NEW params \in Seq(ValueTypes)
  PROVE  \A n \in 0 .. Len(params) : BytesOfLast(Slot, n, params) \in Multiples
<1> DEFINE B(k) == BytesOfLast(Slot, k, params)
           S == {k \in Nat : k <= Len(params) => B(k) \in Multiples}
<1>1. B(0) = 0 /\ \A n \in 0 .. Len(params) - 1 : B(n + 1) = B(n) + Slot[params[Len(params) - n]]
  BY BytesOfLastStep
<1> HIDE DEF B
<1>2. 0 \in S
  BY <1>1, MultiplesClosed
<1>3. ASSUME NEW k \in Nat, k \in S PROVE k + 1 \in S
  <2>1. SUFFICES ASSUME k + 1 <= Len(params) PROVE B(k + 1) \in Multiples
    OBVIOUS
  <2>2. k \in 0 .. Len(params) - 1 /\ Len(params) - k \in 1 .. Len(params) /\ k <= Len(params)
    BY <2>1
  <2>3. params[Len(params) - k] \in Types
    BY <2>2, Sizes
  <2>4. B(k) \in Multiples /\ Slot[params[Len(params) - k]] \in Multiples
    BY <1>3, <2>2, <2>3 DEF SixteenByteSlots
  <2> QED  BY <1>1, <2>2, <2>4, MultiplesClosed
<1>4. Nat \subseteq S
  <2> HIDE DEF S
  <2> QED  BY <1>2, <1>3, NatSetInduction
<1> QED  BY <1>4 DEF B

LEMMA InitAligned == ASSUME SixteenByteSlots, EmitterInit PROVE Aligned
<1>1. FreshStack \in ScopedStacks /\ StackOnMultiples(FreshStack)
  BY MultiplesClosed DEF FreshStack, ScopedStacks, Stacks, StackOnMultiples
<1>2. StackOnMultiples(stack)
  <2>1. stack = PushScope(FreshStack)
    BY DEF EmitterInit
  <2> HIDE DEF FreshStack
  <2> QED  BY <1>1, <2>1, PrimitivesAligned, MultiplesClosed
<1>3. result \in Multiples
  BY MultiplesClosed DEF EmitterInit
<1>4. PICK v : frames = <<[Activation("function", Void, FreshStack, v)
                             EXCEPT !.kind = "function", !.step = "statements"]>>
  BY Zenon DEF EmitterInit
<1>5. OnMultiples([Activation("function", Void, FreshStack, v)
                     EXCEPT !.kind = "function", !.step = "statements"])
  BY MultiplesClosed DEF OnMultiples, Activation, FreshStack
<1>6. \A i \in 1 .. Len(frames) : OnMultiples(frames[i])
  <2> DEFINE f == [Activation("function", Void, FreshStack, v)
                     EXCEPT !.kind = "function", !.step = "statements"]
  <2>1. frames = <<f>> /\ OnMultiples(f)
    BY <1>4, <1>5
  <2> HIDE DEF f
  <2> QED  BY <2>1
<1>7. ASSUME NEW k \in 1 .. Len(locals) PROVE locals[k].offset \in Multiples
  <2>1. /\ signature.params \in Seq(ValueTypes) /\ Len(signature.params) \in Nat
        /\ locals = [i \in 1 .. Len(signature.params) |->
             [type |-> signature.params[i], offset |-> ParameterAt(Slot, Gap, signature, i)]]
    BY SignatureTypes DEF EmitterInit
  <2>2. k \in 1 .. Len(signature.params) /\ Len(signature.params) - k \in 0 .. Len(signature.params)
    BY <1>7, <2>1
  <2>3. PICK n \in Multiples : n = BytesOfLast(Slot, Len(signature.params) - k, signature.params)
    BY <2>1, <2>2, BytesAligned
  <2>4. locals[k].offset = -Gap - n
    BY <2>1, <2>2, <2>3 DEF ParameterAt
  <2> QED  BY <2>4 DEF SixteenByteSlots, Multiples
<1> QED  BY <1>2, <1>3, <1>6, <1>7 DEF Aligned

LEMMA NextAligned ==
  ASSUME SixteenByteSlots, Sound, Aligned, [EmitterNext]_emission PROVE Aligned'
<1>1. CASE ExpressionStep
  BY <1>1, OperandsAligned, RoomAligned, ValuesAligned, Zenon DEF ExpressionStep
<1>2. CASE StatementStep
  BY <1>2, OperandsAligned, RoomAligned, StatementsAligned, ForStepAligned, EndsAligned, Zenon
     DEF StatementStep
<1>3. CASE UNCHANGED emission
  BY <1>3 DEF emission, Aligned, StackOnMultiples, OnMultiples
<1> QED  BY <1>1, <1>2, <1>3 DEF EmitterNext

(* Whatever the program, where all slots are multiples of 16 bytes the     *)
(* stack is always aligned to 16 bytes, and so is every offset.            *)
THEOREM EmissionAligned == ASSUME SixteenByteSlots PROVE EmitterSpec => []Aligned
<1>1. EmitterInit => Aligned
  BY InitAligned
<1>2. Sound /\ Aligned /\ [EmitterNext]_emission => Aligned'
  BY NextAligned
<1> QED  BY <1>1, <1>2, EmissionSound, PTL DEF EmitterSpec

-----------------------------------------------------------------------------
(* The loads and stores.                                                   *)

(* What the discipline says of the stack, the variables and the offsets.   *)
Laid == LaidOut /\ ClearsGap /\ Aligned /\ Typed

LEMMA LaidAlways == ASSUME AlignedFeatures PROVE Spec => []Laid
<1>1. SixteenByteSlots
  <2>1. \A t \in Types : Slot[t] = StackSize(t) /\ StackSize(t) \in Int /\ StackSize(t) % 16 = 0
    BY SlotIsStackSize, StackSizes
  <2> QED  BY <2>1, SlotIsStackSize DEF SixteenByteSlots, Multiples, ReturnAddressSize
<1>2. LaidOut /\ ClearsGap /\ Aligned /\ Typed => Laid
  BY DEF Laid
<1> QED
  BY <1>1, <1>2, EmitterImplements, EmissionLaidOut, EmissionClearsGap, EmissionAligned,
     EmissionTyped, PTL

(* A store keeps clear of the link register and of all variables but the   *)
(* one it assigns.                                                         *)
KeepsClear(a) ==
  /\ a.slot <= -16 \/ 0 <= a.slot - a.size
  /\ \A k \in 1 .. Len(locals') :
       \/ a.assigns = locals'[k].offset
       \/ a.slot <= locals'[k].offset - Size[locals'[k].type]
       \/ locals'[k].offset <= a.slot - a.size

(* The sizes of values, in the programs whose return values have the type  *)
(* of their functions.                                                     *)
IsSize(n) ==
  "mismatched_return" \notin Features => n = 8 \/ \E t \in ValueTypes : n = Size[t]

(* An access lies between the slot of the return value and the stack       *)
(* pointer, at a multiple of 16 bytes.                                     *)
Reaches(a) ==
  /\ a.slot \in Multiples /\ a.sp \in Multiples
  /\ ReturnOffset(signature) <= a.slot /\ a.slot <= a.sp
  /\ a.sp = stack.committed \/ a.sp = stack'.committed
  /\ a.skip = 0 \/ (a.skip = 8 /\ a.slot = a.sp)
  /\ IsSize(a.size)

Good(a) == (a.mode = "store" => KeepsClear(a)) /\ Reaches(a)
AllGood == \A a \in accesses' : Good(a)

(* Where the handlers access the stack.                                    *)
Reachable(slot, s) ==
  /\ slot \in Multiples /\ s.committed \in Multiples
  /\ ReturnOffset(signature) <= slot /\ slot <= s.committed
  /\ s = stack \/ s = stack'

LEMMA LoadGood ==
  ASSUME NEW slot, NEW size, NEW s, Reachable(slot, s), IsSize(size)
  PROVE  Good(Load(slot, size, s))
<1> HIDE DEF IsSize
<1> QED  BY DEF Good, Reaches, Reachable, Load, Access

(* A temporary lies beyond the innermost scope.                            *)
LEMMA StoreGood ==
  ASSUME Laid, Running, locals' = locals, NEW slot \in Int, NEW size \in Nat, NEW s,
         Reachable(slot, s), IsSize(size), Innermost(stack) <= slot - size
  PROVE  Good(Store(slot, size, s))
<1> DEFINE a == Store(slot, size, s)
<1>1. a.slot = slot /\ a.size = size /\ a.sp = s.committed /\ a.skip = 0
  BY DEF Store, Access
<1>2. Innermost(stack) \in Int /\ Innermost(stack) >= 0
  BY Offsets DEF Laid
<1>3. ASSUME NEW k \in 1 .. Len(locals) PROVE locals'[k].offset <= a.slot - a.size
  <2>1. locals[k].offset \in Int /\ locals[k].offset <= Innermost(stack)
    BY Offsets DEF Laid
  <2> QED  BY <1>1, <1>2, <2>1
<1> HIDE DEF a, IsSize
<1>4. 0 <= a.slot - a.size
  BY <1>1, <1>2
<1>5. KeepsClear(a)
  BY <1>3, <1>4 DEF KeepsClear
<1>6. Reaches(a)
  BY <1>1 DEF Reaches, Reachable
<1> QED  BY <1>5, <1>6 DEF Good, a

(* What an assignment writes lies clear of all other variables.            *)
LEMMA AssignGood ==
  ASSUME Laid, Running, locals' = locals, NEW s,
         NEW k \in 1 .. Len(locals), Reachable(locals[k].offset, s)
  PROVE  Good(Assign(locals[k], s))
<1> DEFINE variable == locals[k]
           a == Assign(variable, s)
<1>1. /\ a.slot = variable.offset /\ a.size = Size[variable.type]
      /\ a.sp = s.committed /\ a.assigns = variable.offset /\ a.skip = 0
  BY DEF Assign, Store, Access
<1>2. /\ variable.offset \in Int /\ variable.type \in ValueTypes
      /\ Size[variable.type] \in Nat /\ Size[variable.type] <= Slot[variable.type]
      /\ Slot[variable.type] \in Nat
      /\ \A j \in 1 .. Len(locals) :
           /\ locals[j].offset \in Int /\ Slot[locals[j].type] \in Nat
           /\ Size[locals[j].type] \in Nat /\ Size[locals[j].type] <= Slot[locals[j].type]
  BY Offsets, StackSizes, SlotIsStackSize DEF Laid, ValueTypes
<1>3. variable.offset <= -16 \/ 0 <= variable.offset - Slot[variable.type]
  BY SlotIsStackSize DEF Laid, ClearsGap, NamesClearGap, ReturnAddressSize
<1>4. ASSUME NEW j \in 1 .. Len(locals)
      PROVE  \/ variable.offset = locals[j].offset
             \/ variable.offset <= locals[j].offset - Slot[locals[j].type]
             \/ locals[j].offset <= variable.offset - Slot[variable.type]
  BY VariablesApart DEF Laid
<1> HIDE DEF a, variable
<1>5. a.slot <= -16 \/ 0 <= a.slot - a.size
  BY <1>1, <1>2, <1>3
<1>6. ASSUME NEW j \in 1 .. Len(locals)
      PROVE  \/ a.assigns = locals[j].offset
             \/ a.slot <= locals[j].offset - Size[locals[j].type]
             \/ locals[j].offset <= a.slot - a.size
  <2>1. /\ locals[j].offset \in Int /\ Slot[locals[j].type] \in Nat
        /\ Size[locals[j].type] \in Nat /\ Size[locals[j].type] <= Slot[locals[j].type]
    BY <1>2
  <2>2. CASE variable.offset = locals[j].offset
    BY <1>1, <2>2
  <2>3. \A x, y \in Int, m, n \in Nat : m <= n /\ x <= y - n => x <= y - m
    OBVIOUS
  <2>4. CASE variable.offset <= locals[j].offset - Slot[locals[j].type]
    <3>1. variable.offset <= locals[j].offset - Size[locals[j].type]
      BY <1>2, <2>1, <2>3, <2>4
    <3> QED  BY <1>1, <3>1
  <2>5. CASE locals[j].offset <= variable.offset - Slot[variable.type]
    <3>1. locals[j].offset <= variable.offset - Size[variable.type]
      BY <1>2, <2>1, <2>3, <2>5
    <3> QED  BY <1>1, <3>1
  <2> QED  BY <1>4, <2>2, <2>4, <2>5
<1>7. KeepsClear(a)
  BY <1>5, <1>6 DEF KeepsClear
<1>8. Reaches(a)
  BY <1>1, <1>2 DEF Reaches, Reachable, IsSize, variable
<1> QED  BY <1>7, <1>8 DEF Good, a, variable

(* What the handlers know of the offsets.                                  *)
LEMMA Reaching ==
  ASSUME Laid, Running
  PROVE  /\ stack \in ScopedStacks /\ stack.committed \in Multiples /\ stack.allocated \in Multiples
         /\ result \in Multiples /\ Top.slot \in Multiples /\ Top.at \in Multiples
         /\ ReturnOffset(signature) \in Multiples /\ ReturnOffset(signature) \in Int
         /\ ReturnOffset(signature) <= 0 /\ Innermost(stack) \in Int /\ Innermost(stack) >= 0
         /\ \A t \in Types : Slot[t] \in Multiples /\ Slot[t] = StackSize(t)
                             /\ Size[t] \in Nat /\ Size[t] <= Slot[t] /\ Slot[t] \in Nat
         /\ \A k \in 1 .. Len(locals) :
              /\ locals[k].offset \in Multiples /\ locals[k].offset \in Int
              /\ locals[k].type \in ValueTypes /\ locals[k].offset <= Innermost(stack)
              /\ ReturnOffset(signature) <= locals[k].offset
<1>1. \A t \in Types : Slot[t] = StackSize(t) /\ StackSize(t) % 16 = 0
                       /\ Size[t] \in Nat /\ Size[t] <= Slot[t] /\ Slot[t] \in Nat
  BY SlotIsStackSize, StackSizes
<1>2. \A t \in Types : Slot[t] \in Multiples
  BY <1>1 DEF Multiples
<1>3. SixteenByteSlots
  BY <1>2, SlotIsStackSize DEF SixteenByteSlots, Multiples, ReturnAddressSize
<1>4. LaidOut /\ Sound /\ Aligned
  BY DEF Laid, LaidOut, Accounting
<1>5. /\ stack \in ScopedStacks /\ StackOnMultiples(stack) /\ result \in Multiples
      /\ Top.slot \in Multiples /\ OnMultiples(Top)
      /\ \A k \in 1 .. Len(locals) : locals[k].offset \in Multiples
  BY <1>3, <1>4, FindsAligned
<1>6. ReturnOffset(signature) = ReturnAt(Slot, Gap, signature)
  BY SlotIsStackSize DEF ReturnOffset
<1>7. ReturnAt(Slot, Gap, signature) \in Multiples
  <2>1. signature.params \in Seq(ValueTypes) /\ Len(signature.params) \in Nat
    BY <1>4, Offsets
  <2>2. Len(signature.params) \in 0 .. Len(signature.params)
    BY <2>1
  <2>3. PICK n \in Multiples : n = BytesOfLast(Slot, Len(signature.params), signature.params)
    BY <1>3, <2>1, <2>2, BytesAligned
  <2>4. ReturnAt(Slot, Gap, signature) = -Gap - n
    BY <2>3 DEF ReturnAt
  <2> QED  BY <1>3, <2>4 DEF SixteenByteSlots, Multiples
<1>8. /\ ReturnOffset(signature) \in Int /\ ReturnOffset(signature) <= 0
      /\ Innermost(stack) \in Int /\ Innermost(stack) >= 0
      /\ \A k \in 1 .. Len(locals) :
           /\ locals[k].offset \in Int /\ locals[k].offset <= Innermost(stack)
           /\ locals[k].type \in ValueTypes /\ Slot[locals[k].type] \in Nat
           /\ ReturnOffset(signature) <= locals[k].offset - Slot[locals[k].type]
  BY <1>4, <1>6, Offsets DEF Placed
<1>9. \A k \in 1 .. Len(locals) : ReturnOffset(signature) <= locals[k].offset
  BY <1>8
<1> QED  BY <1>1, <1>2, <1>5, <1>6, <1>7, <1>8, <1>9 DEF StackOnMultiples, OnMultiples

LEMMA AllSizes ==
  /\ IsSize(8) /\ \A t \in ValueTypes : IsSize(Size[t]) /\ t \in Types
  /\ Bool \in ValueTypes /\ String \in ValueTypes
  /\ Scalars \subseteq ValueTypes /\ Members \subseteq ValueTypes /\ IntegerTypes \subseteq ValueTypes
BY TypesAssumption DEF IsSize, Scalars, ValueTypes

LEMMA PushGood ==
  ASSUME Laid, EmitLiteral \/ EmitIdentifier PROVE AllGood
<1> DEFINE n == Size[Top.type]
           c == With(stack, Top.type)
<1>1. Entering({"expression"}) /\ locals' = locals /\ stack' = c /\ Running
  BY DEF EmitLiteral, EmitIdentifier, LeaveValue, Leave, Entering
<1>2. Top.type \in Types /\ Slot[Top.type] = StackSize(Top.type) /\ c = Pushed(stack, Top.type)
  BY <1>1, HandlerStacks, SlotIsStackSize DEF Laid, LaidOut, Accounting, Pushed, With
<1>3. /\ Innermost(stack) <= Top.at /\ Innermost(stack) \in Int /\ Top.at \in Int
      /\ c.allocated = Top.at + Slot[Top.type] /\ c.committed = Top.at + Slot[Top.type]
  BY <1>1, <1>2, PushHeights DEF Laid
<1>4. \/ accesses' = {Store(c.allocated, n, c)} /\ Top.type \in Scalars \cup {String}
      \/ \E k \in 1 .. Len(locals) :
           /\ accesses' = {Load(locals[k].offset, n, c), Store(c.allocated, n, c)}
           /\ locals[k].type = Top.type
  BY DEF EmitLiteral, EmitIdentifier, Visible, LeaveValue, Leave
<1>5. /\ n \in Nat /\ n <= Slot[Top.type] /\ Slot[Top.type] \in Nat
      /\ Slot[Top.type] \in Multiples /\ Top.at \in Multiples
      /\ ReturnOffset(signature) \in Int /\ ReturnOffset(signature) <= 0
      /\ Innermost(stack) >= 0
      /\ \A k \in 1 .. Len(locals) :
           /\ locals[k].offset \in Multiples /\ locals[k].offset \in Int
           /\ locals[k].type \in ValueTypes /\ locals[k].offset <= Innermost(stack)
           /\ ReturnOffset(signature) <= locals[k].offset
  BY <1>1, <1>2, Reaching
<1>6. IsSize(n)
  BY <1>4, <1>5, AllSizes
<1>7. c.allocated \in Multiples /\ c.committed \in Multiples
  BY <1>3, <1>5, MultiplesClosed
<1> HIDE DEF c, n
<1>8. Good(Store(c.allocated, n, c))
  <2>1. /\ c.allocated \in Int /\ Innermost(stack) <= c.allocated - n
        /\ ReturnOffset(signature) <= c.allocated /\ c.allocated <= c.committed
    BY <1>3, <1>5
  <2>2. Reachable(c.allocated, c)
    BY <1>1, <1>7, <2>1 DEF Reachable
  <2> QED  BY <1>1, <1>5, <1>6, <2>1, <2>2, StoreGood
<1>9. ASSUME NEW k \in 1 .. Len(locals) PROVE Good(Load(locals[k].offset, n, c))
  <2>1. locals[k].offset <= c.committed
    BY <1>3, <1>5, SMTT(30)
  <2>2. Reachable(locals[k].offset, c)
    BY <1>1, <1>5, <1>7, <2>1 DEF Reachable
  <2> QED  BY <1>6, <2>2, LoadGood
<1> QED  BY <1>4, <1>8, <1>9 DEF AllGood

LEMMA EndBinaryGood ==
  ASSUME Laid, EndBinary PROVE AllGood
<1> DEFINE l == Size[Top.left]
           r == Size[Top.right]
           n == Size[Top.type]
           c == With(PopStack(PopStack(stack, StackSize(Top.right)), StackSize(Top.left)), Top.type)
<1>1. At("binary", "right") /\ locals' = locals /\ stack' = c /\ Running
      /\ accesses' = {Load(result, r, stack), Load(Top.slot, l, stack), Store(c.allocated, n, c)}
  BY DEF EndBinary, LeaveValue, Leave, At
<1>2. /\ Slot[Top.left] = StackSize(Top.left) /\ Slot[Top.right] = StackSize(Top.right)
      /\ Slot[Top.type] = StackSize(Top.type)
      /\ c = Pushed(PopStack(PopStack(stack, Slot[Top.right]), Slot[Top.left]), Top.type)
  BY <1>1, HandlerStacks, SlotIsStackSize DEF Laid, LaidOut, Accounting, Pushed, With
<1>3. /\ Innermost(stack) <= Top.at /\ Innermost(stack) \in Int /\ Top.at \in Int
      /\ Top.left \in Types /\ Top.right \in Types /\ Top.type \in Types
      /\ result = (Top.at + Slot[Top.left]) + Slot[Top.right]
      /\ Top.slot = Top.at + Slot[Top.left] /\ stack.committed = result
      /\ c.allocated = Top.at + Slot[Top.type] /\ c.committed = Top.at + Slot[Top.type]
  BY <1>1, <1>2, BinaryHeights DEF Laid
<1>4. /\ n \in Nat /\ n <= Slot[Top.type] /\ Slot[Top.type] \in Nat
      /\ Slot[Top.left] \in Nat /\ Slot[Top.right] \in Nat
      /\ Slot[Top.type] \in Multiples /\ Top.at \in Multiples
      /\ result \in Multiples /\ Top.slot \in Multiples /\ stack.committed \in Multiples
      /\ ReturnOffset(signature) \in Int /\ ReturnOffset(signature) <= 0
      /\ Innermost(stack) >= 0
  BY <1>1, <1>3, Reaching
<1>5. IsSize(l) /\ IsSize(r) /\ IsSize(n)
  <2>1. Len(frames) \in 1 .. Len(frames) /\ Top = frames[Len(frames)]
    BY <1>1, FrameTypes DEF Laid, LaidOut, Accounting, Sound, TypeOK
  <2>2. OperatesOnValues(Top) /\ Top.kind = "binary"
    BY <1>1, <2>1 DEF Laid, Typed, At
  <2> QED  BY <2>2, AllSizes DEF OperatesOnValues
<1>6. c.allocated \in Multiples /\ c.committed \in Multiples
  BY <1>3, <1>4, MultiplesClosed
<1> HIDE DEF c, n, l, r
<1>7. Good(Store(c.allocated, n, c))
  <2>1. /\ c.allocated \in Int /\ Innermost(stack) <= c.allocated - n
        /\ ReturnOffset(signature) <= c.allocated /\ c.allocated <= c.committed
    BY <1>3, <1>4
  <2>2. Reachable(c.allocated, c)
    BY <1>1, <1>6, <2>1 DEF Reachable
  <2> QED  BY <1>1, <1>4, <1>5, <2>1, <2>2, StoreGood
<1>8. Good(Load(result, r, stack)) /\ Good(Load(Top.slot, l, stack))
  <2>1. /\ ReturnOffset(signature) <= result /\ result <= stack.committed
        /\ ReturnOffset(signature) <= Top.slot /\ Top.slot <= stack.committed
    BY <1>3, <1>4
  <2>2. Reachable(result, stack) /\ Reachable(Top.slot, stack)
    BY <1>4, <2>1 DEF Reachable
  <2> QED  BY <1>5, <2>2, LoadGood
<1> QED  BY <1>1, <1>7, <1>8 DEF AllGood

(* A system call loads its arguments into registers.                       *)
LEMMA EndCallGood ==
  ASSUME Laid, EndCall PROVE AllGood
<1> DEFINE params == Top.callee.params
           L == Len(params)
           B(k) == BytesOfLast(Slot, k, params)
<1>1. /\ At("call", "arguments") /\ Len(Top.args) = L
      /\ Running /\ Top.kind = "call"
      /\ \/ accesses' = {}
         \/ accesses' = {Load(Top.args[i].offset, 8, stack) : i \in 1 .. Len(Top.args)}
  BY DEF EndCall, Leave, At
<1>2. params \in Seq(ValueTypes) /\ L \in Nat \ {0}
  BY <1>1, TopPasses DEF Laid
<1>3. /\ Top.slot = (stack.committed + Gap) + (-Gap - B(L))
      /\ \A i \in 1 .. L : Top.args[i].offset = (stack.committed + Gap) + (-Gap - B(L - i))
  <2>1. /\ Top.slot = (stack.committed + Gap) + ReturnAt(Slot, Gap, Top.callee)
        /\ \A i \in 1 .. L :
             Top.args[i].offset = (stack.committed + Gap) + ParameterAt(Slot, Gap, Top.callee, i)
    BY <1>1, LaidOutFramesAgree DEF Laid, CallsAgree
  <2>2. ReturnAt(Slot, Gap, Top.callee) = -Gap - B(L)
    BY DEF ReturnAt
  <2>3. \A i : ParameterAt(Slot, Gap, Top.callee, i) = -Gap - B(L - i)
    BY DEF ParameterAt
  <2> QED  BY <2>1, <2>2, <2>3, Zenon
<1>4. /\ stack.committed \in Multiples /\ stack.committed \in Int /\ Gap \in Int
      /\ ReturnOffset(signature) \in Int /\ ReturnOffset(signature) <= 0
      /\ Top.at \in Int /\ Top.at >= 0 /\ Slot[Top.type] \in Nat
      /\ \A i \in 1 .. L : Top.args[i].offset \in Multiples
  <2>1. Len(frames) \in 1 .. Len(frames) /\ Top = frames[Len(frames)]
    BY <1>1, FrameTypes DEF Laid, LaidOut, Accounting, Sound, TypeOK
  <2>2. OnMultiples(Top)
    BY <2>1 DEF Laid, Aligned
  <2>3. IsExpression(Top)
    BY <1>1, ExpressionNodes DEF Laid, LaidOut
  <2>4. Innermost(stack) <= Top.at /\ Innermost(stack) >= 0 /\ Innermost(stack) \in Int
    BY <1>1, <2>3, ValuesBeyondVariables DEF Laid
  <2>5. Top.at \in Int /\ Top.type \in Types
    BY <1>1, <2>3, ValuesBeyondVariables DEF Laid
  <2>6. \A i \in 1 .. L : Top.args[i].offset \in Multiples
    BY <1>1, <2>2 DEF OnMultiples
  <2>7. /\ stack.committed \in Multiples /\ ReturnOffset(signature) \in Int
        /\ ReturnOffset(signature) <= 0 /\ Slot[Top.type] \in Nat
    BY <1>1, <2>5, Reaching
  <2>8. Gap \in Int
    BY SlotAssumption
  <2>9. stack.committed \in Int
    BY <2>7 DEF Multiples
  <2> QED  BY <2>4, <2>5, <2>6, <2>7, <2>8, <2>9
<1>5. Top.slot = Top.at + Slot[Top.type]
  BY <1>1, ExpressionNodes, Accounts DEF Laid, LaidOut, ValueDiscipline
<1>6. ASSUME NEW i \in 1 .. L PROVE Reachable(Top.args[i].offset, stack)
  <2>1. L - i \in 0 .. L /\ L \in 0 .. L /\ L - i < L /\ L - (L - i) \in 1 .. L
    BY <1>2
  <2>2. B(L) \in Nat /\ B(L - i) \in Nat /\ params[L - (L - i)] \in Types
    BY <1>2, <2>1, BytesOfLastType, Sizes, SMTT(30)
  <2>3. B(L - i) + Slot[params[L - (L - i)]] <= B(L)
    BY <1>2, <2>1, BytesOfLastGrows
  <2>4. Slot[params[L - (L - i)]] \in Nat
    BY <2>2, Sizes
  <2>5. Top.args[i].offset = (stack.committed + Gap) + (-Gap - B(L - i))
    BY <1>3
  <2>6. Top.args[i].offset \in Multiples
    BY <1>4
  <2> HIDE DEF B, L, params
  <2>7. B(L - i) <= B(L)
    BY <2>2, <2>3, <2>4
  <2>8. ReturnOffset(signature) <= Top.args[i].offset /\ Top.args[i].offset <= stack.committed
    BY <1>3, <1>4, <1>5, <2>2, <2>5, <2>7
  <2> QED  BY <1>4, <2>6, <2>8 DEF Reachable
<1> HIDE DEF B, L, params
<1>7. \A i \in 1 .. L : Good(Load(Top.args[i].offset, 8, stack))
  BY <1>6, AllSizes, LoadGood
<1> QED  BY <1>1, <1>7 DEF AllGood

LEMMA EndAssignGood ==
  ASSUME Laid, EndAssign PROVE AllGood
<1> DEFINE n == Size[Top.type]
           m == Size[Top.left]
           variable == [offset |-> Top.slot, type |-> Top.type]
<1>1. At("assign", "value") /\ locals' = locals /\ stack' = stack /\ Running
  BY DEF EndAssign, At
<1>2. PICK k \in 1 .. Len(locals) : locals[k].type = Top.type /\ locals[k].offset = Top.slot
  BY <1>1, AssignHeights DEF Laid
<1>3. /\ Innermost(stack) <= Top.at /\ Innermost(stack) \in Int /\ Top.at \in Int
      /\ Top.left \in Types /\ Top.type \in Types
      /\ result = Top.at + Slot[Top.type] /\ stack.committed = result
  BY <1>1, AssignHeights DEF Laid
<1>4. /\ n \in Nat /\ n <= Slot[Top.type] /\ Slot[Top.type] \in Nat
      /\ result \in Multiples /\ result \in Int /\ stack.committed \in Multiples
      /\ ReturnOffset(signature) \in Int /\ ReturnOffset(signature) <= 0
      /\ Innermost(stack) >= 0
      /\ locals[k].offset \in Multiples /\ locals[k].offset \in Int
      /\ locals[k].type \in ValueTypes /\ locals[k].offset <= Innermost(stack)
      /\ ReturnOffset(signature) <= locals[k].offset
  BY <1>1, <1>3, Reaching, MultiplesClosed
<1>5. IsSize(n) /\ IsSize(m)
  <2>1. Len(frames) \in 1 .. Len(frames) /\ Top = frames[Len(frames)]
    BY <1>1, FrameTypes DEF Laid, LaidOut, Accounting, Sound, TypeOK
  <2>2. OperatesOnValues(Top) /\ Top.kind = "assign"
    BY <1>1, <2>1 DEF Laid, Typed, At
  <2> QED  BY <1>2, <1>4, <2>2, AllSizes DEF OperatesOnValues
<1>6. \/ accesses' = {Load(result, n, stack), Assign(variable, stack)}
      \/ accesses' = {Load(result, m, stack), Load(Top.slot, n, stack),
                      Assign(variable, stack), Store(result, n, stack)}
  BY DEF EndAssign
<1>7. /\ ReturnOffset(signature) <= result /\ result <= stack.committed
      /\ Top.slot <= stack.committed /\ Innermost(stack) <= result - n
  <2> HIDE DEF n
  <2> QED  BY <1>2, <1>3, <1>4, SMTT(30)
<1>8. Reachable(result, stack) /\ Reachable(Top.slot, stack) /\ Reachable(locals[k].offset, stack)
  BY <1>2, <1>4, <1>7 DEF Reachable
<1>9. Good(Assign(variable, stack))
  <2>1. Good(Assign(locals[k], stack))
    BY <1>1, <1>8, AssignGood
  <2>2. Assign(locals[k], stack) = Assign(variable, stack)
    BY <1>2 DEF Assign
  <2> QED  BY <2>1, <2>2
<1> HIDE DEF n, m, variable
<1>10. /\ Good(Load(result, n, stack)) /\ Good(Load(result, m, stack))
       /\ Good(Load(Top.slot, n, stack))
  BY <1>5, <1>8, LoadGood
<1>11. Good(Store(result, n, stack))
  BY <1>1, <1>4, <1>5, <1>7, <1>8, StoreGood
<1> QED  BY <1>6, <1>9, <1>10, <1>11 DEF AllGood

LEMMA EndMemberGood ==
  ASSUME Laid, EndMember PROVE AllGood
<1> DEFINE n == Size[Top.type]
<1>1. At("member", "string") /\ locals' = locals /\ Running
  BY DEF EndMember, At
<1>2. PICK skip \in {0, 8} :
        accesses' = {Access("load", result, skip, n, stack), Store(Top.slot, n, stack)}
  BY DEF EndMember, Leave
<1>3. /\ Innermost(stack) <= Top.at /\ Innermost(stack) \in Int /\ Top.at \in Int
      /\ Top.type \in Members /\ Top.type \in Types
      /\ Slot[String] \in Nat
      /\ Top.slot = Top.at + Slot[Top.type]
      /\ result = (Top.at + Slot[Top.type]) + Slot[String] /\ stack.committed = result
  BY <1>1, MemberHeights DEF Laid
<1>4. /\ n \in Nat /\ n <= Slot[Top.type] /\ Slot[Top.type] \in Nat
      /\ result \in Multiples /\ Top.slot \in Multiples /\ stack.committed \in Multiples
      /\ ReturnOffset(signature) \in Int /\ ReturnOffset(signature) <= 0
      /\ Innermost(stack) >= 0
  BY <1>1, <1>3, Reaching
<1>5. IsSize(n)
  BY <1>3, AllSizes
<1> HIDE DEF n
<1>6. /\ Top.slot \in Int /\ Innermost(stack) <= Top.slot - n
      /\ ReturnOffset(signature) <= Top.slot /\ Top.slot <= stack.committed
      /\ ReturnOffset(signature) <= result /\ result <= stack.committed
  BY <1>3, <1>4
<1>7. Reachable(Top.slot, stack) /\ Reachable(result, stack)
  BY <1>4, <1>6 DEF Reachable
<1>8. Good(Access("load", result, skip, n, stack))
  <2> HIDE DEF IsSize
  <2> QED  BY <1>3, <1>5, <1>7 DEF Good, Reaches, Reachable, Access
<1>9. Good(Store(Top.slot, n, stack))
  BY <1>1, <1>4, <1>5, <1>6, <1>7, StoreGood
<1> QED  BY <1>2, <1>8, <1>9 DEF AllGood

LEMMA EndCastGood ==
  ASSUME Laid, EndCast PROVE AllGood
<1> DEFINE l == Size[Top.left]
           n == Size[Top.type]
           c == With(PopStack(stack, StackSize(Top.left)), Top.type)
<1>1. /\ At("cast", "value") /\ locals' = locals /\ Running
      /\ \/ /\ accesses' = {Load(stack.allocated, l, stack), Store(c.allocated, n, c)}
            /\ stack' = c
         \/ accesses' = {}
  BY Zenon DEF EndCast, LeaveValue, Leave, At
<1>2. CASE accesses' = {}
  BY <1>2 DEF AllGood
<1>3. CASE accesses' # {}
  <2>1. /\ Slot[Top.left] = StackSize(Top.left) /\ Slot[Top.type] = StackSize(Top.type)
        /\ c = Pushed(PopStack(stack, Slot[Top.left]), Top.type)
    BY <1>1, HandlerStacks, SlotIsStackSize DEF Laid, LaidOut, Accounting, Pushed, With
  <2>2. /\ Innermost(stack) <= Top.at /\ Innermost(stack) \in Int /\ Top.at \in Int
        /\ Top.left \in Types /\ Top.type \in Types
        /\ stack.allocated = Top.at + Slot[Top.left] /\ stack.committed = stack.allocated
        /\ c.allocated = Top.at + Slot[Top.type] /\ c.committed = Top.at + Slot[Top.type]
    BY <1>1, <2>1, CastHeights DEF Laid
  <2>3. /\ n \in Nat /\ n <= Slot[Top.type] /\ Slot[Top.type] \in Nat /\ Slot[Top.left] \in Nat
        /\ Slot[Top.type] \in Multiples /\ Top.at \in Multiples
        /\ stack.allocated \in Multiples /\ stack.committed \in Multiples
        /\ ReturnOffset(signature) \in Int /\ ReturnOffset(signature) <= 0
        /\ Innermost(stack) >= 0
    BY <1>1, <2>2, Reaching
  <2>4. IsSize(l) /\ IsSize(n)
    <3>1. Len(frames) \in 1 .. Len(frames) /\ Top = frames[Len(frames)]
      BY <1>1, FrameTypes DEF Laid, LaidOut, Accounting, Sound, TypeOK
    <3>2. OperatesOnValues(Top) /\ Top.kind = "cast"
      BY <1>1, <3>1 DEF Laid, Typed, At
    <3> QED  BY <3>2, AllSizes DEF OperatesOnValues
  <2>5. c.allocated \in Multiples /\ c.committed \in Multiples
    BY <2>2, <2>3, MultiplesClosed
  <2>6. accesses' = {Load(stack.allocated, l, stack), Store(c.allocated, n, c)} /\ stack' = c
    BY <1>1, <1>3
  <2> HIDE DEF c, l, n
  <2>7. Good(Load(stack.allocated, l, stack))
    <3>1. ReturnOffset(signature) <= stack.allocated /\ stack.allocated <= stack.committed
      BY <2>2, <2>3
    <3>2. Reachable(stack.allocated, stack)
      BY <2>3, <3>1 DEF Reachable
    <3> QED  BY <2>4, <3>2, LoadGood
  <2>8. Good(Store(c.allocated, n, c))
    <3>1. /\ c.allocated \in Int /\ Innermost(stack) <= c.allocated - n
          /\ ReturnOffset(signature) <= c.allocated /\ c.allocated <= c.committed
      BY <2>2, <2>3
    <3>2. Reachable(c.allocated, c)
      BY <2>5, <2>6, <3>1 DEF Reachable
    <3> QED  BY <1>1, <2>3, <2>4, <3>1, <3>2, StoreGood
  <2> QED  BY <2>6, <2>7, <2>8 DEF AllGood
<1> QED  BY <1>2, <1>3

(* The slot of a declaration lies below all other variables.               *)
LEMMA EndDeclarationGood ==
  ASSUME Laid, EndDeclaration PROVE AllGood
<1> DEFINE n == Size[Top.type]
           variable == [type |-> Top.type, offset |-> Top.slot]
           a == Assign(variable, stack)
<1>1. At("declaration", "initializer") /\ Running
  BY DEF EndDeclaration, At
<1>2. /\ Top.type \in ValueTypes /\ Top.type \in Types
      /\ Slot[Top.type] \in Nat /\ Slot[Top.left] \in Nat
      /\ Top.at \in Int /\ Top.at >= 0 /\ Top.slot = Top.at + Slot[Top.type]
      /\ result = Top.slot + Slot[Top.left] /\ stack.committed = result
      /\ \A k \in 1 .. Len(locals) : locals[k].offset <= Top.at
  BY <1>1, DeclarationHeights, Sizes DEF Laid
<1>3. /\ n \in Nat /\ n <= Slot[Top.type] /\ result \in Multiples /\ Top.slot \in Multiples
      /\ stack.committed \in Multiples
      /\ ReturnOffset(signature) \in Int /\ ReturnOffset(signature) <= 0
      /\ \A k \in 1 .. Len(locals) : locals[k].offset \in Int
  BY <1>1, <1>2, Reaching
<1>4. accesses' = {Load(result, n, stack), a} /\ locals' = Append(locals, variable)
  BY DEF EndDeclaration, Leave
<1>5. /\ a.mode = "store" /\ a.slot = Top.slot /\ a.size = n /\ a.sp = stack.committed
      /\ a.assigns = Top.slot /\ a.skip = 0
  BY DEF Assign, Store, Access
<1>6. IsSize(n)
  BY <1>2, AllSizes
<1>7. /\ variable \in Locals /\ locals \in Seq(Locals) /\ Len(locals) \in Nat
      /\ variable.offset = Top.slot
  <2>1. Top.slot \in Int
    BY <1>3 DEF Multiples
  <2> QED  BY <1>1, <1>2, <2>1, Offsets DEF Laid, Locals
<1> HIDE DEF n, variable, a, IsSize
<1>8. /\ ReturnOffset(signature) <= result /\ result <= stack.committed
      /\ ReturnOffset(signature) <= Top.slot /\ Top.slot <= stack.committed
      /\ Top.at <= a.slot - a.size
  BY <1>2, <1>3, <1>5, SMTT(30)
<1>9. Good(Load(result, n, stack))
  <2>1. Reachable(result, stack)
    BY <1>3, <1>8 DEF Reachable
  <2> QED  BY <1>6, <2>1, LoadGood
<1>10. ASSUME NEW k \in 1 .. Len(locals')
       PROVE  a.assigns = locals'[k].offset \/ locals'[k].offset <= a.slot - a.size
  <2>1. /\ Len(locals') = Len(locals) + 1 /\ locals'[Len(locals) + 1] = variable
        /\ \A j \in 1 .. Len(locals) : locals'[j] = locals[j]
    <3> HIDE DEF Locals
    <3> QED  BY <1>4, <1>7, AppendProperties
  <2>2. CASE k = Len(locals) + 1
    BY <1>5, <1>7, <2>1, <2>2
  <2>3. CASE k \in 1 .. Len(locals)
    <3>1. locals'[k].offset <= Top.at /\ locals'[k].offset \in Int
      BY <1>2, <1>3, <2>1, <2>3
    <3>2. a.slot - a.size \in Int
      BY <1>2, <1>3, <1>5
    <3> QED  BY <1>2, <1>8, <3>1, <3>2
  <2> QED  BY <1>7, <2>1, <2>2, <2>3
<1>11. 0 <= a.slot - a.size
  BY <1>2, <1>3, <1>5
<1>12. KeepsClear(a)
  BY <1>10, <1>11 DEF KeepsClear
<1>13. Reaches(a)
  BY <1>3, <1>5, <1>6, <1>8 DEF Reaches
<1>14. Good(a)
  BY <1>12, <1>13 DEF Good
<1> QED  BY <1>4, <1>9, <1>14 DEF AllGood

(* The condition of an if and of a loop.                                   *)
LEMMA ConditionGood ==
  ASSUME Laid, IfThen \/ ForBody PROVE AllGood
<1> DEFINE n == Size[Bool]
<1>1. /\ Running /\ AwaitsExpression(Top)
      /\ accesses' = {Load(result, n, stack)}
  BY DEF IfThen, ForBody, At, AwaitsExpression
<1>2. IsSize(n)
  BY AllSizes
<1> HIDE DEF n, IsSize
<1>3. /\ result \in Multiples /\ stack.committed = result /\ result \in Int
      /\ ReturnOffset(signature) \in Int /\ ReturnOffset(signature) <= 0
      /\ stack \in ScopedStacks
  BY <1>1, ResultHeights, Reaching DEF Laid
<1>4. result >= 0
  BY <1>3 DEF Laid, ClearsGap
<1>5. ReturnOffset(signature) <= result /\ result <= stack.committed
  BY <1>3, <1>4
<1>6. Reachable(result, stack)
  BY <1>3, <1>5 DEF Reachable
<1>7. Good(Load(result, n, stack))
  BY <1>2, <1>6, LoadGood
<1> QED  BY <1>1, <1>7 DEF AllGood

(* The return value lies above all variables and the link register.        *)
LEMMA EndReturnGood ==
  ASSUME Laid, EndReturn PROVE AllGood
<1> DEFINE n == Size[signature.returns]
           a == Store(ReturnOffset(signature), n, stack)
<1>1. At("return", "value") /\ Running
  BY DEF EndReturn, At
<1>2. accesses' = {Load(result, n, stack), a} /\ locals' = locals
  BY DEF EndReturn, Leave
<1>3. ReturnOffset(signature) = ReturnAt(Slot, Gap, signature)
  BY SlotIsStackSize DEF ReturnOffset
<1>4. /\ Innermost(stack) \in Int /\ Innermost(stack) >= 0 /\ Slot[Top.left] \in Nat
      /\ result = Innermost(stack) + Slot[Top.left] /\ stack.committed = result
      /\ signature.returns \in Types /\ Top.left \in ReturnTypes
      /\ \A k \in 1 .. Len(locals) :
           ReturnOffset(signature) <= locals[k].offset - Slot[locals[k].type]
  BY <1>1, <1>3, ReturnHeights DEF Laid
<1>5. /\ n \in Nat /\ result \in Multiples /\ stack.committed \in Multiples
      /\ ReturnOffset(signature) \in Multiples
      /\ ReturnOffset(signature) \in Int /\ ReturnOffset(signature) <= 0
      /\ \A k \in 1 .. Len(locals) :
           /\ locals[k].offset \in Int /\ locals[k].type \in Types
           /\ Size[locals[k].type] \in Nat /\ Slot[locals[k].type] \in Nat
           /\ Size[locals[k].type] <= Slot[locals[k].type]
  BY <1>1, <1>4, Reaching, AllSizes
<1>6. ReturnOffset(signature) <= -16
  <2>1. signature.params \in Seq(ValueTypes) /\ Len(signature.params) \in Nat
    BY <1>1, Offsets DEF Laid
  <2>2. BytesOfLast(Slot, Len(signature.params), signature.params) \in Nat
    BY <2>1, BytesOfLastType
  <2> QED  BY <1>3, <2>2, SlotIsStackSize DEF ReturnAt, ReturnAddressSize
<1>7. IsSize(n)
  <2>1. "mismatched_return" \notin Features => signature.returns \in ValueTypes
    BY <1>4 DEF ReturnTypes, ValueTypes
  <2> QED  BY <2>1 DEF IsSize
<1>8. /\ a.slot = ReturnOffset(signature) /\ a.size = n /\ a.sp = stack.committed
      /\ a.skip = 0
  BY DEF Store, Access
<1> HIDE DEF n, a, IsSize
<1>9. /\ ReturnOffset(signature) <= result /\ result <= stack.committed
      /\ ReturnOffset(signature) <= stack.committed
  BY <1>4, <1>5
<1>10. Good(Load(result, n, stack))
  <2>1. Reachable(result, stack)
    BY <1>5, <1>9 DEF Reachable
  <2> QED  BY <1>7, <2>1, LoadGood
<1>11. ASSUME NEW k \in 1 .. Len(locals)
       PROVE  a.slot <= locals[k].offset - Size[locals[k].type]
  <2>1. /\ locals[k].offset \in Int /\ Size[locals[k].type] \in Nat
        /\ Slot[locals[k].type] \in Nat /\ Size[locals[k].type] <= Slot[locals[k].type]
    BY <1>5
  <2>2. ReturnOffset(signature) <= locals[k].offset - Slot[locals[k].type]
    BY <1>4
  <2>3. a.slot = ReturnOffset(signature) /\ ReturnOffset(signature) \in Int
    BY <1>5, <1>8
  <2> HIDE DEF ReturnOffset
  <2> QED  BY <2>1, <2>2, <2>3
<1>12. KeepsClear(a)
  BY <1>2, <1>6, <1>8, <1>11 DEF KeepsClear
<1>13. Reaches(a)
  BY <1>5, <1>7, <1>8, <1>9 DEF Reaches
<1>14. Good(a)
  BY <1>12, <1>13 DEF Good
<1> QED  BY <1>2, <1>10, <1>14 DEF AllGood

(* The other actions emit no access.                                       *)
LEMMA SilentGood ==
  ASSUME \/ BeginBinary \/ BinaryRight \/ BeginCall \/ BeginArgument \/ EndArgument
         \/ BeginAssign \/ BeginMember \/ BeginCast
         \/ DeclareOnly \/ BeginDeclaration \/ BeginDiscard \/ EndDiscard \/ BeginIf \/ EndIf
         \/ BeginFor \/ ForCondition \/ ForStep \/ EndFor \/ BeginReturn
         \/ BeginBlock \/ NextStatement \/ EndBlock \/ EndFunction
  PROVE  AllGood
<1>1. accesses' = {}
  BY Zenon
     DEF BeginBinary, BinaryRight, BeginCall, BeginArgument, EndArgument,
         BeginAssign, BeginMember, BeginCast,
         DeclareOnly, BeginDeclaration, BeginDiscard, EndDiscard, BeginIf, EndIf,
         BeginFor, ForCondition, ForStep, EndFor, BeginReturn,
         BeginBlock, NextStatement, EndBlock, EndFunction, Proceed, Leave, LeaveScope
<1> QED  BY <1>1 DEF AllGood

LEMMA NextGood ==
  ASSUME Laid, Next PROVE AllGood
<1>1. CASE EmitExpression
  BY <1>1, PushGood, EndBinaryGood, EndCallGood, EndAssignGood, EndMemberGood, EndCastGood,
     SilentGood, Zenon DEF EmitExpression
<1>2. CASE EmitStatement
  BY <1>2, EndDeclarationGood, ConditionGood, EndReturnGood, SilentGood, Zenon
     DEF EmitStatement
<1> QED  BY <1>1, <1>2 DEF Next

(* No store overlaps the saved link register or a variable that is visible *)
(* but the one it assigns, whatever the types and also when integers are   *)
(* widened.                                                                *)
THEOREM StoresNeverClash == ASSUME AlignedFeatures PROVE Spec => []StoresSpareVariables
<1>1. Init => StoresSpareVariables
  BY DEF Init, StoresSpareVariables
<1>2. Laid /\ StoresSpareVariables /\ [Next]_vars => StoresSpareVariables'
  <2> SUFFICES ASSUME Laid, StoresSpareVariables, [Next]_vars PROVE StoresSpareVariables'
    OBVIOUS
  <2>1. CASE Next
    <3>1. AllGood
      BY <2>1, NextGood
    <3>2. \A a \in accesses' : a.mode = "store" => KeepsClear(a)
      BY <3>1 DEF AllGood, Good
    <3> QED  BY <3>2 DEF KeepsClear, StoresSpareVariables, Visible
  <2>2. CASE UNCHANGED vars
    BY <2>2 DEF vars, StoresSpareVariables, Visible
  <2> QED  BY <2>1, <2>2
<1> QED  BY <1>1, <1>2, LaidAlways, PTL DEF Spec

(* What the processor accesses.                                            *)

(* The values have the sizes of the base types.                            *)
MachineSizes == \A t \in ValueTypes : Size[t] \in {1, 2, 4, 8, 16}

(* The pairs of LDP and STP reach 511 bytes: no frame, with the parameters *)
(* and the slot of the return value, is larger.                            *)
SmallFrame == stack.committed - ReturnOffset(signature) <= 511

Arrives(a) == Encodable(a) /\ Decoded(a.size, Distance(a)) = Distance(a) /\ a.sp % 16 = 0

LEMMA ShortDistances ==
  ASSUME NEW d \in Nat, d <= 511, d % 8 = 0
  PROVE  \A size \in {1, 2, 4, 8, 16} : Decoded(size, d) = d
<1>1. PICK q \in 0 .. 63 : d = 8 * q
  <2>1. d = 8 * (d \div 8) /\ d \div 8 \in 0 .. 63
    OBVIOUS
  <2> QED  BY <2>1
<1>2. DecodedPair(d) = d
  <2>1. d \div 8 = q /\ q % 128 = q
    BY <1>1
  <2> QED  BY <1>1, <2>1 DEF DecodedPair
<1>3. \A size \in {1, 2, 4, 8} : size * ((d \div size) % 4096) = d
  <2>1. d \div 1 = 8 * q /\ d \div 2 = 4 * q /\ d \div 4 = 2 * q /\ d \div 8 = q
    BY <1>1
  <2>2. (8 * q) % 4096 = 8 * q /\ (4 * q) % 4096 = 4 * q /\ (2 * q) % 4096 = 2 * q
        /\ q % 4096 = q
    OBVIOUS
  <2> QED  BY <1>1, <2>1, <2>2
<1> QED  BY <1>2, <1>3 DEF Decoded

LEMMA ReachedArrives ==
  ASSUME MachineSizes, "mismatched_return" \notin Features, SmallFrame, SmallFrame',
         signature' = signature, ReturnOffset(signature) \in Int,
         NEW a, Reaches(a)
  PROVE  Arrives(a)
<1>1. a.size \in {1, 2, 4, 8, 16}
  BY DEF Reaches, IsSize, MachineSizes
<1>2. /\ a.slot \in Int /\ a.slot % 16 = 0 /\ a.sp \in Int /\ a.sp % 16 = 0
      /\ ReturnOffset(signature) <= a.slot /\ a.slot <= a.sp
      /\ a.skip = 0 \/ (a.skip = 8 /\ a.slot = a.sp)
  BY DEF Reaches, Multiples
<1>3. a.sp - ReturnOffset(signature) <= 511
  BY DEF Reaches, SmallFrame
<1>4. Distance(a) \in Nat /\ Distance(a) <= 511 /\ Distance(a) % 8 = 0
  <2>1. Distance(a) = a.sp - a.slot + a.skip
    BY DEF Distance
  <2>2. CASE a.skip = 0
    <3>1. Distance(a) = a.sp - a.slot /\ a.sp - a.slot \in Nat /\ a.sp - a.slot <= 511
      BY <1>2, <1>3, <2>1, <2>2
    <3>2. PICK p \in Int, q \in Int : a.sp = 16 * p /\ a.slot = 16 * q
      <4>1. a.sp = 16 * (a.sp \div 16) /\ a.slot = 16 * (a.slot \div 16)
            /\ a.sp \div 16 \in Int /\ a.slot \div 16 \in Int
        BY <1>2
      <4> QED  BY <4>1
    <3>3. a.sp - a.slot = 8 * (2 * (p - q)) /\ 2 * (p - q) \in Int
      BY <3>2
    <3>4. (a.sp - a.slot) % 8 = 0
      BY <3>3
    <3> QED  BY <3>1, <3>4
  <2>3. CASE a.skip = 8 /\ a.slot = a.sp
    <3>1. Distance(a) = 8
      BY <1>2, <2>1, <2>3
    <3>2. 8 \in Nat /\ 8 <= 511 /\ 8 % 8 = 0
      OBVIOUS
    <3> QED  BY <3>1, <3>2
  <2>4. a.skip = 0 \/ (a.skip = 8 /\ a.slot = a.sp)
    BY <1>2
  <2> QED  BY <2>2, <2>3, <2>4
<1>5. Encodable(a)
  <2>1. 0 <= Distance(a) /\ Distance(a) <= 32767 /\ Distance(a) <= 1023
    BY <1>4
  <2> QED  BY <1>1, <1>4, <2>1 DEF Encodable
<1>6. Decoded(a.size, Distance(a)) = Distance(a)
  BY <1>1, <1>4, ShortDistances
<1> QED  BY <1>2, <1>5, <1>6 DEF Arrives

(* Every load and store arrives where it is meant to, and the stack        *)
(* pointer is a multiple of 16 bytes, in all functions whose frames stay   *)
(* within reach of the pairs and whose return values have their type.      *)
THEOREM AccessesAlwaysArrive ==
  ASSUME AlignedFeatures, "mismatched_return" \notin Features, MachineSizes
  PROVE  Spec /\ []SmallFrame => []AccessesArrive
<1>1. Init => AccessesArrive
  BY DEF Init, AccessesArrive
<1>2. Laid /\ SmallFrame /\ SmallFrame' /\ AccessesArrive /\ [Next]_vars => AccessesArrive'
  <2> SUFFICES ASSUME Laid, SmallFrame, SmallFrame', AccessesArrive, [Next]_vars
               PROVE  AccessesArrive'
    OBVIOUS
  <2>1. CASE Next
    <3>1. AllGood
      BY <2>1, NextGood
    <3>2. Running
      BY <2>1, Zenon
         DEF Next, EmitExpression, EmitStatement, EmitLiteral, EmitIdentifier, BeginBinary,
             BinaryRight, EndBinary, BeginCall, BeginArgument, EndArgument, EndCall, BeginAssign,
             EndAssign, BeginMember, EndMember, BeginCast, EndCast, DeclareOnly,
             BeginDeclaration, EndDeclaration, BeginDiscard, EndDiscard, BeginIf, IfThen, EndIf,
             BeginFor, ForCondition, ForBody, ForStep, EndFor, BeginReturn, EndReturn,
             BeginBlock, NextStatement, EndBlock, EndFunction, Entering, At
    <3>3. ReturnOffset(signature) \in Int
      BY <3>2, Reaching
    <3>4. signature' = signature
      BY <2>1, Zenon
         DEF Next, EmitExpression, EmitStatement, EmitLiteral, EmitIdentifier, BeginBinary,
             BinaryRight, EndBinary, BeginCall, BeginArgument, EndArgument, EndCall, BeginAssign,
             EndAssign, BeginMember, EndMember, BeginCast, EndCast, DeclareOnly,
             BeginDeclaration, EndDeclaration, BeginDiscard, EndDiscard, BeginIf, IfThen, EndIf,
             BeginFor, ForCondition, ForBody, ForStep, EndFor, BeginReturn, EndReturn,
             BeginBlock, NextStatement, EndBlock, EndFunction, Proceed, Leave, LeaveValue,
             LeaveScope
    <3>5. \A a \in accesses' : Arrives(a)
      BY <3>1, <3>3, <3>4, ReachedArrives DEF AllGood, Good
    <3> QED  BY <3>5 DEF Arrives, AccessesArrive
  <2>2. CASE UNCHANGED vars
    BY <2>2 DEF vars, AccessesArrive
  <2> QED  BY <2>1, <2>2
<1> QED  BY <1>1, <1>2, LaidAlways, PTL DEF Spec

-----------------------------------------------------------------------------
(* The assertions.                                                         *)

(* The adjustments of the stack pointer are immediates of 12 bits: no      *)
(* frame is larger.                                                        *)
FrameFits == stack.committed <= 4095

(* The instructions whose adjustments fit, and the stacks between which    *)
(* they do.                                                                *)
Encoded == {a \in Instructions : -4095 <= a.by /\ a.by <= 4095}
Shallow(s) ==
  /\ s \in ScopedStacks /\ s.committed \in Int
  /\ 0 <= s.committed /\ s.committed <= 4095

LEMMA AdjustmentEncoded ==
  ASSUME NEW s, NEW c, Shallow(s), Shallow(c)
  PROVE  Adjustment(s, c) \in Encoded
<1>1. Adjustment(s, c) \in Instructions
  BY AdjustmentFields DEF Shallow
<1>2. Adjustment(s, c).by = c.committed - s.committed
  BY DEF Adjustment, Instruction
<1>3. -4095 <= c.committed - s.committed /\ c.committed - s.committed <= 4095
  BY DEF Shallow
<1> DEFINE a == Adjustment(s, c)
<1>4. a \in Instructions /\ -4095 <= a.by /\ a.by <= 4095
  BY <1>1, <1>2, <1>3
<1> QED  BY <1>4 DEF Encoded

LEMMA OtherEncoded ==
  ASSUME NEW s \in ScopedStacks, NEW op \in {"je", "jmp", "call", "push_lr", "pop_lr", "ret"}
  PROVE  /\ Instruction(op, s, 0) \in Encoded
         /\ \A p \in Nat : [Instruction(op, s, 0) EXCEPT !.to = p] \in Encoded
<1>1. /\ Instruction(op, s, 0) \in Instructions
      /\ \A p \in Nat : [Instruction(op, s, 0) EXCEPT !.to = p] \in Instructions
  BY OtherFields
<1>2. /\ Instruction(op, s, 0).by = 0
      /\ \A p \in Nat : [Instruction(op, s, 0) EXCEPT !.to = p].by = 0
  BY DEF Instruction
<1>3. \A a \in Instructions : a.by = 0 => a \in Encoded
  BY DEF Encoded
<1> HIDE DEF Instructions, Encoded
<1> QED  BY <1>1, <1>2, <1>3

(* A patch changes no adjustment.                                          *)
LEMMA PatchEncoded ==
  ASSUME NEW t \in Seq(Encoded), NEW p \in Nat, NEW to \in Nat
  PROVE  [t EXCEPT ![p].to = to] \in Seq(Encoded)
<1>1. CASE p \in 1 .. Len(t)
  <2>1. [t[p] EXCEPT !.to = to] \in Encoded
    <3>1. PICK a \in Encoded : a = t[p]
      BY <1>1
    <3>2. a \in Instructions /\ -4095 <= a.by /\ a.by <= 4095
      BY DEF Encoded
    <3>3. [a EXCEPT !.to = to] \in Instructions /\ [a EXCEPT !.to = to].by = a.by
      BY <3>2 DEF Instructions
    <3> DEFINE b == [a EXCEPT !.to = to]
    <3>4. b \in Instructions /\ -4095 <= b.by /\ b.by <= 4095
      BY <3>2, <3>3
    <3>5. b = [t[p] EXCEPT !.to = to]
      BY <3>1
    <3> HIDE DEF b, Instructions
    <3>6. b \in Encoded
      BY <3>4 DEF Encoded
    <3> QED  BY <3>5, <3>6
  <2> HIDE DEF Encoded
  <2> QED  BY <1>1, <2>1, ExceptSeq
<1>2. CASE p \notin 1 .. Len(t)
  <2>1. [t EXCEPT ![p].to = to] = t
    BY <1>2
  <2> QED  BY <2>1
<1> QED  BY <1>1, <1>2

(* The stack before an action and the one after it.                        *)
LEMMA ShallowStacks == Laid /\ FrameFits => Shallow(stack)
<1> SUFFICES ASSUME Laid, FrameFits PROVE Shallow(stack)
  OBVIOUS
<1>1. stack \in ScopedStacks /\ stack.committed \in Int
  <2>1. stack \in ScopedStacks
    BY DEF Laid, LaidOut, Accounting, Sound, TypeOK, ScopedStacks
  <2> QED  BY <2>1, StackHeights
<1>2. 0 <= stack.committed /\ stack.committed <= 4095
  BY <1>1 DEF Laid, ClearsGap, FrameFits
<1> QED  BY <1>1, <1>2 DEF Shallow

LEMMA ShallowAfter == (Laid /\ FrameFits => Shallow(stack))'
BY ShallowStacks, PTL

LEMMA ValueDroppedShallow ==
  ASSUME Laid, FrameFits, Running, ~IsExpression(Top), AwaitsExpression(Top),
         Awaited(Top) = Top.left
  PROVE  Shallow(Popped(stack, Top.left))
<1> DEFINE c == Popped(stack, Top.left)
<1>1. /\ c \in ScopedStacks /\ c.committed = Innermost(stack) /\ c.allocated = Innermost(stack)
      /\ stack \in ScopedStacks /\ Innermost(stack) \in Int
  BY ValueDropped DEF Popped, Laid, LaidOut
<1>2. Innermost(stack) >= 0 /\ Slot[Top.left] \in Nat
  <2>1. Top.left \in Types
    BY HandlerStacks DEF Laid, LaidOut, Accounting
  <2> QED  BY <2>1, Reaching
<1>3. result = stack.allocated /\ stack.committed = result /\ result \in Int
  BY ResultHeights DEF Laid
<1>4. c.allocated = stack.allocated - Slot[Top.left]
  <2>1. PICK n \in Int : n = Slot[Top.left]
    BY <1>2
  <2>2. CommitStack(PopStack(stack, n)).allocated = stack.allocated - n
    BY <1>1, <2>1, CommittedPop
  <2> QED  BY <2>1, <2>2 DEF Popped
<1> HIDE DEF c
<1>5. c.committed <= stack.committed
  BY <1>1, <1>2, <1>3, <1>4
<1>6. stack.committed <= 4095
  BY DEF FrameFits
<1> QED  BY <1>1, <1>2, <1>3, <1>5, <1>6 DEF Shallow, c

-----------------------------------------------------------------------------
(* The actions keep the text encoded.                                      *)

LEMMA AdjustingEncoded ==
  ASSUME Laid, Shallow(stack), Shallow(stack'), text \in Seq(Encoded),
         \/ EmitLiteral \/ EmitIdentifier \/ EndBinary \/ BeginMember \/ EndMember
         \/ EndDeclaration \/ EndDiscard \/ EndBlock
  PROVE  text' \in Seq(Encoded)
<1>1. text' = text \o <<Adjustment(stack, stack')>> \/ text' = Append(text, Adjustment(stack, stack'))
  BY Zenon DEF EmitLiteral, EmitIdentifier, EndBinary, BeginMember, EndMember, EndDeclaration,
               EndDiscard, EndBlock, LeaveValue, LeaveScope, Leave
<1> DEFINE a == Adjustment(stack, stack')
<1>2. a \in Encoded
  BY AdjustmentEncoded
<1>3. text' = text \o <<a>> \/ text' = Append(text, a)
  BY <1>1
<1> HIDE DEF a, Encoded
<1> QED  BY <1>2, <1>3

LEMMA EndCastEncoded ==
  ASSUME Laid, Shallow(stack), Shallow(stack'), text \in Seq(Encoded), EndCast
  PROVE  text' \in Seq(Encoded)
<1>1. text' = text \o <<Adjustment(stack, stack')>> \/ text' = text \o <<>>
  BY DEF EndCast, LeaveValue, Leave
<1> DEFINE a == Adjustment(stack, stack')
<1>2. a \in Encoded
  BY AdjustmentEncoded
<1>3. text' = text \o <<a>> \/ text' = text \o <<>>
  BY <1>1
<1> HIDE DEF a, Encoded
<1> QED  BY <1>2, <1>3

LEMMA EndCallEncoded ==
  ASSUME Laid, Shallow(stack), Shallow(stack'), text \in Seq(Encoded), EndCall
  PROVE  text' \in Seq(Encoded)
<1> DEFINE a == Instruction("call", stack, 0)
           b == Adjustment(stack, stack')
<1>1. text' = text \o <<a, b>>
  BY DEF EndCall, Leave
<1>2. a \in Encoded /\ b \in Encoded
  BY AdjustmentEncoded, OtherEncoded DEF Shallow
<1> HIDE DEF a, b, Encoded
<1> QED  BY <1>1, <1>2

LEMMA ConditionEncoded ==
  ASSUME Laid, Shallow(stack), Shallow(stack'), text \in Seq(Encoded), IfThen \/ ForBody
  PROVE  text' \in Seq(Encoded)
<1> DEFINE c == Popped(stack, Bool)
           a == Adjustment(stack, c)
           b == Instruction("je", c, 0)
<1>1. Running
  BY DEF IfThen, ForBody, At
<1>2. c \in ScopedStacks /\ c = Without(stack, Bool)
  BY <1>1, HandlerStacks, SlotIsStackSize, Sizes DEF Popped, Without, Laid, LaidOut, Accounting
<1>3. text' = text \o <<a, b>> /\ (stack' = c \/ stack' = PushScope(c))
  BY <1>2 DEF IfThen, ForBody
<1>4. Shallow(c)
  <2>1. PushScope(c).committed = c.committed
    BY DEF PushScope, Popped, CommitStack, PopStack
  <2> QED  BY <1>2, <1>3, <2>1 DEF Shallow
<1>5. a \in Encoded /\ b \in Encoded
  BY <1>2, <1>4, AdjustmentEncoded, OtherEncoded
<1>6. text' = text \o <<a, b>>
  BY <1>3
<1> HIDE DEF a, b, Encoded
<1> QED  BY <1>5, <1>6

LEMMA EndIfEncoded ==
  ASSUME Laid, Shallow(stack), Shallow(stack'), text \in Seq(Encoded), EndIf
  PROVE  text' \in Seq(Encoded)
<1> DEFINE t == [text EXCEPT ![Top.patch].to = Label + 1]
           a == Adjustment(stack, stack')
<1>1. Running /\ text' = Append(t, a)
  BY DEF EndIf, At
<1>2. Top.patch \in Nat /\ Label + 1 \in Nat
  BY <1>1, HandlerStacks, ActivationFields DEF Label, Laid, LaidOut, Accounting
<1>3. t \in Seq(Encoded) /\ a \in Encoded
  BY <1>2, PatchEncoded, AdjustmentEncoded
<1> HIDE DEF t, a, Encoded
<1> QED  BY <1>1, <1>3

LEMMA EndForEncoded ==
  ASSUME Laid, FrameFits, Shallow(stack), Shallow(stack'), text \in Seq(Encoded), EndFor
  PROVE  text' \in Seq(Encoded)
<1> DEFINE stepped == Popped(stack, Top.left)
           t == [text EXCEPT ![Top.patch].to = Label + 2]
           a == Adjustment(stack, stepped)
           jump == [Instruction("jmp", stepped, 0) EXCEPT !.to = Top.start]
           b == Adjustment(stepped, stack')
<1>1. Running /\ Top.kind = "for" /\ Top.step = "step"
  BY DEF EndFor, At
<1>2. stepped = Without(stack, Top.left)
  BY <1>1, HandlerStacks, SlotIsStackSize DEF Popped, Without, Laid, LaidOut, Accounting
<1>3. text' = t \o <<a, jump, b>>
  BY <1>2 DEF EndFor
<1>4. Shallow(stepped)
  <2>1. ~IsExpression(Top) /\ AwaitsExpression(Top) /\ Awaited(Top) = Top.left
    BY <1>1, InLoop DEF AwaitsExpression, Awaited, Laid, LaidOut
  <2> QED  BY <1>1, <2>1, ValueDroppedShallow
<1>5. Top.patch \in Nat /\ Top.start \in Nat /\ Label + 2 \in Nat
  BY <1>1, HandlerStacks, ActivationFields DEF Label, Laid, LaidOut, Accounting
<1>6. t \in Seq(Encoded)
  BY <1>5, PatchEncoded
<1>7. a \in Encoded /\ b \in Encoded
  BY <1>4, AdjustmentEncoded
<1>8. jump \in Encoded
  BY <1>4, <1>5, OtherEncoded DEF Shallow
<1> HIDE DEF t, a, b, jump, Encoded
<1> QED  BY <1>3, <1>6, <1>7, <1>8

LEMMA RetEncoded ==
  ASSUME NEW s \in ScopedStacks, NEW u \in Seq(Encoded)
  PROVE  u \o Ret(s) \in Seq(Encoded)
<1> DEFINE p == Instruction("pop_lr", s, 0)
           r == Instruction("ret", s, 0)
<1>1. p \in Encoded /\ r \in Encoded /\ u \o Ret(s) = u \o <<p, r>>
  BY OtherEncoded DEF Ret
<1> HIDE DEF p, r, Encoded
<1> QED  BY <1>1

LEMMA EndReturnEncoded ==
  ASSUME Laid, FrameFits, Shallow(stack), text \in Seq(Encoded), EndReturn
  PROVE  text' \in Seq(Encoded)
<1> DEFINE c == Popped(stack, Top.left)
           a == Adjustment(stack, c)
           b == Adjustment(c, FreshStack)
           u == <<a, b>>
<1>1. At("return", "value") /\ Running
  BY DEF EndReturn, At
<1>2. c = Without(stack, Top.left) /\ FreshStack \in ScopedStacks /\ Top \in Activations
  BY <1>1, HandlerStacks, SlotIsStackSize DEF Popped, Without, Laid, LaidOut, Accounting
<1>3. text' = text \o (u \o Ret(FreshStack))
  BY <1>2 DEF EndReturn, Leave
<1>4. Shallow(c)
  <2>1. AwaitsExpression(Top) /\ Awaited(Top) = Top.left /\ ~IsExpression(Top)
    BY <1>1, Accounts DEF Laid, LaidOut, At, AwaitsExpression, Awaited, IsExpression, InControl, KindsOf
  <2> QED  BY <1>1, <2>1, ValueDroppedShallow
<1>5. Shallow(FreshStack)
  <2>1. FreshStack.committed = 0
    BY DEF FreshStack
  <2> QED  BY <1>2, <2>1 DEF Shallow
<1>6. a \in Encoded /\ b \in Encoded
  BY <1>4, <1>5, AdjustmentEncoded
<1>7. u \in Seq(Encoded)
  <2> HIDE DEF a, b, Encoded
  <2> QED  BY <1>6
<1> DEFINE code == u \o Ret(FreshStack)
<1>8. code \in Seq(Encoded)
  BY <1>2, <1>7, RetEncoded
<1>9. text' = text \o code
  BY <1>3
<1> HIDE DEF code, Encoded
<1> QED  BY <1>8, <1>9

LEMMA EndFunctionEncoded ==
  ASSUME Laid, Shallow(stack), Shallow(stack'), text \in Seq(Encoded), EndFunction
  PROVE  text' \in Seq(Encoded)
<1> DEFINE a == Adjustment(stack, stack')
           u == <<a>>
           code == u \o Ret(stack')
<1>1. text' = text \o code \/ text' = text \o <<>>
  BY DEF EndFunction, LeaveScope, Leave
<1>2. a \in Encoded
  BY AdjustmentEncoded
<1>3. u \in Seq(Encoded)
  <2> HIDE DEF a, Encoded
  <2> QED  BY <1>2
<1>4. code \in Seq(Encoded)
  BY <1>3, RetEncoded DEF Shallow
<1> HIDE DEF code, Encoded
<1>5. CASE text' = text \o code
  BY <1>4, <1>5
<1>6. CASE text' = text \o <<>>
  BY <1>6
<1> QED  BY <1>1, <1>5, <1>6

LEMMA SilentEncoded ==
  ASSUME text \in Seq(Encoded),
         \/ BeginBinary \/ BinaryRight \/ BeginCall \/ BeginArgument \/ EndArgument
         \/ BeginAssign \/ EndAssign \/ BeginCast
         \/ DeclareOnly \/ BeginDeclaration \/ BeginDiscard \/ BeginIf
         \/ BeginFor \/ ForCondition \/ ForStep \/ BeginReturn
         \/ BeginBlock \/ NextStatement
  PROVE  text' \in Seq(Encoded)
<1>1. ASSUME DeclareOnly PROVE text' = text \o <<>>
  BY <1>1 DEF DeclareOnly, Leave
<1>2. ASSUME ~DeclareOnly PROVE text' = text
  BY <1>2
     DEF BeginBinary, BinaryRight, BeginCall, BeginArgument, EndArgument,
         BeginAssign, EndAssign, BeginCast, BeginDeclaration, BeginDiscard, BeginIf,
         BeginFor, ForCondition, ForStep, BeginReturn, BeginBlock, NextStatement, Proceed
<1> HIDE DEF Encoded
<1>3. CASE DeclareOnly
  <2>1. text' = text \o <<>>
    BY <1>1, <1>3
  <2> QED  BY <2>1
<1>4. CASE ~DeclareOnly
  BY <1>2, <1>4
<1> QED  BY <1>3, <1>4

LEMMA NextEncoded ==
  ASSUME Laid, FrameFits, Laid', FrameFits', text \in Seq(Encoded), Next
  PROVE  text' \in Seq(Encoded)
<1>1. Shallow(stack)
  BY ShallowStacks
<1>2. Shallow(stack')
  BY ShallowAfter
<1>3. CASE EmitExpression
  BY <1>1, <1>2, <1>3, AdjustingEncoded, EndCastEncoded, EndCallEncoded, SilentEncoded, Zenon
     DEF EmitExpression
<1>4. CASE EmitStatement
  BY <1>1, <1>2, <1>4, AdjustingEncoded, ConditionEncoded, EndIfEncoded, EndForEncoded,
     EndReturnEncoded, EndFunctionEncoded, SilentEncoded, Zenon
     DEF EmitStatement
<1> QED  BY <1>3, <1>4 DEF Next

(* What a handler relies on first follows from the accounting.             *)
LEMMA AssertionsFollow ==
  ASSUME "assign_to_parameter" \notin Features, Laid, text \in Seq(Encoded)
  PROVE  AssertionsHold
<1>1. AdjustmentsFit
  <2>1. \A i \in 1 .. Len(text) : text[i] \in Encoded
    <3> HIDE DEF Encoded
    <3> QED  OBVIOUS
  <2>2. \A a \in Encoded : -4095 <= a.by /\ a.by <= 4095
    BY DEF Encoded
  <2> HIDE DEF Encoded
  <2> QED  BY <2>1, <2>2 DEF AdjustmentsFit
<1>2. CASE ~Running
  <2>1. \A kind, step : ~At(kind, step)
    BY <1>2 DEF At
  <2>2. \A routines : ~Entering(routines)
    BY <1>2 DEF Entering
  <2>3. \A k \in {<<"binary", "right">>, <<"call", "argument">>, <<"assign", "value">>,
                  <<"member", "string">>, <<"cast", "value">>, <<"declaration", "initializer">>,
                  <<"if", "condition">>, <<"for", "condition">>, <<"return", "value">>} :
          At(k[1], k[2]) => ResultOnTop
    BY <2>1
  <2>4. /\ At("binary", "right") => Top.slot = stack.allocated - StackSize(Top.right)
        /\ At("return", "value") => stack.allocated - StackSize(Top.left) = Innermost(stack)
        /\ At("if", "then") \/ At("block", "statements") \/ At("function", "statements")
             => CanPopScope(stack)
        /\ At("for", "step") => CanPopScope(PopStack(stack, StackSize(Top.left)))
        /\ Entering({"statement", "loop_declaration", "loop_body"}) => CanAllocateStack(stack)
    BY <2>1, <2>2
  <2>5. Entering({"expression"}) => \A local \in Targets(Top.type) : local.offset > 0
    BY <2>2
  <2> QED  BY <1>1, <2>3, <2>4, <2>5, Zenon DEF AssertionsHold
<1>3. CASE Running
  <2>1. Accounting /\ Running
    BY <1>3 DEF Laid, LaidOut
  <2>2. /\ Top.right \in Types /\ Top.left \in Types /\ Slot[Top.right] = StackSize(Top.right)
        /\ Slot[Top.left] = StackSize(Top.left)
    BY <2>1, HandlerStacks, SlotIsStackSize DEF Accounting
  <2>3. AwaitsExpression(Top) => ResultOnTop
    BY <2>1, AccountingAsserts
  <2>4. \A k \in {<<"binary", "right">>, <<"call", "argument">>, <<"assign", "value">>,
                  <<"member", "string">>, <<"cast", "value">>, <<"declaration", "initializer">>,
                  <<"if", "condition">>, <<"for", "condition">>, <<"return", "value">>} :
          At(k[1], k[2]) => ResultOnTop
    <3>1. Top.step \in {"right", "argument", "value", "string", "initializer", "condition"}
            => ResultOnTop
      BY <2>3 DEF AwaitsExpression
    <3> QED  BY <3>1 DEF At
  <2>5. /\ At("binary", "right") => Top.slot = stack.allocated - StackSize(Top.right)
        /\ At("return", "value") => stack.allocated - StackSize(Top.left) = Innermost(stack)
        /\ At("if", "then") \/ At("block", "statements") \/ At("function", "statements")
             => CanPopScope(stack)
        /\ At("for", "step") => CanPopScope(PopStack(stack, StackSize(Top.left)))
        /\ Entering({"statement", "loop_declaration", "loop_body"}) => CanAllocateStack(stack)
    BY <2>1, <2>2, AccountingAsserts
  <2>6. Entering({"expression"}) => \A local \in Targets(Top.type) : local.offset > 0
    BY DEF Targets
  <2> QED  BY <1>1, <2>4, <2>5, <2>6, Zenon DEF AssertionsHold
<1> QED  BY <1>2, <1>3

(* None of the assertions about the stack accounting and about the         *)
(* adjustments of the stack pointer fails, in all functions whose frames   *)
(* have at most 4095 bytes, in programs that do not assign to parameters   *)
(* nor use the constructs that AlignedFeatures excludes.                   *)
THEOREM AssertionsAlwaysHold ==
  ASSUME AlignedFeatures, "assign_to_parameter" \notin Features
  PROVE  Spec /\ []FrameFits => []AssertionsHold
<1> DEFINE I == text \in Seq(Encoded)
<1>1. Init => I
  <2> SUFFICES ASSUME Init PROVE I
    OBVIOUS
  <2>1. FreshStack \in ScopedStacks
    BY DEF FreshStack, ScopedStacks, Stacks
  <2> DEFINE a == Instruction("push_lr", FreshStack, 0)
  <2>2. a \in Encoded /\ text = <<a>>
    BY <2>1, OtherEncoded DEF Init
  <2> HIDE DEF a, Encoded
  <2> QED  BY <2>2
<1>2. Laid /\ FrameFits /\ Laid' /\ FrameFits' /\ I /\ [Next]_vars => I'
  <2> SUFFICES ASSUME Laid, FrameFits, Laid', FrameFits', I, [Next]_vars PROVE I'
    OBVIOUS
  <2>1. CASE Next
    BY <2>1, NextEncoded
  <2>2. CASE UNCHANGED vars
    BY <2>2 DEF vars
  <2> QED  BY <2>1, <2>2
<1>3. Laid /\ I => AssertionsHold
  BY AssertionsFollow
<1> HIDE DEF I
<1> QED  BY <1>1, <1>2, <1>3, LaidAlways, PTL DEF Spec
=============================================================================
