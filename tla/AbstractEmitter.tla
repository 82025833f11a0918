--------------------------- MODULE AbstractEmitter ---------------------------
(***************************************************************************)
(* What the emitters of both backends promise: how their activations call  *)
(* each other, what they push, pop, allocate and commit, which names they  *)
(* end and what the text may look like that they emit, but neither the     *)
(* instructions nor what these load and store.                             *)
(*                                                                         *)
(* X64Emit and Arm64Emit implement it, each with its own Slot and Gap; an  *)
(* action X of the emitters is the action XStep here.                      *)
(*                                                                         *)
(* The second half is the discipline that the actions keep: the inductive  *)
(* invariants behind the properties of the emitters.                       *)
(***************************************************************************)
EXTENDS Emitter

CONSTANTS
  Slot,   \* the bytes that a value of each type takes up on the stack
  Gap     \* the bytes that a call and the callee's prologue push

ASSUME SlotAssumption == Slot \in [Types -> Nat] /\ Gap \in Nat

(* The variables but for accesses.                                         *)
emission == <<signature, stack, frames, result, locals, text, nodes>>

-----------------------------------------------------------------------------
(* The text.                                                               *)

(* Instructions are emitted after text t, the first for the stack that is  *)
(* committed before.                                                       *)
EmitsAfter(t) ==
  /\ text' \in Seq(Instructions)
  /\ Len(t) < Len(text')
  /\ \A i \in 1 .. Len(t) : text'[i] = t[i]
  /\ text'[Len(t) + 1].depth = stack.committed

New == Len(text) + 1 .. Len(text')
LastEmitted == text'[Len(text')]

(* None of them jumps.                                                     *)
Emits == EmitsAfter(text) /\ \A i \in New : text'[i].to = 0

(* The last of them is a conditional jump, compiled for stack c.           *)
EmitsBranch(c) == Emits /\ LastEmitted.op = "je" /\ LastEmitted.depth = c.committed

-----------------------------------------------------------------------------
(* What the handlers do.                                                   *)

(* They call, or go on, with what s is on the stack.                       *)
Goes(to, s) == frames' = to /\ stack' = s /\ UNCHANGED <<signature, result, locals>>

(* They return with s on the stack, to callers that see the names there.   *)
Returns(s, names) == frames' = Returning /\ stack' = s /\ locals' = names /\ UNCHANGED <<signature, nodes>>

(* The same with a value on top of it.                                     *)
Yields(s) == Returns(s, locals) /\ result' = s.allocated

Pushed(s, t) == CommitStack(PushStack(s, Slot[t]))
Popped(s, t) == CommitStack(PopStack(s, Slot[t]))

-----------------------------------------------------------------------------
(* Expressions.                                                            *)

(* A literal, or a copy of a variable.                                     *)
PushStep ==
  /\ Entering({"expression"})
  /\ Yields(Pushed(stack, Top.type)) /\ Emits

BeginBinaryStep ==
  /\ Entering({"expression"}) /\ NewNode
  /\ \E l, r \in ValueTypes :
       /\ Operands(l, r, Top.type)
       /\ Goes(Calling([Top EXCEPT !.kind = "binary", !.step = "left",
                                   !.left = l, !.right = r],
                       Expression(l, stack)), stack)
  /\ UNCHANGED text

BinaryRightStep ==
  /\ At("binary", "left")
  /\ Goes(Calling([Top EXCEPT !.step = "right", !.slot = result],
                  Expression(Top.right, stack)), stack)
  /\ UNCHANGED <<text, nodes>>

EndBinaryStep ==
  /\ At("binary", "right")
  /\ Yields(Pushed(PopStack(PopStack(stack, Slot[Top.right]), Slot[Top.left]), Top.type))
  /\ Emits

BeginCallStep ==
  /\ Entering({"expression"}) /\ NewNode
  /\ \E callee \in Signatures :
       LET c == PushStack(stack, Slot[Top.type])
       IN  /\ callee.returns = Top.type /\ callee.params # <<>>
           /\ Goes(Becoming([Top EXCEPT !.kind = "call", !.step = "arguments",
                                        !.slot = c.allocated, !.callee = callee]), c)
  /\ UNCHANGED text

BeginArgumentStep ==
  /\ At("call", "arguments")
  /\ Len(Top.args) < Len(Top.callee.params)
  /\ \E t \in Accepted(Top.callee.params[Len(Top.args) + 1], "widening_argument") :
       Goes(Calling([Top EXCEPT !.step = "argument", !.left = t], Expression(t, stack)), stack)
  /\ UNCHANGED <<text, nodes>>

EndArgumentStep ==
  /\ At("call", "argument")
  /\ Goes(Becoming([Top EXCEPT
                      !.step = "arguments",
                      !.args = Append(@, [offset |-> result, size |-> Slot[Top.left]]),
                      !.argsize = @ + Slot[Top.left]]), stack)
  /\ UNCHANGED <<text, nodes>>

EndCallStep ==
  /\ At("call", "arguments")
  /\ Len(Top.args) = Len(Top.callee.params)
  /\ Returns(CommitStack(PopStack(stack, Top.argsize)), locals)
  /\ result' = Top.slot
  /\ Emits

BeginAssignStep ==
  /\ Entering({"expression"}) /\ NewNode
  /\ \E local \in Targets(Top.type), t \in Accepted(Top.type, "widening_assignment") :
       /\ local.offset > 0
       /\ Goes(Calling([Top EXCEPT !.kind = "assign", !.step = "value",
                                   !.slot = local.offset, !.left = t],
                       Expression(t, stack)), stack)
  /\ UNCHANGED text

EndAssignStep ==
  /\ At("assign", "value")
  /\ Returns(stack, locals)
  /\ UNCHANGED <<result, text>>

BeginMemberStep ==
  /\ Entering({"expression"}) /\ NewNode
  /\ Top.type \in Members
  /\ LET c == Pushed(stack, Top.type)
     IN  Goes(Calling([Top EXCEPT !.kind = "member", !.step = "string", !.slot = c.allocated],
                      Expression(String, c)), c)
  /\ Emits

EndMemberStep ==
  /\ At("member", "string")
  /\ Returns(Popped(stack, String), locals)
  /\ result' = Top.slot
  /\ Emits

BeginCastStep ==
  /\ Entering({"expression"}) /\ NewNode
  /\ Top.type \in IntegerTypes
  /\ \E from \in IntegerTypes :
       /\ Slot[from] >= Slot[Top.type]
       /\ Goes(Calling([Top EXCEPT !.kind = "cast", !.step = "value", !.left = from],
                       Expression(from, stack)), stack)
  /\ UNCHANGED text

EndCastStep ==
  /\ At("cast", "value")
  /\ \/ Yields(Pushed(PopStack(stack, Slot[Top.left]), Top.type)) /\ Emits
     \/ Slot[Top.left] <= Slot[Top.type] /\ Yields(stack) /\ UNCHANGED text

-----------------------------------------------------------------------------
(* Statements.                                                             *)

DeclareOnlyStep ==
  /\ Entering({"statement", "loop_declaration", "loop_body"})
  /\ Declaring(Top.routine)
  /\ Top.routine = "loop_declaration" => "loop_without_initializer" \in Features
  /\ CanAllocateStack(stack)
  /\ \E t \in ValueTypes :
       LET c == AllocateStack(stack, Slot[t]) IN Returns(c, Declared(t, c))
  /\ UNCHANGED <<result, text>>

BeginDeclarationStep ==
  /\ Entering({"statement", "loop_declaration", "loop_body"})
  /\ Declaring(Top.routine)
  /\ CanAllocateStack(stack)
  /\ \E t \in ValueTypes : \E initializer \in Initializers(t) :
       LET c == AllocateStack(stack, Slot[t])
       IN  Goes(Calling([Top EXCEPT !.kind = "declaration", !.step = "initializer",
                                    !.type = t, !.left = initializer, !.slot = c.allocated],
                        Expression(initializer, c)), c)
  /\ UNCHANGED <<text, nodes>>

EndDeclarationStep ==
  /\ At("declaration", "initializer")
  /\ Returns(Popped(stack, Top.left),
             Append(locals, [type |-> Top.type, offset |-> Top.slot]))
  /\ UNCHANGED result
  /\ Emits

BeginDiscardStep ==
  /\ Entering({"statement", "loop_body"})
  /\ \E t \in Types :
       Goes(Calling([Top EXCEPT !.kind = "discard", !.step = "value", !.left = t],
                    Expression(t, stack)), stack)
  /\ UNCHANGED <<text, nodes>>

EndDiscardStep ==
  /\ At("discard", "value")
  /\ Returns(Popped(stack, Top.left), locals)
  /\ UNCHANGED result
  /\ Emits

BeginIfStep ==
  /\ Entering({"statement", "loop_body"}) /\ NewNode
  /\ Goes(Calling([Top EXCEPT !.kind = "if", !.step = "condition"],
                  Expression(Bool, stack)), stack)
  /\ UNCHANGED text

IfThenStep ==
  /\ At("if", "condition")
  /\ LET c == Popped(stack, Bool)
     IN  /\ CanPushScope(c)
         /\ Goes(Calling([Top EXCEPT !.step = "then", !.patch = Len(text')],
                         Statement(PushScope(c), Len(locals))), PushScope(c))
         /\ EmitsBranch(c)
  /\ UNCHANGED nodes

(* The names that are visible where a scope is left.                       *)
Outer == SubSeq(locals, 1, Top.visible)

EndIfStep ==
  /\ At("if", "then")
  /\ CanPopScope(stack)
  /\ Returns(CommitStack(PopScope(stack)), Outer)
  /\ UNCHANGED result
  /\ EmitsAfter([text EXCEPT ![Top.patch].to = Len(text') + 1])
  /\ \A i \in New : text'[i].to = 0

BeginForStep ==
  /\ Entering({"statement", "loop_body"}) /\ NewNode
  /\ CanPushScope(stack)
  /\ Goes(Calling([Top EXCEPT !.kind = "for", !.step = "declaration"],
                  LoopDeclaration(PushScope(stack))), PushScope(stack))
  /\ UNCHANGED text

ForConditionStep ==
  /\ At("for", "declaration")
  /\ Goes(Calling([Top EXCEPT !.step = "condition", !.start = Label],
                  Expression(Bool, stack)), stack)
  /\ UNCHANGED <<text, nodes>>

ForBodyStep ==
  /\ At("for", "condition")
  /\ LET c == Popped(stack, Bool)
     IN  /\ Goes(Calling([Top EXCEPT !.step = "body", !.patch = Len(text')],
                         LoopBody(c, Len(locals))), c)
         /\ EmitsBranch(c)
  /\ UNCHANGED nodes

ForStepStep ==
  /\ At("for", "body")
  /\ locals' = SubSeq(locals, 1, Top.visible + 1)
  /\ \E t \in Types :
       frames' = Calling([Top EXCEPT !.step = "step", !.left = t],
                         Activation("expression", t, stack, Top.visible + 1))
  /\ UNCHANGED <<signature, stack, result, text, nodes>>

(* The jump back is compiled for the stack without the step's value, and   *)
(* so is the last instruction, where the loop is left.                     *)
EndForStep ==
  /\ At("for", "step")
  /\ LET stepped == Popped(stack, Top.left)
     IN  /\ CanPopScope(stepped)
         /\ Returns(CommitStack(PopScope(stepped)), Outer)
         /\ EmitsAfter([text EXCEPT ![Top.patch].to = Len(text')])
         /\ LastEmitted.to = 0 /\ LastEmitted.depth = stepped.committed
         /\ \A i \in New : text'[i].to # 0 => /\ text'[i].to = Top.start
                                              /\ text'[i].depth = stepped.committed
  /\ UNCHANGED result

BeginReturnStep ==
  /\ Entering({"statement", "loop_body"})
  /\ \E t \in ReturnTypes :
       Goes(Calling([Top EXCEPT !.kind = "return", !.step = "value", !.left = t],
                    Expression(t, stack)), stack)
  /\ UNCHANGED <<text, nodes>>

EndReturnStep ==
  /\ At("return", "value")
  /\ Returns(Popped(stack, Top.left), locals)
  /\ UNCHANGED result
  /\ Emits

BeginBlockStep ==
  /\ Entering({"statement", "loop_body"})
  /\ CanPushScope(stack)
  /\ Goes(Becoming([Top EXCEPT !.kind = "block", !.step = "statements"]), PushScope(stack))
  /\ UNCHANGED <<text, nodes>>

NextStatementStep ==
  /\ At("block", "statements") \/ At("function", "statements")
  /\ NewNode
  /\ Goes(Calling(Top, Statement(stack, Len(locals))), stack)
  /\ UNCHANGED text

EndBlockStep ==
  /\ At("block", "statements")
  /\ CanPopScope(stack)
  /\ Returns(CommitStack(PopScope(stack)), Outer)
  /\ UNCHANGED result
  /\ Emits

(* The names that are left do not matter any more.                         *)
EndFunctionStep ==
  /\ At("function", "statements")
  /\ CanPopScope(stack)
  /\ \E n \in 0 .. Top.visible :
       \/ Returns(CommitStack(PopScope(stack)), SubSeq(locals, 1, n)) /\ Emits
       \/ Returns(PopScope(stack), SubSeq(locals, 1, n)) /\ UNCHANGED text
  /\ UNCHANGED result

-----------------------------------------------------------------------------
EmitterInit ==
  /\ signature \in Signatures
  /\ stack = PushScope(FreshStack)
  /\ locals = [i \in 1 .. Len(signature.params) |->
                 [type |-> signature.params[i],
                  offset |-> ParameterAt(Slot, Gap, signature, i)]]
  /\ frames = <<[Activation("function", Void, FreshStack, Len(locals))
                   EXCEPT !.kind = "function", !.step = "statements"]>>
  /\ result = 0
  /\ text \in Seq(Instructions) /\ \A i \in 1 .. Len(text) : text[i].to = 0
  /\ nodes = 0

ExpressionStep ==
  \/ PushStep
  \/ BeginBinaryStep \/ BinaryRightStep \/ EndBinaryStep
  \/ BeginCallStep \/ BeginArgumentStep \/ EndArgumentStep \/ EndCallStep
  \/ BeginAssignStep \/ EndAssignStep
  \/ BeginMemberStep \/ EndMemberStep
  \/ BeginCastStep \/ EndCastStep

StatementStep ==
  \/ DeclareOnlyStep \/ BeginDeclarationStep \/ EndDeclarationStep
  \/ BeginDiscardStep \/ EndDiscardStep
  \/ BeginIfStep \/ IfThenStep \/ EndIfStep
  \/ BeginForStep \/ ForConditionStep \/ ForBodyStep \/ ForStepStep \/ EndForStep
  \/ BeginReturnStep \/ EndReturnStep
  \/ BeginBlockStep \/ NextStatementStep \/ EndBlockStep
  \/ EndFunctionStep

EmitterNext == ExpressionStep \/ StatementStep

(* Whatever a handler of an emitter does is promised here: it calls the    *)
(* handlers its node asks for, pushes, pops and commits what these count   *)
(* on, ends no name that is still needed and patches its own jumps only.   *)
EmitterSpec == EmitterInit /\ [][EmitterNext]_emission

-----------------------------------------------------------------------------
(* The discipline.                                                         *)

(* No implicit widening moves a value to a slot of another size.           *)
OneSlot == \A s, t \in IntegerTypes : Slot[s] = Slot[t]

(* The constructs that break the accounting are out of use: declarations   *)
(* that the loops do not expect and, where slots differ, assignments of    *)
(* values that are widened.                                                *)
StraightFeatures ==
  /\ {"loop_without_initializer", "declaration_as_loop_body"} \cap Features = {}
  /\ "widening_assignment" \in Features => OneSlot

(* So are those that break the frames of calls.                            *)
AlignedFeatures == StraightFeatures /\ ("widening_argument" \in Features => OneSlot)

(* Whether an activation has a scope of its own open, and how many scopes  *)
(* its callee finds.                                                       *)
Scoped(f) == f.step \in {"then", "statements"} \/ f.kind = "for"
Inner(f) == f.scope + IF Scoped(f) THEN 1 ELSE 0

IsExpression(f) == f.routine = "expression"

(* What an expression's activation has on the stack while it waits.        *)
Held(f) ==
  CASE f.kind = "binary" /\ f.step = "right" -> Slot[f.left]
    [] f.kind = "call"   -> Slot[f.type] + f.argsize
    [] f.kind = "member" -> Slot[f.type]
    [] OTHER -> 0

(* The step that waits for an expression, and the type asked for.          *)
AwaitsExpression(f) ==
  f.step \in {"left", "right", "argument", "value", "string", "initializer", "condition", "step"}
Awaited(f) ==
  CASE f.step = "right" -> f.right
    [] f.step = "string" -> String
    [] f.step = "condition" -> Bool
    [] OTHER -> f.left

CalleeAt(f) == IF IsExpression(f) THEN f.at + Held(f) ELSE stack.scopes[Inner(f)]

WaitingForPatch(f) == f.step = "then" \/ (f.kind = "for" /\ f.step \in {"body", "step"})

(* The nodes each emitter handles and the steps of their handlers.         *)
KindsOf(routine) ==
  CASE routine = "function" -> {"function"}
    [] routine = "expression" -> {"?", "binary", "call", "assign", "member", "cast"}
    [] routine = "loop_declaration" -> {"?", "declaration"}
    [] OTHER -> {"?", "declaration", "discard", "if", "for", "return", "block"}

StepsOf(kind) ==
  CASE kind = "?" -> {"enter"}
    [] kind \in {"function", "block"} -> {"statements"}
    [] kind = "binary" -> {"left", "right"}
    [] kind = "call" -> {"arguments", "argument"}
    [] kind = "member" -> {"string"}
    [] kind = "declaration" -> {"initializer"}
    [] kind = "if" -> {"condition", "then"}
    [] kind = "for" -> {"declaration", "condition", "body", "step"}
    [] OTHER -> {"value"}

InControl(f) == f.kind \in KindsOf(f.routine) /\ f.step \in StepsOf(f.kind)

(* The emitter an activation calls at the step it is in.                   *)
Called(f) ==
  CASE AwaitsExpression(f) -> "expression"
    [] f.kind = "for" /\ f.step = "declaration" -> "loop_declaration"
    [] f.kind = "for" /\ f.step = "body" -> "loop_body"
    [] OTHER -> "statement"

(* The activations are a chain of calls that the emitters make.            *)
ControlDiscipline ==
  /\ \A i \in 1 .. Len(frames) :
       /\ InControl(frames[i])
       /\ frames[i].kind = "function" <=> i = 1
  /\ \A i \in 1 .. Len(frames) - 1 :
       /\ frames[i].step \notin {"enter", "arguments"}
       /\ frames[i + 1].routine = Called(frames[i])

(* What holds of every activation: the scopes below it are those it found, *)
(* its labels are compiled for the depth of its scope.                     *)
FrameDiscipline(f) ==
  /\ f.scope \in 1 .. Len(stack.scopes) /\ Inner(f) <= Len(stack.scopes)
  /\ CASE IsExpression(f) -> stack.scopes[f.scope] <= f.at
       [] f.kind = "declaration" -> stack.scopes[f.scope] = f.slot /\ f.slot = f.at + Slot[f.type]
       [] OTHER -> stack.scopes[f.scope] = f.at
  /\ f.kind = "for" /\ f.step # "declaration" => CompiledFor(f.start, stack.scopes[f.scope + 1])
  /\ WaitingForPatch(f) =>
       /\ f.patch \in 1 .. Len(text) /\ text[f.patch].op = "je"
       /\ text[f.patch].depth = IF f.kind = "for" THEN stack.scopes[f.scope + 1] ELSE f.at

(* What an activation remembers of its values: the slot it reserved, that  *)
(* no arguments are on the stack but those of a call, that an assigned     *)
(* value has the slot of the type it is copied as and no cast widens.      *)
ValueDiscipline(f) ==
  /\ f.kind # "call" => f.args = <<>> /\ f.argsize = 0
  /\ f.kind \in {"call", "member"} => f.slot = f.at + Slot[f.type]
  /\ f.kind = "binary" /\ f.step = "right" => f.slot = f.at + Slot[f.left]
  /\ f.kind = "assign" => Slot[f.left] = Slot[f.type]
  /\ f.kind = "cast" => Slot[f.left] >= Slot[f.type]

(* What holds between a waiting activation and the one it called.          *)
CallDiscipline(f, g) ==
  /\ g.scope = Inner(f)
  /\ IsExpression(g) => g.at = CalleeAt(f) /\ g.type = Awaited(f)

(* What holds of the innermost activation and of the stack as it is.       *)
TopDiscipline(f) ==
  /\ Len(stack.scopes) = Inner(f)
  /\ CASE f.step = "enter" -> stack.allocated = f.at
       [] f.step = "arguments" ->
            /\ stack.allocated = f.at + Held(f)
            /\ f.args # <<>> => stack.committed = stack.allocated
       [] AwaitsExpression(f) ->
            /\ stack.allocated = CalleeAt(f) + Slot[Awaited(f)]
            /\ ResultOnTop /\ stack.committed = stack.allocated
       [] OTHER ->
            /\ stack.allocated = Innermost(stack)
            /\ f.step = "declaration" => stack.committed = stack.allocated

StackDiscipline ==
  /\ \A i \in 1 .. Len(frames) : FrameDiscipline(frames[i]) /\ ValueDiscipline(frames[i])
  /\ \A i \in 1 .. Len(frames) - 1 : CallDiscipline(frames[i], frames[i + 1])
  /\ \A i, j \in 1 .. Len(frames) :
       i < j => /\ Inner(frames[i]) <= frames[j].scope
                /\ IsExpression(frames[j]) \/ Scoped(frames[i])
  /\ Running => TopDiscipline(Top)

(* The declarations an activation counts on: those it found, and in a for  *)
(* statement that of the loop.                                             *)
Names(f) == f.visible + IF f.kind = "for" /\ f.step # "declaration" THEN 1 ELSE 0

(* A name stays visible as long as an activation counts on it: the callees *)
(* of an activation never end its declarations.                            *)
NameDiscipline ==
  /\ \A i \in 1 .. Len(frames) : Names(frames[i]) <= Len(locals)
  /\ \A i, j \in 1 .. Len(frames) : i < j => Names(frames[i]) <= frames[j].visible
  /\ At("for", "declaration") => Top.visible < Len(locals)

Discipline == ControlDiscipline /\ NameDiscipline /\ StackDiscipline

(* The function's own activation stays the first, with a scope that starts *)
(* at depth 0.                                                             *)
Grounded == Running => frames[1].scope = 1 /\ stack.scopes[1] = 0

-----------------------------------------------------------------------------
(* Where the values lie.                                                   *)

(* The visible variables lie one below the other, below the return value   *)
(* and above the end of the innermost scope.                               *)
Placed ==
  /\ \A k \in 1 .. Len(stack.scopes) : stack.scopes[k] >= 0
  /\ \A k \in 1 .. Len(locals) :
       /\ locals[k].type \in ValueTypes /\ locals[k].offset <= Innermost(stack)
       /\ ReturnAt(Slot, Gap, signature) <= locals[k].offset - Slot[locals[k].type]
  /\ \A j, k \in 1 .. Len(locals) :
       j < k => locals[j].offset <= locals[k].offset - Slot[locals[k].type]

(* The variables an activation found lie in the scopes it found.           *)
Sees(f) == \A k \in 1 .. f.visible : locals[k].offset <= stack.scopes[f.scope]

(* An assignment knows its variable, a member is one of a string's, a      *)
(* declaration has its slot below all other variables, the types of        *)
(* initializers and return values are those that are accepted.             *)
Remembers(f) ==
  /\ f.kind = "assign" =>
       \E k \in 1 .. Len(locals) : locals[k].type = f.type /\ locals[k].offset = f.slot
  /\ f.kind = "member" => f.type \in Members
  /\ f.kind = "declaration" =>
       /\ f.left \in Initializers(f.type) /\ f.type \in ValueTypes /\ 0 <= f.at
       /\ \A k \in 1 .. Len(locals) : locals[k].offset <= f.at
  /\ f.kind = "return" => f.left \in ReturnTypes

(* The bytes of the first n parameters.                                    *)
BytesOfFirst(n, params) ==
  BytesOfLast(Slot, Len(params), params) - BytesOfLast(Slot, Len(params) - n, params)

(* The arguments of a call lie one below the other in the order of the     *)
(* parameters, each in a slot of its parameter's type.                      *)
Passes(f) ==
  f.kind = "call" =>
    LET params == f.callee.params
        n == Len(f.args)
    IN  /\ params # <<>> /\ n <= Len(params) /\ f.callee.returns = f.type
        /\ f.argsize = BytesOfFirst(n, params)
        /\ f.step = "argument" =>
            n < Len(params) /\ f.left \in Accepted(params[n + 1], "widening_argument")
        /\ \A i \in 1 .. n :
             /\ f.args[i].offset = f.slot + BytesOfFirst(i, params)
             /\ f.args[i].size = Slot[params[i]]

Layout ==
  /\ Placed
  /\ \A i \in 1 .. Len(frames) :
       Sees(frames[i]) /\ Remembers(frames[i]) /\ Passes(frames[i])

-----------------------------------------------------------------------------
(* The variables keep clear of what the call and the prologue pushed, and  *)
(* the stack pointer never goes back into it.                              *)
NamesClearGap ==
  \A k \in 1 .. Len(locals) :
    locals[k].offset <= -Gap \/ 0 <= locals[k].offset - Slot[locals[k].type]

ClearsGap == stack.committed >= 0 /\ NamesClearGap

(* Where all slots are multiples of 16 bytes, all offsets are.             *)
Multiples == {n \in Int : n % 16 = 0}
SixteenByteSlots == Gap \in Multiples /\ \A t \in Types : Slot[t] \in Multiples

OnMultiples(f) ==
  /\ f.at \in Multiples /\ f.slot \in Multiples /\ f.argsize \in Multiples
  /\ \A i \in 1 .. Len(f.args) : f.args[i].offset \in Multiples

StackOnMultiples(s) ==
  /\ s.allocated \in Multiples /\ s.committed \in Multiples
  /\ \A k \in 1 .. Len(s.scopes) : s.scopes[k] \in Multiples

Aligned ==
  /\ StackOnMultiples(stack) /\ result \in Multiples
  /\ \A k \in 1 .. Len(locals) : locals[k].offset \in Multiples
  /\ \A i \in 1 .. Len(frames) : OnMultiples(frames[i])

(* Operands, assigned values and casts are never of type void.             *)
OperatesOnValues(f) ==
  /\ f.kind \in {"binary", "assign", "cast"} => f.left \in ValueTypes
  /\ f.kind \in {"binary", "cast"} => f.type \in ValueTypes
  /\ f.kind = "binary" => f.right \in ValueTypes

Typed == \A i \in 1 .. Len(frames) : OperatesOnValues(frames[i])
=============================================================================
