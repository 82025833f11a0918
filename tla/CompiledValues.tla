--------------------------- MODULE CompiledValues ---------------------------
(***************************************************************************)
(* The code that the emitters of expressions and statements produce        *)
(* (x64.c:691-1452, arm64.c:537-1328), executed on the machine of module   *)
(* Processors.  Code without loops runs as it is emitted, node by node:    *)
(* each action is the handler of a node with the instructions that it      *)
(* emits once the operands are done.  The compile-time stack is that of    *)
(* module CodegenStack, one for each active call.                          *)
(*                                                                         *)
(* The two backends differ in their instructions, in the size of a slot    *)
(* and in where the return address is; a machine knows its backend.        *)
(***************************************************************************)
EXTENDS Processors, CodegenStack, SourceRules

CONSTANT Scenarios   \* [variables, literals, calls, nodes]: what main has declared,
                     \* with its values, which literals and calls may follow, and
                     \* how many nodes

ASSUME ScenariosAssumption ==
  \A s \in Scenarios :
    /\ \A l \in s.literals : l.type \in DOMAIN Size
    /\ \A i \in 1 .. Len(s.variables) : s.variables[i].type \in DOMAIN Size
    /\ s.calls \subseteq Callees /\ s.nodes \in Nat

VARIABLES
  scenario,
  x64,        \* is it the backend for x86-64?
  contexts,   \* the active calls, the innermost last
  machine,
  request,    \* what the system was called with last
  node,       \* what the last step evaluated
  nodes       \* the nodes that have begun

vars == <<scenario, x64, contexts, machine, request, node, nodes>>

-----------------------------------------------------------------------------
(* A context is a call: the stack pointer at its entry, the compile-time   *)
(* stack, the variables and operands as slots [type, offset], the open     *)
(* constructs and the offsets that are reserved for their values.          *)

Top == Last(contexts)

StackSize(t) == IF x64 THEN Size[t] ELSE 16 * ((Size[t] + 15) \div 16)

(* The return address or, in as many bytes, the saved link register.       *)
ReturnAddressSize == IF x64 THEN 8 ELSE 16

BytesOfLast(n, ts) ==
  LET bytes[i \in 0 .. n] ==
        IF i = 0 THEN 0 ELSE bytes[i - 1] + StackSize(ts[Len(ts) + 1 - i])
  IN  bytes[n]

ParameterOffset(params, i) == -ReturnAddressSize - BytesOfLast(Len(params) - i, params)
ReturnOffset(params) == -ReturnAddressSize - BytesOfLast(Len(params), params)

(* Where a slot is, seen from the stack pointer that stack s reckons with. *)
Position(s, offset) == s.committed - offset

Pushed(s, t) == PushStack(s, StackSize(t))
Popped(s, t) == PopStack(s, StackSize(t))

(* The code of commit_stack for stack s.                                   *)
Committed(m, s) == MoveSp(m, s.committed - s.allocated)

(* The innermost context becomes c; m is the machine after its code.       *)
Becomes(c, m) ==
  /\ contexts' = Append(Without(contexts, 1), c)
  /\ machine' = Settled(m)
  /\ UNCHANGED <<scenario, x64, request>>

Begins(kind, name, i) ==
  /\ nodes < scenario.nodes /\ nodes' = nodes + 1
  /\ node' = Node(kind, name, i)
Completes == node' = Completed /\ UNCHANGED nodes

(* In c, n operands are replaced by the one at offset.                     *)
Replaced(c, n, t, offset) ==
  [c EXCEPT !.operands = Append(Without(@, n), [type |-> t, offset |-> offset])]

(* In c, n operands are replaced by the one that stack s has on top; the   *)
(* stack is committed.                                                     *)
OnTop(c, n, t, s) ==
  [Replaced(c, n, t, s.allocated) EXCEPT !.stack = CommitStack(s)]

Opened(c, construct, t, of, s) ==
  [c EXCEPT !.open = Append(@, Construct(construct, t, of, c)),
            !.slots = Append(@, s.allocated), !.stack = s]
Finished(c) == [Closed(c) EXCEPT !.slots = Without(@, 1)]

-----------------------------------------------------------------------------
(* Expressions.                                                            *)

(* The number of bytes of a string is an immediate of 4 bytes, or of 2.    *)
CountLiteral(m, n) == Low(n, IF m.x64 THEN 4 ELSE 2)

Literal ==
  /\ Begins("literal", Main, 0)
  /\ \E l \in scenario.literals :
       LET s == Pushed(Top.stack, l.type)
           at == Position(CommitStack(s), s.allocated)
           m == Committed(machine, s)
           code == IF l.type = String
                   THEN LET loaded == [m EXCEPT !.a = CountLiteral(m, l.value.count),
                                                !.b = l.value.data]
                        IN  Store(Store(loaded, "a", at, 8), "b", at + 8, 8)
                   ELSE Store(LoadLiteral(m, l.value), "a", at, Size[l.type])
       IN  /\ l.type # String => CanLiteral(m, l.value)
           /\ Becomes(OnTop(Top, 0, l.type, s), code)

Identifier ==
  \E i \in 1 .. Len(Top.variables) :
    /\ Begins("identifier", Main, i)
    /\ LET t == Top.variables[i].type
           s == Pushed(Top.stack, t)
           c == CommitStack(s)
       IN  Becomes(OnTop(Top, 0, t, s),
                   Copy(Committed(machine, s), Position(c, s.allocated),
                        Position(c, Top.variables[i].offset), Size[t]))

(* The signed conditions are right for signed operands; on arm64, whose    *)
(* loads extend by zeros, for unsigned ones of 1 and 2 bytes and signed    *)
(* ones of 4 and 8.                                                        *)
OrdersRight(t) ==
  IF x64 THEN t \notin Unsigned ELSE (t \in Unsigned) = (Size[t] < 4)

(* Mutant: the operands in the opposite order.                             *)
LoadedInReverse(l, r) ==
  Load(Load(machine, "a", Position(Top.stack, r.offset), Size[r.type]),
       "b", Position(Top.stack, l.offset), Size[l.type])

Loaded(l, r) ==
  Load(Load(machine, "b", Position(Top.stack, r.offset), Size[r.type]),
       "a", Position(Top.stack, l.offset), Size[l.type])

Binary ==
  \E op \in Comparisons \cup Sums :
    /\ Begins("binary", op, 0)
    /\ CanCombine(Top, op)
    /\ LET l == Top.operands[Len(Top.operands) - 1]
           r == Last(Top.operands)
           t == TypeOf(op, r.type)
           s == Pushed(Popped(Popped(Top.stack, r.type), l.type), t)
           at == Position(CommitStack(s), s.allocated)
           m == Committed(Loaded(l, r), s)
       IN  /\ op \in {"<", ">", "<=", ">="} => OrdersRight(l.type)
           /\ Becomes(OnTop(Top, 2, t, s),
                      IF op \in Sums THEN Store(Add(m, op, Size[t]), "a", at, Size[t])
                      ELSE Compare(m, op, Size[l.type], at))

Assign ==
  \E i \in 1 .. Len(Top.variables) :
    /\ Begins("=", Main, i)
    /\ CanAssign(Top, i)
    /\ Becomes(Top, Copy(machine, Position(Top.stack, Top.variables[i].offset),
                         Position(Top.stack, Last(Top.operands).offset),
                         Size[Top.variables[i].type]))

AssignSum ==
  \E i \in 1 .. Len(Top.variables), op \in Sums :
    /\ Begins("assign", op, i)
    /\ CanAssign(Top, i) /\ Last(Top.operands).type \in IntegerTypes
    /\ LET variable == Top.variables[i]
           r == Last(Top.operands)
           size == Size[variable.type]
           m == Add(Loaded(variable, r), op, size)
       IN  Becomes(Top, Store(Store(m, "a", Position(Top.stack, variable.offset), size),
                              "a", Position(Top.stack, r.offset), size))

(* Where the slot has the right size already, the low bytes are there.     *)
Cast ==
  \E t \in IntegerTypes :
    /\ Begins("cast", t, 0)
    /\ CanCast(Top, t)
    /\ LET r == Last(Top.operands)
           s == Pushed(Popped(Top.stack, r.type), t)
           loaded == Load(machine, "a", Position(Top.stack, r.offset), Size[r.type])
           code == Store(Committed(loaded, s), "a",
                         Position(CommitStack(s), s.allocated), Size[t])
       IN  Becomes(OnTop(Top, 1, t, s),
                   IF Size[t] < Size[r.type] /\ StackSize(t) # StackSize(r.type)
                   THEN code ELSE machine)

(* The slot of a member is pushed before the string is evaluated.          *)
OpenMember ==
  \E name \in DOMAIN Members :
    /\ Begins("member", name, 0)
    /\ LET s == Pushed(Top.stack, Members[name])
       IN  Becomes(Opened(Top, "member", Members[name], name, CommitStack(s)),
                   Committed(machine, s))

Read ==
  /\ Completes /\ CanRead(Top)
  /\ LET t == Last(Top.open).type
         slot == Last(Top.slots)
         from == Position(Top.stack, Last(Top.operands).offset)
                 + (IF Last(Top.open).of = "data" THEN 8 ELSE 0)
         s == Popped(Top.stack, String)
         m == Copy(machine, Position(Top.stack, slot), from, Size[t])
     IN  Becomes([Replaced(Finished(Top), 1, t, slot) EXCEPT !.stack = CommitStack(s)],
                 Committed(m, s))

-----------------------------------------------------------------------------
(* Calls.                                                                  *)

(* The slot of the result is pushed, but not committed.                    *)
OpenCall ==
  \E f \in scenario.calls :
    /\ Begins("call", f, 0)
    /\ LET t == Functions[f].returns
       IN  Becomes(Opened(Top, "call", t, f, Pushed(Top.stack, t)), machine)

(* What the caller does after the call: pop the arguments.                 *)
AfterCall(c) ==
  LET ts == [i \in 1 .. Len(Arguments(c)) |-> Arguments(c)[i].type]
  IN  PopStack(c.stack, BytesOfLast(Len(ts), ts))

Returned(c) ==
  [Replaced(Finished(c), Len(Arguments(c)), Last(c.open).type, Last(c.slots))
     EXCEPT !.stack = CommitStack(AfterCall(c))]

(* The call, and the callee saves the link register on arm64.  A call is   *)
(* known by the number of active calls.                                    *)
Enter ==
  /\ Completes /\ CanEnter(Top) /\ Last(Top.open).of \notin Systems
  /\ LET f == Last(Top.open).of
         params == Functions[f].params
         entry == machine.sp - ReturnAddressSize
         called == Placed([machine EXCEPT !.sp = entry], entry, 8, Len(contexts))
     IN  /\ contexts' =
              Append(contexts,
                     [function |-> f, entry |-> entry, stack |-> PushScope(FreshStack),
                      variables |-> [i \in 1 .. Len(params) |->
                        [type |-> params[i], offset |-> ParameterOffset(params, i)]],
                      operands |-> <<>>, open |-> <<>>, slots |-> <<>>])
         /\ machine' = Settled(called)
  /\ UNCHANGED <<scenario, x64, request>>

(* How many bytes of an argument are loaded for the system, and how many   *)
(* it looks at, as its parameters are an int, a pointer and a size.        *)
LoadedFor(f, i) == IF i = 1 /\ (x64 \/ f = "write") THEN 4 ELSE 8
SystemSize(i) == IF i = 1 THEN 4 ELSE 8

(* exit and write; the result of write is never stored.                    *)
System ==
  /\ Completes /\ CanEnter(Top) /\ Last(Top.open).of \in Systems
  /\ LET f == Last(Top.open).of
         loaded(i) ==
           Fetched(machine, machine.sp + Position(Top.stack, Arguments(Top)[i].offset),
                   LoadedFor(f, i))
     IN  /\ request' = [i \in 1 .. Ready(Top) |->
                          IF Arguments(Top)[i].type \in IntegerTypes \ Unsigned
                          THEN AsSigned(loaded(i), SystemSize(i))
                          ELSE Low(loaded(i), SystemSize(i))]
         /\ contexts' = IF f = "exit" THEN <<>>
                        ELSE Append(Without(contexts, 1), Returned(Top))
  /\ machine' = Settled(Committed(machine, AfterCall(Top)))
  /\ UNCHANGED <<scenario, x64>>

(* ret: control goes where the address on the stack says; only the call    *)
(* that it belongs to can go on from there.                                *)
Leave(m) ==
  LET caller == contexts[Len(contexts) - 1]
      after == [m EXCEPT !.sp = @ + ReturnAddressSize]
  IN  /\ contexts' = IF Fetched(m, m.sp, 8) = Len(contexts) - 1
                     THEN Append(Without(contexts, 2), Returned(caller))
                     ELSE <<>>
      /\ machine' = Settled(Committed(after, AfterCall(caller)))
      /\ UNCHANGED <<scenario, x64, request>>

(* The value is copied to its slot above the parameters, then the frame is *)
(* dropped, whatever scopes are open.                                      *)
Return ==
  /\ Len(contexts) > 1
  /\ Completes /\ CanReturn(Top)
  /\ LET f == Functions[Top.function]
         s == Popped(Top.stack, Last(Top.operands).type)
         m == Copy(machine, Position(Top.stack, ReturnOffset(f.params)),
                   Position(Top.stack, Last(Top.operands).offset), Size[f.returns])
     IN  Leave(MoveSp(Committed(m, s), s.allocated))

EndFunction ==
  /\ Len(contexts) > 1
  /\ Completes /\ CanEnd(Top)
  /\ Leave(Committed(machine, PopScope(Top.stack)))

-----------------------------------------------------------------------------
(* Statements.                                                             *)

(* The variable is allocated before its initializer is evaluated.          *)
OpenDeclaration ==
  /\ Begins("declaration", Main, 0) /\ AtStatement(Top)
  /\ \E t \in {l.type : l \in scenario.literals} :
       Becomes(Opened(Top, "declaration", t, Main, AllocateStack(Top.stack, StackSize(t))),
               machine)

DeclareOnly ==
  /\ Begins("uninitialized", Main, 0) /\ AtStatement(Top)
  /\ \E t \in {l.type : l \in scenario.literals} :
       LET s == AllocateStack(Top.stack, StackSize(t))
       IN  Becomes([Top EXCEPT !.variables = Append(@, [type |-> t, offset |-> s.allocated]),
                               !.stack = s], machine)

Declare ==
  /\ Completes /\ CanDeclare(Top)
  /\ LET r == Last(Top.operands)
         s == Popped(Top.stack, r.type)
         m == Copy(machine, Position(Top.stack, Last(Top.slots)),
                   Position(Top.stack, r.offset), Size[r.type])
     IN  Becomes([Finished(Top) EXCEPT
                    !.variables = Append(@, [type |-> r.type, offset |-> Last(Top.slots)]),
                    !.operands = <<>>, !.stack = CommitStack(s)],
                 Committed(m, s))

Discard ==
  /\ Completes /\ AtExpression(Top)
  /\ LET s == Popped(Top.stack, Last(Top.operands).type)
     IN  Becomes([Top EXCEPT !.operands = <<>>, !.stack = CommitStack(s)],
                 Committed(machine, s))

OpenBlock ==
  /\ Begins("block", Main, 0) /\ AtStatement(Top)
  /\ Becomes(Opened(Top, "block", Void, Main, PushScope(Top.stack)), machine)

(* The jump, and the scope of the part that is executed, if any.  In the   *)
(* language a part is one statement, a block if there are several; here a  *)
(* part may have several without that block.                               *)
If ==
  /\ Begins("if", Main, 0) /\ AtExpression(Top) /\ Last(Top.operands).type = Bool
  /\ LET s == Popped(Top.stack, Bool)
         loaded == Load(machine, "a", Position(Top.stack, Last(Top.operands).offset), Size[Bool])
         zero == IF x64 THEN Low(loaded.a, 1) = 0 ELSE loaded.a = 0
         c == [Top EXCEPT !.operands = <<>>, !.stack = CommitStack(s)]
         m == Committed(loaded, s)
         part == IF zero THEN "else" ELSE "then"
     IN  \/ Becomes(Opened(c, part, Void, Main, PushScope(c.stack)), m)
         \/ zero /\ Becomes(c, m)

EndBlock ==
  /\ Completes /\ AtStatement(Top) /\ Top.open # <<>>
  /\ LET s == PopScope(Top.stack)
     IN  Becomes([Finished(Top) EXCEPT
                    !.variables = SubSeq(@, 1, Last(Top.open).names), !.stack = CommitStack(s)],
                 Committed(machine, s))

-----------------------------------------------------------------------------
(* Main, before and after a declaration of v.                              *)

FirstContext ==
  [function |-> Main, entry |-> 0, stack |-> PushScope(FreshStack),
   variables |-> <<>>, operands |-> <<>>, open |-> <<>>, slots |-> <<>>]

Begun(w, v) ==
  LET s == AllocateStack(w.context.stack, StackSize(v.type))
      at == -s.allocated
      m == [w.machine EXCEPT !.sp = at]
  IN  [context |-> [w.context EXCEPT
                      !.stack = CommitStack(s),
                      !.variables = Append(@, [type |-> v.type, offset |-> s.allocated])],
       machine |-> IF v.type = String
                   THEN Placed(Placed(m, at, 8, v.value.count), at + 8, 8, v.value.data)
                   ELSE Placed(m, at, Size[v.type], v.value)]

BegunWith(variables, m) ==
  LET w[i \in 0 .. Len(variables)] ==
        IF i = 0 THEN [context |-> FirstContext, machine |-> m]
        ELSE Begun(w[i - 1], variables[i])
  IN  w[Len(variables)]

(* What was never written is zeros or ones.                                *)
Init ==
  /\ scenario \in Scenarios /\ x64 \in BOOLEAN
  /\ \E garbage \in {0, Radix - 1} :
       LET w == BegunWith(scenario.variables, Machine(x64, garbage))
       IN  contexts = <<w.context>> /\ machine = Settled(w.machine)
  /\ request = <<>> /\ node = Completed /\ nodes = 0

Running == contexts # <<>>

Next ==
  /\ Running
  /\ \/ Literal \/ Identifier \/ Binary \/ Assign \/ AssignSum \/ Cast
     \/ OpenMember \/ Read \/ OpenCall \/ Enter \/ System \/ Return \/ EndFunction
     \/ OpenDeclaration \/ DeclareOnly \/ Declare \/ Discard
     \/ OpenBlock \/ If \/ EndBlock

Spec == Init /\ [][Next]_vars

-----------------------------------------------------------------------------
(* What the contexts mean: the values in their slots.                      *)

ValueAt(t, at) ==
  LET n == Fetched(machine, at, IF t = String THEN 8 ELSE Size[t])
  IN  IF t = String THEN [count |-> AsSigned(n, 8), data |-> Fetched(machine, at + 8, 8)]
      ELSE IF t \in IntegerTypes \ Unsigned THEN AsSigned(n, Size[t])
      ELSE n

Values(c, slots) ==
  [i \in 1 .. Len(slots) |->
    [type |-> slots[i].type, value |-> ValueAt(slots[i].type, c.entry - slots[i].offset)]]

Meaning ==
  [i \in 1 .. Len(contexts) |->
    [function |-> contexts[i].function, open |-> contexts[i].open,
     variables |-> Values(contexts[i], contexts[i].variables),
     operands |-> Values(contexts[i], contexts[i].operands)]]
=============================================================================
