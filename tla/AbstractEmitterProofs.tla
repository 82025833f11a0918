------------------------ MODULE AbstractEmitterProofs ------------------------
(***************************************************************************)
(* What every emitter that implements AbstractEmitter can rely on, proved  *)
(* for all types, slots, functions and numbers of nodes.                   *)
(*                                                                         *)
(*   Sound        every variable keeps its type, the activations are a     *)
(*                chain of calls the handlers make, and no name that an    *)
(*                activation counts on disappears under it;                *)
(*   Accounting   each recursive call leaves exactly its value on the      *)
(*                compile-time stack, each scope is closed at the height   *)
(*                it was opened, and all paths to a label agree;           *)
(*   LaidOut      variables lie one below the other, temporaries beyond    *)
(*                them, and arguments where the callee looks for them;     *)
(*   ClearsGap    no variable and no stack pointer over what the call and  *)
(*                the prologue pushed;                                     *)
(*   Aligned      offsets are multiples of 16 bytes where all slots are;   *)
(*   Typed        no operand and no assigned value is of type void.        *)
(*                                                                         *)
(* Each of the first four is inductive together with those before it,      *)
(* Aligned and Typed with Sound.                                           *)
(***************************************************************************)
EXTENDS AbstractEmitter, SetInduction, SequenceTheorems

(* A prefix of a sequence.                                                 *)
LEMMA Prefix ==
  ASSUME NEW S, NEW q \in Seq(S), NEW n \in 0 .. Len(q)
  PROVE  /\ SubSeq(q, 1, n) \in Seq(S) /\ Len(SubSeq(q, 1, n)) = n
         /\ \A i \in 1 .. n : SubSeq(q, 1, n)[i] = q[i]
OBVIOUS

(***************************************************************************)
(* Types: the primitives of the stack, the frames, the offsets.            *)
(***************************************************************************)
LEMMA StackTypes ==
  ASSUME NEW s \in Stacks, Len(s.scopes) >= 1, NEW n \in Int
  PROVE  /\ PushStack(s, n) \in Stacks /\ PopStack(s, n) \in Stacks /\ CommitStack(s) \in Stacks
         /\ Innermost(s) \in Int /\ PushScope(s) \in Stacks /\ AllocateStack(s, n) \in Stacks
         /\ Len(s.scopes) > 1 => PopScope(s) \in Stacks
<1>1. PushStack(s, n) \in Stacks /\ PopStack(s, n) \in Stacks /\ CommitStack(s) \in Stacks
  BY DEF Stacks, PushStack, PopStack, CommitStack
<1>2. Innermost(s) \in Int
  BY DEF Stacks, Innermost
<1>3. PushScope(s) \in Stacks
  <2>1. \A q \in Seq(Int) : [s EXCEPT !.scopes = q] \in Stacks
    BY DEF Stacks
  <2>2. Append(s.scopes, Innermost(s)) \in Seq(Int)
    BY <1>2 DEF Stacks
  <2> QED  BY <2>1, <2>2 DEF PushScope
<1>4. \A a \in Int, q \in Seq(Int) : [s EXCEPT !.scopes = q, !.allocated = a] \in Stacks
  BY DEF Stacks
<1>5. AllocateStack(s, n) \in Stacks
  <2> DEFINE q == [s.scopes EXCEPT ![Len(s.scopes)] = @ + n]
  <2>1. s.allocated + n \in Int /\ q \in Seq(Int)
    BY ExceptSeq DEF Stacks
  <2>2. AllocateStack(s, n) = [s EXCEPT !.scopes = q, !.allocated = s.allocated + n]
    BY DEF AllocateStack
  <2> HIDE DEF q
  <2> QED  BY <1>4, <2>1, <2>2
<1>6. \A a \in Int, q \in Seq(Int) : [s EXCEPT !.allocated = a, !.scopes = q] \in Stacks
  BY DEF Stacks
<1>7. ASSUME Len(s.scopes) > 1 PROVE PopScope(s) \in Stacks
  <2> DEFINE q == SubSeq(s.scopes, 1, Len(s.scopes) - 1)
             a == s.scopes[Len(s.scopes) - 1]
  <2>1. a \in Int /\ q \in Seq(Int)
    BY <1>7 DEF Stacks
  <2>2. PopScope(s) = [s EXCEPT !.allocated = a, !.scopes = q]
    BY Zenon DEF PopScope
  <2> HIDE DEF a, q
  <2> QED  BY <1>6, <2>1, <2>2
<1> QED  BY <1>1, <1>2, <1>3, <1>5, <1>7

(* What each primitive does to each field.                                 *)
LEMMA StackFields ==
  ASSUME NEW s \in Stacks, Len(s.scopes) >= 1, NEW n
  PROVE  /\ PushStack(s, n).allocated = s.allocated + n
         /\ PushStack(s, n).committed = s.committed /\ PushStack(s, n).scopes = s.scopes
         /\ PopStack(s, n).allocated = s.allocated - n
         /\ PopStack(s, n).committed = s.committed /\ PopStack(s, n).scopes = s.scopes
         /\ CommitStack(s).allocated = s.allocated
         /\ CommitStack(s).committed = s.allocated /\ CommitStack(s).scopes = s.scopes
         /\ PushScope(s).allocated = s.allocated /\ PushScope(s).committed = s.committed
         /\ PushScope(s).scopes = Append(s.scopes, Innermost(s))
         /\ PopScope(s).allocated = s.scopes[Len(s.scopes) - 1]
         /\ PopScope(s).committed = s.committed
         /\ PopScope(s).scopes = SubSeq(s.scopes, 1, Len(s.scopes) - 1)
         /\ AllocateStack(s, n).allocated = s.allocated + n
         /\ AllocateStack(s, n).committed = s.committed
         /\ AllocateStack(s, n).scopes = [s.scopes EXCEPT ![Len(s.scopes)] = @ + n]
<1> USE DEF Stacks
<1>1. /\ PushStack(s, n).allocated = s.allocated + n
      /\ PushStack(s, n).committed = s.committed /\ PushStack(s, n).scopes = s.scopes
  BY DEF PushStack
<1>2. /\ PopStack(s, n).allocated = s.allocated - n
      /\ PopStack(s, n).committed = s.committed /\ PopStack(s, n).scopes = s.scopes
  BY DEF PopStack
<1>3. /\ CommitStack(s).allocated = s.allocated
      /\ CommitStack(s).committed = s.allocated /\ CommitStack(s).scopes = s.scopes
  BY DEF CommitStack
<1>4. /\ PushScope(s).allocated = s.allocated /\ PushScope(s).committed = s.committed
      /\ PushScope(s).scopes = Append(s.scopes, Innermost(s))
  BY DEF PushScope
<1>5. /\ PopScope(s).allocated = s.scopes[Len(s.scopes) - 1]
      /\ PopScope(s).committed = s.committed
      /\ PopScope(s).scopes = SubSeq(s.scopes, 1, Len(s.scopes) - 1)
  BY DEF PopScope
<1>6. /\ AllocateStack(s, n).allocated = s.allocated + n
      /\ AllocateStack(s, n).committed = s.committed
      /\ AllocateStack(s, n).scopes = [s.scopes EXCEPT ![Len(s.scopes)] = @ + n]
  BY DEF AllocateStack
<1> QED  BY <1>1, <1>2, <1>3, <1>4, <1>5, <1>6

(* A stack with a scope, and what keeps it one.                            *)
ScopedStacks == {s \in Stacks : Len(s.scopes) >= 1}

(* The primitives keep a stack with a scope one.                           *)
LEMMA ScopedStackTypes ==
  ASSUME NEW s \in ScopedStacks, NEW n \in Int
  PROVE  /\ PushStack(s, n) \in ScopedStacks /\ PopStack(s, n) \in ScopedStacks
         /\ CommitStack(s) \in ScopedStacks /\ PushScope(s) \in ScopedStacks
         /\ AllocateStack(s, n) \in ScopedStacks
         /\ CanPopScope(s) => PopScope(s) \in ScopedStacks
         /\ s.allocated \in Int /\ s.committed \in Int /\ Len(s.scopes) \in Nat
         /\ Innermost(s) \in Int
<1>1. s \in Stacks /\ Len(s.scopes) >= 1 /\ s.scopes \in Seq(Int)
  BY DEF ScopedStacks, Stacks
<1>2. /\ Len(PushStack(s, n).scopes) >= 1 /\ Len(PopStack(s, n).scopes) >= 1
      /\ Len(CommitStack(s).scopes) >= 1
  BY <1>1, StackFields
<1>3. Len(PushScope(s).scopes) >= 1
  <2>1. PushScope(s).scopes = Append(s.scopes, Innermost(s))
    BY <1>1, StackFields
  <2>2. Innermost(s) \in Int
    BY <1>1 DEF Innermost
  <2> QED  BY <1>1, <2>1, <2>2
<1>4. Len(AllocateStack(s, n).scopes) >= 1
  <2>1. AllocateStack(s, n).scopes = [s.scopes EXCEPT ![Len(s.scopes)] = @ + n]
    BY <1>1, StackFields, ZenonT(30)
  <2> QED  BY <1>1, <2>1
<1>5. ASSUME CanPopScope(s) PROVE Len(PopScope(s).scopes) >= 1 /\ Len(s.scopes) > 1
  <2>1. PopScope(s).scopes = SubSeq(s.scopes, 1, Len(s.scopes) - 1) /\ Len(s.scopes) > 1
    BY <1>1, <1>5, StackFields DEF CanPopScope
  <2> QED  BY <1>1, <2>1
<1>6. s.allocated \in Int /\ s.committed \in Int
  BY <1>1 DEF Stacks
<1>7. /\ PushStack(s, n) \in Stacks /\ PopStack(s, n) \in Stacks /\ CommitStack(s) \in Stacks
      /\ Innermost(s) \in Int /\ PushScope(s) \in Stacks /\ AllocateStack(s, n) \in Stacks
      /\ Len(s.scopes) > 1 => PopScope(s) \in Stacks
  BY <1>1, StackTypes
<1> QED  BY <1>1, <1>2, <1>3, <1>4, <1>5, <1>6, <1>7 DEF ScopedStacks

(* The handlers' compositions of primitives.                               *)
LEMMA CompositeTypes ==
  ASSUME NEW s \in ScopedStacks, NEW k \in Int, NEW m \in Int, NEW n \in Int
  PROVE  /\ CommitStack(PushStack(s, n)) \in ScopedStacks
         /\ CommitStack(PopStack(s, n)) \in ScopedStacks
         /\ CommitStack(PushStack(PopStack(s, m), n)) \in ScopedStacks
         /\ CommitStack(PushStack(PopStack(PopStack(s, k), m), n)) \in ScopedStacks
         /\ CanPopScope(s) => CommitStack(PopScope(s)) \in ScopedStacks
<1>1. PushStack(s, n) \in ScopedStacks /\ PopStack(s, n) \in ScopedStacks
  BY ScopedStackTypes
<1>2. PushStack(PopStack(s, m), n) \in ScopedStacks
  <2>1. PopStack(s, m) \in ScopedStacks
    BY ScopedStackTypes
  <2> QED  BY <2>1, ScopedStackTypes
<1>3. PushStack(PopStack(PopStack(s, k), m), n) \in ScopedStacks
  <2>1. PopStack(s, k) \in ScopedStacks
    BY ScopedStackTypes
  <2>2. PopStack(PopStack(s, k), m) \in ScopedStacks
    BY <2>1, ScopedStackTypes
  <2> QED  BY <2>2, ScopedStackTypes
<1>4. CanPopScope(s) => PopScope(s) \in ScopedStacks
  BY ScopedStackTypes
<1>5. \A t \in ScopedStacks : CommitStack(t) \in ScopedStacks
  BY ScopedStackTypes
<1> QED  BY <1>1, <1>2, <1>3, <1>4, <1>5

(* The heights of a stack.                                                 *)
LEMMA StackHeights ==
  ASSUME NEW s \in ScopedStacks
  PROVE  s.allocated \in Int /\ s.committed \in Int
BY DEF ScopedStacks, Stacks

(* Patching the target of a jump changes neither type nor length of the text.*)
LEMMA PatchType ==
  ASSUME NEW t \in Seq(Instructions), NEW p \in Nat, NEW to \in Nat
  PROVE  [t EXCEPT ![p].to = to] \in Seq(Instructions) /\ Len([t EXCEPT ![p].to = to]) = Len(t)
<1>1. CASE p \in 1 .. Len(t)
  <2>1. [t[p] EXCEPT !.to = to] \in Instructions
    <3>1. t[p] \in Instructions
      BY <1>1
    <3> QED  BY <3>1 DEF Instructions
  <2> HIDE DEF Instructions
  <2> QED  BY <1>1, <2>1, ExceptSeq
<1>2. CASE p \notin 1 .. Len(t)
  <2>1. [t EXCEPT ![p].to = to] = t
    BY <1>2
  <2> QED  BY <2>1
<1> QED  BY <1>1, <1>2

(* The sequence of activations after a call, after a step of the innermost *)
(* activation, and after a return.                                         *)
LEMMA FrameTypes ==
  ASSUME frames \in Seq(Activations), Running
  PROVE  Len(frames) \in Nat \ {0} /\ Top = frames[Len(frames)] /\ Top \in Activations
BY DEF Running, Top

(* The frames after a return.                                              *)
LEMMA ReturnShape ==
  ASSUME frames \in Seq(Activations), Running, frames' = Returning
  PROVE  /\ frames' \in Seq(Activations) /\ Len(frames') = Len(frames) - 1
         /\ \A i \in 1 .. Len(frames) - 1 : frames'[i] = frames[i]
<1>1. Len(frames) - 1 \in 0 .. Len(frames)
  BY FrameTypes
<1>2. /\ Returning \in Seq(Activations) /\ Len(Returning) = Len(frames) - 1
      /\ \A i \in 1 .. Len(frames) - 1 : Returning[i] = frames[i]
  BY <1>1, Prefix, Zenon DEF Returning
<1> QED  BY <1>2, Zenon

(* The frames after a step of the innermost activation.                    *)
LEMMA UpdateShape ==
  ASSUME frames \in Seq(Activations), Running, NEW f \in Activations, frames' = Becoming(f)
  PROVE  /\ frames' \in Seq(Activations) /\ Len(frames') = Len(frames)
         /\ \A i \in 1 .. Len(frames) - 1 : frames'[i] = frames[i]
         /\ frames'[Len(frames)] = f
<1> HIDE DEF Activations
<1>1. Len(frames) \in 1 .. Len(frames) /\ Len(frames) \in Nat
  BY FrameTypes
<1>2. /\ Becoming(f) \in Seq(Activations) /\ Len(Becoming(f)) = Len(frames)
      /\ \A j \in 1 .. Len(frames) : Becoming(f)[j] = IF j = Len(frames) THEN f ELSE frames[j]
  BY <1>1, ExceptSeq DEF Becoming
<1> QED  BY <1>1, <1>2

(* The frames after a call.                                                *)
LEMMA CallShape ==
  ASSUME frames \in Seq(Activations), Running, NEW f \in Activations, NEW g \in Activations,
         frames' = Calling(f, g)
  PROVE  /\ frames' \in Seq(Activations) /\ Len(frames') = Len(frames) + 1
         /\ \A i \in 1 .. Len(frames) - 1 : frames'[i] = frames[i]
         /\ frames'[Len(frames)] = f /\ frames'[Len(frames) + 1] = g
<1> HIDE DEF Activations
<1>1. Len(frames) \in 1 .. Len(frames) /\ Len(frames) \in Nat
  BY FrameTypes
<1>2. /\ Becoming(f) \in Seq(Activations) /\ Len(Becoming(f)) = Len(frames)
      /\ \A j \in 1 .. Len(frames) : Becoming(f)[j] = IF j = Len(frames) THEN f ELSE frames[j]
  BY <1>1, ExceptSeq DEF Becoming
<1>3. /\ Calling(f, g) \in Seq(Activations) /\ Len(Calling(f, g)) = Len(frames) + 1
      /\ \A j \in 1 .. Len(frames) : Calling(f, g)[j] = Becoming(f)[j]
      /\ Calling(f, g)[Len(frames) + 1] = g
  BY <1>2, AppendProperties DEF Calling
<1> QED  BY <1>1, <1>2, <1>3

(* A new activation.                                                       *)
LEMMA ActivationType ==
  ASSUME signature \in Signatures, NEW s \in ScopedStacks, NEW routine \in Routines,
         NEW t \in Types, NEW visible \in Nat
  PROVE  /\ Activation(routine, t, s, visible) \in Activations
         /\ Activation(routine, t, s, visible).routine = routine
         /\ Activation(routine, t, s, visible).kind = "?"
         /\ Activation(routine, t, s, visible).step = "enter"
         /\ Activation(routine, t, s, visible).visible = visible
BY DEF ScopedStacks, Stacks, Activation, Activations, Kinds, Steps

(* The sizes of the last parameters of a function add up.                  *)
LEMMA BytesOfLastSum ==
  ASSUME NEW params \in Seq(ValueTypes), NEW n \in 0 .. Len(params)
  PROVE  \E bytes \in [0 .. n -> Nat] :
           /\ bytes = [i \in 0 .. n |-> IF i = 0 THEN 0
                                        ELSE bytes[i - 1] + Slot[params[Len(params) + 1 - i]]]
           /\ BytesOfLast(Slot, n, params) = bytes[n]
<1> DEFINE a == [i \in 1 .. n |-> Slot[params[Len(params) + 1 - i]]]
           Step(f) == [i \in 0 .. n |-> IF i = 0 THEN 0
                                        ELSE f[i - 1] + Slot[params[Len(params) + 1 - i]]]
           bytes == CHOOSE f : f = Step(f)
<1>0. n \in Nat
  OBVIOUS
<1>1. a \in [1 .. n -> Nat]
  BY SlotAssumption DEF ValueTypes, Types
<1>2. \A f : Step(f) = [i \in 0 .. n |-> IF i = 0 THEN 0 ELSE f[i - 1] + a[i]]
  OBVIOUS
<1>3. bytes = Step(bytes)
  <2>1. \E f : f = Step(f)
    <3>1. \E f : f = [i \in 0 .. n |-> IF i = 0 THEN 0 ELSE f[i - 1] + a[i]]
      <4> HIDE DEF a
      <4> QED  BY <1>0, <1>1, SumExists
    <3>2. PICK f : f = [i \in 0 .. n |-> IF i = 0 THEN 0 ELSE f[i - 1] + a[i]]
      BY <3>1, Zenon
    <3>3. f = Step(f)
      <4> HIDE DEF Step
      <4> QED  BY <1>2, <3>2
    <3> HIDE DEF Step
    <3> QED  BY <3>3
  <2> HIDE DEF Step
  <2> QED BY <2>1
<1>4. bytes \in [0 .. n -> Nat]
  <2>1. bytes = [i \in 0 .. n |-> IF i = 0 THEN 0 ELSE bytes[i - 1] + a[i]]
    <3> HIDE DEF bytes
    <3> QED  BY <1>2, <1>3
  <2> HIDE DEF a, bytes
  <2> QED  BY <1>0, <1>1, <2>1, SumType
<1>5. BytesOfLast(Slot, n, params) = bytes[n]
  BY Zenon DEF BytesOfLast
<1> HIDE DEF bytes
<1> QED  BY <1>3, <1>4, <1>5

(* They are a natural number.                                              *)
LEMMA BytesOfLastType ==
  ASSUME NEW params \in Seq(ValueTypes), NEW n \in 0 .. Len(params)
  PROVE  BytesOfLast(Slot, n, params) \in Nat
<1>1. PICK bytes \in [0 .. n -> Nat] : BytesOfLast(Slot, n, params) = bytes[n]
  BY BytesOfLastSum
<1>2. n \in 0 .. n
  OBVIOUS
<1> QED  BY <1>1, <1>2

(* One parameter more adds its size.                                       *)
LEMMA BytesOfLastStep ==
  ASSUME NEW params \in Seq(ValueTypes)
  PROVE  /\ BytesOfLast(Slot, 0, params) = 0
         /\ \A n \in 0 .. Len(params) - 1 :
              BytesOfLast(Slot, n + 1, params) = BytesOfLast(Slot, n, params) + Slot[params[Len(params) - n]]
<1>1. BytesOfLast(Slot, 0, params) = 0
  BY BytesOfLastSum
<1>2. ASSUME NEW n \in 0 .. Len(params) - 1
      PROVE  BytesOfLast(Slot, n + 1, params) = BytesOfLast(Slot, n, params) + Slot[params[Len(params) - n]]
  <2>1. n \in 0 .. Len(params) /\ n + 1 \in 0 .. Len(params) /\ n \in Nat
    OBVIOUS
  <2>2. PICK f \in [0 .. n -> Nat] :
          /\ f = [i \in 0 .. n |-> IF i = 0 THEN 0
                                   ELSE f[i - 1] + Slot[params[Len(params) + 1 - i]]]
          /\ BytesOfLast(Slot, n, params) = f[n]
    BY <2>1, BytesOfLastSum
  <2>3. PICK g \in [0 .. n + 1 -> Nat] :
          /\ g = [i \in 0 .. n + 1 |-> IF i = 0 THEN 0
                                       ELSE g[i - 1] + Slot[params[Len(params) + 1 - i]]]
          /\ BytesOfLast(Slot, n + 1, params) = g[n + 1]
    BY <2>1, BytesOfLastSum
  <2> DEFINE S == {k \in Nat : k <= n => f[k] = g[k]}
  <2>4. 0 \in S
    BY <2>2, <2>3
  <2>5. ASSUME NEW k \in Nat, k \in S, k + 1 <= n PROVE f[k + 1] = g[k + 1]
    <3>1. k + 1 \in 0 .. n /\ k + 1 \in 0 .. n + 1 /\ k + 1 # 0 /\ (k + 1) - 1 = k
      BY <2>5
    <3>2. f[k + 1] = f[k] + Slot[params[Len(params) + 1 - (k + 1)]]
      BY <2>2, <3>1
    <3>3. g[k + 1] = g[k] + Slot[params[Len(params) + 1 - (k + 1)]]
      BY <2>3, <3>1
    <3> QED  BY <2>5, <3>2, <3>3
  <2>6. Nat \subseteq S
    <3>1. \A k \in Nat : k \in S => k + 1 \in S
      BY <2>5
    <3> HIDE DEF S
    <3> QED  BY <2>4, <3>1, NatSetInduction
  <2>7. f[n] = g[n]
    BY <2>6
  <2>8. g[n + 1] = g[n] + Slot[params[Len(params) + 1 - (n + 1)]]
    BY <2>3
  <2>9. Len(params) + 1 - (n + 1) = Len(params) - n
    OBVIOUS
  <2> QED  BY <2>2, <2>3, <2>7, <2>8, <2>9
<1> QED  BY <1>1, <1>2

(* More parameters take more bytes, at least those of the next one.        *)
LEMMA BytesOfLastGrows ==
  ASSUME NEW params \in Seq(ValueTypes), NEW m \in 0 .. Len(params), NEW n \in 0 .. Len(params), m < n
  PROVE  BytesOfLast(Slot, m, params) + Slot[params[Len(params) - m]] <= BytesOfLast(Slot, n, params)
<1> DEFINE B(k) == BytesOfLast(Slot, k, params)
           S == {k \in Nat : (m + 1) + k <= Len(params) => B(m + 1) <= B((m + 1) + k)}
<1>0. m \in Nat /\ n \in Nat /\ Len(params) \in Nat /\ m + 1 \in 0 .. Len(params)
  OBVIOUS
<1>1. 0 \in S
  <2>1. B(m + 1) \in Nat /\ (m + 1) + 0 = m + 1
    BY <1>0, BytesOfLastType
  <2> HIDE DEF B
  <2> QED  BY <2>1
<1>2. ASSUME NEW k \in Nat, k \in S, (m + 1) + (k + 1) <= Len(params)
      PROVE  B(m + 1) <= B((m + 1) + (k + 1))
  <2> DEFINE j == (m + 1) + k
  <2>1. j \in 0 .. Len(params) - 1 /\ j \in 0 .. Len(params) /\ j + 1 \in 0 .. Len(params)
        /\ (m + 1) + (k + 1) = j + 1 /\ Len(params) - j \in 1 .. Len(params)
    BY <1>0, <1>2
  <2>2. B(j + 1) = B(j) + Slot[params[Len(params) - j]]
    BY <2>1, BytesOfLastStep
  <2>3. B(j) \in Nat /\ B(j + 1) \in Nat /\ B(m + 1) \in Nat
    BY <1>0, <2>1, BytesOfLastType
  <2>4. params[Len(params) - j] \in ValueTypes
    BY <2>1
  <2>5. Slot[params[Len(params) - j]] \in Nat
    BY <2>4, SlotAssumption DEF ValueTypes
  <2>6. B(m + 1) <= B(j)
    BY <1>2, <2>1
  <2>7. B(m + 1) <= B(j + 1)
    <3> HIDE DEF B, j
    <3> QED  BY <2>2, <2>3, <2>5, <2>6
  <2>8. (m + 1) + (k + 1) = j + 1
    BY <2>1
  <2> QED  BY <2>7, <2>8
<1>3. Nat \subseteq S
  <2>1. \A k \in Nat : k \in S => k + 1 \in S
    <3> HIDE DEF B
    <3> QED  BY <1>2
  <2> HIDE DEF S
  <2> QED  BY <1>1, <2>1, NatSetInduction
<1>4. n - (m + 1) \in Nat /\ (m + 1) + (n - (m + 1)) = n
  BY <1>0
<1>5. B(m + 1) <= B(n)
  <2>1. n - (m + 1) \in S
    <3> HIDE DEF S
    <3> QED  BY <1>3, <1>4
  <2> HIDE DEF B
  <2> QED  BY <1>4, <2>1
<1>6. m \in 0 .. Len(params) - 1
  BY <1>0
<1> QED  BY <1>5, <1>6, BytesOfLastStep

(***************************************************************************)
(* The three moves of the emitters preserve ControlDiscipline and          *)
(* NameDiscipline.                                                         *)
(***************************************************************************)
Locals == [type : Types, offset : Int]
Sound == TypeOK /\ ControlDiscipline /\ NameDiscipline

(* The fields of an activation.                                            *)
LEMMA ActivationFields ==
  ASSUME NEW f \in Activations
  PROVE  /\ f.visible \in Nat /\ f.scope \in Nat /\ f.at \in Int /\ f.slot \in Int
         /\ f.argsize \in Nat /\ f.patch \in Nat /\ f.start \in Nat
         /\ f.type \in Types /\ f.left \in Types /\ f.right \in Types
         /\ Names(f) \in Nat /\ f.visible <= Names(f)
BY DEF Activations, Names

(* A call keeps the chain and the names if the caller waits for that callee.*)
LEMMA CallMove ==
  ASSUME Sound, Running, NEW f \in Activations, NEW g \in Activations,
         frames' = Calling(f, g), locals' \in Seq(Locals),
         InControl(f), f.step \notin {"enter", "arguments"},
         f.kind = "function" <=> Top.kind = "function",
         g.routine = Called(f), g.kind = "?", g.step = "enter",
         f.routine = Top.routine, f.visible = Top.visible, Names(f) <= g.visible, g.visible <= Len(locals')
  PROVE  frames' \in Seq(Activations) /\ ControlDiscipline' /\ NameDiscipline'
<1> DEFINE n == Len(frames)
<1>0. frames \in Seq(Activations)
  BY DEF Sound, TypeOK
<1>1. /\ n \in Nat \ {0} /\ Len(frames') = n + 1 /\ frames' \in Seq(Activations)
      /\ \A i \in 1 .. n - 1 : frames'[i] = frames[i]
      /\ frames'[n] = f /\ frames'[n + 1] = g /\ Top = frames[n]
  BY <1>0, FrameTypes, CallShape
<1>2. InControl(g)
  BY DEF InControl, KindsOf, StepsOf, Called
<1>3. ASSUME NEW i \in 1 .. n + 1
      PROVE  InControl(frames'[i]) /\ (frames'[i].kind = "function" <=> i = 1)
  BY <1>1, <1>2 DEF Sound, ControlDiscipline
<1>4. ASSUME NEW i \in 1 .. n
      PROVE  /\ frames'[i].step \notin {"enter", "arguments"}
             /\ frames'[i + 1].routine = Called(frames'[i])
  <2>1. CASE i = n
    BY <1>1, <2>1
  <2>2. CASE i \in 1 .. n - 1
    <3>1. frames'[i] = frames[i] /\ frames'[i + 1].routine = frames[i + 1].routine
      <4>1. i + 1 \in 1 .. n - 1 \/ i + 1 = n
        BY <1>1, <2>2
      <4> QED  BY <1>1, <2>2, <4>1
    <3> QED  BY <2>2, <3>1 DEF Sound, ControlDiscipline
  <2> QED  BY <1>1, <2>1, <2>2
<1>5. ControlDiscipline'
  BY <1>1, <1>3, <1>4 DEF ControlDiscipline
<1>6. /\ Len(locals') \in Nat /\ Names(g) = g.visible
      /\ \A i \in 1 .. n : frames[i] \in Activations
      /\ \A i \in 1 .. n : Names(frames[i]) \in Nat
      /\ Names(f) \in Nat /\ f.visible \in Nat /\ g.visible \in Nat /\ f.visible <= Names(f)
  <2>1. Len(locals') \in Nat
    OBVIOUS
  <2>2. Names(g) = g.visible
    BY DEF Names, Activations
  <2>3. \A i \in 1 .. n : frames[i] \in Activations
    BY <1>0, <1>1
  <2>4. \A i \in 1 .. n : Names(frames[i]) \in Nat
    BY <2>3, ActivationFields
  <2>5. Names(f) \in Nat /\ f.visible \in Nat /\ g.visible \in Nat /\ f.visible <= Names(f)
    BY ActivationFields
  <2> QED  BY <2>1, <2>2, <2>3, <2>4, <2>5
<1>7. /\ \A i \in 1 .. n - 1 : Names(frames[i]) <= f.visible
      /\ \A i, j \in 1 .. n : i < j => Names(frames[i]) <= frames[j].visible
  <2>1. \A i, j \in 1 .. n : i < j => Names(frames[i]) <= frames[j].visible
    BY DEF Sound, NameDiscipline
  <2>2. ASSUME NEW i \in 1 .. n - 1 PROVE i \in 1 .. n /\ n \in 1 .. n /\ i < n
    BY <1>1
  <2> QED  BY <1>1, <2>1, <2>2
<1>8. ASSUME NEW i \in 1 .. n + 1
      PROVE  Names(frames'[i]) <= Len(locals')
  <2>1. CASE i = n + 1
    BY <1>1, <1>6, <2>1
  <2>2. CASE i = n
    BY <1>1, <1>6, <2>2
  <2>3. CASE i \in 1 .. n - 1
    <3>1. frames'[i] = frames[i] /\ Names(frames[i]) \in Nat /\ Names(frames[i]) <= f.visible
      BY <1>1, <1>6, <1>7, <2>3
    <3> QED  BY <1>6, <3>1
  <2> QED  BY <1>1, <2>1, <2>2, <2>3
<1>9. ASSUME NEW i \in 1 .. n + 1, NEW j \in 1 .. n + 1, i < j
      PROVE  Names(frames'[i]) <= frames'[j].visible
  <2>1. CASE j < n
    <3>1. i \in 1 .. n - 1 /\ j \in 1 .. n - 1 /\ i \in 1 .. n /\ j \in 1 .. n
      BY <1>1, <1>9, <2>1
    <3>2. frames'[i] = frames[i] /\ frames'[j] = frames[j]
      BY <1>1, <3>1
    <3> QED  BY <1>7, <1>9, <3>1, <3>2
  <2>2. CASE j = n
    <3>1. i \in 1 .. n - 1
      BY <1>1, <1>9, <2>2
    <3> QED  BY <1>1, <1>7, <2>2, <3>1
  <2>3. CASE j = n + 1 /\ i = n
    BY <1>1, <2>3
  <2>4. CASE j = n + 1 /\ i \in 1 .. n - 1
    <3>1. frames'[i] = frames[i] /\ Names(frames[i]) \in Nat /\ Names(frames[i]) <= f.visible
      BY <1>1, <1>6, <1>7, <2>4
    <3>2. frames'[n + 1] = g /\ f.visible <= g.visible
      BY <1>1, <1>6
    <3>3. Names(frames'[i]) <= g.visible
      <4>1. Names(frames[i]) <= g.visible
        BY <1>6, <3>1, <3>2
      <4> QED  BY <3>1, <4>1
    <3> QED  BY <2>4, <3>2, <3>3
  <2>5. j < n \/ j = n \/ (j = n + 1 /\ i = n) \/ (j = n + 1 /\ i \in 1 .. n - 1)
    <3>1. n \in Nat /\ i \in 1 .. n + 1 /\ j \in 1 .. n + 1 /\ i < j
      BY <1>1, <1>9
    <3> HIDE DEF n
    <3> QED  BY <3>1
  <2> QED  BY <2>1, <2>2, <2>3, <2>4, <2>5, Zenon
<1>10. ~At("for", "declaration")'
  BY <1>1 DEF At, Top, Running
<1>11. NameDiscipline'
  BY <1>1, <1>8, <1>9, <1>10 DEF NameDiscipline
<1> QED  BY <1>1, <1>5, <1>11

(* So does a step of the innermost activation within its handler.          *)
LEMMA UpdateMove ==
  ASSUME Sound, Running, NEW f \in Activations, frames' = Becoming(f), locals' = locals,
         InControl(f), f.kind \notin {"function", "for"}, Top.kind # "function",
         f.routine = Top.routine, f.visible = Top.visible
  PROVE  frames' \in Seq(Activations) /\ ControlDiscipline' /\ NameDiscipline'
<1> DEFINE n == Len(frames)
<1>0. frames \in Seq(Activations)
  BY DEF Sound, TypeOK
<1>1. /\ n \in Nat \ {0} /\ Len(frames') = n /\ frames' \in Seq(Activations)
      /\ \A i \in 1 .. n - 1 : frames'[i] = frames[i]
      /\ frames'[n] = f /\ Top = frames[n]
  BY <1>0, FrameTypes, UpdateShape
<1>2. n # 1
  BY <1>1 DEF Sound, ControlDiscipline
<1>3. ASSUME NEW i \in 1 .. n
      PROVE  InControl(frames'[i]) /\ (frames'[i].kind = "function" <=> i = 1)
  BY <1>1, <1>2 DEF Sound, ControlDiscipline
<1>4. ASSUME NEW i \in 1 .. n - 1
      PROVE  /\ frames'[i].step \notin {"enter", "arguments"}
             /\ frames'[i + 1].routine = Called(frames'[i])
  <2>1. frames'[i] = frames[i] /\ frames'[i + 1].routine = frames[i + 1].routine
    BY <1>1
  <2> QED  BY <2>1 DEF Sound, ControlDiscipline
<1>5. ControlDiscipline'
  BY <1>1, <1>3, <1>4 DEF ControlDiscipline
<1>6. Names(f) = f.visible /\ f.visible \in Nat /\ Names(Top) \in Nat /\ Top.visible <= Names(Top)
  BY <1>0, FrameTypes, ActivationFields DEF Names
<1>7. /\ \A i \in 1 .. n : Names(frames[i]) <= Len(locals)
      /\ \A i, j \in 1 .. n : i < j => Names(frames[i]) <= frames[j].visible
  BY DEF Sound, NameDiscipline
<1>8. Len(locals) \in Nat
  BY DEF Sound, TypeOK
<1>9. ASSUME NEW i \in 1 .. n
      PROVE  Names(frames'[i]) <= Len(locals')
  <2>1. CASE i = n
    <3>1. Names(Top) <= Len(locals)
      BY <1>1, <1>7
    <3> QED  BY <1>1, <1>6, <1>8, <2>1, <3>1
  <2>2. CASE i \in 1 .. n - 1
    BY <1>1, <1>7, <2>2
  <2> QED  BY <1>1, <2>1, <2>2
<1>10. ASSUME NEW i \in 1 .. n, NEW j \in 1 .. n, i < j
       PROVE  Names(frames'[i]) <= frames'[j].visible
  <2>1. i \in 1 .. n - 1 /\ frames'[i] = frames[i] /\ frames'[j].visible = frames[j].visible
    BY <1>1, <1>10
  <2> QED  BY <1>7, <1>10, <2>1
<1>11. ~At("for", "declaration")'
  BY <1>1 DEF At, Top, Running
<1>12. NameDiscipline'
  BY <1>1, <1>9, <1>10, <1>11 DEF NameDiscipline
<1> QED  BY <1>1, <1>5, <1>12

(* So does a return that leaves the names the callers count on.            *)
LEMMA ReturnMove ==
  ASSUME Sound, Running, frames' = Returning, locals' \in Seq(Locals),
         Len(frames) > 1 => Len(locals') >= Top.visible,
         Top.routine = "loop_declaration" => Len(locals') > Top.visible
  PROVE  frames' \in Seq(Activations) /\ ControlDiscipline' /\ NameDiscipline'
<1> DEFINE n == Len(frames)
<1>0. frames \in Seq(Activations)
  BY DEF Sound, TypeOK
<1>1. /\ n \in Nat \ {0} /\ Len(frames') = n - 1 /\ frames' \in Seq(Activations)
      /\ \A i \in 1 .. n - 1 : frames'[i] = frames[i]
      /\ Top = frames[n] /\ Top \in Activations
  BY <1>0, FrameTypes, ReturnShape
<1>2. /\ \A i \in 1 .. n - 1 : InControl(frames'[i]) /\ (frames'[i].kind = "function" <=> i = 1)
      /\ \A i \in 1 .. n - 2 : /\ frames'[i].step \notin {"enter", "arguments"}
                              /\ frames'[i + 1].routine = Called(frames'[i])
  <2>1. ASSUME NEW i \in 1 .. n - 1
        PROVE  InControl(frames'[i]) /\ (frames'[i].kind = "function" <=> i = 1)
    <3>1. frames'[i] = frames[i] /\ i \in 1 .. Len(frames)
      BY <1>1
    <3> QED  BY <3>1 DEF Sound, ControlDiscipline
  <2>2. ASSUME NEW i \in 1 .. n - 2
        PROVE  /\ frames'[i].step \notin {"enter", "arguments"}
               /\ frames'[i + 1].routine = Called(frames'[i])
    <3>1. frames'[i] = frames[i] /\ frames'[i + 1] = frames[i + 1] /\ i \in 1 .. Len(frames) - 1
      BY <1>1
    <3> QED  BY <3>1 DEF Sound, ControlDiscipline
  <2> QED  BY <2>1, <2>2
<1>3. ControlDiscipline'
  BY <1>1, <1>2 DEF ControlDiscipline
<1>4. /\ Len(locals') \in Nat /\ Top.visible \in Nat
      /\ \A i \in 1 .. n - 1 : Names(frames[i]) \in Nat /\ Names(frames[i]) <= Top.visible
      /\ \A i \in 1 .. n - 1 : frames[i].visible \in Nat /\ frames[i].visible <= Names(frames[i])
  <2>1. \A i \in 1 .. n - 1 : Names(frames[i]) <= Top.visible
    <3>1. \A i, j \in 1 .. n : i < j => Names(frames[i]) <= frames[j].visible
      BY DEF Sound, NameDiscipline
    <3>2. ASSUME NEW i \in 1 .. n - 1 PROVE i \in 1 .. n /\ n \in 1 .. n /\ i < n
      BY <1>1
    <3> QED  BY <1>1, <3>1, <3>2
  <2>2. \A i \in 1 .. n - 1 : frames[i] \in Activations
    BY <1>0, <1>1
  <2>3. \A i \in 1 .. n - 1 : /\ Names(frames[i]) \in Nat /\ frames[i].visible \in Nat
                              /\ frames[i].visible <= Names(frames[i])
    <3> HIDE DEF Activations
    <3> QED  BY <2>2, ActivationFields
  <2>4. Len(locals') \in Nat /\ Top.visible \in Nat
    BY <1>1, ActivationFields
  <2> QED  BY <2>1, <2>3, <2>4
<1>5. ASSUME NEW i \in 1 .. n - 1
      PROVE  Names(frames'[i]) <= Len(locals')
  <2>1. Len(locals') >= Top.visible
    BY <1>1
  <2> QED  BY <1>1, <1>4, <2>1
<1>6. ASSUME NEW i \in 1 .. n - 1, NEW j \in 1 .. n - 1, i < j
      PROVE  Names(frames'[i]) <= frames'[j].visible
  BY <1>1, <1>6 DEF Sound, NameDiscipline
<1>7. ASSUME At("for", "declaration")'
      PROVE  Top'.visible < Len(locals')
  <2>1. n - 1 \in 1 .. n - 1 /\ Top' = frames[n - 1]
    BY <1>1, <1>7 DEF At, Running, Top
  <2>2. frames[n - 1].kind = "for" /\ frames[n - 1].step = "declaration"
    BY <1>7, <2>1 DEF At
  <2>3. Top.routine = "loop_declaration"
    <3>1. Top.routine = Called(frames[n - 1])
      BY <1>1, <2>1 DEF Sound, ControlDiscipline
    <3> QED  BY <2>2, <3>1 DEF Called, AwaitsExpression
  <2> QED  BY <1>4, <2>1, <2>3
<1>8. NameDiscipline'
  BY <1>1, <1>5, <1>6, <1>7 DEF NameDiscipline
<1> QED  BY <1>1, <1>3, <1>8

(* What every action finds.                                                *)
LEMMA Context ==
  ASSUME Sound, Running
  PROVE  /\ stack \in ScopedStacks /\ Top \in Activations /\ InControl(Top)
         /\ signature \in Signatures /\ result \in Int /\ text \in Seq(Instructions)
         /\ locals \in Seq(Locals) /\ Len(locals) \in Nat
         /\ Top.visible \in Nat /\ Names(Top) \in Nat
         /\ Top.visible <= Names(Top) /\ Names(Top) <= Len(locals)
         /\ nodes \in 0 .. MaxNodes
<1>1. frames \in Seq(Activations)
  BY DEF Sound, TypeOK
<1>2. Len(frames) \in 1 .. Len(frames) /\ Top = frames[Len(frames)] /\ Top \in Activations
  BY <1>1, FrameTypes
<1>3. InControl(Top) /\ Names(Top) <= Len(locals)
  BY <1>2 DEF Sound, ControlDiscipline, NameDiscipline
<1>4. stack \in ScopedStacks
  BY DEF Sound, TypeOK, ScopedStacks
<1> QED  BY <1>2, <1>3, <1>4, ActivationFields DEF Sound, TypeOK, Locals

(* The types the emitter names and their sizes.                            *)
LEMMA Sizes ==
  /\ \A t \in Types : Slot[t] \in Nat /\ Slot[t] \in Int
  /\ Bool \in Types /\ String \in Types /\ Void \in Types
  /\ ValueTypes \subseteq Types /\ IntegerTypes \subseteq Types /\ Members \subseteq Types
BY TypesAssumption, SlotAssumption DEF ValueTypes

(* A call of the expression emitter, of a statement's, and of the two for  *)
(* the parts of a loop, without a change of names.                         *)
LEMMA ExpressionCall ==
  ASSUME Sound, Running, NEW f \in Activations, NEW t \in Types, NEW s \in ScopedStacks,
         frames' = Calling(f, Expression(t, s)), locals' = locals,
         InControl(f), AwaitsExpression(f), f.kind # "function", Top.kind # "function",
         f.routine = Top.routine, f.visible = Top.visible, Names(f) <= Len(locals)
  PROVE  frames' \in Seq(Activations) /\ ControlDiscipline' /\ NameDiscipline'
<1> DEFINE g == Expression(t, s)
<1>1. signature \in Signatures /\ Len(locals) \in Nat /\ locals \in Seq(Locals)
  BY Context
<1>2. /\ g \in Activations /\ g.routine = "expression" /\ g.kind = "?" /\ g.step = "enter"
      /\ g.visible = Len(locals)
  <2>1. "expression" \in Routines
    BY DEF Routines
  <2> QED  BY <1>1, <2>1, ActivationType DEF Expression
<1>3. Called(f) = "expression"
  BY DEF Called, AwaitsExpression
<1>4. f.step \notin {"enter", "arguments"}
  BY DEF AwaitsExpression
<1> HIDE DEF g
<1>5. g.visible <= Len(locals')
  BY <1>1, <1>2
<1>6. frames' = Calling(f, g)
  BY DEF g
<1> QED  BY <1>1, <1>2, <1>3, <1>4, <1>5, <1>6, CallMove

(* The same for statements and the parts of a loop.                        *)
LEMMA StatementCall ==
  ASSUME Sound, Running, NEW f \in Activations, NEW routine \in Routines, NEW s \in ScopedStacks,
         frames' = Calling(f, Activation(routine, Void, s, Len(locals))), locals' = locals,
         InControl(f), routine = Called(f), f.step \notin {"enter", "arguments"},
         f.kind = "function" <=> Top.kind = "function",
         f.routine = Top.routine, f.visible = Top.visible, Names(f) <= Len(locals)
  PROVE  frames' \in Seq(Activations) /\ ControlDiscipline' /\ NameDiscipline'
<1> DEFINE g == Activation(routine, Void, s, Len(locals))
<1>1. signature \in Signatures /\ Len(locals) \in Nat /\ locals \in Seq(Locals)
  BY Context
<1>2. /\ g \in Activations /\ g.routine = routine /\ g.kind = "?" /\ g.step = "enter"
      /\ g.visible = Len(locals)
  BY <1>1, Sizes, ActivationType
<1> HIDE DEF g
<1>3. g.visible <= Len(locals')
  BY <1>1, <1>2
<1>4. frames' = Calling(f, g)
  BY DEF g
<1> QED  BY <1>1, <1>2, <1>3, <1>4, CallMove

(* The end of a scope takes its declarations with it.                      *)
LEMMA EndNames ==
  ASSUME Sound, Running, frames' = Returning, locals' = SubSeq(locals, 1, Top.visible),
         Top.routine # "loop_declaration"
  PROVE  /\ locals' \in Seq(Locals)
         /\ frames' \in Seq(Activations) /\ ControlDiscipline' /\ NameDiscipline'
<1>1. locals \in Seq(Locals) /\ Top.visible \in 0 .. Len(locals) /\ Top.visible \in Nat
  BY Context
<1>2. locals' \in Seq(Locals) /\ Len(locals') = Top.visible
  <2> HIDE DEF Locals
  <2> QED  BY <1>1, Prefix
<1> QED  BY <1>1, <1>2, ReturnMove

-----------------------------------------------------------------------------
(* The actions.                                                            *)

(* A push.                                                                 *)
LEMMA PushSound ==
  ASSUME Sound, PushStep PROVE Sound'
<1> DEFINE c == CommitStack(PushStack(stack, Slot[Top.type]))
<1>1. Running /\ Top.step = "enter" /\ Top.routine = "expression"
  BY DEF PushStep, Yields, Pushed, Returns, Entering
<1>2. c \in ScopedStacks /\ c.allocated \in Int /\ stack \in ScopedStacks
  <2>1. stack \in ScopedStacks /\ Slot[Top.type] \in Int
    BY <1>1, Context, Sizes, ActivationFields
  <2> QED  BY <2>1, CompositeTypes, StackHeights
<1>3. text' \in Seq(Instructions)
  BY DEF PushStep, Yields, Pushed, Returns, Emits, EmitsBranch, EmitsAfter
<1>4. frames' \in Seq(Activations) /\ ControlDiscipline' /\ NameDiscipline'
  <2>1. Top.routine # "loop_declaration"
    BY <1>1
  <2> QED  BY <1>1, <2>1, Context, ReturnMove DEF PushStep, Yields, Pushed, Returns
<1> QED  BY <1>1, <1>2, <1>3, <1>4, Context DEF PushStep, Yields, Pushed, Returns, Sound,
     TypeOK, ScopedStacks, Locals

(* The result of two operands.                                             *)
LEMMA EndBinarySound ==
  ASSUME Sound, EndBinaryStep PROVE Sound'
<1> DEFINE c == CommitStack(PushStack(PopStack(PopStack(stack, Slot[Top.right]), Slot[Top.left]), Slot[Top.type]))
<1>1. Running /\ Top.kind = "binary" /\ Top.step = "right"
  BY DEF EndBinaryStep, Yields, Pushed, Returns, At
<1>2. c \in ScopedStacks /\ c.allocated \in Int /\ stack \in ScopedStacks
  <2>1. stack \in ScopedStacks /\ Slot[Top.type] \in Int /\ Slot[Top.left] \in Int /\ Slot[Top.right] \in Int
    BY <1>1, Context, Sizes, ActivationFields
  <2> QED  BY <2>1, CompositeTypes, StackHeights
<1>3. text' \in Seq(Instructions)
  BY DEF EndBinaryStep, Yields, Pushed, Returns, Emits, EmitsBranch, EmitsAfter
<1>4. frames' \in Seq(Activations) /\ ControlDiscipline' /\ NameDiscipline'
  <2>1. Top.routine # "loop_declaration"
    BY <1>1, Context DEF InControl, KindsOf
  <2> QED  BY <1>1, <2>1, Context, ReturnMove DEF EndBinaryStep, Yields, Pushed, Returns
<1> QED  BY <1>1, <1>2, <1>3, <1>4, Context DEF EndBinaryStep, Yields, Pushed, Returns, Sound,
     TypeOK, ScopedStacks, Locals

(* The copy into a variable.                                               *)
LEMMA EndAssignSound ==
  ASSUME Sound, EndAssignStep PROVE Sound'
<1>1. Running /\ Top.kind = "assign" /\ Top.step = "value"
  BY DEF EndAssignStep, Returns, At
<1>4. frames' \in Seq(Activations) /\ ControlDiscipline' /\ NameDiscipline'
  <2>1. Top.routine # "loop_declaration"
    BY <1>1, Context DEF InControl, KindsOf
  <2> QED  BY <1>1, <2>1, Context, ReturnMove DEF EndAssignStep, Returns
<1> QED  BY <1>1, <1>4, Context DEF EndAssignStep, Returns, Sound, TypeOK, ScopedStacks, Locals

(* A value dropped.                                                        *)
LEMMA EndDiscardSound ==
  ASSUME Sound, EndDiscardStep PROVE Sound'
<1> DEFINE c == CommitStack(PopStack(stack, Slot[Top.left]))
<1>1. Running /\ Top.kind = "discard" /\ Top.step = "value"
  BY DEF EndDiscardStep, Returns, Popped, At
<1>2. c \in ScopedStacks /\ c.allocated \in Int /\ stack \in ScopedStacks
  <2>1. stack \in ScopedStacks /\ Slot[Top.left] \in Int
    BY <1>1, Context, Sizes, ActivationFields
  <2> QED  BY <2>1, CompositeTypes, StackHeights
<1>3. text' \in Seq(Instructions)
  BY DEF EndDiscardStep, Returns, Popped, Emits, EmitsBranch, EmitsAfter
<1>4. frames' \in Seq(Activations) /\ ControlDiscipline' /\ NameDiscipline'
  <2>1. Top.routine # "loop_declaration"
    BY <1>1, Context DEF InControl, KindsOf
  <2> QED  BY <1>1, <2>1, Context, ReturnMove DEF EndDiscardStep, Returns, Popped
<1> QED  BY <1>1, <1>2, <1>3, <1>4, Context DEF EndDiscardStep, Returns, Popped, Sound, TypeOK,
     ScopedStacks, Locals

(* The call itself.                                                        *)
LEMMA EndCallSound ==
  ASSUME Sound, EndCallStep PROVE Sound'
<1> DEFINE c == CommitStack(PopStack(stack, Top.argsize))
<1>1. Running /\ Top.kind = "call" /\ Top.step = "arguments"
  BY DEF EndCallStep, Returns, At
<1>2. c \in ScopedStacks /\ c.allocated \in Int /\ stack \in ScopedStacks
  <2>1. stack \in ScopedStacks /\ Top.argsize \in Int
    BY <1>1, Context, Sizes, ActivationFields
  <2> QED  BY <2>1, CompositeTypes, StackHeights
<1>3. text' \in Seq(Instructions)
  BY DEF EndCallStep, Returns, Emits, EmitsBranch, EmitsAfter
<1>4. frames' \in Seq(Activations) /\ ControlDiscipline' /\ NameDiscipline'
  <2>1. Top.routine # "loop_declaration"
    BY <1>1, Context DEF InControl, KindsOf
  <2> QED  BY <1>1, <2>1, Context, ReturnMove DEF EndCallStep, Returns
<1>5. Top.slot \in Int
  BY <1>1, Context, ActivationFields
<1> QED  BY <1>1, <1>2, <1>3, <1>4, <1>5, Context DEF EndCallStep, Returns, Sound, TypeOK,
     ScopedStacks, Locals

(* The member of a string.                                                 *)
LEMMA EndMemberSound ==
  ASSUME Sound, EndMemberStep PROVE Sound'
<1> DEFINE c == CommitStack(PopStack(stack, Slot[String]))
<1>1. Running /\ Top.kind = "member" /\ Top.step = "string"
  BY DEF EndMemberStep, Returns, Popped, At
<1>2. c \in ScopedStacks /\ c.allocated \in Int /\ stack \in ScopedStacks
  <2>1. stack \in ScopedStacks /\ Slot[String] \in Int
    BY <1>1, Context, Sizes, ActivationFields
  <2> QED  BY <2>1, CompositeTypes, StackHeights
<1>3. text' \in Seq(Instructions)
  BY DEF EndMemberStep, Returns, Popped, Emits, EmitsBranch, EmitsAfter
<1>4. frames' \in Seq(Activations) /\ ControlDiscipline' /\ NameDiscipline'
  <2>1. Top.routine # "loop_declaration"
    BY <1>1, Context DEF InControl, KindsOf
  <2> QED  BY <1>1, <2>1, Context, ReturnMove DEF EndMemberStep, Returns, Popped
<1>5. Top.slot \in Int
  BY <1>1, Context, ActivationFields
<1> QED  BY <1>1, <1>2, <1>3, <1>4, <1>5, Context DEF EndMemberStep, Returns, Popped, Sound,
     TypeOK, ScopedStacks, Locals

(* The left operand.                                                       *)
LEMMA BeginBinarySound ==
  ASSUME Sound, BeginBinaryStep PROVE Sound'
<1>1. Running /\ Top.step = "enter" /\ Top.routine = "expression" /\ Top.kind # "function"
  BY Context DEF BeginBinaryStep, Goes, Entering, InControl, KindsOf
<1>2. PICK l \in ValueTypes, r \in ValueTypes :
        frames' = Calling([Top EXCEPT !.kind = "binary", !.step = "left", !.left = l, !.right = r],
                          Expression(l, stack))
  BY DEF BeginBinaryStep, Goes
<1> DEFINE f == [Top EXCEPT !.kind = "binary", !.step = "left", !.left = l, !.right = r]
<1>5. /\ f \in Activations /\ f.routine = Top.routine /\ f.visible = Top.visible
      /\ f.kind = "binary" /\ f.step = "left"
  BY <1>1, <1>2, Context, Sizes DEF Activations, Kinds, Steps
<1>6. InControl(f) /\ AwaitsExpression(f) /\ Names(f) = f.visible
  <2> HIDE DEF f
  <2> QED  BY <1>1, <1>5, Context, ActivationFields DEF InControl, KindsOf, StepsOf,
       AwaitsExpression, Names
<1>7. frames' \in Seq(Activations) /\ ControlDiscipline' /\ NameDiscipline'
  <2> HIDE DEF f
  <2>1. Names(f) <= Len(locals) /\ stack \in ScopedStacks /\ l \in Types
    BY <1>1, <1>5, <1>6, <1>2, Context, Sizes
  <2>2. frames' = Calling(f, Expression(l, stack)) /\ locals' = locals
    BY <1>2 DEF f, BeginBinaryStep, Goes
  <2> QED  BY <1>1, <1>5, <1>6, <2>1, <2>2, ExpressionCall
<1> QED  BY <1>1, <1>7, Context, BoundsAssumption DEF BeginBinaryStep, Goes, NewNode, Sound,
     TypeOK, ScopedStacks, Locals

(* The right operand.                                                      *)
LEMMA BinaryRightSound ==
  ASSUME Sound, BinaryRightStep PROVE Sound'
<1>1. Running /\ Top.kind = "binary" /\ Top.step = "left"
  BY DEF BinaryRightStep, Goes, At
<1> DEFINE f == [Top EXCEPT !.step = "right", !.slot = result]
<1>5. /\ f \in Activations /\ f.routine = Top.routine /\ f.visible = Top.visible
      /\ f.kind = "binary" /\ f.step = "right"
  BY <1>1, Context, Sizes DEF Activations, Kinds, Steps
<1>6. InControl(f) /\ AwaitsExpression(f) /\ Names(f) = f.visible
  <2> HIDE DEF f
  <2> QED  BY <1>1, <1>5, Context, ActivationFields DEF InControl, KindsOf, StepsOf,
       AwaitsExpression, Names
<1>7. frames' \in Seq(Activations) /\ ControlDiscipline' /\ NameDiscipline'
  <2> HIDE DEF f
  <2>1. Names(f) <= Len(locals) /\ stack \in ScopedStacks /\ Top.right \in Types
    BY <1>1, <1>5, <1>6, Context, ActivationFields
  <2>2. frames' = Calling(f, Expression(Top.right, stack)) /\ locals' = locals
    BY DEF f, BinaryRightStep, Goes
  <2> QED  BY <1>1, <1>5, <1>6, <2>1, <2>2, ExpressionCall
<1> QED  BY <1>1, <1>7, Context, BoundsAssumption DEF BinaryRightStep, Goes, NewNode, Sound,
     TypeOK, ScopedStacks, Locals

(* The next argument.                                                      *)
LEMMA BeginArgumentSound ==
  ASSUME Sound, BeginArgumentStep PROVE Sound'
<1>1. Running /\ Top.kind = "call" /\ Top.step = "arguments"
  BY DEF BeginArgumentStep, Goes, At
<1>2. PICK t \in ValueTypes :
        frames' = Calling([Top EXCEPT !.step = "argument", !.left = t],
                          Expression(t, stack))
  BY DEF BeginArgumentStep, Goes, Accepted
<1> DEFINE f == [Top EXCEPT !.step = "argument", !.left = t]
<1>5. /\ f \in Activations /\ f.routine = Top.routine /\ f.visible = Top.visible
      /\ f.kind = "call" /\ f.step = "argument"
  BY <1>1, <1>2, Context, Sizes DEF Activations, Kinds, Steps
<1>6. InControl(f) /\ AwaitsExpression(f) /\ Names(f) = f.visible
  <2> HIDE DEF f
  <2> QED  BY <1>1, <1>5, Context, ActivationFields DEF InControl, KindsOf, StepsOf,
       AwaitsExpression, Names
<1>7. frames' \in Seq(Activations) /\ ControlDiscipline' /\ NameDiscipline'
  <2> HIDE DEF f
  <2>1. Names(f) <= Len(locals) /\ stack \in ScopedStacks /\ t \in Types
    BY <1>1, <1>5, <1>6, <1>2, Context, Sizes
  <2>2. frames' = Calling(f, Expression(t, stack)) /\ locals' = locals
    BY <1>2 DEF f, BeginArgumentStep, Goes
  <2> QED  BY <1>1, <1>5, <1>6, <2>1, <2>2, ExpressionCall
<1> QED  BY <1>1, <1>7, Context, BoundsAssumption DEF BeginArgumentStep, Goes, NewNode, Sound,
     TypeOK, ScopedStacks, Locals

(* The right side of an assignment.                                        *)
LEMMA BeginAssignSound ==
  ASSUME Sound, BeginAssignStep PROVE Sound'
<1>1. Running /\ Top.step = "enter" /\ Top.routine = "expression" /\ Top.kind # "function"
  BY Context DEF BeginAssignStep, Goes, Entering, InControl, KindsOf
<1>2. PICK local \in Locals, t \in ValueTypes :
        frames' = Calling([Top EXCEPT !.kind = "assign", !.step = "value", !.slot = local.offset, !.left = t],
                          Expression(t, stack))
  <2>1. Visible \subseteq Locals
    BY <1>1, Context DEF Visible
  <2> QED  BY <2>1 DEF BeginAssignStep, Goes, Accepted, Targets
<1> DEFINE f == [Top EXCEPT !.kind = "assign", !.step = "value", !.slot = local.offset, !.left = t]
<1>5. /\ f \in Activations /\ f.routine = Top.routine /\ f.visible = Top.visible
      /\ f.kind = "assign" /\ f.step = "value"
  BY <1>1, <1>2, Context, Sizes DEF Activations, Kinds, Steps, Locals
<1>6. InControl(f) /\ AwaitsExpression(f) /\ Names(f) = f.visible
  <2> HIDE DEF f
  <2> QED  BY <1>1, <1>5, Context, ActivationFields DEF InControl, KindsOf, StepsOf,
       AwaitsExpression, Names
<1>7. frames' \in Seq(Activations) /\ ControlDiscipline' /\ NameDiscipline'
  <2> HIDE DEF f
  <2>1. Names(f) <= Len(locals) /\ stack \in ScopedStacks /\ t \in Types
    BY <1>1, <1>5, <1>6, <1>2, Context, Sizes
  <2>2. frames' = Calling(f, Expression(t, stack)) /\ locals' = locals
    BY <1>2 DEF f, BeginAssignStep, Goes
  <2> QED  BY <1>1, <1>5, <1>6, <2>1, <2>2, ExpressionCall
<1> QED  BY <1>1, <1>7, Context, BoundsAssumption, SMTT(30) DEF BeginAssignStep, Goes, NewNode, Sound,
     TypeOK, ScopedStacks, Locals

(* The string of a member access.                                          *)
LEMMA BeginMemberSound ==
  ASSUME Sound, BeginMemberStep PROVE Sound'
<1>1. Running /\ Top.step = "enter" /\ Top.routine = "expression" /\ Top.kind # "function"
  BY Context DEF BeginMemberStep, Goes, Pushed, Entering, InControl, KindsOf
<1> DEFINE c == CommitStack(PushStack(stack, Slot[Top.type]))
<1>3. c \in ScopedStacks /\ c.allocated \in Int /\ stack \in ScopedStacks
  <2>1. stack \in ScopedStacks /\ Slot[Top.type] \in Int
    BY <1>1, Context, Sizes, ActivationFields
  <2> QED  BY <2>1, CompositeTypes, ScopedStackTypes, StackHeights
<1>4. text' \in Seq(Instructions)
  BY DEF BeginMemberStep, Goes, Pushed, Emits, EmitsBranch, EmitsAfter
<1> DEFINE f == [Top EXCEPT !.kind = "member", !.step = "string", !.slot = c.allocated]
<1>5. /\ f \in Activations /\ f.routine = Top.routine /\ f.visible = Top.visible
      /\ f.kind = "member" /\ f.step = "string"
  <2> HIDE DEF c
  <2> QED  BY <1>1, <1>3, Context, Sizes DEF Activations, Kinds, Steps
<1>6. InControl(f) /\ AwaitsExpression(f) /\ Names(f) = f.visible
  <2> HIDE DEF f
  <2> QED  BY <1>1, <1>5, Context, ActivationFields DEF InControl, KindsOf, StepsOf,
       AwaitsExpression, Names
<1>7. frames' \in Seq(Activations) /\ ControlDiscipline' /\ NameDiscipline'
  <2> HIDE DEF f, c
  <2>1. Names(f) <= Len(locals) /\ c \in ScopedStacks /\ String \in Types
    BY <1>1, <1>5, <1>6, <1>3, Context, Sizes
  <2>2. frames' = Calling(f, Expression(String, c)) /\ locals' = locals
    BY DEF f, BeginMemberStep, Goes, Pushed, c
  <2> QED  BY <1>1, <1>5, <1>6, <2>1, <2>2, ExpressionCall
<1> QED  BY <1>1, <1>7, <1>3, <1>4, Context, BoundsAssumption, SMTT(30) DEF BeginMemberStep, Goes, Pushed,
     NewNode, Sound, TypeOK, ScopedStacks, Locals

(* The value of a cast.                                                    *)
LEMMA BeginCastSound ==
  ASSUME Sound, BeginCastStep PROVE Sound'
<1>1. Running /\ Top.step = "enter" /\ Top.routine = "expression" /\ Top.kind # "function"
  BY Context DEF BeginCastStep, Goes, Entering, InControl, KindsOf
<1>2. PICK from \in IntegerTypes :
        frames' = Calling([Top EXCEPT !.kind = "cast", !.step = "value", !.left = from],
                          Expression(from, stack))
  BY DEF BeginCastStep, Goes
<1> DEFINE f == [Top EXCEPT !.kind = "cast", !.step = "value", !.left = from]
<1>5. /\ f \in Activations /\ f.routine = Top.routine /\ f.visible = Top.visible
      /\ f.kind = "cast" /\ f.step = "value"
  BY <1>1, <1>2, Context, Sizes DEF Activations, Kinds, Steps
<1>6. InControl(f) /\ AwaitsExpression(f) /\ Names(f) = f.visible
  <2> HIDE DEF f
  <2> QED  BY <1>1, <1>5, Context, ActivationFields DEF InControl, KindsOf, StepsOf,
       AwaitsExpression, Names
<1>7. frames' \in Seq(Activations) /\ ControlDiscipline' /\ NameDiscipline'
  <2> HIDE DEF f
  <2>1. Names(f) <= Len(locals) /\ stack \in ScopedStacks /\ from \in Types
    BY <1>1, <1>5, <1>6, <1>2, Context, Sizes
  <2>2. frames' = Calling(f, Expression(from, stack)) /\ locals' = locals
    BY <1>2 DEF f, BeginCastStep, Goes
  <2> QED  BY <1>1, <1>5, <1>6, <2>1, <2>2, ExpressionCall
<1> QED  BY <1>1, <1>7, Context, BoundsAssumption DEF BeginCastStep, Goes, NewNode, Sound,
     TypeOK, ScopedStacks, Locals

(* The slot of a declaration, and its initializer.                         *)
LEMMA BeginDeclarationSound ==
  ASSUME Sound, BeginDeclarationStep PROVE Sound'
<1>1. Running /\ Top.step = "enter" /\ Top.routine \in {"statement", "loop_declaration", "loop_body"} /\ Top.kind # "function"
  BY Context DEF BeginDeclarationStep, Goes, Entering, InControl, KindsOf
<1>2. PICK t \in ValueTypes, initializer \in Types :
        /\ stack' = AllocateStack(stack, Slot[t])
          /\ frames' = Calling([Top EXCEPT !.kind = "declaration", !.step = "initializer",
                                           !.type = t, !.left = initializer,
                                           !.slot = AllocateStack(stack, Slot[t]).allocated],
                               Expression(initializer, AllocateStack(stack, Slot[t])))
  <2>1. \A t \in ValueTypes : Initializers(t) \subseteq Types
    BY Sizes DEF Initializers
  <2> QED  BY <2>1 DEF BeginDeclarationStep, Goes
<1> DEFINE c == AllocateStack(stack, Slot[t])
<1>3. c \in ScopedStacks /\ c.allocated \in Int /\ stack \in ScopedStacks
  <2>1. stack \in ScopedStacks /\ Slot[t] \in Int
    BY <1>1, <1>2, Context, Sizes, ActivationFields
  <2> QED  BY <2>1, CompositeTypes, ScopedStackTypes, StackHeights
<1> DEFINE f == [Top EXCEPT !.kind = "declaration", !.step = "initializer",
                !.type = t, !.left = initializer, !.slot = c.allocated]
<1>5. /\ f \in Activations /\ f.routine = Top.routine /\ f.visible = Top.visible
      /\ f.kind = "declaration" /\ f.step = "initializer"
  <2> HIDE DEF c
  <2> QED  BY <1>1, <1>2, <1>3, Context, Sizes DEF Activations, Kinds, Steps
<1>6. InControl(f) /\ AwaitsExpression(f) /\ Names(f) = f.visible
  <2> HIDE DEF f
  <2> QED  BY <1>1, <1>5, Context, ActivationFields DEF InControl, KindsOf, StepsOf,
       AwaitsExpression, Names
<1>7. frames' \in Seq(Activations) /\ ControlDiscipline' /\ NameDiscipline'
  <2> HIDE DEF f, c
  <2>1. Names(f) <= Len(locals) /\ c \in ScopedStacks /\ initializer \in Types
    BY <1>1, <1>5, <1>6, <1>2, <1>3, Context, Sizes
  <2>2. frames' = Calling(f, Expression(initializer, c)) /\ locals' = locals
    BY <1>2 DEF f, BeginDeclarationStep, Goes, c
  <2> QED  BY <1>1, <1>5, <1>6, <2>1, <2>2, ExpressionCall
<1> QED  BY <1>1, <1>2, <1>7, <1>3, Context, BoundsAssumption DEF BeginDeclarationStep, Goes,
     NewNode, Sound, TypeOK, ScopedStacks, Locals

(* An expression statement.                                                *)
LEMMA BeginDiscardSound ==
  ASSUME Sound, BeginDiscardStep PROVE Sound'
<1>1. Running /\ Top.step = "enter" /\ Top.routine \in {"statement", "loop_body"} /\ Top.kind # "function"
  BY Context DEF BeginDiscardStep, Goes, Entering, InControl, KindsOf
<1>2. PICK t \in Types :
        frames' = Calling([Top EXCEPT !.kind = "discard", !.step = "value", !.left = t],
                          Expression(t, stack))
  BY DEF BeginDiscardStep, Goes
<1> DEFINE f == [Top EXCEPT !.kind = "discard", !.step = "value", !.left = t]
<1>5. /\ f \in Activations /\ f.routine = Top.routine /\ f.visible = Top.visible
      /\ f.kind = "discard" /\ f.step = "value"
  BY <1>1, <1>2, Context, Sizes DEF Activations, Kinds, Steps
<1>6. InControl(f) /\ AwaitsExpression(f) /\ Names(f) = f.visible
  <2> HIDE DEF f
  <2> QED  BY <1>1, <1>5, Context, ActivationFields DEF InControl, KindsOf, StepsOf,
       AwaitsExpression, Names
<1>7. frames' \in Seq(Activations) /\ ControlDiscipline' /\ NameDiscipline'
  <2> HIDE DEF f
  <2>1. Names(f) <= Len(locals) /\ stack \in ScopedStacks /\ t \in Types
    BY <1>1, <1>5, <1>6, <1>2, Context, Sizes
  <2>2. frames' = Calling(f, Expression(t, stack)) /\ locals' = locals
    BY <1>2 DEF f, BeginDiscardStep, Goes
  <2> QED  BY <1>1, <1>5, <1>6, <2>1, <2>2, ExpressionCall
<1> QED  BY <1>1, <1>7, Context, BoundsAssumption DEF BeginDiscardStep, Goes, NewNode, Sound,
     TypeOK, ScopedStacks, Locals

(* The condition of an if.                                                 *)
LEMMA BeginIfSound ==
  ASSUME Sound, BeginIfStep PROVE Sound'
<1>1. Running /\ Top.step = "enter" /\ Top.routine \in {"statement", "loop_body"} /\ Top.kind # "function"
  BY Context DEF BeginIfStep, Goes, Entering, InControl, KindsOf
<1> DEFINE f == [Top EXCEPT !.kind = "if", !.step = "condition"]
<1>5. /\ f \in Activations /\ f.routine = Top.routine /\ f.visible = Top.visible
      /\ f.kind = "if" /\ f.step = "condition"
  BY <1>1, Context, Sizes DEF Activations, Kinds, Steps
<1>6. InControl(f) /\ AwaitsExpression(f) /\ Names(f) = f.visible
  <2> HIDE DEF f
  <2> QED  BY <1>1, <1>5, Context, ActivationFields DEF InControl, KindsOf, StepsOf,
       AwaitsExpression, Names
<1>7. frames' \in Seq(Activations) /\ ControlDiscipline' /\ NameDiscipline'
  <2> HIDE DEF f
  <2>1. Names(f) <= Len(locals) /\ stack \in ScopedStacks /\ Bool \in Types
    BY <1>1, <1>5, <1>6, Context, Sizes
  <2>2. frames' = Calling(f, Expression(Bool, stack)) /\ locals' = locals
    BY DEF f, BeginIfStep, Goes
  <2> QED  BY <1>1, <1>5, <1>6, <2>1, <2>2, ExpressionCall
<1> QED  BY <1>1, <1>7, Context, BoundsAssumption DEF BeginIfStep, Goes, NewNode, Sound, TypeOK,
     ScopedStacks, Locals

(* The condition of a loop.                                                *)
LEMMA ForConditionSound ==
  ASSUME Sound, ForConditionStep PROVE Sound'
<1>1. Running /\ Top.kind = "for" /\ Top.step = "declaration"
  BY DEF ForConditionStep, Goes, At
<1>2. Label \in Nat
  BY <1>1, Context DEF Label
<1> DEFINE f == [Top EXCEPT !.step = "condition", !.start = Label]
<1>5. /\ f \in Activations /\ f.routine = Top.routine /\ f.visible = Top.visible
      /\ f.kind = "for" /\ f.step = "condition"
  BY <1>1, <1>2, Context, Sizes DEF Activations, Kinds, Steps
<1>6. InControl(f) /\ AwaitsExpression(f) /\ Names(f) = f.visible + 1
  <2> HIDE DEF f
  <2> QED  BY <1>1, <1>5, Context, ActivationFields DEF InControl, KindsOf, StepsOf,
       AwaitsExpression, Names
<1>7. frames' \in Seq(Activations) /\ ControlDiscipline' /\ NameDiscipline'
  <2> HIDE DEF f
  <2>1. Names(f) <= Len(locals) /\ stack \in ScopedStacks /\ Bool \in Types
    BY <1>1, <1>5, <1>6, Context, Sizes DEF Sound, NameDiscipline, At
  <2>2. frames' = Calling(f, Expression(Bool, stack)) /\ locals' = locals
    BY DEF f, ForConditionStep, Goes
  <2> QED  BY <1>1, <1>5, <1>6, <2>1, <2>2, ExpressionCall
<1> QED  BY <1>1, <1>7, Context, BoundsAssumption DEF ForConditionStep, Goes, NewNode, Sound,
     TypeOK, ScopedStacks, Locals

(* The value of a return.                                                  *)
LEMMA BeginReturnSound ==
  ASSUME Sound, BeginReturnStep PROVE Sound'
<1>1. Running /\ Top.step = "enter" /\ Top.routine \in {"statement", "loop_body"} /\ Top.kind # "function"
  BY Context DEF BeginReturnStep, Goes, Entering, InControl, KindsOf
<1>2. PICK t \in Types :
        frames' = Calling([Top EXCEPT !.kind = "return", !.step = "value", !.left = t],
                          Expression(t, stack))
  <2>1. ReturnTypes \subseteq Types
    BY <1>1, Context, Sizes, SignaturesAssumption DEF ReturnTypes
  <2> QED  BY <2>1 DEF BeginReturnStep, Goes
<1> DEFINE f == [Top EXCEPT !.kind = "return", !.step = "value", !.left = t]
<1>5. /\ f \in Activations /\ f.routine = Top.routine /\ f.visible = Top.visible
      /\ f.kind = "return" /\ f.step = "value"
  BY <1>1, <1>2, Context, Sizes DEF Activations, Kinds, Steps
<1>6. InControl(f) /\ AwaitsExpression(f) /\ Names(f) = f.visible
  <2> HIDE DEF f
  <2> QED  BY <1>1, <1>5, Context, ActivationFields DEF InControl, KindsOf, StepsOf,
       AwaitsExpression, Names
<1>7. frames' \in Seq(Activations) /\ ControlDiscipline' /\ NameDiscipline'
  <2> HIDE DEF f
  <2>1. Names(f) <= Len(locals) /\ stack \in ScopedStacks /\ t \in Types
    BY <1>1, <1>5, <1>6, <1>2, Context, Sizes
  <2>2. frames' = Calling(f, Expression(t, stack)) /\ locals' = locals
    BY <1>2 DEF f, BeginReturnStep, Goes
  <2> QED  BY <1>1, <1>5, <1>6, <2>1, <2>2, ExpressionCall
<1> QED  BY <1>1, <1>7, Context, BoundsAssumption DEF BeginReturnStep, Goes, NewNode, Sound,
     TypeOK, ScopedStacks, Locals

(* The handlers that do more than call or return.                          *)
LEMMA EndCastSound ==
  ASSUME Sound, EndCastStep PROVE Sound'
<1> DEFINE c == CommitStack(PushStack(PopStack(stack, Slot[Top.left]), Slot[Top.type]))
<1>1. Running /\ Top.kind = "cast" /\ Top.step = "value"
  BY DEF EndCastStep, Yields, Pushed, Returns, At
<1>2. c \in ScopedStacks /\ c.allocated \in Int /\ stack \in ScopedStacks /\ stack.allocated \in Int
  <2>1. stack \in ScopedStacks /\ Slot[Top.type] \in Int /\ Slot[Top.left] \in Int
    BY <1>1, Context, Sizes, ActivationFields
  <2> QED  BY <2>1, CompositeTypes, StackHeights, ScopedStackTypes
<1>3. stack' \in ScopedStacks /\ text' \in Seq(Instructions) /\ result' \in Int
  <2>1. text \in Seq(Instructions)
    BY <1>1, Context
  <2>2. stack' = c \/ stack' = stack
    BY DEF EndCastStep, Yields, Returns, Pushed
  <2>3. text' \in Seq(Instructions)
    BY <2>1 DEF EndCastStep, Emits, EmitsAfter
  <2>4. result' = stack'.allocated
    BY DEF EndCastStep, Yields, Returns
  <2> HIDE DEF c
  <2> QED  BY <1>2, <2>2, <2>3, <2>4
<1>4. frames' \in Seq(Activations) /\ ControlDiscipline' /\ NameDiscipline'
  <2>1. Top.routine # "loop_declaration"
    BY <1>1, Context DEF InControl, KindsOf
  <2> QED  BY <1>1, <2>1, Context, ReturnMove DEF EndCastStep, Yields, Pushed, Returns
<1> QED  BY <1>1, <1>3, <1>4, Context DEF EndCastStep, Yields, Pushed, Returns, Sound, TypeOK,
     ScopedStacks, Locals

(* A declaration without initializer.                                      *)
LEMMA DeclareOnlySound ==
  ASSUME Sound, DeclareOnlyStep PROVE Sound'
<1>1. Running /\ Top.step = "enter"
  BY DEF DeclareOnlyStep, Returns, Entering
<1>2. PICK t \in ValueTypes : /\ stack' = AllocateStack(stack, Slot[t])
                              /\ locals' = Declared(t, AllocateStack(stack, Slot[t]))
  BY DEF DeclareOnlyStep, Returns
<1> DEFINE c == AllocateStack(stack, Slot[t])
<1>3. c \in ScopedStacks /\ c.allocated \in Int /\ stack \in ScopedStacks
  <2>1. stack \in ScopedStacks /\ Slot[t] \in Int
    BY <1>1, Context, Sizes
  <2> QED  BY <2>1, ScopedStackTypes, StackHeights
<1>4. locals' \in Seq(Locals) /\ Len(locals') = Len(locals) + 1
  <2>1. [type |-> t, offset |-> c.allocated] \in Locals
    BY <1>3, Sizes DEF Locals
  <2>2. locals \in Seq(Locals)
    BY <1>1, Context
  <2>3. locals' = Append(locals, [type |-> t, offset |-> c.allocated])
    BY <1>2 DEF Declared
  <2> HIDE DEF Locals
  <2> QED  BY <2>1, <2>2, <2>3
<1>5. frames' \in Seq(Activations) /\ ControlDiscipline' /\ NameDiscipline'
  <2>1. Len(locals') > Top.visible /\ Len(locals') >= Top.visible
    <3>1. Top.visible \in Nat /\ Top.visible <= Len(locals) /\ Len(locals) \in Nat
      BY <1>1, Context
    <3> QED  BY <1>4, <3>1
  <2>2. frames' = Returning
    BY DEF DeclareOnlyStep, Returns
  <2> QED  BY <1>1, <1>4, <2>1, <2>2, ReturnMove
<1> QED  BY <1>1, <1>2, <1>3, <1>4, <1>5, Context DEF DeclareOnlyStep, Returns, Sound, TypeOK,
     ScopedStacks, Locals

(* The declared variable initialized.                                      *)
LEMMA EndDeclarationSound ==
  ASSUME Sound, EndDeclarationStep PROVE Sound'
<1> DEFINE c == CommitStack(PopStack(stack, Slot[Top.left]))
           variable == [type |-> Top.type, offset |-> Top.slot]
<1>1. Running /\ Top.kind = "declaration" /\ Top.step = "initializer"
  BY DEF EndDeclarationStep, Returns, Popped, At
<1>2. c \in ScopedStacks /\ c.allocated \in Int /\ stack \in ScopedStacks
  <2>1. stack \in ScopedStacks /\ Slot[Top.left] \in Int
    BY <1>1, Context, Sizes, ActivationFields
  <2> QED  BY <2>1, CompositeTypes, StackHeights
<1>3. text' \in Seq(Instructions)
  BY DEF EndDeclarationStep, Returns, Popped, Emits, EmitsBranch, EmitsAfter
<1>4. locals' \in Seq(Locals) /\ Len(locals') = Len(locals) + 1
  <2>1. variable \in Locals
    BY <1>1, Context, ActivationFields DEF Locals
  <2>2. locals \in Seq(Locals) /\ locals' = Append(locals, variable)
    BY <1>1, Context DEF EndDeclarationStep, Returns, Popped
  <2> HIDE DEF Locals, variable
  <2> QED  BY <2>1, <2>2
<1>5. frames' \in Seq(Activations) /\ ControlDiscipline' /\ NameDiscipline'
  <2>1. Len(locals') > Top.visible /\ Len(locals') >= Top.visible
    <3>1. Top.visible \in Nat /\ Top.visible <= Len(locals) /\ Len(locals) \in Nat
      BY <1>1, Context
    <3> QED  BY <1>4, <3>1
  <2>2. frames' = Returning
    BY DEF EndDeclarationStep, Returns, Popped
  <2> QED  BY <1>1, <1>4, <2>1, <2>2, ReturnMove
<1> QED  BY <1>1, <1>2, <1>3, <1>4, <1>5, Context DEF EndDeclarationStep, Returns, Popped,
     Sound, TypeOK, ScopedStacks, Locals

(* The end of an if.                                                       *)
LEMMA EndIfSound ==
  ASSUME Sound, EndIfStep PROVE Sound'
<1> DEFINE c == CommitStack(PopScope(stack))
<1>1. Running /\ Top.kind = "if" /\ Top.step = "then" /\ CanPopScope(stack)
  BY DEF EndIfStep, Returns, Outer, At
<1>2. c \in ScopedStacks /\ stack \in ScopedStacks
  <2>1. stack \in ScopedStacks
    BY <1>1, Context
  <2> QED  BY <1>1, <2>1, CompositeTypes
<1>3. text' \in Seq(Instructions)
  BY DEF EndIfStep, Returns, Outer, Emits, EmitsBranch, EmitsAfter
<1>4. locals' \in Seq(Locals) /\ frames' \in Seq(Activations) /\ ControlDiscipline' /\ NameDiscipline'
  <2>1. Top.routine # "loop_declaration"
    BY <1>1, Context DEF InControl, KindsOf
  <2>2. locals' = SubSeq(locals, 1, Top.visible) /\ frames' = Returning
    BY DEF EndIfStep, Returns, Outer
  <2> QED  BY <1>1, <2>1, <2>2, EndNames
<1> QED  BY <1>1, <1>2, <1>3, <1>4, Context DEF EndIfStep, Returns, Outer, Sound, TypeOK,
     ScopedStacks, Locals

(* The end of a loop.                                                      *)
LEMMA EndForSound ==
  ASSUME Sound, EndForStep PROVE Sound'
<1> DEFINE stepped == CommitStack(PopStack(stack, Slot[Top.left]))
           c == CommitStack(PopScope(stepped))
<1>1. Running /\ Top.kind = "for" /\ Top.step = "step" /\ CanPopScope(stepped)
  BY DEF EndForStep, Returns, Popped, Outer, At
<1>2. stepped \in ScopedStacks /\ stack \in ScopedStacks
  <2>1. stack \in ScopedStacks /\ Slot[Top.left] \in Int
    BY <1>1, Context, Sizes, ActivationFields
  <2> QED  BY <2>1, CompositeTypes
<1>3. c \in ScopedStacks
  <2> HIDE DEF stepped
  <2> QED  BY <1>1, <1>2, CompositeTypes
<1>6. text' \in Seq(Instructions)
  BY DEF EndForStep, Returns, Popped, Outer, Emits, EmitsBranch, EmitsAfter
<1>7. locals' \in Seq(Locals) /\ frames' \in Seq(Activations) /\ ControlDiscipline' /\ NameDiscipline'
  <2>1. Top.routine # "loop_declaration"
    BY <1>1, Context DEF InControl, KindsOf
  <2>2. locals' = SubSeq(locals, 1, Top.visible) /\ frames' = Returning
    BY DEF EndForStep, Returns, Popped, Outer
  <2> QED  BY <1>1, <2>1, <2>2, EndNames
<1>8. stack' = c
  BY DEF EndForStep, Returns, Popped, Outer
<1> HIDE DEF c, stepped
<1> QED  BY <1>1, <1>3, <1>6, <1>7, <1>8, Context DEF EndForStep, Returns, Popped, Outer, Sound,
     TypeOK, ScopedStacks, Locals

(* The end of a block.                                                     *)
LEMMA EndBlockSound ==
  ASSUME Sound, EndBlockStep PROVE Sound'
<1> DEFINE c == CommitStack(PopScope(stack))
<1>1. Running /\ Top.kind = "block" /\ Top.step = "statements" /\ CanPopScope(stack)
  BY DEF EndBlockStep, Returns, Outer, At
<1>2. c \in ScopedStacks /\ stack \in ScopedStacks
  <2>1. stack \in ScopedStacks
    BY <1>1, Context
  <2> QED  BY <1>1, <2>1, CompositeTypes
<1>3. text' \in Seq(Instructions)
  BY DEF EndBlockStep, Returns, Outer, Emits, EmitsBranch, EmitsAfter
<1>4. locals' \in Seq(Locals) /\ frames' \in Seq(Activations) /\ ControlDiscipline' /\ NameDiscipline'
  <2>1. Top.routine # "loop_declaration"
    BY <1>1, Context DEF InControl, KindsOf
  <2>2. locals' = SubSeq(locals, 1, Top.visible) /\ frames' = Returning
    BY DEF EndBlockStep, Returns, Outer
  <2> QED  BY <1>1, <2>1, <2>2, EndNames
<1> QED  BY <1>1, <1>2, <1>3, <1>4, Context DEF EndBlockStep, Returns, Outer, Sound, TypeOK,
     ScopedStacks, Locals

(* The return itself.                                                      *)
LEMMA EndReturnSound ==
  ASSUME Sound, EndReturnStep PROVE Sound'
<1> DEFINE c == CommitStack(PopStack(stack, Slot[Top.left]))
<1>1. Running /\ Top.kind = "return" /\ Top.step = "value"
  BY DEF EndReturnStep, Returns, Popped, At
<1>2. c \in ScopedStacks /\ stack \in ScopedStacks /\ FreshStack \in ScopedStacks
  <2>1. stack \in ScopedStacks /\ Slot[Top.left] \in Int
    BY <1>1, Context, Sizes, ActivationFields
  <2>2. FreshStack \in ScopedStacks
    BY DEF FreshStack, ScopedStacks, Stacks
  <2> QED  BY <2>1, <2>2, CompositeTypes
<1>3. text' \in Seq(Instructions)
  BY DEF EndReturnStep, Returns, Popped, Emits, EmitsBranch, EmitsAfter
<1>4. frames' \in Seq(Activations) /\ ControlDiscipline' /\ NameDiscipline'
  <2>1. Top.routine # "loop_declaration"
    BY <1>1, Context DEF InControl, KindsOf
  <2> QED  BY <1>1, <2>1, Context, ReturnMove DEF EndReturnStep, Returns, Popped
<1>5. stack' = c
  BY DEF EndReturnStep, Returns, Popped
<1> HIDE DEF c
<1> QED  BY <1>1, <1>2, <1>3, <1>4, <1>5, Context DEF EndReturnStep, Returns, Popped, Sound,
     TypeOK, ScopedStacks, Locals

(* The end of the function.                                                *)
LEMMA EndFunctionSound ==
  ASSUME Sound, EndFunctionStep PROVE Sound'
<1>1. Running /\ Top.kind = "function" /\ Top.step = "statements" /\ CanPopScope(stack)
  BY DEF EndFunctionStep, Returns, At
<1>2. /\ PopScope(stack) \in ScopedStacks /\ CommitStack(PopScope(stack)) \in ScopedStacks
      /\ stack \in ScopedStacks /\ text \in Seq(Instructions)
  <2>1. stack \in ScopedStacks /\ text \in Seq(Instructions)
    BY <1>1, Context
  <2> QED  BY <1>1, <2>1, CompositeTypes, ScopedStackTypes
<1>3. stack' \in ScopedStacks /\ text' \in Seq(Instructions)
  <2>1. stack' = CommitStack(PopScope(stack)) \/ stack' = PopScope(stack)
    BY DEF EndFunctionStep, Returns
  <2>2. text' \in Seq(Instructions)
    BY <1>2 DEF EndFunctionStep, Emits, EmitsAfter
  <2> QED  BY <1>2, <2>1, <2>2
<1>5. locals' \in Seq(Locals) /\ frames' = Returning
  <2>1. PICK n \in 0 .. Top.visible : locals' = SubSeq(locals, 1, n) /\ frames' = Returning
    BY DEF EndFunctionStep, Returns
  <2>2. locals \in Seq(Locals) /\ n \in 0 .. Len(locals)
    BY <1>1, <2>1, Context
  <2> HIDE DEF Locals
  <2> QED  BY <2>1, <2>2, Prefix
<1>4. frames' \in Seq(Activations) /\ ControlDiscipline' /\ NameDiscipline'
  <2>1. Top.routine # "loop_declaration"
    BY <1>1, Context DEF InControl, KindsOf
  <2>2. ~(Len(frames) > 1)
    <3>1. frames \in Seq(Activations)
      BY DEF Sound, TypeOK
    <3>2. Len(frames) \in 1 .. Len(frames) /\ Top = frames[Len(frames)]
      BY <1>1, <3>1, FrameTypes
    <3> QED  BY <1>1, <3>2 DEF Sound, ControlDiscipline
  <2> QED  BY <1>1, <1>5, <2>1, <2>2, ReturnMove
<1> QED  BY <1>1, <1>3, <1>4, <1>5, Context DEF EndFunctionStep, Returns, Sound, TypeOK,
     ScopedStacks, Locals

(* The slot of a result.                                                   *)
LEMMA BeginCallSound ==
  ASSUME Sound, BeginCallStep PROVE Sound'
<1> DEFINE c == PushStack(stack, Slot[Top.type])
<1>1. Running /\ Top.step = "enter" /\ Top.routine = "expression" /\ Top.kind # "function"
  BY Context DEF BeginCallStep, Goes, Entering, InControl, KindsOf
<1>2. PICK callee \in Signatures :
        /\ stack' = c
        /\ frames' = Becoming([Top EXCEPT !.kind = "call", !.step = "arguments",
                                          !.slot = c.allocated, !.callee = callee])
  BY DEF BeginCallStep, Goes
<1>3. c \in ScopedStacks /\ c.allocated \in Int
  <2>1. stack \in ScopedStacks /\ Slot[Top.type] \in Int
    BY <1>1, Context, Sizes, ActivationFields
  <2> QED  BY <2>1, ScopedStackTypes
<1> DEFINE f == [Top EXCEPT !.kind = "call", !.step = "arguments",
                            !.slot = c.allocated, !.callee = callee]
<1>4. /\ f \in Activations /\ f.routine = Top.routine /\ f.visible = Top.visible
      /\ f.kind = "call" /\ f.step = "arguments"
  <2> HIDE DEF c
  <2> QED  BY <1>1, <1>2, <1>3, Context DEF Activations, Kinds, Steps
<1>5. InControl(f)
  <2> HIDE DEF f
  <2> QED  BY <1>1, <1>4 DEF InControl, KindsOf, StepsOf
<1>6. frames' \in Seq(Activations) /\ ControlDiscipline' /\ NameDiscipline'
  <2>1. frames' = Becoming(f) /\ locals' = locals
    BY <1>2 DEF BeginCallStep, Goes
  <2> HIDE DEF f
  <2> QED  BY <1>1, <1>4, <1>5, <2>1, UpdateMove
<1> QED  BY <1>1, <1>2, <1>3, <1>6, Context, BoundsAssumption, SMTT(30)
         DEF BeginCallStep, Goes, NewNode, Sound, TypeOK, ScopedStacks, Locals

(* An argument done.                                                       *)
LEMMA EndArgumentSound ==
  ASSUME Sound, EndArgumentStep PROVE Sound'
<1>1. Running /\ Top.kind = "call" /\ Top.step = "argument"
  BY DEF EndArgumentStep, Goes, At
<1> DEFINE a == [offset |-> result, size |-> Slot[Top.left]]
           f == [Top EXCEPT !.step = "arguments", !.args = Append(Top.args, a),
                            !.argsize = Top.argsize + Slot[Top.left]]
<1>2. Append(Top.args, a) \in Seq([offset : Int, size : Nat]) /\ Top.argsize + Slot[Top.left] \in Nat
  <2>1. Top.args \in Seq([offset : Int, size : Nat])
    BY <1>1, Context DEF Activations
  <2>2. result \in Int /\ Slot[Top.left] \in Nat /\ Top.argsize \in Nat
    BY <1>1, Context, Sizes, ActivationFields
  <2>3. a \in [offset : Int, size : Nat]
    BY <2>2
  <2> HIDE DEF a
  <2> QED  BY <2>1, <2>2, <2>3
<1>3. /\ f \in Activations /\ f.routine = Top.routine /\ f.visible = Top.visible
      /\ f.kind = "call" /\ f.step = "arguments"
  <2>1. \A args \in Seq([offset : Int, size : Nat]), n \in Nat :
           [Top EXCEPT !.step = "arguments", !.args = args, !.argsize = n] \in Activations
    BY <1>1, Context DEF Activations, Steps
  <2>2. f \in Activations
    <3> HIDE DEF a
    <3> QED  BY <1>2, <2>1
  <2>3. /\ f.routine = Top.routine /\ f.visible = Top.visible
        /\ f.kind = "call" /\ f.step = "arguments"
    BY <1>1, Context DEF Activations
  <2> QED  BY <2>2, <2>3
<1>4. InControl(f) /\ f.kind \notin {"function", "for"} /\ Top.kind # "function"
  <2>1. InControl(Top)
    BY <1>1, Context
  <2> HIDE DEF f
  <2> QED  BY <1>1, <1>3, <2>1 DEF InControl, KindsOf, StepsOf
<1>5. frames' \in Seq(Activations) /\ ControlDiscipline' /\ NameDiscipline'
  <2>1. frames' = Becoming(f) /\ locals' = locals
    BY DEF EndArgumentStep, Goes
  <2> HIDE DEF f
  <2> QED  BY <1>1, <1>3, <1>4, <2>1, UpdateMove
<1> QED  BY <1>1, <1>5, Context DEF EndArgumentStep, Goes, Sound, TypeOK, ScopedStacks, Locals

(* The scope of a block.                                                   *)
LEMMA BeginBlockSound ==
  ASSUME Sound, BeginBlockStep PROVE Sound'
<1>1. /\ Running /\ Top.step = "enter" /\ Top.routine \in {"statement", "loop_body"}
      /\ Top.kind # "function"
  BY Context DEF BeginBlockStep, Goes, Entering, InControl, KindsOf
<1>2. stack' \in ScopedStacks
  BY <1>1, Context, ScopedStackTypes DEF BeginBlockStep, Goes
<1> DEFINE f == [Top EXCEPT !.kind = "block", !.step = "statements"]
<1>3. /\ f \in Activations /\ f.routine = Top.routine /\ f.visible = Top.visible
      /\ f.kind = "block" /\ f.step = "statements"
  BY <1>1, Context DEF Activations, Kinds, Steps
<1>4. InControl(f)
  <2> HIDE DEF f
  <2> QED  BY <1>1, <1>3 DEF InControl, KindsOf, StepsOf
<1>5. frames' \in Seq(Activations) /\ ControlDiscipline' /\ NameDiscipline'
  <2>1. frames' = Becoming(f) /\ locals' = locals
    BY DEF BeginBlockStep, Goes
  <2> HIDE DEF f
  <2> QED  BY <1>1, <1>3, <1>4, <2>1, UpdateMove
<1> QED  BY <1>1, <1>2, <1>5, Context DEF BeginBlockStep, Goes, Sound, TypeOK, ScopedStacks,
     Locals

(* The next statement.                                                     *)
LEMMA NextStatementSound ==
  ASSUME Sound, NextStatementStep PROVE Sound'
<1>1. Running /\ Top.kind \in {"block", "function"} /\ Top.step = "statements"
  BY DEF NextStatementStep, Goes, At
<1>2. Top \in Activations /\ InControl(Top) /\ Names(Top) <= Len(locals) /\ stack \in ScopedStacks
  BY <1>1, Context
<1>3. Called(Top) = "statement" /\ "statement" \in Routines
  BY <1>1 DEF Called, AwaitsExpression, Routines
<1>4. frames' \in Seq(Activations) /\ ControlDiscipline' /\ NameDiscipline'
  <2>1. /\ frames' = Calling(Top, Activation("statement", Void, stack, Len(locals)))
        /\ locals' = locals
    BY DEF NextStatementStep, Goes, Statement
  <2>2. Top.step \notin {"enter", "arguments"}
    BY <1>1
  <2> QED  BY <1>1, <1>2, <1>3, <2>1, <2>2, StatementCall
<1> QED  BY <1>1, <1>4, Context, BoundsAssumption
         DEF NextStatementStep, Goes, NewNode, Sound, TypeOK, ScopedStacks, Locals

(* The scope of a loop, and its declaration.                               *)
LEMMA BeginForSound ==
  ASSUME Sound, BeginForStep PROVE Sound'
<1>1. /\ Running /\ Top.step = "enter" /\ Top.routine \in {"statement", "loop_body"}
      /\ Top.kind # "function"
  BY Context DEF BeginForStep, Goes, Entering, InControl, KindsOf
<1>2. PushScope(stack) \in ScopedStacks
  BY <1>1, Context, ScopedStackTypes
<1> DEFINE f == [Top EXCEPT !.kind = "for", !.step = "declaration"]
<1>3. /\ f \in Activations /\ f.routine = Top.routine /\ f.visible = Top.visible
      /\ f.kind = "for" /\ f.step = "declaration"
  BY <1>1, Context DEF Activations, Kinds, Steps
<1>4. /\ InControl(f) /\ Called(f) = "loop_declaration" /\ "loop_declaration" \in Routines
      /\ Names(f) <= Len(locals) /\ f.step \notin {"enter", "arguments"}
  <2>1. Top.visible \in Nat /\ Top.visible <= Len(locals) /\ Len(locals) \in Nat
    BY <1>1, Context
  <2> HIDE DEF f
  <2> QED  BY <1>1, <1>3, <2>1 DEF InControl, KindsOf, StepsOf, Called, AwaitsExpression, Names,
       Routines
<1>5. frames' \in Seq(Activations) /\ ControlDiscipline' /\ NameDiscipline'
  <2>1. /\ frames' = Calling(f, Activation("loop_declaration", Void, PushScope(stack), Len(locals)))
        /\ locals' = locals
    BY DEF BeginForStep, Goes, LoopDeclaration
  <2> HIDE DEF f
  <2> QED  BY <1>1, <1>2, <1>3, <1>4, <2>1, StatementCall
<1> QED  BY <1>1, <1>2, <1>5, Context, BoundsAssumption
         DEF BeginForStep, Goes, NewNode, Sound, TypeOK, ScopedStacks, Locals

(* The conditional jump and the body of an if.                             *)
LEMMA IfThenSound ==
  ASSUME Sound, IfThenStep PROVE Sound'
<1> DEFINE c == CommitStack(PopStack(stack, Slot[Bool]))
<1>1. Running /\ Top.kind = "if" /\ Top.step = "condition"
  BY DEF IfThenStep, Goes, Popped, At
<1>2. c \in ScopedStacks /\ PushScope(c) \in ScopedStacks /\ stack \in ScopedStacks
  <2>1. stack \in ScopedStacks /\ Slot[Bool] \in Int
    BY <1>1, Context, Sizes
  <2>2. c \in ScopedStacks
    BY <2>1, CompositeTypes
  <2> HIDE DEF c
  <2> QED  BY <2>1, <2>2, ScopedStackTypes
<1>3. text' \in Seq(Instructions) /\ Len(text') \in Nat
  <2>1. text' \in Seq(Instructions)
    BY DEF IfThenStep, EmitsBranch, Emits, EmitsAfter
  <2> HIDE DEF Instructions
  <2> QED  BY <2>1
<1> DEFINE f == [Top EXCEPT !.step = "then", !.patch = Len(text')]
<1>4. /\ f \in Activations /\ f.routine = Top.routine /\ f.visible = Top.visible
      /\ f.kind = "if" /\ f.step = "then"
  BY <1>1, <1>3, Context DEF Activations, Kinds, Steps
<1>5. /\ InControl(f) /\ Called(f) = "statement" /\ "statement" \in Routines
      /\ Names(f) <= Len(locals) /\ f.step \notin {"enter", "arguments"}
      /\ f.kind # "function" /\ Top.kind # "function"
  <2>1. /\ Top.visible \in Nat /\ Top.visible <= Len(locals) /\ Len(locals) \in Nat
        /\ InControl(Top) /\ Names(Top) <= Len(locals)
    BY <1>1, Context DEF Names
  <2> HIDE DEF f
  <2> QED  BY <1>1, <1>4, <2>1 DEF InControl, KindsOf, StepsOf, Called, AwaitsExpression, Names,
       Routines
<1>6. frames' \in Seq(Activations) /\ ControlDiscipline' /\ NameDiscipline'
  <2>1. /\ frames' = Calling(f, Activation("statement", Void, PushScope(c), Len(locals)))
        /\ locals' = locals
    BY DEF IfThenStep, Goes, Popped, Statement
  <2> HIDE DEF f, c
  <2> QED  BY <1>1, <1>2, <1>4, <1>5, <2>1, StatementCall
<1>7. stack' = PushScope(c)
  BY DEF IfThenStep, Goes, Popped
<1> HIDE DEF c
<1> QED  BY <1>1, <1>2, <1>3, <1>6, <1>7, Context DEF IfThenStep, Goes, Popped, Sound, TypeOK,
     ScopedStacks, Locals

(* The conditional jump and the body of a loop.                            *)
LEMMA ForBodySound ==
  ASSUME Sound, ForBodyStep PROVE Sound'
<1> DEFINE c == CommitStack(PopStack(stack, Slot[Bool]))
<1>1. Running /\ Top.kind = "for" /\ Top.step = "condition"
  BY DEF ForBodyStep, Goes, Popped, At
<1>2. c \in ScopedStacks /\ stack \in ScopedStacks
  <2>1. stack \in ScopedStacks /\ Slot[Bool] \in Int
    BY <1>1, Context, Sizes
  <2> QED  BY <2>1, CompositeTypes
<1>3. text' \in Seq(Instructions) /\ Len(text') \in Nat
  <2>1. text' \in Seq(Instructions)
    BY DEF ForBodyStep, EmitsBranch, Emits, EmitsAfter
  <2> HIDE DEF Instructions
  <2> QED  BY <2>1
<1> DEFINE f == [Top EXCEPT !.step = "body", !.patch = Len(text')]
<1>4. /\ f \in Activations /\ f.routine = Top.routine /\ f.visible = Top.visible
      /\ f.kind = "for" /\ f.step = "body"
  BY <1>1, <1>3, Context DEF Activations, Kinds, Steps
<1>5. /\ InControl(f) /\ Called(f) = "loop_body" /\ "loop_body" \in Routines
      /\ Names(f) <= Len(locals) /\ f.step \notin {"enter", "arguments"}
  <2>1. InControl(Top) /\ Names(Top) <= Len(locals) /\ Names(Top) = Top.visible + 1
    BY <1>1, Context DEF Names
  <2> HIDE DEF f
  <2> QED  BY <1>1, <1>4, <2>1 DEF InControl, KindsOf, StepsOf, Called, AwaitsExpression, Names,
       Routines
<1>6. frames' \in Seq(Activations) /\ ControlDiscipline' /\ NameDiscipline'
  <2>1. /\ frames' = Calling(f, Activation("loop_body", Void, c, Len(locals)))
        /\ locals' = locals
    BY DEF ForBodyStep, Goes, Popped, LoopBody
  <2> HIDE DEF f, c
  <2> QED  BY <1>1, <1>2, <1>4, <1>5, <2>1, StatementCall
<1>7. stack' = c
  BY DEF ForBodyStep, Goes, Popped
<1> HIDE DEF c
<1> QED  BY <1>1, <1>2, <1>3, <1>6, <1>7, Context DEF ForBodyStep, Goes, Popped, Sound, TypeOK,
     ScopedStacks, Locals

(* The step of a loop.                                                     *)
LEMMA ForStepSound ==
  ASSUME Sound, ForStepStep PROVE Sound'
<1>1. Running /\ Top.kind = "for" /\ Top.step = "body"
  BY DEF ForStepStep, At
<1>2. PICK t \in Types :
        frames' = Calling([Top EXCEPT !.step = "step", !.left = t],
                          Activation("expression", t, stack, Top.visible + 1))
  BY DEF ForStepStep
<1> DEFINE f == [Top EXCEPT !.step = "step", !.left = t]
           g == Activation("expression", t, stack, Top.visible + 1)
<1>3. /\ f \in Activations /\ f.routine = Top.routine /\ f.visible = Top.visible
      /\ f.kind = "for" /\ f.step = "step"
  BY <1>1, <1>2, Context DEF Activations, Kinds, Steps
<1>4. /\ Top.visible \in Nat /\ Top.visible + 1 \in 0 .. Len(locals) /\ locals \in Seq(Locals)
      /\ InControl(Top) /\ stack \in ScopedStacks /\ signature \in Signatures
  <2>1. Names(Top) = Top.visible + 1
    BY <1>1 DEF Names
  <2> QED  BY <1>1, <2>1, Context
<1>5. locals' \in Seq(Locals) /\ Len(locals') = Top.visible + 1
  <2>1. locals' = SubSeq(locals, 1, Top.visible + 1)
    BY DEF ForStepStep
  <2> HIDE DEF Locals
  <2> QED  BY <1>4, <2>1, Prefix
<1>6. /\ g \in Activations /\ g.routine = "expression" /\ g.kind = "?" /\ g.step = "enter"
      /\ g.visible = Top.visible + 1
  <2>1. "expression" \in Routines /\ Top.visible + 1 \in Nat
    BY <1>4 DEF Routines
  <2> QED  BY <1>2, <1>4, <2>1, ActivationType
<1>7. /\ InControl(f) /\ Called(f) = "expression" /\ f.step \notin {"enter", "arguments"}
      /\ f.kind # "function" /\ Top.kind # "function" /\ Names(f) = Top.visible + 1
  <2> HIDE DEF f
  <2> QED  BY <1>1, <1>3, <1>4 DEF InControl, KindsOf, StepsOf, Called, AwaitsExpression, Names
<1>8. frames' \in Seq(Activations) /\ ControlDiscipline' /\ NameDiscipline'
  <2>1. Names(f) <= g.visible /\ g.visible <= Len(locals')
    <3> HIDE DEF f, g
    <3> QED  BY <1>4, <1>5, <1>6, <1>7
  <2>2. frames' = Calling(f, g)
    BY <1>2
  <2> HIDE DEF f, g
  <2> QED  BY <1>1, <1>3, <1>5, <1>6, <1>7, <2>1, <2>2, CallMove
<1> QED  BY <1>1, <1>5, <1>8, Context DEF ForStepStep, Sound, TypeOK, ScopedStacks, Locals

(* The state x64_emit_function starts with.                                *)
LEMMA InitSound ==
  ASSUME EmitterInit PROVE Sound
<1> DEFINE n == Len(signature.params)
           f == [Activation("function", Void, FreshStack, Len(locals))
                   EXCEPT !.kind = "function", !.step = "statements"]
<1>1. /\ signature \in Signatures /\ signature.params \in Seq(ValueTypes) /\ n \in Nat
      /\ \A i \in 1 .. n : signature.params[i] \in Types
  BY SignaturesAssumption, Sizes DEF EmitterInit
<1>2. FreshStack \in ScopedStacks /\ stack \in ScopedStacks
  <2>1. FreshStack \in ScopedStacks
    BY DEF FreshStack, ScopedStacks, Stacks
  <2>2. stack = PushScope(FreshStack)
    BY Zenon DEF EmitterInit
  <2> QED  BY <2>1, <2>2, 0 \in Int, ScopedStackTypes
<1>3. locals \in Seq(Locals) /\ Len(locals) = n
  <2>1. ASSUME NEW i \in 1 .. n PROVE ParameterAt(Slot, Gap, signature, i) \in Int
    <3>1. n - i \in 0 .. n
      BY <1>1
    <3>2. BytesOfLast(Slot, n - i, signature.params) \in Nat /\ Gap \in Nat
      BY <1>1, <3>1, BytesOfLastType, SlotAssumption
    <3> QED  BY <3>2 DEF ParameterAt
  <2> DEFINE local(i) == [type |-> signature.params[i], offset |-> ParameterAt(Slot, Gap, signature, i)]
  <2>2. \A i \in 1 .. n : local(i) \in Locals
    BY <1>1, <2>1 DEF Locals
  <2>3. locals = [i \in 1 .. n |-> local(i)]
    BY DEF EmitterInit
  <2> HIDE DEF local, Locals
  <2> QED  BY <1>1, <2>2, <2>3
<1>4. /\ f \in Activations /\ f.routine = "function" /\ f.kind = "function"
      /\ f.step = "statements" /\ f.visible = Len(locals)
  <2> DEFINE g == Activation("function", Void, FreshStack, Len(locals))
  <2>1. g \in Activations /\ g.routine = "function" /\ g.visible = Len(locals)
    <3>1. "function" \in Routines /\ Void \in Types /\ Len(locals) \in Nat
      BY <1>1, <1>3, Sizes DEF Routines
    <3> QED  BY <1>1, <1>2, <3>1, ActivationType
  <2>2. f = [g EXCEPT !.kind = "function", !.step = "statements"]
    OBVIOUS
  <2> HIDE DEF g, f
  <2> QED  BY <2>1, <2>2 DEF Activations, Kinds, Steps
<1>5. frames = <<f>> /\ result = 0 /\ text \in Seq(Instructions) /\ nodes = 0
  BY Zenon DEF EmitterInit
<1> HIDE DEF f
<1>6. frames \in Seq(Activations) /\ Len(frames) = 1 /\ frames[1] = f /\ Top = f
  BY <1>4, <1>5 DEF Top
<1>7. TypeOK
  <2> HIDE DEF Locals
  <2>1. locals \in Seq([type : Types, offset : Int])
    BY <1>3 DEF Locals
  <2> QED  BY <1>1, <1>2, <1>5, <1>6, <2>1, BoundsAssumption DEF TypeOK, ScopedStacks
<1>8. ControlDiscipline
  BY <1>4, <1>6 DEF ControlDiscipline, InControl, KindsOf, StepsOf
<1>9. NameDiscipline
  BY <1>1, <1>3, <1>4, <1>6 DEF NameDiscipline, Names, At
<1> QED  BY <1>7, <1>8, <1>9 DEF Sound

(* A step that changes nothing.                                            *)
LEMMA StutterSound ==
  ASSUME Sound, UNCHANGED emission PROVE Sound'
BY DEF emission, Sound, TypeOK, ControlDiscipline, NameDiscipline, At, Running, Top

(* Every step of the emitters preserves the types, the chain of calls and  *)
(* the names that activations count on.                                    *)
LEMMA NextSound ==
  ASSUME Sound, [EmitterNext]_emission PROVE Sound'
<1>1. CASE ExpressionStep
  BY <1>1, PushSound, BeginBinarySound, BinaryRightSound,
     EndBinarySound, BeginCallSound, BeginArgumentSound, EndArgumentSound, EndCallSound,
     BeginAssignSound, EndAssignSound, BeginMemberSound, EndMemberSound, BeginCastSound,
     EndCastSound, Zenon DEF ExpressionStep
<1>2. CASE StatementStep
  BY <1>2, DeclareOnlySound, BeginDeclarationSound, EndDeclarationSound, BeginDiscardSound,
     EndDiscardSound, BeginIfSound, IfThenSound, EndIfSound, BeginForSound, ForConditionSound,
     ForBodySound, ForStepSound, EndForSound, BeginReturnSound, EndReturnSound,
     BeginBlockSound, NextStatementSound, EndBlockSound, EndFunctionSound, Zenon 
     DEF StatementStep
<1>3. CASE UNCHANGED emission
  BY <1>3, StutterSound
<1> QED  BY <1>1, <1>2, <1>3 DEF EmitterNext

-----------------------------------------------------------------------------
(* The accounting of the stack, in every program without the constructs    *)
(* that StraightFeatures excludes.                                         *)

(* The inductive invariant.                                                *)
Accounting == Sound /\ StackDiscipline /\ JumpsAgree

-----------------------------------------------------------------------------
(* The text.  An action appends instructions of which the first starts at  *)
(* the stack committed before, and may set the target of an earlier jump.  *)

Kept ==
  /\ Len(text) <= Len(text')
  /\ \A i \in 1 .. Len(text) : text'[i].op = text[i].op /\ text'[i].depth = text[i].depth
  /\ IF Len(text') = Len(text) THEN stack'.committed = stack.committed
                               ELSE text'[Len(text) + 1].depth = stack.committed

(* A label keeps the depth it is compiled for.                             *)
LEMMA LabelKept ==
  ASSUME text \in Seq(Instructions), text' \in Seq(Instructions), Kept,
         NEW p \in Nat, NEW d \in Int, CompiledFor(p, d)
  PROVE  CompiledFor(p, d)'
<1>1. Len(text) \in Nat /\ Len(text') \in Nat
  OBVIOUS
<1>2. CASE p = Len(text) + 1
  BY <1>1, <1>2 DEF Kept, CompiledFor, Label
<1>3. CASE p \in 1 .. Len(text)
  BY <1>1, <1>3 DEF Kept, CompiledFor, Label
<1> QED  BY <1>1, <1>2, <1>3 DEF CompiledFor, Label

(* All jumps agree if the new and the redirected ones do.                  *)
LEMMA JumpsKept ==
  ASSUME text \in Seq(Instructions), text' \in Seq(Instructions), Kept, JumpsAgree,
         \A i \in 1 .. Len(text') :
           \/ text'[i].to = 0
           \/ i \in 1 .. Len(text) /\ text'[i].to = text[i].to
           \/ \E p \in Nat, d \in Int : text'[i].to = p /\ text'[i].depth = d /\ CompiledFor(p, d)'
  PROVE  JumpsAgree'
<1> SUFFICES ASSUME NEW i \in 1 .. Len(text'), text'[i].to # 0
             PROVE  \E p \in Nat, d \in Int :
                      text'[i].to = p /\ text'[i].depth = d /\ CompiledFor(p, d)'
  BY DEF JumpsAgree, CompiledFor, Label
<1>1. CASE i \in 1 .. Len(text) /\ text'[i].to = text[i].to
  <2>1. text[i] \in Instructions
    <3> HIDE DEF Instructions
    <3> QED  BY <1>1
  <2>2. PICK p \in Nat, d \in Int : text[i].to = p /\ text[i].depth = d
    BY <2>1 DEF Instructions
  <2>3. text'[i].to = p /\ text'[i].depth = d
    BY <1>1, <2>2 DEF Kept
  <2>4. CompiledFor(p, d)
    BY <1>1, <2>2, <2>3 DEF JumpsAgree
  <2>5. CompiledFor(p, d)'
    BY <2>2, <2>4, LabelKept
  <2> QED  BY <2>2, <2>3, <2>5
<1> QED  BY <1>1

(* An action that leaves the text and the committed stack alone.           *)
LEMMA NothingEmitted ==
  ASSUME text \in Seq(Instructions), JumpsAgree, text' = text, stack'.committed = stack.committed
  PROVE  Kept /\ JumpsAgree'
<1>1. Kept
  BY DEF Kept
<1> QED  BY <1>1, JumpsKept

(* An action that emits instructions that do not jump.                     *)
LEMMA StraightEmission ==
  ASSUME text \in Seq(Instructions), JumpsAgree, Emits
  PROVE  text' \in Seq(Instructions) /\ Kept /\ JumpsAgree'
<1>1. /\ text' \in Seq(Instructions) /\ Len(text) < Len(text')
      /\ \A i \in 1 .. Len(text) : text'[i] = text[i]
      /\ text'[Len(text) + 1].depth = stack.committed
      /\ \A i \in Len(text) + 1 .. Len(text') : text'[i].to = 0
  BY DEF Emits, EmitsAfter, New
<1>2. Len(text) \in Nat /\ Len(text') \in Nat
  <2> HIDE DEF Instructions
  <2> QED  BY <1>1
<1>3. Kept
  BY <1>1, <1>2 DEF Kept
<1>4. \A i \in 1 .. Len(text') : text'[i].to = 0 \/ (i \in 1 .. Len(text) /\ text'[i].to = text[i].to)
  BY <1>1, <1>2
<1> QED  BY <1>1, <1>3, <1>4, JumpsKept

-----------------------------------------------------------------------------
(* The activations after an action, as a rigid sequence.                   *)
LEMMA Assembled ==
  ASSUME NEW F \in Seq(Activations), frames' = F,
         \A i \in 1 .. Len(F) : FrameDiscipline(F[i])' /\ ValueDiscipline(F[i]),
         \A i \in 1 .. Len(F) - 1 : CallDiscipline(F[i], F[i + 1])',
         \A i, j \in 1 .. Len(F) :
           i < j => Inner(F[i]) <= F[j].scope /\ (IsExpression(F[j]) \/ Scoped(F[i])),
         F # <<>> => TopDiscipline(F[Len(F)])'
  PROVE  StackDiscipline'
<1>1. ASSUME NEW i \in 1 .. Len(F) PROVE FrameDiscipline(frames[i])'
  BY <1>1 DEF FrameDiscipline, Inner, Scoped, IsExpression, CompiledFor, Label, WaitingForPatch
<1>2. ASSUME NEW i \in 1 .. Len(F) PROVE ValueDiscipline(frames[i])'
  BY <1>2 DEF ValueDiscipline
<1>3. ASSUME NEW i \in 1 .. Len(F) - 1 PROVE CallDiscipline(frames[i], frames[i + 1])'
  BY <1>3 DEF CallDiscipline, CalleeAt, IsExpression, Inner, Scoped, Held, Awaited
<1>4. F # <<>> => TopDiscipline(Top)'
  BY DEF TopDiscipline, Top, Inner, Scoped, Held, AwaitsExpression, CalleeAt, Awaited,
       IsExpression, ResultOnTop, Innermost
<1> QED  BY <1>1, <1>2, <1>3, <1>4 DEF StackDiscipline, Running

-----------------------------------------------------------------------------
(* The activations below the innermost one.  What the discipline says of   *)
(* one depends on the scopes it found, and on its own once it has          *)
(* allocated there.                                                        *)
Depends(f) ==
  IF (f.kind = "for" /\ f.step # "declaration") \/ AwaitsExpression(f) THEN Inner(f) ELSE f.scope

Keeps(f) ==
  /\ Inner(f) <= Len(stack'.scopes)
  /\ \A k \in 1 .. Depends(f) : stack'.scopes[k] = stack.scopes[k]

Undisturbed ==
  /\ stack' \in ScopedStacks /\ text' \in Seq(Instructions)
  /\ Kept /\ JumpsAgree'
  /\ \A i \in 1 .. Len(frames) - 1 : Keeps(frames[i])

(* The numbers of scopes an activation speaks of.                          *)
LEMMA ScopeNumbers ==
  ASSUME NEW f \in Activations
  PROVE  /\ f.scope \in Nat /\ Inner(f) \in Nat /\ Depends(f) \in Nat
         /\ f.scope <= Depends(f) /\ Depends(f) <= Inner(f) /\ Inner(f) <= f.scope + 1
         /\ Inner(f) = IF Scoped(f) THEN f.scope + 1 ELSE f.scope
BY DEF Activations, Inner, Depends

(* The scopes of a stack.                                                  *)
LEMMA ScopesType ==
  ASSUME NEW s \in ScopedStacks
  PROVE  /\ s.scopes \in Seq(Int) /\ Len(s.scopes) \in Nat \ {0}
         /\ \A k \in 1 .. Len(s.scopes) : s.scopes[k] \in Int
BY DEF ScopedStacks, Stacks

(* A frame whose scopes are kept.                                          *)
LEMMA FrameKept ==
  ASSUME stack \in ScopedStacks, stack' \in ScopedStacks,
         text \in Seq(Instructions), text' \in Seq(Instructions), Kept,
         NEW f \in Activations, FrameDiscipline(f), Keeps(f)
  PROVE  FrameDiscipline(f)'
<1>1. /\ f.scope \in Nat /\ Inner(f) \in Nat /\ f.scope <= Depends(f) /\ Depends(f) \in Nat
      /\ f.start \in Nat /\ f.patch \in Nat
  BY ScopeNumbers, ActivationFields
<1>2. f.scope \in 1 .. Len(stack.scopes) /\ f.scope <= Inner(f)
  BY <1>1, ScopeNumbers DEF FrameDiscipline
<1>3. stack'.scopes[f.scope] = stack.scopes[f.scope] /\ f.scope \in 1 .. Len(stack'.scopes)
  <2>1. Len(stack.scopes) \in Nat /\ Len(stack'.scopes) \in Nat
    BY ScopesType
  <2> QED  BY <1>1, <1>2, <2>1 DEF Keeps
<1>4. Inner(f) <= Len(stack'.scopes)
  BY DEF Keeps
<1>5. CASE f.kind = "for" /\ f.step # "declaration"
  <2>1. Depends(f) = f.scope + 1 /\ Inner(f) = f.scope + 1
    BY <1>5 DEF Depends, Inner, Scoped
  <2>2. stack'.scopes[f.scope + 1] = stack.scopes[f.scope + 1]
    <3>1. f.scope + 1 \in 1 .. Depends(f)
      BY <1>1, <2>1
    <3> QED  BY <3>1 DEF Keeps
  <2>3. PICK d \in Int : d = stack.scopes[f.scope + 1]
    <3>1. f.scope + 1 \in 1 .. Len(stack.scopes)
      BY <1>1, <2>1, ScopesType DEF FrameDiscipline
    <3> QED  BY <3>1, ScopesType
  <2>4. CompiledFor(f.start, d)
    BY <1>5, <2>3 DEF FrameDiscipline
  <2>5. CompiledFor(f.start, d)'
    BY <1>1, <2>3, <2>4, LabelKept
  <2>6. CompiledFor(f.start, stack.scopes[f.scope + 1])'
    BY <2>2, <2>3, <2>5 DEF CompiledFor, Label
  <2>7. WaitingForPatch(f) => /\ f.patch \in 1 .. Len(text') /\ text'[f.patch].op = "je"
                             /\ text'[f.patch].depth = stack'.scopes[f.scope + 1]
    <3> SUFFICES ASSUME WaitingForPatch(f)
                 PROVE  /\ f.patch \in 1 .. Len(text') /\ text'[f.patch].op = "je"
                        /\ text'[f.patch].depth = stack'.scopes[f.scope + 1]
      OBVIOUS
    <3>1. /\ f.patch \in 1 .. Len(text) /\ text[f.patch].op = "je"
          /\ text[f.patch].depth = stack.scopes[f.scope + 1]
      BY <1>5 DEF FrameDiscipline
    <3>2. text'[f.patch].op = text[f.patch].op /\ text'[f.patch].depth = text[f.patch].depth
      BY <3>1 DEF Kept
    <3>3. f.patch \in 1 .. Len(text')
      <4>1. Len(text) \in Nat /\ Len(text') \in Nat /\ Len(text) <= Len(text')
        <5> HIDE DEF Instructions
        <5> QED  BY DEF Kept
      <4> QED  BY <3>1, <4>1
    <3> QED  BY <2>2, <3>1, <3>2, <3>3
  <2> QED  BY <1>3, <1>4, <1>5, <2>6, <2>7 DEF FrameDiscipline, Inner, Scoped, WaitingForPatch,
       IsExpression
<1>6. CASE ~(f.kind = "for" /\ f.step # "declaration")
  <2>1. WaitingForPatch(f) => f.kind # "for"
    BY <1>6 DEF WaitingForPatch, FrameDiscipline
  <2> QED  BY <1>3, <1>4, <1>6 DEF FrameDiscipline, Inner, Scoped, WaitingForPatch,
       IsExpression, Kept
<1> QED  BY <1>5, <1>6

(* An activation that waits below the innermost one.                       *)
LEMMA CallerKept ==
  ASSUME Accounting, Undisturbed, NEW i \in 1 .. Len(frames) - 1,
         NEW f \in Activations, f = frames[i]
  PROVE  /\ FrameDiscipline(f)' /\ ValueDiscipline(f)
         /\ AwaitsExpression(f) => CalleeAt(f) = CalleeAt(f)'
<1>1. i \in 1 .. Len(frames) /\ Len(frames) # 0 /\ frames \in Seq(Activations)
  BY DEF Accounting, Sound, TypeOK
<1>2. stack \in ScopedStacks /\ text \in Seq(Instructions)
  BY Context, <1>1 DEF Accounting, Running
<1>3. FrameDiscipline(f) /\ ValueDiscipline(f) /\ Keeps(f)
  BY <1>1 DEF Accounting, StackDiscipline, Undisturbed
<1>4. FrameDiscipline(f)'
  BY <1>2, <1>3, FrameKept DEF Undisturbed
<1>5. ASSUME AwaitsExpression(f) PROVE CalleeAt(f) = CalleeAt(f)'
  <2>1. Inner(f) = Depends(f) /\ Inner(f) \in Nat /\ Inner(f) >= 1
    BY <1>3, <1>5, ScopeNumbers DEF Depends, FrameDiscipline
  <2>2. stack'.scopes[Inner(f)] = stack.scopes[Inner(f)]
    BY <1>3, <2>1 DEF Keeps
  <2> QED  BY <2>2 DEF CalleeAt, IsExpression, Held, Inner, Scoped
<1> QED  BY <1>3, <1>4, <1>5

-----------------------------------------------------------------------------
(* The three moves of the emitters.                                        *)

(* What every action finds.                                                *)
LEMMA Accounts ==
  ASSUME Accounting, Running
  PROVE  /\ FrameDiscipline(Top) /\ ValueDiscipline(Top) /\ TopDiscipline(Top)
         /\ stack \in ScopedStacks /\ stack.allocated \in Int /\ stack.committed \in Int
         /\ Len(stack.scopes) \in Nat \ {0} /\ Len(stack.scopes) = Inner(Top)
         /\ text \in Seq(Instructions) /\ JumpsAgree
         /\ frames \in Seq(Activations) /\ Len(frames) \in Nat \ {0}
         /\ Top \in Activations /\ InControl(Top)
<1>1. /\ frames \in Seq(Activations) /\ Len(frames) \in 1 .. Len(frames)
      /\ Len(frames) \in Nat \ {0} /\ Top = frames[Len(frames)]
  BY FrameTypes DEF Accounting, Sound, TypeOK
<1>2. FrameDiscipline(Top) /\ ValueDiscipline(Top) /\ TopDiscipline(Top)
  BY <1>1 DEF Accounting, StackDiscipline
<1>3. stack \in ScopedStacks /\ text \in Seq(Instructions) /\ Top \in Activations /\ InControl(Top)
  BY Context DEF Accounting
<1>4. /\ Len(stack.scopes) \in Nat \ {0}
      /\ stack.allocated \in Int /\ stack.committed \in Int
  BY <1>3, ScopesType DEF ScopedStacks, Stacks
<1>5. Len(stack.scopes) = Inner(Top) /\ JumpsAgree
  BY <1>2 DEF Accounting, TopDiscipline
<1> QED  BY <1>1, <1>2, <1>3, <1>4, <1>5, Zenon

(* What is emitted is compiled for the stack that is committed.            *)
LEMMA EmitsKept ==
  ASSUME Accounting, Running, Emits
  PROVE  text' \in Seq(Instructions) /\ Kept /\ JumpsAgree'
BY Accounts, StraightEmission

(* Two activations that a caller cannot tell apart.                        *)
Alike(f, g) ==
  /\ f.routine = g.routine /\ f.scope = g.scope /\ f.at = g.at
  /\ IsExpression(f) => f.type = g.type

(* The activations below the innermost one, after any move.                *)
LEMMA Below ==
  ASSUME Accounting, Running, Undisturbed, NEW F \in Seq(Activations),
         Len(F) >= Len(frames) - 1, \A i \in 1 .. Len(frames) - 1 : F[i] = frames[i]
  PROVE  /\ \A i \in 1 .. Len(frames) - 1 : FrameDiscipline(F[i])' /\ ValueDiscipline(F[i])
         /\ \A i \in 1 .. Len(frames) - 1 : \A g \in Activations :
              Alike(g, frames[i + 1]) => CallDiscipline(F[i], g)'
         /\ \A i, j \in 1 .. Len(frames) :
              i < j => Inner(frames[i]) <= frames[j].scope /\ (IsExpression(frames[j]) \/ Scoped(frames[i]))
<1>1. Len(frames) \in Nat \ {0} /\ frames \in Seq(Activations)
  BY Accounts
<1>2. ASSUME NEW i \in 1 .. Len(frames) - 1
      PROVE  /\ FrameDiscipline(F[i])' /\ ValueDiscipline(F[i])
             /\ AwaitsExpression(F[i]) => CalleeAt(F[i]) = CalleeAt(F[i])'
  <2>1. F[i] \in Activations /\ F[i] = frames[i]
    BY <1>1
  <2>2. PICK f \in Activations : f = F[i]
    BY <2>1
  <2>3. /\ FrameDiscipline(f)' /\ ValueDiscipline(f)
        /\ AwaitsExpression(f) => CalleeAt(f) = CalleeAt(f)'
    BY <2>1, <2>2, CallerKept
  <2> QED  BY <2>2, <2>3
<1>3. ASSUME NEW i \in 1 .. Len(frames) - 1, NEW g \in Activations, Alike(g, frames[i + 1])
      PROVE  CallDiscipline(F[i], g)'
  <2>1. i \in 1 .. Len(frames) /\ i + 1 \in 1 .. Len(frames) /\ F[i] = frames[i]
    BY <1>1
  <2>2. CallDiscipline(frames[i], frames[i + 1]) /\ frames[i + 1].routine = Called(frames[i])
    BY <2>1 DEF Accounting, StackDiscipline, Sound, ControlDiscipline
  <2>3. InControl(frames[i]) /\ frames[i].step \notin {"enter", "arguments"}
    BY <2>1 DEF Accounting, Sound, ControlDiscipline
  <2>4. IsExpression(g) => AwaitsExpression(F[i])
    BY <1>3, <2>1, <2>2, <2>3 DEF Called, Alike, IsExpression, AwaitsExpression, InControl,
         KindsOf, StepsOf
  <2>5. g.scope = Inner(F[i]) /\ (IsExpression(g) => g.at = CalleeAt(F[i]) /\ g.type = Awaited(F[i]))
    BY <1>3, <2>1, <2>2 DEF Alike, CallDiscipline, IsExpression
  <2>6. IsExpression(g) => g.at = CalleeAt(F[i])'
    BY <1>2, <2>4, <2>5
  <2> QED  BY <2>5, <2>6 DEF CallDiscipline
<1>4. \A i, j \in 1 .. Len(frames) :
        i < j => Inner(frames[i]) <= frames[j].scope /\ (IsExpression(frames[j]) \/ Scoped(frames[i]))
  BY DEF Accounting, StackDiscipline
<1> QED  BY <1>2, <1>3, <1>4

(* An activation calls.                                                    *)
LEMMA CallAccounts ==
  ASSUME Accounting, Running, Undisturbed,
         NEW f \in Activations, NEW g \in Activations, frames' = Calling(f, g),
         InControl(f), f.step \notin {"enter", "arguments"}, Alike(f, Top),
         FrameDiscipline(f)', ValueDiscipline(f), Len(stack'.scopes) = Inner(f),
         g.routine = Called(f), g.kind = "?", g.step = "enter", g.args = <<>>, g.argsize = 0,
         g.scope = Len(stack'.scopes), g.at = stack'.allocated,
         IsExpression(g) => stack'.allocated = CalleeAt(f)' /\ g.type = Awaited(f),
         ~IsExpression(g) => stack'.allocated = Innermost(stack')
  PROVE  StackDiscipline'
<1> DEFINE n == Len(frames)
<1>1. /\ n \in Nat \ {0} /\ frames \in Seq(Activations) /\ Top \in Activations
      /\ stack' \in ScopedStacks
  BY Accounts DEF Undisturbed
<1>2. PICK F \in Seq(Activations) :
        /\ frames' = F /\ Len(F) = n + 1 /\ \A i \in 1 .. n - 1 : F[i] = frames[i]
        /\ F[n] = f /\ F[n + 1] = g
  BY <1>1, CallShape
<1>3. /\ \A i \in 1 .. n - 1 : FrameDiscipline(F[i])' /\ ValueDiscipline(F[i])
      /\ \A i \in 1 .. n - 1 : \A h \in Activations :
           Alike(h, frames[i + 1]) => CallDiscipline(F[i], h)'
      /\ \A i, j \in 1 .. n :
           i < j => Inner(frames[i]) <= frames[j].scope /\ (IsExpression(frames[j]) \/ Scoped(frames[i]))
  BY <1>1, <1>2, Below
<1>4. /\ Len(stack'.scopes) \in Nat \ {0} /\ stack'.allocated \in Int
      /\ \A k \in 1 .. Len(stack'.scopes) : stack'.scopes[k] \in Int
  BY <1>1, ScopesType DEF ScopedStacks, Stacks
<1>5. Inner(g) = g.scope /\ ~Scoped(g)
  BY <1>4 DEF Inner, Scoped
<1>6. Innermost(stack') <= stack'.allocated
  <2>1. CASE IsExpression(g) /\ IsExpression(f)
    <3>1. CalleeAt(f)' = f.at + Held(f)
      BY <2>1 DEF CalleeAt
    <3>2. Held(f) \in Nat /\ f.at \in Int
      <4>1. /\ Slot[f.left] \in Nat /\ Slot[f.type] \in Nat /\ f.argsize \in Nat
            /\ f.at \in Int
        BY Sizes, ActivationFields
      <4>2. Slot[f.type] + f.argsize \in Nat
        BY <4>1
      <4>3. /\ f.kind = "binary" /\ f.step = "right" => Held(f) = Slot[f.left]
            /\ f.kind = "call" => Held(f) = Slot[f.type] + f.argsize
            /\ f.kind = "member" => Held(f) = Slot[f.type]
            /\ ~(f.kind = "binary" /\ f.step = "right") /\ f.kind \notin {"call", "member"}
                 => Held(f) = 0
        BY DEF Held
      <4>4. 0 \in Nat
        OBVIOUS
      <4> QED  BY <4>1, <4>2, <4>3, <4>4, Zenon
    <3>3. Inner(f) = f.scope /\ f.kind # "declaration"
      <4>1. ~Scoped(f) /\ f.kind # "declaration"
        BY <2>1 DEF Scoped, InControl, KindsOf, StepsOf, IsExpression
      <4> QED  BY <4>1, ScopeNumbers
    <3>4. stack'.scopes[f.scope] <= f.at
      BY <2>1, <3>3 DEF FrameDiscipline
    <3> QED  BY <1>4, <2>1, <3>1, <3>2, <3>3, <3>4, SMTT(30) DEF Innermost
  <2>2. CASE IsExpression(g) /\ ~IsExpression(f)
    BY <1>4, <2>2 DEF CalleeAt, Innermost, Inner, Scoped
  <2> QED  BY <1>4, <2>1, <2>2 DEF Innermost
<1>7. FrameDiscipline(g)' /\ ValueDiscipline(g)
  BY <1>4, <1>5, <1>6 DEF FrameDiscipline, Inner, Scoped, Innermost, IsExpression,
       WaitingForPatch, ValueDiscipline
<1>8. CallDiscipline(f, g)'
  BY DEF CallDiscipline
<1>9. TopDiscipline(g)'
  BY <1>5 DEF TopDiscipline, Inner, Scoped, AwaitsExpression
<1>10. IsExpression(g) \/ (Scoped(f) /\ ~IsExpression(f))
  BY DEF Called, AwaitsExpression, InControl, KindsOf, StepsOf, IsExpression, Scoped
<1>11. ASSUME NEW i \in 1 .. Len(F) PROVE FrameDiscipline(F[i])' /\ ValueDiscipline(F[i])
  <2>1. CASE i \in 1 .. n - 1
    BY <1>3, <2>1
  <2>2. CASE i = n
    BY <1>2, <2>2 DEF FrameDiscipline, Inner, Scoped, IsExpression, CompiledFor, Label,
         WaitingForPatch
  <2>3. CASE i = n + 1
    BY <1>2, <1>7, <2>3 DEF FrameDiscipline, Inner, Scoped, IsExpression, CompiledFor, Label,
         WaitingForPatch
  <2> QED  BY <1>1, <1>2, <2>1, <2>2, <2>3
<1>12. ASSUME NEW i \in 1 .. Len(F) - 1 PROVE CallDiscipline(F[i], F[i + 1])'
  <2>1. CASE i \in 1 .. n - 1
    <3>1. F[i + 1] \in Activations
      BY <1>1, <1>2, <2>1
    <3>2. Alike(F[i + 1], frames[i + 1])
      <4>1. CASE i + 1 = n
        BY <1>2, <4>1 DEF Top
      <4>2. CASE i + 1 \in 1 .. n - 1
        BY <1>2, <4>2 DEF Alike
      <4> QED  BY <1>1, <2>1, <4>1, <4>2
    <3> QED  BY <1>3, <2>1, <3>1, <3>2
  <2>2. CASE i = n
    BY <1>2, <1>8, <2>2 DEF CallDiscipline, CalleeAt, IsExpression, Inner, Scoped, Held, Awaited
  <2> QED  BY <1>1, <1>2, <2>1, <2>2
<1>13. ASSUME NEW i \in 1 .. Len(F), NEW j \in 1 .. Len(F), i < j
       PROVE  Inner(F[i]) <= F[j].scope /\ (IsExpression(F[j]) \/ Scoped(F[i]))
  <2>1. CASE j \in 1 .. n
    <3>1. i \in 1 .. n - 1 /\ i \in 1 .. n /\ F[i] = frames[i]
      BY <1>1, <1>2, <1>13, <2>1
    <3>2. F[j].scope = frames[j].scope /\ F[j].routine = frames[j].routine
      BY <1>1, <1>2, <2>1 DEF Alike, Top
    <3> QED  BY <1>3, <1>13, <2>1, <3>1, <3>2 DEF IsExpression
  <2>2. CASE j = n + 1 /\ i = n
    BY <1>2, <1>4, <1>10, <2>2
  <2>3. CASE j = n + 1 /\ i \in 1 .. n - 1
    <3>1. F[i] = frames[i] /\ i \in 1 .. n /\ n \in 1 .. n /\ i < n /\ frames[n] = Top
      BY <1>1, <1>2, <2>3 DEF Top
    <3>2. Inner(F[i]) <= f.scope /\ (IsExpression(f) \/ Scoped(F[i]))
      BY <1>3, <3>1 DEF Alike, IsExpression
    <3>3. Inner(F[i]) \in Nat /\ f.scope \in Nat /\ Inner(f) \in Nat /\ f.scope <= Inner(f)
      <4>1. F[i] \in Activations
        BY <1>1, <3>1
      <4>2. Inner(F[i]) \in Nat
        BY <4>1, ScopeNumbers
      <4>3. f.scope \in Nat /\ Inner(f) \in Nat /\ f.scope <= Inner(f)
        <5>1. f.scope \in Nat /\ Inner(f) \in Nat /\ Inner(f) = IF Scoped(f) THEN f.scope + 1 ELSE f.scope
          BY ScopeNumbers, Zenon
        <5> QED  BY <5>1
      <4> QED  BY <4>2, <4>3
    <3>4. F[j] = g /\ g.scope = Inner(f)
      BY <1>2, <2>3
    <3>5. Inner(F[i]) <= F[j].scope
      BY <3>2, <3>3, <3>4
    <3>6. IsExpression(F[j]) \/ Scoped(F[i])
      BY <1>10, <3>2, <3>4, Zenon
    <3> QED  BY <3>5, <3>6
  <2>4. j \in 1 .. n \/ (j = n + 1 /\ i = n) \/ (j = n + 1 /\ i \in 1 .. n - 1)
    <3>1. i \in 1 .. n + 1 /\ j \in 1 .. n + 1 /\ n \in Nat
      BY <1>1, <1>2
    <3> QED  BY <1>13, <3>1
  <2> QED  BY <2>1, <2>2, <2>3, <2>4, Zenon
<1>14. TopDiscipline(F[Len(F)])'
  BY <1>2, <1>9 DEF TopDiscipline, Inner, Scoped, Held, AwaitsExpression, CalleeAt, Awaited,
       IsExpression, ResultOnTop, Innermost
<1> QED  BY <1>2, <1>11, <1>12, <1>13, <1>14, Assembled

(* The innermost activation goes on within its handler.                    *)
LEMMA UpdateAccounts ==
  ASSUME Accounting, Running, Undisturbed, NEW f \in Activations, frames' = Becoming(f),
         Alike(f, Top), FrameDiscipline(f)', ValueDiscipline(f), TopDiscipline(f)'
  PROVE  StackDiscipline'
<1> DEFINE n == Len(frames)
<1>1. n \in Nat \ {0} /\ frames \in Seq(Activations) /\ Top \in Activations
  BY Accounts
<1>2. PICK F \in Seq(Activations) :
        frames' = F /\ Len(F) = n /\ (\A i \in 1 .. n - 1 : F[i] = frames[i]) /\ F[n] = f
  BY <1>1, UpdateShape
<1>3. /\ \A i \in 1 .. n - 1 : FrameDiscipline(F[i])' /\ ValueDiscipline(F[i])
      /\ \A i \in 1 .. n - 1 : \A h \in Activations :
           Alike(h, frames[i + 1]) => CallDiscipline(F[i], h)'
      /\ \A i, j \in 1 .. n :
           i < j => Inner(frames[i]) <= frames[j].scope /\ (IsExpression(frames[j]) \/ Scoped(frames[i]))
  BY <1>1, <1>2, Below
<1>4. ASSUME NEW i \in 1 .. Len(F) PROVE FrameDiscipline(F[i])' /\ ValueDiscipline(F[i])
  <2>1. CASE i \in 1 .. n - 1
    BY <1>3, <2>1
  <2>2. CASE i = n
    BY <1>2, <2>2 DEF FrameDiscipline, Inner, Scoped, IsExpression, CompiledFor, Label,
         WaitingForPatch
  <2> QED  BY <1>1, <1>2, <2>1, <2>2
<1>5. ASSUME NEW i \in 1 .. Len(F) - 1 PROVE CallDiscipline(F[i], F[i + 1])'
  <2>1. i \in 1 .. n - 1 /\ F[i + 1] \in Activations
    BY <1>1, <1>2
  <2>2. Alike(F[i + 1], frames[i + 1])
    <3>1. CASE i + 1 = n
      BY <1>2, <3>1 DEF Top
    <3>2. CASE i + 1 \in 1 .. n - 1
      BY <1>2, <3>2 DEF Alike
    <3> QED  BY <1>1, <2>1, <3>1, <3>2
  <2> QED  BY <1>3, <2>1, <2>2
<1>6. ASSUME NEW i \in 1 .. Len(F), NEW j \in 1 .. Len(F), i < j
      PROVE  Inner(F[i]) <= F[j].scope /\ (IsExpression(F[j]) \/ Scoped(F[i]))
  <2>1. i \in 1 .. n - 1 /\ i \in 1 .. n /\ j \in 1 .. n /\ F[i] = frames[i]
    <3>1. i \in 1 .. n /\ j \in 1 .. n /\ n \in Nat
      BY <1>1, <1>2
    <3>2. i \in 1 .. n - 1
      BY <1>6, <3>1
    <3> QED  BY <1>2, <3>1, <3>2
  <2>2. F[j].scope = frames[j].scope /\ F[j].routine = frames[j].routine
    BY <1>1, <1>2, <2>1, SMTT(30) DEF Alike, Top
  <2> QED  BY <1>3, <1>6, <2>1, <2>2 DEF IsExpression
<1>7. TopDiscipline(F[Len(F)])'
  BY <1>2 DEF TopDiscipline, Inner, Scoped, Held, AwaitsExpression, CalleeAt, Awaited,
       IsExpression, ResultOnTop, Innermost
<1> QED  BY <1>2, <1>4, <1>5, <1>6, <1>7, Assembled

(* The innermost activation returns.                                       *)
LEMMA ReturnAccounts ==
  ASSUME Accounting, Running, Undisturbed, frames' = Returning,
         \A f \in Activations :
           Len(frames) > 1 /\ f = frames[Len(frames) - 1] => TopDiscipline(f)'
  PROVE  StackDiscipline'
<1> DEFINE n == Len(frames)
<1>1. n \in Nat \ {0} /\ frames \in Seq(Activations)
  BY Accounts
<1>2. PICK F \in Seq(Activations) :
        frames' = F /\ Len(F) = n - 1 /\ \A i \in 1 .. n - 1 : F[i] = frames[i]
  BY <1>1, ReturnShape
<1>3. /\ \A i \in 1 .. n - 1 : FrameDiscipline(F[i])' /\ ValueDiscipline(F[i])
      /\ \A i \in 1 .. n - 1 : \A h \in Activations :
           Alike(h, frames[i + 1]) => CallDiscipline(F[i], h)'
      /\ \A i, j \in 1 .. n :
           i < j => Inner(frames[i]) <= frames[j].scope /\ (IsExpression(frames[j]) \/ Scoped(frames[i]))
  BY <1>1, <1>2, Below
<1>4. ASSUME NEW i \in 1 .. Len(F) - 1 PROVE CallDiscipline(F[i], F[i + 1])'
  <2>1. i \in 1 .. n - 1 /\ F[i + 1] \in Activations /\ F[i + 1] = frames[i + 1]
    BY <1>1, <1>2
  <2>2. Alike(F[i + 1], frames[i + 1])
    BY <2>1 DEF Alike
  <2> QED  BY <1>3, <2>1, <2>2
<1>5. ASSUME NEW i \in 1 .. Len(F), NEW j \in 1 .. Len(F), i < j
      PROVE  Inner(F[i]) <= F[j].scope /\ (IsExpression(F[j]) \/ Scoped(F[i]))
  <2>1. i \in 1 .. n /\ j \in 1 .. n /\ F[i] = frames[i] /\ F[j] = frames[j]
    BY <1>1, <1>2
  <2> QED  BY <1>3, <1>5, <2>1
<1>6. ASSUME F # <<>> PROVE TopDiscipline(F[Len(F)])'
  <2>1. n > 1 /\ F[Len(F)] = frames[n - 1] /\ F[Len(F)] \in Activations
    BY <1>1, <1>2, <1>6
  <2> QED  BY <2>1
<1> QED  BY <1>2, <1>3, <1>4, <1>5, <1>6, Assembled

(* The emitter of an expression returns: its value is all it left.         *)
LEMMA ExpressionReturns ==
  ASSUME Accounting, Running, frames' = Returning, IsExpression(Top),
         text' \in Seq(Instructions), Kept, JumpsAgree',
         stack' \in ScopedStacks, stack'.scopes = stack.scopes,
         stack'.allocated = Top.at + Slot[Top.type],
         stack'.committed = stack'.allocated, result' = stack'.allocated
  PROVE  StackDiscipline'
<1> DEFINE n == Len(frames)
<1>1. /\ n \in Nat \ {0} /\ frames \in Seq(Activations) /\ Len(stack.scopes) = Inner(Top)
      /\ Top = frames[n] /\ InControl(Top)
  BY Accounts DEF Top
<1>2. Undisturbed
  <2> SUFFICES ASSUME NEW i \in 1 .. n - 1 PROVE Keeps(frames[i])
    BY DEF Undisturbed
  <2>1. i \in 1 .. n
    BY <1>1
  <2>2. Inner(frames[i]) <= Len(stack.scopes)
    BY <2>1 DEF Accounting, StackDiscipline, FrameDiscipline
  <2> QED  BY <2>2 DEF Keeps
<1>3. ASSUME NEW f \in Activations, n > 1, f = frames[n - 1]
      PROVE  TopDiscipline(f)'
  <2>1. n - 1 \in 1 .. n - 1 /\ n - 1 \in 1 .. n /\ f = frames[n - 1] /\ Top = frames[(n - 1) + 1]
    BY <1>1, <1>3
  <2>2. CallDiscipline(f, Top) /\ Top.routine = Called(f) /\ InControl(f) /\ f.step \notin {"enter", "arguments"}
    BY <2>1 DEF Accounting, StackDiscipline, Sound, ControlDiscipline
  <2>3. AwaitsExpression(f)
    BY <2>2 DEF Called, IsExpression, AwaitsExpression, InControl, KindsOf, StepsOf
  <2>4. Top.scope = Inner(f) /\ Top.at = CalleeAt(f) /\ Top.type = Awaited(f)
    BY <2>2 DEF CallDiscipline
  <2>5. Inner(Top) = Top.scope
    <3>1. ~Scoped(Top)
      BY <1>1 DEF Scoped, InControl, KindsOf, StepsOf, IsExpression
    <3> QED  BY <3>1, ScopeNumbers, Accounts
  <2>6. CalleeAt(f)' = CalleeAt(f)
    BY DEF CalleeAt
  <2> QED  BY <1>1, <2>2, <2>3, <2>4, <2>5, <2>6 DEF TopDiscipline, ResultOnTop
<1> QED  BY <1>2, <1>3, ReturnAccounts

(* The emitter of a statement returns: nothing is left on the stack.       *)
LEMMA StatementReturns ==
  ASSUME Accounting, Running, frames' = Returning, ~IsExpression(Top), Undisturbed,
         Len(stack'.scopes) = Top.scope, stack'.allocated = Innermost(stack'),
         Top.routine = "loop_declaration" => stack'.committed = stack'.allocated
  PROVE  StackDiscipline'
<1> DEFINE n == Len(frames)
<1>1. n \in Nat \ {0} /\ frames \in Seq(Activations) /\ Top = frames[n] /\ InControl(Top)
  BY Accounts DEF Top
<1>2. ASSUME NEW f \in Activations, n > 1, f = frames[n - 1]
      PROVE  TopDiscipline(f)'
  <2>1. n - 1 \in 1 .. n - 1 /\ n - 1 \in 1 .. n /\ f = frames[n - 1] /\ Top = frames[(n - 1) + 1]
    BY <1>1, <1>2
  <2>2. CallDiscipline(f, Top) /\ Top.routine = Called(f) /\ InControl(f) /\ f.step \notin {"enter", "arguments"}
    BY <2>1 DEF Accounting, StackDiscipline, Sound, ControlDiscipline
  <2>3. ~AwaitsExpression(f) /\ (f.step = "declaration" => Top.routine = "loop_declaration")
    BY <2>2 DEF Called, IsExpression, AwaitsExpression, InControl, KindsOf, StepsOf
  <2>4. Top.scope = Inner(f)
    BY <2>2 DEF CallDiscipline
  <2> QED  BY <2>2, <2>3, <2>4 DEF TopDiscipline
<1> QED  BY <1>2, ReturnAccounts

-----------------------------------------------------------------------------
(* What an action does to the scopes of the activations below, ...         *)

(* if it leaves those that the innermost one found, ...                    *)
LEMMA CallersKept ==
  ASSUME Accounting, Running, stack' \in ScopedStacks, Top.scope <= Len(stack'.scopes),
         \A k \in 1 .. Top.scope : stack'.scopes[k] = stack.scopes[k]
  PROVE  \A i \in 1 .. Len(frames) - 1 : Keeps(frames[i])
<1> SUFFICES ASSUME NEW i \in 1 .. Len(frames) - 1 PROVE Keeps(frames[i])
  OBVIOUS
<1>1. /\ i \in 1 .. Len(frames) /\ Len(frames) \in 1 .. Len(frames) /\ i < Len(frames)
      /\ frames[i] \in Activations /\ Top = frames[Len(frames)] /\ Top \in Activations
  BY Accounts DEF Top
<1>2. Inner(frames[i]) <= Top.scope
  BY <1>1 DEF Accounting, StackDiscipline
<1>3. /\ Inner(frames[i]) \in Nat /\ Depends(frames[i]) \in Nat
      /\ Depends(frames[i]) <= Inner(frames[i]) /\ Top.scope \in Nat
  <2>1. Top.scope \in Nat
    BY <1>1, ScopeNumbers
  <2> QED  BY <1>1, <2>1, ScopeNumbers
<1>4. Len(stack'.scopes) \in Nat
  BY ScopesType
<1> QED  BY <1>2, <1>3, <1>4 DEF Keeps

(* Such an action leaves them all undisturbed.                             *)
LEMMA LeavesUndisturbed ==
  ASSUME Accounting, Running, stack' \in ScopedStacks, Top.scope <= Len(stack'.scopes),
         \A k \in 1 .. Top.scope : stack'.scopes[k] = stack.scopes[k],
         text' \in Seq(Instructions), Kept, JumpsAgree'
  PROVE  Undisturbed
BY CallersKept DEF Undisturbed

(* What an action does to those scopes if it is a statement that allocates *)
(* a variable in its caller's.                                             *)
LEMMA CallersKeptByDeclaration ==
  ASSUME Accounting, Running, stack' \in ScopedStacks,
         Top.routine \in {"statement", "loop_declaration"},
         Len(stack'.scopes) = Top.scope,
         \A k \in 1 .. Top.scope - 1 : stack'.scopes[k] = stack.scopes[k]
  PROVE  \A i \in 1 .. Len(frames) - 1 : Keeps(frames[i])
<1> SUFFICES ASSUME NEW i \in 1 .. Len(frames) - 1 PROVE Keeps(frames[i])
  OBVIOUS
<1> DEFINE n == Len(frames)
           f == frames[i]
<1>1. /\ i \in 1 .. n /\ i + 1 \in 1 .. n /\ n \in 1 .. n /\ i < n /\ n \in Nat
      /\ f \in Activations /\ Top = frames[n] /\ Top \in Activations
  BY Accounts DEF Top
<1>2. Inner(f) <= Top.scope /\ Scoped(f)
  BY <1>1 DEF Accounting, StackDiscipline, IsExpression
<1>3. /\ Inner(f) \in Nat /\ Depends(f) \in Nat /\ Inner(f) = f.scope + 1 /\ f.scope \in Nat
      /\ f.scope <= Depends(f) /\ Depends(f) <= Inner(f)
  BY <1>1, <1>2, ScopeNumbers
<1>4. Top.scope \in Nat
  BY <1>1, ScopeNumbers
<1>5. CASE i + 1 < n
  <2>1. Inner(f) <= frames[i + 1].scope /\ Inner(frames[i + 1]) <= Top.scope /\ Scoped(frames[i + 1])
    BY <1>1, <1>5 DEF Accounting, StackDiscipline, IsExpression
  <2>2. Inner(frames[i + 1]) = frames[i + 1].scope + 1 /\ frames[i + 1].scope \in Nat
    <3>1. frames[i + 1] \in Activations
      BY <1>1, Accounts
    <3> QED  BY <2>1, <3>1, ScopeNumbers
  <2>3. Depends(f) <= Top.scope - 1 /\ Inner(f) <= Top.scope
    <3> HIDE DEF f
    <3> QED  BY <1>3, <1>4, <2>1, <2>2, SMTT(30)
  <2> HIDE DEF f
  <2>4. \A k \in 1 .. Depends(f) : k \in 1 .. Top.scope - 1
    BY <1>3, <1>4, <2>3
  <2> QED  BY <2>3, <2>4 DEF Keeps, f
<1>6. CASE i + 1 = n
  <2>1. Top.routine = Called(f)
    BY <1>1, <1>6 DEF Accounting, Sound, ControlDiscipline
  <2>2. ~AwaitsExpression(f) /\ ~(f.kind = "for" /\ f.step # "declaration")
    <3>1. InControl(f)
      BY <1>1 DEF Accounting, Sound, ControlDiscipline
    <3> HIDE DEF f
    <3> QED  BY <2>1, <3>1 DEF Called, AwaitsExpression, InControl, StepsOf
  <2>3. Depends(f) = f.scope
    BY <2>2 DEF Depends
  <2>4. \A k \in 1 .. Depends(f) : k \in 1 .. Top.scope - 1
    BY <1>2, <1>3, <1>4, <2>3
  <2> QED  BY <1>2, <2>4 DEF Keeps
<1> QED  BY <1>1, <1>5, <1>6

-----------------------------------------------------------------------------
(* The stacks the handlers compute.                                        *)

(* Popped, pushed and committed.                                           *)
LEMMA Committed ==
  ASSUME NEW s \in ScopedStacks
  PROVE  /\ CommitStack(s) \in ScopedStacks /\ CommitStack(s).scopes = s.scopes
         /\ CommitStack(s).allocated = s.allocated /\ CommitStack(s).committed = s.allocated
         /\ \A n \in Int :
              /\ PushStack(s, n) \in ScopedStacks /\ PushStack(s, n).scopes = s.scopes
              /\ PushStack(s, n).allocated = s.allocated + n
              /\ PushStack(s, n).committed = s.committed
              /\ PopStack(s, n) \in ScopedStacks /\ PopStack(s, n).scopes = s.scopes
              /\ PopStack(s, n).allocated = s.allocated - n
              /\ PopStack(s, n).committed = s.committed
<1>1. s \in Stacks /\ Len(s.scopes) >= 1
  BY DEF ScopedStacks
<1>2. CommitStack(s) \in ScopedStacks
  BY 0 \in Int, ScopedStackTypes
<1>3. ASSUME NEW n \in Int
      PROVE  PushStack(s, n) \in ScopedStacks /\ PopStack(s, n) \in ScopedStacks
  BY <1>3, ScopedStackTypes
<1>4. /\ CommitStack(s).scopes = s.scopes
      /\ CommitStack(s).allocated = s.allocated /\ CommitStack(s).committed = s.allocated
  BY <1>1, StackFields
<1>5. ASSUME NEW n \in Int
      PROVE  /\ PushStack(s, n).scopes = s.scopes /\ PushStack(s, n).allocated = s.allocated + n
             /\ PushStack(s, n).committed = s.committed
             /\ PopStack(s, n).scopes = s.scopes /\ PopStack(s, n).allocated = s.allocated - n
             /\ PopStack(s, n).committed = s.committed
  <2>1. /\ PushStack(s, n).scopes = s.scopes /\ PushStack(s, n).allocated = s.allocated + n
        /\ PushStack(s, n).committed = s.committed
    BY <1>1, StackFields, ZenonT(30)
  <2>2. /\ PopStack(s, n).scopes = s.scopes /\ PopStack(s, n).allocated = s.allocated - n
        /\ PopStack(s, n).committed = s.committed
    BY <1>1, StackFields, ZenonT(30)
  <2> QED  BY <2>1, <2>2
<1> QED  BY <1>2, <1>3, <1>4, <1>5

(* Committed after a push.                                                 *)
LEMMA CommittedPush ==
  ASSUME NEW s \in ScopedStacks, NEW n \in Int
  PROVE  LET c == CommitStack(PushStack(s, n))
         IN  /\ c \in ScopedStacks /\ c.scopes = s.scopes
             /\ c.allocated = s.allocated + n /\ c.committed = s.allocated + n
<1>1. /\ PushStack(s, n) \in ScopedStacks /\ PushStack(s, n).scopes = s.scopes
      /\ PushStack(s, n).allocated = s.allocated + n
  BY Committed
<1> QED  BY <1>1, Committed

(* Committed after a pop.                                                  *)
LEMMA CommittedPop ==
  ASSUME NEW s \in ScopedStacks, NEW n \in Int
  PROVE  LET c == CommitStack(PopStack(s, n))
         IN  /\ c \in ScopedStacks /\ c.scopes = s.scopes
             /\ c.allocated = s.allocated - n /\ c.committed = s.allocated - n
<1>1. /\ PopStack(s, n) \in ScopedStacks /\ PopStack(s, n).scopes = s.scopes
      /\ PopStack(s, n).allocated = s.allocated - n
  BY Committed
<1> QED  BY <1>1, Committed

(* Committed after a pop and a push.                                       *)
LEMMA CommittedPopPush ==
  ASSUME NEW s \in ScopedStacks, NEW m \in Int, NEW n \in Int
  PROVE  LET c == CommitStack(PushStack(PopStack(s, m), n))
         IN  /\ c \in ScopedStacks /\ c.scopes = s.scopes
             /\ c.allocated = (s.allocated - m) + n /\ c.committed = (s.allocated - m) + n
<1>1. /\ PopStack(s, m) \in ScopedStacks /\ PopStack(s, m).scopes = s.scopes
      /\ PopStack(s, m).allocated = s.allocated - m
  BY Committed
<1> QED  BY <1>1, CommittedPush

(* Committed after the innermost scope is closed.                          *)
LEMMA CommittedPopScope ==
  ASSUME NEW s \in ScopedStacks, CanPopScope(s)
  PROVE  LET c == CommitStack(PopScope(s))
             m == Len(s.scopes) - 1
         IN  /\ c \in ScopedStacks /\ m \in Nat \ {0} /\ Len(c.scopes) = m
             /\ \A k \in 1 .. m : c.scopes[k] = s.scopes[k]
             /\ c.allocated = s.scopes[m] /\ c.committed = s.scopes[m]
             /\ Innermost(c) = s.scopes[m]
<1> DEFINE p == PopScope(s)
           m == Len(s.scopes) - 1
<1>1. s \in Stacks /\ Len(s.scopes) >= 1 /\ s.scopes \in Seq(Int) /\ m \in Nat \ {0}
  BY ScopesType DEF ScopedStacks, CanPopScope
<1>2. p.allocated = s.scopes[m] /\ p.scopes = SubSeq(s.scopes, 1, m)
  BY <1>1, StackFields
<1>3. Len(p.scopes) = m /\ \A k \in 1 .. m : p.scopes[k] = s.scopes[k]
  BY <1>1, <1>2
<1>4. p \in ScopedStacks
  BY 0 \in Int, ScopedStackTypes
<1> HIDE DEF p
<1>5. /\ CommitStack(p) \in ScopedStacks /\ CommitStack(p).scopes = p.scopes
      /\ CommitStack(p).allocated = p.allocated /\ CommitStack(p).committed = p.allocated
  BY <1>4, Committed
<1> DEFINE c == CommitStack(p)
<1>6. Len(c.scopes) = m /\ (\A k \in 1 .. m : c.scopes[k] = s.scopes[k]) /\ Innermost(c) = s.scopes[m]
  <2>1. Len(c.scopes) = m /\ \A k \in 1 .. m : c.scopes[k] = s.scopes[k]
    BY <1>3, <1>5
  <2>2. m \in 1 .. m
    <3>1. m \in Nat \ {0}
      BY <1>1
    <3> HIDE DEF m
    <3> QED  BY <3>1
  <2>3. Innermost(c) = s.scopes[m]
    BY <2>1, <2>2 DEF Innermost
  <2> QED  BY <2>1, <2>3
<1>7. c \in ScopedStacks /\ m \in Nat \ {0} /\ c.allocated = s.scopes[m] /\ c.committed = s.scopes[m]
  BY <1>1, <1>2, <1>5
<1>8. c = CommitStack(PopScope(s))
  BY DEF p
<1> HIDE DEF c
<1> QED  BY <1>6, <1>7, <1>8

(* After a scope is opened.                                                *)
LEMMA ScopePushed ==
  ASSUME NEW s \in ScopedStacks
  PROVE  /\ PushScope(s) \in ScopedStacks /\ Len(PushScope(s).scopes) = Len(s.scopes) + 1
         /\ \A k \in 1 .. Len(s.scopes) : PushScope(s).scopes[k] = s.scopes[k]
         /\ Innermost(PushScope(s)) = Innermost(s)
         /\ PushScope(s).allocated = s.allocated /\ PushScope(s).committed = s.committed
<1>1. s \in Stacks /\ Len(s.scopes) >= 1 /\ s.scopes \in Seq(Int) /\ Innermost(s) \in Int
  BY ScopesType DEF ScopedStacks, Innermost
<1>2. /\ PushScope(s).scopes = Append(s.scopes, Innermost(s))
      /\ PushScope(s).allocated = s.allocated /\ PushScope(s).committed = s.committed
  BY <1>1, StackFields
<1>3. PushScope(s) \in ScopedStacks
  BY 0 \in Int, ScopedStackTypes
<1>4. /\ Len(Append(s.scopes, Innermost(s))) = Len(s.scopes) + 1
      /\ \A k \in 1 .. Len(s.scopes) : Append(s.scopes, Innermost(s))[k] = s.scopes[k]
      /\ Append(s.scopes, Innermost(s))[Len(s.scopes) + 1] = Innermost(s)
  BY <1>1
<1>5. Innermost(PushScope(s)) = Innermost(s)
  BY <1>2, <1>4 DEF Innermost
<1> QED  BY <1>2, <1>3, <1>4, <1>5

(* After a variable is allocated in the innermost scope.                   *)
LEMMA Allocated ==
  ASSUME NEW s \in ScopedStacks, NEW n \in Int, CanAllocateStack(s)
  PROVE  LET c == AllocateStack(s, n)
             m == Len(s.scopes)
         IN  /\ c \in ScopedStacks /\ Len(c.scopes) = m
             /\ \A k \in 1 .. m - 1 : c.scopes[k] = s.scopes[k]
             /\ c.scopes[m] = s.allocated + n /\ Innermost(c) = s.allocated + n
             /\ c.allocated = s.allocated + n /\ c.committed = s.committed
<1> DEFINE m == Len(s.scopes)
           c == AllocateStack(s, n)
<1>1. /\ s \in Stacks /\ m >= 1 /\ m \in Nat /\ s.scopes \in Seq(Int)
      /\ s.scopes[m] = s.allocated /\ s.allocated \in Int
  BY ScopesType DEF ScopedStacks, Stacks, CanAllocateStack, Innermost
<1>2. /\ c.scopes = [s.scopes EXCEPT ![m] = @ + n]
      /\ c.allocated = s.allocated + n /\ c.committed = s.committed
  BY <1>1, StackFields, ZenonT(30)
<1>3. c \in ScopedStacks
  BY ScopedStackTypes
<1>4. /\ Len(c.scopes) = m /\ c.scopes[m] = s.allocated + n
      /\ \A k \in 1 .. m - 1 : c.scopes[k] = s.scopes[k]
  <2>1. s.scopes[m] + n \in Int /\ m \in 1 .. m
    BY <1>1
  <2> HIDE DEF c
  <2> QED  BY <1>1, <1>2, <2>1, ExceptSeq
<1> QED  BY <1>2, <1>3, <1>4 DEF Innermost

-----------------------------------------------------------------------------
(* Expressions that return.                                                *)

(* A push.                                                                 *)
LEMMA PushAccounts ==
  ASSUME Accounting, PushStep PROVE StackDiscipline' /\ JumpsAgree'
<1> DEFINE c == CommitStack(PushStack(stack, Slot[Top.type]))
<1>1. Running /\ Top.step = "enter" /\ Top.routine = "expression"
  BY DEF PushStep, Yields, Pushed, Returns, Entering
<1>2. /\ stack \in ScopedStacks /\ Slot[Top.type] \in Int /\ stack.allocated = Top.at
  BY <1>1, Accounts, ActivationFields, Sizes DEF TopDiscipline, AwaitsExpression
<1>3. /\ c \in ScopedStacks /\ c.scopes = stack.scopes
      /\ c.allocated = Top.at + Slot[Top.type] /\ c.committed = c.allocated
  BY <1>2, CommittedPush
<1>4. /\ stack' = c /\ result' = c.allocated /\ frames' = Returning
      /\ Emits
  BY DEF PushStep, Yields, Pushed, Returns
<1> HIDE DEF c
<1>5. text' \in Seq(Instructions) /\ Kept /\ JumpsAgree'
  BY <1>1, <1>3, <1>4, EmitsKept
<1> QED  BY <1>1, <1>3, <1>4, <1>5, ExpressionReturns DEF IsExpression

(* The handlers of nodes that only an expression has.                      *)
LEMMA ExpressionNodes ==
  ASSUME Accounting, Running,
         Top.kind \in {"binary", "call", "assign", "member", "cast"}
  PROVE  /\ IsExpression(Top)
         /\ Top.at \in Int /\ Top.slot \in Int /\ Top.argsize \in Int
         /\ Slot[Top.type] \in Int /\ Slot[Top.left] \in Int /\ Slot[Top.right] \in Int
         /\ Slot[String] \in Int
<1>1. InControl(Top) /\ Top \in Activations
  BY Accounts
<1>2. IsExpression(Top)
  BY <1>1 DEF InControl, KindsOf, IsExpression
<1>3. /\ Top.type \in Types /\ Top.left \in Types /\ Top.right \in Types
      /\ Top.at \in Int /\ Top.slot \in Int /\ Top.argsize \in Int
  BY <1>1, ActivationFields
<1> QED  BY <1>2, <1>3, Sizes

(* What the innermost activation finds when its expression is emitted.     *)
LEMMA ValueFound ==
  ASSUME Accounting, Running, AwaitsExpression(Top)
  PROVE  /\ stack \in ScopedStacks /\ stack.allocated = CalleeAt(Top) + Slot[Awaited(Top)]
         /\ result = stack.allocated /\ stack.committed = stack.allocated
         /\ text \in Seq(Instructions) /\ JumpsAgree
<1>1. Top.step # "enter" /\ Top.step # "arguments"
  BY DEF AwaitsExpression
<1> QED  BY <1>1, Accounts DEF TopDiscipline, ResultOnTop

(* The result of two operands.                                             *)
LEMMA EndBinaryAccounts ==
  ASSUME Accounting, EndBinaryStep PROVE StackDiscipline' /\ JumpsAgree'
<1> DEFINE p == PopStack(stack, Slot[Top.right])
           c == CommitStack(PushStack(PopStack(p, Slot[Top.left]), Slot[Top.type]))
<1>1. /\ Running /\ Top.kind = "binary" /\ Top.step = "right"
      /\ AwaitsExpression(Top) /\ Awaited(Top) = Top.right /\ Held(Top) = Slot[Top.left]
  BY DEF EndBinaryStep, Yields, Pushed, Returns, At, AwaitsExpression, Awaited, Held
<1>2. /\ IsExpression(Top) /\ stack \in ScopedStacks
      /\ stack.allocated = (Top.at + Slot[Top.left]) + Slot[Top.right]
      /\ Top.at \in Int /\ Slot[Top.type] \in Int /\ Slot[Top.left] \in Int /\ Slot[Top.right] \in Int
  <2>1. IsExpression(Top)
    BY <1>1, ExpressionNodes
  <2> QED  BY <1>1, <2>1, ExpressionNodes, ValueFound DEF CalleeAt
<1>3. /\ c \in ScopedStacks /\ c.scopes = stack.scopes
      /\ c.allocated = Top.at + Slot[Top.type] /\ c.committed = c.allocated
  <2>1. /\ p \in ScopedStacks /\ p.scopes = stack.scopes
        /\ p.allocated = Top.at + Slot[Top.left]
    <3>1. /\ p \in ScopedStacks /\ p.scopes = stack.scopes
          /\ p.allocated = stack.allocated - Slot[Top.right]
      BY <1>2, Committed
    <3> HIDE DEF p
    <3> QED  BY <1>2, <3>1
  <2> HIDE DEF p
  <2> QED  BY <1>2, <2>1, CommittedPopPush
<1>4. /\ stack' = c /\ result' = c.allocated /\ frames' = Returning
      /\ Emits
  BY DEF EndBinaryStep, Yields, Pushed, Returns
<1> HIDE DEF c
<1>5. text' \in Seq(Instructions) /\ Kept /\ JumpsAgree'
  BY <1>1, <1>3, <1>4, EmitsKept
<1> QED  BY <1>1, <1>2, <1>3, <1>4, <1>5, ExpressionReturns

(* The call itself.                                                        *)
LEMMA EndCallAccounts ==
  ASSUME Accounting, EndCallStep PROVE StackDiscipline' /\ JumpsAgree'
<1> DEFINE c == CommitStack(PopStack(stack, Top.argsize))
<1>1. Running /\ Top.kind = "call" /\ Top.step = "arguments"
  BY DEF EndCallStep, Returns, At
<1>2. /\ IsExpression(Top) /\ stack \in ScopedStacks
      /\ stack.allocated = Top.at + (Slot[Top.type] + Top.argsize)
      /\ Top.slot = Top.at + Slot[Top.type]
      /\ Top.at \in Int /\ Slot[Top.type] \in Int /\ Top.argsize \in Int
  <2>0. Held(Top) = Slot[Top.type] + Top.argsize
    BY <1>1 DEF Held
  <2>1. stack.allocated = Top.at + Held(Top)
    BY <1>1, Accounts DEF TopDiscipline, AwaitsExpression
  <2>2. Top.slot = Top.at + Slot[Top.type]
    BY <1>1, Accounts DEF ValueDiscipline
  <2> QED  BY <1>1, <2>0, <2>1, <2>2, Accounts, ExpressionNodes
<1>3. /\ c \in ScopedStacks /\ c.scopes = stack.scopes
      /\ c.allocated = Top.at + Slot[Top.type] /\ c.committed = c.allocated
  <2>1. /\ c \in ScopedStacks /\ c.scopes = stack.scopes
        /\ c.allocated = stack.allocated - Top.argsize /\ c.committed = c.allocated
    BY <1>2, CommittedPop
  <2> HIDE DEF c
  <2> QED  BY <1>2, <2>1
<1>4. /\ stack' = c /\ result' = c.allocated /\ frames' = Returning
      /\ Emits
  BY <1>2, <1>3 DEF EndCallStep, Returns
<1> HIDE DEF c
<1>5. text' \in Seq(Instructions) /\ Kept /\ JumpsAgree'
  BY <1>1, <1>3, <1>4, EmitsKept
<1> QED  BY <1>1, <1>2, <1>3, <1>4, <1>5, ExpressionReturns

(* The copy into a variable.                                               *)
LEMMA EndAssignAccounts ==
  ASSUME Accounting, EndAssignStep PROVE StackDiscipline' /\ JumpsAgree'
<1>1. /\ Running /\ Top.kind = "assign" /\ Top.step = "value"
      /\ AwaitsExpression(Top) /\ Awaited(Top) = Top.left /\ Held(Top) = 0
  BY DEF EndAssignStep, Returns, At, AwaitsExpression, Awaited, Held
<1>2. /\ IsExpression(Top) /\ stack \in ScopedStacks
      /\ stack.allocated = Top.at + Slot[Top.type]
      /\ result = stack.allocated /\ stack.committed = stack.allocated
  <2>1. IsExpression(Top) /\ Slot[Top.left] = Slot[Top.type]
    BY <1>1, ExpressionNodes, Accounts DEF ValueDiscipline
  <2> QED  BY <1>1, <2>1, ExpressionNodes, ValueFound DEF CalleeAt
<1>3. stack' = stack /\ result' = result /\ frames' = Returning /\ text' = text
  BY DEF EndAssignStep, Returns
<1>4. text' \in Seq(Instructions) /\ Kept /\ JumpsAgree'
  BY <1>1, <1>3, ValueFound, NothingEmitted
<1> QED  BY <1>1, <1>2, <1>3, <1>4, ExpressionReturns

(* The member of a string.                                                 *)
LEMMA EndMemberAccounts ==
  ASSUME Accounting, EndMemberStep PROVE StackDiscipline' /\ JumpsAgree'
<1> DEFINE c == CommitStack(PopStack(stack, Slot[String]))
<1>1. /\ Running /\ Top.kind = "member" /\ Top.step = "string"
      /\ AwaitsExpression(Top) /\ Awaited(Top) = String /\ Held(Top) = Slot[Top.type]
  BY DEF EndMemberStep, Returns, Popped, At, AwaitsExpression, Awaited, Held
<1>2. /\ IsExpression(Top) /\ stack \in ScopedStacks
      /\ stack.allocated = (Top.at + Slot[Top.type]) + Slot[String]
      /\ Top.slot = Top.at + Slot[Top.type]
      /\ Top.at \in Int /\ Slot[Top.type] \in Int /\ Slot[String] \in Int
  <2>1. IsExpression(Top) /\ Top.slot = Top.at + Slot[Top.type]
    BY <1>1, ExpressionNodes, Accounts DEF ValueDiscipline
  <2> QED  BY <1>1, <2>1, ExpressionNodes, ValueFound DEF CalleeAt
<1>3. /\ c \in ScopedStacks /\ c.scopes = stack.scopes
      /\ c.allocated = Top.at + Slot[Top.type] /\ c.committed = c.allocated
  <2>1. PICK s, n : s = stack /\ n = Slot[String]
    OBVIOUS
  <2>2. s \in ScopedStacks /\ n \in Int
    BY <1>2, <2>1
  <2>3. PICK d : d = CommitStack(PopStack(s, n))
    OBVIOUS
  <2>4. d \in ScopedStacks /\ d.scopes = s.scopes /\ d.allocated = s.allocated - n
        /\ d.committed = d.allocated
    BY <2>2, <2>3, CommittedPop, Zenon
  <2>5. s.allocated - n = Top.at + Slot[Top.type]
    BY <1>2, <2>1
  <2>6. c = d
    BY <2>1, <2>3
  <2> HIDE DEF c
  <2> QED  BY <2>1, <2>4, <2>5, <2>6
<1>4. /\ stack' = c /\ result' = c.allocated /\ frames' = Returning
      /\ Emits
  BY <1>2, <1>3 DEF EndMemberStep, Returns, Popped
<1> HIDE DEF c
<1>5. text' \in Seq(Instructions) /\ Kept /\ JumpsAgree'
  BY <1>1, <1>3, <1>4, EmitsKept
<1> QED  BY <1>1, <1>2, <1>3, <1>4, <1>5, ExpressionReturns

(* A narrowed value, or one of the same size.                              *)
LEMMA EndCastAccounts ==
  ASSUME Accounting, EndCastStep PROVE StackDiscipline' /\ JumpsAgree'
<1> DEFINE c == CommitStack(PushStack(PopStack(stack, Slot[Top.left]), Slot[Top.type]))
<1>1. /\ Running /\ Top.kind = "cast" /\ Top.step = "value"
      /\ AwaitsExpression(Top) /\ Awaited(Top) = Top.left /\ Held(Top) = 0
  BY DEF EndCastStep, Yields, Pushed, Returns, At, AwaitsExpression, Awaited, Held
<1>2. /\ IsExpression(Top) /\ stack \in ScopedStacks
      /\ stack.allocated = Top.at + Slot[Top.left] /\ Slot[Top.left] >= Slot[Top.type]
      /\ stack.committed = stack.allocated
      /\ Top.at \in Int /\ Slot[Top.type] \in Int /\ Slot[Top.left] \in Int
  <2>1. IsExpression(Top) /\ Slot[Top.left] >= Slot[Top.type]
    BY <1>1, ExpressionNodes, Accounts DEF ValueDiscipline
  <2> QED  BY <1>1, <2>1, ExpressionNodes, ValueFound DEF CalleeAt
<1>3. frames' = Returning /\ result' = stack'.allocated
  BY DEF EndCastStep, Yields, Pushed, Returns
<1>4. CASE stack' = c /\ Emits
  <2>1. /\ c \in ScopedStacks /\ c.scopes = stack.scopes
        /\ c.allocated = Top.at + Slot[Top.type] /\ c.committed = c.allocated
    BY <1>2, CommittedPopPush
  <2> HIDE DEF c
  <2>3. text' \in Seq(Instructions) /\ Kept /\ JumpsAgree'
    BY <1>1, <1>4, EmitsKept
  <2> QED  BY <1>1, <1>2, <1>3, <1>4, <2>1, <2>3, ExpressionReturns
<1>5. CASE Slot[Top.left] <= Slot[Top.type] /\ stack' = stack /\ text' = text
  <2>2. text' \in Seq(Instructions) /\ Kept /\ JumpsAgree'
    BY <1>1, <1>5, ValueFound, NothingEmitted
  <2>3. Slot[Top.left] = Slot[Top.type]
    <3>1. \A m, n \in Int : m >= n /\ m <= n => m = n
      OBVIOUS
    <3> QED  BY <1>2, <1>5, <3>1
  <2> QED  BY <1>1, <1>2, <1>3, <1>5, <2>2, <2>3, ExpressionReturns
<1> QED  BY <1>4, <1>5 DEF EndCastStep, Yields, Pushed, Returns

-----------------------------------------------------------------------------
(* Calls of the emitter of expressions.                                    *)

(* The fields of a new activation.                                         *)
LEMMA ActivationFacts ==
  ASSUME NEW routine \in Routines, NEW t \in Types, NEW s \in ScopedStacks, NEW v \in Nat,
         signature \in Signatures
  PROVE  LET g == Activation(routine, t, s, v)
         IN  /\ g \in Activations /\ g.routine = routine /\ g.type = t
             /\ g.kind = "?" /\ g.step = "enter" /\ g.args = <<>> /\ g.argsize = 0
             /\ g.scope = Len(s.scopes) /\ g.at = s.allocated
BY ActivationType DEF Activation

(* An activation calls the emitter of expressions.                         *)
LEMMA CallsExpression ==
  ASSUME Accounting, Running, Undisturbed, NEW f \in Activations, NEW v \in Nat,
         frames' = Calling(f, Activation("expression", Awaited(f), stack', v)),
         InControl(f), AwaitsExpression(f), Alike(f, Top),
         FrameDiscipline(f)', ValueDiscipline(f),
         Len(stack'.scopes) = Inner(f), stack'.allocated = CalleeAt(f)'
  PROVE  StackDiscipline'
<1>1. /\ signature \in Signatures /\ stack' \in ScopedStacks /\ Awaited(f) \in Types
      /\ "expression" \in Routines
  BY Context, Sizes, ActivationFields DEF Accounting, Undisturbed, Awaited, Routines
<1> DEFINE h == Activation("expression", Awaited(f), stack', v)
<1>2. /\ h \in Activations /\ h.routine = "expression" /\ h.type = Awaited(f)
      /\ h.kind = "?" /\ h.step = "enter" /\ h.args = <<>> /\ h.argsize = 0
      /\ h.scope = Len(stack'.scopes) /\ h.at = stack'.allocated
  BY <1>1, ActivationFacts
<1>3. PICK g \in Activations : g = h
  BY <1>2
<1>4. frames' = Calling(f, g)
  BY <1>3
<1>5. Called(f) = "expression" /\ f.step \notin {"enter", "arguments"}
  BY DEF Called, AwaitsExpression
<1> HIDE DEF h
<1>6. /\ g.routine = Called(f) /\ IsExpression(g) /\ g.type = Awaited(f)
      /\ g.kind = "?" /\ g.step = "enter" /\ g.args = <<>> /\ g.argsize = 0
      /\ g.scope = Len(stack'.scopes) /\ g.at = stack'.allocated
  BY <1>2, <1>3, <1>5 DEF IsExpression
<1> QED  BY <1>4, <1>5, <1>6, CallAccounts

(* One expression calls the emitter of another.                            *)
LEMMA Nested ==
  ASSUME Accounting, Running, IsExpression(Top), NEW f \in Activations, NEW v \in Nat,
         frames' = Calling(f, Activation("expression", Awaited(f), stack', v)),
         InControl(f), AwaitsExpression(f), Alike(f, Top), ValueDiscipline(f),
         text' \in Seq(Instructions), Kept, JumpsAgree',
         stack' \in ScopedStacks, stack'.scopes = stack.scopes,
         stack'.allocated = f.at + Held(f)
  PROVE  StackDiscipline'
<1>1. /\ Len(stack.scopes) \in Nat \ {0} /\ Len(stack.scopes) = Inner(Top)
      /\ FrameDiscipline(Top) /\ InControl(Top) /\ Top \in Activations
  BY Accounts
<1>2. /\ IsExpression(f) /\ f.scope = Top.scope /\ f.at = Top.at
      /\ ~Scoped(f) /\ ~Scoped(Top) /\ ~WaitingForPatch(f) /\ f.kind # "for"
      /\ f.kind # "declaration" /\ Top.kind # "declaration"
  BY <1>1 DEF Alike, IsExpression, InControl, KindsOf, StepsOf, Scoped, WaitingForPatch
<1>3. Inner(f) = f.scope /\ Inner(Top) = Top.scope
  BY <1>1, <1>2, ScopeNumbers
<1>4. Undisturbed
  <2>1. stack' \in ScopedStacks /\ Top.scope <= Len(stack'.scopes)
    BY <1>1, <1>3
  <2>2. \A k \in 1 .. Top.scope : stack'.scopes[k] = stack.scopes[k]
    BY <1>1, <1>3
  <2>3. Running /\ text' \in Seq(Instructions) /\ Kept /\ JumpsAgree'
    BY <1>1, <1>3
  <2> QED  BY <2>1, <2>2, <2>3, LeavesUndisturbed
<1>5. stack'.scopes[f.scope] <= f.at
  BY <1>1, <1>2 DEF FrameDiscipline
<1>6. FrameDiscipline(f)'
  BY <1>1, <1>2, <1>3, <1>5 DEF FrameDiscipline
<1>7. CalleeAt(f)' = f.at + Held(f)
  BY <1>2 DEF CalleeAt
<1> QED  BY <1>1, <1>2, <1>3, <1>4, <1>6, <1>7, CallsExpression

(* A statement calls the emitter of an expression before it changes the    *)
(* stack.                                                                  *)
LEMMA StatementEvaluates ==
  ASSUME Accounting, Running, ~IsExpression(Top), NEW f \in Activations, NEW v \in Nat,
         frames' = Calling(f, Activation("expression", Awaited(f), stack', v)),
         InControl(f), AwaitsExpression(f), Alike(f, Top), ValueDiscipline(f),
         stack' = stack, text' = text, Inner(f) = Inner(Top), FrameDiscipline(f),
         stack.allocated = Innermost(stack)
  PROVE  StackDiscipline' /\ JumpsAgree'
<1>1. /\ Len(stack.scopes) \in Nat \ {0} /\ Len(stack.scopes) = Inner(Top)
      /\ stack \in ScopedStacks /\ Top \in Activations
      /\ text \in Seq(Instructions) /\ JumpsAgree
  BY Accounts
<1>2. Kept /\ JumpsAgree'
  BY <1>1, NothingEmitted
<1>3. Top.scope <= Len(stack.scopes)
  BY <1>1, ScopeNumbers
<1>4. Undisturbed
  <2>1. stack' \in ScopedStacks /\ Top.scope <= Len(stack'.scopes)
    BY <1>1, <1>2, <1>3
  <2>2. \A k \in 1 .. Top.scope : stack'.scopes[k] = stack.scopes[k]
    BY <1>1, <1>2, <1>3
  <2>3. Running /\ text' \in Seq(Instructions) /\ Kept /\ JumpsAgree'
    BY <1>1, <1>2, <1>3
  <2> QED  BY <2>1, <2>2, <2>3, LeavesUndisturbed
<1>6. FrameDiscipline(f)'
  BY DEF FrameDiscipline, CompiledFor, Label
<1>7. CalleeAt(f)' = stack.allocated
  BY <1>1 DEF CalleeAt, Alike, IsExpression, Innermost
<1> QED  BY <1>1, <1>2, <1>4, <1>6, <1>7, CallsExpression

(* An expression is entered: what its activation holds.                    *)
EnteredExpression == Running /\ Top.step = "enter" /\ IsExpression(Top)

(* What its activation finds then.                                         *)
LEMMA EntersExpression ==
  ASSUME Accounting, EnteredExpression
  PROVE  /\ Top.kind = "?" /\ Top.args = <<>> /\ Top.argsize = 0 /\ stack.allocated = Top.at
         /\ stack \in ScopedStacks /\ Top.at \in Int /\ Len(locals) \in Nat
         /\ text \in Seq(Instructions) /\ JumpsAgree /\ Top \in Activations
         /\ signature \in Signatures /\ stack.allocated \in Int
<1>1. Running /\ Top.step = "enter" /\ Top.routine = "expression"
  BY DEF EnteredExpression, IsExpression
<1>2. InControl(Top) /\ ValueDiscipline(Top) /\ TopDiscipline(Top) /\ Top \in Activations
  BY <1>1, Accounts
<1>3. Top.kind = "?"
  BY <1>1, <1>2 DEF InControl, KindsOf, StepsOf
<1>4. Top.args = <<>> /\ Top.argsize = 0
  BY <1>2, <1>3 DEF ValueDiscipline
<1>5. stack.allocated = Top.at
  BY <1>1, <1>2 DEF TopDiscipline, AwaitsExpression
<1> QED  BY <1>1, <1>2, <1>3, <1>4, <1>5, Accounts, Context, ActivationFields DEF Accounting

(* It emits the expression of its first operand before anything else.      *)
LEMMA EvaluatesFirst ==
  ASSUME Accounting, EnteredExpression, NEW f \in Activations,
         frames' = Calling(f, Expression(Awaited(f), stack)),
         InControl(f), AwaitsExpression(f), Alike(f, Top), ValueDiscipline(f), Held(f) = 0,
         stack' = stack, text' = text
  PROVE  StackDiscipline' /\ JumpsAgree'
<1>1. /\ Running /\ IsExpression(Top) /\ stack \in ScopedStacks /\ Len(locals) \in Nat
      /\ text \in Seq(Instructions) /\ JumpsAgree
  BY EntersExpression DEF EnteredExpression
<1>2. Kept /\ JumpsAgree'
  BY <1>1, NothingEmitted
<1>3. stack'.allocated = f.at + Held(f)
  BY EntersExpression DEF Alike
<1>4. frames' = Calling(f, Activation("expression", Awaited(f), stack', Len(locals)))
  BY DEF Expression
<1> QED  BY <1>1, <1>2, <1>3, <1>4, Nested

(* The left operand.                                                       *)
LEMMA BeginBinaryAccounts ==
  ASSUME Accounting, BeginBinaryStep PROVE StackDiscipline' /\ JumpsAgree'
<1>1. Running /\ Top.step = "enter" /\ Top.routine = "expression"
  BY DEF BeginBinaryStep, Goes, Entering
<1>2. PICK l \in ValueTypes, r \in ValueTypes :
        frames' = Calling([Top EXCEPT !.kind = "binary", !.step = "left", !.left = l, !.right = r],
                          Expression(l, stack))
  BY DEF BeginBinaryStep, Goes
<1> DEFINE f == [Top EXCEPT !.kind = "binary", !.step = "left", !.left = l, !.right = r]
<1>3. EnteredExpression
  BY <1>1 DEF EnteredExpression, IsExpression
<1>4. /\ f \in Activations /\ Alike(f, Top) /\ f.kind = "binary" /\ f.step = "left"
      /\ f.left = l /\ f.args = Top.args /\ f.argsize = Top.argsize
  BY <1>1, <1>2, Accounts, Sizes DEF ValueTypes, Activations, Kinds, Steps, Alike
<1>5. stack' = stack /\ text' = text /\ frames' = Calling(f, Expression(l, stack))
  BY <1>2 DEF BeginBinaryStep, Goes
<1> HIDE DEF f
<1>6. ValueDiscipline(f) /\ Held(f) = 0 /\ Awaited(f) = l /\ AwaitsExpression(f) /\ InControl(f)
  BY <1>1, <1>3, <1>4, EntersExpression
     DEF ValueDiscipline, Held, Awaited, AwaitsExpression, InControl, KindsOf, StepsOf, Alike
<1>7. l \in Types
  BY DEF ValueTypes
<1> QED  BY <1>7, <1>3, <1>4, <1>5, <1>6, EvaluatesFirst

(* The right operand.                                                      *)
LEMMA BinaryRightAccounts ==
  ASSUME Accounting, BinaryRightStep PROVE StackDiscipline' /\ JumpsAgree'
<1> DEFINE f == [Top EXCEPT !.step = "right", !.slot = result]
<1>1. /\ Running /\ Top.kind = "binary" /\ Top.step = "left"
      /\ AwaitsExpression(Top) /\ Awaited(Top) = Top.left /\ Held(Top) = 0
  BY DEF BinaryRightStep, Goes, At, AwaitsExpression, Awaited, Held
<1>2. /\ IsExpression(Top) /\ stack \in ScopedStacks
      /\ stack.allocated = Top.at + Slot[Top.left] /\ result = stack.allocated
      /\ Top.args = <<>> /\ Top.argsize = 0 /\ text \in Seq(Instructions) /\ JumpsAgree
  <2>1. IsExpression(Top) /\ Top.args = <<>> /\ Top.argsize = 0
    BY <1>1, ExpressionNodes, Accounts DEF ValueDiscipline
  <2> QED  BY <1>1, <2>1, ExpressionNodes, ValueFound DEF CalleeAt
<1>3. /\ Len(locals) \in Nat /\ result \in Int /\ Top \in Activations /\ InControl(Top)
  BY <1>1, Context DEF Accounting
<1>4. /\ f \in Activations /\ Alike(f, Top) /\ f.kind = "binary" /\ f.step = "right"
      /\ f.left = Top.left /\ f.right = Top.right /\ f.args = Top.args /\ f.argsize = Top.argsize
      /\ f.slot = result /\ f.routine = Top.routine
  BY <1>1, <1>3 DEF Activations, Kinds, Steps, Alike
<1>5. stack' = stack /\ text' = text /\ frames' = Calling(f, Expression(Top.right, stack))
  BY DEF BinaryRightStep, Goes
<1> HIDE DEF f
<1>6. /\ ValueDiscipline(f) /\ Held(f) = Slot[Top.left] /\ Awaited(f) = Top.right
      /\ AwaitsExpression(f) /\ InControl(f)
  <2>1. Held(f) = Slot[Top.left] /\ Awaited(f) = Top.right /\ AwaitsExpression(f)
    BY <1>4 DEF Held, Awaited, AwaitsExpression
  <2>2. InControl(f)
    BY <1>1, <1>3, <1>4 DEF InControl, StepsOf
  <2>3. ValueDiscipline(f)
    BY <1>2, <1>4 DEF ValueDiscipline, Alike
  <2> QED  BY <2>1, <2>2, <2>3
<1>7. Kept /\ JumpsAgree'
  BY <1>2, <1>5, NothingEmitted
<1>8. /\ frames' = Calling(f, Activation("expression", Awaited(f), stack', Len(locals)))
      /\ stack'.allocated = f.at + Held(f)
  BY <1>2, <1>4, <1>5, <1>6 DEF Expression, Alike
<1> QED  BY <1>1, <1>2, <1>3, <1>4, <1>5, <1>6, <1>7, <1>8, Nested

(* The next argument.                                                      *)
LEMMA BeginArgumentAccounts ==
  ASSUME Accounting, BeginArgumentStep PROVE StackDiscipline' /\ JumpsAgree'
<1>1. Running /\ Top.kind = "call" /\ Top.step = "arguments"
  BY DEF BeginArgumentStep, Goes, At
<1>2. PICK t \in ValueTypes :
        frames' = Calling([Top EXCEPT !.step = "argument", !.left = t], Expression(t, stack))
  BY DEF BeginArgumentStep, Goes, Accepted
<1> DEFINE f == [Top EXCEPT !.step = "argument", !.left = t]
<1>3. /\ IsExpression(Top) /\ stack \in ScopedStacks /\ Top \in Activations /\ InControl(Top)
      /\ stack.allocated = Top.at + (Slot[Top.type] + Top.argsize)
      /\ Top.slot = Top.at + Slot[Top.type] /\ text \in Seq(Instructions) /\ JumpsAgree
  <2>1. Held(Top) = Slot[Top.type] + Top.argsize
    BY <1>1 DEF Held
  <2>2. stack.allocated = Top.at + Held(Top)
    BY <1>1, Accounts DEF TopDiscipline, AwaitsExpression
  <2>3. Top.slot = Top.at + Slot[Top.type]
    BY <1>1, Accounts DEF ValueDiscipline
  <2> QED  BY <1>1, <2>1, <2>2, <2>3, Accounts, ExpressionNodes
<1>4. Len(locals) \in Nat
  BY <1>1, Context DEF Accounting
<1>5. /\ f \in Activations /\ Alike(f, Top) /\ f.kind = "call" /\ f.step = "argument"
      /\ f.left = t /\ f.type = Top.type /\ f.argsize = Top.argsize /\ f.slot = Top.slot
      /\ f.routine = Top.routine /\ f.at = Top.at
  BY <1>1, <1>2, <1>3, Sizes DEF Activations, Kinds, Steps, Alike
<1>6. stack' = stack /\ text' = text /\ frames' = Calling(f, Expression(t, stack))
  BY <1>2 DEF BeginArgumentStep, Goes
<1> HIDE DEF f
<1>7. /\ ValueDiscipline(f) /\ Held(f) = Slot[Top.type] + Top.argsize /\ Awaited(f) = t
      /\ AwaitsExpression(f) /\ InControl(f)
  <2>1. Held(f) = Slot[Top.type] + Top.argsize
    BY <1>5 DEF Held
  <2>2. Awaited(f) = t /\ AwaitsExpression(f)
    BY <1>5 DEF Awaited, AwaitsExpression
  <2>3. InControl(f)
    BY <1>1, <1>3, <1>5 DEF InControl, StepsOf
  <2>4. ValueDiscipline(f)
    BY <1>3, <1>5 DEF ValueDiscipline
  <2> QED  BY <2>1, <2>2, <2>3, <2>4
<1>8. Kept /\ JumpsAgree'
  BY <1>3, <1>6, NothingEmitted
<1>9. /\ frames' = Calling(f, Activation("expression", Awaited(f), stack', Len(locals)))
      /\ stack'.allocated = f.at + Held(f)
  BY <1>3, <1>5, <1>6, <1>7 DEF Expression
<1> QED  BY <1>1, <1>3, <1>4, <1>5, <1>6, <1>7, <1>8, <1>9, Nested

(* The right side of an assignment, of a type with the same slot.          *)
LEMMA BeginAssignAccounts ==
  ASSUME Accounting, StraightFeatures, BeginAssignStep PROVE StackDiscipline' /\ JumpsAgree'
<1>1. Running /\ Top.step = "enter" /\ Top.routine = "expression"
  BY DEF BeginAssignStep, Goes, Entering
<1>2. PICK local \in Locals, t \in Accepted(Top.type, "widening_assignment") :
        frames' = Calling([Top EXCEPT !.kind = "assign", !.step = "value",
                                      !.slot = local.offset, !.left = t],
                          Expression(t, stack))
  <2>1. Visible \subseteq Locals
    BY <1>1, Context DEF Accounting, Visible
  <2> QED  BY <2>1 DEF BeginAssignStep, Goes, Targets
<1>0. t \in Types /\ Slot[t] = Slot[Top.type]
  BY DEF Accepted, StraightFeatures, OneSlot, CanImplicitlyCast, ValueTypes
<1> DEFINE f == [Top EXCEPT !.kind = "assign", !.step = "value",
                            !.slot = local.offset, !.left = t]
<1>3. EnteredExpression
  BY <1>1 DEF EnteredExpression, IsExpression
<1>4. /\ f \in Activations /\ Alike(f, Top) /\ f.kind = "assign" /\ f.step = "value"
      /\ f.left = t /\ f.type = Top.type /\ f.args = Top.args /\ f.argsize = Top.argsize
      /\ f.routine = "expression"
  BY <1>0, <1>1, <1>2, Accounts DEF Activations, Kinds, Steps, Alike, Locals
<1>5. stack' = stack /\ text' = text /\ frames' = Calling(f, Expression(t, stack))
  BY <1>2 DEF BeginAssignStep, Goes
<1> HIDE DEF f
<1>6. ValueDiscipline(f) /\ Held(f) = 0 /\ Awaited(f) = t /\ AwaitsExpression(f) /\ InControl(f)
  BY <1>0, <1>3, <1>4, EntersExpression
     DEF ValueDiscipline, Held, Awaited, AwaitsExpression, InControl, KindsOf, StepsOf
<1> QED  BY <1>0, <1>3, <1>4, <1>5, <1>6, EvaluatesFirst

(* The value of a cast.                                                    *)
LEMMA BeginCastAccounts ==
  ASSUME Accounting, BeginCastStep PROVE StackDiscipline' /\ JumpsAgree'
<1>1. Running /\ Top.step = "enter" /\ Top.routine = "expression"
  BY DEF BeginCastStep, Goes, Entering
<1>2. PICK from \in IntegerTypes :
        /\ Slot[from] >= Slot[Top.type]
        /\ frames' = Calling([Top EXCEPT !.kind = "cast", !.step = "value", !.left = from],
                             Expression(from, stack))
  BY DEF BeginCastStep, Goes
<1> DEFINE f == [Top EXCEPT !.kind = "cast", !.step = "value", !.left = from]
<1>3. EnteredExpression
  BY <1>1 DEF EnteredExpression, IsExpression
<1>4. /\ f \in Activations /\ Alike(f, Top) /\ f.kind = "cast" /\ f.step = "value"
      /\ f.left = from /\ f.type = Top.type /\ f.args = Top.args /\ f.argsize = Top.argsize
      /\ f.routine = "expression"
  BY <1>1, <1>2, Accounts, Sizes DEF Activations, Kinds, Steps, Alike
<1>5. stack' = stack /\ text' = text /\ frames' = Calling(f, Expression(from, stack))
  BY <1>2 DEF BeginCastStep, Goes
<1> HIDE DEF f
<1>6. ValueDiscipline(f) /\ Held(f) = 0 /\ Awaited(f) = from /\ AwaitsExpression(f) /\ InControl(f)
  BY <1>2, <1>3, <1>4, EntersExpression
     DEF ValueDiscipline, Held, Awaited, AwaitsExpression, InControl, KindsOf, StepsOf
<1> QED  BY <1>3, <1>4, <1>5, <1>6, EvaluatesFirst

(* The string of a member access.                                          *)
LEMMA BeginMemberAccounts ==
  ASSUME Accounting, BeginMemberStep PROVE StackDiscipline' /\ JumpsAgree'
<1> DEFINE c == CommitStack(PushStack(stack, Slot[Top.type]))
           f == [Top EXCEPT !.kind = "member", !.step = "string", !.slot = c.allocated]
<1>1. Running /\ Top.step = "enter" /\ Top.routine = "expression"
  BY DEF BeginMemberStep, Goes, Pushed, Entering
<1>2. EnteredExpression /\ IsExpression(Top)
  BY <1>1 DEF EnteredExpression, IsExpression
<1>3. /\ c \in ScopedStacks /\ c.scopes = stack.scopes /\ Slot[Top.type] \in Int
      /\ c.allocated = Top.at + Slot[Top.type] /\ c.allocated \in Int
  <2>1. Top.at \in Int /\ Slot[Top.type] \in Int /\ stack \in ScopedStacks /\ stack.allocated = Top.at
    BY <1>2, EntersExpression, ActivationFields, Sizes
  <2>2. c \in ScopedStacks /\ c.scopes = stack.scopes /\ c.allocated = Top.at + Slot[Top.type]
    BY <2>1, CommittedPush, ZenonT(30)
  <2> HIDE DEF c
  <2> QED  BY <2>1, <2>2
<1>4. /\ stack' = c /\ Emits
      /\ frames' = Calling(f, Expression(String, c))
  BY DEF BeginMemberStep, Goes, Pushed
<1> HIDE DEF c
<1>5. /\ f \in Activations /\ Alike(f, Top) /\ f.kind = "member" /\ f.step = "string"
      /\ f.slot = c.allocated /\ f.type = Top.type /\ f.args = Top.args /\ f.argsize = Top.argsize
      /\ f.routine = "expression" /\ f.at = Top.at
  BY <1>1, <1>3, Accounts DEF Activations, Kinds, Steps, Alike
<1> HIDE DEF f
<1>6. /\ ValueDiscipline(f) /\ Held(f) = Slot[Top.type] /\ Awaited(f) = String
      /\ AwaitsExpression(f) /\ InControl(f)
  BY <1>2, <1>3, <1>5, EntersExpression
     DEF ValueDiscipline, Held, Awaited, AwaitsExpression, InControl, KindsOf, StepsOf
<1>7. text' \in Seq(Instructions) /\ Kept /\ JumpsAgree'
  BY <1>1, <1>3, <1>4, EmitsKept
<1>8. /\ frames' = Calling(f, Activation("expression", Awaited(f), stack', Len(locals)))
      /\ stack'.allocated = f.at + Held(f) /\ Len(locals) \in Nat
  BY <1>2, <1>3, <1>4, <1>5, <1>6, EntersExpression DEF Expression
<1> QED  BY <1>1, <1>2, <1>3, <1>4, <1>5, <1>6, <1>7, <1>8, Nested

-----------------------------------------------------------------------------
(* Steps within a handler.                                                 *)

(* The slot for the result of a call.                                      *)
LEMMA BeginCallAccounts ==
  ASSUME Accounting, BeginCallStep PROVE StackDiscipline' /\ JumpsAgree'
<1> DEFINE c == PushStack(stack, Slot[Top.type])
<1>1. Running /\ Top.step = "enter" /\ Top.routine = "expression"
  BY DEF BeginCallStep, Goes, Entering
<1>2. EnteredExpression /\ IsExpression(Top)
  BY <1>1 DEF EnteredExpression, IsExpression
<1>3. /\ c \in ScopedStacks /\ c.scopes = stack.scopes /\ c.committed = stack.committed
      /\ c.allocated = Top.at + Slot[Top.type] /\ c.allocated \in Int
      /\ Slot[Top.type] \in Int /\ Top.at \in Int
  <2>1. Top.at \in Int /\ Slot[Top.type] \in Int /\ stack \in ScopedStacks /\ stack.allocated = Top.at
    BY <1>2, EntersExpression, ActivationFields, Sizes
  <2>2. /\ c \in ScopedStacks /\ c.scopes = stack.scopes /\ c.allocated = Top.at + Slot[Top.type]
        /\ c.committed = stack.committed
    <3>1. /\ c \in ScopedStacks /\ c.scopes = stack.scopes /\ c.committed = stack.committed
          /\ c.allocated = stack.allocated + Slot[Top.type]
      BY <2>1, Committed
    <3> HIDE DEF c
    <3> QED  BY <2>1, <3>1
  <2> HIDE DEF c
  <2> QED  BY <2>1, <2>2
<1>4. PICK callee \in Signatures :
        frames' = Becoming([Top EXCEPT !.kind = "call", !.step = "arguments",
                                       !.slot = c.allocated, !.callee = callee])
  BY DEF BeginCallStep, Goes
<1> DEFINE next == [Top EXCEPT !.kind = "call", !.step = "arguments",
                               !.slot = c.allocated, !.callee = callee]
<1>5. stack' = c /\ text' = text /\ frames' = Becoming(next)
  BY <1>4 DEF BeginCallStep, Goes
<1> HIDE DEF c
<1>6. PICK f \in Activations :
      /\ f = next /\ Alike(f, Top) /\ f.kind = "call" /\ f.step = "arguments"
      /\ f.slot = c.allocated /\ f.type = Top.type /\ f.args = Top.args /\ f.argsize = Top.argsize
      /\ f.routine = "expression" /\ f.at = Top.at /\ f.scope = Top.scope
  <2>1. next \in Activations
    BY <1>1, <1>3, Accounts DEF Activations, Kinds, Steps
  <2> QED  BY <1>1, <1>3, <2>1, Accounts DEF Activations, Alike
<1> HIDE DEF next
<1>7. /\ Top.kind = "?" /\ f.args = <<>> /\ f.argsize = 0
      /\ text \in Seq(Instructions) /\ JumpsAgree
  BY <1>2, <1>6, EntersExpression
<1>8. Kept /\ JumpsAgree'
  BY <1>3, <1>5, <1>7, NothingEmitted
<1>9. /\ Len(stack.scopes) \in Nat \ {0} /\ Len(stack.scopes) = Inner(Top)
      /\ FrameDiscipline(Top) /\ Top \in Activations
      /\ ~Scoped(Top) /\ ~Scoped(f) /\ IsExpression(f)
  BY <1>1, <1>6, <1>7, Accounts DEF Scoped, IsExpression
<1>10. Inner(Top) = Top.scope /\ Inner(f) = Top.scope
  BY <1>6, <1>9, ScopeNumbers
<1>11. Undisturbed
  <2>1. stack' \in ScopedStacks /\ Top.scope <= Len(stack'.scopes)
    BY <1>1, <1>3, <1>5, <1>7, <1>8, <1>9, <1>10
  <2>2. \A k \in 1 .. Top.scope : stack'.scopes[k] = stack.scopes[k]
    BY <1>1, <1>3, <1>5, <1>7, <1>8, <1>9, <1>10
  <2>3. Running /\ text' \in Seq(Instructions) /\ Kept /\ JumpsAgree'
    BY <1>1, <1>3, <1>5, <1>7, <1>8, <1>9, <1>10
  <2> QED  BY <2>1, <2>2, <2>3, LeavesUndisturbed
<1>12. FrameDiscipline(f)'
  <2>1. stack'.scopes[f.scope] <= f.at
    BY <1>2, <1>3, <1>5, <1>6, <1>7, <1>9 DEF FrameDiscipline
  <2> QED  BY <1>3, <1>5, <1>6, <1>9, <1>10, <2>1 DEF FrameDiscipline, WaitingForPatch
<1>13. ValueDiscipline(f)
  BY <1>3, <1>6 DEF ValueDiscipline
<1>14. TopDiscipline(f)'
  <2>1. Held(f) = Slot[f.type] + 0
    BY <1>6, <1>7 DEF Held
  <2>2. stack'.allocated = f.at + Held(f)
    BY <1>3, <1>5, <1>6, <2>1
  <2> QED  BY <1>3, <1>5, <1>6, <1>7, <1>9, <1>10, <2>2 DEF TopDiscipline, AwaitsExpression
<1> QED  BY <1>1, <1>5, <1>6, <1>8, <1>11, <1>12, <1>13, <1>14, UpdateAccounts

(* An argument is emitted.                                                 *)
LEMMA EndArgumentAccounts ==
  ASSUME Accounting, EndArgumentStep PROVE StackDiscipline' /\ JumpsAgree'
<1> DEFINE a == [offset |-> result, size |-> Slot[Top.left]]
           next == [Top EXCEPT !.step = "arguments", !.args = Append(@, a),
                               !.argsize = @ + Slot[Top.left]]
<1>1. /\ Running /\ Top.kind = "call" /\ Top.step = "argument"
      /\ AwaitsExpression(Top) /\ Awaited(Top) = Top.left
      /\ Held(Top) = Slot[Top.type] + Top.argsize
  BY DEF EndArgumentStep, Goes, At, AwaitsExpression, Awaited, Held
<1>2. /\ IsExpression(Top) /\ stack \in ScopedStacks /\ stack.committed = stack.allocated
      /\ stack.allocated = (Top.at + (Slot[Top.type] + Top.argsize)) + Slot[Top.left]
      /\ Top.at \in Int /\ Slot[Top.type] \in Int /\ Slot[Top.left] \in Int /\ Top.argsize \in Int
      /\ text \in Seq(Instructions) /\ JumpsAgree
  <2>1. IsExpression(Top)
    BY <1>1, ExpressionNodes
  <2> QED  BY <1>1, <2>1, ExpressionNodes, ValueFound DEF CalleeAt
<1>3. Top \in Activations /\ result \in Int /\ Top.argsize \in Nat /\ Slot[Top.left] \in Nat
  BY <1>1, Context, ActivationFields, Sizes DEF Accounting
<1>4. stack' = stack /\ text' = text /\ frames' = Becoming(next)
  BY DEF EndArgumentStep, Goes
<1>5. next \in Activations
  <2>1. a \in [offset : Int, size : Nat]
    BY <1>3
  <2>2. Append(Top.args, a) \in Seq([offset : Int, size : Nat])
    <3>1. Top.args \in Seq([offset : Int, size : Nat])
      BY <1>3 DEF Activations
    <3> HIDE DEF a
    <3> QED  BY <2>1, <3>1
  <2>3. Top.argsize + Slot[Top.left] \in Nat
    BY <1>3
  <2> HIDE DEF a
  <2> QED  BY <1>3, <2>2, <2>3 DEF Activations, Steps
<1>6. PICK f \in Activations :
      /\ f = next /\ Alike(f, Top) /\ f.kind = "call" /\ f.step = "arguments"
      /\ f.slot = Top.slot /\ f.type = Top.type /\ f.argsize = Top.argsize + Slot[Top.left]
      /\ f.routine = Top.routine /\ f.at = Top.at /\ f.scope = Top.scope
  BY <1>1, <1>3, <1>5 DEF Activations, Alike
<1> HIDE DEF next
<1>7. Kept /\ JumpsAgree'
  BY <1>2, <1>4, NothingEmitted
<1>8. /\ Len(stack.scopes) \in Nat \ {0} /\ Len(stack.scopes) = Inner(Top)
      /\ FrameDiscipline(Top) /\ ValueDiscipline(Top)
      /\ ~Scoped(Top) /\ ~Scoped(f) /\ IsExpression(f)
  BY <1>1, <1>2, <1>6, Accounts DEF Scoped, IsExpression
<1>9. Inner(Top) = Top.scope /\ Inner(f) = Top.scope
  BY <1>3, <1>5, <1>6, <1>8, ScopeNumbers
<1>10. Undisturbed
  <2>1. stack' \in ScopedStacks /\ Top.scope <= Len(stack'.scopes)
    BY <1>1, <1>2, <1>4, <1>7, <1>8, <1>9
  <2>2. \A k \in 1 .. Top.scope : stack'.scopes[k] = stack.scopes[k]
    BY <1>1, <1>2, <1>4, <1>7, <1>8, <1>9
  <2>3. Running /\ text' \in Seq(Instructions) /\ Kept /\ JumpsAgree'
    BY <1>1, <1>2, <1>4, <1>7, <1>8, <1>9
  <2> QED  BY <2>1, <2>2, <2>3, LeavesUndisturbed
<1>11. FrameDiscipline(f)'
  <2>1. stack'.scopes[f.scope] <= f.at
    BY <1>1, <1>2, <1>4, <1>6, <1>8 DEF FrameDiscipline
  <2> QED  BY <1>2, <1>4, <1>6, <1>8, <1>9, <2>1 DEF FrameDiscipline, WaitingForPatch
<1>12. ValueDiscipline(f)
  BY <1>1, <1>6, <1>8 DEF ValueDiscipline
<1>13. TopDiscipline(f)'
  <2>1. Held(f) = Slot[Top.type] + (Top.argsize + Slot[Top.left])
    BY <1>6 DEF Held
  <2>2. stack'.allocated = f.at + Held(f)
    BY <1>2, <1>4, <1>6, <2>1
  <2> QED  BY <1>2, <1>4, <1>6, <1>8, <1>9, <2>2 DEF TopDiscipline, AwaitsExpression
<1> QED  BY <1>1, <1>4, <1>5, <1>6, <1>7, <1>10, <1>11, <1>12, <1>13, UpdateAccounts

-----------------------------------------------------------------------------
(* Statements that call the emitter of an expression.                      *)

(* A statement is entered: what its activation holds.                      *)
EnteredStatement == Running /\ Top.step = "enter" /\ ~IsExpression(Top)

(* What its activation finds then.                                         *)
LEMMA EntersStatement ==
  ASSUME Accounting, EnteredStatement
  PROVE  /\ Top.kind = "?" /\ Top.args = <<>> /\ Top.argsize = 0
         /\ Top.scope \in Nat \ {0} /\ Inner(Top) = Top.scope /\ Len(stack.scopes) = Top.scope
         /\ stack.allocated = Top.at /\ stack.scopes[Top.scope] = Top.at
         /\ Innermost(stack) = Top.at /\ Top.at \in Int
         /\ Top \in Activations /\ stack \in ScopedStacks /\ Len(locals) \in Nat
         /\ text \in Seq(Instructions) /\ JumpsAgree
<1>1. Running /\ Top.step = "enter" /\ ~IsExpression(Top)
  BY DEF EnteredStatement
<1>2. /\ InControl(Top) /\ FrameDiscipline(Top) /\ ValueDiscipline(Top) /\ TopDiscipline(Top)
      /\ Top \in Activations /\ stack \in ScopedStacks
      /\ Len(stack.scopes) = Inner(Top) /\ Len(stack.scopes) \in Nat \ {0}
      /\ text \in Seq(Instructions) /\ JumpsAgree
  BY <1>1, Accounts
<1>3. Top.kind = "?"
  BY <1>1, <1>2 DEF InControl, KindsOf, StepsOf
<1>4. Top.args = <<>> /\ Top.argsize = 0
  BY <1>2, <1>3 DEF ValueDiscipline
<1>5. stack.allocated = Top.at
  BY <1>1, <1>2 DEF TopDiscipline, AwaitsExpression
<1>6. Inner(Top) = Top.scope
  <2>1. ~Scoped(Top)
    BY <1>1, <1>3 DEF Scoped
  <2> QED  BY <1>2, <2>1, ScopeNumbers
<1>7. stack.scopes[Top.scope] = Top.at
  BY <1>1, <1>2, <1>3 DEF FrameDiscipline
<1>8. Top.at \in Int /\ Len(locals) \in Nat
  BY <1>1, <1>2, Context, ActivationFields DEF Accounting
<1> QED  BY <1>2, <1>3, <1>4, <1>5, <1>6, <1>7, <1>8 DEF Innermost

(* A statement whose first act is to emit an expression.                   *)
LEMMA StatementEvaluatesFirst ==
  ASSUME Accounting, EnteredStatement, NEW f \in Activations,
         f.kind \in {"discard", "if", "return"}, f.step \in {"value", "condition"},
         InControl(f), f.routine = Top.routine, f.scope = Top.scope, f.at = Top.at,
         f.args = Top.args, f.argsize = Top.argsize,
         frames' = Calling(f, Expression(Awaited(f), stack)),
         stack' = stack, text' = text
  PROVE  StackDiscipline' /\ JumpsAgree'
<1>1. /\ Top.kind = "?" /\ Top.args = <<>> /\ Top.argsize = 0
      /\ Top.scope \in Nat \ {0} /\ Inner(Top) = Top.scope /\ Len(stack.scopes) = Top.scope
      /\ stack.scopes[Top.scope] = Top.at /\ stack.allocated = Innermost(stack)
      /\ Len(locals) \in Nat /\ Running /\ ~IsExpression(Top) /\ Top.scope \in Nat
  BY EntersStatement DEF EnteredStatement
<1>2. AwaitsExpression(f) /\ Alike(f, Top) /\ ~Scoped(f) /\ ~WaitingForPatch(f) /\ ~IsExpression(f)
  BY <1>1 DEF AwaitsExpression, Alike, Scoped, WaitingForPatch, IsExpression
<1>3. Inner(f) = Inner(Top)
  BY <1>1, <1>2, ScopeNumbers
<1>4. ValueDiscipline(f)
  BY <1>1 DEF ValueDiscipline
<1>5. FrameDiscipline(f)
  BY <1>1, <1>2, <1>3 DEF FrameDiscipline
<1>6. frames' = Calling(f, Activation("expression", Awaited(f), stack', Len(locals)))
  BY DEF Expression
<1> QED  BY <1>1, <1>2, <1>3, <1>4, <1>5, <1>6, StatementEvaluates

(* The value of an expression statement.                                   *)
LEMMA BeginDiscardAccounts ==
  ASSUME Accounting, BeginDiscardStep PROVE StackDiscipline' /\ JumpsAgree'
<1>1. Running /\ Top.step = "enter" /\ Top.routine \in {"statement", "loop_body"}
  BY DEF BeginDiscardStep, Goes, Entering
<1>2. PICK t \in Types :
        frames' = Calling([Top EXCEPT !.kind = "discard", !.step = "value", !.left = t],
                          Expression(t, stack))
  BY DEF BeginDiscardStep, Goes
<1> DEFINE f == [Top EXCEPT !.kind = "discard", !.step = "value", !.left = t]
<1>3. EnteredStatement
  BY <1>1 DEF EnteredStatement, IsExpression
<1>4. /\ f \in Activations /\ f.kind = "discard" /\ f.step = "value" /\ f.left = t
      /\ f.routine = Top.routine /\ f.scope = Top.scope /\ f.at = Top.at
      /\ f.args = Top.args /\ f.argsize = Top.argsize
  BY <1>1, <1>2, Accounts DEF Activations, Kinds, Steps
<1>5. stack' = stack /\ text' = text /\ frames' = Calling(f, Expression(t, stack))
  BY <1>2 DEF BeginDiscardStep, Goes
<1> HIDE DEF f
<1>6. Awaited(f) = t /\ InControl(f)
  BY <1>1, <1>4 DEF Awaited, InControl, KindsOf, StepsOf
<1> QED  BY <1>3, <1>4, <1>5, <1>6, StatementEvaluatesFirst

(* The condition of an if.                                                 *)
LEMMA BeginIfAccounts ==
  ASSUME Accounting, BeginIfStep PROVE StackDiscipline' /\ JumpsAgree'
<1>1. Running /\ Top.step = "enter" /\ Top.routine \in {"statement", "loop_body"}
  BY DEF BeginIfStep, Goes, Entering
<1> DEFINE f == [Top EXCEPT !.kind = "if", !.step = "condition"]
<1>3. EnteredStatement
  BY <1>1 DEF EnteredStatement, IsExpression
<1>4. /\ f \in Activations /\ f.kind = "if" /\ f.step = "condition"
      /\ f.routine = Top.routine /\ f.scope = Top.scope /\ f.at = Top.at
      /\ f.args = Top.args /\ f.argsize = Top.argsize
  BY <1>1, Accounts DEF Activations, Kinds, Steps
<1>5. stack' = stack /\ text' = text /\ frames' = Calling(f, Expression(Bool, stack))
  BY DEF BeginIfStep, Goes
<1> HIDE DEF f
<1>6. Awaited(f) = Bool /\ InControl(f)
  BY <1>1, <1>4 DEF Awaited, InControl, KindsOf, StepsOf
<1> QED  BY <1>3, <1>4, <1>5, <1>6, StatementEvaluatesFirst

(* The value a function returns.                                           *)
LEMMA BeginReturnAccounts ==
  ASSUME Accounting, BeginReturnStep PROVE StackDiscipline' /\ JumpsAgree'
<1>1. Running /\ Top.step = "enter" /\ Top.routine \in {"statement", "loop_body"}
  BY DEF BeginReturnStep, Goes, Entering
<1>2. PICK t \in Types :
        frames' = Calling([Top EXCEPT !.kind = "return", !.step = "value", !.left = t],
                          Expression(t, stack))
  <2>1. ReturnTypes \subseteq Types
    <3>1. signature.returns \in Types
      BY <1>1, Context, SignaturesAssumption DEF Accounting
    <3> QED  BY <3>1, Sizes DEF ReturnTypes
  <2> QED  BY <2>1 DEF BeginReturnStep, Goes
<1> DEFINE f == [Top EXCEPT !.kind = "return", !.step = "value", !.left = t]
<1>3. EnteredStatement
  BY <1>1 DEF EnteredStatement, IsExpression
<1>4. /\ f \in Activations /\ f.kind = "return" /\ f.step = "value" /\ f.left = t
      /\ f.routine = Top.routine /\ f.scope = Top.scope /\ f.at = Top.at
      /\ f.args = Top.args /\ f.argsize = Top.argsize
  BY <1>1, <1>2, Accounts DEF Activations, Kinds, Steps
<1>5. stack' = stack /\ text' = text /\ frames' = Calling(f, Expression(t, stack))
  BY <1>2 DEF BeginReturnStep, Goes
<1> HIDE DEF f
<1>6. Awaited(f) = t /\ InControl(f)
  BY <1>1, <1>4 DEF Awaited, InControl, KindsOf, StepsOf
<1> QED  BY <1>3, <1>4, <1>5, <1>6, StatementEvaluatesFirst

(* What the activation of a loop holds.                                    *)
LEMMA InLoop ==
  ASSUME Accounting, Running, Top.kind = "for"
  PROVE  /\ ~IsExpression(Top) /\ Inner(Top) = Top.scope + 1 /\ Top.scope \in Nat \ {0}
         /\ Len(stack.scopes) = Top.scope + 1 /\ stack.scopes[Top.scope] = Top.at
         /\ Innermost(stack) = stack.scopes[Top.scope + 1] /\ Innermost(stack) \in Int
         /\ Top.args = <<>> /\ Top.argsize = 0 /\ Top \in Activations /\ InControl(Top)
         /\ stack \in ScopedStacks /\ text \in Seq(Instructions) /\ JumpsAgree
         /\ Len(locals) \in Nat /\ Top.visible \in Nat
<1>1. /\ InControl(Top) /\ FrameDiscipline(Top) /\ ValueDiscipline(Top)
      /\ Top \in Activations /\ stack \in ScopedStacks /\ Len(stack.scopes) = Inner(Top)
      /\ text \in Seq(Instructions) /\ JumpsAgree
      /\ Len(locals) \in Nat /\ Top.visible \in Nat
  BY Accounts, Context DEF Accounting
<1>2. ~IsExpression(Top)
  BY <1>1 DEF InControl, KindsOf, IsExpression
<1>3. Inner(Top) = Top.scope + 1 /\ Top.scope \in Nat
  <2>1. Scoped(Top)
    BY DEF Scoped
  <2> QED  BY <1>1, <2>1, ScopeNumbers
<1>4. Top.scope \in Nat \ {0} /\ stack.scopes[Top.scope] = Top.at
  BY <1>1, <1>2, <1>3 DEF FrameDiscipline
<1>5. Innermost(stack) = stack.scopes[Top.scope + 1] /\ Innermost(stack) \in Int
  <2>1. Innermost(stack) = stack.scopes[Top.scope + 1]
    BY <1>1, <1>3 DEF Innermost
  <2> QED  BY <1>1, <1>3, <2>1, ScopesType
<1>6. Top.args = <<>> /\ Top.argsize = 0
  BY <1>1 DEF ValueDiscipline
<1> QED  BY <1>1, <1>2, <1>3, <1>4, <1>5, <1>6

(* The condition of a loop: its label is compiled for the stack that the   *)
(* declaration left.                                                       *)
LEMMA ForConditionAccounts ==
  ASSUME Accounting, ForConditionStep PROVE StackDiscipline' /\ JumpsAgree'
<1>1. Running /\ Top.kind = "for" /\ Top.step = "declaration"
  BY DEF ForConditionStep, Goes, At
<1> DEFINE f == [Top EXCEPT !.step = "condition", !.start = Label]
<1>2. /\ stack.allocated = Innermost(stack) /\ stack.committed = Innermost(stack)
      /\ Label \in Nat /\ FrameDiscipline(Top)
  <2>1. Label \in Nat
    BY <1>1, InLoop DEF Label
  <2> QED  BY <1>1, <2>1, Accounts DEF TopDiscipline, AwaitsExpression
<1>3. /\ f \in Activations /\ f.kind = "for" /\ f.step = "condition" /\ f.start = Label
      /\ f.routine = Top.routine /\ f.scope = Top.scope /\ f.at = Top.at
      /\ f.args = Top.args /\ f.argsize = Top.argsize
  BY <1>1, <1>2, InLoop DEF Activations, Kinds, Steps
<1>4. stack' = stack /\ text' = text /\ frames' = Calling(f, Expression(Bool, stack))
  BY DEF ForConditionStep, Goes
<1> HIDE DEF f
<1>5. /\ AwaitsExpression(f) /\ Alike(f, Top) /\ Scoped(f) /\ ~WaitingForPatch(f) /\ ~IsExpression(f)
      /\ InControl(f) /\ Awaited(f) = Bool
  BY <1>1, <1>3, InLoop
     DEF AwaitsExpression, Alike, Scoped, WaitingForPatch, IsExpression, InControl, StepsOf,
          Awaited
<1>6. Inner(f) = Inner(Top)
  BY <1>1, <1>3, <1>5, InLoop, ScopeNumbers
<1>7. ValueDiscipline(f)
  BY <1>1, <1>3, InLoop DEF ValueDiscipline
<1>8. CompiledFor(f.start, stack.scopes[f.scope + 1])
  <2>1. Label \in 1 .. Label
    BY <1>1, InLoop DEF Label
  <2> QED  BY <1>1, <1>2, <1>3, <2>1, InLoop DEF CompiledFor
<1>9. FrameDiscipline(f)
  BY <1>1, <1>2, <1>3, <1>5, <1>6, <1>8, InLoop DEF FrameDiscipline
<1>10. frames' = Calling(f, Activation("expression", Awaited(f), stack', Len(locals)))
  BY <1>4, <1>5 DEF Expression
<1> QED  BY <1>1, <1>2, <1>3, <1>4, <1>5, <1>6, <1>7, <1>9, <1>10, InLoop, StatementEvaluates

(* The step of a loop.                                                     *)
LEMMA ForStepAccounts ==
  ASSUME Accounting, ForStepStep PROVE StackDiscipline' /\ JumpsAgree'
<1>1. Running /\ Top.kind = "for" /\ Top.step = "body"
  BY DEF ForStepStep, At
<1>2. PICK t \in Types :
        frames' = Calling([Top EXCEPT !.step = "step", !.left = t],
                          Activation("expression", t, stack, Top.visible + 1))
  BY DEF ForStepStep
<1> DEFINE f == [Top EXCEPT !.step = "step", !.left = t]
<1>3. stack.allocated = Innermost(stack) /\ FrameDiscipline(Top)
  BY <1>1, Accounts DEF TopDiscipline, AwaitsExpression
<1>4. /\ f \in Activations /\ f.kind = "for" /\ f.step = "step" /\ f.start = Top.start
      /\ f.patch = Top.patch /\ f.left = t
      /\ f.routine = Top.routine /\ f.scope = Top.scope /\ f.at = Top.at
      /\ f.args = Top.args /\ f.argsize = Top.argsize
  BY <1>1, <1>2, InLoop DEF Activations, Kinds, Steps
<1>5. /\ stack' = stack /\ text' = text
      /\ frames' = Calling(f, Activation("expression", t, stack, Top.visible + 1))
  BY <1>2 DEF ForStepStep
<1> HIDE DEF f
<1>6. /\ AwaitsExpression(f) /\ Alike(f, Top) /\ Scoped(f) /\ ~IsExpression(f)
      /\ InControl(f) /\ Awaited(f) = t
  BY <1>1, <1>4, InLoop
     DEF AwaitsExpression, Alike, Scoped, IsExpression, InControl, StepsOf, Awaited
<1>7. Inner(f) = Inner(Top)
  BY <1>1, <1>4, <1>6, InLoop, ScopeNumbers
<1>8. ValueDiscipline(f)
  BY <1>1, <1>4, InLoop DEF ValueDiscipline
<1>9. FrameDiscipline(f)
  <2>1. CompiledFor(f.start, stack.scopes[f.scope + 1])
    BY <1>1, <1>3, <1>4 DEF FrameDiscipline
  <2>2. /\ f.patch \in 1 .. Len(text) /\ text[f.patch].op = "je"
        /\ text[f.patch].depth = stack.scopes[f.scope + 1]
    BY <1>1, <1>3, <1>4 DEF FrameDiscipline, WaitingForPatch
  <2>3. f.scope \in 1 .. Len(stack.scopes) /\ Inner(f) <= Len(stack.scopes) /\ stack.scopes[f.scope] = f.at
    BY <1>1, <1>4, <1>7, InLoop, SMTT(30)
  <2> QED  BY <1>4, <1>6, <2>1, <2>2, <2>3 DEF FrameDiscipline
<1>10. /\ frames' = Calling(f, Activation("expression", Awaited(f), stack', Top.visible + 1))
       /\ Top.visible + 1 \in Nat
  <2>1. Top.visible + 1 \in Nat
    BY <1>1, InLoop
  <2>2. Activation("expression", Awaited(f), stack', Top.visible + 1)
        = Activation("expression", t, stack, Top.visible + 1)
    BY <1>5, <1>6
  <2> QED  BY <1>5, <2>1, <2>2
<1>11. ~IsExpression(Top) /\ f.args = Top.args /\ f.argsize = Top.argsize
       /\ Inner(f) = Inner(Top) /\ f.scope = Top.scope /\ f.at = Top.at
  BY <1>1, <1>4, <1>7, InLoop
<1> QED  BY <1>1, <1>3, <1>4, <1>5, <1>6, <1>7, <1>8, <1>9, <1>10, <1>11, StatementEvaluates

(* The slot of a variable, and its initializer.                            *)
LEMMA BeginDeclarationAccounts ==
  ASSUME Accounting, StraightFeatures, BeginDeclarationStep PROVE StackDiscipline' /\ JumpsAgree'
<1>1. /\ Running /\ Top.step = "enter" /\ CanAllocateStack(stack)
      /\ Top.routine \in {"statement", "loop_declaration"}
  BY DEF BeginDeclarationStep, Goes, Entering, Declaring, StraightFeatures
<1>2. EnteredStatement
  BY <1>1 DEF EnteredStatement, IsExpression
<1>3. PICK t \in ValueTypes : \E initializer \in Types :
        LET c == AllocateStack(stack, Slot[t])
        IN  /\ stack' = c
            /\ frames' = Calling([Top EXCEPT !.kind = "declaration", !.step = "initializer",
                                             !.type = t, !.left = initializer, !.slot = c.allocated],
                                 Expression(initializer, c))
  <2>1. \A t \in ValueTypes : Initializers(t) \subseteq Types
    BY TypesAssumption DEF Initializers, ValueTypes
  <2> QED  BY <2>1 DEF BeginDeclarationStep, Goes
<1>3a. PICK initializer \in Types :
        LET c == AllocateStack(stack, Slot[t])
        IN  /\ stack' = c
            /\ frames' = Calling([Top EXCEPT !.kind = "declaration", !.step = "initializer",
                                             !.type = t, !.left = initializer, !.slot = c.allocated],
                                 Expression(initializer, c))
  BY <1>3
<1>4. t \in Types /\ Slot[t] \in Int
  BY Sizes DEF ValueTypes
<1>5. /\ stack' \in ScopedStacks /\ Len(stack'.scopes) = Top.scope
      /\ \A k \in 1 .. Top.scope - 1 : stack'.scopes[k] = stack.scopes[k]
      /\ stack'.scopes[Top.scope] = Top.at + Slot[t] /\ Innermost(stack') = Top.at + Slot[t]
      /\ stack'.allocated = Top.at + Slot[t] /\ stack'.committed = stack.committed
  <2> DEFINE c == AllocateStack(stack, Slot[t])
  <2>1. /\ c \in ScopedStacks /\ Len(c.scopes) = Len(stack.scopes)
        /\ \A k \in 1 .. Len(stack.scopes) - 1 : c.scopes[k] = stack.scopes[k]
        /\ c.scopes[Len(stack.scopes)] = stack.allocated + Slot[t]
        /\ Innermost(c) = stack.allocated + Slot[t]
        /\ c.allocated = stack.allocated + Slot[t] /\ c.committed = stack.committed
    BY <1>1, <1>2, <1>4, EntersStatement, Allocated
  <2>2. stack' = c
    BY <1>3a
  <2>3. stack.allocated = Top.at /\ Len(stack.scopes) = Top.scope
    BY <1>2, EntersStatement
  <2> HIDE DEF c
  <2> QED  BY <2>1, <2>2, <2>3
<1>6. /\ Top \in Activations /\ Top.at \in Int /\ Top.scope \in Nat \ {0} /\ text \in Seq(Instructions)
      /\ JumpsAgree /\ Len(locals) \in Nat /\ Top.args = <<>> /\ Top.argsize = 0
      /\ Top.at + Slot[t] \in Int
  BY <1>2, <1>4, EntersStatement
<1> DEFINE next == [Top EXCEPT !.kind = "declaration", !.step = "initializer",
                               !.type = t, !.left = initializer, !.slot = Top.at + Slot[t]]
<1>7. next \in Activations
  BY <1>4, <1>6 DEF Activations, Kinds, Steps
<1>8. frames' = Calling(next, Activation("expression", initializer, stack', Len(locals)))
  BY <1>3a, <1>5 DEF Expression
<1>9. PICK f \in Activations :
        /\ f = next /\ f.kind = "declaration" /\ f.step = "initializer" /\ f.type = t
        /\ f.left = initializer /\ f.slot = Top.at + Slot[t]
        /\ f.routine = Top.routine /\ f.scope = Top.scope /\ f.at = Top.at
        /\ f.args = Top.args /\ f.argsize = Top.argsize
  BY <1>6, <1>7 DEF Activations
<1> HIDE DEF next
<1>10. text' = text
  BY DEF BeginDeclarationStep, Goes
<1>11. Kept /\ JumpsAgree'
  BY <1>5, <1>6, <1>10, NothingEmitted
<1>12. Undisturbed
  BY <1>1, <1>5, <1>6, <1>10, <1>11, CallersKeptByDeclaration DEF Undisturbed
<1>13. /\ AwaitsExpression(f) /\ Alike(f, Top) /\ ~Scoped(f) /\ ~WaitingForPatch(f)
       /\ ~IsExpression(f) /\ InControl(f) /\ Awaited(f) = initializer
  BY <1>1, <1>9
     DEF AwaitsExpression, Alike, Scoped, WaitingForPatch, IsExpression, InControl, KindsOf,
          StepsOf, Awaited
<1>14. Inner(f) = Top.scope
  BY <1>9, <1>13, ScopeNumbers
<1>15. FrameDiscipline(f)'
  BY <1>5, <1>6, <1>9, <1>13, <1>14 DEF FrameDiscipline
<1>16. ValueDiscipline(f)
  BY <1>6, <1>9 DEF ValueDiscipline
<1>17. stack'.allocated = CalleeAt(f)'
  BY <1>5, <1>13, <1>14 DEF CalleeAt
<1>18. frames' = Calling(f, Activation("expression", Awaited(f), stack', Len(locals)))
  BY <1>8, <1>9, <1>13
<1> QED  BY <1>1, <1>5, <1>6, <1>11, <1>12, <1>13, <1>14, <1>15, <1>16, <1>17, <1>18, CallsExpression

-----------------------------------------------------------------------------
(* Calls of the emitters of statements.                                    *)

(* An activation calls the emitter of a statement, of a loop's declaration *)
(* or of its body.                                                         *)
LEMMA CallsStatement ==
  ASSUME Accounting, Running, Undisturbed, NEW f \in Activations, NEW v \in Nat,
         frames' = Calling(f, Activation(Called(f), Void, stack', v)),
         InControl(f), f.step \notin {"enter", "arguments"}, ~AwaitsExpression(f),
         f.routine = Top.routine, f.scope = Top.scope, f.at = Top.at, ~IsExpression(Top),
         FrameDiscipline(f)', ValueDiscipline(f), Len(stack'.scopes) = Inner(f),
         stack'.allocated = Innermost(stack')
  PROVE  StackDiscipline'
<1>1. /\ signature \in Signatures /\ stack' \in ScopedStacks /\ Void \in Types
  BY Context, Sizes DEF Accounting, Undisturbed
<1>2. Called(f) \in Routines /\ Called(f) # "expression"
  BY DEF Called, Routines
<1> DEFINE h == Activation(Called(f), Void, stack', v)
<1>3. /\ h \in Activations /\ h.routine = Called(f)
      /\ h.kind = "?" /\ h.step = "enter" /\ h.args = <<>> /\ h.argsize = 0
      /\ h.scope = Len(stack'.scopes) /\ h.at = stack'.allocated
  BY <1>1, <1>2, ActivationFacts
<1>4. PICK g \in Activations : g = h
  BY <1>3
<1>5. frames' = Calling(f, g)
  BY <1>4
<1> HIDE DEF h
<1>6. /\ g.routine = Called(f) /\ ~IsExpression(g)
      /\ g.kind = "?" /\ g.step = "enter" /\ g.args = <<>> /\ g.argsize = 0
      /\ g.scope = Len(stack'.scopes) /\ g.at = stack'.allocated
  BY <1>2, <1>3, <1>4 DEF IsExpression
<1>7. Alike(f, Top)
  BY DEF Alike, IsExpression
<1> QED  BY <1>5, <1>6, <1>7, CallAccounts

(* The next statement of a block or of the function.                       *)
LEMMA NextStatementAccounts ==
  ASSUME Accounting, NextStatementStep PROVE StackDiscipline' /\ JumpsAgree'
<1>1. Running /\ Top.kind \in {"block", "function"} /\ Top.step = "statements"
  BY DEF NextStatementStep, Goes, At
<1>2. PICK f \in Activations : f = Top
  BY <1>1, Accounts
<1>3. /\ InControl(f) /\ FrameDiscipline(f) /\ ValueDiscipline(f) /\ stack \in ScopedStacks
      /\ Len(stack.scopes) = Inner(f) /\ text \in Seq(Instructions) /\ JumpsAgree
      /\ f.kind \in {"block", "function"} /\ f.step = "statements" /\ Len(locals) \in Nat
  BY <1>1, <1>2, Accounts, Context DEF Accounting
<1>4. stack.allocated = Innermost(stack)
  BY <1>1, Accounts DEF TopDiscipline, AwaitsExpression
<1>5. /\ Called(f) = "statement" /\ ~AwaitsExpression(f) /\ ~IsExpression(f)
  BY <1>3 DEF Called, AwaitsExpression, IsExpression, InControl, KindsOf
<1>6. stack' = stack /\ text' = text /\ frames' = Calling(Top, Statement(stack, Len(locals)))
  BY DEF NextStatementStep, Goes
<1>7. Kept /\ JumpsAgree'
  BY <1>3, <1>6, NothingEmitted
<1>8. Undisturbed
  <2>1. Top.scope <= Len(stack.scopes)
    BY <1>2, <1>3, ScopeNumbers
  <2> QED  BY <1>1, <1>3, <1>6, <1>7, <2>1, CallersKept DEF Undisturbed
<1>9. FrameDiscipline(f)'
  BY <1>3, <1>6 DEF FrameDiscipline, CompiledFor, Label
<1>10. frames' = Calling(f, Activation(Called(f), Void, stack', Len(locals)))
  BY <1>2, <1>5, <1>6 DEF Statement
<1> QED  BY <1>1, <1>2, <1>3, <1>4, <1>5, <1>6, <1>7, <1>8, <1>9, <1>10, CallsStatement

(* The scope of a loop.                                                    *)
LEMMA BeginForAccounts ==
  ASSUME Accounting, BeginForStep PROVE StackDiscipline' /\ JumpsAgree'
<1>1. Running /\ Top.step = "enter" /\ Top.routine \in {"statement", "loop_body"}
  BY DEF BeginForStep, Goes, Entering
<1>2. EnteredStatement /\ ~IsExpression(Top)
  BY <1>1 DEF EnteredStatement, IsExpression
<1>3. /\ Top.scope \in Nat \ {0} /\ Len(stack.scopes) = Top.scope /\ stack.allocated = Top.at
      /\ stack.scopes[Top.scope] = Top.at /\ Innermost(stack) = Top.at
      /\ Top \in Activations /\ stack \in ScopedStacks /\ Len(locals) \in Nat
      /\ text \in Seq(Instructions) /\ JumpsAgree /\ Top.args = <<>> /\ Top.argsize = 0
  BY <1>2, EntersStatement
<1>4. /\ stack' = PushScope(stack) /\ text' = text
      /\ frames' = Calling([Top EXCEPT !.kind = "for", !.step = "declaration"],
                           LoopDeclaration(PushScope(stack)))
  BY DEF BeginForStep, Goes
<1>5. /\ stack' \in ScopedStacks /\ Len(stack'.scopes) = Top.scope + 1
      /\ \A k \in 1 .. Top.scope : stack'.scopes[k] = stack.scopes[k]
      /\ stack'.allocated = Innermost(stack') /\ stack'.committed = stack.committed
  BY <1>3, <1>4, ScopePushed
<1> DEFINE next == [Top EXCEPT !.kind = "for", !.step = "declaration"]
<1>6. next \in Activations
  BY <1>3 DEF Activations, Kinds, Steps
<1>7. PICK f \in Activations :
        /\ f = next /\ f.kind = "for" /\ f.step = "declaration"
        /\ f.routine = Top.routine /\ f.scope = Top.scope /\ f.at = Top.at
        /\ f.args = Top.args /\ f.argsize = Top.argsize
  BY <1>3, <1>6 DEF Activations
<1>8. frames' = Calling(f, LoopDeclaration(stack'))
  BY <1>4, <1>7
<1> HIDE DEF next
<1>9. /\ ~AwaitsExpression(f) /\ Scoped(f) /\ ~WaitingForPatch(f)
      /\ ~IsExpression(f) /\ InControl(f) /\ Called(f) = "loop_declaration"
  BY <1>1, <1>7
     DEF AwaitsExpression, Scoped, WaitingForPatch, IsExpression, InControl, KindsOf, StepsOf,
          Called
<1>10. Inner(f) = Top.scope + 1
  BY <1>7, <1>9, ScopeNumbers
<1>11. Kept /\ JumpsAgree'
  BY <1>3, <1>4, <1>5, NothingEmitted
<1>12. Undisturbed
  <2>1. stack' \in ScopedStacks /\ Top.scope <= Len(stack'.scopes)
    BY <1>1, <1>3, <1>4, <1>5, <1>11
  <2>2. \A k \in 1 .. Top.scope : stack'.scopes[k] = stack.scopes[k]
    BY <1>1, <1>3, <1>4, <1>5, <1>11
  <2>3. Running /\ text' \in Seq(Instructions) /\ Kept /\ JumpsAgree'
    BY <1>1, <1>3, <1>4, <1>5, <1>11
  <2> QED  BY <2>1, <2>2, <2>3, LeavesUndisturbed
<1>13. FrameDiscipline(f)'
  <2>1. Top.scope \in 1 .. Top.scope
    BY <1>3
  <2>2. stack'.scopes[Top.scope] = Top.at
    BY <1>3, <1>5, <2>1
  <2>3. Top.scope \in 1 .. Len(stack'.scopes)
    BY <1>3, <1>5
  <2>4. stack'.scopes[f.scope] = f.at /\ f.scope \in 1 .. Len(stack'.scopes)
    BY <1>7, <2>2, <2>3
  <2> QED  BY <1>5, <1>7, <1>9, <1>10, <2>4 DEF FrameDiscipline
<1>14. ValueDiscipline(f)
  BY <1>3, <1>7 DEF ValueDiscipline
<1>15. frames' = Calling(f, Activation(Called(f), Void, stack', Len(locals)))
  BY <1>8, <1>9 DEF LoopDeclaration
<1> QED  BY <1>1, <1>2, <1>3, <1>5, <1>7, <1>9, <1>10, <1>11, <1>12, <1>13, <1>14, <1>15, CallsStatement

(* The conditional jump and the scope of an if.                            *)
LEMMA IfThenAccounts ==
  ASSUME Accounting, IfThenStep PROVE StackDiscipline' /\ JumpsAgree'
<1> DEFINE c == CommitStack(PopStack(stack, Slot[Bool]))
<1>1. /\ Running /\ Top.kind = "if" /\ Top.step = "condition"
      /\ AwaitsExpression(Top) /\ Awaited(Top) = Bool
  BY DEF IfThenStep, Goes, Popped, At, AwaitsExpression, Awaited
<1>2. /\ Top \in Activations /\ InControl(Top) /\ FrameDiscipline(Top) /\ ValueDiscipline(Top)
      /\ Len(stack.scopes) = Inner(Top) /\ Len(locals) \in Nat
  BY <1>1, Accounts, Context DEF Accounting
<1>3. ~IsExpression(Top) /\ ~Scoped(Top)
  BY <1>1, <1>2 DEF IsExpression, InControl, KindsOf, Scoped
<1>4. Inner(Top) = Top.scope /\ Top.scope \in Nat \ {0} /\ stack.scopes[Top.scope] = Top.at
  <2>1. Inner(Top) = Top.scope /\ Top.scope \in Nat
    BY <1>2, <1>3, ScopeNumbers
  <2> QED  BY <1>1, <1>2, <1>3, <2>1 DEF FrameDiscipline
<1>5. /\ stack \in ScopedStacks /\ stack.allocated = Top.at + Slot[Bool]
      /\ Top.at \in Int /\ Slot[Bool] \in Int /\ text \in Seq(Instructions) /\ JumpsAgree
  BY <1>1, <1>2, <1>3, <1>4, ValueFound, ActivationFields, Sizes DEF CalleeAt
<1>6. /\ c \in ScopedStacks /\ c.scopes = stack.scopes
      /\ c.allocated = Top.at /\ c.committed = Top.at
  <2>1. /\ c \in ScopedStacks /\ c.scopes = stack.scopes
        /\ c.allocated = stack.allocated - Slot[Bool] /\ c.committed = stack.allocated - Slot[Bool]
    BY <1>5, CommittedPop
  <2> HIDE DEF c
  <2> QED  BY <1>5, <2>1
<1>7. /\ stack' = PushScope(c) /\ Emits /\ LastEmitted.op = "je" /\ LastEmitted.depth = c.committed
      /\ frames' = Calling([Top EXCEPT !.step = "then", !.patch = Len(text')],
                           Statement(PushScope(c), Len(locals)))
  BY DEF IfThenStep, Goes, Popped, EmitsBranch
<1> HIDE DEF c, Instructions
<1>9. text' \in Seq(Instructions) /\ Kept /\ JumpsAgree'
  BY <1>1, <1>7, EmitsKept
<1>10. /\ stack' \in ScopedStacks /\ Len(stack'.scopes) = Top.scope + 1
       /\ \A k \in 1 .. Top.scope : stack'.scopes[k] = stack.scopes[k]
       /\ stack'.allocated = Innermost(stack')
  <2>1. Innermost(c) = Top.at /\ Len(c.scopes) = Top.scope
    BY <1>2, <1>4, <1>6 DEF Innermost
  <2>2. /\ PushScope(c) \in ScopedStacks /\ Len(PushScope(c).scopes) = Len(c.scopes) + 1
        /\ \A k \in 1 .. Len(c.scopes) : PushScope(c).scopes[k] = c.scopes[k]
        /\ Innermost(PushScope(c)) = Innermost(c) /\ PushScope(c).allocated = c.allocated
    BY <1>6, ScopePushed
  <2> QED  BY <1>6, <1>7, <2>1, <2>2
<1>11. PICK p \in Nat :
        /\ p = Len(text') /\ p \in 1 .. Len(text')
        /\ text'[p].op = "je" /\ text'[p].depth = Top.at
  <2>1. Len(text) \in Nat /\ Len(text') \in Nat /\ Len(text) < Len(text')
    BY <1>5, <1>7, <1>9 DEF Emits, EmitsAfter
  <2>2. Len(text') \in 1 .. Len(text')
    BY <2>1
  <2> QED  BY <1>6, <1>7, <2>1, <2>2 DEF LastEmitted
<1> DEFINE next == [Top EXCEPT !.step = "then", !.patch = p]
<1>12. next \in Activations
  BY <1>2, <1>11 DEF Activations, Steps
<1>13. PICK f \in Activations :
        /\ f = next /\ f.kind = "if" /\ f.step = "then" /\ f.patch = p
        /\ f.routine = Top.routine /\ f.scope = Top.scope /\ f.at = Top.at
        /\ f.args = Top.args /\ f.argsize = Top.argsize
  BY <1>1, <1>2, <1>12 DEF Activations
<1>14. frames' = Calling(f, Statement(stack', Len(locals)))
  BY <1>7, <1>11, <1>13
<1> HIDE DEF next
<1>15. /\ ~AwaitsExpression(f) /\ Scoped(f) /\ ~IsExpression(f) /\ InControl(f) /\ Called(f) = "statement"
  BY <1>1, <1>2, <1>13 DEF AwaitsExpression, Scoped, IsExpression, InControl, KindsOf, StepsOf,
       Called
<1>16. Inner(f) = Top.scope + 1
  BY <1>13, <1>15, <1>2, ScopeNumbers
<1>17. Undisturbed
  <2>1. stack' \in ScopedStacks /\ Top.scope <= Len(stack'.scopes)
    BY <1>1, <1>4, <1>9, <1>10
  <2>2. \A k \in 1 .. Top.scope : stack'.scopes[k] = stack.scopes[k]
    BY <1>1, <1>4, <1>9, <1>10
  <2>3. Running /\ text' \in Seq(Instructions) /\ Kept /\ JumpsAgree'
    BY <1>1, <1>4, <1>9, <1>10
  <2> QED  BY <2>1, <2>2, <2>3, LeavesUndisturbed
<1>18. FrameDiscipline(f)'
  <2>1. stack'.scopes[f.scope] = f.at /\ f.scope \in 1 .. Len(stack'.scopes)
    <3>1. Top.scope \in 1 .. Top.scope /\ Top.scope \in 1 .. Len(stack'.scopes)
      BY <1>4, <1>10
    <3> QED  BY <1>4, <1>10, <1>13, <3>1
  <2>2. f.patch \in 1 .. Len(text') /\ text'[f.patch].op = "je" /\ text'[f.patch].depth = f.at
    BY <1>11, <1>13
  <2> QED  BY <1>10, <1>13, <1>15, <1>16, <2>1, <2>2 DEF FrameDiscipline
<1>19. ValueDiscipline(f)
  BY <1>1, <1>2, <1>13 DEF ValueDiscipline
<1>20. frames' = Calling(f, Activation(Called(f), Void, stack', Len(locals)))
  BY <1>14, <1>15 DEF Statement
<1> QED  BY <1>1, <1>2, <1>3, <1>9, <1>10, <1>13, <1>15, <1>16, <1>17, <1>18, <1>19, <1>20, CallsStatement

(* The conditional jump and the body of a loop.                            *)
LEMMA ForBodyAccounts ==
  ASSUME Accounting, ForBodyStep PROVE StackDiscipline' /\ JumpsAgree'
<1> DEFINE c == CommitStack(PopStack(stack, Slot[Bool]))
           d == stack.scopes[Top.scope + 1]
<1>1. /\ Running /\ Top.kind = "for" /\ Top.step = "condition"
      /\ AwaitsExpression(Top) /\ Awaited(Top) = Bool
  BY DEF ForBodyStep, Goes, Popped, At, AwaitsExpression, Awaited
<1>2. FrameDiscipline(Top) /\ ValueDiscipline(Top) /\ ~IsExpression(Top)
  BY <1>1, Accounts, InLoop
<1>3. /\ stack \in ScopedStacks /\ stack.allocated = d + Slot[Bool]
      /\ d \in Int /\ Slot[Bool] \in Int /\ text \in Seq(Instructions) /\ JumpsAgree
  <2>1. CalleeAt(Top) = d
    BY <1>1, <1>2, InLoop DEF CalleeAt
  <2> QED  BY <1>1, <2>1, InLoop, ValueFound, Sizes
<1>4. /\ c \in ScopedStacks /\ c.scopes = stack.scopes
      /\ c.allocated = d /\ c.committed = d
  <2>1. /\ c \in ScopedStacks /\ c.scopes = stack.scopes
        /\ c.allocated = stack.allocated - Slot[Bool] /\ c.committed = stack.allocated - Slot[Bool]
    BY <1>3, CommittedPop
  <2> HIDE DEF c
  <2> QED  BY <1>3, <2>1
<1>5. /\ stack' = c /\ Emits /\ LastEmitted.op = "je" /\ LastEmitted.depth = c.committed
      /\ frames' = Calling([Top EXCEPT !.step = "body", !.patch = Len(text')],
                           LoopBody(c, Len(locals)))
  BY DEF ForBodyStep, Goes, Popped, EmitsBranch
<1> HIDE DEF c, Instructions
<1>7. text' \in Seq(Instructions) /\ Kept /\ JumpsAgree'
  BY <1>1, <1>5, EmitsKept
<1>8. PICK m \in Nat :
        /\ m = Len(text') /\ m \in 1 .. Len(text')
        /\ text'[m].op = "je" /\ text'[m].depth = d
  <2>1. Len(text) \in Nat /\ Len(text') \in Nat /\ Len(text) < Len(text')
    BY <1>3, <1>5, <1>7 DEF Emits, EmitsAfter
  <2>2. Len(text') \in 1 .. Len(text')
    BY <2>1
  <2> QED  BY <1>4, <1>5, <2>1, <2>2 DEF LastEmitted
<1> DEFINE next == [Top EXCEPT !.step = "body", !.patch = m]
<1>9. next \in Activations
  BY <1>1, <1>8, InLoop DEF Activations, Steps
<1>10. PICK f \in Activations :
        /\ f = next /\ f.kind = "for" /\ f.step = "body" /\ f.patch = m
        /\ f.routine = Top.routine /\ f.scope = Top.scope /\ f.at = Top.at /\ f.start = Top.start
        /\ f.args = Top.args /\ f.argsize = Top.argsize
  BY <1>1, <1>9, InLoop DEF Activations
<1>11. frames' = Calling(f, LoopBody(stack', Len(locals)))
  BY <1>5, <1>8, <1>10
<1> HIDE DEF next
<1>12. /\ ~AwaitsExpression(f) /\ Scoped(f) /\ ~IsExpression(f) /\ InControl(f) /\ Called(f) = "loop_body"
  BY <1>1, <1>10, InLoop DEF AwaitsExpression, Scoped, IsExpression, InControl, KindsOf,
       StepsOf, Called
<1>13. Inner(f) = Top.scope + 1
  BY <1>10, <1>12, ScopeNumbers
<1>14. Undisturbed
  <2>0. stack' \in ScopedStacks /\ stack'.scopes = stack.scopes
    BY <1>4, <1>5
  <2>1. Top.scope \in Nat /\ Len(stack.scopes) = Top.scope + 1
    BY <1>1, InLoop
  <2>2. Top.scope <= Len(stack'.scopes)
    BY <2>0, <2>1
  <2>3. \A k \in 1 .. Top.scope : stack'.scopes[k] = stack.scopes[k]
    BY <2>0
  <2> QED  BY <1>1, <1>7, <2>0, <2>2, <2>3, LeavesUndisturbed
<1>15. FrameDiscipline(f)'
  <2>0. stack.scopes[Top.scope] = Top.at /\ Top.scope \in 1 .. Len(stack.scopes)
    BY <1>1, InLoop, SMTT(30)
  <2>1. stack'.scopes[f.scope] = f.at /\ f.scope \in 1 .. Len(stack'.scopes)
    BY <1>4, <1>5, <1>10, <2>0
  <2>2. /\ f.patch \in 1 .. Len(text') /\ text'[f.patch].op = "je"
        /\ text'[f.patch].depth = stack'.scopes[f.scope + 1]
    BY <1>4, <1>5, <1>8, <1>10
  <2>3. CompiledFor(f.start, stack.scopes[f.scope + 1])'
    <3>1. PICK p \in Nat, e \in Int : p = Top.start /\ e = d
      BY <1>1, <1>3, InLoop, ActivationFields
    <3>2. CompiledFor(p, e)
      BY <1>1, <1>2, <3>1 DEF FrameDiscipline
    <3>3. CompiledFor(p, e)'
      BY <1>3, <1>7, <3>2, LabelKept
    <3>4. f.start = p /\ stack'.scopes[f.scope + 1] = e
      BY <1>4, <1>5, <1>10, <3>1
    <3> QED  BY <3>3, <3>4 DEF CompiledFor, Label
  <2>4. Inner(f) <= Len(stack'.scopes)
    BY <1>1, <1>4, <1>5, <1>13, InLoop
  <2> QED  BY <1>10, <1>12, <2>1, <2>2, <2>3, <2>4 DEF FrameDiscipline
<1>16. ValueDiscipline(f)
  BY <1>1, <1>2, <1>10 DEF ValueDiscipline
<1>17. frames' = Calling(f, Activation(Called(f), Void, stack', Len(locals)))
  BY <1>11, <1>12 DEF LoopBody
<1>18. stack'.allocated = Innermost(stack') /\ Len(stack'.scopes) = Inner(f) /\ Len(locals) \in Nat
  BY <1>1, <1>4, <1>5, <1>13, InLoop DEF Innermost
<1> QED  BY <1>1, <1>2, <1>7, <1>10, <1>12, <1>14, <1>15, <1>16, <1>17, <1>18, CallsStatement

-----------------------------------------------------------------------------
(* Blocks.                                                                 *)

(* The scope of a block.                                                   *)
LEMMA BeginBlockAccounts ==
  ASSUME Accounting, BeginBlockStep PROVE StackDiscipline' /\ JumpsAgree'
<1>1. Running /\ Top.step = "enter" /\ Top.routine \in {"statement", "loop_body"}
  BY DEF BeginBlockStep, Goes, Entering
<1>2. EnteredStatement /\ ~IsExpression(Top)
  BY <1>1 DEF EnteredStatement, IsExpression
<1>3. /\ Top.scope \in Nat \ {0} /\ Len(stack.scopes) = Top.scope /\ stack.allocated = Top.at
      /\ stack.scopes[Top.scope] = Top.at /\ Innermost(stack) = Top.at
      /\ Top \in Activations /\ stack \in ScopedStacks
      /\ text \in Seq(Instructions) /\ JumpsAgree /\ Top.args = <<>> /\ Top.argsize = 0
  BY <1>2, EntersStatement
<1>4. /\ stack' = PushScope(stack) /\ text' = text
      /\ frames' = Becoming([Top EXCEPT !.kind = "block", !.step = "statements"])
  BY DEF BeginBlockStep, Goes
<1>5. /\ stack' \in ScopedStacks /\ Len(stack'.scopes) = Top.scope + 1
      /\ \A k \in 1 .. Top.scope : stack'.scopes[k] = stack.scopes[k]
      /\ stack'.allocated = Innermost(stack') /\ stack'.committed = stack.committed
  BY <1>3, <1>4, ScopePushed
<1> DEFINE next == [Top EXCEPT !.kind = "block", !.step = "statements"]
<1>6. next \in Activations
  BY <1>3 DEF Activations, Kinds, Steps
<1>7. PICK f \in Activations :
        /\ f = next /\ f.kind = "block" /\ f.step = "statements"
        /\ f.routine = Top.routine /\ f.scope = Top.scope /\ f.at = Top.at
        /\ f.args = Top.args /\ f.argsize = Top.argsize /\ f.type = Top.type
  BY <1>3, <1>6 DEF Activations
<1>8. frames' = Becoming(f)
  BY <1>4, <1>7
<1> HIDE DEF next
<1>9. ~AwaitsExpression(f) /\ Scoped(f) /\ ~WaitingForPatch(f) /\ ~IsExpression(f) /\ Alike(f, Top)
  BY <1>1, <1>7 DEF AwaitsExpression, Scoped, WaitingForPatch, IsExpression, Alike
<1>10. Inner(f) = Top.scope + 1
  BY <1>7, <1>9, ScopeNumbers
<1>11. Kept /\ JumpsAgree'
  BY <1>3, <1>4, <1>5, NothingEmitted
<1>12. Undisturbed
  <2>1. stack' \in ScopedStacks /\ Top.scope <= Len(stack'.scopes)
    BY <1>1, <1>3, <1>4, <1>5, <1>11
  <2>2. \A k \in 1 .. Top.scope : stack'.scopes[k] = stack.scopes[k]
    BY <1>1, <1>3, <1>4, <1>5, <1>11
  <2>3. Running /\ text' \in Seq(Instructions) /\ Kept /\ JumpsAgree'
    BY <1>1, <1>3, <1>4, <1>5, <1>11
  <2> QED  BY <2>1, <2>2, <2>3, LeavesUndisturbed
<1>13. FrameDiscipline(f)'
  <2>0. Top.scope \in 1 .. Top.scope /\ Top.scope \in 1 .. Len(stack'.scopes)
    BY <1>3, <1>5
  <2>1. stack'.scopes[f.scope] = f.at /\ f.scope \in 1 .. Len(stack'.scopes)
    BY <1>3, <1>5, <1>7, <2>0
  <2> QED  BY <1>5, <1>7, <1>9, <1>10, <2>1 DEF FrameDiscipline
<1>14. ValueDiscipline(f)
  BY <1>3, <1>7 DEF ValueDiscipline
<1>15. TopDiscipline(f)'
  BY <1>5, <1>7, <1>9, <1>10 DEF TopDiscipline
<1> QED  BY <1>1, <1>8, <1>9, <1>11, <1>12, <1>13, <1>14, <1>15, UpdateAccounts

-----------------------------------------------------------------------------
(* Statements that return.                                                 *)

(* A variable without initializer.                                         *)
LEMMA DeclareOnlyAccounts ==
  ASSUME Accounting, StraightFeatures, DeclareOnlyStep PROVE StackDiscipline' /\ JumpsAgree'
<1>1. Running /\ Top.step = "enter" /\ CanAllocateStack(stack) /\ Top.routine = "statement"
  BY DEF DeclareOnlyStep, Returns, Entering, Declaring, StraightFeatures
<1>2. EnteredStatement /\ ~IsExpression(Top)
  BY <1>1 DEF EnteredStatement, IsExpression
<1>3. PICK t \in ValueTypes : stack' = AllocateStack(stack, Slot[t])
  BY DEF DeclareOnlyStep, Returns
<1>4. /\ Slot[t] \in Int /\ stack \in ScopedStacks /\ Top.scope \in Nat \ {0}
      /\ Len(stack.scopes) = Top.scope /\ stack.allocated = Top.at
      /\ text \in Seq(Instructions) /\ JumpsAgree
  BY <1>2, EntersStatement, Sizes
<1>5. /\ stack' \in ScopedStacks /\ Len(stack'.scopes) = Top.scope
      /\ \A k \in 1 .. Top.scope - 1 : stack'.scopes[k] = stack.scopes[k]
      /\ stack'.allocated = Innermost(stack') /\ stack'.committed = stack.committed
  <2> DEFINE c == AllocateStack(stack, Slot[t])
  <2>1. /\ c \in ScopedStacks /\ Len(c.scopes) = Len(stack.scopes)
        /\ \A k \in 1 .. Len(stack.scopes) - 1 : c.scopes[k] = stack.scopes[k]
        /\ Innermost(c) = stack.allocated + Slot[t]
        /\ c.allocated = stack.allocated + Slot[t] /\ c.committed = stack.committed
    BY <1>1, <1>4, Allocated
  <2>2. stack' = c
    BY <1>3
  <2> HIDE DEF c
  <2> QED  BY <1>4, <2>1, <2>2
<1>6. text' = text /\ frames' = Returning
  BY DEF DeclareOnlyStep, Returns
<1>7. Kept /\ JumpsAgree'
  BY <1>4, <1>5, <1>6, NothingEmitted
<1>8. Undisturbed
  BY <1>1, <1>4, <1>5, <1>6, <1>7, CallersKeptByDeclaration DEF Undisturbed
<1> QED  BY <1>1, <1>2, <1>5, <1>6, <1>7, <1>8, StatementReturns

(* What is left when the value a statement waited for is popped again.     *)
LEMMA ValueDropped ==
  ASSUME Accounting, Running, ~IsExpression(Top), AwaitsExpression(Top)
  PROVE  LET c == CommitStack(PopStack(stack, Slot[Awaited(Top)]))
         IN  /\ c \in ScopedStacks /\ c.scopes = stack.scopes
             /\ c.allocated = Innermost(stack) /\ c.committed = Innermost(stack)
             /\ Innermost(c) = Innermost(stack)
             /\ stack \in ScopedStacks /\ Innermost(stack) \in Int
             /\ Len(stack.scopes) = Inner(Top) /\ Len(stack.scopes) \in Nat \ {0}
<1> DEFINE n == Slot[Awaited(Top)]
           c == CommitStack(PopStack(stack, n))
<1>1. /\ Top \in Activations /\ Len(stack.scopes) = Inner(Top) /\ Len(stack.scopes) \in Nat \ {0}
      /\ stack \in ScopedStacks
  BY Accounts
<1>2. Innermost(stack) \in Int
  BY <1>1, ScopesType DEF Innermost
<1>3. n \in Int
  BY <1>1, ActivationFields, Sizes DEF Awaited
<1>4. stack.allocated = Innermost(stack) + n
  <2>1. CalleeAt(Top) = Innermost(stack)
    BY <1>1 DEF CalleeAt, Innermost
  <2> QED  BY <2>1, ValueFound
<1>5. /\ c \in ScopedStacks /\ c.scopes = stack.scopes
      /\ c.allocated = stack.allocated - n /\ c.committed = stack.allocated - n
  BY <1>1, <1>3, CommittedPop
<1> HIDE DEF c, n
<1>6. c.allocated = Innermost(stack) /\ c.committed = Innermost(stack)
  BY <1>2, <1>3, <1>4, <1>5
<1>7. Innermost(c) = Innermost(stack)
  BY <1>5 DEF Innermost
<1> QED  BY <1>1, <1>2, <1>5, <1>6, <1>7 DEF c, n

(* The copy of the initializer into its variable.                          *)
LEMMA EndDeclarationAccounts ==
  ASSUME Accounting, EndDeclarationStep PROVE StackDiscipline' /\ JumpsAgree'
<1> DEFINE c == CommitStack(PopStack(stack, Slot[Top.left]))
<1>1. /\ Running /\ Top.kind = "declaration" /\ Top.step = "initializer"
      /\ AwaitsExpression(Top) /\ Awaited(Top) = Top.left
  BY DEF EndDeclarationStep, Returns, Popped, At, AwaitsExpression, Awaited
<1>2. Top \in Activations /\ InControl(Top)
  BY <1>1, Accounts
<1>3. ~IsExpression(Top) /\ ~Scoped(Top)
  BY <1>1, <1>2 DEF IsExpression, InControl, KindsOf, Scoped
<1>4. Inner(Top) = Top.scope
  BY <1>2, <1>3, ScopeNumbers
<1>5. /\ c \in ScopedStacks /\ c.scopes = stack.scopes /\ Len(stack.scopes) = Top.scope
      /\ c.allocated = Innermost(c) /\ c.committed = c.allocated /\ Top.scope \in Nat
  BY <1>1, <1>3, <1>4, ValueDropped
<1>6. stack' = c /\ frames' = Returning /\ Emits
  BY DEF EndDeclarationStep, Returns, Popped
<1> HIDE DEF c
<1>7. text' \in Seq(Instructions) /\ Kept /\ JumpsAgree'
  BY <1>1, <1>5, <1>6, EmitsKept
<1>8. Undisturbed
  <2>1. stack' \in ScopedStacks /\ Top.scope <= Len(stack'.scopes)
    BY <1>1, <1>5, <1>6, <1>7
  <2>2. \A k \in 1 .. Top.scope : stack'.scopes[k] = stack.scopes[k]
    BY <1>1, <1>5, <1>6, <1>7
  <2>3. Running /\ text' \in Seq(Instructions) /\ Kept /\ JumpsAgree'
    BY <1>1, <1>5, <1>6, <1>7
  <2> QED  BY <2>1, <2>2, <2>3, LeavesUndisturbed
<1> QED  BY <1>1, <1>3, <1>5, <1>6, <1>7, <1>8, StatementReturns

(* A value that is dropped.                                                *)
LEMMA EndDiscardAccounts ==
  ASSUME Accounting, EndDiscardStep PROVE StackDiscipline' /\ JumpsAgree'
<1> DEFINE c == CommitStack(PopStack(stack, Slot[Top.left]))
<1>1. /\ Running /\ Top.kind = "discard" /\ Top.step = "value"
      /\ AwaitsExpression(Top) /\ Awaited(Top) = Top.left
  BY DEF EndDiscardStep, Returns, Popped, At, AwaitsExpression, Awaited
<1>2. Top \in Activations /\ InControl(Top)
  BY <1>1, Accounts
<1>3. ~IsExpression(Top) /\ ~Scoped(Top)
  BY <1>1, <1>2 DEF IsExpression, InControl, KindsOf, Scoped
<1>4. Inner(Top) = Top.scope
  BY <1>2, <1>3, ScopeNumbers
<1>5. /\ c \in ScopedStacks /\ c.scopes = stack.scopes /\ Len(stack.scopes) = Top.scope
      /\ c.allocated = Innermost(c) /\ c.committed = c.allocated /\ Top.scope \in Nat
  BY <1>1, <1>3, <1>4, ValueDropped
<1>6. stack' = c /\ frames' = Returning /\ Emits
  BY DEF EndDiscardStep, Returns, Popped
<1> HIDE DEF c
<1>7. text' \in Seq(Instructions) /\ Kept /\ JumpsAgree'
  BY <1>1, <1>5, <1>6, EmitsKept
<1>8. Undisturbed
  <2>1. stack' \in ScopedStacks /\ Top.scope <= Len(stack'.scopes)
    BY <1>1, <1>5, <1>6, <1>7
  <2>2. \A k \in 1 .. Top.scope : stack'.scopes[k] = stack.scopes[k]
    BY <1>1, <1>5, <1>6, <1>7
  <2>3. Running /\ text' \in Seq(Instructions) /\ Kept /\ JumpsAgree'
    BY <1>1, <1>5, <1>6, <1>7
  <2> QED  BY <2>1, <2>2, <2>3, LeavesUndisturbed
<1> QED  BY <1>1, <1>3, <1>5, <1>6, <1>7, <1>8, StatementReturns

(* The return value and the release of the frame: the stack stays as it    *)
(* was, for the statements that follow.                                    *)
LEMMA EndReturnAccounts ==
  ASSUME Accounting, EndReturnStep PROVE StackDiscipline' /\ JumpsAgree'
<1> DEFINE c == CommitStack(PopStack(stack, Slot[Top.left]))
<1>1. /\ Running /\ Top.kind = "return" /\ Top.step = "value"
      /\ AwaitsExpression(Top) /\ Awaited(Top) = Top.left
  BY DEF EndReturnStep, Returns, Popped, At, AwaitsExpression, Awaited
<1>2. Top \in Activations /\ InControl(Top)
  BY <1>1, Accounts
<1>3. ~IsExpression(Top) /\ ~Scoped(Top) /\ Top.routine # "loop_declaration"
  BY <1>1, <1>2 DEF IsExpression, InControl, KindsOf, Scoped
<1>4. Inner(Top) = Top.scope
  BY <1>2, <1>3, ScopeNumbers
<1>5. /\ c \in ScopedStacks /\ c.scopes = stack.scopes /\ Len(stack.scopes) = Top.scope
      /\ c.allocated = Innermost(c) /\ stack \in ScopedStacks /\ Top.scope \in Nat
  BY <1>1, <1>3, <1>4, ValueDropped
<1>6. stack' = c /\ frames' = Returning /\ Emits
  BY DEF EndReturnStep, Returns, Popped
<1> HIDE DEF c, Instructions
<1>9. text' \in Seq(Instructions) /\ Kept /\ JumpsAgree'
  BY <1>1, <1>6, EmitsKept
<1>10. Undisturbed
  <2>1. stack' \in ScopedStacks /\ Top.scope <= Len(stack'.scopes)
    BY <1>1, <1>5, <1>6, <1>9
  <2>2. \A k \in 1 .. Top.scope : stack'.scopes[k] = stack.scopes[k]
    BY <1>1, <1>5, <1>6, <1>9
  <2>3. Running /\ text' \in Seq(Instructions) /\ Kept /\ JumpsAgree'
    BY <1>1, <1>5, <1>6, <1>9
  <2> QED  BY <2>1, <2>2, <2>3, LeavesUndisturbed
<1> QED  BY <1>1, <1>3, <1>5, <1>6, <1>9, <1>10, StatementReturns

(* The end of a block.                                                     *)
LEMMA EndBlockAccounts ==
  ASSUME Accounting, EndBlockStep PROVE StackDiscipline' /\ JumpsAgree'
<1> DEFINE c == CommitStack(PopScope(stack))
<1>1. Running /\ Top.kind = "block" /\ Top.step = "statements" /\ CanPopScope(stack)
  BY DEF EndBlockStep, Returns, Outer, At
<1>2. /\ Top \in Activations /\ InControl(Top) /\ stack \in ScopedStacks
      /\ Len(stack.scopes) = Inner(Top) /\ Scoped(Top)
  BY <1>1, Accounts DEF Scoped
<1>3. ~IsExpression(Top) /\ Top.routine # "loop_declaration"
  BY <1>1, <1>2 DEF IsExpression, InControl, KindsOf
<1>4. Top.scope = Len(stack.scopes) - 1 /\ Top.scope \in Nat
  BY <1>2, ScopeNumbers
<1>5. /\ c \in ScopedStacks /\ Len(c.scopes) = Top.scope
      /\ \A k \in 1 .. Top.scope : c.scopes[k] = stack.scopes[k]
      /\ c.allocated = Innermost(c)
  BY <1>1, <1>2, <1>4, CommittedPopScope
<1>6. stack' = c /\ frames' = Returning /\ Emits
  BY DEF EndBlockStep, Returns, Outer
<1> HIDE DEF c
<1>7. text' \in Seq(Instructions) /\ Kept /\ JumpsAgree'
  BY <1>1, <1>5, <1>6, EmitsKept
<1>8. Undisturbed
  <2>1. stack' \in ScopedStacks /\ Top.scope <= Len(stack'.scopes)
    BY <1>1, <1>4, <1>5, <1>6, <1>7
  <2>2. \A k \in 1 .. Top.scope : stack'.scopes[k] = stack.scopes[k]
    BY <1>1, <1>4, <1>5, <1>6, <1>7
  <2>3. Running /\ text' \in Seq(Instructions) /\ Kept /\ JumpsAgree'
    BY <1>1, <1>4, <1>5, <1>6, <1>7
  <2> QED  BY <2>1, <2>2, <2>3, LeavesUndisturbed
<1> QED  BY <1>1, <1>3, <1>5, <1>6, <1>7, <1>8, StatementReturns


-----------------------------------------------------------------------------
(* The ends of if and for, where the waiting jump gets its target.         *)

(* The text with the target of a jump set, and what is emitted after it.   *)
LEMMA Patched ==
  ASSUME text \in Seq(Instructions), NEW q \in 1 .. Len(text), NEW p \in Nat,
         EmitsAfter([text EXCEPT ![q].to = p])
  PROVE  /\ text' \in Seq(Instructions) /\ Kept
         /\ Len(text) \in Nat /\ Len(text') \in Nat /\ Len(text) < Len(text')
         /\ text'[q].to = p /\ text'[q].depth = text[q].depth
         /\ \A i \in 1 .. Len(text) : i # q => text'[i].to = text[i].to
<1> DEFINE e == [text[q] EXCEPT !.to = p]
           t == [text EXCEPT ![q].to = p]
<1>1. /\ e \in Instructions /\ e.to = p /\ e.depth = text[q].depth /\ e.op = text[q].op
  <2>1. text[q] \in Instructions
    <3> HIDE DEF Instructions
    <3> QED  OBVIOUS
  <2> QED  BY <2>1 DEF Instructions
<1>2. /\ t \in Seq(Instructions) /\ Len(t) = Len(text)
      /\ \A i \in 1 .. Len(text) : t[i] = IF i = q THEN e ELSE text[i]
  <2>1. t = [text EXCEPT ![q] = e]
    OBVIOUS
  <2> HIDE DEF e, t, Instructions
  <2> QED  BY <1>1, <2>1, ExceptSeq
<1>3. EmitsAfter(t)
  OBVIOUS
<1> HIDE DEF t, e
<1>4. /\ text' \in Seq(Instructions) /\ Len(t) < Len(text')
      /\ \A i \in 1 .. Len(t) : text'[i] = t[i]
      /\ text'[Len(t) + 1].depth = stack.committed
  BY <1>3 DEF EmitsAfter
<1>5. \A i \in 1 .. Len(text) : text'[i] = IF i = q THEN e ELSE text[i]
  BY <1>2, <1>4
<1>6. Len(text) \in Nat /\ Len(text') \in Nat
  <2> HIDE DEF Instructions
  <2> QED  BY <1>4
<1>7. Kept
  <2>1. \A i \in 1 .. Len(text) : text'[i].op = text[i].op /\ text'[i].depth = text[i].depth
    BY <1>1, <1>5
  <2>2. /\ Len(text) <= Len(text') /\ Len(text) # Len(text')
        /\ text'[Len(text) + 1].depth = stack.committed
    BY <1>2, <1>4, <1>6
  <2> QED  BY <2>1, <2>2 DEF Kept
<1> QED  BY <1>1, <1>2, <1>4, <1>5, <1>6, <1>7

(* The end of an if: the conditional jump goes to after the release of the *)
(* scope.                                                                  *)
LEMMA EndIfAccounts ==
  ASSUME Accounting, EndIfStep PROVE StackDiscipline' /\ JumpsAgree'
<1> DEFINE c == CommitStack(PopScope(stack))
<1>1. Running /\ Top.kind = "if" /\ Top.step = "then" /\ CanPopScope(stack)
  BY DEF EndIfStep, Returns, Outer, At
<1>2. /\ Top \in Activations /\ InControl(Top) /\ stack \in ScopedStacks /\ FrameDiscipline(Top)
      /\ Len(stack.scopes) = Inner(Top) /\ Scoped(Top) /\ text \in Seq(Instructions) /\ JumpsAgree
  BY <1>1, Accounts DEF Scoped
<1>3. ~IsExpression(Top) /\ Top.routine # "loop_declaration"
  BY <1>1, <1>2 DEF IsExpression, InControl, KindsOf
<1>4. /\ Top.scope = Len(stack.scopes) - 1 /\ Top.scope \in Nat
      /\ stack.scopes[Top.scope] = Top.at /\ Top.at \in Int
  BY <1>1, <1>2, <1>3, ScopeNumbers, ActivationFields DEF FrameDiscipline
<1>5. /\ c \in ScopedStacks /\ Len(c.scopes) = Top.scope
      /\ \A k \in 1 .. Top.scope : c.scopes[k] = stack.scopes[k]
      /\ c.allocated = Innermost(c) /\ c.committed = Top.at
  BY <1>1, <1>2, <1>4, CommittedPopScope
<1>6. /\ Top.patch \in 1 .. Len(text) /\ text[Top.patch].depth = Top.at
  BY <1>1, <1>2 DEF FrameDiscipline, WaitingForPatch
<1>7. /\ stack' = c /\ frames' = Returning
      /\ EmitsAfter([text EXCEPT ![Top.patch].to = Len(text') + 1])
      /\ \A i \in Len(text) + 1 .. Len(text') : text'[i].to = 0
  BY DEF EndIfStep, Returns, Outer, New
<1> HIDE DEF c, Instructions
<1>9. Len(text) \in Nat /\ Len(text') \in Nat
  BY <1>2, <1>7 DEF EmitsAfter
<1>12. /\ text' \in Seq(Instructions) /\ Kept /\ Len(text) < Len(text')
       /\ text'[Top.patch].to = Len(text') + 1 /\ text'[Top.patch].depth = Top.at
       /\ \A i \in 1 .. Len(text) : i # Top.patch => text'[i].to = text[i].to
  <2>1. PICK p \in Nat, q \in 1 .. Len(text) : p = Len(text') + 1 /\ q = Top.patch
    BY <1>6, <1>9
  <2>2. EmitsAfter([text EXCEPT ![q].to = p])
    BY <1>7, <2>1
  <2>3. /\ text' \in Seq(Instructions) /\ Kept /\ Len(text) < Len(text')
        /\ text'[q].to = p /\ text'[q].depth = text[q].depth
        /\ \A i \in 1 .. Len(text) : i # q => text'[i].to = text[i].to
    BY <1>2, <2>2, Patched
  <2> QED  BY <1>6, <2>1, <2>3
<1>13. JumpsAgree'
  <2>1. PICK p \in Nat, d \in Int : p = Len(text') + 1 /\ d = Top.at
    BY <1>4, <1>9
  <2>2. CompiledFor(p, d)'
    BY <1>5, <1>7, <1>9, <1>12, <2>1 DEF CompiledFor, Label
  <2>3. text'[Top.patch].to = p /\ text'[Top.patch].depth = d
    BY <1>12, <2>1
  <2>4. ASSUME NEW i \in 1 .. Len(text')
        PROVE  \/ text'[i].to = 0
               \/ i \in 1 .. Len(text) /\ text'[i].to = text[i].to
               \/ i = Top.patch
    <3>1. i \in 1 .. Len(text) \/ i \in Len(text) + 1 .. Len(text')
      BY <1>9, <1>12
    <3> QED  BY <1>7, <1>12, <3>1
  <2> QED  BY <1>2, <1>12, <2>2, <2>3, <2>4, JumpsKept
<1>14. Undisturbed
  <2>1. stack' \in ScopedStacks /\ Top.scope <= Len(stack'.scopes)
    BY <1>1, <1>4, <1>5, <1>7, <1>12, <1>13
  <2>2. \A k \in 1 .. Top.scope : stack'.scopes[k] = stack.scopes[k]
    BY <1>1, <1>4, <1>5, <1>7, <1>12, <1>13
  <2>3. Running /\ text' \in Seq(Instructions) /\ Kept /\ JumpsAgree'
    BY <1>1, <1>4, <1>5, <1>7, <1>12, <1>13
  <2> QED  BY <2>1, <2>2, <2>3, LeavesUndisturbed
<1> QED  BY <1>1, <1>3, <1>5, <1>7, <1>13, <1>14, StatementReturns

(* The end of a loop: the jump back arrives with the stack its label is    *)
(* compiled for, the conditional jump before the release of the scope.     *)
LEMMA EndForAccounts ==
  ASSUME Accounting, EndForStep PROVE StackDiscipline' /\ JumpsAgree'
<1> DEFINE stepped == CommitStack(PopStack(stack, Slot[Top.left]))
           c == CommitStack(PopScope(stepped))
           d == stack.scopes[Top.scope + 1]
<1>1. /\ Running /\ Top.kind = "for" /\ Top.step = "step" /\ CanPopScope(stepped)
      /\ AwaitsExpression(Top) /\ Awaited(Top) = Top.left
  BY DEF EndForStep, Returns, Popped, Outer, At, AwaitsExpression, Awaited
<1>2. /\ Top \in Activations /\ InControl(Top) /\ stack \in ScopedStacks /\ FrameDiscipline(Top)
      /\ text \in Seq(Instructions) /\ JumpsAgree /\ ~IsExpression(Top)
      /\ Top.scope \in Nat \ {0} /\ Len(stack.scopes) = Top.scope + 1
      /\ Innermost(stack) = d /\ d \in Int
  BY <1>1, InLoop, Accounts
<1>3. Top.routine # "loop_declaration"
  BY <1>1, <1>2 DEF InControl, KindsOf
<1>4. /\ stepped \in ScopedStacks /\ stepped.scopes = stack.scopes /\ stepped.committed = d
  BY <1>1, <1>2, ValueDropped
<1>5. /\ stack' = c /\ frames' = Returning
      /\ EmitsAfter([text EXCEPT ![Top.patch].to = Len(text')])
      /\ text'[Len(text')].to = 0 /\ text'[Len(text')].depth = stepped.committed
      /\ \A i \in Len(text) + 1 .. Len(text') :
           text'[i].to # 0 => text'[i].to = Top.start /\ text'[i].depth = stepped.committed
  BY DEF EndForStep, Returns, Popped, Outer, New, LastEmitted
<1>6. /\ c \in ScopedStacks /\ Len(c.scopes) = Top.scope
      /\ \A k \in 1 .. Top.scope : c.scopes[k] = stack.scopes[k]
      /\ c.allocated = Innermost(c)
  <2> HIDE DEF stepped
  <2>1. /\ c \in ScopedStacks /\ Len(c.scopes) = Len(stepped.scopes) - 1
        /\ \A k \in 1 .. Len(stepped.scopes) - 1 : c.scopes[k] = stepped.scopes[k]
        /\ c.allocated = Innermost(c)
    BY <1>1, <1>4, CommittedPopScope
  <2> QED  BY <1>2, <1>4, <2>1, SMTT(30)
<1>7. /\ Top.patch \in 1 .. Len(text) /\ text[Top.patch].depth = d
      /\ Top.start \in Nat /\ CompiledFor(Top.start, d)
  BY <1>1, <1>2, ActivationFields DEF FrameDiscipline, WaitingForPatch
<1> HIDE DEF c, stepped, d, Instructions
<1>9. Len(text) \in Nat /\ Len(text') \in Nat
  BY <1>2, <1>5 DEF EmitsAfter
<1>11. /\ text' \in Seq(Instructions) /\ Kept /\ Len(text) < Len(text')
       /\ text'[Top.patch].to = Len(text') /\ text'[Top.patch].depth = d
       /\ \A i \in 1 .. Len(text) : i # Top.patch => text'[i].to = text[i].to
  <2>1. PICK p \in Nat, q \in 1 .. Len(text) : p = Len(text') /\ q = Top.patch
    BY <1>7, <1>9
  <2>2. EmitsAfter([text EXCEPT ![q].to = p])
    BY <1>5, <2>1
  <2>3. /\ text' \in Seq(Instructions) /\ Kept /\ Len(text) < Len(text')
        /\ text'[q].to = p /\ text'[q].depth = text[q].depth
        /\ \A i \in 1 .. Len(text) : i # q => text'[i].to = text[i].to
    BY <1>2, <2>2, Patched
  <2> QED  BY <1>7, <2>1, <2>3
<1>12. JumpsAgree'
  <2>1. PICK p \in Nat, q \in Nat, e \in Int : p = Len(text') /\ q = Top.start /\ e = d
    BY <1>2, <1>7, <1>9
  <2>2. CompiledFor(p, e)'
    <3>1. p \in 1 .. Len(text') /\ text'[p].depth = e
      BY <1>4, <1>5, <1>9, <1>11, <2>1
    <3> QED  BY <1>9, <3>1 DEF CompiledFor, Label
  <2>3. CompiledFor(q, e)'
    <3>1. CompiledFor(q, e)
      BY <1>7, <2>1
    <3> QED  BY <1>2, <1>11, <3>1, LabelKept
  <2>4. /\ text'[Top.patch].to = p /\ text'[Top.patch].depth = e
        /\ \A i \in Len(text) + 1 .. Len(text') :
             text'[i].to # 0 => text'[i].to = q /\ text'[i].depth = e
    BY <1>4, <1>5, <1>11, <2>1
  <2>5. ASSUME NEW i \in 1 .. Len(text')
        PROVE  \/ text'[i].to = 0
               \/ i \in 1 .. Len(text) /\ text'[i].to = text[i].to
               \/ text'[i].to = p /\ text'[i].depth = e
               \/ text'[i].to = q /\ text'[i].depth = e
    <3>1. i \in 1 .. Len(text) \/ i \in Len(text) + 1 .. Len(text')
      BY <1>9, <1>11
    <3>2. CASE i \in 1 .. Len(text)
      BY <1>11, <2>4, <3>2
    <3>3. CASE i \in Len(text) + 1 .. Len(text')
      BY <2>4, <3>3
    <3> QED  BY <3>1, <3>2, <3>3
  <2> QED  BY <1>2, <1>11, <2>2, <2>3, <2>5, JumpsKept
<1>13. Undisturbed
  <2>1. stack' \in ScopedStacks /\ Top.scope <= Len(stack'.scopes)
    BY <1>1, <1>2, <1>5, <1>6, <1>11, <1>12
  <2>2. \A k \in 1 .. Top.scope : stack'.scopes[k] = stack.scopes[k]
    BY <1>1, <1>2, <1>5, <1>6, <1>11, <1>12
  <2>3. Running /\ text' \in Seq(Instructions) /\ Kept /\ JumpsAgree'
    BY <1>1, <1>2, <1>5, <1>6, <1>11, <1>12
  <2> QED  BY <2>1, <2>2, <2>3, LeavesUndisturbed
<1> QED  BY <1>1, <1>2, <1>3, <1>5, <1>6, <1>12, <1>13, StatementReturns

(* The end of the function: no activation is left.                         *)
LEMMA EndFunctionAccounts ==
  ASSUME Accounting, EndFunctionStep PROVE StackDiscipline' /\ JumpsAgree'
<1>1. Running /\ Top.kind = "function" /\ Top.step = "statements" /\ CanPopScope(stack)
  BY DEF EndFunctionStep, Returns, At
<1>2. /\ stack \in ScopedStacks /\ text \in Seq(Instructions) /\ JumpsAgree
  BY <1>1, Accounts
<1>3. ~(Len(frames) > 1)
  <2>1. Len(frames) \in 1 .. Len(frames) /\ Top = frames[Len(frames)]
    BY <1>1, Accounts DEF Top
  <2> QED  BY <1>1, <2>1 DEF Accounting, Sound, ControlDiscipline
<1>4. stack' \in ScopedStacks /\ text' \in Seq(Instructions) /\ Kept /\ JumpsAgree'
  <2>1. CASE stack' = CommitStack(PopScope(stack)) /\ Emits
    <3>1. CommitStack(PopScope(stack)) \in ScopedStacks
      BY <1>1, <1>2, CommittedPopScope
    <3> QED  BY <1>1, <2>1, <3>1, EmitsKept
  <2>2. CASE stack' = PopScope(stack) /\ text' = text
    <3>2. PopScope(stack) \in ScopedStacks
      BY <1>1, <1>2, 0 \in Int, ScopedStackTypes
    <3>3. PopScope(stack).committed = stack.committed
      BY <1>2 DEF PopScope, ScopedStacks, Stacks
    <3> QED  BY <1>2, <2>2, <3>2, <3>3, NothingEmitted
  <2> QED  BY <2>1, <2>2 DEF EndFunctionStep, Returns
<1>5. Len(frames) \in Nat
  BY <1>1, Accounts
<1>6. Undisturbed
  BY <1>3, <1>4, <1>5 DEF Undisturbed
<1>7. frames' = Returning
  BY DEF EndFunctionStep, Returns
<1> QED  BY <1>1, <1>3, <1>4, <1>6, <1>7, ReturnAccounts

-----------------------------------------------------------------------------
(* The inductive invariant.                                                *)

(* The stack every function starts with.                                   *)
LEMMA InitialStack ==
  ASSUME EmitterInit
  PROVE  /\ Len(stack.scopes) = 2 /\ stack.scopes[1] = 0 /\ stack.scopes[2] = 0
         /\ stack.allocated = 0 /\ stack.committed = 0
<1>1. FreshStack.scopes = <<0>> /\ FreshStack.allocated = 0 /\ FreshStack.committed = 0
  BY DEF FreshStack
<1>2. FreshStack \in Stacks /\ Innermost(FreshStack) = 0
  BY <1>1 DEF FreshStack, Stacks, Innermost
<1>3. /\ PushScope(FreshStack).scopes = Append(<<0>>, 0)
      /\ PushScope(FreshStack).allocated = 0 /\ PushScope(FreshStack).committed = 0
  BY <1>1, <1>2 DEF PushScope, Stacks
<1>4. LET t == Append(<<0>>, 0) IN Len(t) = 2 /\ t[1] = 0 /\ t[2] = 0
  OBVIOUS
<1>5. stack = PushScope(FreshStack)
  BY DEF EmitterInit
<1> QED  BY <1>3, <1>4, <1>5

(* The function's own activation, on the stack it starts with.             *)
LEMMA InitAccounts ==
  ASSUME EmitterInit PROVE Accounting
<1>1. Sound
  BY InitSound
<1>2. /\ Len(stack.scopes) = 2 /\ stack.scopes[1] = 0 /\ stack.scopes[2] = 0
      /\ stack.allocated = 0 /\ stack.committed = 0
  BY InitialStack
<1>3. PICK f \in Activations :
        /\ frames = <<f>> /\ f.routine = "function" /\ f.kind = "function" /\ f.step = "statements"
        /\ f.scope = 1 /\ f.at = 0 /\ f.args = <<>> /\ f.argsize = 0
  <2> DEFINE g == [Activation("function", Void, FreshStack, Len(locals))
                     EXCEPT !.kind = "function", !.step = "statements"]
  <2>1. frames = <<g>>
    BY Zenon DEF EmitterInit
  <2>2. /\ g.routine = "function" /\ g.kind = "function" /\ g.step = "statements"
        /\ g.scope = 1 /\ g.at = 0 /\ g.args = <<>> /\ g.argsize = 0
    BY DEF Activation, FreshStack
  <2> HIDE DEF g
  <2>3. g \in Activations
    <3>1. frames \in Seq(Activations)
      BY <1>1 DEF Sound, TypeOK
    <3> QED  BY <2>1, <3>1
  <2> QED  BY <2>1, <2>2, <2>3
<1>4. Len(frames) = 1 /\ frames[1] = f /\ Top = f
  BY <1>3 DEF Top
<1>5. /\ ~IsExpression(f) /\ Scoped(f) /\ ~WaitingForPatch(f) /\ ~AwaitsExpression(f) /\ Inner(f) = 2
  BY <1>3 DEF IsExpression, Scoped, WaitingForPatch, AwaitsExpression, Inner
<1>6. FrameDiscipline(f) /\ ValueDiscipline(f)
  BY <1>2, <1>3, <1>5 DEF FrameDiscipline, ValueDiscipline
<1>7. TopDiscipline(f)
  BY <1>2, <1>3, <1>5 DEF TopDiscipline, Innermost
<1>8. StackDiscipline
  BY <1>4, <1>6, <1>7 DEF StackDiscipline
<1>9. JumpsAgree
  BY Zenon DEF EmitterInit, JumpsAgree
<1> QED  BY <1>1, <1>8, <1>9 DEF Accounting

(* A step that changes nothing.                                            *)
LEMMA StutterAccounts ==
  ASSUME Accounting, UNCHANGED emission PROVE StackDiscipline' /\ JumpsAgree'
<1>1. stack' = stack /\ frames' = frames /\ text' = text /\ result' = result
  BY DEF emission
<1>2. JumpsAgree'
  BY <1>1 DEF Accounting, JumpsAgree, CompiledFor, Label
<1>3. StackDiscipline'
  BY <1>1, SMTT(30) DEF Accounting, StackDiscipline, FrameDiscipline, ValueDiscipline, CallDiscipline,
       TopDiscipline, CalleeAt, CompiledFor, Label, Running, Top, ResultOnTop
<1> QED  BY <1>2, <1>3

(* Every step preserves the accounting.                                    *)
LEMMA NextAccounts ==
  ASSUME StraightFeatures, Accounting, [EmitterNext]_emission PROVE Accounting'
<1>1. CASE ExpressionStep
  BY <1>1, PushAccounts, BeginBinaryAccounts, BinaryRightAccounts,
     EndBinaryAccounts, BeginCallAccounts, BeginArgumentAccounts, EndArgumentAccounts,
     EndCallAccounts, BeginAssignAccounts, EndAssignAccounts, BeginMemberAccounts,
     EndMemberAccounts, BeginCastAccounts, EndCastAccounts, NextSound, Zenon
     DEF ExpressionStep, EmitterNext, Accounting
<1>2. CASE StatementStep
  BY <1>2, DeclareOnlyAccounts, BeginDeclarationAccounts, EndDeclarationAccounts,
     BeginDiscardAccounts, EndDiscardAccounts, BeginIfAccounts, IfThenAccounts, EndIfAccounts,
     BeginForAccounts, ForConditionAccounts, ForBodyAccounts, ForStepAccounts, EndForAccounts,
     BeginReturnAccounts, EndReturnAccounts, BeginBlockAccounts, NextStatementAccounts,
     EndBlockAccounts, EndFunctionAccounts, NextSound, Zenon
     DEF StatementStep, EmitterNext, Accounting
<1>3. CASE UNCHANGED emission
  BY <1>3, StutterAccounts, NextSound, Zenon DEF Accounting
<1> QED  BY <1>1, <1>2, <1>3 DEF EmitterNext

-----------------------------------------------------------------------------
(* Where the values lie, in every program without the constructs that      *)
(* AlignedFeatures excludes.                                               *)

(* The inductive invariant.                                                *)
LaidOut == Accounting /\ Layout

-----------------------------------------------------------------------------
(* The activations after an action, as a rigid sequence.                   *)
LEMMA LayoutAssembled ==
  ASSUME NEW F \in Seq(Activations), frames' = F, Placed',
         \A i \in 1 .. Len(F) : Sees(F[i])' /\ Remembers(F[i])' /\ Passes(F[i])
  PROVE  Layout'
<1>1. ASSUME NEW i \in 1 .. Len(F)
      PROVE  Sees(frames[i])' /\ Remembers(frames[i])' /\ Passes(frames[i])'
  BY <1>1 DEF Sees, Remembers, Passes
<1> QED  BY <1>1 DEF Layout

(* What an action may do to the scopes and the names below the innermost   *)
(* activation.                                                             *)
Spares ==
  /\ signature' = signature /\ stack' \in ScopedStacks
  /\ Top.scope <= Len(stack'.scopes)
  /\ \A k \in 1 .. Top.scope : stack'.scopes[k] >= stack.scopes[k]
  /\ \A k \in 1 .. Top.visible : locals'[k] = locals[k]
  /\ locals' = locals \/ ~IsExpression(Top)

(* What an activation sees stays where it is.                              *)
LEMMA StillSees ==
  ASSUME LaidOut, Running, Spares, NEW f \in Activations, Sees(f),
         f.scope \in 1 .. Top.scope, f.visible <= Top.visible
  PROVE  Sees(f)'
<1>1. stack \in ScopedStacks /\ Top \in Activations /\ Len(stack.scopes) = Inner(Top)
      /\ FrameDiscipline(Top)
  BY Accounts DEF LaidOut
<1>2. locals \in Seq(Locals) /\ Top.visible \in Nat /\ Top.visible <= Len(locals)
      /\ Len(locals) \in Nat /\ f.visible \in Nat /\ Top.scope \in Nat
  BY Context, ActivationFields DEF LaidOut, Accounting
<1>3. f.scope \in 1 .. Len(stack.scopes) /\ f.scope \in 1 .. Len(stack'.scopes)
  <2>1. Top.scope <= Len(stack.scopes) /\ Len(stack.scopes) \in Nat
    BY <1>1, <1>2, ScopesType DEF FrameDiscipline
  <2>2. Top.scope <= Len(stack'.scopes) /\ Len(stack'.scopes) \in Nat
    BY ScopesType DEF Spares
  <2> QED  BY <1>2, <2>1, <2>2
<1>4. stack.scopes[f.scope] \in Int /\ stack'.scopes[f.scope] \in Int
      /\ stack'.scopes[f.scope] >= stack.scopes[f.scope]
  BY <1>1, <1>3, ScopesType DEF Spares
<1>5. ASSUME NEW k \in 1 .. f.visible
      PROVE  locals'[k].offset <= stack'.scopes[f.scope]
  <2>1. k \in 1 .. Top.visible /\ k \in 1 .. Len(locals)
    BY <1>2
  <2>2. locals'[k] = locals[k] /\ locals[k].offset \in Int
    <3>1. locals[k] \in Locals
      BY <1>2, <2>1
    <3> QED  BY <2>1, <3>1 DEF Spares, Locals
  <2>3. locals[k].offset <= stack.scopes[f.scope]
    BY DEF Sees
  <2> QED  BY <1>4, <2>2, <2>3
<1> QED  BY <1>5 DEF Sees

(* The activations below the innermost one.                                *)
LEMMA CallersLaidOut ==
  ASSUME LaidOut, Running, Spares, NEW i \in 1 .. Len(frames) - 1,
         NEW f \in Activations, f = frames[i]
  PROVE  Sees(f)' /\ Remembers(f)' /\ Passes(f)
<1>1. /\ frames \in Seq(Activations) /\ Len(frames) \in Nat \ {0} /\ Top = frames[Len(frames)]
      /\ Top \in Activations
  BY Accounts DEF LaidOut, Top
<1>2. i \in 1 .. Len(frames) /\ Len(frames) \in 1 .. Len(frames) /\ i < Len(frames)
  BY <1>1
<1>3. Sees(f) /\ Remembers(f) /\ Passes(f)
  BY <1>2 DEF LaidOut, Layout
<1>4. Inner(f) <= Top.scope /\ (IsExpression(Top) \/ Scoped(f)) /\ FrameDiscipline(f)
  BY <1>1, <1>2 DEF LaidOut, Accounting, StackDiscipline
<1>5. Names(f) <= Top.visible /\ InControl(f)
  BY <1>1, <1>2 DEF LaidOut, Accounting, Sound, NameDiscipline, ControlDiscipline
<1>6. f.scope \in 1 .. Top.scope /\ f.visible <= Top.visible
  <2>1. f.scope \in Nat /\ f.scope >= 1 /\ f.scope <= Inner(f) /\ Inner(f) \in Nat
    BY <1>4, ScopeNumbers DEF FrameDiscipline
  <2>2. f.visible \in Nat /\ f.visible <= Names(f) /\ Names(f) \in Nat
        /\ Top.scope \in Nat /\ Top.visible \in Nat
    BY <1>1, ActivationFields
  <2> QED  BY <1>4, <1>5, <2>1, <2>2
<1>7. Sees(f)'
  BY <1>3, <1>6, StillSees
<1>8. Remembers(f)'
  <2>1. CASE locals' = locals
    BY <1>3, <2>1 DEF Remembers, Spares, ReturnTypes
  <2>2. CASE Scoped(f)
    <3>1. f.kind \notin {"assign", "member", "declaration", "return"}
      BY <1>5, <2>2 DEF Scoped, InControl, KindsOf, StepsOf
    <3> QED  BY <3>1 DEF Remembers
  <2> QED  BY <1>4, <2>1, <2>2 DEF Spares
<1> QED  BY <1>3, <1>7, <1>8

(* An activation becomes f: what it sees.                                  *)
LEMMA ContinuesLaidOut ==
  ASSUME LaidOut, Running, Spares, NEW f \in Activations,
         f.scope = Top.scope, f.visible = Top.visible
  PROVE  Sees(f)'
<1>1. /\ frames \in Seq(Activations) /\ Len(frames) \in Nat \ {0} /\ Top = frames[Len(frames)]
      /\ Top \in Activations /\ FrameDiscipline(Top)
  BY Accounts DEF LaidOut, Top
<1>2. Sees(Top)
  BY <1>1 DEF LaidOut, Layout
<1>3. Sees(f)
  BY <1>2 DEF Sees
<1>4. Top.scope \in Nat /\ Top.visible \in Nat /\ Top.scope >= 1
  BY <1>1, ActivationFields DEF FrameDiscipline
<1> QED  BY <1>3, <1>4, StillSees

LEMMA CallLaidOut ==
  ASSUME LaidOut, Running, Spares, Placed',
         NEW f \in Activations, NEW g \in Activations, frames' = Calling(f, g),
         f.scope = Top.scope, f.visible = Top.visible, Remembers(f)', Passes(f),
         g.kind = "?", g.scope = Len(stack'.scopes), g.visible <= Len(locals'),
         locals' \in Seq(Locals)
  PROVE  Layout'
<1> DEFINE n == Len(frames)
<1>1. n \in Nat \ {0} /\ frames \in Seq(Activations)
  BY Accounts DEF LaidOut
<1>2. PICK F \in Seq(Activations) :
        /\ frames' = F /\ Len(F) = n + 1 /\ \A i \in 1 .. n - 1 : F[i] = frames[i]
        /\ F[n] = f /\ F[n + 1] = g
  BY <1>1, CallShape
<1>3. Sees(f)'
  BY ContinuesLaidOut
<1>4. Sees(g)' /\ Remembers(g)' /\ Passes(g)
  <2>1. g.visible \in Nat /\ Len(locals') \in Nat
    BY ActivationFields
  <2>2. Sees(g)'
    BY <2>1 DEF Sees, Placed, Innermost
  <2> QED  BY <2>2 DEF Remembers, Passes
<1>5. ASSUME NEW i \in 1 .. n + 1 PROVE Sees(F[i])' /\ Remembers(F[i])' /\ Passes(F[i])
  <2>1. CASE i = n
    <3>1. F[i] = f
      BY <1>2, <2>1
    <3> QED  BY <1>3, <3>1 DEF Sees, Remembers
  <2>2. CASE i = n + 1
    <3>1. F[i] = g
      BY <1>2, <2>2
    <3> QED  BY <1>4, <3>1 DEF Sees, Remembers
  <2>3. CASE i \in 1 .. n - 1
    <3>1. F[i] = frames[i] /\ F[i] \in Activations
      <4>1. i \in 1 .. Len(F)
        BY <1>1, <1>2, <2>3
      <4> QED  BY <1>2, <2>3, <4>1
    <3>2. PICK h \in Activations : h = F[i]
      BY <3>1
    <3>3. Sees(h)' /\ Remembers(h)' /\ Passes(h)
      BY <2>3, <3>1, <3>2, CallersLaidOut
    <3> QED  BY <3>2, <3>3
  <2> QED  BY <1>1, <2>1, <2>2, <2>3
<1> QED  BY <1>2, <1>5, LayoutAssembled

LEMMA UpdateLaidOut ==
  ASSUME LaidOut, Running, Spares, Placed', NEW f \in Activations, frames' = Becoming(f),
         f.scope = Top.scope, f.visible = Top.visible, Remembers(f)', Passes(f)
  PROVE  Layout'
<1> DEFINE n == Len(frames)
<1>1. n \in Nat \ {0} /\ frames \in Seq(Activations)
  BY Accounts DEF LaidOut
<1>2. PICK F \in Seq(Activations) :
        /\ frames' = F /\ Len(F) = n /\ (\A i \in 1 .. n - 1 : F[i] = frames[i]) /\ F[n] = f
  BY <1>1, UpdateShape
<1>3. Sees(f)'
  BY ContinuesLaidOut
<1>5. ASSUME NEW i \in 1 .. n PROVE Sees(F[i])' /\ Remembers(F[i])' /\ Passes(F[i])
  <2>1. CASE i = n
    <3>1. F[i] = f
      BY <1>2, <2>1
    <3> QED  BY <1>3, <3>1
  <2>3. CASE i \in 1 .. n - 1
    <3>1. F[i] = frames[i] /\ F[i] \in Activations
      <4>1. i \in 1 .. Len(F)
        BY <1>1, <1>2, <2>3
      <4> QED  BY <1>2, <2>3, <4>1
    <3>2. PICK h \in Activations : h = F[i]
      BY <3>1
    <3>3. Sees(h)' /\ Remembers(h)' /\ Passes(h)
      BY <2>3, <3>1, <3>2, CallersLaidOut
    <3> QED  BY <3>2, <3>3
  <2> QED  BY <1>1, <2>1, <2>3
<1> QED  BY <1>2, <1>5, LayoutAssembled

LEMMA ReturnLaidOut ==
  ASSUME LaidOut, Running, Spares, Placed', frames' = Returning
  PROVE  Layout'
<1> DEFINE n == Len(frames)
<1>1. n \in Nat \ {0} /\ frames \in Seq(Activations)
  BY Accounts DEF LaidOut
<1>2. PICK F \in Seq(Activations) :
        frames' = F /\ Len(F) = n - 1 /\ \A i \in 1 .. n - 1 : F[i] = frames[i]
  BY <1>1, ReturnShape
<1>5. ASSUME NEW i \in 1 .. n - 1 PROVE Sees(F[i])' /\ Remembers(F[i])' /\ Passes(F[i])
  <2>1. F[i] = frames[i] /\ F[i] \in Activations
    BY <1>1, <1>2
  <2>2. PICK h \in Activations : h = F[i]
    BY <2>1
  <2>3. Sees(h)' /\ Remembers(h)' /\ Passes(h)
    BY <2>1, <2>2, CallersLaidOut
  <2> QED  BY <2>2, <2>3
<1> QED  BY <1>2, <1>5, LayoutAssembled

-----------------------------------------------------------------------------
(* The variables after an action.                                          *)

(* Types of what the layout speaks of.                                     *)
LEMMA Offsets ==
  ASSUME LaidOut, Running
  PROVE  /\ stack \in ScopedStacks /\ Len(stack.scopes) \in Nat \ {0}
         /\ Innermost(stack) \in Int /\ Innermost(stack) >= 0
         /\ \A k \in 1 .. Len(stack.scopes) : stack.scopes[k] \in Int /\ stack.scopes[k] >= 0
         /\ signature \in Signatures /\ signature.params \in Seq(ValueTypes)
         /\ signature.returns \in Types
         /\ ReturnAt(Slot, Gap, signature) \in Int /\ ReturnAt(Slot, Gap, signature) <= 0
         /\ locals \in Seq(Locals) /\ Len(locals) \in Nat
         /\ \A k \in 1 .. Len(locals) :
              /\ locals[k] \in Locals
              /\ locals[k].offset \in Int /\ locals[k].offset <= Innermost(stack)
              /\ locals[k].type \in ValueTypes /\ Slot[locals[k].type] \in Nat
         /\ Placed
<1>1. stack \in ScopedStacks /\ Len(stack.scopes) \in Nat \ {0} /\ stack.scopes \in Seq(Int)
      /\ \A k \in 1 .. Len(stack.scopes) : stack.scopes[k] \in Int
  BY Accounts, ScopesType DEF LaidOut
<1>2. signature \in Signatures /\ locals \in Seq(Locals) /\ Len(locals) \in Nat
  BY Context DEF LaidOut, Accounting
<1>3. signature.params \in Seq(ValueTypes) /\ signature.returns \in Types
  BY <1>2, SignaturesAssumption
<1>4. Len(signature.params) \in 0 .. Len(signature.params)
  BY <1>3
<1>5. BytesOfLast(Slot, Len(signature.params), signature.params) \in Nat
  BY <1>3, <1>4, BytesOfLastType
<1>6. ReturnAt(Slot, Gap, signature) \in Int /\ ReturnAt(Slot, Gap, signature) <= 0
  BY <1>5, SlotAssumption DEF ReturnAt
<1>7. Len(stack.scopes) \in 1 .. Len(stack.scopes)
  BY <1>1
<1>8. Placed
  BY DEF LaidOut, Layout
<1>9. Innermost(stack) \in Int /\ Innermost(stack) >= 0
  BY <1>1, <1>7, <1>8 DEF Innermost, Placed
<1>10. ASSUME NEW k \in 1 .. Len(locals)
       PROVE  /\ locals[k] \in Locals
              /\ locals[k].offset \in Int /\ locals[k].offset <= Innermost(stack)
              /\ locals[k].type \in ValueTypes /\ Slot[locals[k].type] \in Nat
  <2>1. locals[k] \in Locals
    BY <1>2
  <2>2. locals[k].type \in ValueTypes /\ locals[k].offset <= Innermost(stack)
    BY <1>8 DEF Placed
  <2>3. Slot[locals[k].type] \in Nat
    BY <2>2, TypesAssumption, SlotAssumption DEF ValueTypes, Types
  <2> QED  BY <2>1, <2>2, <2>3 DEF Locals
<1>11. \A k \in 1 .. Len(stack.scopes) : stack.scopes[k] >= 0
  BY <1>8 DEF Placed
<1> QED  BY <1>1, <1>2, <1>3, <1>6, <1>8, <1>9, <1>10, <1>11

(* Names may end, and the innermost scope may be another one.              *)
LEMMA PlacedKept ==
  ASSUME LaidOut, Running, stack' \in ScopedStacks, signature' = signature,
         \A k \in 1 .. Len(stack'.scopes) : stack'.scopes[k] >= 0,
         NEW n \in 0 .. Len(locals), Len(locals') = n,
         \A k \in 1 .. n : locals'[k] = locals[k] /\ locals[k].offset <= Innermost(stack')
  PROVE  Placed'
<1>1. Placed /\ Len(locals) \in Nat
  BY Offsets
<1>2. \A k \in 1 .. n : k \in 1 .. Len(locals)
  BY <1>1
<1> QED  BY <1>1, <1>2 DEF Placed

(* A variable may be declared below the others.                            *)
LEMMA PlacedDeclared ==
  ASSUME LaidOut, Running, stack' \in ScopedStacks, signature' = signature,
         \A k \in 1 .. Len(stack'.scopes) : stack'.scopes[k] >= 0,
         Innermost(stack) <= Innermost(stack'),
         NEW t \in ValueTypes, NEW o \in Int, locals' = Append(locals, [type |-> t, offset |-> o]),
         o <= Innermost(stack'), 0 <= o - Slot[t],
         \A k \in 1 .. Len(locals) : locals[k].offset <= o - Slot[t]
  PROVE  Placed'
<1> DEFINE n == Len(locals)
           new == [type |-> t, offset |-> o]
<1>0. /\ locals \in Seq(Locals) /\ n \in Nat /\ Placed
      /\ Innermost(stack) \in Int
      /\ ReturnAt(Slot, Gap, signature) \in Int /\ ReturnAt(Slot, Gap, signature) <= 0
  BY Offsets
<1>1. Slot[t] \in Nat /\ t \in Types
  BY TypesAssumption, SlotAssumption DEF ValueTypes, Types
<1>2. new \in Locals
  BY <1>1 DEF Locals
<1>3. /\ Len(locals') = n + 1 /\ locals'[n + 1] = new
      /\ \A k \in 1 .. n : locals'[k] = locals[k]
  BY <1>0, <1>2, AppendProperties
<1>4. new.type = t /\ new.offset = o
  OBVIOUS
<1>5. Innermost(stack') \in Int
  <2>1. Len(stack'.scopes) \in 1 .. Len(stack'.scopes)
    BY ScopesType
  <2> QED  BY <2>1, ScopesType DEF Innermost
<1>6. ASSUME NEW k \in 1 .. Len(locals')
      PROVE  /\ locals'[k].type \in ValueTypes /\ locals'[k].offset <= Innermost(stack')
             /\ ReturnAt(Slot, Gap, signature) <= locals'[k].offset - Slot[locals'[k].type]
  <2>1. CASE k \in 1 .. n
    <3>1. locals'[k] = locals[k] /\ locals[k].offset \in Int /\ locals[k].offset <= Innermost(stack)
      BY <1>3, <2>1, Offsets
    <3>2. locals'[k].offset <= Innermost(stack')
      BY <1>0, <1>5, <3>1
    <3> QED  BY <1>0, <2>1, <3>1, <3>2 DEF Placed
  <2>2. CASE k = n + 1
    <3>1. locals'[k].type = t /\ locals'[k].offset = o
      BY <1>3, <1>4, <2>2
    <3>2. ReturnAt(Slot, Gap, signature) <= o - Slot[t]
      BY <1>0, <1>1
    <3> QED  BY <3>1, <3>2
  <2> QED  BY <1>0, <1>3, <2>1, <2>2
<1>7. ASSUME NEW j \in 1 .. Len(locals'), NEW k \in 1 .. Len(locals'), j < k
      PROVE  locals'[j].offset <= locals'[k].offset - Slot[locals'[k].type]
  <2>1. j \in 1 .. n /\ locals'[j] = locals[j]
    BY <1>0, <1>3, <1>7
  <2>2. CASE k \in 1 .. n
    BY <1>0, <1>3, <1>7, <2>1, <2>2 DEF Placed
  <2>3. CASE k = n + 1
    <3>1. locals'[k].type = t /\ locals'[k].offset = o
      BY <1>3, <1>4, <2>3
    <3> QED  BY <2>1, <3>1
  <2> QED  BY <1>0, <1>3, <2>2, <2>3
<1> QED  BY <1>6, <1>7 DEF Placed

(* An action that declares nothing and opens and closes no scope.          *)
LEMMA QuietSpares ==
  ASSUME LaidOut, Running, stack' \in ScopedStacks, stack'.scopes = stack.scopes,
         signature' = signature, locals' = locals
  PROVE  Spares /\ Placed'
<1>1. Top.scope <= Len(stack'.scopes) /\ Top.scope \in Nat
  BY Accounts, ActivationFields DEF LaidOut, FrameDiscipline
<1>2. /\ \A k \in 1 .. Len(stack'.scopes) : stack'.scopes[k] >= 0 /\ stack.scopes[k] \in Int
      /\ Len(locals) \in 0 .. Len(locals)
      /\ \A k \in 1 .. Len(locals) : locals[k].offset <= Innermost(stack)
      /\ Len(stack.scopes) \in Nat
  <2>1. Len(locals) \in Nat /\ Len(stack.scopes) \in Nat
    BY Offsets
  <2>2. \A k \in 1 .. Len(stack.scopes) : stack.scopes[k] >= 0 /\ stack.scopes[k] \in Int
    BY Offsets
  <2>3. \A k \in 1 .. Len(locals) : locals[k].offset <= Innermost(stack)
    BY Offsets
  <2> QED  BY <2>1, <2>2, <2>3
<1>3. Innermost(stack') = Innermost(stack)
  BY DEF Innermost
<1>4. Placed'
  BY <1>2, <1>3, PlacedKept
<1>5. \A k \in 1 .. Top.scope : stack'.scopes[k] >= stack.scopes[k]
  BY <1>1, <1>2
<1> QED  BY <1>1, <1>4, <1>5 DEF Spares

(* An action that opens a scope.                                           *)
LEMMA ScopingSpares ==
  ASSUME LaidOut, Running, stack' \in ScopedStacks,
         stack'.scopes = Append(stack.scopes, Innermost(stack)),
         signature' = signature, locals' = locals
  PROVE  Spares /\ Placed'
<1>1. Top.scope <= Len(stack.scopes) /\ Top.scope \in Nat
  BY Accounts, ActivationFields DEF LaidOut, FrameDiscipline
<1>2. /\ \A k \in 1 .. Len(stack.scopes) : stack.scopes[k] >= 0 /\ stack.scopes[k] \in Int
      /\ Len(locals) \in 0 .. Len(locals)
      /\ \A k \in 1 .. Len(locals) : locals[k].offset <= Innermost(stack)
      /\ Len(stack.scopes) \in Nat /\ Innermost(stack) \in Int /\ Innermost(stack) >= 0
      /\ stack.scopes \in Seq(Int)
  <2>1. stack \in ScopedStacks /\ Len(locals) \in Nat /\ Len(stack.scopes) \in Nat
        /\ Innermost(stack) \in Int /\ Innermost(stack) >= 0
    BY Offsets
  <2>2. \A k \in 1 .. Len(stack.scopes) : stack.scopes[k] >= 0 /\ stack.scopes[k] \in Int
    BY Offsets
  <2>3. \A k \in 1 .. Len(locals) : locals[k].offset <= Innermost(stack)
    BY Offsets
  <2>4. Len(locals) \in 0 .. Len(locals) /\ stack.scopes \in Seq(Int)
    BY <2>1, ScopesType
  <2> QED  BY <2>1, <2>2, <2>3, <2>4
<1>3. /\ Len(stack'.scopes) = Len(stack.scopes) + 1
      /\ stack'.scopes[Len(stack.scopes) + 1] = Innermost(stack)
      /\ \A k \in 1 .. Len(stack.scopes) : stack'.scopes[k] = stack.scopes[k]
  BY <1>2, AppendProperties
<1>4. Innermost(stack') = Innermost(stack)
  BY <1>3 DEF Innermost
<1>5. \A k \in 1 .. Len(stack'.scopes) : stack'.scopes[k] >= 0
  BY <1>2, <1>3
<1>6. Placed'
  BY <1>2, <1>4, <1>5, PlacedKept
<1>7. \A k \in 1 .. Top.scope : stack'.scopes[k] >= stack.scopes[k]
  BY <1>1, <1>2, <1>3, SMTT(30)
<1> QED  BY <1>1, <1>2, <1>3, <1>6, <1>7 DEF Spares

(* An action that closes the scope of the innermost activation: only the   *)
(* names it found stay visible.                                            *)
LEMMA UnscopingSpares ==
  ASSUME LaidOut, Running, ~IsExpression(Top), stack' \in ScopedStacks,
         stack'.scopes = SubSeq(stack.scopes, 1, Top.scope), Top.scope <= Len(stack.scopes),
         signature' = signature, locals' = SubSeq(locals, 1, Top.visible)
  PROVE  Spares /\ Placed'
<1>1. Top.scope \in 1 .. Len(stack.scopes) /\ Top.scope \in Nat
  BY Accounts, ActivationFields DEF LaidOut, FrameDiscipline
<1>2. /\ \A k \in 1 .. Len(stack.scopes) : stack.scopes[k] >= 0 /\ stack.scopes[k] \in Int
      /\ locals \in Seq(Locals) /\ Len(locals) \in Nat
      /\ Len(stack.scopes) \in Nat /\ stack.scopes \in Seq(Int)
  BY Offsets, ScopesType
<1>3. Top.visible \in Nat /\ Top.visible <= Len(locals)
  BY Context DEF LaidOut, Accounting
<1>4. /\ Len(stack'.scopes) = Top.scope
      /\ \A k \in 1 .. Top.scope : stack'.scopes[k] = stack.scopes[k]
  BY <1>1, <1>2, SMTT(30)
<1>5. /\ Len(locals') = Top.visible
      /\ \A k \in 1 .. Top.visible : locals'[k] = locals[k]
  BY <1>2, <1>3
<1>6. Sees(Top)
  <2>1. Len(frames) \in 1 .. Len(frames) /\ Top = frames[Len(frames)]
    BY Accounts DEF LaidOut, Top
  <2> QED  BY <2>1 DEF LaidOut, Layout
<1>7. \A k \in 1 .. Top.visible : locals[k].offset <= Innermost(stack')
  BY <1>1, <1>4, <1>6 DEF Sees, Innermost
<1>8. \A k \in 1 .. Top.scope : stack'.scopes[k] >= stack.scopes[k] /\ stack'.scopes[k] >= 0
  BY <1>1, <1>2, <1>4, SMTT(30)
<1>9. Placed'
  <2>1. Top.visible \in 0 .. Len(locals)
    BY <1>2, <1>3
  <2> QED  BY <1>4, <1>5, <1>7, <1>8, <2>1, PlacedKept
<1>10. Top.scope <= Len(stack'.scopes)
  BY <1>1, <1>4
<1> QED  BY <1>5, <1>8, <1>9, <1>10 DEF Spares

-----------------------------------------------------------------------------
(* The actions that neither declare a name nor open or close a scope.      *)

(* Pushing, popping and committing leave the scopes alone.                 *)
LEMMA ScopesUntouched ==
  ASSUME NEW s \in Stacks
  PROVE  \A k, m, n :
           /\ PushStack(s, n).scopes = s.scopes
           /\ CommitStack(PushStack(s, n)).scopes = s.scopes
           /\ CommitStack(PopStack(s, n)).scopes = s.scopes
           /\ CommitStack(PushStack(PopStack(s, m), n)).scopes = s.scopes
           /\ CommitStack(PushStack(PopStack(PopStack(s, k), m), n)).scopes = s.scopes
BY DEF Stacks, PushStack, PopStack, CommitStack

(* The types before and after an action.                                   *)
LEMMA StepTypes ==
  ASSUME LaidOut, Accounting', Running
  PROVE  /\ stack \in Stacks /\ stack' \in ScopedStacks /\ locals' \in Seq(Locals)
         /\ Top \in Activations /\ Len(locals) \in Nat /\ Len(stack.scopes) \in Nat
<1>1. stack \in ScopedStacks /\ Top \in Activations /\ Len(stack.scopes) \in Nat
  BY Accounts DEF LaidOut
<1>2. stack' \in ScopedStacks /\ locals' \in Seq(Locals)
  BY DEF Accounting, Sound, TypeOK, ScopedStacks, Locals
<1> QED  BY <1>1, <1>2, Offsets DEF ScopedStacks

(* Returns, ...                                                            *)
LEMMA QuietReturn ==
  ASSUME LaidOut, Accounting', Running, frames' = Returning,
         stack'.scopes = stack.scopes, signature' = signature, locals' = locals
  PROVE  Layout'
BY StepTypes, QuietSpares, ReturnLaidOut

(* ... calls of the emitter of expressions ...                             *)
LEMMA QuietCall ==
  ASSUME LaidOut, Accounting', Running, NEW f \in Activations, NEW t \in Types,
         frames' = Calling(f, Expression(t, stack')),
         f.scope = Top.scope, f.visible = Top.visible, Remembers(f)', Passes(f),
         stack'.scopes = stack.scopes, signature' = signature, locals' = locals
  PROVE  Layout'
<1> DEFINE h == Activation("expression", t, stack', Len(locals))
<1>1. h \in Activations /\ h.kind = "?" /\ h.scope = Len(stack'.scopes) /\ h.visible = Len(locals)
  <2>1. /\ stack' \in ScopedStacks /\ Len(locals) \in Nat /\ "expression" \in Routines
        /\ signature \in Signatures
    BY StepTypes, Offsets DEF Routines
  <2> QED  BY <2>1, ActivationFacts, ActivationType
<1>2. frames' = Calling(f, h)
  BY DEF Expression
<1> HIDE DEF h
<1>3. Spares /\ Placed' /\ locals' \in Seq(Locals) /\ Len(locals) \in Nat
  BY StepTypes, QuietSpares
<1> QED  BY <1>1, <1>2, <1>3, CallLaidOut

(* ... and steps within a handler.                                         *)
LEMMA QuietUpdate ==
  ASSUME LaidOut, Accounting', Running, NEW f \in Activations, frames' = Becoming(f),
         f.scope = Top.scope, f.visible = Top.visible, Remembers(f)', Passes(f),
         stack'.scopes = stack.scopes, signature' = signature, locals' = locals
  PROVE  Layout'
BY StepTypes, QuietSpares, UpdateLaidOut

(* A literal, a name, and the results of operators.                        *)
LEMMA ValuesLaidOut ==
  ASSUME LaidOut, Accounting',
         PushStep \/ EndBinaryStep \/ EndCallStep \/ EndAssignStep \/ EndMemberStep \/ EndCastStep
  PROVE  Layout'
<1>1. /\ Running /\ frames' = Returning /\ signature' = signature /\ locals' = locals
  BY DEF PushStep, Yields, Pushed, Returns, EndBinaryStep, EndCallStep, EndAssignStep,
       EndMemberStep, Popped, EndCastStep, Entering, At
<1>2. stack \in Stacks
  BY <1>1, StepTypes
<1>3. stack'.scopes = stack.scopes
  <2>1. CASE PushStep
    BY <1>2, <2>1, ScopesUntouched DEF PushStep, Yields, Pushed, Returns
  <2>2. CASE EndBinaryStep
    BY <1>2, <2>2, ScopesUntouched DEF EndBinaryStep, Yields, Pushed, Returns
  <2>3. CASE EndCallStep
    <3>1. stack' = CommitStack(PopStack(stack, Top.argsize))
      BY <2>3 DEF EndCallStep, Returns
    <3> QED  BY <1>2, <3>1, ScopesUntouched
  <2>4. CASE EndAssignStep
    BY <2>4 DEF EndAssignStep, Returns
  <2>5. CASE EndMemberStep
    BY <1>2, <2>5, ScopesUntouched DEF EndMemberStep, Returns, Popped
  <2>6. CASE EndCastStep
    <3>1. \/ stack' = stack
          \/ stack' = CommitStack(PushStack(PopStack(stack, Slot[Top.left]), Slot[Top.type]))
      BY <2>6, Zenon DEF EndCastStep, Yields, Pushed, Returns
    <3> QED  BY <1>2, <3>1, ScopesUntouched
  <2> QED  BY <2>1, <2>2, <2>3, <2>4, <2>5, <2>6
<1> QED  BY <1>1, <1>3, QuietReturn

(* The statements of an expression and of a returned value.                *)
LEMMA DroppedLaidOut ==
  ASSUME LaidOut, Accounting', EndDiscardStep \/ EndReturnStep PROVE Layout'
<1>1. /\ Running /\ frames' = Returning /\ signature' = signature /\ locals' = locals
  BY DEF EndDiscardStep, Returns, Popped, EndReturnStep, At
<1>2. stack \in Stacks
  BY <1>1, StepTypes
<1>3. stack'.scopes = stack.scopes
  BY <1>2, ScopesUntouched DEF EndDiscardStep, Returns, Popped, EndReturnStep
<1> QED  BY <1>1, <1>3, QuietReturn

(* Most activations remember no place of a variable or argument.           *)
LEMMA Forgetful ==
  ASSUME NEW f \in Activations, f.kind \notin {"assign", "member", "declaration", "return", "call"}
  PROVE  Remembers(f)' /\ Passes(f)
BY DEF Remembers, Passes

(* The operands, ...                                                       *)
LEMMA BeginBinaryLaidOut ==
  ASSUME LaidOut, Accounting', BeginBinaryStep PROVE Layout'
<1>1. Running
  BY DEF BeginBinaryStep, Goes, Entering
<1>2. PICK l \in ValueTypes, r \in ValueTypes :
        frames' = Calling([Top EXCEPT !.kind = "binary", !.step = "left", !.left = l, !.right = r],
                          Expression(l, stack))
  BY DEF BeginBinaryStep, Goes
<1> DEFINE next == [Top EXCEPT !.kind = "binary", !.step = "left", !.left = l, !.right = r]
<1>3. /\ next \in Activations /\ next.kind = "binary"
      /\ next.scope = Top.scope /\ next.visible = Top.visible /\ l \in Types
  BY <1>1, <1>2, StepTypes, Sizes DEF ValueTypes, Activations, Kinds, Steps
<1>4. /\ stack' = stack /\ signature' = signature /\ locals' = locals
      /\ frames' = Calling(next, Expression(l, stack'))
  BY <1>2 DEF BeginBinaryStep, Goes
<1> HIDE DEF next
<1>5. PICK f \in Activations : f = next
  BY <1>3
<1>6. Remembers(f)' /\ Passes(f)
  BY <1>3, <1>5, Forgetful
<1> QED  BY <1>1, <1>3, <1>4, <1>5, <1>6, QuietCall

LEMMA BinaryRightLaidOut ==
  ASSUME LaidOut, Accounting', BinaryRightStep PROVE Layout'
<1> DEFINE next == [Top EXCEPT !.step = "right", !.slot = result]
<1>1. Running /\ Top.kind = "binary"
  BY DEF BinaryRightStep, Goes, At
<1>2. result \in Int
  BY DEF LaidOut, Accounting, Sound, TypeOK
<1>3. /\ next \in Activations /\ next.kind = "binary"
      /\ next.scope = Top.scope /\ next.visible = Top.visible /\ Top.right \in Types
  BY <1>1, <1>2, StepTypes DEF Activations, Steps
<1>4. /\ stack' = stack /\ signature' = signature /\ locals' = locals
      /\ frames' = Calling(next, Expression(Top.right, stack'))
  BY DEF BinaryRightStep, Goes
<1> HIDE DEF next
<1>5. PICK f \in Activations : f = next
  BY <1>3
<1>6. Remembers(f)' /\ Passes(f)
  BY <1>3, <1>5, Forgetful
<1> QED  BY <1>1, <1>3, <1>4, <1>5, <1>6, QuietCall

(* ... the value that is cast ...                                          *)
LEMMA BeginCastLaidOut ==
  ASSUME LaidOut, Accounting', BeginCastStep PROVE Layout'
<1>1. Running
  BY DEF BeginCastStep, Goes, Entering
<1>2. PICK from \in IntegerTypes :
        frames' = Calling([Top EXCEPT !.kind = "cast", !.step = "value", !.left = from],
                          Expression(from, stack))
  BY DEF BeginCastStep, Goes
<1> DEFINE next == [Top EXCEPT !.kind = "cast", !.step = "value", !.left = from]
<1>3. /\ next \in Activations /\ next.kind = "cast"
      /\ next.scope = Top.scope /\ next.visible = Top.visible /\ from \in Types
  BY <1>1, <1>2, StepTypes, Sizes DEF Activations, Kinds, Steps
<1>4. /\ stack' = stack /\ signature' = signature /\ locals' = locals
      /\ frames' = Calling(next, Expression(from, stack'))
  BY <1>2 DEF BeginCastStep, Goes
<1> HIDE DEF next
<1>5. PICK f \in Activations : f = next
  BY <1>3
<1>6. Remembers(f)' /\ Passes(f)
  BY <1>3, <1>5, Forgetful
<1> QED  BY <1>1, <1>3, <1>4, <1>5, <1>6, QuietCall

(* ... and the string of a member.                                         *)
LEMMA BeginMemberLaidOut ==
  ASSUME LaidOut, Accounting', BeginMemberStep PROVE Layout'
<1> DEFINE c == CommitStack(PushStack(stack, Slot[Top.type]))
           next == [Top EXCEPT !.kind = "member", !.step = "string", !.slot = c.allocated]
<1>1. Running
  BY DEF BeginMemberStep, Goes, Pushed, Entering
<1>2. /\ stack' = c /\ signature' = signature /\ locals' = locals
      /\ frames' = Calling(next, Expression(String, stack'))
  BY DEF BeginMemberStep, Goes, Pushed
<1>3. c.scopes = stack.scopes
  BY <1>1, StepTypes, ScopesUntouched
<1>4. c.allocated \in Int
  BY <1>1, <1>2, StepTypes DEF ScopedStacks, Stacks
<1> HIDE DEF c
<1>5. /\ next \in Activations /\ next.kind = "member" /\ next.type = Top.type
      /\ next.scope = Top.scope /\ next.visible = Top.visible /\ String \in Types
  BY <1>1, <1>4, StepTypes, Sizes DEF Activations, Kinds, Steps
<1> HIDE DEF next
<1>6. PICK f \in Activations : f = next
  BY <1>5
<1>7. Remembers(f)' /\ Passes(f)
  BY <1>5, <1>6 DEF Remembers, Passes, BeginMemberStep, Goes, Pushed
<1> QED  BY <1>1, <1>2, <1>3, <1>5, <1>6, <1>7, QuietCall

(* The target of an assignment.                                            *)
LEMMA BeginAssignLaidOut ==
  ASSUME LaidOut, Accounting', BeginAssignStep PROVE Layout'
<1>1. Running
  BY DEF BeginAssignStep, Goes, Entering
<1>2. PICK local \in Targets(Top.type), t \in Accepted(Top.type, "widening_assignment") :
        frames' = Calling([Top EXCEPT !.kind = "assign", !.step = "value",
                                      !.slot = local.offset, !.left = t],
                          Expression(t, stack))
  BY DEF BeginAssignStep, Goes
<1> DEFINE next == [Top EXCEPT !.kind = "assign", !.step = "value", !.slot = local.offset, !.left = t]
<1>3. PICK k \in 1 .. Len(locals) : local = locals[k] /\ local.type = Top.type
  BY <1>2 DEF Targets, Visible
<1>4. local.offset \in Int
  BY <1>1, <1>3, Offsets
<1>5. t \in Types
  BY <1>2 DEF Accepted, ValueTypes
<1>6. /\ next \in Activations /\ next.kind = "assign" /\ next.type = Top.type
      /\ next.slot = local.offset /\ next.scope = Top.scope /\ next.visible = Top.visible
  BY <1>1, <1>4, <1>5, StepTypes DEF Activations, Kinds, Steps
<1>7. /\ stack' = stack /\ signature' = signature /\ locals' = locals
      /\ frames' = Calling(next, Expression(t, stack'))
  BY <1>2 DEF BeginAssignStep, Goes
<1> HIDE DEF next
<1>8. PICK f \in Activations : f = next
  BY <1>6
<1>9. Remembers(f)'
  BY <1>3, <1>6, <1>7, <1>8 DEF Remembers
<1>10. Passes(f)
  BY <1>6, <1>8 DEF Passes
<1> QED  BY <1>1, <1>5, <1>6, <1>7, <1>8, <1>9, <1>10, QuietCall

(* The expression of a statement, of an if and of a loop.                  *)
LEMMA BeginDiscardLaidOut ==
  ASSUME LaidOut, Accounting', BeginDiscardStep PROVE Layout'
<1>1. Running
  BY DEF BeginDiscardStep, Goes, Entering
<1>2. PICK t \in Types :
        frames' = Calling([Top EXCEPT !.kind = "discard", !.step = "value", !.left = t],
                          Expression(t, stack))
  BY DEF BeginDiscardStep, Goes
<1> DEFINE next == [Top EXCEPT !.kind = "discard", !.step = "value", !.left = t]
<1>3. /\ next \in Activations /\ next.kind = "discard"
      /\ next.scope = Top.scope /\ next.visible = Top.visible
  BY <1>1, StepTypes DEF Activations, Kinds, Steps
<1>4. /\ stack' = stack /\ signature' = signature /\ locals' = locals
      /\ frames' = Calling(next, Expression(t, stack'))
  BY <1>2 DEF BeginDiscardStep, Goes
<1> HIDE DEF next
<1>5. PICK f \in Activations : f = next
  BY <1>3
<1>6. Remembers(f)' /\ Passes(f)
  BY <1>3, <1>5, Forgetful
<1> QED  BY <1>1, <1>3, <1>4, <1>5, <1>6, QuietCall

LEMMA BeginIfLaidOut ==
  ASSUME LaidOut, Accounting', BeginIfStep PROVE Layout'
<1> DEFINE next == [Top EXCEPT !.kind = "if", !.step = "condition"]
<1>1. Running
  BY DEF BeginIfStep, Goes, Entering
<1>2. /\ stack' = stack /\ signature' = signature /\ locals' = locals
      /\ frames' = Calling(next, Expression(Bool, stack'))
  BY DEF BeginIfStep, Goes
<1>3. /\ next \in Activations /\ next.kind = "if"
      /\ next.scope = Top.scope /\ next.visible = Top.visible /\ Bool \in Types
  BY <1>1, StepTypes, Sizes DEF Activations, Kinds, Steps
<1> HIDE DEF next
<1>4. PICK f \in Activations : f = next
  BY <1>3
<1>5. Remembers(f)' /\ Passes(f)
  BY <1>3, <1>4, Forgetful
<1> QED  BY <1>1, <1>2, <1>3, <1>4, <1>5, QuietCall

LEMMA ForConditionLaidOut ==
  ASSUME LaidOut, Accounting', ForConditionStep PROVE Layout'
<1> DEFINE next == [Top EXCEPT !.step = "condition", !.start = Label]
<1>1. Running /\ Top.kind = "for"
  BY DEF ForConditionStep, Goes, At
<1>2. /\ stack' = stack /\ signature' = signature /\ locals' = locals
      /\ frames' = Calling(next, Expression(Bool, stack'))
  BY DEF ForConditionStep, Goes
<1>3. Label \in Nat
  BY DEF LaidOut, Accounting, Sound, TypeOK, Label
<1>4. /\ next \in Activations /\ next.kind = "for"
      /\ next.scope = Top.scope /\ next.visible = Top.visible /\ Bool \in Types
  BY <1>1, <1>3, StepTypes, Sizes DEF Activations, Kinds, Steps
<1> HIDE DEF next
<1>5. PICK f \in Activations : f = next
  BY <1>4
<1>6. Remembers(f)' /\ Passes(f)
  BY <1>4, <1>5, Forgetful
<1> QED  BY <1>1, <1>2, <1>4, <1>5, <1>6, QuietCall

(* The value of a return statement.                                        *)
LEMMA BeginReturnLaidOut ==
  ASSUME LaidOut, Accounting', BeginReturnStep PROVE Layout'
<1>1. Running
  BY DEF BeginReturnStep, Goes, Entering
<1>2. PICK t \in ReturnTypes :
        frames' = Calling([Top EXCEPT !.kind = "return", !.step = "value", !.left = t],
                          Expression(t, stack))
  BY DEF BeginReturnStep, Goes
<1> DEFINE next == [Top EXCEPT !.kind = "return", !.step = "value", !.left = t]
<1>3. t \in Types
  BY <1>1, <1>2, Offsets DEF ReturnTypes, ValueTypes
<1>4. /\ next \in Activations /\ next.kind = "return" /\ next.left = t
      /\ next.scope = Top.scope /\ next.visible = Top.visible
  BY <1>1, <1>3, StepTypes DEF Activations, Kinds, Steps
<1>5. /\ stack' = stack /\ signature' = signature /\ locals' = locals
      /\ frames' = Calling(next, Expression(t, stack'))
  BY <1>2 DEF BeginReturnStep, Goes
<1> HIDE DEF next
<1>6. PICK f \in Activations : f = next
  BY <1>4
<1>7. Remembers(f)' /\ Passes(f)
  BY <1>2, <1>4, <1>5, <1>6 DEF Remembers, Passes, ReturnTypes
<1> QED  BY <1>1, <1>3, <1>4, <1>5, <1>6, <1>7, QuietCall

-----------------------------------------------------------------------------
(* The arguments of a call.                                                *)

(* One argument more takes the bytes of the next parameter.                *)
LEMMA BytesOfFirstStep ==
  ASSUME NEW params \in Seq(ValueTypes)
  PROVE  /\ BytesOfFirst(0, params) = 0
         /\ \A n \in 0 .. Len(params) : BytesOfFirst(n, params) \in Int
         /\ \A n \in 0 .. Len(params) - 1 :
              /\ Slot[params[n + 1]] \in Nat
              /\ BytesOfFirst(n + 1, params) = BytesOfFirst(n, params) + Slot[params[n + 1]]
<1> DEFINE L == Len(params)
           B(k) == BytesOfLast(Slot, k, params)
<1>0. L \in Nat /\ \A n \in 0 .. L : BytesOfFirst(n, params) = B(L) - B(L - n)
  BY DEF BytesOfFirst
<1>1. \A k \in 0 .. L : B(k) \in Nat
  BY BytesOfLastType
<1>2. BytesOfFirst(0, params) = 0
  <2>1. 0 \in 0 .. L /\ L \in 0 .. L /\ L - 0 = L
    BY <1>0
  <2>2. B(L) \in Nat
    BY <1>1, <2>1
  <2> HIDE DEF B, L
  <2> QED  BY <1>0, <2>1, <2>2
<1>3. ASSUME NEW n \in 0 .. L PROVE BytesOfFirst(n, params) \in Int
  <2>1. L - n \in 0 .. L /\ L \in 0 .. L
    BY <1>0
  <2> HIDE DEF B, L
  <2> QED  BY <1>0, <1>1, <2>1
<1>4. ASSUME NEW n \in 0 .. L - 1
      PROVE  /\ Slot[params[n + 1]] \in Nat
             /\ BytesOfFirst(n + 1, params) = BytesOfFirst(n, params) + Slot[params[n + 1]]
  <2> DEFINE k == (L - n) - 1
  <2>1. /\ k \in 0 .. L - 1 /\ k + 1 = L - n /\ k = L - (n + 1) /\ L - k = n + 1
        /\ n \in 0 .. L /\ n + 1 \in 0 .. L /\ n + 1 \in 1 .. L
        /\ k \in 0 .. L /\ k + 1 \in 0 .. L /\ L \in 0 .. L
    BY <1>0
  <2>2. params[n + 1] \in ValueTypes
    BY <2>1
  <2>3. Slot[params[n + 1]] \in Nat
    BY <2>2, TypesAssumption, SlotAssumption DEF ValueTypes, Types
  <2>4. B(k + 1) = B(k) + Slot[params[L - k]]
    BY <2>1, BytesOfLastStep
  <2>5. BytesOfFirst(n, params) = B(L) - B(k + 1) /\ BytesOfFirst(n + 1, params) = B(L) - B(k)
    <3> HIDE DEF k, L, B
    <3> QED  BY <1>0, <2>1
  <2>6. B(L) \in Nat /\ B(k) \in Nat /\ B(k + 1) \in Nat
    BY <1>1, <2>1
  <2>7. L - k = n + 1
    BY <2>1
  <2> HIDE DEF k, L, B
  <2> QED  BY <2>3, <2>4, <2>5, <2>6, <2>7, SMTT(30)
<1> QED  BY <1>2, <1>3, <1>4

(* The signatures.                                                         *)
LEMMA SignatureTypes ==
  ASSUME NEW callee \in Signatures
  PROVE  callee.params \in Seq(ValueTypes) /\ Len(callee.params) \in Nat /\ callee.returns \in Types
BY SignaturesAssumption

LEMMA BeginCallLaidOut ==
  ASSUME LaidOut, Accounting', BeginCallStep PROVE Layout'
<1> DEFINE c == PushStack(stack, Slot[Top.type])
<1>1. Running /\ EnteredExpression
  BY DEF BeginCallStep, Goes, Entering, EnteredExpression, IsExpression
<1>2. PICK callee \in Signatures :
        /\ callee.returns = Top.type /\ callee.params # <<>>
        /\ frames' = Becoming([Top EXCEPT !.kind = "call", !.step = "arguments",
                                          !.slot = c.allocated, !.callee = callee])
  BY DEF BeginCallStep, Goes
<1> DEFINE next == [Top EXCEPT !.kind = "call", !.step = "arguments",
                               !.slot = c.allocated, !.callee = callee]
<1>3. stack' = c /\ signature' = signature /\ locals' = locals /\ frames' = Becoming(next)
  BY <1>2 DEF BeginCallStep, Goes
<1>4. c.scopes = stack.scopes
  BY <1>1, StepTypes, ScopesUntouched
<1>5. c.allocated \in Int
  BY <1>1, <1>3, StepTypes DEF ScopedStacks, Stacks
<1>6. Top.args = <<>> /\ Top.argsize = 0
  BY <1>1, EntersExpression DEF LaidOut
<1> HIDE DEF c
<1>7. /\ next \in Activations /\ next.kind = "call" /\ next.step = "arguments" /\ next.callee = callee
      /\ next.args = <<>> /\ next.argsize = 0 /\ next.type = Top.type
      /\ next.scope = Top.scope /\ next.visible = Top.visible
  BY <1>1, <1>5, <1>6, StepTypes DEF Activations, Kinds, Steps
<1> HIDE DEF next
<1>8. PICK f \in Activations : f = next
  BY <1>7
<1>9. Remembers(f)'
  BY <1>7, <1>8 DEF Remembers
<1>10. Passes(f)
  <2>1. BytesOfFirst(0, callee.params) = 0 /\ Len(callee.params) \in Nat
    BY SignatureTypes, BytesOfFirstStep
  <2>2. Len(f.args) = 0
    BY <1>7, <1>8
  <2> QED  BY <1>2, <1>7, <1>8, <2>1, <2>2 DEF Passes
<1> QED  BY <1>1, <1>3, <1>4, <1>7, <1>8, <1>9, <1>10, QuietUpdate

(* What the innermost activation knows of its arguments.                   *)
LEMMA TopPasses ==
  ASSUME LaidOut, Running, Top.kind = "call"
  PROVE  /\ Top.callee \in Signatures /\ Top.callee.params \in Seq(ValueTypes)
         /\ Len(Top.callee.params) \in Nat \ {0} /\ Top.callee.returns = Top.type
         /\ Top.args \in Seq([offset : Int, size : Nat]) /\ Len(Top.args) \in 0 .. Len(Top.callee.params)
         /\ Top.argsize = BytesOfFirst(Len(Top.args), Top.callee.params)
         /\ Top.step = "argument" =>
              /\ Len(Top.args) < Len(Top.callee.params)
              /\ Top.left \in Accepted(Top.callee.params[Len(Top.args) + 1], "widening_argument")
         /\ \A i \in 1 .. Len(Top.args) :
              /\ Top.args[i].offset = Top.slot + BytesOfFirst(i, Top.callee.params)
              /\ Top.args[i].size = Slot[Top.callee.params[i]]
<1>1. Passes(Top) /\ Top \in Activations
  <2>1. Len(frames) \in 1 .. Len(frames) /\ Top = frames[Len(frames)] /\ Top \in Activations
    BY Accounts DEF LaidOut, Top
  <2> QED  BY <2>1 DEF LaidOut, Layout
<1>2. Top.callee \in Signatures /\ Top.args \in Seq([offset : Int, size : Nat])
  BY <1>1 DEF Activations
<1>3. Top.callee.params \in Seq(ValueTypes) /\ Len(Top.callee.params) \in Nat
  BY <1>2, SignatureTypes
<1>4. Top.callee.params # <<>> /\ Len(Top.args) <= Len(Top.callee.params)
  BY <1>1 DEF Passes
<1>5. Len(Top.callee.params) # 0 /\ Len(Top.args) \in Nat
  BY <1>2, <1>3, <1>4
<1> QED  BY <1>1, <1>2, <1>3, <1>4, <1>5 DEF Passes

LEMMA BeginArgumentLaidOut ==
  ASSUME LaidOut, Accounting', BeginArgumentStep PROVE Layout'
<1>1. Running /\ Top.kind = "call" /\ Len(Top.args) < Len(Top.callee.params)
  BY DEF BeginArgumentStep, Goes, At
<1> DEFINE n == Len(Top.args)
<1>2. PICK t \in Accepted(Top.callee.params[n + 1], "widening_argument") :
        frames' = Calling([Top EXCEPT !.step = "argument", !.left = t], Expression(t, stack))
  BY DEF BeginArgumentStep, Goes
<1> DEFINE next == [Top EXCEPT !.step = "argument", !.left = t]
<1>3. t \in Types
  BY <1>2 DEF Accepted, ValueTypes
<1>4. /\ next \in Activations /\ next.kind = "call" /\ next.step = "argument" /\ next.left = t
      /\ next.callee = Top.callee /\ next.args = Top.args /\ next.argsize = Top.argsize
      /\ next.type = Top.type /\ next.slot = Top.slot
      /\ next.scope = Top.scope /\ next.visible = Top.visible
  BY <1>1, <1>3, StepTypes DEF Activations, Steps
<1>5. /\ stack' = stack /\ signature' = signature /\ locals' = locals
      /\ frames' = Calling(next, Expression(t, stack'))
  BY <1>2 DEF BeginArgumentStep, Goes
<1> HIDE DEF next
<1>6. PICK f \in Activations : f = next
  BY <1>4
<1>7. Remembers(f)'
  BY <1>1, <1>4, <1>6 DEF Remembers
<1>8. Passes(f)
  <2>1. Passes(Top)
    <3>1. Len(frames) \in 1 .. Len(frames) /\ Top = frames[Len(frames)]
      BY <1>1, Accounts DEF LaidOut, Top
    <3> QED  BY <3>1 DEF LaidOut, Layout
  <2> QED  BY <1>1, <1>2, <1>4, <1>6, <2>1 DEF Passes
<1> QED  BY <1>1, <1>3, <1>4, <1>5, <1>6, <1>7, <1>8, QuietCall

LEMMA EndArgumentLaidOut ==
  ASSUME AlignedFeatures, LaidOut, Accounting', EndArgumentStep PROVE Layout'
<1> DEFINE a == [offset |-> result, size |-> Slot[Top.left]]
           next == [Top EXCEPT !.step = "arguments", !.args = Append(@, a),
                               !.argsize = @ + Slot[Top.left]]
           n == Len(Top.args)
           params == Top.callee.params
<1>1. /\ Running /\ Top.kind = "call" /\ Top.step = "argument"
      /\ AwaitsExpression(Top) /\ Awaited(Top) = Top.left
      /\ Held(Top) = Slot[Top.type] + Top.argsize
  BY DEF EndArgumentStep, Goes, At, AwaitsExpression, Awaited, Held
<1>2. /\ result = (Top.at + (Slot[Top.type] + Top.argsize)) + Slot[Top.left]
      /\ Top.slot = Top.at + Slot[Top.type]
      /\ Top.at \in Int /\ Slot[Top.type] \in Int /\ Slot[Top.left] \in Int /\ Top.argsize \in Int
  <2>1. IsExpression(Top) /\ Top.slot = Top.at + Slot[Top.type]
    BY <1>1, ExpressionNodes, Accounts DEF LaidOut, ValueDiscipline
  <2> QED  BY <1>1, <2>1, ExpressionNodes, ValueFound DEF CalleeAt, LaidOut
<1>3. Top \in Activations /\ result \in Int /\ Top.argsize \in Nat /\ Slot[Top.left] \in Nat
  BY <1>1, Context, ActivationFields, Sizes DEF LaidOut, Accounting
<1>4. /\ stack' = stack /\ signature' = signature /\ locals' = locals /\ frames' = Becoming(next)
  BY DEF EndArgumentStep, Goes
<1>5. /\ Top.args \in Seq([offset : Int, size : Nat]) /\ n \in Nat /\ n < Len(params)
      /\ params \in Seq(ValueTypes) /\ Len(params) \in Nat
      /\ Slot[Top.left] = Slot[params[n + 1]] /\ Top.argsize = BytesOfFirst(n, params)
  <2>1. Top.left \in Accepted(params[n + 1], "widening_argument")
    BY <1>1, TopPasses
  <2>2. Slot[Top.left] = Slot[params[n + 1]]
    BY <2>1 DEF Accepted, CanImplicitlyCast, AlignedFeatures, OneSlot
  <2> QED  BY <1>1, <2>2, TopPasses
<1>6. /\ a \in [offset : Int, size : Nat] /\ a.offset = result /\ a.size = Slot[Top.left]
  BY <1>3
<1>7. /\ Append(Top.args, a) \in Seq([offset : Int, size : Nat]) /\ Len(Append(Top.args, a)) = n + 1
      /\ \A i \in 1 .. n : Append(Top.args, a)[i] = Top.args[i]
      /\ Append(Top.args, a)[n + 1] = a
  <2> HIDE DEF a
  <2> QED  BY <1>5, <1>6, AppendProperties
<1>8. Top.argsize + Slot[Top.left] \in Nat
  BY <1>3
<1> HIDE DEF a
<1>9. /\ next \in Activations /\ next.kind = "call" /\ next.step = "arguments"
      /\ next.callee = Top.callee /\ next.args = Append(Top.args, a)
      /\ next.argsize = Top.argsize + Slot[Top.left]
      /\ next.type = Top.type /\ next.slot = Top.slot
      /\ next.scope = Top.scope /\ next.visible = Top.visible
  BY <1>1, <1>3, <1>7, <1>8 DEF Activations, Steps
<1> HIDE DEF next
<1>10. PICK f \in Activations : f = next
  BY <1>9
<1>11. Remembers(f)'
  BY <1>9, <1>10 DEF Remembers
<1>12. BytesOfFirst(n + 1, params) = Top.argsize + Slot[Top.left]
  <2>1. n \in 0 .. Len(params) - 1
    <3> HIDE DEF n, params
    <3> QED  BY <1>5
  <2> HIDE DEF n, params
  <2>2. BytesOfFirst(n + 1, params) = BytesOfFirst(n, params) + Slot[params[n + 1]]
    BY <1>5, <2>1, BytesOfFirstStep
  <2> QED  BY <1>5, <2>2
<1>13. ASSUME NEW i \in 1 .. n + 1
       PROVE  /\ f.args[i].offset = f.slot + BytesOfFirst(i, params)
              /\ f.args[i].size = Slot[params[i]]
  <2>1. CASE i \in 1 .. n
    <3>1. f.args[i] = Top.args[i] /\ f.slot = Top.slot
      BY <1>7, <1>9, <1>10, <2>1
    <3>2. /\ Top.args[i].offset = Top.slot + BytesOfFirst(i, params)
          /\ Top.args[i].size = Slot[params[i]]
      BY <1>1, <2>1, TopPasses
    <3> HIDE DEF params
    <3> QED  BY <3>1, <3>2
  <2>2. CASE i = n + 1
    <3>1. f.args[i] = a /\ f.slot = Top.slot
      BY <1>7, <1>9, <1>10, <2>2
    <3>2. result = Top.slot + BytesOfFirst(n + 1, params)
      BY <1>2, <1>12
    <3> QED  BY <1>5, <1>6, <2>2, <3>1, <3>2
  <2>3. i \in 1 .. n \/ i = n + 1
    <3> HIDE DEF n
    <3> QED  BY <1>5
  <2> QED  BY <2>1, <2>2, <2>3
<1>14. Passes(f)
  <2>1. Len(f.args) = n + 1 /\ n + 1 <= Len(params) /\ f.argsize = BytesOfFirst(n + 1, params)
    BY <1>5, <1>7, <1>9, <1>10, <1>12
  <2>2. params # <<>> /\ f.callee.params = params /\ f.callee.returns = f.type /\ f.step # "argument"
    BY <1>1, <1>5, <1>9, <1>10, TopPasses
  <2> HIDE DEF n, params
  <2> QED  BY <1>13, <2>1, <2>2 DEF Passes
<1> QED  BY <1>1, <1>4, <1>9, <1>10, <1>11, <1>14, QuietUpdate

-----------------------------------------------------------------------------
(* Statements within statements.                                           *)

(* A call of the emitter of statements.                                    *)
LEMMA StatementLaidOut ==
  ASSUME LaidOut, Accounting', Running, Spares, Placed', NEW f \in Activations,
         NEW routine \in Routines, frames' = Calling(f, Activation(routine, Void, stack', Len(locals))),
         f.scope = Top.scope, f.visible = Top.visible, Remembers(f)', Passes(f), locals' = locals
  PROVE  Layout'
<1> DEFINE h == Activation(routine, Void, stack', Len(locals))
<1>1. h \in Activations /\ h.kind = "?" /\ h.scope = Len(stack'.scopes) /\ h.visible = Len(locals)
  <2>1. stack' \in ScopedStacks /\ Len(locals) \in Nat /\ signature \in Signatures /\ Void \in Types
    BY StepTypes, Offsets, Sizes
  <2> QED  BY <2>1, ActivationFacts, ActivationType
<1>2. locals' \in Seq(Locals) /\ Len(locals) \in Nat
  BY StepTypes
<1> HIDE DEF h
<1> QED  BY <1>1, <1>2, CallLaidOut DEF h

(* The scopes after one is opened.                                         *)
LEMMA ScopesAppended ==
  ASSUME NEW s \in Stacks, NEW n
  PROVE  /\ PushScope(s).scopes = Append(s.scopes, Innermost(s))
         /\ PushScope(CommitStack(PopStack(s, n))).scopes = Append(s.scopes, Innermost(s))
BY DEF Stacks, PushScope, PopStack, CommitStack, Innermost

LEMMA NextStatementLaidOut ==
  ASSUME LaidOut, Accounting', NextStatementStep PROVE Layout'
<1>1. Running /\ Top.kind \in {"block", "function"}
  BY DEF NextStatementStep, Goes, At
<1>2. /\ stack' = stack /\ signature' = signature /\ locals' = locals
      /\ frames' = Calling(Top, Activation("statement", Void, stack', Len(locals)))
  BY DEF NextStatementStep, Goes, Statement
<1>3. PICK f \in Activations : f = Top
  BY <1>1, StepTypes
<1>4. Remembers(f)' /\ Passes(f)
  BY <1>1, <1>3, Forgetful
<1>5. Spares /\ Placed' /\ "statement" \in Routines
  BY <1>1, <1>2, StepTypes, QuietSpares DEF Routines
<1> QED  BY <1>1, <1>2, <1>3, <1>4, <1>5, StatementLaidOut

LEMMA ForBodyLaidOut ==
  ASSUME LaidOut, Accounting', ForBodyStep PROVE Layout'
<1> DEFINE c == CommitStack(PopStack(stack, Slot[Bool]))
           next == [Top EXCEPT !.step = "body", !.patch = Len(text')]
<1>1. Running /\ Top.kind = "for"
  BY DEF ForBodyStep, Goes, Popped, At
<1>2. /\ stack' = c /\ signature' = signature /\ locals' = locals
      /\ frames' = Calling(next, Activation("loop_body", Void, stack', Len(locals)))
  BY DEF ForBodyStep, Goes, Popped, LoopBody
<1>3. c.scopes = stack.scopes
  BY <1>1, StepTypes, ScopesUntouched
<1>4. Len(text') \in Nat
  BY DEF Accounting, Sound, TypeOK
<1>5. /\ next \in Activations /\ next.kind = "for"
      /\ next.scope = Top.scope /\ next.visible = Top.visible
  BY <1>1, <1>4, StepTypes DEF Activations, Steps
<1> HIDE DEF next, c
<1>6. PICK f \in Activations : f = next
  BY <1>5
<1>7. Remembers(f)' /\ Passes(f)
  BY <1>5, <1>6, Forgetful
<1>8. Spares /\ Placed' /\ "loop_body" \in Routines
  BY <1>1, <1>2, <1>3, StepTypes, QuietSpares DEF Routines
<1> QED  BY <1>1, <1>2, <1>5, <1>6, <1>7, <1>8, StatementLaidOut

LEMMA IfThenLaidOut ==
  ASSUME LaidOut, Accounting', IfThenStep PROVE Layout'
<1> DEFINE c == PushScope(CommitStack(PopStack(stack, Slot[Bool])))
           next == [Top EXCEPT !.step = "then", !.patch = Len(text')]
<1>1. Running /\ Top.kind = "if"
  BY DEF IfThenStep, Goes, Popped, At
<1>2. /\ stack' = c /\ signature' = signature /\ locals' = locals
      /\ frames' = Calling(next, Activation("statement", Void, stack', Len(locals)))
  BY DEF IfThenStep, Goes, Popped, Statement
<1>3. c.scopes = Append(stack.scopes, Innermost(stack))
  BY <1>1, StepTypes, ScopesAppended
<1>4. Len(text') \in Nat
  BY DEF Accounting, Sound, TypeOK
<1>5. /\ next \in Activations /\ next.kind = "if"
      /\ next.scope = Top.scope /\ next.visible = Top.visible
  BY <1>1, <1>4, StepTypes DEF Activations, Steps
<1> HIDE DEF next, c
<1>6. PICK f \in Activations : f = next
  BY <1>5
<1>7. Remembers(f)' /\ Passes(f)
  BY <1>5, <1>6, Forgetful
<1>8. Spares /\ Placed' /\ "statement" \in Routines
  BY <1>1, <1>2, <1>3, StepTypes, ScopingSpares DEF Routines
<1> QED  BY <1>1, <1>2, <1>5, <1>6, <1>7, <1>8, StatementLaidOut

LEMMA BeginForLaidOut ==
  ASSUME LaidOut, Accounting', BeginForStep PROVE Layout'
<1> DEFINE next == [Top EXCEPT !.kind = "for", !.step = "declaration"]
<1>1. Running
  BY DEF BeginForStep, Goes, Entering
<1>2. /\ stack' = PushScope(stack) /\ signature' = signature /\ locals' = locals
      /\ frames' = Calling(next, Activation("loop_declaration", Void, stack', Len(locals)))
  BY DEF BeginForStep, Goes, LoopDeclaration
<1>3. stack'.scopes = Append(stack.scopes, Innermost(stack))
  BY <1>1, <1>2, StepTypes, ScopesAppended
<1>4. /\ next \in Activations /\ next.kind = "for"
      /\ next.scope = Top.scope /\ next.visible = Top.visible
  BY <1>1, StepTypes DEF Activations, Kinds, Steps
<1> HIDE DEF next
<1>5. PICK f \in Activations : f = next
  BY <1>4
<1>6. Remembers(f)' /\ Passes(f)
  BY <1>4, <1>5, Forgetful
<1>7. Spares /\ Placed' /\ "loop_declaration" \in Routines
  BY <1>1, <1>2, <1>3, StepTypes, ScopingSpares DEF Routines
<1> QED  BY <1>1, <1>2, <1>4, <1>5, <1>6, <1>7, StatementLaidOut

LEMMA BeginBlockLaidOut ==
  ASSUME LaidOut, Accounting', BeginBlockStep PROVE Layout'
<1> DEFINE next == [Top EXCEPT !.kind = "block", !.step = "statements"]
<1>1. Running
  BY DEF BeginBlockStep, Goes, Entering
<1>2. /\ stack' = PushScope(stack) /\ signature' = signature /\ locals' = locals
      /\ frames' = Becoming(next)
  BY DEF BeginBlockStep, Goes
<1>3. stack'.scopes = Append(stack.scopes, Innermost(stack))
  BY <1>1, <1>2, StepTypes, ScopesAppended
<1>4. /\ next \in Activations /\ next.kind = "block"
      /\ next.scope = Top.scope /\ next.visible = Top.visible
  BY <1>1, StepTypes DEF Activations, Kinds, Steps
<1> HIDE DEF next
<1>5. PICK f \in Activations : f = next
  BY <1>4
<1>6. Remembers(f)' /\ Passes(f)
  BY <1>4, <1>5, Forgetful
<1>7. Spares /\ Placed'
  BY <1>1, <1>2, <1>3, StepTypes, ScopingSpares
<1> QED  BY <1>1, <1>2, <1>4, <1>5, <1>6, <1>7, UpdateLaidOut

(* The step of a loop: the names of the body end.                          *)
LEMMA ForStepLaidOut ==
  ASSUME LaidOut, Accounting', ForStepStep PROVE Layout'
<1> DEFINE v == Top.visible + 1
<1>1. Running /\ Top.kind = "for" /\ Top.step = "body"
  BY DEF ForStepStep, At
<1>2. PICK t \in Types :
        frames' = Calling([Top EXCEPT !.step = "step", !.left = t], Activation("expression", t, stack, v))
  BY DEF ForStepStep
<1> DEFINE next == [Top EXCEPT !.step = "step", !.left = t]
           h == Activation("expression", t, stack', v)
<1>3. /\ stack' = stack /\ signature' = signature /\ locals' = SubSeq(locals, 1, v)
      /\ frames' = Calling(next, h)
  BY <1>2 DEF ForStepStep
<1>4. ~IsExpression(Top)
  BY <1>1, InLoop DEF LaidOut
<1>5. v \in Nat /\ v <= Len(locals) /\ locals \in Seq(Locals) /\ Len(locals) \in Nat
  <2>1. Top.visible \in Nat /\ Names(Top) <= Len(locals) /\ locals \in Seq(Locals) /\ Len(locals) \in Nat
    BY <1>1, Context DEF LaidOut, Accounting
  <2>2. Names(Top) = v
    BY <1>1 DEF Names
  <2> QED  BY <2>1, <2>2
<1>6. Len(locals') = v /\ \A k \in 1 .. v : locals'[k] = locals[k]
  <2> HIDE DEF v
  <2> QED  BY <1>3, <1>5
<1>7. h \in Activations /\ h.kind = "?" /\ h.scope = Len(stack'.scopes) /\ h.visible = v
  <2>1. stack' \in ScopedStacks /\ signature \in Signatures /\ "expression" \in Routines
    BY <1>1, StepTypes, Offsets DEF Routines
  <2> HIDE DEF v
  <2> QED  BY <1>5, <2>1, ActivationFacts, ActivationType
<1>8. /\ next \in Activations /\ next.kind = "for"
      /\ next.scope = Top.scope /\ next.visible = Top.visible
  BY <1>1, StepTypes DEF Activations, Steps
<1> HIDE DEF next, h
<1>9. PICK f \in Activations : f = next
  BY <1>8
<1>10. Remembers(f)' /\ Passes(f)
  BY <1>8, <1>9, Forgetful
<1>11. Spares
  <2>1. Top.scope <= Len(stack.scopes) /\ Top.scope \in Nat /\ Len(stack.scopes) \in Nat
    BY <1>1, Accounts, ActivationFields DEF LaidOut, FrameDiscipline
  <2>2. \A k \in 1 .. Top.scope : stack'.scopes[k] >= stack.scopes[k]
    <3>1. \A k \in 1 .. Len(stack.scopes) : stack.scopes[k] \in Int
      BY <1>1, Offsets
    <3>2. \A k \in 1 .. Top.scope : stack.scopes[k] \in Int
      BY <2>1, <3>1
    <3>3. stack'.scopes = stack.scopes
      BY <1>3
    <3> QED  BY <3>2, <3>3
  <2>3. \A k \in 1 .. Top.visible : locals'[k] = locals[k]
    <3>1. \A k \in 1 .. Top.visible : k \in 1 .. v
      BY <1>1, StepTypes, ActivationFields
    <3> QED  BY <1>6, <3>1
  <2> QED  BY <1>1, <1>3, <1>4, <2>1, <2>2, <2>3, StepTypes DEF Spares
<1>12. Placed'
  <2>1. v \in 0 .. Len(locals) /\ \A k \in 1 .. v : k \in 1 .. Len(locals)
    <3> HIDE DEF v
    <3> QED  BY <1>5
  <2>2. Innermost(stack') = Innermost(stack)
    BY <1>3
  <2>3. \A k \in 1 .. v : locals[k].offset <= Innermost(stack')
    BY <1>1, <2>1, <2>2, Offsets
  <2>4. \A k \in 1 .. Len(stack'.scopes) : stack'.scopes[k] >= 0
    BY <1>1, <1>3, Offsets
  <2> HIDE DEF v
  <2> QED  BY <1>1, <1>3, <1>6, <2>1, <2>3, <2>4, StepTypes, PlacedKept
<1>13. v <= Len(locals') /\ locals' \in Seq(Locals)
  BY <1>1, <1>5, <1>6, StepTypes
<1> QED  BY <1>1, <1>3, <1>7, <1>8, <1>9, <1>10, <1>11, <1>12, <1>13, CallLaidOut

-----------------------------------------------------------------------------
(* The ends of scopes.                                                     *)

LEMMA ScopesClosed ==
  ASSUME NEW s \in Stacks, NEW n
  PROVE  /\ CommitStack(PopScope(s)).scopes = SubSeq(s.scopes, 1, Len(s.scopes) - 1)
         /\ PopScope(s).scopes = SubSeq(s.scopes, 1, Len(s.scopes) - 1)
         /\ CommitStack(PopScope(CommitStack(PopStack(s, n)))).scopes
              = SubSeq(s.scopes, 1, Len(s.scopes) - 1)
BY DEF Stacks, PopScope, PopStack, CommitStack

(* A statement that leaves the scope it opened.                            *)
LEMMA ScopeEndLaidOut ==
  ASSUME LaidOut, Accounting', Running, Scoped(Top), ~IsExpression(Top), frames' = Returning,
         stack'.scopes = SubSeq(stack.scopes, 1, Len(stack.scopes) - 1),
         signature' = signature, locals' = SubSeq(locals, 1, Top.visible)
  PROVE  Layout'
<1>1. Len(stack.scopes) = Inner(Top) /\ Top \in Activations
  BY Accounts DEF LaidOut
<1>2. Len(stack.scopes) = Top.scope + 1 /\ Top.scope \in Nat
  BY <1>1, ScopeNumbers
<1>3. stack'.scopes = SubSeq(stack.scopes, 1, Top.scope) /\ Top.scope <= Len(stack.scopes)
  BY <1>2
<1>4. stack' \in ScopedStacks
  BY StepTypes
<1>5. Spares /\ Placed'
  BY <1>3, <1>4, UnscopingSpares
<1> QED  BY <1>5, ReturnLaidOut

LEMMA EndBlockLaidOut ==
  ASSUME LaidOut, Accounting', EndBlockStep PROVE Layout'
<1>1. Running /\ Top.kind = "block" /\ Top.step = "statements"
  BY DEF EndBlockStep, Returns, Outer, At
<1>2. Scoped(Top) /\ ~IsExpression(Top)
  <2>1. InControl(Top)
    BY <1>1, Accounts DEF LaidOut
  <2> QED  BY <1>1, <2>1 DEF Scoped, InControl, KindsOf, IsExpression
<1>3. stack'.scopes = SubSeq(stack.scopes, 1, Len(stack.scopes) - 1)
  BY <1>1, StepTypes, ScopesClosed DEF EndBlockStep, Returns, Outer
<1> QED  BY <1>1, <1>2, <1>3, ScopeEndLaidOut DEF EndBlockStep, Returns, Outer

LEMMA EndIfLaidOut ==
  ASSUME LaidOut, Accounting', EndIfStep PROVE Layout'
<1>1. Running /\ Top.kind = "if" /\ Top.step = "then"
  BY DEF EndIfStep, Returns, Outer, At
<1>2. Scoped(Top) /\ ~IsExpression(Top)
  <2>1. InControl(Top)
    BY <1>1, Accounts DEF LaidOut
  <2> QED  BY <1>1, <2>1 DEF Scoped, InControl, KindsOf, IsExpression
<1>3. stack'.scopes = SubSeq(stack.scopes, 1, Len(stack.scopes) - 1)
  BY <1>1, StepTypes, ScopesClosed DEF EndIfStep, Returns, Outer
<1> QED  BY <1>1, <1>2, <1>3, ScopeEndLaidOut DEF EndIfStep, Returns, Outer

LEMMA EndForLaidOut ==
  ASSUME LaidOut, Accounting', EndForStep PROVE Layout'
<1>1. Running /\ Top.kind = "for"
  BY DEF EndForStep, Returns, Popped, Outer, At
<1>2. Scoped(Top) /\ ~IsExpression(Top)
  BY <1>1, InLoop DEF LaidOut, Scoped
<1>3. stack'.scopes = SubSeq(stack.scopes, 1, Len(stack.scopes) - 1)
  <2>1. stack' = CommitStack(PopScope(CommitStack(PopStack(stack, Slot[Top.left]))))
    BY DEF EndForStep, Returns, Popped, Outer
  <2> QED  BY <1>1, <2>1, StepTypes, ScopesClosed
<1> QED  BY <1>1, <1>2, <1>3, ScopeEndLaidOut DEF EndForStep, Returns, Popped, Outer

-----------------------------------------------------------------------------
(* Declarations.                                                           *)

(* The scope of a declaration grows by the slot.                           *)
LEMMA GrownScope ==
  ASSUME LaidOut, Running, EnteredStatement, NEW t \in ValueTypes,
         CanAllocateStack(stack), stack' = AllocateStack(stack, Slot[t]), signature' = signature
  PROVE  /\ stack' \in ScopedStacks /\ Len(stack'.scopes) = Top.scope
         /\ \A k \in 1 .. Top.scope : stack'.scopes[k] >= stack.scopes[k] /\ stack'.scopes[k] >= 0
         /\ stack'.allocated = Top.at + Slot[t] /\ Innermost(stack') = Top.at + Slot[t]
         /\ Innermost(stack) = Top.at /\ Top.at \in Int /\ Top.at >= 0
         /\ Slot[t] \in Nat /\ t \in Types
<1> DEFINE m == Len(stack.scopes)
<1>1. /\ Slot[t] \in Nat /\ t \in Types
  BY TypesAssumption, SlotAssumption DEF ValueTypes, Types
<1>2. /\ stack \in ScopedStacks /\ m = Top.scope /\ stack.allocated = Top.at
      /\ Innermost(stack) = Top.at /\ Top.at \in Int /\ Top.scope \in Nat \ {0}
      /\ stack.scopes[Top.scope] = Top.at
  BY EntersStatement DEF LaidOut
<1>3. /\ stack' \in ScopedStacks /\ Len(stack'.scopes) = m
      /\ \A k \in 1 .. m - 1 : stack'.scopes[k] = stack.scopes[k]
      /\ stack'.scopes[m] = stack.allocated + Slot[t]
      /\ Innermost(stack') = stack.allocated + Slot[t]
      /\ stack'.allocated = stack.allocated + Slot[t]
  <2>1. Slot[t] \in Int
    BY <1>1
  <2> QED  BY <1>2, <2>1, Allocated
<1>4. Top.at >= 0 /\ \A k \in 1 .. m : stack.scopes[k] \in Int /\ stack.scopes[k] >= 0
  BY <1>2, Offsets
<1>5. ASSUME NEW k \in 1 .. Top.scope
      PROVE  stack'.scopes[k] >= stack.scopes[k] /\ stack'.scopes[k] >= 0
  <2>1. CASE k = m
    BY <1>1, <1>2, <1>3, <1>4, <2>1
  <2>2. CASE k \in 1 .. m - 1
    BY <1>2, <1>3, <1>4, <2>2
  <2>3. k = m \/ k \in 1 .. m - 1
    <3> HIDE DEF m
    <3> QED  BY <1>2
  <2> QED  BY <2>1, <2>2, <2>3
<1> HIDE DEF m
<1> QED  BY <1>1, <1>2, <1>3, <1>4, <1>5

LEMMA DeclareOnlyLaidOut ==
  ASSUME LaidOut, Accounting', DeclareOnlyStep PROVE Layout'
<1>1. Running /\ EnteredStatement /\ CanAllocateStack(stack)
  BY DEF DeclareOnlyStep, Returns, Entering, EnteredStatement, IsExpression
<1>2. PICK t \in ValueTypes :
        stack' = AllocateStack(stack, Slot[t])
        /\ locals' = Append(locals, [type |-> t, offset |-> stack'.allocated])
  BY DEF DeclareOnlyStep, Returns, Declared
<1>3. signature' = signature /\ frames' = Returning
  BY DEF DeclareOnlyStep, Returns
<1>4. /\ stack' \in ScopedStacks /\ Len(stack'.scopes) = Top.scope
      /\ \A k \in 1 .. Top.scope : stack'.scopes[k] >= stack.scopes[k] /\ stack'.scopes[k] >= 0
      /\ stack'.allocated = Top.at + Slot[t] /\ Innermost(stack') = Top.at + Slot[t]
      /\ Innermost(stack) = Top.at /\ Top.at \in Int /\ Top.at >= 0
      /\ Slot[t] \in Nat /\ t \in Types
  BY <1>1, <1>2, <1>3, GrownScope
<1>5. /\ locals \in Seq(Locals) /\ Len(locals) \in Nat
      /\ \A k \in 1 .. Len(locals) : locals[k].offset <= Top.at
  BY <1>1, <1>4, Offsets
<1>6. Placed'
  <2> DEFINE o == stack'.allocated
  <2>1. o \in Int /\ o = Top.at + Slot[t] /\ o - Slot[t] = Top.at
    BY <1>4
  <2>2. Innermost(stack) <= Innermost(stack') /\ o <= Innermost(stack') /\ 0 <= o - Slot[t]
    BY <1>4
  <2>3. \A k \in 1 .. Len(locals) : locals[k].offset <= o - Slot[t]
    BY <1>5, <2>1
  <2>4. \A k \in 1 .. Len(stack'.scopes) : stack'.scopes[k] >= 0
    BY <1>4
  <2>5. PICK p \in Int : p = o
    BY <2>1
  <2> QED  BY <1>1, <1>2, <1>3, <1>4, <2>2, <2>3, <2>4, <2>5, PlacedDeclared
<1>7. Spares
  <2>1. \A k \in 1 .. Top.visible : locals'[k] = locals[k]
    <3>1. Top.visible \in Nat /\ Top.visible <= Len(locals)
      BY <1>1, Context DEF LaidOut, Accounting
    <3>2. \A k \in 1 .. Len(locals) : locals'[k] = locals[k]
      <4>1. [type |-> t, offset |-> stack'.allocated] \in Locals
        BY <1>4 DEF Locals
      <4> QED  BY <1>2, <1>5, <4>1, AppendProperties
    <3>3. \A k \in 1 .. Top.visible : k \in 1 .. Len(locals)
      BY <1>5, <3>1
    <3> QED  BY <3>2, <3>3
  <2>2. ~IsExpression(Top) /\ Top.scope \in Nat
    BY <1>1, EntersStatement DEF LaidOut, EnteredStatement
  <2> QED  BY <1>3, <1>4, <2>1, <2>2 DEF Spares
<1> QED  BY <1>1, <1>3, <1>6, <1>7, ReturnLaidOut

LEMMA BeginDeclarationLaidOut ==
  ASSUME LaidOut, Accounting', BeginDeclarationStep PROVE Layout'
<1>1. Running /\ EnteredStatement /\ CanAllocateStack(stack)
  BY DEF BeginDeclarationStep, Goes, Entering, EnteredStatement, IsExpression
<1>2. PICK t \in ValueTypes, initializer \in Types : initializer \in Initializers(t) /\
        LET c == AllocateStack(stack, Slot[t])
        IN  /\ stack' = c
            /\ frames' = Calling([Top EXCEPT !.kind = "declaration", !.step = "initializer",
                                             !.type = t, !.left = initializer,
                                             !.slot = c.allocated],
                                 Expression(initializer, c))
  BY TypesAssumption DEF BeginDeclarationStep, Goes, Initializers, ValueTypes
<1> DEFINE next == [Top EXCEPT !.kind = "declaration", !.step = "initializer",
                               !.type = t, !.left = initializer, !.slot = stack'.allocated]
           h == Activation("expression", initializer, stack', Len(locals))
<1>3. initializer \in Types
  OBVIOUS
<1>4. /\ stack' = AllocateStack(stack, Slot[t]) /\ signature' = signature /\ locals' = locals
      /\ frames' = Calling(next, h)
  BY <1>2 DEF BeginDeclarationStep, Goes, Expression
<1>5. /\ stack' \in ScopedStacks /\ Len(stack'.scopes) = Top.scope
      /\ \A k \in 1 .. Top.scope : stack'.scopes[k] >= stack.scopes[k] /\ stack'.scopes[k] >= 0
      /\ stack'.allocated = Top.at + Slot[t] /\ Innermost(stack') = Top.at + Slot[t]
      /\ Innermost(stack) = Top.at /\ Top.at \in Int /\ Top.at >= 0
      /\ Slot[t] \in Nat /\ t \in Types
  BY <1>1, <1>4, GrownScope
<1>6. /\ next \in Activations /\ next.kind = "declaration" /\ next.type = t /\ next.left = initializer
      /\ next.at = Top.at /\ next.scope = Top.scope /\ next.visible = Top.visible
  <2>1. stack'.allocated \in Int
    BY <1>5
  <2> QED  BY <1>1, <1>3, <1>5, <2>1, StepTypes DEF Activations, Kinds, Steps
<1>7. h \in Activations /\ h.kind = "?" /\ h.scope = Len(stack'.scopes) /\ h.visible = Len(locals)
  <2>1. /\ Len(locals) \in Nat /\ "expression" \in Routines /\ signature \in Signatures
    BY <1>1, StepTypes, Offsets DEF Routines
  <2> QED  BY <1>3, <1>5, <2>1, ActivationFacts, ActivationType
<1> HIDE DEF next, h
<1>8. PICK f \in Activations : f = next
  BY <1>6
<1>9. \A k \in 1 .. Len(locals) : locals[k].offset <= Top.at
  BY <1>1, <1>5, Offsets
<1>10. Remembers(f)' /\ Passes(f)
  BY <1>2, <1>4, <1>5, <1>6, <1>8, <1>9 DEF Remembers, Passes
<1>11. Spares
  <2>1. ~IsExpression(Top) /\ Top.scope \in Nat
    BY <1>1, EntersStatement DEF LaidOut, EnteredStatement
  <2> QED  BY <1>4, <1>5, <2>1 DEF Spares
<1>12. Placed'
  <2>1. Len(locals) \in 0 .. Len(locals) /\ Len(locals') = Len(locals)
    BY <1>1, <1>4, StepTypes
  <2>2. \A k \in 1 .. Len(locals) : locals'[k] = locals[k] /\ locals[k].offset <= Innermost(stack')
    <3> SUFFICES ASSUME NEW k \in 1 .. Len(locals) PROVE locals[k].offset <= Innermost(stack')
      BY <1>4
    <3>1. locals[k].offset \in Int /\ locals[k].offset <= Top.at
      BY <1>1, <1>9, Offsets
    <3> QED  BY <1>5, <3>1
  <2>3. \A k \in 1 .. Len(stack'.scopes) : stack'.scopes[k] >= 0
    BY <1>5
  <2> QED  BY <1>1, <1>4, <1>5, <2>1, <2>2, <2>3, PlacedKept
<1>13. locals' \in Seq(Locals) /\ h.visible <= Len(locals')
  BY <1>1, <1>4, <1>7, StepTypes
<1> QED  BY <1>1, <1>4, <1>6, <1>7, <1>8, <1>10, <1>11, <1>12, <1>13, CallLaidOut

(* What a declaration remembers while it waits for its initializer.        *)
LEMMA Declares ==
  ASSUME LaidOut, Running, Top.kind = "declaration"
  PROVE  /\ Top.type \in ValueTypes /\ Top.left \in Initializers(Top.type) /\ Slot[Top.type] \in Nat
         /\ Top.at \in Int /\ Top.at >= 0 /\ Top.slot = Top.at + Slot[Top.type]
         /\ Innermost(stack) = Top.slot /\ ~IsExpression(Top)
         /\ \A k \in 1 .. Len(locals) : locals[k].offset <= Top.at
<1>1. Remembers(Top)
  <2>1. Len(frames) \in 1 .. Len(frames) /\ Top = frames[Len(frames)]
    BY Accounts DEF LaidOut, Top
  <2> QED  BY <2>1 DEF LaidOut, Layout
<1>2. Top.type \in ValueTypes /\ Top.left \in Initializers(Top.type) /\ Top.at >= 0
      /\ \A k \in 1 .. Len(locals) : locals[k].offset <= Top.at
  BY <1>1 DEF Remembers
<1>3. InControl(Top) /\ FrameDiscipline(Top) /\ Top \in Activations /\ Len(stack.scopes) = Inner(Top)
  BY Accounts DEF LaidOut
<1>4. ~IsExpression(Top) /\ ~Scoped(Top)
  BY <1>3 DEF InControl, KindsOf, StepsOf, IsExpression, Scoped
<1>5. Len(stack.scopes) = Top.scope
  BY <1>3, <1>4, ScopeNumbers
<1>6. Innermost(stack) = Top.slot /\ Top.slot = Top.at + Slot[Top.type]
  BY <1>3, <1>4, <1>5 DEF FrameDiscipline, Innermost
<1>7. Slot[Top.type] \in Nat /\ Top.at \in Int
  BY <1>2, <1>3, TypesAssumption, SlotAssumption DEF ValueTypes, Types, Activations
<1> QED  BY <1>2, <1>4, <1>6, <1>7

LEMMA EndDeclarationLaidOut ==
  ASSUME LaidOut, Accounting', EndDeclarationStep PROVE Layout'
<1>1. Running /\ Top.kind = "declaration"
  BY DEF EndDeclarationStep, Returns, Popped, At
<1>2. /\ frames' = Returning /\ signature' = signature
      /\ stack' = CommitStack(PopStack(stack, Slot[Top.left]))
      /\ locals' = Append(locals, [type |-> Top.type, offset |-> Top.slot])
  BY DEF EndDeclarationStep, Returns, Popped
<1>3. stack'.scopes = stack.scopes /\ stack' \in ScopedStacks
  BY <1>1, <1>2, StepTypes, ScopesUntouched
<1>4. Innermost(stack') = Innermost(stack)
  BY <1>3 DEF Innermost
<1>5. /\ locals \in Seq(Locals) /\ Len(locals) \in Nat /\ Innermost(stack) \in Int
      /\ \A k \in 1 .. Len(stack.scopes) : stack.scopes[k] \in Int /\ stack.scopes[k] >= 0
  BY <1>1, Offsets
<1>6. Placed'
  <2>1. /\ Top.slot \in Int /\ Top.slot <= Innermost(stack') /\ 0 <= Top.slot - Slot[Top.type]
        /\ Innermost(stack) <= Innermost(stack') /\ Top.slot - Slot[Top.type] = Top.at
    BY <1>1, <1>4, Declares
  <2>2. \A k \in 1 .. Len(locals) : locals[k].offset <= Top.slot - Slot[Top.type]
    BY <1>1, <2>1, Declares
  <2>3. PICK t \in ValueTypes, o \in Int : t = Top.type /\ o = Top.slot
    BY <1>1, <2>1, Declares
  <2>4. \A k \in 1 .. Len(stack'.scopes) : stack'.scopes[k] >= 0
    BY <1>3, <1>5
  <2> QED  BY <1>1, <1>2, <1>3, <2>1, <2>2, <2>3, <2>4, PlacedDeclared
<1>7. Spares
  <2>1. \A k \in 1 .. Top.visible : locals'[k] = locals[k]
    <3>1. Top.visible \in Nat /\ Top.visible <= Len(locals)
      BY <1>1, Context DEF LaidOut, Accounting
    <3>2. \A k \in 1 .. Len(locals) : locals'[k] = locals[k]
      <4>1. [type |-> Top.type, offset |-> Top.slot] \in Locals
        BY <1>1, Declares DEF Locals, ValueTypes
      <4> QED  BY <1>2, <1>5, <4>1, AppendProperties
    <3>3. \A k \in 1 .. Top.visible : k \in 1 .. Len(locals)
      BY <1>5, <3>1
    <3> QED  BY <3>2, <3>3
  <2>2. ~IsExpression(Top) /\ Top.scope <= Len(stack.scopes) /\ Top.scope \in Nat
        /\ Len(stack.scopes) \in Nat
    BY <1>1, Declares, Accounts, ActivationFields DEF LaidOut, FrameDiscipline
  <2>3. \A k \in 1 .. Top.scope : stack'.scopes[k] >= stack.scopes[k]
    BY <1>3, <1>5, <2>2
  <2> QED  BY <1>2, <1>3, <2>1, <2>2, <2>3 DEF Spares
<1> QED  BY <1>1, <1>2, <1>6, <1>7, ReturnLaidOut

-----------------------------------------------------------------------------
(* The function as a whole.                                                *)

(* At its end no activation and no name is left.                           *)
LEMMA EndFunctionLaidOut ==
  ASSUME LaidOut, Accounting', EndFunctionStep PROVE Layout'
<1> DEFINE m == Len(stack.scopes) - 1
<1>1. Running /\ Top.kind = "function" /\ CanPopScope(stack)
  BY DEF EndFunctionStep, Returns, At
<1>2. signature' = signature /\ frames' = Returning
      /\ (stack' = CommitStack(PopScope(stack)) \/ stack' = PopScope(stack))
  BY DEF EndFunctionStep, Returns
<1>3. frames \in Seq(Activations) /\ Len(frames) \in Nat \ {0} /\ Len(frames) = 1
  <2>1. /\ Len(frames) \in 1 .. Len(frames) /\ Top = frames[Len(frames)]
        /\ frames \in Seq(Activations) /\ Len(frames) \in Nat \ {0}
    BY <1>1, Accounts DEF LaidOut, Top
  <2> QED  BY <1>1, <2>1 DEF LaidOut, Accounting, Sound, ControlDiscipline
<1>4. stack'.scopes = SubSeq(stack.scopes, 1, m)
  BY <1>1, <1>2, StepTypes, ScopesClosed
<1>5. /\ m \in Nat \ {0} /\ stack.scopes \in Seq(Int) /\ Len(stack.scopes) \in Nat
      /\ \A k \in 1 .. Len(stack.scopes) : stack.scopes[k] >= 0
  <2>1. /\ Len(stack.scopes) \in Nat \ {0} /\ stack.scopes \in Seq(Int)
        /\ \A k \in 1 .. Len(stack.scopes) : stack.scopes[k] >= 0
    BY <1>1, Offsets, ScopesType
  <2>2. Len(stack.scopes) > 1
    BY <1>1 DEF CanPopScope
  <2> QED  BY <2>1, <2>2
<1>6. Len(stack'.scopes) = m /\ \A k \in 1 .. m : stack'.scopes[k] = stack.scopes[k]
  <2>1. m <= Len(stack.scopes)
    BY <1>5
  <2> HIDE DEF m
  <2> QED  BY <1>4, <1>5, <2>1
<1>7. Placed'
  <2>1. \A k \in 1 .. Len(stack'.scopes) : stack'.scopes[k] >= 0
    <3>1. m <= Len(stack.scopes)
      BY <1>5
    <3> HIDE DEF m
    <3> QED  BY <1>5, <1>6, <3>1
  <2>2. PICK v \in 0 .. Top.visible : locals' = SubSeq(locals, 1, v)
    BY DEF EndFunctionStep, Returns
  <2>3. Top.visible \in Nat /\ Top.visible <= Len(locals) /\ locals \in Seq(Locals) /\ Len(locals) \in Nat
    BY <1>1, Context DEF LaidOut, Accounting
  <2>4. v \in 0 .. Len(locals) /\ \A k \in 1 .. v : k \in 1 .. Top.visible
    BY <2>3
  <2>5. Len(locals') = v /\ \A k \in 1 .. v : locals'[k] = locals[k]
    BY <2>2, <2>3, <2>4
  <2>6. Sees(Top) /\ InControl(Top) /\ Top \in Activations /\ Len(stack.scopes) = Inner(Top)
    <3>1. Len(frames) \in 1 .. Len(frames) /\ Top = frames[Len(frames)]
      BY <1>1, Accounts DEF LaidOut, Top
    <3> QED  BY <1>1, <3>1, Accounts DEF LaidOut, Layout
  <2>7. Top.scope = m
    <3>1. Scoped(Top)
      BY <1>1, <2>6 DEF Scoped, InControl, StepsOf
    <3> QED  BY <2>6, <3>1, ScopeNumbers
  <2>8. Innermost(stack') = stack.scopes[Top.scope]
    <3>1. m \in Nat \ {0}
      BY <1>5
    <3> HIDE DEF m
    <3>2. m \in 1 .. m
      BY <3>1
    <3> QED  BY <1>6, <2>7, <3>1, <3>2 DEF Innermost
  <2>9. \A k \in 1 .. v : locals'[k] = locals[k] /\ locals[k].offset <= Innermost(stack')
    BY <2>4, <2>5, <2>6, <2>8 DEF Sees
  <2> QED  BY <1>1, <1>2, <2>1, <2>4, <2>5, <2>9, StepTypes, PlacedKept
<1>8. PICK F \in Seq(Activations) : frames' = F /\ Len(F) = Len(frames) - 1
  BY <1>1, <1>2, <1>3, ReturnShape
<1>9. \A i \in 1 .. Len(F) : Sees(F[i])' /\ Remembers(F[i])' /\ Passes(F[i])
  BY <1>3, <1>8
<1> QED  BY <1>7, <1>8, <1>9, LayoutAssembled

(* The parameters lie one below the other, above the return address.       *)
LEMMA InitLaidOut ==
  ASSUME EmitterInit PROVE Layout
<1> DEFINE params == signature.params
           L == Len(params)
           B(k) == BytesOfLast(Slot, k, params)
<1>1. /\ Len(stack.scopes) = 2 /\ stack.scopes[1] = 0 /\ stack.scopes[2] = 0
  BY InitialStack
<1>2. /\ params \in Seq(ValueTypes) /\ L \in Nat
      /\ locals = [i \in 1 .. L |-> [type |-> params[i], offset |-> ParameterAt(Slot, Gap, signature, i)]]
  BY SignatureTypes DEF EmitterInit
<1>3. Len(locals) = L
  BY <1>2
<1>4. \A k \in 0 .. L : B(k) \in Nat
  BY <1>2, BytesOfLastType
<1>5. ReturnAt(Slot, Gap, signature) = -Gap - B(L)
  BY DEF ReturnAt
<1>6. ASSUME NEW i \in 1 .. L
      PROVE  /\ locals[i].type \in ValueTypes /\ locals[i].offset = -Gap - B(L - i)
             /\ Slot[locals[i].type] \in Nat
             /\ locals[i].offset - Slot[locals[i].type] = -Gap - B((L - i) + 1)
  <2> DEFINE n == L - i
  <2>1. n \in 0 .. L /\ n \in 0 .. L - 1 /\ n + 1 \in 0 .. L /\ L - n = i
    <3> HIDE DEF L
    <3> QED  BY <1>2
  <2>2. locals[i] = [type |-> params[i], offset |-> ParameterAt(Slot, Gap, signature, i)]
    BY <1>2
  <2>3. ParameterAt(Slot, Gap, signature, i) = -Gap - B(n)
    BY DEF ParameterAt
  <2>4. params[i] \in ValueTypes
    BY <1>2
  <2>5. Slot[params[i]] \in Nat
    BY <2>4, TypesAssumption, SlotAssumption DEF ValueTypes, Types
  <2>6. B(n + 1) = B(n) + Slot[params[i]]
    <3>1. BytesOfLast(Slot, n + 1, params) = BytesOfLast(Slot, n, params) + Slot[params[Len(params) - n]]
      BY <1>2, <2>1, BytesOfLastStep
    <3>2. Len(params) - n = i
      BY <2>1
    <3> QED  BY <3>1, <3>2
  <2>7. B(n) \in Nat /\ B(n + 1) \in Nat
    BY <1>4, <2>1
  <2> HIDE DEF n, B, params, L
  <2>8. -Gap - B(n) - Slot[params[i]] = -Gap - B(n + 1)
    BY <2>5, <2>6, <2>7, SlotAssumption
  <2> QED  BY <2>2, <2>3, <2>4, <2>5, <2>8 DEF n
<1>7. ASSUME NEW m \in 0 .. L, NEW n \in 0 .. L, m <= n PROVE B(m) <= B(n)
  <2>1. CASE m = n
    BY <1>4, <2>1
  <2>2. CASE m < n
    <3>1. BytesOfLast(Slot, m, params) + Slot[params[Len(params) - m]] <= BytesOfLast(Slot, n, params)
      BY <1>2, <2>2, BytesOfLastGrows
    <3>2. Slot[params[Len(params) - m]] \in Nat
      <4>1. Len(params) - m \in 1 .. Len(params)
        BY <1>2, <2>2
      <4>2. params[Len(params) - m] \in ValueTypes
        BY <1>2, <4>1
      <4> QED  BY <4>2, TypesAssumption, SlotAssumption DEF ValueTypes, Types
    <3>3. B(m) \in Nat /\ B(n) \in Nat
      BY <1>4
    <3> QED  BY <3>1, <3>2, <3>3
  <2>3. m = n \/ m < n
    BY <1>2, <1>7
  <2> QED  BY <2>1, <2>2, <2>3
<1>8. Innermost(stack) = 0
  BY <1>1 DEF Innermost
<1> HIDE DEF B, L, params
<1>9. ASSUME NEW k \in 1 .. L
      PROVE  /\ locals[k].type \in ValueTypes /\ locals[k].offset <= Innermost(stack)
             /\ ReturnAt(Slot, Gap, signature) <= locals[k].offset - Slot[locals[k].type]
  <2>1. L - k \in 0 .. L /\ (L - k) + 1 \in 0 .. L /\ L \in 0 .. L /\ (L - k) + 1 <= L
    BY <1>2
  <2>2. B((L - k) + 1) <= B(L) /\ B(L - k) \in Nat /\ B(L) \in Nat /\ B((L - k) + 1) \in Nat
    BY <1>4, <1>7, <2>1
  <2>3. locals[k].offset = -Gap - B(L - k)
    BY <1>6
  <2>4. locals[k].offset <= 0
    BY <2>2, <2>3, SlotAssumption
  <2>5. ReturnAt(Slot, Gap, signature) <= -Gap - B((L - k) + 1)
    BY <1>5, <2>2, SlotAssumption
  <2> QED  BY <1>6, <1>8, <2>4, <2>5
<1>10. ASSUME NEW j \in 1 .. L, NEW k \in 1 .. L, j < k
       PROVE  locals[j].offset <= locals[k].offset - Slot[locals[k].type]
  <2>1. L - j \in 0 .. L /\ (L - k) + 1 \in 0 .. L /\ (L - k) + 1 <= L - j
    BY <1>2, <1>10
  <2>2. B((L - k) + 1) <= B(L - j) /\ B(L - j) \in Nat /\ B((L - k) + 1) \in Nat
    BY <1>4, <1>7, <2>1
  <2>3. -Gap - B(L - j) <= -Gap - B((L - k) + 1)
    BY <2>2, SlotAssumption
  <2> QED  BY <1>6, <2>3
<1>11. Placed
  BY <1>1, <1>3, <1>9, <1>10 DEF Placed
<1>12. PICK f \in Activations : frames = <<f>> /\ f.kind = "function" /\ f.scope = 1 /\ f.visible = L
  <2> DEFINE g == [Activation("function", Void, FreshStack, Len(locals))
                     EXCEPT !.kind = "function", !.step = "statements"]
  <2>1. frames = <<g>>
    BY Zenon DEF EmitterInit
  <2>2. g.kind = "function" /\ g.scope = 1 /\ g.visible = Len(locals)
    BY DEF Activation, FreshStack
  <2> HIDE DEF g
  <2>3. g \in Activations
    <3>1. frames \in Seq(Activations)
      BY InitSound DEF Sound, TypeOK
    <3> QED  BY <2>1, <3>1
  <2> QED  BY <1>3, <2>1, <2>2, <2>3
<1>13. Sees(f) /\ Remembers(f) /\ Passes(f)
  <2>1. \A k \in 1 .. L : locals[k].offset <= stack.scopes[1]
    BY <1>1, <1>8, <1>9
  <2> QED  BY <1>12, <2>1 DEF Sees, Remembers, Passes
<1> QED  BY <1>11, <1>12, <1>13 DEF Layout

LEMMA StutterLaidOut ==
  ASSUME LaidOut, UNCHANGED emission PROVE Layout'
<1>1. stack' = stack /\ frames' = frames /\ locals' = locals /\ signature' = signature
  BY DEF emission
<1> QED  BY <1>1, SMTT(30) DEF LaidOut, Layout, Placed, Sees, Remembers, Innermost, Passes, ReturnTypes

(* Every step preserves the layout.                                        *)
LEMMA NextLaidOut ==
  ASSUME AlignedFeatures, LaidOut, [EmitterNext]_emission PROVE LaidOut'
<1>1. Accounting'
  BY NextAccounts DEF AlignedFeatures, LaidOut
<1>2. CASE ExpressionStep
  BY <1>1, <1>2, ValuesLaidOut, BeginBinaryLaidOut, BinaryRightLaidOut, BeginCallLaidOut,
     BeginArgumentLaidOut, EndArgumentLaidOut, BeginAssignLaidOut, BeginMemberLaidOut,
     BeginCastLaidOut, Zenon
     DEF ExpressionStep, LaidOut
<1>3. CASE StatementStep
  BY <1>1, <1>3, DeclareOnlyLaidOut, BeginDeclarationLaidOut, EndDeclarationLaidOut,
     BeginDiscardLaidOut, DroppedLaidOut, BeginIfLaidOut, IfThenLaidOut, EndIfLaidOut,
     BeginForLaidOut, ForConditionLaidOut, ForBodyLaidOut, ForStepLaidOut, EndForLaidOut,
     BeginReturnLaidOut, BeginBlockLaidOut, NextStatementLaidOut, EndBlockLaidOut,
     EndFunctionLaidOut, Zenon
     DEF StatementStep, LaidOut
<1>4. CASE UNCHANGED emission
  BY <1>1, <1>4, StutterLaidOut DEF LaidOut
<1> QED  BY <1>2, <1>3, <1>4 DEF EmitterNext

-----------------------------------------------------------------------------
(* The frames of calls.                                                    *)

(* A call that is emitted pushed its arguments, and left room for its      *)
(* result, where its callee looks for them.                                *)
CallsAgree ==
  At("call", "arguments") /\ Len(Top.args) = Len(Top.callee.params) =>
    LET entry == stack.committed + Gap
    IN  /\ Top.slot = entry + ReturnAt(Slot, Gap, Top.callee)
        /\ \A i \in 1 .. Len(Top.args) :
             /\ Top.args[i].offset = entry + ParameterAt(Slot, Gap, Top.callee, i)
             /\ Top.args[i].size = Slot[Top.callee.params[i]]

LEMMA LaidOutFramesAgree ==
  ASSUME LaidOut PROVE CallsAgree
<1> SUFFICES ASSUME At("call", "arguments"), Len(Top.args) = Len(Top.callee.params)
             PROVE  LET entry == stack.committed + Gap
                    IN  /\ Top.slot = entry + ReturnAt(Slot, Gap, Top.callee)
                        /\ \A i \in 1 .. Len(Top.args) :
                             /\ Top.args[i].offset = entry + ParameterAt(Slot, Gap, Top.callee, i)
                             /\ Top.args[i].size = Slot[Top.callee.params[i]]
  BY DEF CallsAgree
<1> DEFINE params == Top.callee.params
           L == Len(params)
           B(k) == BytesOfLast(Slot, k, params)
           entry == stack.committed + Gap
<1>1. Running /\ Top.kind = "call" /\ Top.step = "arguments"
  BY DEF At
<1>2. /\ params \in Seq(ValueTypes) /\ L \in Nat \ {0} /\ Len(Top.args) = L
      /\ Top.argsize = BytesOfFirst(L, params)
      /\ \A i \in 1 .. L :
           /\ Top.args[i].offset = Top.slot + BytesOfFirst(i, params)
           /\ Top.args[i].size = Slot[params[i]]
  BY <1>1, TopPasses
<1>3. \A k \in 0 .. L : B(k) \in Nat /\ BytesOfFirst(k, params) = B(L) - B(L - k)
  BY <1>2, BytesOfLastType DEF BytesOfFirst
<1>4. BytesOfFirst(L, params) = B(L) /\ B(L) \in Nat
  <2>1. B(0) = 0
    BY <1>2, BytesOfLastStep
  <2>2. L \in 0 .. L /\ L - L = 0
    BY <1>2
  <2> HIDE DEF B, L, params
  <2> QED  BY <1>3, <2>1, <2>2
<1>5. /\ Top.slot \in Int /\ Top.slot = Top.at + Slot[Top.type]
      /\ Top.at \in Int /\ Slot[Top.type] \in Int /\ Top.argsize \in Int
  BY <1>1, ExpressionNodes, Accounts DEF LaidOut, ValueDiscipline
<1>6. stack.committed = Top.slot + B(L)
  <2>1. stack.allocated = Top.at + (Slot[Top.type] + Top.argsize)
        /\ (Top.args # <<>> => stack.committed = stack.allocated)
    <3>1. TopDiscipline(Top)
      BY <1>1, Accounts DEF LaidOut
    <3>2. stack.allocated = Top.at + Held(Top)
          /\ (Top.args # <<>> => stack.committed = stack.allocated)
      BY <1>1, <3>1 DEF TopDiscipline, AwaitsExpression
    <3>3. Held(Top) = Slot[Top.type] + Top.argsize
      BY <1>1 DEF Held
    <3> QED  BY <3>2, <3>3
  <2>2. Top.args # <<>>
    BY <1>2
  <2> HIDE DEF B, L, params
  <2> QED  BY <1>2, <1>4, <1>5, <2>1, <2>2
<1>7. Top.slot = entry + ReturnAt(Slot, Gap, Top.callee)
  <2>1. ReturnAt(Slot, Gap, Top.callee) = -Gap - B(L)
    BY DEF ReturnAt
  <2> HIDE DEF B, L, params
  <2> QED  BY <1>4, <1>5, <1>6, <2>1, SlotAssumption
<1>8. ASSUME NEW i \in 1 .. L
      PROVE  Top.args[i].offset = entry + ParameterAt(Slot, Gap, Top.callee, i)
  <2>1. ParameterAt(Slot, Gap, Top.callee, i) = -Gap - B(L - i)
    BY DEF ParameterAt
  <2>2. i \in 0 .. L /\ L - i \in 0 .. L
    BY <1>2
  <2>3. B(L - i) \in Nat /\ BytesOfFirst(i, params) = B(L) - B(L - i)
    BY <1>3, <2>2
  <2>4. Top.args[i].offset = Top.slot + BytesOfFirst(i, params)
    BY <1>2
  <2> HIDE DEF B, L, params
  <2> QED  BY <1>4, <1>5, <1>6, <2>1, <2>3, <2>4, SlotAssumption
<1> QED  BY <1>2, <1>7, <1>8

-----------------------------------------------------------------------------
(* What an implementation has to show of the text it emits.                *)

(* The instructions after an emission.                                     *)
LEMMA Concatenation ==
  ASSUME NEW t \in Seq(Instructions), NEW s \in Seq(Instructions)
  PROVE  /\ t \o s \in Seq(Instructions) /\ Len(t \o s) = Len(t) + Len(s)
         /\ \A i \in 1 .. Len(t) : (t \o s)[i] = t[i]
         /\ \A i \in 1 .. Len(s) : (t \o s)[Len(t) + i] = s[i]
<1> HIDE DEF Instructions
<1> QED  OBVIOUS

(* Instructions s after text t, that of before but for a patched jump.     *)
LEMMA Emission ==
  ASSUME text \in Seq(Instructions), NEW t \in Seq(Instructions), Len(t) = Len(text),
         NEW s \in Seq(Instructions), s # <<>>, s[1].depth = stack.committed, text' = t \o s
  PROVE  /\ EmitsAfter(t) /\ Len(text') = Len(text) + Len(s) /\ LastEmitted = s[Len(s)]
         /\ \A i \in New : \E j \in 1 .. Len(s) : text'[i] = s[j]
         /\ t = text /\ (\A j \in 1 .. Len(s) : s[j].to = 0) => Emits
<1>1. /\ text' \in Seq(Instructions) /\ Len(text') = Len(t) + Len(s)
      /\ \A i \in 1 .. Len(t) : text'[i] = t[i]
      /\ \A i \in 1 .. Len(s) : text'[Len(t) + i] = s[i]
  BY Concatenation
<1>2. Len(s) \in Nat \ {0} /\ Len(t) \in Nat /\ Len(text) = Len(t)
  <2> HIDE DEF Instructions
  <2> QED  OBVIOUS
<1>3. EmitsAfter(t)
  <2>1. text'[Len(t) + 1] = s[1]
    BY <1>1, <1>2
  <2> QED  BY <1>1, <1>2, <2>1 DEF EmitsAfter
<1>4. LastEmitted = s[Len(s)]
  BY <1>1, <1>2 DEF LastEmitted
<1>5. ASSUME NEW i \in New PROVE \E j \in 1 .. Len(s) : text'[i] = s[j]
  <2>1. i - Len(t) \in 1 .. Len(s) /\ Len(t) + (i - Len(t)) = i
    BY <1>1, <1>2 DEF New
  <2> QED  BY <1>1, <2>1
<1>6. t = text /\ (\A j \in 1 .. Len(s) : s[j].to = 0) => Emits
  BY <1>3, <1>5 DEF Emits
<1> QED  BY <1>1, <1>2, <1>3, <1>4, <1>5, <1>6

(* One instruction, two and three.                                         *)
LEMMA EmitsOne ==
  ASSUME text \in Seq(Instructions), NEW t \in Seq(Instructions), Len(t) = Len(text),
         NEW a \in Instructions, a.depth = stack.committed, a.to = 0, text' = Append(t, a)
  PROVE  EmitsAfter(t) /\ Len(text') = Len(text) + 1 /\ (\A i \in New : text'[i].to = 0)
         /\ (t = text => Emits)
<1> HIDE DEF Instructions
<1> DEFINE s == <<a>>
<1>1. /\ s \in Seq(Instructions) /\ s # <<>> /\ s[1] = a /\ Len(s) = 1
      /\ \A i \in 1 .. Len(s) : s[i] = a
  OBVIOUS
<1>2. text' = t \o s
  OBVIOUS
<1> HIDE DEF s
<1>3. \A j \in 1 .. Len(s) : s[j].to = 0
  BY <1>1
<1>4. /\ EmitsAfter(t) /\ Len(text') = Len(text) + Len(s)
      /\ \A i \in New : \E j \in 1 .. Len(s) : text'[i] = s[j]
  BY <1>1, <1>2, Emission
<1>5. \A i \in New : text'[i].to = 0
  BY <1>3, <1>4
<1>6. t = text => Emits
  BY <1>4, <1>5 DEF Emits
<1> QED  BY <1>1, <1>4, <1>5, <1>6

LEMMA EmitsTwo ==
  ASSUME text \in Seq(Instructions), NEW a \in Instructions, NEW b \in Instructions,
         a.depth = stack.committed, a.to = 0, b.to = 0, text' = text \o <<a, b>>
  PROVE  Emits /\ Len(text') = Len(text) + 2 /\ LastEmitted = b
<1> HIDE DEF Instructions
<1> DEFINE s == <<a, b>>
<1>1. /\ s \in Seq(Instructions) /\ s # <<>> /\ s[1] = a /\ Len(s) = 2 /\ s[2] = b
      /\ \A i \in 1 .. Len(s) : s[i] = a \/ s[i] = b
  OBVIOUS
<1>2. text' = text \o s
  OBVIOUS
<1> HIDE DEF s
<1> QED  BY <1>1, <1>2, Emission

LEMMA EmitsThree ==
  ASSUME text \in Seq(Instructions), NEW t \in Seq(Instructions), Len(t) = Len(text),
         NEW a \in Instructions, NEW b \in Instructions, NEW c \in Instructions,
         a.depth = stack.committed, text' = t \o <<a, b, c>>
  PROVE  /\ EmitsAfter(t) /\ Len(text') = Len(text) + 3 /\ text'[Len(text) + 3] = c
         /\ \A i \in New : text'[i] \in {a, b, c}
         /\ (t = text /\ a.to = 0 /\ b.to = 0 /\ c.to = 0 => Emits)
<1> HIDE DEF Instructions
<1> DEFINE s == <<a, b, c>>
<1>1. /\ s \in Seq(Instructions) /\ s # <<>> /\ s[1] = a /\ Len(s) = 3 /\ s[3] = c
      /\ \A i \in 1 .. Len(s) : s[i] = a \/ s[i] = b \/ s[i] = c
  OBVIOUS
<1>2. text' = t \o s
  OBVIOUS
<1> HIDE DEF s
<1>3. /\ EmitsAfter(t) /\ Len(text') = Len(text) + Len(s) /\ LastEmitted = s[Len(s)]
      /\ \A i \in New : \E j \in 1 .. Len(s) : text'[i] = s[j]
      /\ (t = text /\ (\A j \in 1 .. Len(s) : s[j].to = 0) => Emits)
  BY <1>1, <1>2, Emission
<1>4. text'[Len(text) + 3] = c
  BY <1>1, <1>3 DEF LastEmitted
<1> QED  BY <1>1, <1>3, <1>4

LEMMA EmitsThreeStraight ==
  ASSUME text \in Seq(Instructions),
         NEW a \in Instructions, NEW b \in Instructions, NEW c \in Instructions,
         a.depth = stack.committed, text' = text \o <<a, b, c>>,
         a.to = 0, b.to = 0, c.to = 0
  PROVE  Emits
<1> HIDE DEF Instructions
<1> DEFINE s == <<a, b, c>>
<1>1. /\ s \in Seq(Instructions) /\ s # <<>> /\ s[1] = a /\ Len(s) = 3
      /\ \A i \in 1 .. Len(s) : s[i] = a \/ s[i] = b \/ s[i] = c
  OBVIOUS
<1>2. text' = text \o s
  OBVIOUS
<1> HIDE DEF s
<1>3. \A i \in 1 .. Len(s) : s[i].to = 0
  BY <1>1
<1> QED  BY <1>1, <1>2, <1>3, Emission

(* The fields of an instruction.                                           *)
LEMMA InstructionFields ==
  ASSUME NEW op \in Operations, NEW s \in ScopedStacks, NEW by \in Int
  PROVE  /\ Instruction(op, s, by) \in Instructions /\ Instruction(op, s, by).op = op
         /\ Instruction(op, s, by).depth = s.committed /\ Instruction(op, s, by).to = 0
         /\ \A p \in Nat : [Instruction(op, s, by) EXCEPT !.to = p] \in Instructions
<1>1. s.committed \in Int
  BY StackHeights
<1> QED  BY <1>1 DEF Instruction, Instructions

(* The stacks that the handlers leave.                                     *)
LEMMA HandlerStacks ==
  ASSUME Sound, Running
  PROVE  /\ stack \in ScopedStacks /\ FreshStack \in ScopedStacks /\ stack.committed \in Int
         /\ Top \in Activations /\ Top.type \in Types /\ Top.left \in Types /\ Top.right \in Types
         /\ text \in Seq(Instructions) /\ Len(text) \in Nat
         /\ Pushed(stack, Top.type) \in ScopedStacks
         /\ \A t \in Types : Popped(stack, t) \in ScopedStacks
         /\ CommitStack(PopStack(stack, Top.argsize)) \in ScopedStacks
         /\ Pushed(PopStack(stack, Slot[Top.left]), Top.type) \in ScopedStacks
         /\ Pushed(PopStack(PopStack(stack, Slot[Top.right]), Slot[Top.left]), Top.type)
              \in ScopedStacks
         /\ CanPopScope(stack) => CommitStack(PopScope(stack)) \in ScopedStacks
<1>1. /\ stack \in ScopedStacks /\ Top \in Activations /\ text \in Seq(Instructions)
      /\ Top.type \in Types /\ Top.left \in Types /\ Top.right \in Types
      /\ Top.argsize \in Nat /\ Top.argsize \in Int /\ \A t \in Types : Slot[t] \in Int
  BY Context, ActivationFields, Sizes
<1>2. /\ CommitStack(PopStack(stack, Top.argsize)) \in ScopedStacks
      /\ Pushed(stack, Top.type) \in ScopedStacks
      /\ \A t \in Types : Popped(stack, t) \in ScopedStacks
      /\ CanPopScope(stack) => CommitStack(PopScope(stack)) \in ScopedStacks
  BY <1>1, CompositeTypes DEF Pushed, Popped
<1>3. Pushed(PopStack(stack, Slot[Top.left]), Top.type) \in ScopedStacks
  BY <1>1, CompositeTypes DEF Pushed
<1>4. Pushed(PopStack(PopStack(stack, Slot[Top.right]), Slot[Top.left]), Top.type) \in ScopedStacks
  BY <1>1, CompositeTypes DEF Pushed
<1>5. FreshStack \in ScopedStacks
  BY DEF FreshStack, ScopedStacks, Stacks
<1>6. Len(text) \in Nat
  <2> HIDE DEF Instructions
  <2> QED  BY <1>1
<1> QED  BY <1>1, <1>2, <1>3, <1>4, <1>5, <1>6, StackHeights

-----------------------------------------------------------------------------
(* The assertions of the handlers.                                         *)

(* Assigning to a parameter is the one more construct that fails one.      *)
AssertedFeatures == StraightFeatures /\ "assign_to_parameter" \notin Features

(* What a handler asserts first follows from the accounting.               *)
LEMMA AccountingAsserts ==
  ASSUME Accounting, Running
  PROVE  /\ AwaitsExpression(Top) => ResultOnTop
         /\ At("binary", "right") => Top.slot = stack.allocated - Slot[Top.right]
         /\ At("return", "value") => stack.allocated - Slot[Top.left] = Innermost(stack)
         /\ At("if", "then") \/ At("block", "statements") \/ At("function", "statements")
              => CanPopScope(stack)
         /\ At("for", "step") => CanPopScope(PopStack(stack, Slot[Top.left]))
         /\ Entering({"statement", "loop_declaration", "loop_body"}) => CanAllocateStack(stack)
<1>1. /\ FrameDiscipline(Top) /\ ValueDiscipline(Top) /\ TopDiscipline(Top)
      /\ stack \in ScopedStacks /\ Len(stack.scopes) \in Nat \ {0} /\ Len(stack.scopes) = Inner(Top)
      /\ Top \in Activations /\ InControl(Top) /\ stack.allocated \in Int
  BY Accounts
<1>2. /\ Top.at \in Int /\ Slot[Top.left] \in Int /\ Slot[Top.right] \in Int
      /\ Top.scope \in Nat /\ Inner(Top) = IF Scoped(Top) THEN Top.scope + 1 ELSE Top.scope
  BY <1>1, ActivationFields, Sizes, ScopeNumbers
<1>3. At("binary", "right") => Top.slot = stack.allocated - Slot[Top.right]
  <2> SUFFICES ASSUME At("binary", "right") PROVE Top.slot = stack.allocated - Slot[Top.right]
    OBVIOUS
  <2>1. /\ Top.kind = "binary" /\ Top.step = "right" /\ AwaitsExpression(Top)
        /\ Awaited(Top) = Top.right /\ Held(Top) = Slot[Top.left] /\ IsExpression(Top)
    BY ExpressionNodes DEF At, AwaitsExpression, Awaited, Held
  <2>2. /\ stack.allocated = (Top.at + Slot[Top.left]) + Slot[Top.right] /\ result = stack.allocated
    BY <2>1, ValueFound DEF CalleeAt
  <2>3. Top.slot = Top.at + Slot[Top.left]
    BY <1>1, <2>1 DEF ValueDiscipline
  <2> QED  BY <1>2, <2>2, <2>3
<1>4. AwaitsExpression(Top) => ResultOnTop
  BY ValueFound DEF ResultOnTop
<1>5. At("return", "value") => stack.allocated - Slot[Top.left] = Innermost(stack)
  <2> SUFFICES ASSUME At("return", "value") PROVE stack.allocated - Slot[Top.left] = Innermost(stack)
    OBVIOUS
  <2>1. /\ AwaitsExpression(Top) /\ Awaited(Top) = Top.left /\ ~IsExpression(Top)
    BY <1>1 DEF At, AwaitsExpression, Awaited, IsExpression, InControl, KindsOf
  <2>2. /\ CommitStack(PopStack(stack, Slot[Top.left])).allocated = Innermost(stack)
    BY <2>1, ValueDropped
  <2> QED  BY <1>1, <1>2, <2>2, CommittedPop
<1>6. At("if", "then") \/ At("block", "statements") \/ At("function", "statements") => CanPopScope(stack)
  <2> SUFFICES ASSUME Top.step \in {"then", "statements"} PROVE CanPopScope(stack)
    BY DEF At
  <2>1. Scoped(Top) /\ stack.allocated = Innermost(stack) /\ Top.scope >= 1
    BY <1>1 DEF Scoped, TopDiscipline, AwaitsExpression, FrameDiscipline
  <2> QED  BY <1>1, <1>2, <2>1 DEF CanPopScope
<1>7. At("for", "step") => CanPopScope(PopStack(stack, Slot[Top.left]))
  <2> SUFFICES ASSUME At("for", "step") PROVE CanPopScope(PopStack(stack, Slot[Top.left]))
    OBVIOUS
  <2>1. /\ Top.kind = "for" /\ AwaitsExpression(Top) /\ Awaited(Top) = Top.left
    BY DEF At, AwaitsExpression, Awaited
  <2>2. ~IsExpression(Top) /\ Len(stack.scopes) = Top.scope + 1 /\ Top.scope \in Nat \ {0}
    BY <2>1, InLoop
  <2>3. CommitStack(PopStack(stack, Slot[Top.left])).allocated = Innermost(stack)
    BY <2>1, <2>2, ValueDropped
  <2>4. /\ PopStack(stack, Slot[Top.left]).scopes = stack.scopes
        /\ PopStack(stack, Slot[Top.left]).allocated = Innermost(stack)
    BY <1>1, <1>2, <2>3, CommittedPop, Committed
  <2> QED  BY <2>2, <2>4 DEF CanPopScope, Innermost
<1>8. Entering({"statement", "loop_declaration", "loop_body"}) => CanAllocateStack(stack)
  <2> SUFFICES ASSUME EnteredStatement, Top.routine \in {"statement", "loop_declaration", "loop_body"}
               PROVE  CanAllocateStack(stack)
    BY DEF Entering, EnteredStatement, IsExpression
  <2>1. /\ Len(stack.scopes) = Top.scope /\ stack.allocated = Innermost(stack)
    BY EntersStatement
  <2>2. Top.scope > 1
    <3>1. /\ 1 \in 1 .. Len(frames) /\ Len(frames) \in 1 .. Len(frames) /\ Len(frames) \in Nat
          /\ Top = frames[Len(frames)] /\ frames[1] \in Activations
      BY Accounts DEF Top
    <3>2. Top.kind # "function"
      BY EntersStatement
    <3>3. Len(frames) # 1 /\ frames[1].kind = "function" /\ InControl(frames[1])
      BY <3>1, <3>2 DEF Accounting, Sound, ControlDiscipline
    <3>4. frames[1].step = "statements"
      BY <3>3 DEF InControl, StepsOf
    <3>5. Inner(frames[1]) = frames[1].scope + 1 /\ frames[1].scope \in Nat
      BY <3>1, <3>4, ScopeNumbers DEF Scoped
    <3>6. frames[1].scope \in 1 .. Len(stack.scopes)
      BY <3>1 DEF Accounting, StackDiscipline, FrameDiscipline
    <3>7. 1 < Len(frames)
      <4>1. Len(frames) \in Nat \ {0} /\ Len(frames) # 1
        BY <3>3, Accounts
      <4>2. \A n \in Nat \ {0} : n # 1 => 1 < n
        OBVIOUS
      <4> QED  BY <4>1, <4>2
    <3>8. Inner(frames[1]) <= Top.scope
      BY <3>1, <3>7 DEF Accounting, StackDiscipline
    <3> QED  BY <1>2, <3>5, <3>6, <3>8
  <2> QED  BY <2>1, <2>2 DEF CanAllocateStack
<1> QED  BY <1>3, <1>4, <1>5, <1>6, <1>7, <1>8

-----------------------------------------------------------------------------
(* What the handlers load and store: how high the values lie.              *)

(* The variables lie below the values of an expression.                    *)
LEMMA ValuesBeyondVariables ==
  ASSUME LaidOut, Running, IsExpression(Top)
  PROVE  /\ Innermost(stack) <= Top.at /\ Innermost(stack) \in Int /\ Innermost(stack) >= 0
         /\ Top.at \in Int /\ stack \in ScopedStacks /\ stack.allocated \in Int
         /\ stack.committed \in Int /\ result \in Int
         /\ Top.type \in Types /\ Top.left \in Types /\ Top.right \in Types
         /\ \A t \in Types : Slot[t] \in Nat
<1>1. /\ InControl(Top) /\ FrameDiscipline(Top) /\ Top \in Activations /\ Len(stack.scopes) = Inner(Top)
      /\ stack \in ScopedStacks /\ stack.allocated \in Int /\ stack.committed \in Int
  BY Accounts DEF LaidOut
<1>2. ~Scoped(Top) /\ Top.kind # "declaration"
  BY <1>1 DEF InControl, KindsOf, StepsOf, IsExpression, Scoped
<1>3. Len(stack.scopes) = Top.scope
  BY <1>1, <1>2, ScopeNumbers
<1>4. Innermost(stack) <= Top.at
  <2>1. stack.scopes[Top.scope] <= Top.at
    BY <1>1, <1>2 DEF FrameDiscipline
  <2> QED  BY <1>3, <2>1 DEF Innermost
<1>5. /\ Top.at \in Int /\ Top.type \in Types /\ Top.left \in Types /\ Top.right \in Types
      /\ \A t \in Types : Slot[t] \in Nat
  BY <1>1, Sizes DEF Activations
<1>6. result \in Int /\ Innermost(stack) \in Int /\ Innermost(stack) >= 0
  BY Offsets DEF LaidOut, Accounting, Sound, TypeOK
<1> QED  BY <1>1, <1>4, <1>5, <1>6

(* A value is pushed.                                                      *)
LEMMA PushHeights ==
  ASSUME LaidOut, Entering({"expression"})
  PROVE  /\ Running /\ Innermost(stack) <= Top.at /\ Innermost(stack) \in Int
         /\ Innermost(stack) >= 0 /\ Top.at \in Int /\ Slot[Top.type] \in Nat
         /\ Pushed(stack, Top.type) \in ScopedStacks
         /\ Pushed(stack, Top.type).allocated = Top.at + Slot[Top.type]
         /\ Pushed(stack, Top.type).committed = Top.at + Slot[Top.type]
<1> DEFINE n == Slot[Top.type]
<1>1. Running /\ EnteredExpression /\ IsExpression(Top)
  BY DEF Entering, EnteredExpression, IsExpression
<1>2. /\ Innermost(stack) <= Top.at /\ Innermost(stack) \in Int /\ Innermost(stack) >= 0
      /\ Top.at \in Int /\ stack \in ScopedStacks /\ n \in Nat /\ stack.allocated = Top.at
  BY <1>1, ValuesBeyondVariables, EntersExpression DEF LaidOut
<1>3. n \in Int
  BY <1>2
<1> HIDE DEF n
<1>4. /\ CommitStack(PushStack(stack, n)) \in ScopedStacks
      /\ CommitStack(PushStack(stack, n)).allocated = Top.at + n
      /\ CommitStack(PushStack(stack, n)).committed = Top.at + n
  BY <1>2, <1>3, CommittedPush
<1> QED  BY <1>1, <1>2, <1>4 DEF n, Pushed

(* Two operands are popped and the result is pushed.                       *)
LEMMA BinaryHeights ==
  ASSUME LaidOut, At("binary", "right")
  PROVE  LET c == Pushed(PopStack(PopStack(stack, Slot[Top.right]), Slot[Top.left]), Top.type)
         IN  /\ Running /\ Innermost(stack) <= Top.at /\ Innermost(stack) \in Int
             /\ Innermost(stack) >= 0 /\ Top.at \in Int /\ stack \in ScopedStacks
             /\ Top.left \in Types /\ Top.right \in Types /\ Top.type \in Types
             /\ Slot[Top.left] \in Nat /\ Slot[Top.right] \in Nat /\ Slot[Top.type] \in Nat
             /\ result = (Top.at + Slot[Top.left]) + Slot[Top.right]
             /\ Top.slot = Top.at + Slot[Top.left] /\ stack.committed = result
             /\ c \in ScopedStacks /\ c.allocated = Top.at + Slot[Top.type]
             /\ c.committed = Top.at + Slot[Top.type]
<1> DEFINE l == Slot[Top.left]
           r == Slot[Top.right]
           n == Slot[Top.type]
           p == PopStack(stack, r)
           c == CommitStack(PushStack(PopStack(p, l), n))
<1>1. /\ Running /\ Top.kind = "binary" /\ Top.step = "right" /\ AwaitsExpression(Top)
      /\ Awaited(Top) = Top.right /\ Held(Top) = l
  BY DEF At, AwaitsExpression, Awaited, Held
<1>2. IsExpression(Top) /\ Top.slot = Top.at + l
  BY <1>1, Accounts, ExpressionNodes DEF LaidOut, ValueDiscipline
<1>3. /\ Innermost(stack) <= Top.at /\ Innermost(stack) \in Int /\ Innermost(stack) >= 0
      /\ Top.at \in Int /\ stack \in ScopedStacks /\ n \in Nat /\ l \in Nat /\ r \in Nat
      /\ result \in Int /\ Top.left \in Types /\ Top.right \in Types /\ Top.type \in Types
  BY <1>1, <1>2, ValuesBeyondVariables
<1>4. /\ stack.allocated = (Top.at + l) + r /\ result = stack.allocated
      /\ stack.committed = stack.allocated
  BY <1>1, <1>2, ValueFound DEF CalleeAt, LaidOut
<1>5. c \in ScopedStacks /\ c.allocated = Top.at + n /\ c.committed = Top.at + n
  <2>0. r \in Int /\ l \in Int /\ n \in Int
    BY <1>3
  <2> HIDE DEF l, r, n
  <2>1. p \in ScopedStacks /\ p.allocated = stack.allocated - r
    BY <1>3, <2>0, Committed
  <2> HIDE DEF p
  <2>2. /\ CommitStack(PushStack(PopStack(p, l), n)) \in ScopedStacks
        /\ CommitStack(PushStack(PopStack(p, l), n)).allocated = (p.allocated - l) + n
        /\ CommitStack(PushStack(PopStack(p, l), n)).committed = (p.allocated - l) + n
    BY <2>0, <2>1, CommittedPopPush
  <2>3. (p.allocated - l) + n = Top.at + n
    BY <1>3, <1>4, <2>1
  <2> QED  BY <2>2, <2>3
<1>6. c = Pushed(PopStack(PopStack(stack, Slot[Top.right]), Slot[Top.left]), Top.type)
  BY DEF Pushed
<1> HIDE DEF c, l, r, n
<1> QED  BY <1>1, <1>2, <1>3, <1>4, <1>5, <1>6 DEF l, r, n

(* A value is popped and another is pushed.                                *)
LEMMA CastHeights ==
  ASSUME LaidOut, At("cast", "value")
  PROVE  LET c == Pushed(PopStack(stack, Slot[Top.left]), Top.type)
         IN  /\ Running /\ Innermost(stack) <= Top.at /\ Innermost(stack) \in Int
             /\ Innermost(stack) >= 0 /\ Top.at \in Int /\ stack \in ScopedStacks
             /\ Top.left \in Types /\ Top.type \in Types
             /\ Slot[Top.left] \in Nat /\ Slot[Top.type] \in Nat
             /\ stack.allocated = Top.at + Slot[Top.left] /\ stack.committed = stack.allocated
             /\ c \in ScopedStacks /\ c.allocated = Top.at + Slot[Top.type]
             /\ c.committed = Top.at + Slot[Top.type]
<1> DEFINE l == Slot[Top.left]
           n == Slot[Top.type]
           c == CommitStack(PushStack(PopStack(stack, l), n))
<1>1. /\ Running /\ Top.kind = "cast" /\ Top.step = "value" /\ AwaitsExpression(Top)
      /\ Awaited(Top) = Top.left /\ Held(Top) = 0
  BY DEF At, AwaitsExpression, Awaited, Held
<1>2. IsExpression(Top)
  BY <1>1, ExpressionNodes DEF LaidOut
<1>3. /\ Innermost(stack) <= Top.at /\ Innermost(stack) \in Int /\ Innermost(stack) >= 0
      /\ Top.at \in Int /\ stack \in ScopedStacks /\ n \in Nat /\ l \in Nat
      /\ stack.allocated \in Int /\ Top.left \in Types /\ Top.type \in Types
  BY <1>1, <1>2, ValuesBeyondVariables
<1>4. stack.allocated = Top.at + l /\ stack.committed = stack.allocated
  <2>1. /\ stack.allocated = CalleeAt(Top) + Slot[Awaited(Top)]
        /\ stack.committed = stack.allocated
    BY <1>1, ValueFound DEF LaidOut
  <2>2. CalleeAt(Top) = Top.at
    BY <1>1, <1>2, <1>3 DEF CalleeAt
  <2> QED  BY <1>1, <2>1, <2>2
<1>5. c \in ScopedStacks /\ c.allocated = Top.at + n /\ c.committed = Top.at + n
  <2>1. l \in Int /\ n \in Int
    BY <1>3
  <2> HIDE DEF l, n
  <2>2. /\ c \in ScopedStacks /\ c.allocated = (stack.allocated - l) + n
        /\ c.committed = (stack.allocated - l) + n
    BY <1>3, <2>1, CommittedPopPush
  <2> HIDE DEF c
  <2> QED  BY <1>3, <1>4, <2>1, <2>2
<1>6. c = Pushed(PopStack(stack, Slot[Top.left]), Top.type)
  BY DEF Pushed
<1> HIDE DEF c, l, n
<1> QED  BY <1>1, <1>3, <1>4, <1>5, <1>6 DEF l, n

(* A value of a member follows the slot of the result.                     *)
LEMMA MemberHeights ==
  ASSUME LaidOut, At("member", "string")
  PROVE  /\ Running /\ Innermost(stack) <= Top.at /\ Innermost(stack) \in Int
         /\ Innermost(stack) >= 0 /\ Top.at \in Int /\ stack \in ScopedStacks
         /\ Top.type \in Members /\ Top.type \in Types
         /\ Slot[String] \in Nat /\ Slot[Top.type] \in Nat
         /\ Top.slot = Top.at + Slot[Top.type]
         /\ result = (Top.at + Slot[Top.type]) + Slot[String] /\ stack.committed = result
<1>1. /\ Running /\ Top.kind = "member" /\ Top.step = "string" /\ AwaitsExpression(Top)
      /\ Awaited(Top) = String /\ Held(Top) = Slot[Top.type]
  BY DEF At, AwaitsExpression, Awaited, Held
<1>2. /\ IsExpression(Top) /\ Top.slot = Top.at + Slot[Top.type]
  BY <1>1, Accounts, ExpressionNodes DEF LaidOut, ValueDiscipline
<1>3. /\ Innermost(stack) <= Top.at /\ Innermost(stack) \in Int /\ Innermost(stack) >= 0
      /\ Top.at \in Int /\ stack \in ScopedStacks /\ Top.type \in Types
      /\ Slot[Top.type] \in Nat /\ Slot[String] \in Nat /\ result \in Int
  BY <1>1, <1>2, ValuesBeyondVariables, Sizes
<1>4. /\ stack.allocated = (Top.at + Slot[Top.type]) + Slot[String] /\ result = stack.allocated
      /\ stack.committed = stack.allocated
  BY <1>1, <1>2, ValueFound DEF CalleeAt, LaidOut
<1>5. Top.type \in Members
  <2>1. Len(frames) \in 1 .. Len(frames) /\ Top = frames[Len(frames)]
    BY <1>1, Accounts DEF LaidOut, Top
  <2>2. Remembers(Top)
    BY <2>1 DEF LaidOut, Layout
  <2> QED  BY <1>1, <2>2 DEF Remembers
<1> QED  BY <1>1, <1>2, <1>3, <1>4, <1>5

(* A value on top of the stack is assigned to a variable.                  *)
LEMMA AssignHeights ==
  ASSUME LaidOut, At("assign", "value")
  PROVE  /\ Running /\ Innermost(stack) <= Top.at /\ Innermost(stack) \in Int
         /\ Innermost(stack) >= 0 /\ Top.at \in Int /\ stack \in ScopedStacks
         /\ Top.left \in Types /\ Top.type \in Types
         /\ Slot[Top.type] \in Nat /\ Slot[Top.left] = Slot[Top.type]
         /\ result = Top.at + Slot[Top.type] /\ stack.committed = result
         /\ \E k \in 1 .. Len(locals) :
              locals[k].type = Top.type /\ locals[k].offset = Top.slot
<1> DEFINE n == Slot[Top.type]
<1>1. /\ Running /\ Top.kind = "assign" /\ Top.step = "value" /\ AwaitsExpression(Top)
      /\ Awaited(Top) = Top.left /\ Held(Top) = 0
  BY DEF At, AwaitsExpression, Awaited, Held
<1>2. Slot[Top.left] = n /\ IsExpression(Top)
  BY <1>1, Accounts, ExpressionNodes DEF LaidOut, ValueDiscipline
<1>3. /\ Innermost(stack) <= Top.at /\ Innermost(stack) \in Int /\ Innermost(stack) >= 0
      /\ Top.at \in Int /\ stack \in ScopedStacks /\ n \in Nat /\ result \in Int
      /\ Top.left \in Types /\ Top.type \in Types
  BY <1>1, <1>2, ValuesBeyondVariables
<1>4. /\ stack.allocated = Top.at + n /\ result = stack.allocated
      /\ stack.committed = stack.allocated
  <2>1. /\ stack.allocated = CalleeAt(Top) + Slot[Awaited(Top)] /\ result = stack.allocated
        /\ stack.committed = stack.allocated
    BY <1>1, ValueFound DEF LaidOut
  <2>2. CalleeAt(Top) = Top.at
    BY <1>1, <1>2, <1>3 DEF CalleeAt
  <2> QED  BY <1>1, <1>2, <2>1, <2>2
<1>5. \E k \in 1 .. Len(locals) : locals[k].type = Top.type /\ locals[k].offset = Top.slot
  <2>1. Len(frames) \in 1 .. Len(frames) /\ Top = frames[Len(frames)]
    BY <1>1, Accounts DEF LaidOut, Top
  <2>2. Remembers(Top)
    BY <2>1 DEF LaidOut, Layout
  <2> QED  BY <1>1, <2>2 DEF Remembers
<1> QED  BY <1>1, <1>2, <1>3, <1>4, <1>5

(* The value of an initializer lies beyond the slot of its variable.       *)
LEMMA DeclarationHeights ==
  ASSUME LaidOut, At("declaration", "initializer")
  PROVE  /\ Running /\ Top.type \in ValueTypes /\ Top.left \in Initializers(Top.type)
         /\ Slot[Top.type] \in Nat /\ Slot[Top.left] \in Nat
         /\ Top.at \in Int /\ Top.at >= 0 /\ Top.slot = Top.at + Slot[Top.type]
         /\ stack \in ScopedStacks /\ result = Top.slot + Slot[Top.left] /\ stack.committed = result
         /\ \A k \in 1 .. Len(locals) : locals[k].offset <= Top.at
<1>1. /\ Running /\ Top.kind = "declaration" /\ AwaitsExpression(Top) /\ Awaited(Top) = Top.left
  BY DEF At, AwaitsExpression, Awaited
<1>2. /\ Top.type \in ValueTypes /\ Top.left \in Initializers(Top.type) /\ Slot[Top.type] \in Nat
      /\ Top.at \in Int /\ Top.at >= 0 /\ Top.slot = Top.at + Slot[Top.type]
      /\ Innermost(stack) = Top.slot
      /\ ~IsExpression(Top) /\ \A k \in 1 .. Len(locals) : locals[k].offset <= Top.at
  BY <1>1, Declares
<1>3. Slot[Top.left] \in Nat
  BY <1>1, Context, ActivationFields, Sizes DEF LaidOut, Accounting
<1>4. /\ stack \in ScopedStacks /\ stack.allocated = CalleeAt(Top) + Slot[Top.left]
      /\ result = stack.allocated /\ stack.committed = stack.allocated
  BY <1>1, ValueFound DEF LaidOut
<1>5. CalleeAt(Top) = Innermost(stack)
  <2>1. Len(stack.scopes) = Inner(Top)
    BY <1>1, Accounts DEF LaidOut
  <2> QED  BY <1>2, <2>1 DEF CalleeAt, Innermost
<1> QED  BY <1>1, <1>2, <1>3, <1>4, <1>5

(* A value is on top of the stack.                                         *)
LEMMA ResultHeights ==
  ASSUME LaidOut, Running, AwaitsExpression(Top)
  PROVE  /\ stack \in ScopedStacks /\ result = stack.allocated /\ stack.committed = result
         /\ result \in Int
<1>1. result \in Int
  BY DEF LaidOut, Accounting, Sound, TypeOK
<1> QED  BY <1>1, ValueFound DEF LaidOut

(* The return value lies above all variables.                              *)
LEMMA ReturnHeights ==
  ASSUME LaidOut, At("return", "value")
  PROVE  /\ Running /\ Top.left \in ReturnTypes /\ Top.left \in Types /\ Slot[Top.left] \in Nat
         /\ stack \in ScopedStacks /\ Innermost(stack) \in Int /\ Innermost(stack) >= 0
         /\ result = Innermost(stack) + Slot[Top.left] /\ stack.committed = result
         /\ signature.returns \in Types
         /\ ReturnAt(Slot, Gap, signature) \in Int /\ ReturnAt(Slot, Gap, signature) <= 0
         /\ \A k \in 1 .. Len(locals) :
              ReturnAt(Slot, Gap, signature) <= locals[k].offset - Slot[locals[k].type]
<1>1. /\ Running /\ Top.kind = "return" /\ Top.step = "value" /\ AwaitsExpression(Top)
      /\ Awaited(Top) = Top.left
  BY DEF At, AwaitsExpression, Awaited
<1>2. Top.left \in ReturnTypes
  <2>1. Len(frames) \in 1 .. Len(frames) /\ Top = frames[Len(frames)]
    BY <1>1, Accounts DEF LaidOut, Top
  <2>2. Remembers(Top)
    BY <2>1 DEF LaidOut, Layout
  <2> QED  BY <1>1, <2>2 DEF Remembers
<1>3. Top.left \in Types /\ Slot[Top.left] \in Nat
  BY <1>1, Context, ActivationFields, Sizes DEF LaidOut, Accounting
<1>4. /\ stack \in ScopedStacks /\ stack.allocated = CalleeAt(Top) + Slot[Top.left]
      /\ result = stack.allocated /\ stack.committed = stack.allocated
  BY <1>1, ValueFound DEF LaidOut
<1>5. CalleeAt(Top) = Innermost(stack)
  <2>1. Len(stack.scopes) = Inner(Top) /\ InControl(Top)
    BY <1>1, Accounts DEF LaidOut
  <2>2. ~IsExpression(Top)
    BY <1>1, <2>1 DEF InControl, KindsOf, IsExpression
  <2> QED  BY <2>1, <2>2 DEF CalleeAt, Innermost
<1>6. \A k \in 1 .. Len(locals) :
        ReturnAt(Slot, Gap, signature) <= locals[k].offset - Slot[locals[k].type]
  BY DEF LaidOut, Layout, Placed
<1> QED  BY <1>1, <1>2, <1>3, <1>4, <1>5, <1>6, Offsets

(* A variable lies clear of all others.                                    *)
LEMMA VariablesApart ==
  ASSUME LaidOut, Running, NEW k \in 1 .. Len(locals), NEW j \in 1 .. Len(locals)
  PROVE  \/ j = k
         \/ locals[k].offset <= locals[j].offset - Slot[locals[j].type]
         \/ locals[j].offset <= locals[k].offset - Slot[locals[k].type]
<1>1. Placed /\ Len(locals) \in Nat
  BY Offsets
<1>2. j = k \/ j < k \/ k < j
  BY <1>1
<1> QED  BY <1>1, <1>2 DEF Placed

-----------------------------------------------------------------------------
(* What holds of every implementation.                                     *)

(* Soundness of the bookkeeping: whatever the program, the types and the   *)
(* feature set, every variable of an emitter keeps its type, the           *)
(* activations are a chain of calls the handlers make, and no name that an *)
(* activation counts on disappears under it.                               *)
THEOREM EmissionSound == EmitterSpec => []Sound
<1>1. EmitterInit => Sound
  BY InitSound
<1>2. Sound /\ [EmitterNext]_emission => Sound'
  BY NextSound
<1> QED  BY <1>1, <1>2, PTL DEF EmitterSpec

(* In every program without the constructs that StraightFeatures excludes, *)
(* whatever its functions, types and nesting, each recursive call of the   *)
(* emitters leaves exactly its value on the compile-time stack, each scope *)
(* is closed at the height it was opened, and all paths to a label agree   *)
(* on the stack.                                                           *)
THEOREM EmissionAccounted == ASSUME StraightFeatures PROVE EmitterSpec => []Accounting
<1>1. EmitterInit => Accounting
  BY InitAccounts
<1>2. Accounting /\ [EmitterNext]_emission => Accounting'
  BY NextAccounts
<1> QED  BY <1>1, <1>2, PTL DEF EmitterSpec

(* If besides no argument is widened to a larger slot, the variables lie   *)
(* one below the other with the temporaries beyond them, and every call    *)
(* finds its arguments where the callee looks for them.                    *)
THEOREM EmissionLaidOut == ASSUME AlignedFeatures PROVE EmitterSpec => []LaidOut
<1>1. EmitterInit => LaidOut
  BY InitAccounts, InitLaidOut DEF AlignedFeatures, LaidOut
<1>2. LaidOut /\ [EmitterNext]_emission => LaidOut'
  BY NextLaidOut
<1> QED  BY <1>1, <1>2, PTL DEF EmitterSpec

-----------------------------------------------------------------------------
(***************************************************************************)
(* What the call and the prologue pushed stays clear of the variables and  *)
(* of the stack pointer.                                                   *)
(***************************************************************************)

(* The handlers that commit nothing.                                       *)
LEMMA Uncommitted ==
  ASSUME Sound,
         \/ BeginBinaryStep \/ BinaryRightStep \/ BeginCallStep \/ BeginArgumentStep
         \/ EndArgumentStep \/ BeginAssignStep \/ EndAssignStep \/ BeginCastStep
         \/ DeclareOnlyStep \/ BeginDeclarationStep \/ BeginDiscardStep \/ BeginIfStep
         \/ BeginForStep \/ ForConditionStep \/ ForStepStep \/ BeginReturnStep
         \/ BeginBlockStep \/ NextStatementStep
  PROVE  stack'.committed = stack.committed
<1>1. stack \in Stacks /\ Len(stack.scopes) >= 1
  BY DEF Sound, TypeOK
<1>2. /\ PushScope(stack).committed = stack.committed
      /\ \A n : /\ PushStack(stack, n).committed = stack.committed
                /\ AllocateStack(stack, n).committed = stack.committed
  BY <1>1, StackFields
<1>3. CASE \/ BeginBinaryStep \/ BinaryRightStep \/ BeginArgumentStep
           \/ EndArgumentStep \/ BeginAssignStep \/ EndAssignStep \/ BeginCastStep
           \/ BeginDiscardStep \/ BeginIfStep
           \/ ForConditionStep \/ ForStepStep \/ BeginReturnStep \/ NextStatementStep
  BY <1>3 DEF BeginBinaryStep, BinaryRightStep, BeginArgumentStep, EndArgumentStep,
              BeginAssignStep, EndAssignStep, BeginCastStep, BeginDiscardStep, BeginIfStep,
              ForConditionStep, ForStepStep, BeginReturnStep, NextStatementStep, Goes, Returns
<1>4. CASE BeginCallStep
  BY <1>2, <1>4 DEF BeginCallStep, Goes
<1>5. CASE DeclareOnlyStep \/ BeginDeclarationStep
  BY <1>2, <1>5 DEF DeclareOnlyStep, BeginDeclarationStep, Goes, Returns
<1>6. CASE BeginForStep \/ BeginBlockStep
  BY <1>2, <1>6 DEF BeginForStep, BeginBlockStep, Goes
<1> QED  BY <1>3, <1>4, <1>5, <1>6

(* Those that leave a value.                                               *)
LEMMA ValuesAboveGap ==
  ASSUME LaidOut, stack.committed >= 0,
         \/ PushStep \/ EndBinaryStep \/ EndCallStep \/ BeginMemberStep \/ EndMemberStep \/ EndCastStep
  PROVE  stack'.committed >= 0
<1>1. CASE PushStep \/ BeginMemberStep
  <2> DEFINE c == Pushed(stack, Top.type)
  <2>1. Entering({"expression"}) /\ stack' = c
    BY <1>1 DEF PushStep, BeginMemberStep, Yields, Returns, Goes
  <2>2. /\ Innermost(stack) \in Int /\ Innermost(stack) >= 0 /\ Innermost(stack) <= Top.at
        /\ Top.at \in Int /\ Slot[Top.type] \in Nat /\ c.committed = Top.at + Slot[Top.type]
    BY <2>1, PushHeights
  <2> HIDE DEF c
  <2> QED  BY <2>1, <2>2
<1>2. CASE EndBinaryStep
  <2> DEFINE c == Pushed(PopStack(PopStack(stack, Slot[Top.right]), Slot[Top.left]), Top.type)
  <2>1. At("binary", "right") /\ stack' = c
    BY <1>2 DEF EndBinaryStep, Yields, Returns
  <2>2. /\ Innermost(stack) \in Int /\ Innermost(stack) >= 0 /\ Innermost(stack) <= Top.at
        /\ Top.at \in Int /\ Slot[Top.type] \in Nat /\ c.committed = Top.at + Slot[Top.type]
    BY <2>1, BinaryHeights
  <2> HIDE DEF c
  <2> QED  BY <2>1, <2>2
<1>3. CASE EndCastStep
  <2> DEFINE c == Pushed(PopStack(stack, Slot[Top.left]), Top.type)
  <2>1. At("cast", "value") /\ (stack' = c \/ stack' = stack)
    BY <1>3 DEF EndCastStep, Yields, Returns
  <2>2. /\ Innermost(stack) \in Int /\ Innermost(stack) >= 0 /\ Innermost(stack) <= Top.at
        /\ Top.at \in Int /\ Slot[Top.type] \in Nat /\ c.committed = Top.at + Slot[Top.type]
    BY <2>1, CastHeights
  <2> HIDE DEF c
  <2> QED  BY <2>1, <2>2
<1>4. CASE EndMemberStep
  <2> DEFINE c == Popped(stack, String)
             n == Slot[Top.type]
             m == Slot[String]
  <2>1. At("member", "string") /\ stack' = c
    BY <1>4 DEF EndMemberStep, Returns
  <2>2. /\ Innermost(stack) \in Int /\ Innermost(stack) >= 0 /\ Innermost(stack) <= Top.at
        /\ Top.at \in Int /\ n \in Nat /\ m \in Nat /\ m \in Int
        /\ result = (Top.at + n) + m /\ stack \in ScopedStacks
    BY <2>1, MemberHeights, Sizes
  <2>3. result = stack.allocated
    <3>1. Running /\ AwaitsExpression(Top)
      BY <2>1 DEF At, AwaitsExpression
    <3> QED  BY <3>1, ResultHeights
  <2>4. CommitStack(PopStack(stack, m)).committed = stack.allocated - m
    BY <2>2, CommittedPop
  <2>5. c.committed = stack.allocated - m
    BY <2>4 DEF Popped
  <2> HIDE DEF c, n, m
  <2> QED  BY <2>1, <2>2, <2>3, <2>5
<1>5. CASE EndCallStep
  <2> DEFINE c == CommitStack(PopStack(stack, Top.argsize))
  <2>1. Running /\ Top.kind = "call" /\ Top.step = "arguments" /\ stack' = c
    BY <1>5 DEF EndCallStep, Returns, At
  <2>2. /\ IsExpression(Top) /\ Top.at \in Int /\ Slot[Top.type] \in Int /\ Top.argsize \in Int
    BY <2>1, ExpressionNodes DEF LaidOut
  <2>3. /\ Innermost(stack) \in Int /\ Innermost(stack) >= 0 /\ Innermost(stack) <= Top.at
        /\ stack \in ScopedStacks /\ Slot[Top.type] \in Nat
    BY <2>1, <2>2, ValuesBeyondVariables
  <2>4. stack.allocated = Top.at + (Slot[Top.type] + Top.argsize)
    <3>1. Held(Top) = Slot[Top.type] + Top.argsize
      BY <2>1 DEF Held
    <3>2. stack.allocated = Top.at + Held(Top)
      BY <2>1, Accounts DEF TopDiscipline, AwaitsExpression, LaidOut
    <3> QED  BY <3>1, <3>2
  <2>5. c.committed = stack.allocated - Top.argsize
    BY <2>2, <2>3, CommittedPop
  <2> HIDE DEF c
  <2> QED  BY <2>1, <2>2, <2>3, <2>4, <2>5
<1> QED  BY <1>1, <1>2, <1>3, <1>4, <1>5

(* Those that drop one.                                                    *)
LEMMA DropsAboveGap ==
  ASSUME LaidOut,
         \/ EndDeclarationStep \/ EndDiscardStep \/ EndReturnStep \/ IfThenStep \/ ForBodyStep
  PROVE  stack'.committed >= 0
<1> DEFINE c == CommitStack(PopStack(stack, Slot[Awaited(Top)]))
<1>1. /\ Running /\ AwaitsExpression(Top) /\ ~IsExpression(Top)
      /\ Popped(stack, Awaited(Top)) = c
      /\ stack' = Popped(stack, Awaited(Top)) \/ stack' = PushScope(Popped(stack, Awaited(Top)))
  <2>1. /\ Running
        /\ \/ Top.kind \in {"declaration", "discard", "return"} /\ Awaited(Top) = Top.left
              /\ stack' = Popped(stack, Top.left)
           \/ Top.kind \in {"if", "for"} /\ Awaited(Top) = Bool
              /\ (stack' = Popped(stack, Bool) \/ stack' = PushScope(Popped(stack, Bool)))
        /\ AwaitsExpression(Top)
    BY DEF EndDeclarationStep, EndDiscardStep, EndReturnStep, IfThenStep, ForBodyStep,
           Returns, Goes, At, Awaited, AwaitsExpression
  <2>2. ~IsExpression(Top)
    <3>1. InControl(Top)
      BY <2>1, Accounts DEF LaidOut
    <3> QED  BY <2>1, <3>1 DEF InControl, KindsOf, IsExpression
  <2> QED  BY <2>1, <2>2 DEF Popped
<1>2. /\ c \in ScopedStacks /\ c.committed = Innermost(stack)
      /\ Innermost(stack) \in Int /\ Innermost(stack) >= 0
  BY <1>1, ValueDropped, Offsets DEF LaidOut
<1>3. PushScope(c).committed = c.committed
  BY <1>2, ScopePushed
<1> HIDE DEF c
<1> QED  BY <1>1, <1>2, <1>3

(* Those that leave a scope.                                               *)
LEMMA ScopesAboveGap ==
  ASSUME LaidOut, stack.committed >= 0,
         EndIfStep \/ EndBlockStep \/ EndForStep \/ EndFunctionStep
  PROVE  stack'.committed >= 0
<1>1. Running
  BY DEF EndIfStep, EndBlockStep, EndForStep, EndFunctionStep, At
<1>2. /\ stack \in ScopedStacks /\ Len(stack.scopes) \in Nat \ {0}
      /\ \A k \in 1 .. Len(stack.scopes) : stack.scopes[k] \in Int /\ stack.scopes[k] >= 0
  BY <1>1, Offsets
<1>3. ASSUME NEW s \in ScopedStacks, CanPopScope(s), s.scopes = stack.scopes
      PROVE  CommitStack(PopScope(s)).committed >= 0
  <2>1. /\ Len(s.scopes) - 1 \in Nat \ {0}
        /\ CommitStack(PopScope(s)).committed = s.scopes[Len(s.scopes) - 1]
    BY <1>3, CommittedPopScope
  <2>2. Len(stack.scopes) - 1 \in 1 .. Len(stack.scopes)
    <3>1. Len(stack.scopes) \in Nat /\ Len(stack.scopes) - 1 \in Nat \ {0}
      BY <1>2, <1>3, <2>1
    <3>2. \A n \in Nat : n - 1 \in Nat \ {0} => n - 1 \in 1 .. n
      OBVIOUS
    <3> QED  BY <3>1, <3>2
  <2> QED  BY <1>2, <1>3, <2>1, <2>2
<1>4. CASE EndIfStep \/ EndBlockStep
  <2>1. CanPopScope(stack) /\ stack' = CommitStack(PopScope(stack))
    BY <1>4 DEF EndIfStep, EndBlockStep, Returns
  <2> QED  BY <1>2, <1>3, <2>1
<1>5. CASE EndForStep
  <2> DEFINE c == Popped(stack, Top.left)
  <2>1. At("for", "step") /\ CanPopScope(c) /\ stack' = CommitStack(PopScope(c))
    BY <1>5 DEF EndForStep, Returns
  <2>2. c \in ScopedStacks /\ c.scopes = stack.scopes
    <3>1. Slot[Top.left] \in Int
      BY <1>1, HandlerStacks, Sizes DEF LaidOut, Accounting
    <3> QED  BY <1>2, <3>1, CommittedPop DEF Popped
  <2> HIDE DEF c
  <2> QED  BY <1>3, <2>1, <2>2
<1>6. CASE EndFunctionStep
  <2>1. CanPopScope(stack) /\ (stack' = CommitStack(PopScope(stack)) \/ stack' = PopScope(stack))
    BY <1>6 DEF EndFunctionStep, Returns
  <2>2. PopScope(stack).committed = stack.committed
    BY <1>2, StackFields DEF ScopedStacks
  <2> QED  BY <1>2, <1>3, <2>1, <2>2
<1> QED  BY <1>4, <1>5, <1>6

(* What happens to the names: some end, or one is declared beyond the      *)
(* variables.                                                              *)
LEMMA NamesMove ==
  ASSUME LaidOut, EmitterNext
  PROVE  \/ locals' = locals
         \/ \E n \in 0 .. Len(locals) : locals' = SubSeq(locals, 1, n)
         \/ \E v \in Locals :
              /\ locals' = Append(locals, v) /\ v.type \in ValueTypes
              /\ 0 <= v.offset - Slot[v.type]
<1>0. Sound
  BY DEF LaidOut, Accounting
<1>1. CASE \/ ExpressionStep \/ BeginDeclarationStep \/ BeginDiscardStep \/ EndDiscardStep
           \/ BeginIfStep \/ IfThenStep \/ BeginForStep \/ ForConditionStep \/ ForBodyStep
           \/ BeginReturnStep \/ EndReturnStep \/ BeginBlockStep \/ NextStatementStep
  <2>1. locals' = locals
    BY <1>1, Zenon
       DEF ExpressionStep, PushStep, BeginBinaryStep, BinaryRightStep, EndBinaryStep,
           BeginCallStep, BeginArgumentStep, EndArgumentStep, EndCallStep, BeginAssignStep,
           EndAssignStep, BeginMemberStep, EndMemberStep, BeginCastStep, EndCastStep,
           BeginDeclarationStep, BeginDiscardStep, EndDiscardStep, BeginIfStep, IfThenStep,
           BeginForStep, ForConditionStep, ForBodyStep, BeginReturnStep, EndReturnStep,
           BeginBlockStep, NextStatementStep, Yields, Returns, Goes
  <2> QED  BY <2>1
<1>2. CASE EndIfStep \/ EndForStep \/ EndBlockStep
  <2>1. Running /\ locals' = SubSeq(locals, 1, Top.visible)
    BY <1>2 DEF EndIfStep, EndForStep, EndBlockStep, Returns, Outer, At
  <2>2. Top.visible \in 0 .. Len(locals)
    BY <1>0, <2>1, Context
  <2> QED  BY <2>1, <2>2
<1>3. CASE ForStepStep
  <2>1. Running /\ Top.kind = "for" /\ Top.step = "body" /\ locals' = SubSeq(locals, 1, Top.visible + 1)
    BY <1>3 DEF ForStepStep, At
  <2>2. Names(Top) = Top.visible + 1
    BY <2>1 DEF Names
  <2>3. Top.visible + 1 \in 0 .. Len(locals)
    BY <1>0, <2>1, <2>2, Context
  <2> QED  BY <2>1, <2>3
<1>4. CASE EndFunctionStep
  <2>1. PICK n \in 0 .. Top.visible : Running /\ locals' = SubSeq(locals, 1, n)
    BY <1>4 DEF EndFunctionStep, Returns, At
  <2>2. Top.visible \in Nat /\ Top.visible <= Len(locals) /\ Len(locals) \in Nat
    BY <1>0, <2>1, Context
  <2>3. n \in 0 .. Len(locals)
    BY <2>1, <2>2
  <2> QED  BY <2>1, <2>3
<1>5. CASE DeclareOnlyStep
  <2>1. PICK t \in ValueTypes :
          /\ Running /\ EnteredStatement /\ CanAllocateStack(stack)
          /\ locals' = Append(locals, [type |-> t, offset |-> AllocateStack(stack, Slot[t]).allocated])
    BY <1>5 DEF DeclareOnlyStep, Returns, Declared, Entering, EnteredStatement, IsExpression
  <2>2. /\ stack \in ScopedStacks /\ stack.allocated = Innermost(stack)
        /\ Innermost(stack) \in Int /\ Innermost(stack) >= 0
    BY <2>1, Offsets, EntersStatement DEF LaidOut
  <2>3. Slot[t] \in Nat /\ Slot[t] \in Int /\ t \in Types
    BY Sizes
  <2>4. AllocateStack(stack, Slot[t]).allocated = Innermost(stack) + Slot[t]
    BY <2>1, <2>2, <2>3, Allocated
  <2>5. 0 <= (Innermost(stack) + Slot[t]) - Slot[t] /\ Innermost(stack) + Slot[t] \in Int
    BY <2>2, <2>3
  <2> DEFINE v == [type |-> t, offset |-> Innermost(stack) + Slot[t]]
  <2>6. v \in Locals /\ v.type = t /\ v.offset = Innermost(stack) + Slot[t]
    BY <2>3, <2>5 DEF Locals
  <2>7. locals' = Append(locals, v)
    BY <2>1, <2>4
  <2> HIDE DEF v
  <2> QED  BY <2>5, <2>6, <2>7
<1>6. CASE EndDeclarationStep
  <2> DEFINE v == [type |-> Top.type, offset |-> Top.slot]
  <2>1. At("declaration", "initializer") /\ locals' = Append(locals, v)
    BY <1>6 DEF EndDeclarationStep, Returns
  <2>2. /\ Top.type \in ValueTypes /\ Top.at \in Int /\ Top.at >= 0 /\ Slot[Top.type] \in Nat
        /\ Top.slot = Top.at + Slot[Top.type]
    BY <2>1, DeclarationHeights
  <2>3. Top.slot \in Int /\ 0 <= Top.slot - Slot[Top.type] /\ Top.type \in Types
    BY <2>2, Sizes
  <2>4. v \in Locals
    BY <2>3 DEF Locals
  <2> QED  BY <2>1, <2>2, <2>3, <2>4
<1> QED  BY <1>1, <1>2, <1>3, <1>4, <1>5, <1>6 DEF EmitterNext, StatementStep

LEMMA NamesStayClear ==
  ASSUME LaidOut, NamesClearGap, EmitterNext PROVE NamesClearGap'
<1>1. locals \in Seq(Locals) /\ Len(locals) \in Nat
  BY DEF LaidOut, Accounting, Sound, TypeOK, Locals
<1>2. CASE locals' = locals
  BY <1>2 DEF NamesClearGap
<1>3. ASSUME NEW n \in 0 .. Len(locals), locals' = SubSeq(locals, 1, n) PROVE NamesClearGap'
  <2>1. Len(locals') = n /\ \A k \in 1 .. n : locals'[k] = locals[k]
    <3> HIDE DEF Locals
    <3> QED  BY <1>1, <1>3, Prefix
  <2> QED  BY <1>1, <2>1 DEF NamesClearGap
<1>4. ASSUME NEW v \in Locals, locals' = Append(locals, v), 0 <= v.offset - Slot[v.type]
      PROVE  NamesClearGap'
  <2>1. /\ Len(locals') = Len(locals) + 1 /\ locals'[Len(locals) + 1] = v
        /\ \A k \in 1 .. Len(locals) : locals'[k] = locals[k]
    <3> HIDE DEF Locals
    <3> QED  BY <1>1, <1>4, AppendProperties
  <2>2. \A k \in 1 .. Len(locals) + 1 : k = Len(locals) + 1 \/ k \in 1 .. Len(locals)
    BY <1>1
  <2> QED  BY <1>4, <2>1, <2>2 DEF NamesClearGap
<1> QED  BY <1>2, <1>3, <1>4, NamesMove

LEMMA InitClearsGap ==
  ASSUME EmitterInit PROVE ClearsGap
<1>1. stack.committed = 0
  BY DEF EmitterInit, PushScope, FreshStack
<1>2. /\ signature.params \in Seq(ValueTypes) /\ Len(signature.params) \in Nat
      /\ locals = [i \in 1 .. Len(signature.params) |->
           [type |-> signature.params[i], offset |-> ParameterAt(Slot, Gap, signature, i)]]
  BY SignatureTypes DEF EmitterInit
<1>3. ASSUME NEW k \in 1 .. Len(locals) PROVE locals[k].offset <= -Gap
  <2>1. k \in 1 .. Len(signature.params) /\ Len(signature.params) - k \in 0 .. Len(signature.params)
    BY <1>2
  <2>2. BytesOfLast(Slot, Len(signature.params) - k, signature.params) \in Nat
    BY <1>2, <2>1, BytesOfLastType
  <2>3. locals[k].offset = -Gap - BytesOfLast(Slot, Len(signature.params) - k, signature.params)
    BY <1>2, <2>1 DEF ParameterAt
  <2> QED  BY <2>2, <2>3, SlotAssumption
<1> QED  BY <1>1, <1>3 DEF ClearsGap, NamesClearGap

LEMMA NextClearsGap ==
  ASSUME LaidOut, ClearsGap, [EmitterNext]_emission PROVE ClearsGap'
<1>1. stack.committed >= 0 /\ NamesClearGap /\ Sound /\ stack.committed \in Int
  BY StackHeights DEF ClearsGap, LaidOut, Accounting, Sound, TypeOK, ScopedStacks
<1>2. CASE EmitterNext
  <2>1. NamesClearGap'
    BY <1>1, <1>2, NamesStayClear
  <2>2. CASE ExpressionStep
    BY <1>1, <2>1, <2>2, Uncommitted, ValuesAboveGap, Zenon DEF ExpressionStep, ClearsGap
  <2>3. CASE StatementStep
    BY <1>1, <2>1, <2>3, Uncommitted, DropsAboveGap, ScopesAboveGap, Zenon
       DEF StatementStep, ClearsGap
  <2> QED  BY <1>2, <2>2, <2>3 DEF EmitterNext
<1>3. CASE UNCHANGED emission
  BY <1>1, <1>3 DEF emission, ClearsGap, NamesClearGap
<1> QED  BY <1>2, <1>3

(* In the same programs no variable and no stack pointer ever lies over    *)
(* what the call and the prologue pushed.                                  *)
THEOREM EmissionClearsGap == ASSUME AlignedFeatures PROVE EmitterSpec => []ClearsGap
<1>1. EmitterInit => ClearsGap
  BY InitClearsGap
<1>2. LaidOut /\ ClearsGap /\ [EmitterNext]_emission => ClearsGap'
  BY NextClearsGap
<1> QED  BY <1>1, <1>2, EmissionLaidOut, PTL DEF EmitterSpec

-----------------------------------------------------------------------------
(* The types of operands.                                                  *)
LEMMA FramesTyped ==
  ASSUME Sound, Running, Typed, NEW f, OperatesOnValues(f), NEW g, OperatesOnValues(g),
         frames' = Becoming(f) \/ frames' = Calling(f, g) \/ frames' = Returning
  PROVE  Typed'
<1> DEFINE S == Activations \cup {f, g}
<1> HIDE DEF Activations
<1>1. /\ frames \in Seq(S) /\ f \in S /\ g \in S
      /\ Len(frames) \in 1 .. Len(frames) /\ Len(frames) \in Nat
  BY FrameTypes DEF Sound, TypeOK
<1> HIDE DEF S
<1>2. /\ Becoming(f) \in Seq(S) /\ Len(Becoming(f)) = Len(frames)
      /\ \A j \in 1 .. Len(frames) : Becoming(f)[j] = IF j = Len(frames) THEN f ELSE frames[j]
  BY <1>1, ExceptSeq DEF Becoming
<1>3. CASE frames' = Becoming(f)
  BY <1>1, <1>2, <1>3 DEF Typed
<1>4. CASE frames' = Calling(f, g)
  <2>1. /\ Len(Calling(f, g)) = Len(frames) + 1
        /\ \A j \in 1 .. Len(frames) : Calling(f, g)[j] = Becoming(f)[j]
        /\ Calling(f, g)[Len(frames) + 1] = g
    BY <1>1, <1>2, AppendProperties DEF Calling
  <2>2. \A i \in 1 .. Len(frames) + 1 : i \in 1 .. Len(frames) \/ i = Len(frames) + 1
    BY <1>1
  <2> QED  BY <1>2, <1>4, <2>1, <2>2 DEF Typed
<1>5. CASE frames' = Returning
  <2>1. Len(frames) - 1 \in 0 .. Len(frames) /\ 1 .. Len(frames) - 1 \subseteq 1 .. Len(frames)
    BY <1>1
  <2>2. /\ Len(Returning) = Len(frames) - 1
        /\ \A i \in 1 .. Len(frames) - 1 : Returning[i] = frames[i]
    BY <1>1, <2>1, Prefix DEF Returning
  <2> QED  BY <1>5, <2>1, <2>2 DEF Typed
<1> QED  BY <1>3, <1>4, <1>5

LEMMA ActivationTyped ==
  \A routine, t, s, visible : OperatesOnValues(Activation(routine, t, s, visible))
BY DEF OperatesOnValues, Activation

(* The handlers that choose the types.                                     *)
LEMMA ChoicesTyped ==
  ASSUME Sound, Typed, BeginBinaryStep \/ BeginAssignStep \/ BeginCastStep
  PROVE  Typed'
<1>1. Running /\ Top \in Activations
  BY Context DEF BeginBinaryStep, BeginAssignStep, BeginCastStep, Entering
<1>2. CASE BeginBinaryStep
  <2>1. PICK l, r \in ValueTypes :
          /\ Operands(l, r, Top.type)
          /\ frames' = Calling([Top EXCEPT !.kind = "binary", !.step = "left",
                                           !.left = l, !.right = r], Expression(l, stack))
    BY <1>2 DEF BeginBinaryStep, Goes
  <2>2. Top.type \in ValueTypes
    BY <2>1, TypesAssumption DEF Operands, ValueTypes
  <2>3. OperatesOnValues([Top EXCEPT !.kind = "binary", !.step = "left", !.left = l, !.right = r])
    BY <1>1, <2>1, <2>2 DEF OperatesOnValues, Activations
  <2> HIDE DEF Activations
  <2> QED  BY <1>1, <2>1, <2>3, ActivationTyped, FramesTyped DEF Expression
<1>3. CASE BeginAssignStep
  <2>1. PICK local \in Targets(Top.type), t \in Accepted(Top.type, "widening_assignment") :
          frames' = Calling([Top EXCEPT !.kind = "assign", !.step = "value",
                                        !.slot = local.offset, !.left = t],
                            Expression(t, stack))
    BY <1>3 DEF BeginAssignStep, Goes
  <2>2. t \in ValueTypes
    BY <2>1 DEF Accepted
  <2>3. OperatesOnValues([Top EXCEPT !.kind = "assign", !.step = "value",
                                     !.slot = local.offset, !.left = t])
    BY <1>1, <2>2 DEF OperatesOnValues, Activations
  <2> HIDE DEF Activations
  <2> QED  BY <1>1, <2>1, <2>3, ActivationTyped, FramesTyped DEF Expression
<1>4. CASE BeginCastStep
  <2>1. PICK from \in IntegerTypes :
          frames' = Calling([Top EXCEPT !.kind = "cast", !.step = "value", !.left = from],
                            Expression(from, stack))
    BY <1>4 DEF BeginCastStep, Goes
  <2>2. from \in ValueTypes /\ Top.type \in ValueTypes
    BY <1>4, <2>1, TypesAssumption DEF BeginCastStep
  <2>3. OperatesOnValues([Top EXCEPT !.kind = "cast", !.step = "value", !.left = from])
    BY <1>1, <2>2 DEF OperatesOnValues, Activations
  <2> HIDE DEF Activations
  <2> QED  BY <1>1, <2>1, <2>3, ActivationTyped, FramesTyped DEF Expression
<1> QED  BY <1>2, <1>3, <1>4

(* The others do not touch them.                                           *)
LEMMA OthersTyped ==
  ASSUME Sound, Typed,
         \/ PushStep \/ BinaryRightStep \/ EndBinaryStep
         \/ BeginCallStep \/ BeginArgumentStep \/ EndArgumentStep \/ EndCallStep
         \/ EndAssignStep \/ BeginMemberStep \/ EndMemberStep \/ EndCastStep
         \/ StatementStep
  PROVE  Typed'
<1>1. Running /\ Top \in Activations
  BY Context, Zenon
     DEF PushStep, BinaryRightStep, EndBinaryStep, BeginCallStep, BeginArgumentStep,
         EndArgumentStep, EndCallStep, EndAssignStep, BeginMemberStep, EndMemberStep, EndCastStep,
         StatementStep, DeclareOnlyStep, BeginDeclarationStep, EndDeclarationStep,
         BeginDiscardStep, EndDiscardStep, BeginIfStep, IfThenStep, EndIfStep, BeginForStep,
         ForConditionStep, ForBodyStep, ForStepStep, EndForStep, BeginReturnStep, EndReturnStep,
         BeginBlockStep, NextStatementStep, EndBlockStep, EndFunctionStep, Entering, At
<1>2. OperatesOnValues(Top)
  <2>1. Len(frames) \in 1 .. Len(frames) /\ Top = frames[Len(frames)]
    BY <1>1, FrameTypes DEF Sound, TypeOK
  <2> QED  BY <2>1 DEF Typed
<1>3. SUFFICES \E f, g : /\ OperatesOnValues(f) /\ OperatesOnValues(g)
                         /\ \/ frames' = Becoming(f) \/ frames' = Calling(f, g)
                            \/ frames' = Returning
  <2> HIDE DEF Activations
  <2> QED  BY <1>1, FramesTyped
<1> DEFINE Untouched(f) == \/ f.kind \notin {"binary", "assign", "cast"}
                           \/ f.kind = Top.kind /\ f.left = Top.left
                              /\ f.type = Top.type /\ f.right = Top.right
<1>4. ASSUME NEW f, Untouched(f) PROVE OperatesOnValues(f)
  BY <1>2, <1>4 DEF OperatesOnValues
<1>5. CASE \/ PushStep \/ EndBinaryStep \/ EndCallStep \/ EndAssignStep \/ EndMemberStep
           \/ EndCastStep \/ DeclareOnlyStep \/ EndDeclarationStep \/ EndDiscardStep \/ EndIfStep
           \/ EndForStep \/ EndReturnStep \/ EndBlockStep \/ EndFunctionStep
  <2>1. frames' = Returning
    BY <1>5, Zenon
       DEF PushStep, EndBinaryStep, EndCallStep, EndAssignStep, EndMemberStep, EndCastStep,
           DeclareOnlyStep, EndDeclarationStep, EndDiscardStep, EndIfStep, EndForStep,
           EndReturnStep, EndBlockStep, EndFunctionStep, Yields, Returns
  <2> QED  BY <1>2, <2>1
<1>6. CASE BeginCallStep \/ EndArgumentStep \/ BeginBlockStep
  <2>1. \E f : frames' = Becoming(f) /\ Untouched(f)
    <3>1. CASE BeginCallStep
      <4>1. PICK callee, o : frames' = Becoming([Top EXCEPT !.kind = "call", !.step = "arguments",
                             !.slot = o, !.callee = callee])
        BY <3>1 DEF BeginCallStep, Goes
      <4>2. Untouched([Top EXCEPT !.kind = "call", !.step = "arguments",
                             !.slot = o, !.callee = callee])
        BY <1>1, <3>1 DEF BeginCallStep, At, Activations
      <4> HIDE DEF Untouched
      <4> QED  BY <4>1, <4>2
    <3>2. CASE EndArgumentStep
      <4>1. frames' = Becoming([Top EXCEPT
                             !.step = "arguments",
                             !.args = Append(@, [offset |-> result, size |-> Slot[Top.left]]),
                             !.argsize = @ + Slot[Top.left]])
        BY <3>2 DEF EndArgumentStep, Goes
      <4>2. Untouched([Top EXCEPT
                             !.step = "arguments",
                             !.args = Append(@, [offset |-> result, size |-> Slot[Top.left]]),
                             !.argsize = @ + Slot[Top.left]])
        BY <1>1, <3>2 DEF EndArgumentStep, At, Activations
      <4> HIDE DEF Untouched
      <4> QED  BY <4>1, <4>2
    <3>3. CASE BeginBlockStep
      <4>1. frames' = Becoming([Top EXCEPT !.kind = "block", !.step = "statements"])
        BY <3>3 DEF BeginBlockStep, Goes
      <4>2. Untouched([Top EXCEPT !.kind = "block", !.step = "statements"])
        BY <1>1, <3>3 DEF BeginBlockStep, At, Activations
      <4> HIDE DEF Untouched
      <4> QED  BY <4>1, <4>2
    <3> QED  BY <1>6, <3>1, <3>2, <3>3
  <2> HIDE DEF Untouched
  <2> QED  BY <1>4, <2>1
<1>7. CASE \/ BinaryRightStep \/ BeginArgumentStep \/ BeginMemberStep \/ BeginDeclarationStep
           \/ BeginDiscardStep \/ BeginIfStep \/ IfThenStep \/ BeginForStep \/ ForConditionStep
           \/ ForBodyStep \/ ForStepStep \/ BeginReturnStep \/ NextStatementStep
  <2>1. \E f, routine, t, s, visible :
          frames' = Calling(f, Activation(routine, t, s, visible)) /\ Untouched(f)
    <3> USE <1>1 DEF Goes, At, Expression, Statement, LoopDeclaration, LoopBody
    <3>1. CASE BinaryRightStep
      <4>1. frames' = Calling([Top EXCEPT !.step = "right", !.slot = result],
                                Activation("expression", Top.right, stack, Len(locals)))
        BY <3>1 DEF BinaryRightStep
      <4>2. Untouched([Top EXCEPT !.step = "right", !.slot = result])
        BY <3>1 DEF BinaryRightStep, Activations
      <4> HIDE DEF Untouched
      <4> QED  BY <4>1, <4>2
    <3>2. CASE BeginArgumentStep
      <4>1. PICK t : frames' = Calling([Top EXCEPT !.step = "argument", !.left = t],
                                       Activation("expression", t, stack, Len(locals)))
        BY <3>2 DEF BeginArgumentStep
      <4>2. Untouched([Top EXCEPT !.step = "argument", !.left = t])
        BY <3>2 DEF BeginArgumentStep, Activations
      <4> HIDE DEF Untouched
      <4> QED  BY <4>1, <4>2
    <3>3. CASE BeginMemberStep
      <4>1. frames' = Calling([Top EXCEPT !.kind = "member", !.step = "string",
                             !.slot = Pushed(stack, Top.type).allocated],
                                Activation("expression", String, Pushed(stack, Top.type), Len(locals)))
        BY <3>3 DEF BeginMemberStep
      <4>2. Untouched([Top EXCEPT !.kind = "member", !.step = "string",
                             !.slot = Pushed(stack, Top.type).allocated])
        BY <3>3 DEF BeginMemberStep, Activations
      <4> HIDE DEF Untouched
      <4> QED  BY <4>1, <4>2
    <3>4. CASE BeginDeclarationStep
      <4>1. PICK o, t, initializer, s : frames' = Calling([Top EXCEPT !.kind = "declaration", !.step = "initializer",
                             !.type = t, !.left = initializer, !.slot = o],
                                Activation("expression", initializer, s, Len(locals)))
        BY <3>4 DEF BeginDeclarationStep
      <4>2. Untouched([Top EXCEPT !.kind = "declaration", !.step = "initializer",
                             !.type = t, !.left = initializer, !.slot = o])
        BY <3>4 DEF BeginDeclarationStep, Activations
      <4> HIDE DEF Untouched
      <4> QED  BY <4>1, <4>2
    <3>5. CASE BeginDiscardStep
      <4>1. PICK t : frames' = Calling([Top EXCEPT !.kind = "discard", !.step = "value", !.left = t],
                                Activation("expression", t, stack, Len(locals)))
        BY <3>5 DEF BeginDiscardStep
      <4>2. Untouched([Top EXCEPT !.kind = "discard", !.step = "value", !.left = t])
        BY <3>5 DEF BeginDiscardStep, Activations
      <4> HIDE DEF Untouched
      <4> QED  BY <4>1, <4>2
    <3>6. CASE BeginIfStep
      <4>1. frames' = Calling([Top EXCEPT !.kind = "if", !.step = "condition"],
                                Activation("expression", Bool, stack, Len(locals)))
        BY <3>6 DEF BeginIfStep
      <4>2. Untouched([Top EXCEPT !.kind = "if", !.step = "condition"])
        BY <3>6 DEF BeginIfStep, Activations
      <4> HIDE DEF Untouched
      <4> QED  BY <4>1, <4>2
    <3>7. CASE IfThenStep
      <4>1. frames' = Calling([Top EXCEPT !.step = "then", !.patch = Len(text')],
                                Activation("statement", Void, PushScope(Popped(stack, Bool)), Len(locals)))
        BY <3>7 DEF IfThenStep
      <4>2. Untouched([Top EXCEPT !.step = "then", !.patch = Len(text')])
        BY <3>7 DEF IfThenStep, Activations
      <4> HIDE DEF Untouched
      <4> QED  BY <4>1, <4>2
    <3>8. CASE BeginForStep
      <4>1. frames' = Calling([Top EXCEPT !.kind = "for", !.step = "declaration"],
                                Activation("loop_declaration", Void, PushScope(stack), Len(locals)))
        BY <3>8 DEF BeginForStep
      <4>2. Untouched([Top EXCEPT !.kind = "for", !.step = "declaration"])
        BY <3>8 DEF BeginForStep, Activations
      <4> HIDE DEF Untouched
      <4> QED  BY <4>1, <4>2
    <3>9. CASE ForConditionStep
      <4>1. frames' = Calling([Top EXCEPT !.step = "condition", !.start = Label],
                                Activation("expression", Bool, stack, Len(locals)))
        BY <3>9 DEF ForConditionStep
      <4>2. Untouched([Top EXCEPT !.step = "condition", !.start = Label])
        BY <3>9 DEF ForConditionStep, Activations
      <4> HIDE DEF Untouched
      <4> QED  BY <4>1, <4>2
    <3>10. CASE ForBodyStep
      <4>1. frames' = Calling([Top EXCEPT !.step = "body", !.patch = Len(text')],
                                Activation("loop_body", Void, Popped(stack, Bool), Len(locals)))
        BY <3>10 DEF ForBodyStep
      <4>2. Untouched([Top EXCEPT !.step = "body", !.patch = Len(text')])
        BY <3>10 DEF ForBodyStep, Activations
      <4> HIDE DEF Untouched
      <4> QED  BY <4>1, <4>2
    <3>11. CASE ForStepStep
      <4>1. PICK t : frames' = Calling([Top EXCEPT !.step = "step", !.left = t],
                                       Activation("expression", t, stack, Top.visible + 1))
        BY <3>11 DEF ForStepStep
      <4>2. Untouched([Top EXCEPT !.step = "step", !.left = t])
        BY <3>11 DEF ForStepStep, Activations
      <4> HIDE DEF Untouched
      <4> QED  BY <4>1, <4>2
    <3>12. CASE BeginReturnStep
      <4>1. PICK t : frames' = Calling([Top EXCEPT !.kind = "return", !.step = "value", !.left = t],
                                Activation("expression", t, stack, Len(locals)))
        BY <3>12 DEF BeginReturnStep
      <4>2. Untouched([Top EXCEPT !.kind = "return", !.step = "value", !.left = t])
        BY <3>12 DEF BeginReturnStep, Activations
      <4> HIDE DEF Untouched
      <4> QED  BY <4>1, <4>2
    <3>13. CASE NextStatementStep
      BY <3>13 DEF NextStatementStep
    <3> QED  BY <1>7, <3>1, <3>2, <3>3, <3>4, <3>5, <3>6, <3>7, <3>8, <3>9, <3>10, <3>11, <3>12,
                <3>13
  <2> HIDE DEF Untouched
  <2> QED  BY <1>4, <2>1, ActivationTyped
<1> QED  BY <1>5, <1>6, <1>7 DEF StatementStep

(* No operand, assigned value or cast is of type void.                     *)
THEOREM EmissionTyped == EmitterSpec => []Typed
<1>1. EmitterInit => Typed
  <2> SUFFICES ASSUME EmitterInit PROVE Typed
    OBVIOUS
  <2> DEFINE f == [Activation("function", Void, FreshStack, Len(locals))
                     EXCEPT !.kind = "function", !.step = "statements"]
  <2>1. frames = <<f>>
    BY Zenon DEF EmitterInit
  <2>2. OperatesOnValues(f)
    BY DEF OperatesOnValues, Activation
  <2> HIDE DEF f
  <2> QED  BY <2>1, <2>2 DEF Typed
<1>2. Sound /\ Typed /\ [EmitterNext]_emission => Typed'
  <2> SUFFICES ASSUME Sound, Typed, [EmitterNext]_emission PROVE Typed'
    OBVIOUS
  <2>1. CASE ExpressionStep
    BY <2>1, ChoicesTyped, OthersTyped, Zenon DEF ExpressionStep
  <2>2. CASE StatementStep
    BY <2>2, OthersTyped
  <2>3. CASE UNCHANGED emission
    BY <2>3 DEF emission, Typed
  <2> QED  BY <2>1, <2>2, <2>3 DEF EmitterNext
<1> QED  BY <1>1, <1>2, EmissionSound, PTL DEF EmitterSpec
=============================================================================
