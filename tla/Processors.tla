----------------------------- MODULE Processors -----------------------------
(***************************************************************************)
(* The instructions that the backends encode (x64.c:28-654,                *)
(* arm64.c:51-516), as what they do to a machine: two registers, the stack *)
(* pointer and a memory of bytes.  Both processors are little-endian.      *)
(*                                                                         *)
(* A byte has Radix values instead of 256, so that numbers of 8 bytes fit  *)
(* TLC's integers; everything that counts bytes is as in the code.         *)
(*                                                                         *)
(* Register a is RAX or R0, b is RBX or R1.  What was never written, the   *)
(* registers at first, and the memory below the stack pointer (signal      *)
(* handlers run there) hold garbage.                                       *)
(***************************************************************************)
EXTENDS Integers, Sequences

CONSTANT Radix   \* the number of values of a byte: 256

ASSUME RadixAssumption == Radix \in Nat /\ Radix > 2   \* 1 is a signed byte

Machine(x64, garbage) ==
  [x64 |-> x64, garbage |-> garbage, sp |-> 0, a |-> 0, b |-> 0, memory |-> <<>>]

-----------------------------------------------------------------------------
(* Numbers and bytes.                                                      *)

ByteOf(n, i) == (n \div Radix ^ i) % Radix
Low(n, size) == n % Radix ^ size
AsSigned(n, size) ==
  IF 2 * Low(n, size) >= Radix ^ size THEN Low(n, size) - Radix ^ size ELSE Low(n, size)

(* n with its low bytes replaced by those of v.                            *)
Merged(n, v, size) == n - Low(n, size) + Low(v, size)

ByteAt(m, at) == IF at \in DOMAIN m.memory THEN m.memory[at] ELSE m.garbage

(* The number in size bytes.                                               *)
Fetched(m, at, size) ==
  LET number[i \in 0 .. size] ==
        IF i = 0 THEN 0 ELSE number[i - 1] + ByteAt(m, at + i - 1) * Radix ^ (i - 1)
  IN  number[size]

Placed(m, at, size, n) ==
  LET bytes == at .. at + size - 1
  IN  [m EXCEPT !.memory = [x \in bytes \cup DOMAIN @ |->
                              IF x \in bytes THEN ByteOf(n, x - at) ELSE @[x]]]

(* The machine when the code of a node has run: nothing is expected of its *)
(* registers any more, nor of the memory below its stack pointer.          *)
Settled(m) ==
  LET garbage == m.garbage * ((Radix ^ 8 - 1) \div (Radix - 1))
  IN  [m EXCEPT !.a = garbage, !.b = garbage,
                !.memory = [x \in {at \in DOMAIN @ : at >= m.sp} |-> @[x]]]

(* The conditions of SETcc and CSET for signed numbers.                    *)
Condition(op, l, r) ==
  LET holds == CASE op = "==" -> l = r [] op = "!=" -> l # r
                 [] op = "<" -> l < r [] op = ">" -> l > r
                 [] op = "<=" -> l <= r [] op = ">=" -> l >= r
  IN  IF holds THEN 1 ELSE 0

-----------------------------------------------------------------------------
(* x86-64.  Instructions on 1 and 2 bytes leave the rest of a register     *)
(* alone, those on 4 bytes clear it.                                       *)

X64Result(old, n, size) == IF size < 4 THEN Merged(old, n, size) ELSE Low(n, size)

X64Load(m, r, at, size) == [m EXCEPT ![r] = X64Result(@, Fetched(m, m.sp + at, size), size)]

X64Add(m, op, size) ==
  [m EXCEPT !.a = X64Result(@, IF op = "+" THEN @ + m.b ELSE @ - m.b, size)]

(* CMP and SETcc, which stores the boolean.                                *)
X64Compare(m, op, size, at) ==
  LET l == AsSigned(m.a, size)
      r == AsSigned(m.b, size)
  IN  Placed(m, m.sp + at, 1, Condition(op, l, r))

(* MOV of an unsigned or a sign-extended immediate of 4 bytes; others are  *)
(* not implemented.                                                        *)
X64CanLiteral(n) == n >= -(Radix ^ 4 \div 2) /\ n < Radix ^ 4
X64Literal(m, n) == [m EXCEPT !.a = Low(n, 8)]

(* ADD and SUB of an immediate, of one byte if it is at most 0xFF, which   *)
(* the processor sign-extends.                                             *)
X64Immediate(n) == IF n \in 128 .. 255 THEN n - 256 ELSE n
X64MoveSp(m, n) ==
  [m EXCEPT !.sp = IF n < 0 THEN @ - X64Immediate(-n) ELSE @ + X64Immediate(n)]

-----------------------------------------------------------------------------
(* arm64.  Loads clear the rest of a register; sums and comparisons of     *)
(* less than 8 bytes are those of 4 bytes, with the low bytes of b         *)
(* extended by zeros.                                                      *)

Arm64Width(size) == IF size = 8 THEN 8 ELSE 4

Arm64Load(m, r, at, size) == [m EXCEPT ![r] = Fetched(m, m.sp + at, size)]

Arm64Add(m, op, size) ==
  [m EXCEPT !.a = Low(IF op = "+" THEN @ + Low(m.b, size) ELSE @ - Low(m.b, size),
                      Arm64Width(size))]

(* CMP, CSET and the store of the boolean.                                 *)
Arm64Compare(m, op, size, at) ==
  LET l == AsSigned(m.a, Arm64Width(size))
      r == AsSigned(Low(m.b, size), Arm64Width(size))
  IN  Placed(m, m.sp + at, 1, Condition(op, l, r))

(* The 16 bits at position i of a literal, and MOVK.                       *)
HalfWord(n, i) == (n \div Radix ^ (2 * i)) % Radix ^ 2
Keep(n, i, half) == n + (half - HalfWord(n, i)) * Radix ^ (2 * i)

(* MOVZ, or MOVN if the first bits are ones, and MOVK of what differs.     *)
Arm64Literal(m, n) ==
  LET value == Low(n, 8)
      ones == Radix ^ 2 - 1
      inverted == value >= ones * Radix ^ 6
      rest == IF inverted THEN ones ELSE 0
      first == IF inverted THEN Radix ^ 8 - 1 - (ones - HalfWord(value, 0))
               ELSE HalfWord(value, 0)
      kept[i \in 0 .. 3] ==
        IF i = 0 THEN first
        ELSE IF HalfWord(value, i) = rest THEN kept[i - 1]
        ELSE Keep(kept[i - 1], i, HalfWord(value, i))
  IN  [m EXCEPT !.a = kept[3]]

Arm64MoveSp(m, n) == [m EXCEPT !.sp = @ + n]

-----------------------------------------------------------------------------
(* What the code of both backends is made of.  Positions count from the    *)
(* stack pointer.                                                          *)

Load(m, r, at, size) == IF m.x64 THEN X64Load(m, r, at, size) ELSE Arm64Load(m, r, at, size)
Store(m, r, at, size) == Placed(m, m.sp + at, size, m[r])

(* From stack to stack, through the registers.                             *)
Copy(m, to, from, size) ==
  IF size = 16
  THEN LET loaded == Load(Load(m, "a", from, 8), "b", from + 8, 8)
       IN  Store(Store(loaded, "a", to, 8), "b", to + 8, 8)
  ELSE Store(Load(m, "a", from, size), "a", to, size)

Add(m, op, size) == IF m.x64 THEN X64Add(m, op, size) ELSE Arm64Add(m, op, size)

Compare(m, op, size, at) ==
  IF m.x64 THEN X64Compare(m, op, size, at) ELSE Arm64Compare(m, op, size, at)

CanLiteral(m, n) == m.x64 => X64CanLiteral(n)
LoadLiteral(m, n) == IF m.x64 THEN X64Literal(m, n) ELSE Arm64Literal(m, n)

MoveSp(m, n) == IF m.x64 THEN X64MoveSp(m, n) ELSE Arm64MoveSp(m, n)
=============================================================================
