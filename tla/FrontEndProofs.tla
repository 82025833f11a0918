--------------------------- MODULE FrontEndProofs ---------------------------
(***************************************************************************)
(* The lexer: whatever the text, its tokens are what the parser relies on, *)
(* and nothing of the text is lost.  The type checker, for all programs:   *)
(* no type ever has two ids, an id never changes its meaning, and names    *)
(* mean the innermost declaration that is visible.                         *)
(***************************************************************************)
EXTENDS Lexer, TypeChecker, SetInduction

-----------------------------------------------------------------------------
(* The positions of the lexer.                                             *)
Positions == 0 .. Len(input) + 1
IsText == input \in Seq(STRING)

(* Where skip_whitespace stops, and where a round of its loop leads.       *)
Comment(p, char) == Char(p) = "/" /\ NextChar(p) = char
Halts ==
  {p \in Positions :
     AtEnd(p) \/ (Char(p) \notin Blanks /\ ~Comment(p, "/") /\ ~Comment(p, "*"))}
CommentEnd(p) == IF Comment(p, "/") THEN Upto(p, "\n") ELSE BlockEnd(p)
Round(p) == IF Char(p) \in Blanks THEN p + 1 ELSE CommentEnd(p) + 1

LEMMA MinIsLeast ==
  ASSUME NEW S \in SUBSET Nat, S # {}
  PROVE  Min(S) \in S /\ \A i \in S : Min(S) <= i
<1>1. \E i \in S : \A j \in S : i <= j
  BY LeastElement
<1> QED  BY <1>1 DEF Min

LEMMA AfterAllIs ==
  ASSUME IsText, NEW p \in 0 .. Len(input), NEW chars
  PROVE  /\ AfterAll(p, chars) \in p .. Len(input)
         /\ \A r \in p .. Len(input) :
              r < AfterAll(p, chars) => ~AtEnd(r) /\ Char(r) \in chars
<1> DEFINE S == {q \in p .. Len(input) : AtEnd(q) \/ Char(q) \notin chars}
<1>1. Len(input) \in S
  BY DEF AtEnd, IsText
<1>2. S \in SUBSET Nat
  BY DEF IsText
<1>3. Min(S) \in S /\ \A i \in S : Min(S) <= i
  <2> HIDE DEF S
  <2> QED  BY <1>1, <1>2, MinIsLeast
<1>4. AfterAll(p, chars) = Min(S)
  BY DEF AfterAll
<1>5. ASSUME NEW r \in p .. Len(input), r < Min(S)
      PROVE  ~AtEnd(r) /\ Char(r) \in chars
  <2>1. r \notin S
    <3>1. Min(S) \in Nat
      <4> HIDE DEF S
      <4> QED  BY <1>2, <1>3, Zenon
    <3>2. r \in Nat
      BY DEF IsText
    <3> HIDE DEF S
    <3> QED  BY <1>3, <1>5, <3>1, <3>2
  <2> QED  BY <2>1
<1> QED  BY <1>3, <1>4, <1>5

LEMMA UptoIs ==
  ASSUME IsText, NEW p \in 0 .. Len(input), NEW char
  PROVE  /\ Upto(p, char) \in p .. Len(input)
         /\ AtEnd(Upto(p, char)) \/ Char(Upto(p, char)) = char
<1> DEFINE S == {q \in p .. Len(input) : AtEnd(q) \/ Char(q) = char}
<1>1. Len(input) \in S
  BY DEF AtEnd, IsText
<1>2. S \in SUBSET Nat
  BY DEF IsText
<1>3. Min(S) \in S
  <2> HIDE DEF S
  <2> QED  BY <1>1, <1>2, MinIsLeast
<1>4. Upto(p, char) = Min(S)
  BY DEF Upto
<1> QED  BY <1>3, <1>4

LEMMA BlockEndIs ==
  ASSUME IsText, NEW p \in 0 .. Len(input) - 1
  PROVE  BlockEnd(p) \in p + 1 .. Len(input)
<1> DEFINE S == {q \in p .. Len(input) : Closes(q)}
<1>1. S \in SUBSET Nat
  BY DEF IsText
<1>2. CASE S # {}
  <2>1. Min(S) \in S
    <3> HIDE DEF S
    <3> QED  BY <1>1, <1>2, MinIsLeast
  <2>2. BlockEnd(p) = Min(S) + 2
    BY <1>2 DEF BlockEnd
  <2> QED  BY <2>1, <2>2 DEF Closes, IsText
<1>3. CASE S = {}
  BY <1>3 DEF BlockEnd, IsText
<1> QED  BY <1>2, <1>3

(* A comment ends behind its first character, and a round behind that.     *)
LEMMA RoundAdvances ==
  ASSUME IsText, NEW p \in Positions \ Halts
  PROVE  /\ p < Len(input)
         /\ Round(p) \in p + 1 .. Len(input) + 1
         /\ Char(p) \notin Blanks =>
              /\ Comment(p, "/") \/ Comment(p, "*")
              /\ CommentEnd(p) \in p + 1 .. Len(input)
<1>1. p \in 0 .. Len(input) - 1
  BY DEF Halts, Positions, AtEnd, IsText
<1>2. Comment(p, "/") => Upto(p, "\n") \in p + 1 .. Len(input)
  <2> SUFFICES ASSUME Comment(p, "/") PROVE Upto(p, "\n") # p
    BY <1>1, UptoIs DEF IsText
  <2>1. ~AtEnd(p) /\ Char(p) # "\n"
    BY <1>1 DEF Comment, AtEnd, IsText
  <2> QED  BY <1>1, <2>1, UptoIs DEF IsText
<1>3. BlockEnd(p) \in p + 1 .. Len(input)
  BY <1>1, BlockEndIs
<1>4. Char(p) \notin Blanks =>
        /\ Comment(p, "/") \/ Comment(p, "*")
        /\ CommentEnd(p) \in p + 1 .. Len(input)
  BY <1>1, <1>2, <1>3 DEF Halts, CommentEnd, Positions
<1> QED  BY <1>1, <1>4 DEF Round, IsText

(* The recursion of skip_whitespace.                                       *)
LEMMA SkipsByRounds ==
  ASSUME IsText, NEW p \in Positions
  PROVE  SkipWhitespace(p) = IF p \in Halts THEN p ELSE SkipWhitespace(Round(p))
<1> DEFINE Chain(f, q) ==
             IF AtEnd(q) THEN q
             ELSE IF Char(q) \in Blanks THEN f[q + 1]
             ELSE IF Char(q) = "/" /\ NextChar(q) = "/"
                  THEN f[Upto(q, "\n") + 1]
             ELSE IF Char(q) = "/" /\ NextChar(q) = "*"
                  THEN f[BlockEnd(q) + 1]
             ELSE q
           Short(f, q) == IF q \in Halts THEN q ELSE f[Round(q)]
           Skips(f) == f = [q \in 0 .. Len(input) + 1 |-> Chain(f, q)]
<1>1. ASSUME NEW f, NEW q \in Positions PROVE Chain(f, q) = Short(f, q)
  BY DEF Halts, Round, CommentEnd, Comment
<1>2. \E f : Skips(f)
  <2> DEFINE n == Len(input) + 1
             value == [q \in Positions |-> q]
             step == [q \in Positions |-> Round(q)]
  <2>1. n \in Nat /\ Positions = 0 .. n
    BY DEF IsText, Positions
  <2>2. \A q \in (0 .. n) \ Halts : step[q] \in q + 1 .. n
    BY <2>1, RoundAdvances
  <2>3. PICK m, stops, v, s : m = n /\ stops = Halts /\ v = value /\ s = step
    <3> HIDE DEF n, step, value
    <3> QED  OBVIOUS
  <2>7. m \in Nat /\ \A q \in (0 .. m) \ stops : s[q] \in q + 1 .. m
    <3> HIDE DEF n, step, value
    <3> QED  BY <2>1, <2>2, <2>3
  <2>8. PICK f : Descends(f, m, stops, v, s)
    BY <2>7, DescentExists, Zenon
  <2>9. f = [q \in 0 .. n |-> IF q \in Halts THEN value[q] ELSE f[step[q]]]
    <3> HIDE DEF n, step, value
    <3> QED  BY <2>3, <2>8 DEF Descends
  <2>4. \A q \in 0 .. n : (IF q \in Halts THEN value[q] ELSE f[step[q]]) = Short(f, q)
    BY <2>1
  <2>5. \A q \in 0 .. n : (IF q \in Halts THEN value[q] ELSE f[step[q]]) = Chain(f, q)
    <3> HIDE DEF value, step, n, Chain, Short
    <3> QED  BY <1>1, <2>1, <2>4
  <2>6. f = [q \in 0 .. n |-> Chain(f, q)]
    <3> HIDE DEF value, step, Chain, Short
    <3> QED  BY <2>9, <2>5
  <2> QED  BY <2>6
<1> DEFINE skipped == CHOOSE f : Skips(f)
<1>3. Skips(skipped)
  <2> HIDE DEF Skips
  <2> QED  BY <1>2
<1>4. \A q : SkipWhitespace(q) = skipped[q]
  BY DEF SkipWhitespace
<1> HIDE DEF skipped
<1>5. skipped[p] = Chain(skipped, p)
  <2> HIDE DEF Chain
  <2> QED  BY <1>3 DEF Positions
<1>6. skipped[p] = Short(skipped, p)
  <2> HIDE DEF Chain, Short
  <2> QED  BY <1>1, <1>5
<1> QED  BY <1>4, <1>6

(* The recursion of OnlyBlanks.                                            *)
LEMMA BlanksByRounds ==
  ASSUME IsText, NEW q \in Nat, NEW p \in Positions
  PROVE  /\ p \in Halts \/ q <= p
              => (OnlyBlanks(p, q) <=> ((q <= p \/ AtEnd(p)) /\ p = q))
         /\ p \notin Halts /\ p < q
              => OnlyBlanks(p, q)
                   = OnlyBlanks(IF Char(p) \in Blanks THEN p + 1
                                       ELSE CommentEnd(p), q)
<1> DEFINE Chain(f, r) ==
             IF r >= q \/ AtEnd(r) THEN r = q
             ELSE IF Char(r) \in Blanks THEN f[r + 1]
             ELSE IF Char(r) = "/" /\ NextChar(r) = "/"
                  THEN f[Upto(r, "\n")]
             ELSE IF Char(r) = "/" /\ NextChar(r) = "*"
                  THEN f[BlockEnd(r)]
             ELSE FALSE
           stops == {r \in Positions : r \in Halts \/ q <= r}
           Value(r) == (q <= r \/ AtEnd(r)) /\ r = q
           Step(r) == IF Char(r) \in Blanks THEN r + 1 ELSE CommentEnd(r)
           Short(f, r) == IF r \in stops THEN Value(r) ELSE f[Step(r)]
           Skips(f) == f = [r \in 0 .. Len(input) + 1 |-> Chain(f, r)]
<1>1. ASSUME NEW f, NEW r \in Positions PROVE Chain(f, r) = Short(f, r)
  <2>1. r \in Nat /\ (r >= q <=> q <= r)
    BY DEF Positions, IsText
  <2>2. CASE q <= r \/ AtEnd(r)
    BY <2>1, <2>2 DEF Halts
  <2>3. CASE ~ (q <= r \/ AtEnd(r))
    <3>1. CASE Char(r) \in Blanks
      BY <2>1, <2>3, <3>1 DEF Halts
    <3>2. CASE Char(r) \notin Blanks
      <4>1. ~ (r >= q \/ AtEnd(r))
        BY <2>1, <2>3
      <4>2. Comment(r, "/") => Chain(f, r) = f[CommentEnd(r)] /\ r \notin stops
        BY <2>3, <4>1, <3>2 DEF Halts, Comment, CommentEnd
      <4>3. ~Comment(r, "/") /\ Comment(r, "*") => Chain(f, r) = f[CommentEnd(r)] /\ r \notin stops
        BY <2>3, <4>1, <3>2 DEF Halts, Comment, CommentEnd
      <4>4. ~Comment(r, "/") /\ ~Comment(r, "*") => Chain(f, r) = FALSE /\ r \in stops /\ Value(r) = FALSE
        BY <2>3, <4>1, <3>2 DEF Halts, Comment, CommentEnd
      <4>5. Step(r) = CommentEnd(r)
        BY <3>2
      <4> HIDE DEF Chain, Value, Step, stops
      <4> QED  BY <4>2, <4>3, <4>4, <4>5
    <3> QED  BY <3>1, <3>2
  <2> QED  BY <2>2, <2>3
<1>2. \E f : Skips(f)
  <2> DEFINE n == Len(input) + 1
             value == [r \in Positions |-> Value(r)]
             step == [r \in Positions |-> Step(r)]
  <2>1. n \in Nat /\ Positions = 0 .. n
    BY DEF IsText, Positions
  <2>2. \A r \in (0 .. n) \ stops : step[r] \in r + 1 .. n
    <3> SUFFICES ASSUME NEW r \in (0 .. n) \ stops PROVE Step(r) \in r + 1 .. n
      BY <2>1
    <3>1. r \in Positions \ Halts /\ r \in Nat
      BY <2>1
    <3> QED  BY <3>1, RoundAdvances DEF IsText
  <2>3. PICK m, halts, v, s : m = n /\ halts = stops /\ v = value /\ s = step
    <3> HIDE DEF n, step, value, stops
    <3> QED  OBVIOUS
  <2>4. m \in Nat /\ \A r \in (0 .. m) \ halts : s[r] \in r + 1 .. m
    <3> HIDE DEF n, step, value, stops
    <3> QED  BY <2>1, <2>2, <2>3
  <2>5. PICK f : Descends(f, m, halts, v, s)
    BY <2>4, DescentExists, Zenon
  <2>6. f = [r \in 0 .. n |-> IF r \in stops THEN value[r] ELSE f[step[r]]]
    <3> HIDE DEF n, step, value, stops
    <3> QED  BY <2>3, <2>5 DEF Descends
  <2>7. \A r \in 0 .. n : (IF r \in stops THEN value[r] ELSE f[step[r]]) = Short(f, r)
    <3> HIDE DEF stops, Value, Step
    <3> QED  BY <2>1
  <2>8. \A r \in 0 .. n : (IF r \in stops THEN value[r] ELSE f[step[r]]) = Chain(f, r)
    <3> HIDE DEF value, step, n, Chain, Short, stops
    <3> QED  BY <1>1, <2>1, <2>7
  <2>9. f = [r \in 0 .. n |-> Chain(f, r)]
    <3> HIDE DEF value, step, Chain, Short, stops
    <3> QED  BY <2>6, <2>8
  <2> QED  BY <2>9
<1> DEFINE blank == CHOOSE f : Skips(f)
<1>3. Skips(blank)
  <2> HIDE DEF Skips
  <2> QED  BY <1>2
<1>4. \A r : OnlyBlanks(r, q) = blank[r]
  BY DEF OnlyBlanks
<1> HIDE DEF blank
<1>5. blank[p] = Chain(blank, p)
  <2> HIDE DEF Chain
  <2> QED  BY <1>3 DEF Positions
<1>6. blank[p] = Short(blank, p)
  <2> HIDE DEF Chain, Short
  <2> QED  BY <1>1, <1>5
<1>7. p \in Halts \/ q <= p => p \in stops
  OBVIOUS
<1>8. p \notin Halts /\ p < q => p \notin stops
  BY DEF Positions, IsText
<1>9. p \in stops => blank[p] = Value(p)
  <2> HIDE DEF stops, Value, Step
  <2> QED  BY <1>6
<1>10. p \notin stops => blank[p] = blank[Step(p)]
  <2> HIDE DEF stops, Value, Step
  <2> QED  BY <1>6
<1> HIDE DEF stops
<1> QED  BY <1>4, <1>7, <1>8, <1>9, <1>10

(* A set of positions that holds what rounds lead from is all of them.     *)
LEMMA RoundInduction ==
  ASSUME IsText, NEW S, Halts \subseteq S,
         \A p \in Positions \ Halts : Round(p) \in S => p \in S
  PROVE  Positions \subseteq S
<1> DEFINE D == {k \in Nat : \A p \in Positions : Len(input) + 1 <= p + k => p \in S}
<1>1. 0 \in D
  <2> SUFFICES ASSUME NEW p \in Positions, Len(input) + 1 <= p PROVE p \in S
    BY DEF Positions, IsText
  <2>1. p \in Halts
    BY DEF Halts, Positions, AtEnd, IsText
  <2> QED  BY <2>1
<1>2. ASSUME NEW k \in Nat, k \in D PROVE k + 1 \in D
  <2> SUFFICES ASSUME NEW p \in Positions, Len(input) + 1 <= p + (k + 1) PROVE p \in S
    OBVIOUS
  <2>1. CASE p \in Halts
    BY <2>1
  <2>2. CASE p \notin Halts
    <3>1. Round(p) \in Positions /\ Len(input) + 1 <= Round(p) + k
      BY <2>2, RoundAdvances DEF Positions, IsText
    <3> QED  BY <1>2, <2>2, <3>1
  <2> QED  BY <2>1, <2>2
<1>3. Nat \subseteq D
  <2> HIDE DEF D
  <2> QED  BY <1>1, <1>2, NatSetInduction
<1> SUFFICES ASSUME NEW p \in Positions PROVE p \in S
  OBVIOUS
<1>4. p \in Nat /\ Len(input) + 1 - p \in Nat /\ Len(input) + 1 <= p + (Len(input) + 1 - p)
  BY DEF Positions, IsText
<1>5. Len(input) + 1 - p \in D
  <2> HIDE DEF D
  <2> QED  BY <1>3, <1>4
<1> QED  BY <1>4, <1>5

(* skip_whitespace stops where its loop does, and if all comments end as   *)
(* they should, inside the text and with only blanks behind it.            *)
LEMMA SkipHalts ==
  ASSUME IsText, NEW p \in Positions
  PROVE  SkipWhitespace(p) \in Halts
<1> DEFINE S == {q \in Positions : SkipWhitespace(q) \in Halts}
<1>1. Halts \subseteq S
  BY SkipsByRounds DEF Halts
<1>2. ASSUME NEW q \in Positions \ Halts, Round(q) \in S PROVE q \in S
  BY <1>2, SkipsByRounds
<1>3. Positions \subseteq S
  <2> HIDE DEF S
  <2>1. PICK T : T = S
    OBVIOUS
  <2>2. Halts \subseteq T /\ \A q \in Positions \ Halts : Round(q) \in T => q \in T
    BY <1>1, <1>2, <2>1
  <2>3. Positions \subseteq T
    BY <2>2, RoundInduction, Zenon
  <2> QED  BY <2>1, <2>3
<1> QED  BY <1>3

LEMMA SkipStaysInside ==
  ASSUME IsText, "\n" \in Blanks, CommentsEnd, NEW p \in 0 .. Len(input)
  PROVE  /\ SkipWhitespace(p) \in p .. Len(input)
         /\ OnlyBlanks(p, SkipWhitespace(p))
<1> DEFINE end(q) == SkipWhitespace(q)
           S == {q \in Positions : q <= Len(input) =>
                   end(q) \in q .. Len(input) /\ OnlyBlanks(q, end(q))}
<1>1. Halts \subseteq S
  <2> SUFFICES ASSUME NEW q \in Halts, q <= Len(input)
               PROVE  end(q) \in q .. Len(input) /\ OnlyBlanks(q, end(q))
    BY DEF Halts
  <2>1. q \in Positions /\ q \in Nat /\ end(q) = q
    BY SkipsByRounds DEF Halts, Positions, IsText
  <2>2. OnlyBlanks(q, q)
    BY <2>1, BlanksByRounds
  <2> QED  BY <2>1, <2>2 DEF IsText
<1>2. ASSUME NEW q \in Positions \ Halts, Round(q) \in S PROVE q \in S
  <2>1. q < Len(input) /\ q \in Nat /\ Len(input) \in Nat
    BY RoundAdvances DEF Positions, IsText
  <2>2. end(q) = end(Round(q))
    BY SkipsByRounds
  <2>3. CASE Char(q) \in Blanks
    <3>1. Round(q) = q + 1 /\ q + 1 <= Len(input)
      BY <2>1, <2>3 DEF Round
    <3>2. end(q) \in q + 1 .. Len(input) /\ OnlyBlanks(q + 1, end(q))
      BY <1>2, <2>2, <3>1
    <3>3. end(q) \in Nat /\ q < end(q)
      BY <2>1, <3>2
    <3>4. OnlyBlanks(q, end(q)) = OnlyBlanks(q + 1, end(q))
      <4> HIDE DEF end
      <4> QED  BY <2>3, <3>3, BlanksByRounds
    <3> QED  BY <2>1, <3>2, <3>4
  <2>4. CASE Char(q) \notin Blanks
    <3> DEFINE c == CommentEnd(q)
    <3>1. c \in q + 1 .. Len(input) /\ Round(q) = c + 1
      BY <2>4, RoundAdvances DEF Round
    <3>2. ~AtEnd(c) /\ Char(c) \in Blanks
      <4>1. q \in 0 .. Len(input) - 1
        BY <2>1
      <4>2. CASE Comment(q, "/")
        <5>1. ~AtEnd(Upto(q, "\n"))
          BY <4>1, <4>2 DEF Comment, CommentsEnd
        <5>2. Char(Upto(q, "\n")) = "\n"
          BY <2>1, <5>1, UptoIs
        <5> QED  BY <4>2, <5>1, <5>2 DEF CommentEnd
      <4>3. CASE ~Comment(q, "/")
        <5>1. Comment(q, "*")
          BY <2>4, <4>3, RoundAdvances
        <5> QED  BY <4>1, <4>3, <5>1 DEF Comment, CommentEnd, CommentsEnd
      <4> QED  BY <4>2, <4>3
    <3> HIDE DEF c
    <3>3. c + 1 <= Len(input) /\ c \in Nat /\ c \in Positions
      BY <2>1, <3>1, <3>2 DEF AtEnd, Positions
    <3>4. end(q) \in c + 1 .. Len(input) /\ OnlyBlanks(c + 1, end(q))
      BY <1>2, <2>2, <3>1, <3>3
    <3>5. end(q) \in Nat /\ q < end(q) /\ c < end(q)
      BY <2>1, <3>1, <3>3, <3>4
    <3>6. OnlyBlanks(q, end(q)) = OnlyBlanks(c, end(q))
      <4> HIDE DEF end
      <4> QED  BY <2>4, <3>5, BlanksByRounds DEF c
    <3>7. OnlyBlanks(c, end(q)) = OnlyBlanks(c + 1, end(q))
      <4>1. c \notin Halts
        BY <3>2 DEF Halts
      <4> HIDE DEF end
      <4> QED  BY <3>2, <3>3, <3>5, <4>1, BlanksByRounds
    <3> QED  BY <2>1, <3>1, <3>3, <3>4, <3>6, <3>7
  <2> QED  BY <2>3, <2>4
<1>3. Positions \subseteq S
  <2> HIDE DEF S
  <2>1. PICK T : T = S
    OBVIOUS
  <2>2. Halts \subseteq T /\ \A q \in Positions \ Halts : Round(q) \in T => q \in T
    BY <1>1, <1>2, <2>1
  <2>3. Positions \subseteq T
    BY <2>2, RoundInduction, Zenon
  <2> QED  BY <2>1, <2>3
<1> QED  BY <1>3 DEF Positions, IsText

(* What a token is, wherever the lexer stands.                             *)
TokenAt(t, p) ==
  /\ t.first = p
  /\ t.count \in Nat /\ t.after \in p .. Len(input) + 1
  /\ p <= Len(input) => t.after <= Len(input) /\ p + t.count <= Len(input)

(* The form of a literal.                                                  *)
LiteralForm(t) ==
  /\ t.type = "string" =>
       /\ t.count >= 2 /\ t.first + t.count <= Len(input)
       /\ input[t.first + 1] = Quote /\ input[t.first + t.count] = Quote
  /\ t.type = "integer" =>
       /\ t.count >= 1 /\ t.first + t.count <= Len(input)
       /\ \A i \in t.first + 1 .. t.first + t.count : input[i] \in Digits

LEMMA TokenFrom ==
  ASSUME IsText, NEW p \in 0 .. Len(input) - 1, NEW q \in p + 1 .. Len(input), NEW t,
         t.first = p, t.count = q - p, t.after = q
  PROVE  TokenAt(t, p) /\ t.first + t.count = q
BY DEF TokenAt, IsText

LEMMA LexedFields ==
  ASSUME NEW type, NEW p, NEW q, NEW t, t = Lexed(type, p, q)
  PROVE  t.type = type /\ t.first = p /\ t.count = q - p /\ t.after = q
BY DEF Lexed

LEMMA EndIsToken ==
  ASSUME IsText, NEW p \in Positions, NEW t \in TokensAt(p), AtEnd(p)
  PROVE  TokenAt(t, p) /\ LiteralForm(t)
<1>0. t = Lexed("end", p, p)
  BY DEF TokensAt
<1>1. t.type = "end" /\ t.first = p /\ t.count = p - p /\ t.after = p
  BY <1>0, LexedFields
<1>2. TokenAt(t, p)
  BY <1>1 DEF TokenAt, Positions, IsText
<1>3. LiteralForm(t)
  BY <1>1 DEF LiteralForm
<1> QED  BY <1>2, <1>3

LEMMA IdentifierIsToken ==
  ASSUME IsText, NEW p \in 0 .. Len(input) - 1
  PROVE  TokenAt(IdentifierToken(p), p) /\ LiteralForm(IdentifierToken(p))
<1> DEFINE q == AfterAll(p + 1, Letters \cup Digits)
           t == IdentifierToken(p)
<1>1. q \in p + 1 .. Len(input)
  <2>1. p + 1 \in 0 .. Len(input)
    BY DEF IsText
  <2> QED  BY <2>1, AfterAllIs
<1>2. t = Lexed(t.type, p, q) /\ t.type \in {"keyword", "identifier"}
  BY DEF IdentifierToken, Lexed
<1> HIDE DEF q, t
<1>3. t.first = p /\ t.count = q - p /\ t.after = q
  BY <1>2, LexedFields
<1>4. TokenAt(t, p)
  BY <1>1, <1>3, TokenFrom
<1>5. LiteralForm(t)
  BY <1>2 DEF LiteralForm
<1> QED  BY <1>4, <1>5 DEF t

LEMMA DirectiveIsToken ==
  ASSUME IsText, NEW p \in 0 .. Len(input) - 1
  PROVE  TokenAt(DirectiveToken(p), p) /\ LiteralForm(DirectiveToken(p))
<1> DEFINE q == AfterAll(p + 1, Letters)
           t == DirectiveToken(p)
<1>1. q \in p + 1 .. Len(input)
  <2>1. p + 1 \in 0 .. Len(input)
    BY DEF IsText
  <2> QED  BY <2>1, AfterAllIs
<1>2. t = Lexed(t.type, p, q) /\ t.type \in {"directive", "error"}
  BY DEF DirectiveToken, Lexed
<1> HIDE DEF q, t
<1>3. t.first = p /\ t.count = q - p /\ t.after = q
  BY <1>2, LexedFields
<1>4. TokenAt(t, p)
  BY <1>1, <1>3, TokenFrom
<1>5. LiteralForm(t)
  BY <1>2 DEF LiteralForm
<1> QED  BY <1>4, <1>5 DEF t

LEMMA StringIsToken ==
  ASSUME IsText, NEW p \in 0 .. Len(input) - 1, Char(p) = Quote
  PROVE  TokenAt(StringToken(p), p) /\ LiteralForm(StringToken(p))
<1> DEFINE q == Upto(p + 1, Quote)
           t == StringToken(p)
<1>1. /\ q \in p + 1 .. Len(input)
      /\ AtEnd(q) \/ Char(q) = Quote
  <2>1. p + 1 \in 0 .. Len(input)
    BY DEF IsText
  <2> QED  BY <2>1, UptoIs
<1>2. CASE AtEnd(q)
  <2>1. t = Lexed("end", p, q)
    BY <1>2 DEF StringToken
  <2> HIDE DEF q, t
  <2>2. t.type = "end" /\ t.first = p /\ t.count = q - p /\ t.after = q
    BY <2>1 DEF Lexed
  <2>3. TokenAt(t, p)
    BY <1>1, <2>2, TokenFrom
  <2>4. LiteralForm(t)
    BY <2>2 DEF LiteralForm
  <2> QED  BY <2>3, <2>4 DEF t
<1>3. CASE ~AtEnd(q)
  <2> DEFINE e == q + 1
  <2>1. t = Lexed("string", p, e)
    BY <1>3 DEF StringToken
  <2>2. q < Len(input) /\ Char(q) = Quote /\ e \in p + 1 .. Len(input)
    BY <1>1, <1>3 DEF AtEnd, IsText
  <2>3. input[p + 1] = Quote /\ input[e] = Quote
    BY <2>2 DEF Char
  <2>4. e - p >= 2 /\ e <= Len(input)
    BY <1>1, <2>2 DEF IsText
  <2> HIDE DEF q, t, e
  <2>5. t.type = "string" /\ t.first = p /\ t.count = e - p /\ t.after = e
    BY <2>1, LexedFields
  <2>6. TokenAt(t, p) /\ t.first + t.count = e
    BY <2>2, <2>5, TokenFrom
  <2>7. LiteralForm(t)
    BY <2>3, <2>4, <2>5, <2>6 DEF LiteralForm
  <2> QED  BY <2>6, <2>7 DEF t
<1> QED  BY <1>2, <1>3

LEMMA NumberIsToken ==
  ASSUME IsText, NEW p \in 0 .. Len(input) - 1, Char(p) \in Digits
  PROVE  TokenAt(NumberToken(p), p) /\ LiteralForm(NumberToken(p))
<1> DEFINE q == AfterAll(p + 1, Digits)
           t == NumberToken(p)
<1>1. /\ q \in p + 1 .. Len(input)
      /\ \A r \in p + 1 .. Len(input) : r < q => Char(r) \in Digits
  <2>1. p + 1 \in 0 .. Len(input)
    BY DEF IsText
  <2> QED  BY <2>1, AfterAllIs
<1>2. CASE ~AtEnd(q) /\ NextChar(q) \in Digits
  <2> DEFINE e == AfterAll(q + 1, Digits)
  <2>1. e \in q + 1 .. Len(input)
    <3>1. q + 1 \in 0 .. Len(input)
      BY <1>1, <1>2 DEF IsText, AtEnd
    <3> QED  BY <3>1, AfterAllIs
  <2>2. t = Lexed("float", p, e)
    BY <1>2 DEF NumberToken
  <2> HIDE DEF q, t, e
  <2>3. t.type = "float" /\ t.first = p /\ t.count = e - p /\ t.after = e
    BY <2>2 DEF Lexed
  <2>4. e \in p + 1 .. Len(input)
    BY <1>1, <2>1 DEF IsText
  <2>5. TokenAt(t, p)
    BY <2>3, <2>4, TokenFrom
  <2>6. LiteralForm(t)
    BY <2>3 DEF LiteralForm
  <2> QED  BY <2>5, <2>6 DEF t
<1>3. CASE ~ (~AtEnd(q) /\ NextChar(q) \in Digits)
  <2>1. t = Lexed("integer", p, q)
    BY <1>3 DEF NumberToken
  <2> HIDE DEF q, t
  <2>2. t.type = "integer" /\ t.first = p /\ t.count = q - p /\ t.after = q
    BY <2>1 DEF Lexed
  <2>3. \A i \in p + 1 .. q : input[i] \in Digits
    <3> SUFFICES ASSUME NEW i \in p + 1 .. q PROVE input[i] \in Digits
      OBVIOUS
    <3>1. Char(i - 1) \in Digits
      <4>1. CASE i = p + 1
        BY <4>1, i - 1 = p
      <4>2. CASE i # p + 1
        <5>1. i - 1 \in p + 1 .. Len(input) /\ i - 1 < q
          BY <1>1, <4>2 DEF IsText
        <5> QED  BY <1>1, <5>1
      <4> QED  BY <4>1, <4>2
    <3>2. (i - 1) + 1 = i
      OBVIOUS
    <3> QED  BY <3>1, <3>2 DEF Char
  <2>4. TokenAt(t, p) /\ t.first + t.count = q
    BY <1>1, <2>2, TokenFrom
  <2>5. t.count >= 1 /\ q <= Len(input)
    BY <1>1, <2>2 DEF IsText
  <2>6. LiteralForm(t)
    BY <2>2, <2>3, <2>4, <2>5 DEF LiteralForm
  <2> QED  BY <2>4, <2>6 DEF t
<1> QED  BY <1>2, <1>3

LEMMA OperatorIsToken ==
  ASSUME IsText, NEW p \in 0 .. Len(input) - 1, Char(p) \in Operators,
         NEW t \in OperatorTokens(p)
  PROVE  TokenAt(t, p) /\ LiteralForm(t)
<1>1. Char(p) # "string" /\ Char(p) # "integer"
  BY DEF Operators, BeforeEquals
<1>2. CASE Second(p) = ""
  <2>1. t = Lexed(Char(p), p, p + 1)
    BY <1>2 DEF OperatorTokens
  <2>2. t.type = Char(p) /\ t.first = p /\ t.count = p + 1 - p /\ t.after = p + 1
    BY <2>1, LexedFields
  <2>3. p + 1 \in p + 1 .. Len(input)
    BY DEF IsText
  <2>4. TokenAt(t, p)
    BY <2>2, <2>3, TokenFrom
  <2>5. LiteralForm(t)
    BY <1>1, <2>2 DEF LiteralForm
  <2> QED  BY <2>4, <2>5
<1>3. CASE Second(p) # ""
  <2>1. p + 1 < Len(input)
    <3>1. NextChar(p) \in {"=", ">", ":"}
      BY <1>3 DEF Second
    <3> QED  BY <3>1 DEF NextChar
  <2>2. PICK n \in 1 .. 2 :
          t = [Lexed(Char(p), p, p + 2) EXCEPT !.second = Second(p),
                                                             !.count = n]
    BY <1>3 DEF OperatorTokens
  <2>3. t.type = Char(p) /\ t.first = p /\ t.count = n /\ t.after = p + 2
    BY <2>2 DEF Lexed
  <2>4. TokenAt(t, p)
    BY <2>1, <2>3 DEF TokenAt, IsText
  <2>5. LiteralForm(t)
    BY <1>1, <2>3 DEF LiteralForm
  <2> QED  BY <2>4, <2>5
<1> QED  BY <1>2, <1>3

LEMMA ErrorIsToken ==
  ASSUME IsText, NEW p \in 0 .. Len(input) - 1, NEW t, t = Lexed("error", p, p + 1)
  PROVE  TokenAt(t, p) /\ LiteralForm(t)
<1>1. t.type = "error" /\ t.first = p /\ t.count = p + 1 - p /\ t.after = p + 1
  BY LexedFields
<1>2. p + 1 \in p + 1 .. Len(input)
  BY DEF IsText
<1>3. TokenAt(t, p)
  BY <1>1, <1>2, TokenFrom
<1>4. LiteralForm(t)
  BY <1>1 DEF LiteralForm
<1> QED  BY <1>3, <1>4

LEMMA TokensAreTokens ==
  ASSUME IsText, NEW p \in Positions, NEW t \in TokensAt(p)
  PROVE  TokenAt(t, p) /\ LiteralForm(t)
<1>1. CASE AtEnd(p)
  BY <1>1, EndIsToken
<1>2. CASE ~AtEnd(p)
  <2>1. p \in 0 .. Len(input) - 1
    BY <1>2 DEF Positions, AtEnd, IsText
  <2> DEFINE c == Char(p)
  <2>2. \/ t = IdentifierToken(p)
        \/ c \in Digits /\ t = NumberToken(p)
        \/ c = Quote /\ t = StringToken(p)
        \/ t = DirectiveToken(p)
        \/ c \in Operators /\ t \in OperatorTokens(p)
        \/ t = Lexed("error", p, p + 1)
    BY <1>2 DEF TokensAt
  <2> QED  BY <2>1, <2>2, IdentifierIsToken, NumberIsToken, StringIsToken, DirectiveIsToken,
              OperatorIsToken, ErrorIsToken
<1> QED  BY <1>1, <1>2

(* Two tokens at one place differ in nothing but the lexeme of an          *)
(* operator.                                                               *)
LEMMA TokensAgree ==
  ASSUME NEW p, NEW t \in TokensAt(p), NEW u \in TokensAt(p)
  PROVE  [u EXCEPT !.count = 0] = [t EXCEPT !.count = 0]
<1> DEFINE c == Char(p)
<1>1. CASE t \in OperatorTokens(p) /\ u \in OperatorTokens(p)
  <2>1. CASE Second(p) = ""
    <3>1. t = u
      BY <1>1, <2>1 DEF OperatorTokens
    <3> QED  BY <3>1
  <2>2. CASE Second(p) # ""
    <3> DEFINE o == Lexed(c, p, p + 2)
    <3>1. /\ \E m \in 1 .. 2 : t = [o EXCEPT !.second = Second(p), !.count = m]
          /\ \E n \in 1 .. 2 : u = [o EXCEPT !.second = Second(p), !.count = n]
      BY <1>1, <2>2 DEF OperatorTokens
    <3> QED  BY <3>1 DEF Lexed
  <2> QED  BY <2>1, <2>2
<1>2. CASE ~(t \in OperatorTokens(p) /\ u \in OperatorTokens(p))
  <2>1. t = u
    BY <1>2 DEF TokensAt
  <2> QED  BY <2>1
<1> QED  BY <1>1, <1>2

-----------------------------------------------------------------------------
(* The inductive invariant: the token was lexed where it starts, and       *)
(* nothing would be skipped there.                                         *)
LexInv ==
  /\ IsText /\ "\n" \in Blanks
  /\ position = token.after
  /\ token.first \in Halts /\ token \in TokensAt(token.first)

LEMMA NextTokensSound ==
  ASSUME IsText, NEW p \in Positions, NEW t \in NextTokens(p)
  PROVE  /\ t.first = SkipWhitespace(p)
         /\ t.first \in Halts /\ t \in TokensAt(t.first)
<1> DEFINE s == SkipWhitespace(p)
<1>1. s \in Halts
  BY SkipHalts
<1>2. t \in TokensAt(s)
  BY DEF NextTokens
<1>3. t.first = s
  <2> HIDE DEF s
  <2>1. s \in Positions
    BY <1>1 DEF Halts
  <2>2. TokenAt(t, s)
    BY <1>2, <2>1, TokensAreTokens
  <2> QED  BY <2>2 DEF TokenAt
<1> QED  BY <1>1, <1>2, <1>3

LEMMA LexInvInit ==
  ASSUME Texts, LexInit
  PROVE  LexInv
<1>1. IsText /\ "\n" \in Blanks
  BY DEF LexInit, Texts, IsText
<1>2. 0 \in Positions /\ token \in NextTokens(0) /\ position = token.after
  BY <1>1 DEF LexInit, Positions, IsText
<1> QED  BY <1>1, <1>2, NextTokensSound DEF LexInv

LEMMA LexInvNext ==
  ASSUME LexInv, [LexNext]_lexerVars
  PROVE  LexInv'
<1>1. CASE LexNext
  <2>1. /\ input' = input /\ position' = token'.after
        /\ token' \in NextTokens(position)
    BY <1>1 DEF LexNext, AdvanceToken
  <2>2. position \in Positions
    <3>1. TokenAt(token, token.first) /\ token.first \in Positions
      BY TokensAreTokens DEF LexInv, Halts
    <3> QED  BY <3>1 DEF LexInv, TokenAt, Positions, IsText
  <2>3. token'.first \in Halts /\ token' \in TokensAt(token'.first)
    <3>1. PICK t : t = token'
      OBVIOUS
    <3>2. t.first \in Halts /\ t \in TokensAt(t.first)
      BY <2>1, <2>2, <3>1, NextTokensSound DEF LexInv
    <3> QED  BY <3>1, <3>2
  <2>4. Halts' = Halts
    BY <2>1 DEF Halts, Positions, Comment, AtEnd, Char, NextChar
  <2>5. \A p : TokensAt(p)' = TokensAt(p)
    BY <2>1
       DEF TokensAt, AtEnd, Char, IdentifierToken, NumberToken,
           StringToken, DirectiveToken, OperatorTokens, Lexed, Lexeme,
           Second, NextChar, AfterAll, Upto
  <2> QED  BY <2>1, <2>3, <2>4, <2>5 DEF LexInv, IsText
<1>2. CASE UNCHANGED lexerVars
  <2>1. UNCHANGED <<input, position, token>>
    BY <1>2 DEF lexerVars
  <2>2. Halts' = Halts
    BY <2>1 DEF Halts, Positions, Comment, AtEnd, Char, NextChar
  <2>3. \A p : TokensAt(p)' = TokensAt(p)
    BY <2>1
       DEF TokensAt, AtEnd, Char, IdentifierToken, NumberToken,
           StringToken, DirectiveToken, OperatorTokens, Lexed, Lexeme,
           Second, NextChar, AfterAll, Upto
  <2> QED  BY <2>1, <2>2, <2>3 DEF LexInv, IsText
<1> QED  BY <1>1, <1>2

LEMMA LexInvAlways ==
  LexSpec => []LexInv
<1>1. LexInit => LexInv
  BY LexInvInit, LexerAssumption
<1>2. LexInv /\ [LexNext]_lexerVars => LexInv'
  BY LexInvNext
<1> QED  BY <1>1, <1>2, PTL DEF LexSpec

(* The lexer delivers literals in the form that the parser takes apart,    *)
(* whatever the text (lexer.c:270-311).                                    *)
THEOREM LiteralsAlwaysParse ==
  LexSpec => []LiteralsParse
<1>1. LexInv => LiteralsParse
  <2> SUFFICES ASSUME LexInv PROVE LiteralsParse
    OBVIOUS
  <2>1. TokenAt(token, token.first) /\ LiteralForm(token) /\ token.first \in Nat
    BY TokensAreTokens DEF LexInv, Halts, Positions, IsText
  <2> DEFINE n == token.first + token.count
             text == SubSeq(input, token.first + 1, n)
  <2>2. ASSUME token.count >= 1, n <= Len(input)
        PROVE  /\ text \in Seq(STRING) /\ Len(text) = token.count
               /\ \A i \in 1 .. token.count : text[i] = input[token.first + i]
    <3>1. /\ input \in Seq(STRING) /\ Len(input) \in Nat
          /\ token.first \in Nat /\ token.count \in Nat
      BY <2>1 DEF LexInv, IsText, TokenAt
    <3>2. PICK p, c : p = token.first /\ c = token.count
      OBVIOUS
    <3>3. p \in Nat /\ c \in Nat /\ c >= 1 /\ p + c <= Len(input)
      BY <2>2, <3>1, <3>2
    <3>4. /\ SubSeq(input, p + 1, p + c) \in Seq(STRING)
          /\ Len(SubSeq(input, p + 1, p + c)) = c
      BY <3>1, <3>3
    <3>5. \A i \in 1 .. c : SubSeq(input, p + 1, p + c)[i] = input[p + i]
      BY <3>1, <3>3
    <3> QED  BY <3>2, <3>4, <3>5
  <2>3. ASSUME token.type = "string"
        PROVE  Len(text) >= 2 /\ text[1] = Quote /\ text[Len(text)] = Quote
    <3>1. token.count >= 2 /\ n <= Len(input) /\ token.count \in Nat
      BY <2>1, <2>3 DEF LiteralForm, TokenAt
    <3> HIDE DEF text, n
    <3>2. 1 \in 1 .. token.count /\ token.count \in 1 .. token.count /\ token.count >= 1
      BY <3>1
    <3> QED  BY <2>1, <2>2, <2>3, <3>1, <3>2 DEF LiteralForm
  <2>4. ASSUME token.type = "integer" PROVE text # <<>> /\ ToSet(text) \subseteq Digits
    <3>1. token.count >= 1 /\ n <= Len(input) /\ token.count \in Nat
      BY <2>1, <2>4 DEF LiteralForm, TokenAt
    <3>2. \A i \in 1 .. token.count : input[token.first + i] \in Digits
      BY <2>1, <2>4, <3>1 DEF LiteralForm
    <3> HIDE DEF text, n
    <3>3. \A i \in 1 .. Len(text) : text[i] \in Digits
      BY <2>2, <3>1, <3>2
    <3>4. text \in Seq(STRING) /\ Len(text) >= 1
      BY <2>2, <3>1
    <3> QED  BY <3>3, <3>4 DEF ToSet
  <2> QED  BY <2>3, <2>4 DEF LiteralsParse, Last, ToSet, ToSet
<1> QED  BY <1>1, LexInvAlways, PTL

(* Set back to where a token starts, the lexer finds the same token again, *)
(* whatever the text (parser.c:787-805).                                   *)
THEOREM AlwaysRelexesTheSame ==
  LexSpec => []RelexesTheSame
<1>1. LexInv => RelexesTheSame
  <2> SUFFICES ASSUME LexInv, NEW again \in NextTokens(token.first)
               PROVE  [again EXCEPT !.count = 0] = [token EXCEPT !.count = 0]
    BY DEF RelexesTheSame
  <2>1. token.first \in Positions /\ token.first \in Halts /\ IsText
    BY DEF LexInv, Halts
  <2>2. SkipWhitespace(token.first) = token.first
    BY <2>1, SkipsByRounds
  <2>3. again \in TokensAt(token.first) /\ token \in TokensAt(token.first)
    BY <2>2 DEF LexInv, NextTokens
  <2>4. PICK p, t : p = token.first /\ t = token
    OBVIOUS
  <2> QED  BY <2>3, <2>4, TokensAgree
<1> QED  BY <1>1, LexInvAlways, PTL

(* Of texts in which comments end as they should: lexer and token are      *)
(* inside the text.                                                        *)
InsideInv ==
  /\ LexInv /\ CommentsEnd
  /\ token.first <= Len(input) /\ token.after <= Len(input)

LEMMA TokenInside ==
  ASSUME IsText, "\n" \in Blanks, CommentsEnd, NEW p \in 0 .. Len(input),
         NEW t \in NextTokens(p)
  PROVE  /\ t.first <= Len(input) /\ t.after <= Len(input) /\ t.after \in Nat
         /\ OnlyBlanks(p, t.first)
<1>1. p \in Positions
  BY DEF Positions, IsText
<1>2. t.first = SkipWhitespace(p) /\ t.first \in Halts /\ t \in TokensAt(t.first)
  BY <1>1, NextTokensSound
<1>3. SkipWhitespace(p) \in p .. Len(input) /\ OnlyBlanks(p, t.first)
  BY <1>2, SkipStaysInside
<1>4. t.first \in Positions
  BY <1>2 DEF Halts
<1>5. TokenAt(t, t.first)
  BY <1>2, <1>4, TokensAreTokens
<1>6. t.first <= Len(input) /\ t.first \in Nat
  BY <1>2, <1>3 DEF IsText
<1> QED  BY <1>3, <1>5, <1>6 DEF TokenAt, IsText

LEMMA InsideStep ==
  ASSUME InsideInv, [LexNext]_lexerVars
  PROVE  /\ InsideInv'
         /\ UNCHANGED lexerVars \/ OnlyBlanks(token.after, token'.first)
<1>1. LexInv'
  BY LexInvNext DEF InsideInv
<1>2. input' = input
  BY DEF LexNext, AdvanceToken, lexerVars
<1>3. CommentsEnd'
  <2>1. CommentsEnd' = CommentsEnd
    BY <1>2
       DEF CommentsEnd, AtEnd, Char, NextChar, Upto,
           BlockEnd, Closes
  <2> QED  BY <2>1 DEF InsideInv
<1>4. CASE LexNext
  <2>1. PICK t : t = token'
    OBVIOUS
  <2>2. t \in NextTokens(token.after)
    BY <1>4, <2>1 DEF LexNext, AdvanceToken, InsideInv, LexInv
  <2>3. token.after \in 0 .. Len(input)
    <3>1. TokenAt(token, token.first) /\ token.first \in Positions
      BY TokensAreTokens DEF InsideInv, LexInv, Halts
    <3> QED  BY <3>1 DEF InsideInv, LexInv, TokenAt, Positions, IsText
  <2>4. /\ t.first <= Len(input) /\ t.after <= Len(input)
        /\ OnlyBlanks(token.after, t.first)
    BY <2>2, <2>3, TokenInside DEF InsideInv, LexInv
  <2> QED  BY <1>1, <1>2, <1>3, <2>1, <2>4 DEF InsideInv
<1>5. CASE UNCHANGED lexerVars
  <2>1. token' = token
    BY <1>5 DEF lexerVars
  <2> QED  BY <1>1, <1>2, <1>3, <1>5, <2>1 DEF InsideInv
<1> QED  BY <1>4, <1>5

LEMMA InsideAlways ==
  /\ LexSpec /\ CommentsEnd => []InsideInv
  /\ LexSpec /\ CommentsEnd => NothingSkipped
<1>1. LexInit /\ CommentsEnd => InsideInv
  <2> SUFFICES ASSUME LexInit, CommentsEnd PROVE InsideInv
    OBVIOUS
  <2>1. LexInv
    BY LexInvInit, LexerAssumption
  <2>2. 0 \in 0 .. Len(input) /\ token \in NextTokens(0)
    BY <2>1 DEF LexInv, IsText, LexInit
  <2>3. PICK t : t = token
    OBVIOUS
  <2> QED  BY <2>1, <2>2, <2>3, TokenInside DEF InsideInv, LexInv
<1>2. InsideInv /\ [LexNext]_lexerVars => InsideInv'
  BY InsideStep
<1>3. InsideInv /\ [LexNext]_lexerVars
        => [OnlyBlanks(token.after, token'.first)]_lexerVars
  BY InsideStep
<1> QED  BY <1>1, <1>2, <1>3, PTL DEF LexSpec, NothingSkipped

(* All lexemes lie inside the text, so that the assertions of              *)
(* make_source_location hold (parser.c:46-47), ...                         *)
THEOREM LexemesAlwaysInside ==
  LexSpec /\ CommentsEnd => []LexemesInside
<1>1. InsideInv => LexemesInside
  <2> SUFFICES ASSUME InsideInv PROVE LexemesInside
    OBVIOUS
  <2>1. TokenAt(token, token.first) /\ token.first \in Nat
    BY TokensAreTokens DEF InsideInv, LexInv, Halts, Positions, IsText
  <2> QED  BY <2>1 DEF InsideInv, TokenAt, LexemesInside
<1> QED  BY <1>1, InsideAlways, PTL

(* ... and between two tokens there is nothing but blanks and comments     *)
(* (lexer.c:147-193).  Both hold of the texts in which every comment has a *)
(* blank behind it: others make the lexer lose a character.                *)
THEOREM NothingIsSkipped == LexSpec /\ CommentsEnd => NothingSkipped
BY InsideAlways

-----------------------------------------------------------------------------
(* The table of datatypes.                                                 *)
Distinct(t) == \A i, j \in DOMAIN t : i # j => t[i] # t[j]

(* FirstEntry answers 0 only when there is no such entry.                  *)
LEMMA NoEntry ==
  ASSUME NEW S, NEW t \in Seq(S), NEW kind, NEW ref,
         FindByKindAndReference(t, kind, ref) = 0
  PROVE  \A i \in DOMAIN t : ~ (t[i].kind = kind /\ t[i].ref = ref)
<1> DEFINE found == {i \in DOMAIN t : t[i].kind = kind /\ t[i].ref = ref}
<1>1. FindByKindAndReference(t, kind, ref)
        = IF found = {} THEN 0 ELSE CHOOSE i \in found : \A j \in found : i <= j
  BY DEF FindByKindAndReference, FirstEntry
<1>2. SUFFICES ASSUME found # {} PROVE FALSE
  OBVIOUS
<1>3. found \subseteq Nat /\ 0 \notin found
  OBVIOUS
<1>4. \E i \in found : \A j \in found : i <= j
  <2> HIDE DEF found
  <2> QED  BY <1>2, <1>3, LeastElement
<1>5. (CHOOSE i \in found : \A j \in found : i <= j) \in found
  <2> HIDE DEF found
  <2> QED  BY <1>4
<1> HIDE DEF found
<1> QED  BY <1>1, <1>2, <1>3, <1>5

(* A pointer type is appended only if it is new.                           *)
LEMMA WithPointerDistinct ==
  ASSUME NEW S, NEW t \in Seq(S), NEW ref, Distinct(t)
  PROVE  /\ Distinct(WithPointerTo(t, ref))
         /\ \E R : WithPointerTo(t, ref) \in Seq(R)
         /\ \A id \in DOMAIN t : id \in DOMAIN WithPointerTo(t, ref)
                                 /\ WithPointerTo(t, ref)[id] = t[id]
<1>1. CASE FindByKindAndReference(t, "pointer", ref) # 0
  <2>1. WithPointerTo(t, ref) = t
    BY <1>1 DEF WithPointerTo
  <2> QED  BY <2>1
<1>2. CASE FindByKindAndReference(t, "pointer", ref) = 0
  <2> DEFINE d == [kind |-> "pointer", unsigned |-> FALSE, ref |-> ref, name |-> "*", size |-> 8]
  <2>1. WithPointerTo(t, ref) = Append(t, d)
    BY <1>2 DEF WithPointerTo
  <2>2. \A i \in DOMAIN t : t[i] # d
    BY <1>2, NoEntry
  <2> HIDE DEF d
  <2>3. t \in Seq(S \cup {d})
    OBVIOUS
  <2>4. Append(t, d) \in Seq(S \cup {d}) /\ DOMAIN Append(t, d) = 1 .. Len(t) + 1
        /\ \A i \in 1 .. Len(t) : Append(t, d)[i] = t[i]
    BY <2>3
  <2>5. Append(t, d)[Len(t) + 1] = d
    BY <2>3
  <2>6. DOMAIN t = 1 .. Len(t) /\ Len(t) \in Nat
    OBVIOUS
  <2>7. Distinct(Append(t, d))
    BY <2>2, <2>4, <2>5, <2>6 DEF Distinct
  <2> QED  BY <2>1, <2>4, <2>6, <2>7
<1> QED  BY <1>1, <1>2

LEMMA BaseDistinct == Distinct(BaseTypes) /\ \E R : BaseTypes \in Seq(R)
<1>1. \A i, j \in 1 .. 13 : i # j => BaseTypes[i].name # BaseTypes[j].name
  BY DEF BaseTypes, Base, Integer
<1>2. DOMAIN BaseTypes = 1 .. 13
  BY DEF BaseTypes
<1>3. BaseTypes \in Seq({BaseTypes[i] : i \in 1 .. 13})
  <2>1. BaseTypes = [i \in 1 .. 13 |-> BaseTypes[i]]
    BY DEF BaseTypes
  <2> QED  BY <2>1
<1> QED  BY <1>1, <1>2, <1>3 DEF Distinct

(* The inductive invariant.                                                *)
TableInv == Distinct(table) /\ \E R : table \in Seq(R)

(* Whatever step the checker takes, the table stays, or a pointer type is  *)
(* looked for and appended if need be.                                     *)
LEMMA TableSteps ==
  ASSUME [Next]_vars
  PROVE  UNCHANGED table \/ \E ref : table' = WithPointerTo(table, ref)
<1> USE DEF FinishWith, Stop, Finish, Call, Check, Resolve, Begin, AtNode, At
<1>1. ASSUME ChooseSyntax PROVE UNCHANGED table
  BY <1>1 DEF ChooseSyntax
<1>2. ASSUME ResolveType PROVE UNCHANGED table \/ \E ref : table' = WithPointerTo(table, ref)
  BY <1>2 DEF ResolveType, AlreadyResolved, NamedType, BeginPointer, EndPointer, BeginTypeOf,
              EndTypeOf, Unresolved
<1>3. ASSUME CheckExpression
      PROVE  UNCHANGED table \/ \E ref : table' = WithPointerTo(table, ref)
  <2>1. ASSUME EndMember PROVE UNCHANGED table \/ \E ref : table' = WithPointerTo(table, ref)
    BY <2>1 DEF EndMember
  <2> QED  BY <1>3, <2>1
     DEF CheckExpression, OtherLiteral, IntegerLiteral, Unsupported, CallOther, Identifier,
         BeginSizeOf, EndSizeOf, BeginBinary, SecondOperand, EndBinary, BeginMinus, EndMinus,
         BeginCall, CheckArguments, NextArgument, BeginAssign, EndAssign, BeginMember,
         BeginCast, CastOperand, EndCast
<1>4. ASSUME CheckStatement PROVE UNCHANGED table
  BY <1>4 DEF CheckStatement, ExpressionStatement, BeginDeclaration, TypedDeclaration,
              EndDeclaration, BeginIf, BeginFor, ForCondition, AfterCondition, ForBody,
              AfterBody, BeginReturn, EndReturn, NextStatement, EndList
<1>5. ASSUME CheckDeclaration PROVE UNCHANGED table
  BY <1>5 DEF CheckDeclaration, BeginSignature, EndReturnType, NextParameter, BeginFunction,
              NextFunction
<1>6. ASSUME UNCHANGED vars PROVE UNCHANGED table
  BY <1>6 DEF vars
<1> QED  BY <1>1, <1>2, <1>3, <1>4, <1>5, <1>6 DEF Next

LEMMA TableInductive == Spec => []TableInv
<1>1. Init => TableInv
  BY BaseDistinct DEF Init, TableInv
<1>2. TableInv /\ [Next]_vars => TableInv'
  BY TableSteps, WithPointerDistinct DEF TableInv
<1> QED  BY <1>1, <1>2, PTL DEF Spec

(* Types are compared by their ids: whatever the program, no two entries   *)
(* of the table are ever the same type.                                    *)
THEOREM IdsUnique == Spec => []OneIdPerType
<1>1. TableInv => OneIdPerType
  BY DEF TableInv, Distinct, OneIdPerType
<1> QED  BY <1>1, TableInductive, PTL

(* An id, once given, means the same type for ever: the nodes that carry   *)
(* it need not be looked at again when the table grows.                    *)
THEOREM IdsFinal ==
  Spec => [][\A id \in DOMAIN table : id \in DOMAIN table' /\ table'[id] = table[id]]_vars
<1>1. TableInv /\ [Next]_vars
        => [\A id \in DOMAIN table : id \in DOMAIN table' /\ table'[id] = table[id]]_vars
  BY TableSteps, WithPointerDistinct DEF TableInv
<1> QED  BY <1>1, TableInductive, PTL DEF Spec
-----------------------------------------------------------------------------
(* Names.  Trees are sequences of nodes in which a node's parent comes     *)
(* before it.                                                              *)
Up(t, n) ==
  LET up[i \in 0 .. Len(t)] == IF i = 0 THEN {} ELSE {i} \cup up[t[i].parent]
  IN  up[n]

Rooted(t) == Len(t) \in Nat /\ \A i \in 1 .. Len(t) : t[i].parent \in 0 .. i - 1

LEMMA UpClimbs ==
  ASSUME NEW t, Rooted(t)
  PROVE  /\ Up(t, 0) = {}
         /\ \A i \in 1 .. Len(t) : Up(t, i) = {i} \cup Up(t, t[i].parent)
<1> DEFINE n == Len(t)
           Value(f, i) == IF i = 0 THEN {} ELSE {i} \cup f[t[i].parent]
           Climbs(f, k) == f = [i \in 0 .. k |-> Value(f, i)]
           S == {k \in Nat : k <= n => \E f : Climbs(f, k)}
<1>1. 0 \in S
  <2> DEFINE f == [i \in 0 .. 0 |-> {}]
  <2>1. \A i \in 0 .. 0 : Value(f, i) = {}
    OBVIOUS
  <2>2. f = [i \in 0 .. 0 |-> Value(f, i)]
    <3> HIDE DEF Value
    <3> QED  BY <2>1
  <2> QED  BY <2>2
<1>2. ASSUME NEW k \in Nat, k \in S PROVE k + 1 \in S
  <2> SUFFICES ASSUME k + 1 <= n PROVE \E f : Climbs(f, k + 1)
    OBVIOUS
  <2>1. PICK f : Climbs(f, k)
    BY <1>2 DEF Rooted
  <2> DEFINE g == [i \in 0 .. k + 1 |-> IF i <= k THEN f[i] ELSE Value(f, i)]
  <2>2. ASSUME NEW i \in 0 .. k + 1 PROVE g[i] = Value(g, i)
    <3>1. i # 0 => t[i].parent \in 0 .. k
      BY <2>2 DEF Rooted
    <3>2. i # 0 => g[t[i].parent] = f[t[i].parent]
      BY <3>1
    <3>3. Value(g, i) = Value(f, i)
      <4> HIDE DEF g
      <4> QED  BY <3>2
    <3>4. i <= k => f[i] = Value(f, i)
      <4> HIDE DEF Value
      <4> QED  BY <2>1
    <3>5. g[i] = IF i <= k THEN f[i] ELSE Value(f, i)
      <4> HIDE DEF Value
      <4> QED  OBVIOUS
    <3> HIDE DEF g, Value
    <3> QED  BY <3>3, <3>4, <3>5
  <2>3. g = [i \in 0 .. k + 1 |-> g[i]]
    <3> HIDE DEF Value
    <3> QED  OBVIOUS
  <2>4. Climbs(g, k + 1)
    <3> HIDE DEF g, Value
    <3> QED  BY <2>2, <2>3
  <2> QED  BY <2>4
<1>3. n \in S
  <2>1. Nat \subseteq S
    <3> HIDE DEF S
    <3> QED  BY <1>1, <1>2, NatSetInduction
  <2> HIDE DEF S
  <2> QED  BY <2>1 DEF Rooted
<1>4. \E f : Climbs(f, n)
  BY <1>3 DEF Rooted
<1> DEFINE up == CHOOSE f : Climbs(f, n)
<1>5. Climbs(up, n)
  <2> HIDE DEF Climbs
  <2> QED  BY <1>4
<1>6. \A i : Up(t, i) = up[i]
  BY DEF Up
<1>7. \A i \in 0 .. n : up[i] = Value(up, i)
  <2> HIDE DEF up, Value
  <2> QED  BY <1>5
<1> HIDE DEF up
<1>8. 0 \in 0 .. n /\ \A i \in 1 .. n : i \in 0 .. n /\ i # 0
  BY DEF Rooted
<1>9. up[0] = {}
  BY <1>7, <1>8
<1>10. \A i \in 1 .. n : up[i] = {i} \cup up[t[i].parent]
  BY <1>7, <1>8
<1> QED  BY <1>6, <1>9, <1>10

(* A set that holds a node whenever it holds the parent holds them all.    *)
LEMMA TreeInduction ==
  ASSUME NEW t, Rooted(t), NEW S,
         \A i \in 1 .. Len(t) : t[i].parent \in {0} \cup S => i \in S
  PROVE  1 .. Len(t) \subseteq S
<1> DEFINE T == {k \in Nat : k <= Len(t) => 1 .. k \subseteq S}
<1>1. 0 \in T
  OBVIOUS
<1>2. ASSUME NEW k \in Nat, k \in T PROVE k + 1 \in T
  <2> SUFFICES ASSUME k + 1 <= Len(t) PROVE 1 .. k + 1 \subseteq S
    OBVIOUS
  <2>1. 1 .. k \subseteq S
    BY <1>2 DEF Rooted
  <2>2. t[k + 1].parent \in 0 .. k
    BY DEF Rooted
  <2>3. k + 1 \in S
    BY <2>1, <2>2
  <2> QED  BY <2>1, <2>3
<1>3. Nat \subseteq T
  <2> HIDE DEF T
  <2> QED  BY <1>1, <1>2, NatSetInduction
<1> QED  BY <1>3 DEF Rooted

(* What lies on the way up from a node.                                    *)
LEMMA UpIs ==
  ASSUME NEW t, Rooted(t)
  PROVE  \A n \in 1 .. Len(t) :
           /\ n \in Up(t, n) /\ Up(t, n) \subseteq 1 .. n
           /\ \A a \in Up(t, n) : t[a].parent \in {0} \cup Up(t, n)
           /\ \A a, b \in Up(t, n) : a < b => a <= t[b].parent
           /\ \A a \in Up(t, n) : a # n => \E b \in Up(t, n) : t[b].parent = a
<1> DEFINE P(n) ==
           /\ n \in Up(t, n) /\ Up(t, n) \subseteq 1 .. n
           /\ \A a \in Up(t, n) : t[a].parent \in {0} \cup Up(t, n)
           /\ \A a, b \in Up(t, n) : a < b => a <= t[b].parent
           /\ \A a \in Up(t, n) : a # n => \E b \in Up(t, n) : t[b].parent = a
           S == {n \in 1 .. Len(t) : P(n)}
<1>1. ASSUME NEW n \in 1 .. Len(t), t[n].parent \in {0} \cup S PROVE P(n)
  <2>1. PICK p : p = t[n].parent
    OBVIOUS
  <2>2. p \in 0 .. n - 1 /\ Up(t, n) = {n} \cup Up(t, p)
    BY <2>1, UpClimbs DEF Rooted
  <2>3. CASE p = 0
    <3>1. Up(t, n) = {n}
      BY <2>2, <2>3, UpClimbs
    <3>2. n \in Nat /\ n # 0
      BY DEF Rooted
    <3>3. /\ \A a \in {n} : a \in 1 .. n
          /\ t[n].parent \in {0}
          /\ ~ (n < n)
      BY <2>1, <2>3, <3>2
    <3>4. \A a \in {n} : a # n => \E b \in {n} : t[b].parent = a
      OBVIOUS
    <3> QED  BY <3>1, <3>3, <3>4
  <2>4. CASE p # 0
    <3>1. P(p)
      BY <1>1, <2>1, <2>4
    <3>2. \A a \in Up(t, p) : a \in 1 .. p /\ a \in Nat /\ a < n
      BY <3>1, <2>2
    <3>3. n \in Up(t, n) /\ Up(t, n) \subseteq 1 .. n
      BY <2>2, <3>2
    <3>4. \A a \in Up(t, n) : t[a].parent \in {0} \cup Up(t, n)
      BY <2>1, <2>2, <3>1
    <3>5. ASSUME NEW a \in Up(t, n), NEW b \in Up(t, n), a < b PROVE a <= t[b].parent
      <4>1. a \in Up(t, p)
        BY <2>2, <3>2, <3>5
      <4>2. CASE b = n
        BY <2>1, <3>2, <4>1, <4>2
      <4>3. CASE b \in Up(t, p)
        BY <3>1, <3>5, <4>1, <4>3
      <4> QED  BY <2>2, <4>2, <4>3
    <3>6. ASSUME NEW a \in Up(t, n), a # n PROVE \E b \in Up(t, n) : t[b].parent = a
      <4>1. a \in Up(t, p)
        BY <2>2, <3>6
      <4>2. CASE a = p
        BY <2>1, <3>3, <4>2
      <4>3. CASE a # p
        BY <2>2, <3>1, <4>1, <4>3
      <4> QED  BY <4>2, <4>3
    <3> QED  BY <3>3, <3>4, <3>5, <3>6
  <2> QED  BY <2>3, <2>4
<1>2. 1 .. Len(t) \subseteq S
  <2>1. \A i \in 1 .. Len(t) : t[i].parent \in {0} \cup S => i \in S
    BY <1>1
  <2> HIDE DEF S
  <2> QED  BY <2>1, TreeInduction
<1> QED  BY <1>2

(* The way up has one node below any other, and one that has no parent.    *)
LEMMA UpIsALine ==
  ASSUME NEW t, Rooted(t), NEW n \in 1 .. Len(t), NEW a \in Up(t, n), NEW b \in Up(t, n),
         t[a].parent = t[b].parent
  PROVE  a = b
<1>1. a \in 1 .. Len(t) /\ b \in 1 .. Len(t)
  BY UpIs DEF Rooted
<1>2. t[a].parent < a /\ t[b].parent < b /\ t[a].parent \in Nat
  BY <1>1 DEF Rooted
<1>3. (a < b => a <= t[b].parent) /\ (b < a => b <= t[a].parent)
  BY UpIs
<1> QED  BY <1>1, <1>2, <1>3

LEMMA UpKept ==
  ASSUME NEW t, NEW u, Rooted(t), Rooted(u), Len(t) <= Len(u),
         \A i \in 1 .. Len(t) : u[i].parent = t[i].parent
  PROVE  \A n \in 0 .. Len(t) : Up(u, n) = Up(t, n)
<1> DEFINE S == {n \in 1 .. Len(t) : Up(u, n) = Up(t, n)}
<1>1. ASSUME NEW i \in 1 .. Len(t), t[i].parent \in {0} \cup S PROVE i \in S
  <2>1. Up(u, i) = {i} \cup Up(u, t[i].parent) /\ Up(t, i) = {i} \cup Up(t, t[i].parent)
    BY UpClimbs, SMTT(30) DEF Rooted
  <2>2. Up(u, 0) = {} /\ Up(t, 0) = {}
    BY UpClimbs
  <2> QED  BY <1>1, <2>1, <2>2
<1>2. 1 .. Len(t) \subseteq S
  <2> HIDE DEF S
  <2> QED  BY <1>1, TreeInduction
<1>3. Up(u, 0) = Up(t, 0)
  BY UpClimbs
<1>4. \A n \in 0 .. Len(t) : n = 0 \/ n \in 1 .. Len(t)
  BY DEF Rooted
<1> QED  BY <1>2, <1>3, <1>4

-----------------------------------------------------------------------------
(* The shape of the trees that the parser builds.                          *)
IsNode(r) ==
  r = [kind |-> r.kind, parent |-> r.parent, role |-> r.role, name |-> r.name,
       type |-> r.type, decl |-> r.decl, value |-> r.value]
IsTree(t) == Rooted(t) /\ (\E R : t \in Seq(R)) /\ \A i \in 1 .. Len(t) : IsNode(t[i])

ParentKinds ==
  [statement |-> {"function", "block"}, body |-> {"if", "for"}, decl |-> {"for"},
   parameter |-> {"function"}]
RolesOf ==
  [declaration |-> {"statement", "body", "decl", "parameter"}, if |-> {"statement", "body"},
   for |-> {"statement", "body"}, block |-> {"statement", "body"}]

(* Functions come first and are the roots; some roles need a parent of a   *)
(* certain kind, some kinds a certain role.                                *)
RolesFit(t) ==
  \A i \in 1 .. Len(t) :
    /\ t[i].role = "function" <=> t[i].parent = 0
    /\ t[i].role = "function" <=> t[i].kind = "function"
    /\ t[i].role = "function" => \A j \in 1 .. i : t[j].role = "function"
    /\ t[i].role \in DOMAIN ParentKinds => t[t[i].parent].kind \in ParentKinds[t[i].role]
    /\ t[i].kind \in DOMAIN RolesOf => t[i].role \in RolesOf[t[i].kind]
    /\ t[i].role = "parameter" => t[i].kind = "declaration"
    /\ t[i].parent # 0 /\ t[t[i].parent].kind = "block" => t[i].role = "statement"

(* Parameters come before statements, a loop's variable before the rest of *)
(* the loop, and what is not known has no parts and means nothing.         *)
InOrder(t) ==
  \A i, j \in 1 .. Len(t) :
    /\ t[i].role = "parameter" /\ t[j].role = "statement" => i < j
    /\ t[i].role = "decl" /\ t[j].parent = t[i].parent /\ j # i => i < j
    /\ t[i].kind = "?" => t[j].parent # i /\ t[i].decl = 0

(* The function in whose signature a node is, by its way up.               *)
Sig(t, n) ==
  LET up[i \in 0 .. Len(t)] ==
        IF i = 0 \/ t[i].role = "statement" THEN 0
        ELSE IF t[t[i].parent].kind = "function" THEN t[i].parent
        ELSE up[t[i].parent]
  IN  up[n]

Bodied(t, n) == \E m \in Up(t, n) : t[m].role = "statement"

LEMMA SigClimbs ==
  ASSUME NEW t, Rooted(t)
  PROVE  /\ Sig(t, 0) = 0
         /\ \A i \in 1 .. Len(t) :
              Sig(t, i) = IF t[i].role = "statement" THEN 0
                          ELSE IF t[t[i].parent].kind = "function" THEN t[i].parent
                          ELSE Sig(t, t[i].parent)
<1> DEFINE n == Len(t)
           Value(f, i) == IF i = 0 \/ t[i].role = "statement" THEN 0
                          ELSE IF t[t[i].parent].kind = "function" THEN t[i].parent
                          ELSE f[t[i].parent]
           Climbs(f, k) == f = [i \in 0 .. k |-> Value(f, i)]
           S == {k \in Nat : k <= n => \E f : Climbs(f, k)}
<1>1. 0 \in S
  <2> DEFINE f == [i \in 0 .. 0 |-> 0]
  <2>1. \A i \in 0 .. 0 : Value(f, i) = 0
    OBVIOUS
  <2>2. f = [i \in 0 .. 0 |-> Value(f, i)]
    <3> HIDE DEF Value
    <3> QED  BY <2>1
  <2> QED  BY <2>2
<1>2. ASSUME NEW k \in Nat, k \in S PROVE k + 1 \in S
  <2> SUFFICES ASSUME k + 1 <= n PROVE \E f : Climbs(f, k + 1)
    OBVIOUS
  <2>1. PICK f : Climbs(f, k)
    BY <1>2 DEF Rooted
  <2> DEFINE g == [i \in 0 .. k + 1 |-> IF i <= k THEN f[i] ELSE Value(f, i)]
  <2>2. ASSUME NEW i \in 0 .. k + 1 PROVE g[i] = Value(g, i)
    <3>1. i # 0 => t[i].parent \in 0 .. k
      BY <2>2 DEF Rooted
    <3>2. i # 0 => g[t[i].parent] = f[t[i].parent]
      BY <3>1
    <3>3. Value(g, i) = Value(f, i)
      <4> HIDE DEF g
      <4> QED  BY <3>2
    <3>4. i <= k => f[i] = Value(f, i)
      <4> HIDE DEF Value
      <4> QED  BY <2>1
    <3>5. g[i] = IF i <= k THEN f[i] ELSE Value(f, i)
      <4> HIDE DEF Value
      <4> QED  OBVIOUS
    <3> HIDE DEF g, Value
    <3> QED  BY <3>3, <3>4, <3>5
  <2>3. g = [i \in 0 .. k + 1 |-> g[i]]
    <3> HIDE DEF Value
    <3> QED  OBVIOUS
  <2>4. Climbs(g, k + 1)
    <3> HIDE DEF g, Value
    <3> QED  BY <2>2, <2>3
  <2> QED  BY <2>4
<1>3. n \in S
  <2>1. Nat \subseteq S
    <3> HIDE DEF S
    <3> QED  BY <1>1, <1>2, NatSetInduction
  <2> HIDE DEF S
  <2> QED  BY <2>1 DEF Rooted
<1>4. \E f : Climbs(f, n)
  BY <1>3 DEF Rooted
<1> DEFINE up == CHOOSE f : Climbs(f, n)
<1>5. Climbs(up, n)
  <2> HIDE DEF Climbs
  <2> QED  BY <1>4
<1>6. \A i : Sig(t, i) = up[i]
  BY DEF Sig
<1>7. \A i \in 0 .. n : up[i] = Value(up, i)
  <2> HIDE DEF up, Value
  <2> QED  BY <1>5
<1> HIDE DEF up
<1>8. 0 \in 0 .. n /\ \A i \in 1 .. n : i \in 0 .. n /\ i # 0
  BY DEF Rooted
<1>9. up[0] = 0
  BY <1>7, <1>8
<1>10. \A i \in 1 .. n :
         up[i] = IF t[i].role = "statement" THEN 0
                 ELSE IF t[t[i].parent].kind = "function" THEN t[i].parent
                 ELSE up[t[i].parent]
  BY <1>7, <1>8
<1> QED  BY <1>6, <1>9, <1>10

(* Whatever is in no signature is a function or in a body.                 *)
LEMMA SigIs ==
  ASSUME NEW t, Rooted(t), RolesFit(t)
  PROVE  \A n \in 1 .. Len(t) :
           Sig(t, n) = 0 <=> (t[n].role = "function" \/ Bodied(t, n))
<1> DEFINE P(n) == Sig(t, n) = 0 <=> (t[n].role = "function" \/ Bodied(t, n))
           S == {n \in 1 .. Len(t) : P(n)}
<1>1. ASSUME NEW n \in 1 .. Len(t), t[n].parent \in {0} \cup S PROVE P(n)
  <2>1. PICK p : p = t[n].parent
    OBVIOUS
  <2>2. p \in 0 .. n - 1 /\ Up(t, n) = {n} \cup Up(t, p) /\ Up(t, 0) = {}
    BY <2>1, UpClimbs DEF Rooted
  <2>3. Sig(t, n) = IF t[n].role = "statement" THEN 0
                    ELSE IF t[p].kind = "function" THEN p ELSE Sig(t, p)
    BY <2>1, SigClimbs
  <2>4. CASE p = 0
    <3>1. t[n].role = "function"
      BY <2>1, <2>4 DEF RolesFit
    <3>2. Sig(t, n) = 0
      BY <2>3, <2>4, SigClimbs
    <3> QED  BY <3>1, <3>2
  <2>5. CASE p # 0
    <3>1. P(p) /\ p \in 1 .. Len(t) /\ t[n].role # "function"
      BY <1>1, <2>1, <2>5 DEF RolesFit
    <3>2. Bodied(t, n) <=> (t[n].role = "statement" \/ Bodied(t, p))
      BY <2>2 DEF Bodied
    <3>3. t[p].kind = "function" <=> t[p].role = "function"
      BY <3>1 DEF RolesFit
    <3>4. t[p].role = "function" => ~ Bodied(t, p)
      <4>1. t[p].role = "function" => t[p].parent = 0
        BY <3>1 DEF RolesFit
      <4>2. t[p].role = "function" => Up(t, p) = {p}
        BY <3>1, <4>1, <2>2, UpClimbs
      <4> QED  BY <4>2 DEF Bodied
    <3> QED  BY <2>3, <2>5, <3>1, <3>2, <3>3, <3>4
  <2> QED  BY <2>4, <2>5
<1>2. 1 .. Len(t) \subseteq S
  <2>1. \A i \in 1 .. Len(t) : t[i].parent \in {0} \cup S => i \in S
    BY <1>1
  <2> HIDE DEF S
  <2> QED  BY <2>1, TreeInduction
<1> QED  BY <1>2

(* In a body the way up reaches the function at one of its statements.     *)
LEMMA BodyChild ==
  ASSUME NEW t, Rooted(t), RolesFit(t), NEW n \in 1 .. Len(t), Bodied(t, n),
         NEW b \in Up(t, n), t[b].parent # 0, t[t[b].parent].kind = "function"
  PROVE  t[b].role = "statement"
<1> DEFINE M == {j \in Up(t, n) : t[j].role \in {"statement", "body"}}
<1>1. Up(t, n) \subseteq 1 .. Len(t)
  BY UpIs DEF Rooted
<1>2. PICK k \in M : \A j \in M : k <= j
  <2>1. M \subseteq Nat /\ M # {}
    BY <1>1 DEF Bodied
  <2> HIDE DEF M
  <2> QED  BY <2>1, LeastElement
<1>3. PICK p : p = t[k].parent
  OBVIOUS
<1>4. p # 0 /\ p \in Up(t, n) /\ p \in 1 .. Len(t) /\ p < k
  <2>1. k \in 1 .. Len(t) /\ k \in Up(t, n) /\ t[k].role # "function"
    BY <1>1, <1>2
  <2>2. p # 0 /\ p \in 0 .. k - 1
    BY <1>3, <2>1 DEF RolesFit, Rooted
  <2>3. p \in {0} \cup Up(t, n)
    BY <1>3, <2>1, UpIs
  <2> QED  BY <1>1, <2>1, <2>2, <2>3
<1>5. t[p].kind \in {"function", "block", "if", "for"}
      /\ (t[k].role = "body" => t[p].kind # "function")
  BY <1>1, <1>2, <1>3 DEF RolesFit, ParentKinds
<1>6. t[p].kind = "function"
  <2> SUFFICES ASSUME t[p].kind # "function" PROVE FALSE
    OBVIOUS
  <2>1. t[p].role \in {"statement", "body"}
    BY <1>4, <1>5 DEF RolesFit, RolesOf
  <2>2. p \in M /\ k \in Nat /\ p \in Nat
    BY <1>1, <1>2, <1>4, <2>1
  <2> QED  BY <1>2, <1>4, <2>2
<1>7. t[b].parent \in Up(t, n) /\ t[b].parent \in 1 .. Len(t)
  BY <1>1, UpIs
<1>8. t[p].parent = 0 /\ t[t[b].parent].parent = 0
  BY <1>4, <1>6, <1>7 DEF RolesFit
<1>9. p = t[b].parent
  BY <1>4, <1>7, <1>8, UpIsALine
<1>10. k = b
  BY <1>2, <1>3, <1>9, UpIsALine
<1> QED  BY <1>2, <1>5, <1>6, <1>10

-----------------------------------------------------------------------------
(* What find_declaration_by_name answers: the first declaration of the     *)
(* innermost scope that has any.                                           *)
Firsts(f, t, found) ==
  f = [i \in 1 .. Len(t) |->
         IF t[i].parent = 0 THEN 0
         ELSE IF found[i] # {} THEN Least(found[i]) ELSE f[t[i].parent]]

LEMMA FirstsExist ==
  ASSUME NEW t, Rooted(t), NEW found
  PROVE  \E f : Firsts(f, t, found)
<1> DEFINE n == Len(t)
           Value(f, i) == IF t[i].parent = 0 THEN 0
                          ELSE IF found[i] # {} THEN Least(found[i]) ELSE f[t[i].parent]
           Climbs(f, k) == f = [i \in 1 .. k |-> Value(f, i)]
           S == {k \in Nat : k <= n => \E f : Climbs(f, k)}
<1>1. 0 \in S
  <2> DEFINE f == [i \in 1 .. 0 |-> 0]
  <2>1. f = [i \in 1 .. 0 |-> Value(f, i)]
    <3> HIDE DEF Value
    <3> QED  OBVIOUS
  <2> QED  BY <2>1
<1>2. ASSUME NEW k \in Nat, k \in S PROVE k + 1 \in S
  <2> SUFFICES ASSUME k + 1 <= n PROVE \E f : Climbs(f, k + 1)
    <3> HIDE DEF Climbs
    <3> QED  OBVIOUS
  <2>1. PICK f : Climbs(f, k)
    <3> HIDE DEF Climbs
    <3> QED  BY <1>2 DEF Rooted
  <2> DEFINE g == [i \in 1 .. k + 1 |-> IF i <= k THEN f[i] ELSE Value(f, i)]
  <2>2. ASSUME NEW i \in 1 .. k + 1 PROVE g[i] = Value(g, i)
    <3>1. t[i].parent # 0 => t[i].parent \in 1 .. k
      BY <2>2 DEF Rooted
    <3>2. t[i].parent # 0 => g[t[i].parent] = f[t[i].parent]
      BY <3>1
    <3>3. Value(g, i) = Value(f, i)
      <4> HIDE DEF g
      <4> QED  BY <3>2
    <3>4. i <= k => f[i] = Value(f, i)
      <4> HIDE DEF Value
      <4> QED  BY <2>1
    <3>5. g[i] = IF i <= k THEN f[i] ELSE Value(f, i)
      <4> HIDE DEF Value
      <4> QED  OBVIOUS
    <3> HIDE DEF g, Value
    <3> QED  BY <3>3, <3>4, <3>5
  <2>3. g = [i \in 1 .. k + 1 |-> g[i]]
    <3> HIDE DEF Value
    <3> QED  OBVIOUS
  <2>4. Climbs(g, k + 1)
    <3> HIDE DEF g, Value
    <3> QED  BY <2>2, <2>3
  <2> HIDE DEF Climbs
  <2> QED  BY <2>4
<1>3. n \in S
  <2>1. Nat \subseteq S
    <3> HIDE DEF S
    <3> QED  BY <1>1, <1>2, NatSetInduction
  <2> HIDE DEF S
  <2> QED  BY <2>1 DEF Rooted
<1>4. \E f : Climbs(f, n)
  <2> HIDE DEF Climbs
  <2> QED  BY <1>3 DEF Rooted
<1> QED  BY <1>4 DEF Firsts

LEMMA FindClimbs ==
  ASSUME Rooted(ast), DOMAIN ast = 1 .. Len(ast), NEW x
  PROVE  \A n \in 1 .. Len(ast) :
           FindDeclaration(n, x)
             = IF ast[n].parent = 0 THEN 0
               ELSE IF DeclaredIn(ast[n].parent, n, x) # {}
                    THEN Least(DeclaredIn(ast[n].parent, n, x))
                    ELSE FindDeclaration(ast[n].parent, x)
<1> DEFINE Value(f, i) ==
             IF ast[i].parent = 0 THEN 0
             ELSE IF DeclaredIn(ast[i].parent, i, x) # {}
                  THEN Least(DeclaredIn(ast[i].parent, i, x)) ELSE f[ast[i].parent]
           Climbs(f) == f = [i \in DOMAIN ast |-> Value(f, i)]
<1>1. \E f : Climbs(f)
  <2> DEFINE all == [i \in 1 .. Len(ast) |-> DeclaredIn(ast[i].parent, i, x)]
  <2>1. \A i \in 1 .. Len(ast) : all[i] = DeclaredIn(ast[i].parent, i, x)
    OBVIOUS
  <2> HIDE DEF all
  <2>2. PICK t, found : t = ast /\ found = all
    OBVIOUS
  <2>3. PICK f : Firsts(f, t, found)
    <3>1. Rooted(t)
      BY <2>2
    <3> QED  BY <3>1, FirstsExist, Zenon
  <2>4. f = [i \in 1 .. Len(ast) |->
               IF ast[i].parent = 0 THEN 0
               ELSE IF all[i] # {} THEN Least(all[i]) ELSE f[ast[i].parent]]
    BY <2>2, <2>3 DEF Firsts
  <2>5. f = [i \in 1 .. Len(ast) |-> Value(f, i)]
    BY <2>1, <2>4
  <2> QED  BY <2>5
<1> DEFINE find == CHOOSE f : Climbs(f)
<1>2. Climbs(find)
  <2> HIDE DEF Climbs
  <2> QED  BY <1>1
<1>3. \A i : FindDeclaration(i, x) = find[i]
  BY DEF FindDeclaration
<1>4. \A i \in 1 .. Len(ast) : find[i] = Value(find, i)
  <2> HIDE DEF find, Value
  <2> QED  BY <1>2
<1> HIDE DEF find
<1> QED  BY <1>3, <1>4

FoundAt(n, x, b) ==
  /\ ast[b].parent # 0
  /\ DeclaredIn(ast[b].parent, b, x) # {}
  /\ FindDeclaration(n, x) = Least(DeclaredIn(ast[b].parent, b, x))
  /\ \A c \in Up(ast, n) :
       b < c => ast[c].parent # 0 /\ DeclaredIn(ast[c].parent, c, x) = {}

LEMMA FindIs ==
  ASSUME Rooted(ast), DOMAIN ast = 1 .. Len(ast), NEW x
  PROVE  \A n \in 1 .. Len(ast) :
           FindDeclaration(n, x) # 0 => \E b \in Up(ast, n) : FoundAt(n, x, b)
<1> DEFINE P(n) == FindDeclaration(n, x) # 0 => \E b \in Up(ast, n) : FoundAt(n, x, b)
           S == {n \in 1 .. Len(ast) : P(n)}
<1>1. ASSUME NEW n \in 1 .. Len(ast), ast[n].parent \in {0} \cup S PROVE P(n)
  <2> SUFFICES ASSUME FindDeclaration(n, x) # 0
               PROVE  \E b \in Up(ast, n) : FoundAt(n, x, b)
    OBVIOUS
  <2>1. PICK p : p = ast[n].parent
    OBVIOUS
  <2>2. /\ p # 0
        /\ FindDeclaration(n, x) = IF DeclaredIn(p, n, x) # {} THEN Least(DeclaredIn(p, n, x))
                                   ELSE FindDeclaration(p, x)
    BY <2>1, FindClimbs
  <2>3. n \in Up(ast, n) /\ Up(ast, n) \subseteq 1 .. n
    BY UpIs
  <2>4. CASE DeclaredIn(p, n, x) # {}
    <3>1. \A c \in Up(ast, n) : ~ (n < c)
      BY <2>3
    <3>2. FoundAt(n, x, n)
      BY <2>1, <2>2, <2>4, <3>1 DEF FoundAt
    <3> QED  BY <2>3, <3>2
  <2>5. CASE DeclaredIn(p, n, x) = {}
    <3>1. p \in 1 .. Len(ast) /\ P(p)
      BY <1>1, <2>1, <2>2
    <3>2. FindDeclaration(p, x) = FindDeclaration(n, x)
      BY <2>2, <2>5
    <3>3. PICK b \in Up(ast, p) : FoundAt(p, x, b)
      BY <3>1, <3>2
    <3>4. Up(ast, n) = {n} \cup Up(ast, p)
      BY <2>1, UpClimbs
    <3>5. FoundAt(n, x, b)
      BY <2>1, <2>2, <2>5, <3>2, <3>3, <3>4 DEF FoundAt
    <3> QED  BY <3>3, <3>4, <3>5
  <2> QED  BY <2>4, <2>5
<1>2. 1 .. Len(ast) \subseteq S
  <2>1. \A i \in 1 .. Len(ast) : ast[i].parent \in {0} \cup S => i \in S
    BY <1>1
  <2> HIDE DEF S
  <2> QED
    <3>1. PICK t, T : t = ast /\ T = S
      OBVIOUS
    <3> QED  BY <2>1, <3>1, TreeInduction
<1> QED  BY <1>2

-----------------------------------------------------------------------------
(* The property of a name and its declaration, in a given tree.            *)
Scoped(t, d, n) ==
  /\ d < n /\ d \notin Up(t, n) /\ t[d].parent \in Up(t, n)
  /\ t[d].kind = "declaration" /\ t[d].role # "body"
Innermost(t, e, d) ==
  \/ t[e].parent < t[d].parent
  \/ t[e].parent = t[d].parent /\ t[e].role = "parameter"
  \/ t[e].parent = t[d].parent /\ d < e /\ t[d].role # "parameter"
Follows(t, n, d) ==
  /\ d \in 1 .. Len(t) /\ t[d].kind = "declaration"
  /\ Scoped(t, d, n) \/ (t[d].role = "decl" /\ d \in Up(t, n))
  /\ \A e \in 1 .. Len(t) :
       Scoped(t, e, n) /\ t[e].name = t[d].name /\ e # d => Innermost(t, e, d)

(* A construct that is still open, and may become a declaration.           *)
Open(t, e) == e \in 1 .. Len(t) /\ t[e].kind = "?" /\ t[e].role \in {"statement", "decl"}

(* The way up goes through the statements that were added last.            *)
OnTheEdge(t, n) ==
  \A c \in Up(t, n) : t[c].role = "statement" =>
    \A j \in 1 .. Len(t) : t[j].role = "statement" /\ t[j].parent = t[c].parent => j <= c

(* Where a declaration is visible that find_declaration_by_name sees.      *)
LEMMA SeenFrom ==
  ASSUME DOMAIN ast = 1 .. Len(ast), Rooted(ast), RolesFit(ast), InOrder(ast), NEW x,
         NEW n \in 1 .. Len(ast), Bodied(ast, n), NEW b \in Up(ast, n),
         NEW d \in DeclaredIn(ast[b].parent, b, x), ast[b].parent # 0
  PROVE  /\ d \in 1 .. Len(ast) /\ ast[d].kind = "declaration" /\ ast[d].name = x
         /\ ast[d].parent = ast[b].parent
         /\ Scoped(ast, d, n) \/ (ast[d].role = "decl" /\ d \in Up(ast, n))
<1>1. PICK s : s = ast[b].parent
  OBVIOUS
<1>2. /\ d \in 1 .. Len(ast) /\ ast[d].kind = "declaration" /\ ast[d].name = x
      /\ ast[d].parent = s
      /\ \/ ast[d].role = "statement" /\ d < b
         \/ ast[d].role = "parameter" /\ ast[s].kind = "function"
         \/ ast[d].role = "decl"
  BY <1>1 DEF DeclaredIn, Children
<1>3. b \in 1 .. n /\ s \in Up(ast, n) /\ n \in Nat
  <2>1. Up(ast, n) \subseteq 1 .. n /\ ast[b].parent \in {0} \cup Up(ast, n)
    BY UpIs
  <2> QED  BY <1>1, <2>1
<1>4. d \in Up(ast, n) => d = b
  BY <1>1, <1>2, UpIsALine
<1>5. CASE ast[d].role = "statement" /\ d < b
  <2>1. d # b /\ d < n
    BY <1>2, <1>3, <1>5
  <2> QED  BY <1>1, <1>2, <1>3, <1>4, <1>5, <2>1 DEF Scoped
<1>6. CASE ast[d].role = "parameter" /\ ast[s].kind = "function"
  <2>1. ast[b].role = "statement"
    BY <1>1, <1>6, BodyChild
  <2>2. d < b
    BY <1>2, <1>3, <1>6, <2>1 DEF InOrder
  <2>3. d # b /\ d < n
    BY <1>2, <1>3, <2>2
  <2> QED  BY <1>1, <1>2, <1>3, <1>4, <1>6, <2>3 DEF Scoped
<1>7. CASE ast[d].role = "decl"
  <2>1. CASE d = b
    BY <1>1, <1>2, <1>7, <2>1
  <2>2. CASE d # b
    <3>1. d < b
      BY <1>1, <1>2, <1>3, <1>7, <2>2 DEF InOrder
    <3>2. d < n
      BY <1>2, <1>3, <3>1
    <3> QED  BY <1>1, <1>2, <1>3, <1>4, <1>7, <2>2, <3>2 DEF Scoped
  <2> QED  BY <2>1, <2>2
<1> QED  BY <1>2, <1>5, <1>6, <1>7

(* All that is in scope is seen from the way up.                           *)
LEMMA ScopedIsSeen ==
  ASSUME DOMAIN ast = 1 .. Len(ast), Rooted(ast), RolesFit(ast), InOrder(ast),
         NEW n \in 1 .. Len(ast), Bodied(ast, n), OnTheEdge(ast, n),
         NEW c \in Up(ast, n), ast[c].parent # 0,
         NEW e \in 1 .. Len(ast), Scoped(ast, e, n), ast[e].parent = ast[c].parent
  PROVE  /\ DeclaredIn(ast[c].parent, c, ast[e].name) # {}
         /\ ast[e].role # "parameter" => e \in DeclaredIn(ast[c].parent, c, ast[e].name)
         /\ ast[e].role # "parameter" =>
              \A i \in DeclaredIn(ast[c].parent, c, ast[e].name) : ast[i].role # "parameter"
<1>1. PICK s : s = ast[c].parent
  OBVIOUS
<1>2. c \in 1 .. Len(ast) /\ s \in 1 .. Len(ast) /\ e # c
  <2>1. Up(ast, n) \subseteq 1 .. n /\ c \in 1 .. n
    BY UpIs
  <2> QED  BY <1>1, <2>1 DEF Rooted, Scoped
<1>3. /\ ast[e].kind = "declaration" /\ ast[e].parent = s
      /\ ast[e].role \in {"statement", "decl", "parameter"}
  BY <1>1 DEF Scoped, RolesFit, RolesOf
<1>4. CASE ast[e].role = "parameter"
  <2>1. ast[s].kind = "function"
    BY <1>3, <1>4 DEF RolesFit, ParentKinds
  <2> QED  BY <1>1, <1>3, <1>4, <2>1 DEF DeclaredIn, Children
<1>5. CASE ast[e].role = "decl"
  <2>1. ast[s].kind = "for"
    BY <1>3, <1>5 DEF RolesFit, ParentKinds
  <2> QED  BY <1>1, <1>3, <1>5, <2>1 DEF DeclaredIn, Children
<1>6. CASE ast[e].role = "statement"
  <2>1. ast[s].kind \in {"function", "block"}
    BY <1>3, <1>6 DEF RolesFit, ParentKinds
  <2>2. ast[c].role = "statement"
    <3>1. ast[s].kind = "function" => ast[c].role = "statement"
      BY <1>1, BodyChild
    <3>2. ast[s].kind = "block" => ast[c].role = "statement"
      BY <1>1, <1>2 DEF RolesFit
    <3> QED  BY <2>1, <3>1, <3>2
  <2>3. e <= c
    BY <1>1, <1>3, <1>6, <2>2 DEF OnTheEdge
  <2>4. e < c
    BY <1>2, <2>3
  <2> QED  BY <1>1, <1>3, <1>6, <2>1, <2>4 DEF DeclaredIn, Children
<1> QED  BY <1>3, <1>4, <1>5, <1>6

(* A name in a body that is looked up while nothing before it is open.     *)
LEMMA LookupFollows ==
  ASSUME DOMAIN ast = 1 .. Len(ast), Rooted(ast), RolesFit(ast), InOrder(ast), NEW x,
         NEW n \in 1 .. Len(ast), Bodied(ast, n), OnTheEdge(ast, n),
         ast[n].kind # "block", ast[n].kind # "for", ast[n].kind # "function",
         FindDeclaration(n, x) # 0
  PROVE  Follows(ast, n, FindDeclaration(n, x))
<1>1. PICK b \in Up(ast, n) : FoundAt(n, x, b)
  BY FindIs
<1>2. PICK s, d : s = ast[b].parent /\ d = FindDeclaration(n, x)
  OBVIOUS
<1>3. b \in 1 .. Len(ast) /\ Up(ast, n) \subseteq 1 .. Len(ast)
  BY UpIs DEF Rooted
<1>4. d \in DeclaredIn(s, b, x) /\ \A i \in DeclaredIn(s, b, x) : d <= i
  <2>1. PICK T : T = DeclaredIn(s, b, x)
    OBVIOUS
  <2>2. T \subseteq Nat /\ T # {}
    <3>1. DeclaredIn(s, b, x) \subseteq 1 .. Len(ast)
      BY DEF DeclaredIn, Children
    <3> QED  BY <1>1, <1>2, <2>1, <3>1 DEF FoundAt, Rooted
  <2>3. \E i \in T : \A j \in T : i <= j
    BY <2>2, LeastElement
  <2>4. Least(T) \in T /\ \A i \in T : Least(T) <= i
    BY <2>3 DEF Least
  <2> QED  BY <1>1, <1>2, <2>1, <2>4 DEF FoundAt
<1>5. /\ d \in 1 .. Len(ast) /\ ast[d].kind = "declaration" /\ ast[d].name = x
      /\ ast[d].parent = s
      /\ Scoped(ast, d, n) \/ (ast[d].role = "decl" /\ d \in Up(ast, n))
  <2>1. ast[b].parent # 0 /\ d \in DeclaredIn(ast[b].parent, b, x)
    BY <1>1, <1>2, <1>4 DEF FoundAt
  <2>2. /\ d \in 1 .. Len(ast) /\ ast[d].kind = "declaration" /\ ast[d].name = x
        /\ ast[d].parent = ast[b].parent
        /\ Scoped(ast, d, n) \/ (ast[d].role = "decl" /\ d \in Up(ast, n))
    <3>1. PICK c : c = b
      OBVIOUS
    <3>2. c \in Up(ast, n) /\ ast[c].parent # 0 /\ d \in DeclaredIn(ast[c].parent, c, x)
      BY <1>1, <2>1, <3>1, Zenon
    <3>3. /\ d \in 1 .. Len(ast) /\ ast[d].kind = "declaration" /\ ast[d].name = x
          /\ ast[d].parent = ast[c].parent
          /\ Scoped(ast, d, n) \/ (ast[d].role = "decl" /\ d \in Up(ast, n))
      BY <3>2, SeenFrom, ZenonT(30)
    <3> QED  BY <3>1, <3>3, Zenon
  <2> QED  BY <1>2, <2>2
<1>6. ASSUME NEW e \in 1 .. Len(ast), Scoped(ast, e, n), ast[e].name = x, e # d
      PROVE  Innermost(ast, e, d)
  <2>1. PICK p : p = ast[e].parent
    OBVIOUS
  <2>2. p \in Up(ast, n) /\ p \in 1 .. Len(ast) /\ p # 0
    BY <1>3, <1>6, <2>1 DEF Scoped, Rooted
  <2>3. p # n
    <3>1. ast[e].role \in {"statement", "decl", "parameter"}
      BY <1>6 DEF Scoped, RolesFit, RolesOf
    <3>2. ast[p].kind \in {"function", "block", "for"}
      BY <2>1, <3>1 DEF RolesFit, ParentKinds
    <3> QED  BY <3>2
  <2>4. PICK c \in Up(ast, n) : ast[c].parent = p
    BY <2>2, <2>3, UpIs
  <2>5. c \in 1 .. Len(ast) /\ s \in 0 .. b - 1 /\ p \in 0 .. c - 1
    BY <1>2, <1>3, <2>4 DEF Rooted
  <2>6. /\ DeclaredIn(p, c, x) # {}
        /\ ast[e].role # "parameter" => e \in DeclaredIn(p, c, x)
        /\ ast[e].role # "parameter" =>
             \A i \in DeclaredIn(p, c, x) : ast[i].role # "parameter"
    BY <1>6, <2>1, <2>2, <2>4, ScopedIsSeen
  <2>7. CASE p = s
    <3>1. c = b
      BY <1>2, <2>4, <2>7, UpIsALine
    <3>2. ast[e].role # "parameter" => d < e /\ ast[d].role # "parameter"
      <4>1. ast[e].role # "parameter" => d <= e /\ ast[d].role # "parameter"
        BY <1>4, <2>6, <2>7, <3>1
      <4> QED  BY <1>5, <1>6, <4>1
    <3> QED  BY <1>5, <2>1, <2>7, <3>2 DEF Innermost
  <2>8. CASE p < s
    BY <1>5, <2>1, <2>8 DEF Innermost
  <2>9. CASE s < p
    <3>1. b < c
      <4>1. c # b
        BY <1>2, <2>4, <2>5, <2>9
      <4>2. c < b => c <= s
        BY <1>2, <2>4, UpIs
      <4> QED  BY <1>3, <2>5, <2>9, <4>1, <4>2
    <3> QED  BY <1>1, <2>4, <2>6, <3>1 DEF FoundAt
  <2> QED  BY <2>5, <2>7, <2>8, <2>9, <1>3
<1> QED  BY <1>2, <1>5, <1>6 DEF Follows

-----------------------------------------------------------------------------
(* How the tree changes: a node is updated, becomes a construct, or is     *)
(* added to a list of statements.                                          *)
Needed ==
  [pointer |-> {"left"}, type_of |-> {"left"}, minus |-> {"left"}, member |-> {"left"},
   size_of |-> {"type_def"}, cast |-> {"type_def", "left"}, compare |-> {"left", "right"},
   arithmetic |-> {"left", "right"}, assign |-> {"right"}, call |-> {"argument"},
   return |-> {"left"}, if |-> {"left", "body"}, for |-> {"decl", "left", "right", "body"}]

(* Constructs have their parts.                                            *)
Complete(t) ==
  \A i \in 1 .. Len(t) :
    /\ t[i].kind \in DOMAIN Needed =>
         \A r \in Needed[t[i].kind] : \E j \in 1 .. Len(t) : t[j].parent = i /\ t[j].role = r
    /\ t[i].kind = "declaration" =>
         \E j \in 1 .. Len(t) : t[j].parent = i /\ t[j].role \in {"type_def", "right"}

FunctionsNamed(t, x) == {f \in 1 .. Len(t) : t[f].role = "function" /\ t[f].name = x}
Callee(t, x) == IF FunctionsNamed(t, x) = {} THEN 0 ELSE Least(FunctionsNamed(t, x))
CallsFit(t) ==
  \A i \in 1 .. Len(t) :
    t[i].kind = "call" /\ t[i].decl # 0 => t[i].decl = Callee(t, t[i].name)

Structured(t) == IsTree(t) /\ RolesFit(t) /\ InOrder(t) /\ Complete(t) /\ CallsFit(t)

SameKind(old, new) ==
  new = old \/ (old \in {"size_of", "minus"} /\ new = "integer")

Extends(t, u) ==
  /\ Len(t) <= Len(u)
  /\ \A i \in 1 .. Len(t) :
       /\ u[i].parent = t[i].parent /\ u[i].role = t[i].role
       /\ t[i].kind # "?" => u[i].name = t[i].name /\ SameKind(t[i].kind, u[i].kind)

Updated(t, u, k) ==
  /\ (\E R : u \in Seq(R)) /\ Len(u) = Len(t)
  /\ \A i \in 1 .. Len(t) :
       /\ IsNode(u[i])
       /\ u[i].parent = t[i].parent /\ u[i].role = t[i].role /\ u[i].name = t[i].name
       /\ SameKind(t[i].kind, u[i].kind)
       /\ i # k => u[i].decl = t[i].decl
       /\ t[i].kind \notin {"identifier", "assign", "call"} => u[i].decl = t[i].decl
       /\ t[i].kind = "call" =>
            u[i].decl = t[i].decl \/ (u[i].decl = Callee(t, t[i].name) /\ u[i].decl # 0)

ShapeFits(role, kind, roles) ==
  /\ kind \notin {"?", "function"}
  /\ kind \in DOMAIN RolesOf => role \in RolesOf[kind]
  /\ kind = "block" => Len(roles) = 0
  /\ Len(roles) \in Nat
  /\ \A j \in 1 .. Len(roles) :
       /\ roles[j] \in {"left", "right", "type_def", "argument", "body", "decl"}
       /\ roles[j] = "body" => kind \in {"if", "for"}
       /\ roles[j] = "decl" => kind = "for" /\ j = 1
  /\ kind \in DOMAIN Needed => \A r \in Needed[kind] : \E j \in 1 .. Len(roles) : roles[j] = r
  /\ kind = "declaration" => \E j \in 1 .. Len(roles) : roles[j] \in {"type_def", "right"}

Grown(t, u, w, roles) ==
  /\ (\E R : u \in Seq(R)) /\ Len(u) = Len(t) + Len(roles)
  /\ w \in 1 .. Len(t) /\ t[w].kind = "?" /\ ShapeFits(t[w].role, u[w].kind, roles)
  /\ \A i \in 1 .. Len(t) : i # w => u[i] = t[i]
  /\ IsNode(u[w]) /\ u[w].parent = t[w].parent /\ u[w].role = t[w].role /\ u[w].decl = t[w].decl
  /\ \A i \in Len(t) + 1 .. Len(t) + Len(roles) : u[i] = Unknown(w, roles[i - Len(t)])

Listed(t, u, b) ==
  /\ u = Append(t, Unknown(b, "statement"))
  /\ b \in 1 .. Len(t) /\ t[b].kind \in {"function", "block"}

LEMMA CalleeKept ==
  ASSUME NEW t, NEW u, Len(t) \in Nat, Len(u) \in Nat, Extends(t, u), RolesFit(t),
         \A i \in 1 .. Len(u) : i <= Len(t) \/ u[i].role # "function"
  PROVE  \A x : Callee(u, x) = Callee(t, x)
<1> SUFFICES ASSUME NEW x PROVE FunctionsNamed(u, x) = FunctionsNamed(t, x)
  BY DEF Callee
<1>1. ASSUME NEW i \in 1 .. Len(t) PROVE t[i].role = "function" => u[i].name = t[i].name
  BY DEF RolesFit, Extends
<1> QED  BY <1>1 DEF FunctionsNamed, Extends

LEMMA UpdatedTree ==
  ASSUME NEW t, NEW u, NEW k, Structured(t), Updated(t, u, k)
  PROVE  Structured(u) /\ Extends(t, u)
<1>1. Len(t) \in Nat /\ Len(u) = Len(t)
  BY DEF Structured, IsTree, Rooted, Updated
<1>2. Extends(t, u)
  BY <1>1 DEF Updated, Extends
<1>3. IsTree(u)
  BY <1>1 DEF Updated, Structured, IsTree, Rooted
<1>4. ASSUME NEW i \in 1 .. Len(t)
      PROVE  /\ u[i].kind = t[i].kind
                \/ (t[i].kind \in {"size_of", "minus"} /\ u[i].kind = "integer")
             /\ u[i].parent = t[i].parent /\ u[i].role = t[i].role
  BY DEF Updated, SameKind
<1>5. RolesFit(u)
  <2> SUFFICES ASSUME NEW i \in 1 .. Len(t)
               PROVE  /\ u[i].role = "function" <=> u[i].parent = 0
                      /\ u[i].role = "function" <=> u[i].kind = "function"
                      /\ u[i].role = "function" => \A j \in 1 .. i : u[j].role = "function"
                      /\ u[i].role \in DOMAIN ParentKinds =>
                           u[u[i].parent].kind \in ParentKinds[u[i].role]
                      /\ u[i].kind \in DOMAIN RolesOf => u[i].role \in RolesOf[u[i].kind]
                      /\ u[i].role = "parameter" => u[i].kind = "declaration"
                      /\ u[i].parent # 0 /\ u[u[i].parent].kind = "block"
                           => u[i].role = "statement"
    BY <1>1 DEF RolesFit
  <2>1. /\ t[i].role = "function" <=> t[i].parent = 0
        /\ t[i].role = "function" <=> t[i].kind = "function"
        /\ t[i].role = "function" => \A j \in 1 .. i : t[j].role = "function"
        /\ t[i].role \in DOMAIN ParentKinds =>
             t[t[i].parent].kind \in ParentKinds[t[i].role]
        /\ t[i].kind \in DOMAIN RolesOf => t[i].role \in RolesOf[t[i].kind]
        /\ t[i].role = "parameter" => t[i].kind = "declaration"
        /\ t[i].parent # 0 /\ t[t[i].parent].kind = "block" => t[i].role = "statement"
    BY DEF Structured, RolesFit
  <2>2. t[i].parent # 0 => t[i].parent \in 1 .. Len(t)
    BY DEF Structured, IsTree, Rooted
  <2>3. t[i].role = "function" => \A j \in 1 .. i : u[j].role = "function"
    BY <1>1, <1>4, <2>1
  <2>4. t[i].parent # 0 =>
          \/ u[t[i].parent].kind = t[t[i].parent].kind
          \/ t[t[i].parent].kind \in {"size_of", "minus"} /\ u[t[i].parent].kind = "integer"
    BY <1>4, <2>2
  <2>5. t[i].role \in DOMAIN ParentKinds => t[i].parent # 0
    BY <2>1 DEF ParentKinds
  <2>6. t[i].role \in DOMAIN ParentKinds => ~ ParentKinds[t[i].role] \cap {"size_of", "minus"} # {}
    BY DEF ParentKinds
  <2>7. "integer" \notin DOMAIN RolesOf
    BY DEF RolesOf
  <2> QED  BY <1>4, <2>1, <2>3, <2>4, <2>5, <2>6, <2>7
<1>6. InOrder(u)
  <2>1. ASSUME NEW i \in 1 .. Len(t) PROVE t[i].kind = "?" => u[i].decl = t[i].decl
    BY DEF Updated
  <2> QED  BY <1>1, <1>4, <2>1 DEF Structured, InOrder
<1>7. Complete(u)
  <2> SUFFICES ASSUME NEW i \in 1 .. Len(t)
               PROVE  /\ u[i].kind \in DOMAIN Needed =>
                           \A r \in Needed[u[i].kind] :
                             \E j \in 1 .. Len(t) : u[j].parent = i /\ u[j].role = r
                      /\ u[i].kind = "declaration" =>
                           \E j \in 1 .. Len(t) :
                             u[j].parent = i /\ u[j].role \in {"type_def", "right"}
    BY <1>1 DEF Complete
  <2>1. "integer" \notin DOMAIN Needed
    BY DEF Needed
  <2> QED  BY <1>4, <2>1 DEF Structured, Complete
<1>8. CallsFit(u)
  <2>1. \A x : Callee(u, x) = Callee(t, x)
    BY <1>1, <1>2, CalleeKept DEF Structured
  <2> SUFFICES ASSUME NEW i \in 1 .. Len(t), u[i].kind = "call", u[i].decl # 0
               PROVE  u[i].decl = Callee(t, u[i].name)
    BY <1>1, <2>1 DEF CallsFit
  <2>2. t[i].kind = "call"
    BY <1>4
  <2>3. u[i].name = t[i].name /\ (u[i].decl = t[i].decl \/ u[i].decl = Callee(t, t[i].name))
    BY <2>2 DEF Updated
  <2> QED  BY <2>2, <2>3 DEF Structured, CallsFit
<1> QED  BY <1>2, <1>3, <1>5, <1>6, <1>7, <1>8 DEF Structured

LEMMA UnknownIs ==
  ASSUME NEW p, NEW r
  PROVE  /\ IsNode(Unknown(p, r)) /\ Unknown(p, r).parent = p /\ Unknown(p, r).role = r
         /\ Unknown(p, r).kind = "?" /\ Unknown(p, r).decl = 0
BY DEF Unknown, Node, IsNode

LEMMA GrownTree ==
  ASSUME NEW t, NEW u, NEW w, NEW roles, Structured(t), Grown(t, u, w, roles)
  PROVE  Structured(u) /\ Extends(t, u)
<1> DEFINE New == Len(t) + 1 .. Len(t) + Len(roles)
<1>1. /\ Len(t) \in Nat /\ Len(roles) \in Nat /\ Len(u) = Len(t) + Len(roles) /\ Len(u) \in Nat
      /\ w \in 1 .. Len(t) /\ t[w].kind = "?"
  BY DEF Structured, IsTree, Rooted, Grown, ShapeFits
<1>2. 1 .. Len(u) = 1 .. Len(t) \cup New /\ \A i \in New : i \notin 1 .. Len(t) /\ i > Len(t)
  BY <1>1
<1>3. ASSUME NEW i \in 1 .. Len(t)
      PROVE  /\ u[i].parent = t[i].parent /\ u[i].role = t[i].role /\ u[i].decl = t[i].decl
             /\ i # w => u[i] = t[i]
             /\ IsNode(u[i])
  BY DEF Grown, Structured, IsTree
<1>4. ASSUME NEW i \in New
      PROVE  /\ u[i] = Unknown(w, roles[i - Len(t)])
             /\ IsNode(u[i]) /\ u[i].parent = w /\ u[i].kind = "?" /\ u[i].decl = 0
             /\ i - Len(t) \in 1 .. Len(roles) /\ u[i].role = roles[i - Len(t)]
  <2>1. u[i] = Unknown(w, roles[i - Len(t)])
    BY DEF Grown
  <2>2. i - Len(t) \in 1 .. Len(roles)
    BY <1>1
  <2>3. PICK r : r = roles[i - Len(t)]
    OBVIOUS
  <2>4. u[i] = Unknown(w, r)
    BY <2>1, <2>3
  <2>5. /\ IsNode(Unknown(w, r)) /\ Unknown(w, r).parent = w /\ Unknown(w, r).role = r
        /\ Unknown(w, r).kind = "?" /\ Unknown(w, r).decl = 0
    BY UnknownIs
  <2> QED  BY <2>2, <2>3, <2>4, <2>5
<1>5. ShapeFits(t[w].role, u[w].kind, roles)
  BY DEF Grown
<1>6. ASSUME NEW i \in New
      PROVE  /\ u[i].role \in {"left", "right", "type_def", "argument", "body", "decl"}
             /\ u[i].role = "body" => u[w].kind \in {"if", "for"}
             /\ u[i].role = "decl" => u[w].kind = "for" /\ i = Len(t) + 1
  BY <1>1, <1>4, <1>5, SMTT(30) DEF ShapeFits
<1>7. \A i \in 1 .. Len(t) : t[i].parent \in 0 .. i - 1 /\ t[i].parent # w
  BY <1>1 DEF Structured, IsTree, Rooted, InOrder
<1>8. Extends(t, u)
  <2>1. Len(t) <= Len(u)
    BY <1>1
  <2> QED  BY <1>1, <1>3, <2>1 DEF Extends, SameKind
<1>9. IsTree(u)
  <2>1. ASSUME NEW i \in 1 .. Len(u) PROVE u[i].parent \in 0 .. i - 1 /\ IsNode(u[i])
    <3>1. CASE i \in 1 .. Len(t)
      BY <1>3, <1>7, <3>1
    <3>2. CASE i \in New
      BY <1>1, <1>2, <1>4, <3>2
    <3> QED  BY <1>2, <3>1, <3>2
  <2>2. \E R : u \in Seq(R)
    BY DEF Grown
  <2> QED  BY <1>1, <2>1, <2>2 DEF IsTree, Rooted
<1>10. ASSUME NEW i \in 1 .. Len(t)
       PROVE  /\ i # w => u[i].kind = t[i].kind
              /\ i # w => u[i].name = t[i].name
              /\ u[w].kind \notin {"?", "function"}
  BY <1>3, <1>5 DEF ShapeFits
<1>11. RolesFit(u)
  <2>1. ASSUME NEW i \in 1 .. Len(t)
        PROVE  /\ t[i].role = "function" <=> t[i].parent = 0
               /\ t[i].role = "function" <=> t[i].kind = "function"
               /\ t[i].role = "function" => \A j \in 1 .. i : t[j].role = "function"
               /\ t[i].role \in DOMAIN ParentKinds =>
                    t[t[i].parent].kind \in ParentKinds[t[i].role]
               /\ t[i].kind \in DOMAIN RolesOf => t[i].role \in RolesOf[t[i].kind]
               /\ t[i].role = "parameter" => t[i].kind = "declaration"
               /\ t[i].parent # 0 /\ t[t[i].parent].kind = "block" => t[i].role = "statement"
    BY DEF Structured, RolesFit
  <2>2. ASSUME NEW i \in 1 .. Len(t)
        PROVE  /\ u[i].role = "function" <=> u[i].parent = 0
               /\ u[i].role = "function" <=> u[i].kind = "function"
               /\ u[i].role = "function" => \A j \in 1 .. i : u[j].role = "function"
               /\ u[i].role \in DOMAIN ParentKinds =>
                    u[u[i].parent].kind \in ParentKinds[u[i].role]
               /\ u[i].kind \in DOMAIN RolesOf => u[i].role \in RolesOf[u[i].kind]
               /\ u[i].role = "parameter" => u[i].kind = "declaration"
               /\ u[i].parent # 0 /\ u[u[i].parent].kind = "block" => u[i].role = "statement"
    <3>1. u[i].role = "function" => \A j \in 1 .. i : u[j].role = "function"
      BY <1>1, <1>3, <2>1
    <3>2. t[i].parent # 0 => u[t[i].parent].kind = t[t[i].parent].kind
      <4>1. PICK q : q = t[i].parent
        OBVIOUS
      <4>2. q \in 0 .. i - 1 /\ q # w
        BY <1>7, <4>1
      <4>3. q # 0 => q \in 1 .. Len(t)
        BY <1>1, <4>2
      <4>4. q # 0 => u[q].kind = t[q].kind
        BY <1>10, <4>2, <4>3
      <4> QED  BY <4>1, <4>4
    <3>3. t[i].role \in DOMAIN ParentKinds => t[i].parent # 0
      BY <2>1 DEF ParentKinds
    <3>4. u[i].role = "function" <=> u[i].kind = "function"
      BY <1>1, <1>3, <1>10, <2>1
    <3>5. u[i].kind \in DOMAIN RolesOf => u[i].role \in RolesOf[u[i].kind]
      <4>1. CASE i = w
        BY <1>3, <1>5, <4>1 DEF ShapeFits
      <4>2. CASE i # w
        BY <1>3, <2>1, <4>2
      <4> QED  BY <4>1, <4>2
    <3>6. u[i].role = "parameter" => u[i].kind = "declaration"
      BY <1>1, <1>3, <1>10, <2>1
    <3>7. /\ u[i].role = "function" <=> u[i].parent = 0
          /\ u[i].role \in DOMAIN ParentKinds =>
               u[u[i].parent].kind \in ParentKinds[u[i].role]
          /\ u[i].parent # 0 /\ u[u[i].parent].kind = "block" => u[i].role = "statement"
      BY <1>3, <2>1, <3>2, <3>3
    <3> QED  BY <3>1, <3>4, <3>5, <3>6, <3>7
  <2>3. ASSUME NEW i \in New
        PROVE  /\ u[i].role # "function" /\ u[i].parent # 0 /\ u[i].kind # "function"
               /\ u[i].role \in DOMAIN ParentKinds =>
                    u[u[i].parent].kind \in ParentKinds[u[i].role]
               /\ u[i].kind \notin DOMAIN RolesOf
               /\ u[i].role # "parameter"
               /\ u[u[i].parent].kind # "block"
    <3>1. u[i].role \in {"left", "right", "type_def", "argument", "body", "decl"}
          /\ u[i].parent = w /\ u[i].kind = "?"
      BY <1>4, <1>6
    <3>2. u[w].kind # "block"
      BY <1>1, <1>4, <1>5 DEF ShapeFits
    <3>3. u[i].role \in DOMAIN ParentKinds => u[w].kind \in ParentKinds[u[i].role]
      BY <1>6, <3>1 DEF ParentKinds
    <3> QED  BY <1>1, <3>1, <3>2, <3>3 DEF RolesOf
  <2> QED  BY <1>2, <2>2, <2>3 DEF RolesFit
<1>12. InOrder(u)
  <2> SUFFICES ASSUME NEW i \in 1 .. Len(u), NEW j \in 1 .. Len(u)
               PROVE  /\ u[i].role = "parameter" /\ u[j].role = "statement" => i < j
                      /\ u[i].role = "decl" /\ u[j].parent = u[i].parent /\ j # i => i < j
                      /\ u[i].kind = "?" => u[j].parent # i /\ u[i].decl = 0
    BY DEF InOrder
  <2>1. CASE i \in 1 .. Len(t) /\ j \in 1 .. Len(t)
    <3>1. /\ t[i].role = "parameter" /\ t[j].role = "statement" => i < j
          /\ t[i].role = "decl" /\ t[j].parent = t[i].parent /\ j # i => i < j
          /\ t[i].kind = "?" => t[j].parent # i /\ t[i].decl = 0
      BY <2>1 DEF Structured, InOrder
    <3> QED  BY <1>3, <1>10, <2>1, <3>1
  <2>2. CASE i \in 1 .. Len(t) /\ j \in New
    <3>1. u[j].role # "statement" /\ u[j].parent = w
      BY <1>4, <1>6, <2>2
    <3>2. u[i].parent # w
      BY <1>3, <1>7, <2>2
    <3>3. u[i].kind = "?" => i # w /\ u[i].decl = 0
      BY <1>3, <1>10, <2>2 DEF Structured, InOrder
    <3> QED  BY <3>1, <3>2, <3>3
  <2>3. CASE i \in New /\ j \in 1 .. Len(t)
    <3>1. u[j].parent \in 0 .. j - 1 /\ u[j].parent # w
      BY <1>3, <1>7, <2>3
    <3>2. u[i].role # "parameter" /\ u[i].parent = w /\ u[i].decl = 0
      BY <1>4, <1>6, <2>3
    <3>3. u[j].parent # i
      BY <1>1, <1>2, <2>3, <3>1
    <3> QED  BY <3>1, <3>2, <3>3
  <2>4. CASE i \in New /\ j \in New
    <3>1. u[i].role # "parameter" /\ (u[i].role = "decl" => i = Len(t) + 1)
      BY <1>6, <2>4
    <3>2. u[j].parent = w /\ w # i /\ u[i].decl = 0
      BY <1>1, <1>2, <1>4, <2>4
    <3>3. j # Len(t) + 1 => Len(t) + 1 < j
      BY <1>1, <2>4
    <3> QED  BY <3>1, <3>2, <3>3
  <2> QED  BY <1>2, <2>1, <2>2, <2>3, <2>4
<1>13. Complete(u)
  <2> SUFFICES ASSUME NEW i \in 1 .. Len(u)
               PROVE  /\ u[i].kind \in DOMAIN Needed =>
                           \A r \in Needed[u[i].kind] :
                             \E j \in 1 .. Len(u) : u[j].parent = i /\ u[j].role = r
                      /\ u[i].kind = "declaration" =>
                           \E j \in 1 .. Len(u) :
                             u[j].parent = i /\ u[j].role \in {"type_def", "right"}
    BY DEF Complete
  <2>1. CASE i \in New
    BY <1>4, <2>1 DEF Needed
  <2>2. CASE i = w
    <3>1. ASSUME NEW j \in 1 .. Len(roles)
          PROVE  \E k \in 1 .. Len(u) : u[k].parent = w /\ u[k].role = roles[j]
      <4>1. j + Len(t) \in New /\ (j + Len(t)) - Len(t) = j
        BY <1>1
      <4> QED  BY <1>2, <1>4, <4>1
    <3>2. u[w].kind \in DOMAIN Needed =>
            \A r \in Needed[u[w].kind] : \E j \in 1 .. Len(roles) : roles[j] = r
      BY <1>5 DEF ShapeFits
    <3>3. u[w].kind = "declaration" =>
            \E j \in 1 .. Len(roles) : roles[j] \in {"type_def", "right"}
      BY <1>5 DEF ShapeFits
    <3>4. ASSUME u[w].kind \in DOMAIN Needed, NEW r \in Needed[u[w].kind]
          PROVE  \E k \in 1 .. Len(u) : u[k].parent = w /\ u[k].role = r
      <4>1. PICK j \in 1 .. Len(roles) : roles[j] = r
        BY <3>2, <3>4
      <4>2. PICK k \in 1 .. Len(u) : u[k].parent = w /\ u[k].role = roles[j]
        BY <3>1
      <4> QED  BY <4>1, <4>2
    <3>5. ASSUME u[w].kind = "declaration"
          PROVE  \E k \in 1 .. Len(u) : u[k].parent = w /\ u[k].role \in {"type_def", "right"}
      <4>1. PICK j \in 1 .. Len(roles) : roles[j] \in {"type_def", "right"}
        BY <3>3, <3>5
      <4>2. PICK k \in 1 .. Len(u) : u[k].parent = w /\ u[k].role = roles[j]
        BY <3>1
      <4> QED  BY <4>1, <4>2
    <3> QED  BY <2>2, <3>4, <3>5
  <2>3. CASE i \in 1 .. Len(t) /\ i # w
    <3>1. u[i].kind = t[i].kind
      BY <1>10, <2>3
    <3>2. \A j \in 1 .. Len(t) :
            j \in 1 .. Len(u) /\ u[j].parent = t[j].parent /\ u[j].role = t[j].role
      BY <1>2, <1>3
    <3> QED  BY <2>3, <3>1, <3>2 DEF Structured, Complete
  <2> QED  BY <1>2, <2>1, <2>2, <2>3
<1>14. CallsFit(u)
  <2>1. \A i \in 1 .. Len(u) : i <= Len(t) \/ u[i].role # "function"
    BY <1>1, <1>2, <1>6
  <2>2. \A x : Callee(u, x) = Callee(t, x)
    BY <1>1, <1>8, <2>1, CalleeKept DEF Structured
  <2> SUFFICES ASSUME NEW i \in 1 .. Len(u), u[i].kind = "call", u[i].decl # 0
               PROVE  u[i].decl = Callee(t, u[i].name)
    BY <2>2 DEF CallsFit
  <2>3. i \in 1 .. Len(t) /\ i # w
    <3>1. i \notin New
      BY <1>4
    <3>2. t[w].decl = 0
      BY <1>1 DEF Structured, InOrder
    <3> QED  BY <1>1, <1>2, <1>3, <3>1, <3>2
  <2>4. u[i] = t[i]
    BY <1>3, <2>3
  <2> QED  BY <2>3, <2>4 DEF Structured, CallsFit
<1> QED  BY <1>8, <1>9, <1>11, <1>12, <1>13, <1>14 DEF Structured

LEMMA ListedTree ==
  ASSUME NEW t, NEW u, NEW b, Structured(t), Listed(t, u, b)
  PROVE  Structured(u) /\ Extends(t, u) /\ Len(u) = Len(t) + 1
         /\ u[Len(t) + 1] = Unknown(b, "statement") /\ \A i \in 1 .. Len(t) : u[i] = t[i]
<1> DEFINE m == Len(t) + 1
<1>1. PICK R : t \in Seq(R)
  BY DEF Structured, IsTree
<1>2. PICK x : x = Unknown(b, "statement")
  OBVIOUS
<1>3. /\ IsNode(x) /\ x.parent = b /\ x.role = "statement" /\ x.kind = "?" /\ x.decl = 0
  BY <1>2, UnknownIs
<1>4. t \in Seq(R \cup {x}) /\ u = Append(t, x)
  BY <1>1, <1>2 DEF Listed
<1>5. /\ Len(t) \in Nat /\ Len(u) = m /\ u[m] = x /\ \A i \in 1 .. Len(t) : u[i] = t[i]
      /\ u \in Seq(R \cup {x})
  BY <1>4
<1>6. 1 .. Len(u) = 1 .. Len(t) \cup {m} /\ m \notin 1 .. Len(t)
  BY <1>5
<1>7. b \in 1 .. Len(t) /\ t[b].kind \in {"function", "block"} /\ u[b] = t[b]
  BY <1>5 DEF Listed
<1>8. \A i \in 1 .. Len(t) : t[i].parent \in 0 .. i - 1
  BY DEF Structured, IsTree, Rooted
<1>9. Extends(t, u)
  BY <1>5 DEF Extends, SameKind
<1>10. IsTree(u)
  <2>1. ASSUME NEW i \in 1 .. Len(u) PROVE u[i].parent \in 0 .. i - 1 /\ IsNode(u[i])
    <3>1. CASE i \in 1 .. Len(t)
      BY <1>5, <1>8, <3>1 DEF Structured, IsTree
    <3>2. CASE i = m
      BY <1>3, <1>5, <1>7, <3>2
    <3> QED  BY <1>6, <3>1, <3>2
  <2> QED  BY <1>5, <2>1 DEF IsTree, Rooted
<1>11. RolesFit(u)
  <2> SUFFICES ASSUME NEW i \in 1 .. Len(u)
               PROVE  /\ u[i].role = "function" <=> u[i].parent = 0
                      /\ u[i].role = "function" <=> u[i].kind = "function"
                      /\ u[i].role = "function" => \A j \in 1 .. i : u[j].role = "function"
                      /\ u[i].role \in DOMAIN ParentKinds =>
                           u[u[i].parent].kind \in ParentKinds[u[i].role]
                      /\ u[i].kind \in DOMAIN RolesOf => u[i].role \in RolesOf[u[i].kind]
                      /\ u[i].role = "parameter" => u[i].kind = "declaration"
                      /\ u[i].parent # 0 /\ u[u[i].parent].kind = "block"
                           => u[i].role = "statement"
    BY DEF RolesFit
  <2>1. CASE i \in 1 .. Len(t)
    <3>1. /\ t[i].role = "function" <=> t[i].parent = 0
          /\ t[i].role = "function" <=> t[i].kind = "function"
          /\ t[i].role = "function" => \A j \in 1 .. i : t[j].role = "function"
          /\ t[i].role \in DOMAIN ParentKinds =>
               t[t[i].parent].kind \in ParentKinds[t[i].role]
          /\ t[i].kind \in DOMAIN RolesOf => t[i].role \in RolesOf[t[i].kind]
          /\ t[i].role = "parameter" => t[i].kind = "declaration"
          /\ t[i].parent # 0 /\ t[t[i].parent].kind = "block" => t[i].role = "statement"
      BY <2>1 DEF Structured, RolesFit
    <3>2. u[i] = t[i] /\ (t[i].parent # 0 => u[t[i].parent] = t[t[i].parent])
      <4>1. PICK q : q = t[i].parent
        OBVIOUS
      <4>2. Len(t) \in Nat /\ \A j \in 1 .. Len(t) : u[j] = t[j]
        BY <1>5
      <4>3. q \in 0 .. i - 1
        BY <1>8, <2>1, <4>1
      <4>4. q # 0 => q \in 1 .. Len(t)
        BY <2>1, <4>2, <4>3
      <4> QED  BY <2>1, <4>1, <4>2, <4>4
    <3>3. t[i].role = "function" => \A j \in 1 .. i : u[j].role = "function"
      BY <1>5, <2>1, <3>1
    <3>4. t[i].role \in DOMAIN ParentKinds => t[i].parent # 0
      BY <3>1 DEF ParentKinds
    <3> QED  BY <3>1, <3>2, <3>3, <3>4
  <2>2. CASE i = m
    <3>1. u[i].parent = b /\ u[i].role = "statement" /\ u[i].kind = "?" /\ b # 0
      BY <1>3, <1>5, <1>7, <2>2
    <3> QED  BY <1>7, <3>1 DEF ParentKinds, RolesOf
  <2> QED  BY <1>6, <2>1, <2>2
<1>12. InOrder(u)
  <2> SUFFICES ASSUME NEW i \in 1 .. Len(u), NEW j \in 1 .. Len(u)
               PROVE  /\ u[i].role = "parameter" /\ u[j].role = "statement" => i < j
                      /\ u[i].role = "decl" /\ u[j].parent = u[i].parent /\ j # i => i < j
                      /\ u[i].kind = "?" => u[j].parent # i /\ u[i].decl = 0
    BY DEF InOrder
  <2>1. CASE i \in 1 .. Len(t) /\ j \in 1 .. Len(t)
    <3>1. /\ t[i].role = "parameter" /\ t[j].role = "statement" => i < j
          /\ t[i].role = "decl" /\ t[j].parent = t[i].parent /\ j # i => i < j
          /\ t[i].kind = "?" => t[j].parent # i /\ t[i].decl = 0
      BY <2>1 DEF Structured, InOrder
    <3> QED  BY <1>5, <2>1, <3>1
  <2>2. CASE i \in 1 .. Len(t) /\ j = m
    <3>1. i < j
      BY <1>5, <2>2
    <3>2. u[i] = t[i] /\ u[j].parent = b
      BY <1>3, <1>5, <2>2
    <3>3. t[i].kind = "?" => b # i /\ t[i].decl = 0
      BY <1>7, <2>2 DEF Structured, InOrder
    <3> QED  BY <3>1, <3>2, <3>3
  <2>3. CASE i = m
    <3>1. u[i].role = "statement" /\ u[i].decl = 0
      BY <1>3, <1>5, <2>3
    <3>2. u[j].parent # m
      BY <1>3, <1>5, <1>6, <1>7, <1>8, SMTT(30)
    <3> QED  BY <2>3, <3>1, <3>2
  <2> QED  BY <1>6, <2>1, <2>2, <2>3
<1>13. Complete(u)
  <2> SUFFICES ASSUME NEW i \in 1 .. Len(u)
               PROVE  /\ u[i].kind \in DOMAIN Needed =>
                           \A r \in Needed[u[i].kind] :
                             \E j \in 1 .. Len(u) : u[j].parent = i /\ u[j].role = r
                      /\ u[i].kind = "declaration" =>
                           \E j \in 1 .. Len(u) :
                             u[j].parent = i /\ u[j].role \in {"type_def", "right"}
    BY DEF Complete
  <2>1. CASE i = m
    BY <1>3, <1>5, <2>1 DEF Needed
  <2>2. CASE i \in 1 .. Len(t)
    BY <1>5, <1>6, <2>2 DEF Structured, Complete
  <2> QED  BY <1>6, <2>1, <2>2
<1>14. CallsFit(u)
  <2>1. \A i \in 1 .. Len(u) : i <= Len(t) \/ u[i].role # "function"
    BY <1>3, <1>5, <1>6
  <2>2. \A x1 : Callee(u, x1) = Callee(t, x1)
    BY <1>5, <1>9, <2>1, CalleeKept DEF Structured
  <2> SUFFICES ASSUME NEW i \in 1 .. Len(u), u[i].kind = "call", u[i].decl # 0
               PROVE  u[i].decl = Callee(t, u[i].name)
    BY <2>2 DEF CallsFit
  <2>3. i \in 1 .. Len(t) /\ u[i] = t[i]
    BY <1>3, <1>5, <1>6
  <2> QED  BY <2>3 DEF Structured, CallsFit
<1> QED  BY <1>2, <1>5, <1>9, <1>10, <1>11, <1>12, <1>13, <1>14 DEF Structured

-----------------------------------------------------------------------------
(* A name that was resolved keeps its meaning: nothing that is still open  *)
(* before it is in a scope that it is in.                                  *)
Settled(t, n) ==
  \A e \in 1 .. Len(t) :
    Open(t, e) /\ e < n /\ e \notin Up(t, n) => t[e].parent \notin Up(t, n)

LEMMA ScopedKept ==
  ASSUME NEW t, NEW u, Structured(t), Structured(u), Extends(t, u),
         NEW n \in 1 .. Len(t), Settled(t, n), NEW e \in 1 .. Len(u), Scoped(u, e, n)
  PROVE  e \in 1 .. Len(t) /\ Scoped(t, e, n)
<1>1. Up(u, n) = Up(t, n)
  <2>1. \A i \in 1 .. Len(t) : u[i].parent = t[i].parent
    BY DEF Extends
  <2>2. n \in 0 .. Len(t)
    OBVIOUS
  <2> QED  BY <2>1, <2>2, UpKept DEF Structured, IsTree, Extends
<1>2. e \in 1 .. Len(t)
  BY DEF Scoped, Structured, IsTree, Rooted
<1>3. u[e].parent = t[e].parent /\ u[e].role = t[e].role
  BY <1>2 DEF Extends
<1>4. t[e].kind # "?"
  <2> SUFFICES ASSUME t[e].kind = "?" PROVE FALSE
    OBVIOUS
  <2>1. t[e].role \in {"statement", "decl"}
    <3>1. u[e].role \in {"statement", "body", "decl", "parameter"}
      BY DEF Scoped, Structured, RolesFit, RolesOf
    <3>2. t[e].role # "parameter"
      BY <1>2 DEF Structured, RolesFit
    <3> QED  BY <1>3, <3>1, <3>2 DEF Scoped
  <2>2. Open(t, e)
    BY <1>2, <2>1 DEF Open
  <2> QED  BY <1>1, <1>2, <1>3, <2>2 DEF Settled, Scoped
<1>5. t[e].kind = "declaration"
  BY <1>2, <1>4 DEF Extends, SameKind, Scoped
<1> QED  BY <1>1, <1>2, <1>3, <1>5 DEF Scoped

LEMMA FollowsKept ==
  ASSUME NEW t, NEW u, Structured(t), Structured(u), Extends(t, u),
         NEW n \in 1 .. Len(t), NEW d, Follows(t, n, d), Settled(t, n)
  PROVE  Follows(u, n, d) /\ Settled(u, n)
<1>1. Up(u, n) = Up(t, n)
  <2>1. \A i \in 1 .. Len(t) : u[i].parent = t[i].parent
    BY DEF Extends
  <2>2. n \in 0 .. Len(t)
    OBVIOUS
  <2> QED  BY <2>1, <2>2, UpKept DEF Structured, IsTree, Extends
<1>2. Len(t) \in Nat /\ Len(u) \in Nat /\ Len(t) <= Len(u)
  BY DEF Structured, IsTree, Rooted, Extends
<1>3. /\ d \in 1 .. Len(t) /\ d \in 1 .. Len(u)
      /\ u[d].parent = t[d].parent /\ u[d].role = t[d].role /\ u[d].name = t[d].name
      /\ u[d].kind = "declaration"
  BY <1>2 DEF Follows, Extends, SameKind
<1>4. Scoped(t, d, n) => Scoped(u, d, n)
  BY <1>1, <1>3 DEF Scoped
<1>5. ASSUME NEW e \in 1 .. Len(u), Scoped(u, e, n), u[e].name = u[d].name, e # d
      PROVE  Innermost(u, e, d)
  <2>1. e \in 1 .. Len(t) /\ Scoped(t, e, n)
    BY <1>5, ScopedKept
  <2>2. u[e].parent = t[e].parent /\ u[e].role = t[e].role /\ u[e].name = t[e].name
    BY <2>1 DEF Extends, Scoped
  <2>3. Innermost(t, e, d)
    BY <1>3, <1>5, <2>1, <2>2 DEF Follows
  <2> QED  BY <1>3, <2>2, <2>3 DEF Innermost
<1>6. Settled(u, n)
  <2> SUFFICES ASSUME NEW e \in 1 .. Len(u), Open(u, e), e < n, e \notin Up(u, n)
               PROVE  u[e].parent \notin Up(u, n)
    BY DEF Settled
  <2>1. e \in 1 .. Len(t)
    BY <1>2
  <2>2. u[e].parent = t[e].parent /\ u[e].role = t[e].role /\ t[e].kind = "?"
    BY <2>1 DEF Extends, SameKind, Open
  <2>3. Open(t, e)
    BY <2>1, <2>2 DEF Open
  <2> QED  BY <1>1, <2>1, <2>2, <2>3 DEF Settled
<1> QED  BY <1>1, <1>3, <1>4, <1>5, <1>6 DEF Follows

(* All names that were resolved in bodies.                                 *)
IsName(r) == r.kind \in {"identifier", "assign"} /\ r.decl # 0
NamesFollow(t) ==
  \A n \in 1 .. Len(t) :
    IsName(t[n]) /\ Bodied(t, n) => Follows(t, n, t[n].decl) /\ Settled(t, n)

(* It is enough to look at what is resolved by a step.                     *)
LEMMA NamesKept ==
  ASSUME NEW t, NEW u, Structured(t), Structured(u), Extends(t, u), NamesFollow(t),
         \A n \in 1 .. Len(u) :
           IsName(u[n]) /\ Bodied(u, n) =>
             \/ n \in 1 .. Len(t) /\ IsName(t[n]) /\ t[n].decl = u[n].decl
             \/ Follows(u, n, u[n].decl) /\ Settled(u, n)
  PROVE  NamesFollow(u)
<1> SUFFICES ASSUME NEW n \in 1 .. Len(u), IsName(u[n]), Bodied(u, n),
                    n \in 1 .. Len(t), IsName(t[n]), t[n].decl = u[n].decl
             PROVE  Follows(u, n, u[n].decl) /\ Settled(u, n)
  BY DEF NamesFollow
<1>1. Bodied(t, n)
  <2>1. \A i \in 1 .. Len(t) : u[i].parent = t[i].parent /\ u[i].role = t[i].role
    BY DEF Extends
  <2>2. n \in 0 .. Len(t)
    OBVIOUS
  <2>3. Up(u, n) = Up(t, n)
    BY <2>1, <2>2, UpKept DEF Structured, IsTree, Extends
  <2>4. Up(t, n) \subseteq 1 .. Len(t)
    BY UpIs DEF Structured, IsTree, Rooted
  <2> QED  BY <2>1, <2>3, <2>4 DEF Bodied
<1>2. PICK d : d = u[n].decl
  OBVIOUS
<1>3. Follows(t, n, d) /\ Settled(t, n)
  BY <1>1, <1>2 DEF NamesFollow
<1> QED  BY <1>2, <1>3, FollowsKept

-----------------------------------------------------------------------------
(* The activations and the tree.                                           *)
IsFrame(f) ==
  f = [routine |-> f.routine, node |-> f.node, preferred |-> f.preferred, step |-> f.step,
       position |-> f.position]
Parts(t, n, r) == {i \in 1 .. Len(t) : t[i].parent = n /\ t[i].role = r}

(* A call that waits for its callee or its arguments.                      *)
CallFits(t, f) ==
  f.routine = "expression" /\ f.step \in {"signature", "argument"} =>
    /\ f.node \in 1 .. Len(t) /\ t[f.node].kind = "call" /\ t[f.node].decl # 0
    /\ f.step = "argument" =>
         Cardinality(Parts(t, f.node, "argument"))
           = Cardinality(Parts(t, t[f.node].decl, "parameter"))

(* What lies above a node is being checked below it on the stack; the      *)
(* statements being checked are the last ones of their lists.              *)
FrameFits(fr, t, i) ==
  LET f == fr[i]
      n == f.node
  IN  /\ IsFrame(f) /\ f.position \in Nat /\ CallFits(t, f)
      /\ IF i = 1 THEN f.routine = "program" /\ n = 0
         ELSE f.routine # "program" /\ n \in 1 .. Len(t)
      /\ f.routine \in {"function", "signature"} => t[n].kind = "function"
      /\ f.routine = "function" => i = 2
      /\ f.routine = "type" => t[n].role \in {"type_def", "left"}
      /\ \A a \in Up(t, n) : \E k \in 1 .. i : a = fr[k].node
      /\ i # 1 /\ t[n].role \in {"statement", "body"} =>
           \A k \in 1 .. i - 1 : fr[k].node < n
      /\ i # 1 /\ t[n].role = "statement" =>
           \A j \in 1 .. Len(t) : t[j].role = "statement" /\ t[j].parent = t[n].parent => j <= n

FramesFit(fr, t) ==
  /\ (\E R : fr \in Seq(R)) /\ Len(fr) \in Nat /\ Len(fr) > 0
  /\ \A i \in 1 .. Len(fr) : FrameFits(fr, t, i)

(* What a step adds to the tree: parts of what was open, or a statement    *)
(* in a list of which none is being checked.                               *)
AddsFit(fr, t, u) ==
  \A i \in Len(t) + 1 .. Len(u) :
    /\ u[i].role \notin {"parameter", "function"} /\ u[i].parent \in 1 .. Len(t)
    /\ t[u[i].parent].kind = "?" \/ u[i].role = "statement"
    /\ u[i].role = "statement" =>
         \A k \in 2 .. Len(fr) :
           t[fr[k].node].role = "statement" => t[fr[k].node].parent # u[i].parent

(* Calls keep their callee.                                                *)
CallsStay(t, u) ==
  \A i \in 1 .. Len(t) : t[i].kind = "call" /\ t[i].decl # 0 => u[i].decl # 0

LEMMA PartsKept ==
  ASSUME NEW fr, NEW t, NEW u, Structured(t), Structured(u), Extends(t, u), AddsFit(fr, t, u),
         NEW n, NEW r \in {"argument", "parameter"},
         r = "argument" => n \in 1 .. Len(t) /\ t[n].kind = "call"
  PROVE  Parts(u, n, r) = Parts(t, n, r)
<1>1. Len(t) \in Nat /\ Len(u) \in Nat /\ Len(t) <= Len(u)
  BY DEF Structured, IsTree, Rooted, Extends
<1>2. \A i \in 1 .. Len(t) : i \in 1 .. Len(u) /\ u[i].parent = t[i].parent /\ u[i].role = t[i].role
  BY <1>1 DEF Extends
<1>3. ASSUME NEW i \in 1 .. Len(u), i \notin 1 .. Len(t)
      PROVE  ~ (u[i].parent = n /\ u[i].role = r)
  <2>1. i \in Len(t) + 1 .. Len(u)
    BY <1>1, <1>3
  <2> QED  BY <2>1 DEF AddsFit
<1> QED  BY <1>2, <1>3 DEF Parts

LEMMA CallFitsKept ==
  ASSUME NEW fr, NEW t, NEW u, Structured(t), Structured(u), Extends(t, u), AddsFit(fr, t, u),
         CallsStay(t, u), NEW f, CallFits(t, f)
  PROVE  CallFits(u, f)
<1> SUFFICES ASSUME f.routine = "expression", f.step \in {"signature", "argument"}
             PROVE  /\ f.node \in 1 .. Len(u) /\ u[f.node].kind = "call" /\ u[f.node].decl # 0
                    /\ f.step = "argument" =>
                         Cardinality(Parts(u, f.node, "argument"))
                           = Cardinality(Parts(u, u[f.node].decl, "parameter"))
  BY DEF CallFits
<1>1. PICK n : n = f.node
  OBVIOUS
<1>2. /\ n \in 1 .. Len(t) /\ t[n].kind = "call" /\ t[n].decl # 0
      /\ f.step = "argument" =>
           Cardinality(Parts(t, n, "argument")) = Cardinality(Parts(t, t[n].decl, "parameter"))
  BY <1>1 DEF CallFits
<1>3. n \in 1 .. Len(u) /\ u[n].kind = "call" /\ u[n].name = t[n].name /\ u[n].decl # 0
  <2>1. Len(t) \in Nat /\ Len(u) \in Nat /\ Len(t) <= Len(u)
    BY DEF Structured, IsTree, Rooted, Extends
  <2> QED  BY <1>2, <2>1 DEF Extends, SameKind, CallsStay
<1>4. u[n].decl = t[n].decl
  <2>1. \A i \in 1 .. Len(u) : i <= Len(t) \/ u[i].role # "function"
    BY DEF AddsFit, Structured, IsTree, Rooted
  <2>2. Callee(u, t[n].name) = Callee(t, t[n].name)
    BY <2>1, CalleeKept DEF Structured, IsTree, Rooted
  <2> QED  BY <1>2, <1>3, <2>2 DEF Structured, CallsFit
<1>5. PICK d : d = t[n].decl
  OBVIOUS
<1>6. Parts(u, n, "argument") = Parts(t, n, "argument")
  BY <1>2, PartsKept
<1>7. Parts(u, d, "parameter") = Parts(t, d, "parameter")
  BY PartsKept
<1> QED  BY <1>1, <1>2, <1>3, <1>4, <1>5, <1>6, <1>7

(* The activations fit the tree after a step too ...                       *)
LEMMA FramesRest ==
  ASSUME NEW fr, NEW t, NEW u, Structured(t), Structured(u), Extends(t, u), AddsFit(fr, t, u),
         CallsStay(t, u), FramesFit(fr, t)
  PROVE  FramesFit(fr, u)
<1>1. Len(t) \in Nat /\ Len(u) \in Nat /\ Len(t) <= Len(u)
  BY DEF Structured, IsTree, Rooted, Extends
<1> SUFFICES ASSUME NEW i \in 1 .. Len(fr) PROVE FrameFits(fr, u, i)
  BY DEF FramesFit
<1>2. PICK f : f = fr[i]
  OBVIOUS
<1>3. PICK n : n = f.node
  OBVIOUS
<1>4. FrameFits(fr, t, i) /\ Len(fr) \in Nat
  BY DEF FramesFit
<1>5. /\ IsFrame(f) /\ f.position \in Nat /\ CallFits(t, f)
      /\ IF i = 1 THEN f.routine = "program" /\ n = 0
         ELSE f.routine # "program" /\ n \in 1 .. Len(t)
      /\ f.routine \in {"function", "signature"} => t[n].kind = "function"
      /\ f.routine = "function" => i = 2
      /\ f.routine = "type" => t[n].role \in {"type_def", "left"}
      /\ \A a \in Up(t, n) : \E k \in 1 .. i : a = fr[k].node
      /\ i # 1 /\ t[n].role \in {"statement", "body"} =>
           \A k \in 1 .. i - 1 : fr[k].node < n
      /\ i # 1 /\ t[n].role = "statement" =>
           \A j \in 1 .. Len(t) : t[j].role = "statement" /\ t[j].parent = t[n].parent => j <= n
  BY <1>2, <1>3, <1>4 DEF FrameFits
<1>6. CallFits(u, f)
  BY <1>5, CallFitsKept
<1>7. Up(u, n) = Up(t, n)
  <2>1. \A j \in 1 .. Len(t) : u[j].parent = t[j].parent
    BY DEF Extends
  <2>2. n \in 0 .. Len(t)
    BY <1>1, <1>5
  <2> QED  BY <1>1, <2>1, <2>2, UpKept DEF Structured, IsTree
<1>8. CASE i = 1
  <2>1. f.routine = "program" /\ n = 0
    BY <1>5, <1>8
  <2> QED  BY <1>2, <1>3, <1>5, <1>6, <1>7, <1>8, <2>1 DEF FrameFits
<1>9. CASE i # 1
  <2>1. /\ n \in 1 .. Len(t) /\ n \in 1 .. Len(u)
        /\ u[n].role = t[n].role /\ u[n].parent = t[n].parent
        /\ t[n].kind = "function" => u[n].kind = "function"
    BY <1>1, <1>5, <1>9, SMTT(30) DEF Extends, SameKind
  <2>2. ASSUME t[n].role = "statement", NEW j \in 1 .. Len(u), u[j].role = "statement",
               u[j].parent = t[n].parent
        PROVE  j <= n
    <3>1. CASE j \in 1 .. Len(t)
      BY <1>5, <1>9, <2>2, <3>1 DEF Extends
    <3>2. CASE j \notin 1 .. Len(t)
      <4>1. j \in Len(t) + 1 .. Len(u) /\ i \in 2 .. Len(fr)
        BY <1>1, <1>4, <1>9, <3>2
      <4> QED  BY <1>2, <1>3, <2>2, <4>1 DEF AddsFit
    <3> QED  BY <3>1, <3>2
  <2> QED  BY <1>2, <1>3, <1>5, <1>6, <1>7, <1>9, <2>1, <2>2 DEF FrameFits
<1> QED  BY <1>8, <1>9

(* ... when the running one goes on, ...                                   *)
Kept(fr, gr, u) ==
  LET f == fr[Len(fr)]
      g == gr[Len(fr)]
  IN  /\ (\E R : gr \in Seq(R)) /\ Len(gr) = Len(fr)
      /\ \A i \in 1 .. Len(fr) - 1 : gr[i] = fr[i]
      /\ IsFrame(g) /\ g.node = f.node /\ g.position \in Nat /\ CallFits(u, g)
      /\ g.routine = f.routine \/ (f.routine = "statement" /\ g.routine = "expression")

LEMMA FrameFitsAlone ==
  ASSUME NEW fr, NEW gr, NEW u, NEW i, FrameFits(fr, u, i), i \in Nat, i > 0,
         \A k \in 1 .. i : gr[k].node = fr[k].node, gr[i] = fr[i]
  PROVE  FrameFits(gr, u, i)
BY DEF FrameFits

LEMMA KeptFits ==
  ASSUME NEW fr, NEW gr, NEW u, FramesFit(fr, u), Kept(fr, gr, u)
  PROVE  FramesFit(gr, u)
<1> DEFINE m == Len(fr)
<1>1. m \in Nat /\ m > 0 /\ Len(gr) = m /\ m \in 1 .. m
  BY DEF FramesFit, Kept
<1>2. \A k \in 1 .. m : gr[k].node = fr[k].node
  BY <1>1 DEF Kept
<1>3. ASSUME NEW i \in 1 .. m, i # m PROVE FrameFits(gr, u, i)
  <2>1. i \in 1 .. m - 1 /\ i \in Nat /\ i > 0 /\ 1 .. i \subseteq 1 .. m
    BY <1>1, <1>3
  <2>2. gr[i] = fr[i] /\ FrameFits(fr, u, i)
    BY <2>1 DEF Kept, FramesFit
  <2> QED  BY <1>2, <2>1, <2>2, FrameFitsAlone
<1>4. FrameFits(gr, u, m)
  <2>1. FrameFits(fr, u, m)
    BY <1>1 DEF FramesFit
  <2>2. /\ IsFrame(gr[m]) /\ gr[m].node = fr[m].node /\ gr[m].position \in Nat
        /\ CallFits(u, gr[m])
        /\ gr[m].routine = fr[m].routine
           \/ (fr[m].routine = "statement" /\ gr[m].routine = "expression")
    BY <1>1 DEF Kept
  <2> HIDE DEF m
  <2> QED  BY <1>1, <1>2, <2>1, <2>2 DEF FrameFits
<1> QED  BY <1>1, <1>3, <1>4 DEF FramesFit, Kept

(* ... when it ends, ...                                                   *)
LEMMA PopFits ==
  ASSUME NEW fr, NEW u, FramesFit(fr, u), Len(fr) > 1
  PROVE  FramesFit(SubSeq(fr, 1, Len(fr) - 1), u)
<1>1. PICK R : fr \in Seq(R)
  BY DEF FramesFit
<1>2. PICK gr : gr = SubSeq(fr, 1, Len(fr) - 1)
  OBVIOUS
<1>3. /\ Len(fr) \in Nat /\ gr \in Seq(R) /\ Len(gr) = Len(fr) - 1
      /\ \A k \in 1 .. Len(fr) - 1 : gr[k] = fr[k]
  BY <1>1, <1>2
<1>4. ASSUME NEW i \in 1 .. Len(gr) PROVE FrameFits(gr, u, i)
  <2>1. i \in Nat /\ i > 0 /\ gr[i] = fr[i] /\ \A k \in 1 .. i : gr[k].node = fr[k].node
    BY <1>3
  <2>2. FrameFits(fr, u, i)
    BY <1>3 DEF FramesFit
  <2> QED  BY <2>1, <2>2, FrameFitsAlone
<1>5. Len(gr) \in Nat /\ Len(gr) > 0
  BY <1>3
<1>6. FramesFit(gr, u)
  BY <1>3, <1>4, <1>5 DEF FramesFit
<1> QED  BY <1>2, <1>6

(* ... and when it calls a routine for a node.                             *)
Entered(fr, c, r, u) ==
  /\ c \in 1 .. Len(u) /\ r # "program"
  /\ r = "function" => Len(fr) = 1
  /\ r \in {"function", "signature"} => u[c].kind = "function"
  /\ r = "type" => u[c].role \in {"type_def", "left"}
  /\ u[c].parent \in {0, fr[Len(fr)].node} \/ c = fr[Len(fr)].node
  /\ u[c].role \in {"statement", "body"} => \A k \in 1 .. Len(fr) : fr[k].node < c
  /\ u[c].role = "statement" =>
       \A j \in 1 .. Len(u) : u[j].role = "statement" /\ u[j].parent = u[c].parent => j <= c

LEMMA PushFits ==
  ASSUME NEW fr, NEW u, Structured(u), FramesFit(fr, u), NEW c, NEW r, NEW p,
         Entered(fr, c, r, u)
  PROVE  FramesFit(Append(fr, Frame(r, c, p)), u)
<1>1. PICK R : fr \in Seq(R)
  BY DEF FramesFit
<1>2. PICK f : f = Frame(r, c, p)
  OBVIOUS
<1>3. /\ IsFrame(f) /\ f.routine = r /\ f.node = c /\ f.step = "enter" /\ f.position = 0
  BY <1>2 DEF Frame, IsFrame
<1>4. PICK gr : gr = Append(fr, f)
  OBVIOUS
<1> DEFINE m == Len(fr)
<1>5. /\ m \in Nat /\ m > 0 /\ gr \in Seq(R \cup {f}) /\ Len(gr) = m + 1
      /\ gr[m + 1] = f /\ \A k \in 1 .. m : gr[k] = fr[k]
  BY <1>1, <1>4 DEF FramesFit
<1>6. 1 .. m + 1 = 1 .. m \cup {m + 1} /\ m \in 1 .. m
  BY <1>5
<1>7. ASSUME NEW i \in 1 .. m PROVE FrameFits(gr, u, i)
  <2>1. i \in Nat /\ i > 0 /\ gr[i] = fr[i] /\ \A k \in 1 .. i : gr[k].node = fr[k].node
    BY <1>5
  <2>2. FrameFits(fr, u, i)
    BY DEF FramesFit
  <2> QED  BY <2>1, <2>2, FrameFitsAlone
<1>8. PICK n : n = fr[m].node
  OBVIOUS
<1>9. \A a \in Up(u, n) : \E k \in 1 .. m : a = fr[k].node
  BY <1>6, <1>8 DEF FramesFit, FrameFits
<1>10. \A a \in Up(u, c) : \E k \in 1 .. m + 1 : a = gr[k].node
  <2>1. \A k \in 1 .. m : gr[k].node = fr[k].node /\ k \in 1 .. m + 1
    BY <1>5
  <2>2. gr[m + 1].node = c /\ m + 1 \in 1 .. m + 1
    BY <1>3, <1>5
  <2>3. c \in 1 .. Len(u) /\ (u[c].parent \in {0, n} \/ c = n)
    BY <1>8 DEF Entered
  <2>4. Up(u, c) = {c} \cup Up(u, u[c].parent) /\ Up(u, 0) = {}
    BY <2>3, UpClimbs DEF Structured, IsTree
  <2>5. CASE c = n
    BY <1>9, <2>1, <2>5
  <2>6. CASE u[c].parent = 0
    BY <2>2, <2>4, <2>6
  <2>7. CASE u[c].parent = n
    BY <1>9, <2>1, <2>2, <2>4, <2>7
  <2> HIDE DEF m
  <2> QED  BY <2>3, <2>5, <2>6, <2>7
<1>11. CallFits(u, f)
  BY <1>3 DEF CallFits
<1>12. FrameFits(gr, u, m + 1)
  <2>1. \A k \in 1 .. m : gr[k].node = fr[k].node
    BY <1>5
  <2>2. (m + 1) - 1 = m /\ m + 1 # 1 /\ (r = "function" => m + 1 = 2)
    BY <1>5 DEF Entered
  <2>3. /\ c \in 1 .. Len(u) /\ r # "program"
        /\ r \in {"function", "signature"} => u[c].kind = "function"
        /\ r = "type" => u[c].role \in {"type_def", "left"}
        /\ u[c].role \in {"statement", "body"} => \A k \in 1 .. m : fr[k].node < c
        /\ u[c].role = "statement" =>
             \A j \in 1 .. Len(u) : u[j].role = "statement" /\ u[j].parent = u[c].parent => j <= c
    BY DEF Entered
  <2>4. gr[m + 1] = f
    BY <1>5
  <2> HIDE DEF m
  <2> QED  BY <1>3, <1>10, <1>11, <2>1, <2>2, <2>3, <2>4 DEF FrameFits
<1> QED  BY <1>2, <1>4, <1>5, <1>6, <1>7, <1>12 DEF FramesFit

(* A part of the node, unless it is one of a list of statements.           *)
LEMMA PartEntered ==
  ASSUME NEW fr, NEW u, Structured(u), FramesFit(fr, u), NEW c \in 1 .. Len(u),
         u[c].parent = fr[Len(fr)].node, u[c].role \notin {"statement", "function"},
         NEW r \in {"expression", "statement", "type"},
         r = "type" => u[c].role \in {"type_def", "left"}
  PROVE  Entered(fr, c, r, u)
<1>1. PICK p : p = fr[Len(fr)].node
  OBVIOUS
<1>2. Len(fr) \in Nat /\ Len(fr) > 0 /\ FrameFits(fr, u, Len(fr))
  BY DEF FramesFit
<1>3. ASSUME u[c].role = "body" PROVE \A k \in 1 .. Len(fr) : fr[k].node < c
  <2>1. u[p].kind \in {"if", "for"} /\ p # 0 /\ p \in 1 .. Len(u) /\ p < c
    <3>1. u[p].kind \in {"if", "for"}
      BY <1>1, <1>3 DEF Structured, RolesFit, ParentKinds
    <3>2. p # 0
      BY <1>1 DEF Structured, RolesFit
    <3>3. p \in 0 .. c - 1
      BY <1>1 DEF Structured, IsTree, Rooted
    <3> QED  BY <3>1, <3>2, <3>3 DEF Structured, IsTree, Rooted
  <2>2. u[p].role \in {"statement", "body"}
    BY <2>1 DEF Structured, RolesFit, RolesOf
  <2>3. Len(fr) # 1
    BY <1>1, <1>2, <2>1 DEF FrameFits
  <2>4. \A k \in 1 .. Len(fr) - 1 : fr[k].node < p
    BY <1>1, <1>2, <2>2, <2>3 DEF FrameFits
  <2>5. ASSUME NEW k \in 1 .. Len(fr) PROVE fr[k].node < c
    <3>1. CASE k = Len(fr)
      BY <1>1, <2>1, <3>1
    <3>2. CASE k # Len(fr)
      <4>1. k \in 1 .. Len(fr) - 1
        BY <1>2, <3>2
      <4>2. fr[k].node < p /\ p < c
        BY <2>1, <2>4, <4>1
      <4>3. fr[k].node \in Int
        <5>1. IF k = 1 THEN fr[k].node = 0 ELSE fr[k].node \in 1 .. Len(u)
          BY DEF FramesFit, FrameFits
        <5> QED  BY <2>1, <5>1
      <4> QED  BY <2>1, <4>2, <4>3
    <3> QED  BY <3>1, <3>2
  <2> QED  BY <2>5
<1> QED  BY <1>3 DEF Entered

Moved(fr, gr, u) ==
  \/ Kept(fr, gr, u)
  \/ Len(fr) > 1 /\ gr = SubSeq(fr, 1, Len(fr) - 1)
  \/ \E hr, c, r, p :
       Kept(fr, hr, u) /\ Entered(hr, c, r, u) /\ gr = Append(hr, Frame(r, c, p))

LEMMA MovedFits ==
  ASSUME NEW fr, NEW gr, NEW u, Structured(u), FramesFit(fr, u), Moved(fr, gr, u)
  PROVE  FramesFit(gr, u)
<1>1. CASE Kept(fr, gr, u)
  BY <1>1, KeptFits
<1>2. CASE Len(fr) > 1 /\ gr = SubSeq(fr, 1, Len(fr) - 1)
  BY <1>2, PopFits
<1>3. ASSUME NEW hr, NEW c, NEW r, NEW p, Kept(fr, hr, u), Entered(hr, c, r, u),
             gr = Append(hr, Frame(r, c, p))
      PROVE  FramesFit(gr, u)
  <2>1. FramesFit(hr, u)
    BY <1>3, KeptFits
  <2> QED  BY <1>3, <2>1, PushFits
<1> QED  BY <1>1, <1>2, <1>3 DEF Moved

(* What is open is the node of the running activation, or the variable of  *)
(* the loop that it is about to check.                                     *)
LoopBegins(f) ==
  f.step = "enter" /\ f.routine \notin {"program", "function", "signature", "type"}
Attended(fr, t) ==
  LET top == fr[Len(fr)]
  IN  \A e \in 1 .. Len(t) : Open(t, e) =>
        e = top.node \/ (t[e].parent = top.node /\ t[e].role = "decl" /\ LoopBegins(top))

(* The variable is what is checked next.                                   *)
Proceeds(fr, gr, t) ==
  LET top == fr[Len(fr)]
  IN  \A e \in 1 .. Len(t) :
        t[e].parent = top.node /\ t[e].role = "decl" /\ LoopBegins(top)
          => e = gr[Len(gr)].node

LEMMA UpdatedFits ==
  ASSUME NEW t, NEW u, NEW fr, Structured(t), FramesFit(fr, t), NEW k, Updated(t, u, k)
  PROVE  Structured(u) /\ Extends(t, u) /\ FramesFit(fr, u)
<1>1. Structured(u) /\ Extends(t, u)
  BY UpdatedTree
<1>2. AddsFit(fr, t, u)
  BY DEF AddsFit, Updated, Structured, IsTree, Rooted
<1>3. CallsStay(t, u)
  BY DEF CallsStay, Updated
<1> QED  BY <1>1, <1>2, <1>3, FramesRest

LEMMA QuietFits ==
  ASSUME NEW t, NEW u, NEW fr, NEW gr, Structured(t), FramesFit(fr, t), Attended(fr, t),
         Updated(t, u, fr[Len(fr)].node), ~ Open(t, fr[Len(fr)].node),
         Moved(fr, gr, u), Proceeds(fr, gr, t)
  PROVE  FramesFit(gr, u) /\ Attended(gr, u)
<1>1. PICK n : n = fr[Len(fr)].node
  OBVIOUS
<1>2. Structured(u) /\ FramesFit(fr, u)
  BY <1>1, UpdatedFits
<1>3. FramesFit(gr, u)
  BY <1>2, MovedFits
<1>4. ASSUME NEW e \in 1 .. Len(u), Open(u, e) PROVE e = gr[Len(gr)].node
  <2>1. e \in 1 .. Len(t) /\ Open(t, e)
    BY <1>4 DEF Updated, Open, SameKind
  <2> QED  BY <2>1 DEF Attended, Proceeds
<1> QED  BY <1>3, <1>4 DEF Attended

(* Nothing is open when an expression is looked at, so what it sees stays  *)
(* all it sees.                                                            *)
LEMMA ExpressionSettled ==
  ASSUME NEW t, NEW fr, Structured(t), FramesFit(fr, t), Attended(fr, t),
         fr[Len(fr)].node # 0, t[fr[Len(fr)].node].kind \notin {"?", "for"}
  PROVE  \A n : Settled(t, n)
<1>1. \A e \in 1 .. Len(t) : t[e].role = "decl" => t[t[e].parent].kind = "for"
  BY DEF Structured, RolesFit, ParentKinds
<1>2. \A e \in 1 .. Len(t) : ~ Open(t, e)
  BY <1>1 DEF Attended, Open
<1> QED  BY <1>2 DEF Settled

LEMMA FramesOnTheEdge ==
  ASSUME NEW t, NEW fr, Structured(t), FramesFit(fr, t), fr[Len(fr)].node # 0
  PROVE  fr[Len(fr)].node \in 1 .. Len(t) /\ OnTheEdge(t, fr[Len(fr)].node)
<1>1. PICK n : n = fr[Len(fr)].node
  OBVIOUS
<1>2. Len(fr) \in 1 .. Len(fr) /\ FrameFits(fr, t, Len(fr))
  BY DEF FramesFit
<1>3. n \in 1 .. Len(t) /\ \A a \in Up(t, n) : \E k \in 1 .. Len(fr) : a = fr[k].node
  BY <1>1, <1>2 DEF FrameFits
<1>4. ASSUME NEW c \in Up(t, n), t[c].role = "statement", NEW j \in 1 .. Len(t),
             t[j].role = "statement", t[j].parent = t[c].parent
      PROVE  j <= c
  <2>1. PICK k \in 1 .. Len(fr) : c = fr[k].node
    BY <1>3
  <2>2. FrameFits(fr, t, k)
    BY DEF FramesFit
  <2>3. c # 0
    BY <1>3, UpIs DEF Structured, IsTree
  <2> QED  BY <1>4, <2>1, <2>2, <2>3 DEF FrameFits
<1> QED  BY <1>1, <1>3, <1>4 DEF OnTheEdge

-----------------------------------------------------------------------------
(* What the handlers do to a node and to the running activation.           *)
LEMMA NodeChanged ==
  ASSUME NEW t, Structured(t), NEW k \in 1 .. Len(t), NEW r, IsNode(r),
         r.parent = t[k].parent, r.role = t[k].role, r.name = t[k].name,
         SameKind(t[k].kind, r.kind),
         t[k].kind \notin {"identifier", "assign", "call"} => r.decl = t[k].decl,
         t[k].kind = "call" =>
           r.decl = t[k].decl \/ (r.decl = Callee(t, t[k].name) /\ r.decl # 0)
  PROVE  Updated(t, [t EXCEPT ![k] = r], k)
<1>1. PICK R : t \in Seq(R)
  BY DEF Structured, IsTree
<1>2. PICK u : u = [t EXCEPT ![k] = r]
  OBVIOUS
<1>3. /\ u \in Seq(R \cup {r}) /\ Len(u) = Len(t) /\ u[k] = r
      /\ \A i \in 1 .. Len(t) : i # k => u[i] = t[i]
  <2>1. t \in Seq(R \cup {r})
    BY <1>1
  <2> QED  BY <1>2, <2>1
<1>4. \A i \in 1 .. Len(t) : IsNode(t[i])
  BY DEF Structured, IsTree
<1>5. \E S : u \in Seq(S)
  BY <1>3
<1> QED  BY <1>2, <1>3, <1>4, <1>5 DEF Updated, SameKind

(* Changes that resolve no name.                                           *)
Changes(t, u, k) ==
  Updated(t, u, k) /\
  \A n \in 1 .. Len(t) : IsName(u[n]) => IsName(t[n]) /\ u[n].decl = t[n].decl

LEMMA SameChanges ==
  ASSUME NEW t, Structured(t), NEW k
  PROVE  Changes(t, t, k)
BY DEF Changes, Updated, Structured, IsTree, SameKind, CallsFit

LEMMA TypedChanges ==
  ASSUME NEW t, Structured(t), NEW k \in 1 .. Len(t), NEW x
  PROVE  Changes(t, [t EXCEPT ![k].type = x], k)
<1>1. PICK r : r = [t[k] EXCEPT !.type = x]
  OBVIOUS
<1>2. PICK q : q = t[k]
  OBVIOUS
<1>3. IsNode(q)
  BY <1>2 DEF Structured, IsTree
<1>4. /\ IsNode(r) /\ r.parent = q.parent /\ r.role = q.role /\ r.name = q.name
      /\ r.kind = q.kind /\ r.decl = q.decl
  BY <1>1, <1>2, <1>3 DEF IsNode
<1>5. PICK u : u = [t EXCEPT ![k] = r]
  OBVIOUS
<1>6. u = [t EXCEPT ![k].type = x]
  BY <1>1, <1>5
<1>7. Updated(t, u, k)
  BY <1>2, <1>4, <1>5, NodeChanged DEF SameKind
<1>8. \A n \in 1 .. Len(t) : u[n] = IF n = k THEN r ELSE t[n]
  BY <1>5 DEF Structured, IsTree
<1> QED  BY <1>2, <1>4, <1>6, <1>7, <1>8 DEF Changes, IsName

DeclaredAt(t, k, d, x) == [t EXCEPT ![k].decl = d, ![k].type = x]

LEMMA DeclaredUpdates ==
  ASSUME NEW t, Structured(t), NEW k \in 1 .. Len(t), t[k].kind \in {"identifier", "assign"},
         NEW d, NEW x, NEW w, w = DeclaredAt(t, k, d, x)
  PROVE  /\ Updated(t, w, k) /\ w[k].decl = d
         /\ \A n \in 1 .. Len(t) : n # k => w[n] = t[n]
<1>1. PICK r : r = [t[k] EXCEPT !.decl = d, !.type = x]
  OBVIOUS
<1>2. PICK q : q = t[k]
  OBVIOUS
<1>3. IsNode(q)
  BY <1>2 DEF Structured, IsTree
<1>4. /\ IsNode(r) /\ r.parent = q.parent /\ r.role = q.role /\ r.name = q.name
      /\ r.kind = q.kind /\ r.decl = d
  BY <1>1, <1>2, <1>3 DEF IsNode
<1>5. PICK u : u = [t EXCEPT ![k] = r]
  OBVIOUS
<1>6. u = w
  BY <1>1, <1>5 DEF Structured, IsTree, DeclaredAt
<1>7. Updated(t, u, k)
  BY <1>2, <1>4, <1>5, NodeChanged DEF SameKind
<1>8. \A n \in 1 .. Len(t) : u[n] = IF n = k THEN r ELSE t[n]
  BY <1>5 DEF Structured, IsTree
<1> QED  BY <1>4, <1>6, <1>7, <1>8

CalledAt(t, k, d) == [t EXCEPT ![k].decl = d]

LEMMA CallChanges ==
  ASSUME NEW t, Structured(t), NEW k \in 1 .. Len(t), t[k].kind = "call",
         NEW d, d = Callee(t, t[k].name), d # 0, NEW w, w = CalledAt(t, k, d)
  PROVE  Changes(t, w, k) /\ w[k].decl = d
<1>1. PICK r : r = [t[k] EXCEPT !.decl = d]
  OBVIOUS
<1>2. PICK q : q = t[k]
  OBVIOUS
<1>3. IsNode(q)
  BY <1>2 DEF Structured, IsTree
<1>4. /\ IsNode(r) /\ r.parent = q.parent /\ r.role = q.role /\ r.name = q.name
      /\ r.kind = q.kind /\ r.decl = d
  BY <1>1, <1>2, <1>3 DEF IsNode
<1>5. PICK u : u = [t EXCEPT ![k] = r]
  OBVIOUS
<1>6. u = w
  BY <1>1, <1>5 DEF CalledAt
<1>7. Updated(t, u, k)
  BY <1>2, <1>4, <1>5, NodeChanged DEF SameKind
<1>8. \A n \in 1 .. Len(t) : u[n] = IF n = k THEN r ELSE t[n]
  BY <1>5 DEF Structured, IsTree
<1> QED  BY <1>2, <1>4, <1>6, <1>7, <1>8 DEF Changes, IsName

LEMMA LiteralChanges ==
  ASSUME NEW t, Structured(t), NEW k \in 1 .. Len(t), t[k].kind \in {"size_of", "minus"},
         NEW x, NEW v
  PROVE  /\ Changes(t, [t EXCEPT ![k].kind = "integer", ![k].type = x, ![k].value = v], k)
         /\ Changes(t, [[t EXCEPT ![k].type = x] EXCEPT ![k].kind = "integer", ![k].value = v], k)
<1>1. PICK r : r = [t[k] EXCEPT !.kind = "integer", !.type = x, !.value = v]
  OBVIOUS
<1>2. PICK q : q = t[k]
  OBVIOUS
<1>3. IsNode(q)
  BY <1>2 DEF Structured, IsTree
<1>4. /\ IsNode(r) /\ r.parent = q.parent /\ r.role = q.role /\ r.name = q.name
      /\ r.kind = "integer" /\ r.decl = q.decl
  BY <1>1, <1>2, <1>3 DEF IsNode
<1>5. PICK u : u = [t EXCEPT ![k] = r]
  OBVIOUS
<1>6. u = [t EXCEPT ![k].kind = "integer", ![k].type = x, ![k].value = v]
  BY <1>1, <1>5 DEF Structured, IsTree
<1>7. u = [[t EXCEPT ![k].type = x] EXCEPT ![k].kind = "integer", ![k].value = v]
  <2>1. [[t[k] EXCEPT !.type = x] EXCEPT !.kind = "integer", !.value = v] = r
    BY <1>1, <1>2, <1>3 DEF IsNode
  <2> QED  BY <1>5, <2>1 DEF Structured, IsTree
<1>8. Updated(t, u, k)
  BY <1>2, <1>4, <1>5, NodeChanged DEF SameKind
<1>9. \A n \in 1 .. Len(t) : u[n] = IF n = k THEN r ELSE t[n]
  BY <1>5 DEF Structured, IsTree
<1>10. Changes(t, u, k)
  BY <1>2, <1>4, <1>8, <1>9 DEF Changes, IsName
<1> QED  BY <1>6, <1>7, <1>10

LEMMA TopChanged ==
  ASSUME NEW fr, NEW t, FramesFit(fr, t), NEW g, IsFrame(g), g.node = fr[Len(fr)].node,
         g.position \in Nat, CallFits(t, g),
         g.routine = fr[Len(fr)].routine
         \/ (fr[Len(fr)].routine = "statement" /\ g.routine = "expression")
  PROVE  LET gr == [fr EXCEPT ![Len(fr)] = g]
         IN  Kept(fr, gr, t) /\ Len(gr) = Len(fr) /\ gr[Len(fr)] = g
<1>1. PICK R : fr \in Seq(R)
  BY DEF FramesFit
<1>2. PICK gr : gr = [fr EXCEPT ![Len(fr)] = g]
  OBVIOUS
<1>3. Len(fr) \in Nat /\ Len(fr) > 0
  BY DEF FramesFit
<1>4. /\ gr \in Seq(R \cup {g}) /\ Len(gr) = Len(fr) /\ gr[Len(fr)] = g
      /\ \A i \in 1 .. Len(fr) - 1 : gr[i] = fr[i]
  <2>1. fr \in Seq(R \cup {g})
    BY <1>1
  <2> QED  BY <1>2, <1>3, <2>1
<1>5. \E S : gr \in Seq(S)
  BY <1>4
<1>6. Kept(fr, gr, t)
  BY <1>4, <1>5 DEF Kept
<1> QED  BY <1>2, <1>4, <1>6

LEMMA StepKept ==
  ASSUME NEW fr, NEW t, FramesFit(fr, t), NEW s, s \notin {"signature", "argument"}
  PROVE  Kept(fr, [fr EXCEPT ![Len(fr)].step = s], t)
<1>1. PICK f : f = fr[Len(fr)]
  OBVIOUS
<1>2. IsFrame(f) /\ f.position \in Nat
  BY <1>1 DEF FramesFit, FrameFits
<1>3. PICK g : g = [f EXCEPT !.step = s]
  OBVIOUS
<1>4. /\ IsFrame(g) /\ g.node = f.node /\ g.position = f.position /\ g.routine = f.routine
      /\ g.step = s
  BY <1>2, <1>3 DEF IsFrame
<1>5. CallFits(t, g)
  BY <1>4 DEF CallFits
<1>6. Kept(fr, [fr EXCEPT ![Len(fr)] = g], t)
  BY <1>1, <1>2, <1>4, <1>5, TopChanged
<1>7. [fr EXCEPT ![Len(fr)] = g] = [fr EXCEPT ![Len(fr)].step = s]
  BY <1>1, <1>3
<1> QED  BY <1>6, <1>7

LEMMA PositionKept ==
  ASSUME NEW fr, NEW t, FramesFit(fr, t), NEW k \in Nat
  PROVE  Kept(fr, [fr EXCEPT ![Len(fr)].position = k], t)
<1>1. PICK f : f = fr[Len(fr)]
  OBVIOUS
<1>2. IsFrame(f) /\ f.position \in Nat /\ CallFits(t, f)
  BY <1>1 DEF FramesFit, FrameFits
<1>3. PICK g : g = [f EXCEPT !.position = k]
  OBVIOUS
<1>4. /\ IsFrame(g) /\ g.node = f.node /\ g.position = k /\ g.routine = f.routine
      /\ g.step = f.step
  BY <1>2, <1>3 DEF IsFrame
<1>5. CallFits(t, g)
  BY <1>2, <1>4 DEF CallFits
<1>6. Kept(fr, [fr EXCEPT ![Len(fr)] = g], t)
  BY <1>1, <1>2, <1>4, <1>5, TopChanged
<1>7. [fr EXCEPT ![Len(fr)] = g] = [fr EXCEPT ![Len(fr)].position = k]
  BY <1>1, <1>3
<1> QED  BY <1>6, <1>7

(* A call waits for the callee's signature, then for its arguments.        *)
LEMMA SignatureKept ==
  ASSUME NEW fr, NEW t, FramesFit(fr, t), NEW n, n = fr[Len(fr)].node,
         n \in 1 .. Len(t), t[n].kind = "call", t[n].decl # 0
  PROVE  Kept(fr, [fr EXCEPT ![Len(fr)].step = "signature"], t)
<1>1. PICK f : f = fr[Len(fr)]
  OBVIOUS
<1>2. IsFrame(f) /\ f.position \in Nat
  BY <1>1 DEF FramesFit, FrameFits
<1>3. PICK g : g = [f EXCEPT !.step = "signature"]
  OBVIOUS
<1>4. /\ IsFrame(g) /\ g.node = n /\ g.position = f.position /\ g.routine = f.routine
      /\ g.step = "signature"
  BY <1>1, <1>2, <1>3 DEF IsFrame
<1>5. CallFits(t, g)
  BY <1>4 DEF CallFits
<1>6. Kept(fr, [fr EXCEPT ![Len(fr)] = g], t)
  BY <1>1, <1>2, <1>4, <1>5, TopChanged
<1>7. [fr EXCEPT ![Len(fr)] = g] = [fr EXCEPT ![Len(fr)].step = "signature"]
  BY <1>1, <1>3
<1> QED  BY <1>6, <1>7

LEMMA ArgumentKept ==
  ASSUME NEW fr, NEW t, FramesFit(fr, t), NEW n, n = fr[Len(fr)].node, NEW k \in Nat,
         n \in 1 .. Len(t), t[n].kind = "call", t[n].decl # 0,
         Cardinality(Parts(t, n, "argument")) = Cardinality(Parts(t, t[n].decl, "parameter"))
  PROVE  Kept(fr, [[fr EXCEPT ![Len(fr)].step = "argument"] EXCEPT ![Len(fr)].position = k], t)
<1>1. PICK f : f = fr[Len(fr)]
  OBVIOUS
<1>2. IsFrame(f) /\ f.position \in Nat
  BY <1>1 DEF FramesFit, FrameFits
<1>3. PICK g : g = [f EXCEPT !.step = "argument", !.position = k]
  OBVIOUS
<1>4. /\ IsFrame(g) /\ g.node = n /\ g.position = k /\ g.routine = f.routine
      /\ g.step = "argument"
  BY <1>1, <1>2, <1>3 DEF IsFrame
<1>5. CallFits(t, g)
  BY <1>4 DEF CallFits
<1>6. Kept(fr, [fr EXCEPT ![Len(fr)] = g], t)
  BY <1>1, <1>2, <1>4, <1>5, TopChanged
<1>7. [fr EXCEPT ![Len(fr)] = g]
        = [[fr EXCEPT ![Len(fr)].step = "argument"] EXCEPT ![Len(fr)].position = k]
  <2>1. PICK R : fr \in Seq(R)
    BY DEF FramesFit
  <2>2. Len(fr) \in 1 .. Len(fr)
    BY DEF FramesFit
  <2>3. g = [[f EXCEPT !.step = "argument"] EXCEPT !.position = k]
    BY <1>2, <1>3 DEF IsFrame
  <2> QED  BY <1>1, <2>1, <2>2, <2>3
<1> QED  BY <1>6, <1>7

(* A finite set of naturals has a k-th element.                            *)
LEMMA NthExists ==
  ASSUME NEW m \in Nat, NEW S \in SUBSET (1 .. m), NEW k \in 1 .. Cardinality(S)
  PROVE  \E i \in S : Cardinality({j \in S : j <= i}) = k
<1> DEFINE Low(n) == {j \in S : j <= n}
           T == {n \in Nat : n <= m =>
                   \A l \in 1 .. Cardinality(Low(n)) : \E i \in S : Cardinality(Low(i)) = l}
<1>0. \A j \in S : j \in 1 .. m /\ j \in Nat /\ j > 0
  OBVIOUS
<1>1. \A n \in Nat : IsFiniteSet(Low(n)) /\ Cardinality(Low(n)) \in Nat
  <2> SUFFICES ASSUME NEW n \in Nat PROVE IsFiniteSet(Low(n))
    BY FS_CardinalityType
  <2>1. Low(n) \subseteq 1 .. m
    BY <1>0
  <2>2. IsFiniteSet(1 .. m)
    BY FS_Interval
  <2> HIDE DEF Low
  <2> QED  BY <2>1, <2>2, FS_Subset
<1>2. 0 \in T
  <2>1. Low(0) = {}
    <3>1. \A j \in S : ~ (j <= 0)
      BY <1>0
    <3> QED  BY <3>1
  <2>2. Cardinality(Low(0)) = 0
    BY <2>1, FS_EmptySet
  <2> HIDE DEF Low
  <2> QED  BY <2>2
<1>3. ASSUME NEW n \in Nat, n \in T PROVE n + 1 \in T
  <2> SUFFICES ASSUME n + 1 <= m, NEW l \in 1 .. Cardinality(Low(n + 1))
               PROVE  \E i \in S : Cardinality(Low(i)) = l
    OBVIOUS
  <2>1. \A l1 \in 1 .. Cardinality(Low(n)) : \E i \in S : Cardinality(Low(i)) = l1
    BY <1>3
  <2>2. CASE n + 1 \notin S
    <3>1. \A j \in S : j <= n + 1 <=> j <= n
      BY <1>0, <2>2
    <3>2. Low(n + 1) = Low(n)
      BY <3>1
    <3> HIDE DEF Low
    <3> QED  BY <2>1, <3>2
  <2>3. CASE n + 1 \in S
    <3>0. \A j \in S : j <= n + 1 <=> (j <= n \/ j = n + 1)
      BY <1>0
    <3>1. Low(n + 1) = Low(n) \cup {n + 1} /\ n + 1 \notin Low(n)
      <4>1. n + 1 <= n + 1 /\ ~ (n + 1 <= n)
        OBVIOUS
      <4>2. n + 1 \notin Low(n)
        BY <4>1
      <4>3. \A j : j \in Low(n + 1) <=> j \in Low(n) \cup {n + 1}
        BY <2>3, <3>0
      <4> HIDE DEF Low
      <4> QED  BY <4>2, <4>3
    <3>2. Cardinality(Low(n + 1)) = Cardinality(Low(n)) + 1
      <4> HIDE DEF Low
      <4> QED  BY <1>1, <3>1, FS_AddElement
    <3> HIDE DEF Low
    <3>3. CASE l \in 1 .. Cardinality(Low(n))
      BY <2>1, <3>3
    <3>4. CASE l \notin 1 .. Cardinality(Low(n))
      <4>1. l = Cardinality(Low(n + 1))
        BY <1>1, <3>2, <3>4
      <4> QED  BY <2>3, <4>1
    <3> QED  BY <3>3, <3>4
  <2> QED  BY <2>2, <2>3
<1>4. Nat \subseteq T
  <2> HIDE DEF T
  <2> QED  BY <1>2, <1>3, NatSetInduction
<1>5. Low(m) = S
  <2>1. \A j \in S : j <= m
    BY <1>0
  <2> QED  BY <2>1
<1> HIDE DEF Low
<1>6. \E i \in S : Cardinality(Low(i)) = k
  BY <1>4, <1>5
<1> QED  BY <1>6 DEF Low

-----------------------------------------------------------------------------
(* The invariant: names follow scopes, for the reason that the stack holds *)
(* the way up from what is being checked.                                  *)
NamesInv ==
  /\ Structured(ast) /\ NamesFollow(ast)
  /\ Running => FramesFit(frames, ast) /\ Attended(frames, ast)

Quiet == ~ Open(ast, Top.node) /\ ~ (LoopBegins(Top) /\ Here.kind = "for")

LEMMA TopFits ==
  ASSUME NamesInv, Running
  PROVE  /\ DOMAIN ast = 1 .. Len(ast) /\ Len(ast) \in Nat /\ Structured(ast)
         /\ FramesFit(frames, ast) /\ Attended(frames, ast)
         /\ Len(frames) \in Nat /\ Len(frames) > 0 /\ FrameFits(frames, ast, Len(frames))
         /\ Top.routine = "program" => Len(frames) = 1 /\ Top.node = 0
         /\ Top.routine # "program" => Len(frames) > 1 /\ Top.node \in 1 .. Len(ast)
         /\ Top.routine \in {"function", "signature"} => Here.kind = "function"
         /\ Top.routine = "function" => Len(frames) = 2
<1>1. FramesFit(frames, ast) /\ Attended(frames, ast) /\ Structured(ast)
  BY DEF NamesInv
<1>2. Len(frames) \in Nat /\ Len(frames) > 0 /\ FrameFits(frames, ast, Len(frames))
  BY <1>1 DEF FramesFit
<1>3. /\ IF Len(frames) = 1 THEN Top.routine = "program" /\ Top.node = 0
         ELSE Top.routine # "program" /\ Top.node \in 1 .. Len(ast)
      /\ Top.routine \in {"function", "signature"} => Here.kind = "function"
      /\ Top.routine = "function" => Len(frames) = 2
  BY <1>2 DEF FrameFits, Top, Here
<1>4. DOMAIN ast = 1 .. Len(ast) /\ Len(ast) \in Nat
  BY <1>1 DEF Structured, IsTree
<1>5. Len(frames) # 1 => Len(frames) > 1
  <2>1. \A m \in Nat : m > 0 /\ m # 1 => m > 1
    OBVIOUS
  <2>2. Len(frames) \in Nat /\ Len(frames) > 0
    BY <1>2
  <2> QED  BY <2>1, <2>2, Zenon
<1>6. Top.routine = "program" => Len(frames) = 1 /\ Top.node = 0
  BY <1>3
<1>7. Top.routine # "program" => Len(frames) > 1 /\ Top.node \in 1 .. Len(ast)
  BY <1>3, <1>5
<1> QED  BY <1>1, <1>2, <1>3, <1>4, <1>6, <1>7

LEMMA QuietProceeds ==
  ASSUME NamesInv, Running, Quiet, NEW gr
  PROVE  Proceeds(frames, gr, ast)
<1> SUFFICES ASSUME NEW e \in 1 .. Len(ast), ast[e].parent = Top.node, ast[e].role = "decl",
                    LoopBegins(Top)
             PROVE  FALSE
  BY DEF Proceeds, Top
<1>1. Here.kind = "for"
  BY TopFits DEF Structured, RolesFit, ParentKinds, Here
<1> QED  BY <1>1 DEF Quiet

LEMMA ChangesInv ==
  ASSUME NamesInv, Running, Changes(ast, ast', Top.node), ~ Open(ast, Top.node),
         outcome' = "running" => Moved(frames, frames', ast') /\ Proceeds(frames, frames', ast)
  PROVE  NamesInv'
<1>1. PICK t : t = ast
  OBVIOUS
<1>2. PICK u : u = ast'
  OBVIOUS
<1>3. PICK fr : fr = frames
  OBVIOUS
<1>4. PICK gr : gr = frames'
  OBVIOUS
<1>5. PICK n : n = fr[Len(fr)].node
  OBVIOUS
<1>6. Structured(t) /\ NamesFollow(t) /\ FramesFit(fr, t) /\ Attended(fr, t)
  BY <1>1, <1>3 DEF NamesInv
<1>7. Changes(t, u, n) /\ Updated(t, u, n) /\ ~ Open(t, n)
  BY <1>1, <1>2, <1>3, <1>5 DEF Changes, Top
<1>8. Structured(u) /\ Extends(t, u)
  BY <1>6, <1>7, UpdatedTree
<1>9. NamesFollow(u)
  <2>1. Len(u) = Len(t) /\ \A i \in 1 .. Len(t) : IsName(u[i]) => IsName(t[i]) /\ u[i].decl = t[i].decl
    BY <1>7 DEF Changes, Updated
  <2> QED  BY <1>6, <1>8, <2>1, NamesKept
<1>10. ASSUME outcome' = "running" PROVE FramesFit(gr, u) /\ Attended(gr, u)
  <2>1. Moved(fr, gr, u) /\ Proceeds(fr, gr, t)
    BY <1>1, <1>2, <1>3, <1>4, <1>10
  <2> QED  BY <1>5, <1>6, <1>7, <2>1, QuietFits
<1> QED  BY <1>2, <1>4, <1>8, <1>9, <1>10 DEF NamesInv, Running

LEMMA FinishInv ==
  ASSUME NamesInv, Running, Changes(ast, ast', Top.node), Quiet, Top.routine # "program",
         outcome' = "running" => frames' = Popped
  PROVE  NamesInv'
<1>1. outcome' = "running" => Moved(frames, frames', ast')
  BY TopFits DEF Moved, Popped
<1>2. PICK gr : gr = frames'
  OBVIOUS
<1>3. Proceeds(frames, gr, ast)
  BY QuietProceeds
<1> QED  BY <1>1, <1>2, <1>3, ChangesInv DEF Quiet

LEMMA KeptInv ==
  ASSUME NamesInv, Running, Changes(ast, ast', Top.node), Quiet, Kept(frames, frames', ast')
  PROVE  NamesInv'
<1>1. PICK gr : gr = frames'
  OBVIOUS
<1>2. Proceeds(frames, gr, ast)
  BY QuietProceeds
<1> QED  BY <1>1, <1>2, ChangesInv DEF Quiet, Moved

(* A call for a part of the node.                                          *)
LEMMA PartCalled ==
  ASSUME NEW t, NEW u, NEW fr, NEW n, Structured(t), FramesFit(fr, t), Updated(t, u, n),
         n = fr[Len(fr)].node, NEW hr, Kept(fr, hr, u), NEW c \in Parts(t, n, "left") \cup
           Parts(t, n, "right") \cup Parts(t, n, "type_def") \cup Parts(t, n, "decl") \cup
           Parts(t, n, "body") \cup Parts(t, n, "argument") \cup Parts(t, n, "parameter"),
         NEW r \in {"expression", "statement", "type"},
         r = "type" => t[c].role \in {"type_def", "left"}, NEW p
  PROVE  Moved(fr, Append(hr, Frame(r, c, p)), u)
<1>1. Structured(u) /\ FramesFit(fr, u)
  BY UpdatedFits
<1>2. FramesFit(hr, u) /\ Len(hr) = Len(fr) /\ hr[Len(fr)].node = n
  BY <1>1, KeptFits DEF Kept
<1>3. /\ c \in 1 .. Len(u) /\ u[c].parent = n /\ u[c].role = t[c].role
      /\ u[c].role \notin {"statement", "function"}
  BY DEF Parts, Updated
<1>4. Entered(hr, c, r, u)
  BY <1>1, <1>2, <1>3, PartEntered
<1> QED  BY <1>4 DEF Moved

LEMMA CallMoves ==
  ASSUME NamesInv, Running, Updated(ast, ast', Top.node),
         NEW step, step \notin {"signature", "argument"},
         NEW role \in {"left", "right", "type_def", "decl", "body"}, Has(Top.node, role),
         NEW routine \in {"expression", "statement", "type"},
         routine = "type" => role \in {"type_def", "left"},
         \E p : CallFrom(Stepping(step), routine, Child(Top.node, role), p)
  PROVE  outcome' = "running" => Moved(frames, frames', ast')
<1>1. PICK t : t = ast
  OBVIOUS
<1>2. PICK u : u = ast'
  OBVIOUS
<1>3. PICK fr : fr = frames
  OBVIOUS
<1>4. PICK n : n = fr[Len(fr)].node
  OBVIOUS
<1>5. PICK c : c = Child(Top.node, role)
  OBVIOUS
<1>6. c \in Parts(t, n, role)
  <2>1. Children(n, role) = Parts(t, n, role)
    BY <1>1, TopFits DEF Children, Parts
  <2>2. c = CHOOSE i \in Children(n, role) : TRUE
    BY <1>3, <1>4, <1>5 DEF Child, Top
  <2>3. Children(n, role) # {}
    BY <1>3, <1>4 DEF Has, Top
  <2> QED  BY <2>1, <2>2, <2>3
<1>7. Structured(t) /\ FramesFit(fr, t) /\ Updated(t, u, n)
  BY <1>1, <1>2, <1>3, <1>4, TopFits DEF Top
<1>8. PICK hr : hr = [fr EXCEPT ![Len(fr)].step = step]
  OBVIOUS
<1>9. Kept(fr, hr, u)
  <2>1. FramesFit(fr, u)
    BY <1>7, UpdatedFits
  <2> QED  BY <1>8, <2>1, StepKept
<1>10. t[c].role = role
  BY <1>6 DEF Parts
<1>11. \A p : Moved(fr, Append(hr, Frame(routine, c, p)), u)
  <2> SUFFICES ASSUME NEW p PROVE Moved(fr, Append(hr, Frame(routine, c, p)), u)
    OBVIOUS
  <2> QED  BY <1>4, <1>6, <1>7, <1>9, <1>10, PartCalled
<1>12. SUFFICES ASSUME outcome' = "running" PROVE Moved(frames, frames', ast')
  OBVIOUS
<1>13. PICK p : frames' = Append(Stepping(step), Frame(routine, Child(Top.node, role), p))
  BY <1>12 DEF CallFrom
<1>14. frames' = Append(hr, Frame(routine, c, p))
  BY <1>3, <1>5, <1>8, <1>13 DEF Stepping
<1> QED  BY <1>2, <1>3, <1>11, <1>14

LEMMA CallInv ==
  ASSUME NamesInv, Running, Changes(ast, ast', Top.node), Quiet,
         NEW step, step \notin {"signature", "argument"},
         NEW role \in {"left", "right", "type_def", "decl", "body"}, Has(Top.node, role),
         NEW routine \in {"expression", "statement", "type"},
         routine = "type" => role \in {"type_def", "left"},
         \E p : CallFrom(Stepping(step), routine, Child(Top.node, role), p)
  PROVE  NamesInv'
<1>1. outcome' = "running" => Moved(frames, frames', ast')
  BY CallMoves DEF Changes
<1>2. PICK gr : gr = frames'
  OBVIOUS
<1>3. Proceeds(frames, gr, ast)
  BY QuietProceeds
<1> QED  BY <1>1, <1>2, <1>3, ChangesInv DEF Quiet

-----------------------------------------------------------------------------
(* The handlers, one by one.                                               *)
Retyped == ast' = ast \/ \E x : ast' = [ast EXCEPT ![Top.node].type = x]

LEMMA RetypedChanges ==
  ASSUME NamesInv, Running, Top.routine # "program", Retyped
  PROVE  Changes(ast, ast', Top.node)
<1>1. PICK t : t = ast
  OBVIOUS
<1>2. PICK n : n = Top.node
  OBVIOUS
<1>3. Structured(t) /\ n \in 1 .. Len(t)
  BY <1>1, <1>2, TopFits
<1>4. CASE ast' = ast
  BY <1>1, <1>2, <1>3, <1>4, SameChanges
<1>5. ASSUME NEW x, ast' = [ast EXCEPT ![Top.node].type = x] PROVE Changes(ast, ast', Top.node)
  <2>1. ast' = [t EXCEPT ![n].type = x]
    BY <1>1, <1>2, <1>5
  <2>2. Changes(t, [t EXCEPT ![n].type = x], n)
    BY <1>3, TypedChanges
  <2> QED  BY <1>1, <1>2, <2>1, <2>2
<1> QED  BY <1>4, <1>5 DEF Retyped

(* A step that stops the compiler changes nothing else.                    *)
LEMMA StopInv ==
  ASSUME NamesInv, Running, ast' = ast, frames' = frames
  PROVE  NamesInv'
BY DEF NamesInv, Running

LEMMA RetypedFinishInv ==
  ASSUME NamesInv, Running, Quiet, Top.routine # "program", Retyped,
         outcome' = "running" => frames' = Popped
  PROVE  NamesInv'
BY RetypedChanges, FinishInv

LEMMA FinishIs ==
  ASSUME NEW nodes, NEW error, Finish(nodes, error), Running
  PROVE  (ast' = nodes /\ frames' = Popped) \/ (ast' = ast /\ outcome' # "running")
BY DEF Finish

LEMMA HasNeeded ==
  ASSUME NamesInv, Running, Top.routine # "program", Here.kind \in DOMAIN Needed,
         NEW role \in Needed[Here.kind]
  PROVE  Has(Top.node, role)
<1>1. \E j \in 1 .. Len(ast) : ast[j].parent = Top.node /\ ast[j].role = role
  BY TopFits DEF Structured, Complete, Here
<1>2. DOMAIN ast = 1 .. Len(ast)
  BY TopFits
<1> QED  BY <1>1, <1>2 DEF Has, Children

(* The running activation goes on at step when the routine is done with    *)
(* the part in that role.                                                  *)
Calls(step, role, routine) ==
  /\ step \notin {"signature", "argument"}
  /\ routine \in {"expression", "statement", "type"}
  /\ role \in {"left", "right", "type_def", "decl", "body"}
  /\ routine = "type" => role \in {"type_def", "left"}
  /\ Has(Top.node, role)
  /\ \E p : CallFrom(Stepping(step), routine, Child(Top.node, role), p)

LEMMA PartInv ==
  ASSUME NamesInv, Running, Quiet, Top.routine # "program", Retyped,
         NEW step, NEW role, NEW routine, Calls(step, role, routine)
  PROVE  NamesInv'
<1>1. Changes(ast, ast', Top.node)
  BY RetypedChanges
<1>2. /\ step \notin {"signature", "argument"}
      /\ routine \in {"expression", "statement", "type"}
      /\ role \in {"left", "right", "type_def", "decl", "body"}
      /\ routine = "type" => role \in {"type_def", "left"}
      /\ Has(Top.node, role)
      /\ \E p : CallFrom(Stepping(step), routine, Child(Top.node, role), p)
  BY DEF Calls
<1> QED  BY <1>1, <1>2, CallInv

LEMMA TypeQuiet ==
  ASSUME NamesInv, Running, Top.routine = "type"
  PROVE  Quiet
<1>1. Here.role \in {"type_def", "left"}
  BY TopFits DEF FrameFits, Top, Here
<1> QED  BY <1>1 DEF Quiet, Open, LoopBegins, Here

LEMMA KnownQuiet ==
  ASSUME Here.kind # "?", ~ (LoopBegins(Top) /\ Here.kind = "for")
  PROVE  Quiet
BY DEF Quiet, Open, Here

LEMMA ResolveTypeInv ==
  ASSUME NamesInv, ResolveType
  PROVE  NamesInv'
<1>1. CASE AlreadyResolved
  <2>1. Running /\ Top.routine = "type" /\ Finish(ast, FALSE)
    BY <1>1 DEF AlreadyResolved, At, FinishWith
  <2>2. ast' = ast /\ (outcome' = "running" => frames' = Popped)
    BY <2>1 DEF Finish
  <2> QED  BY <2>1, <2>2, TypeQuiet, RetypedFinishInv DEF Retyped
<1>2. CASE NamedType
  <2>1. Running /\ Top.routine = "type"
    BY <1>2 DEF NamedType, AtNode, At
  <2>2. CASE Stop("not_implemented")
    BY <2>1, <2>2, StopInv DEF Stop
  <2>3. CASE FinishWith(Typed(FindByName(table, Here.name)))
    <3>1. Retyped /\ (outcome' = "running" => frames' = Popped)
      BY <2>3 DEF FinishWith, Finish, Typed, Retyped
    <3> QED  BY <2>1, <3>1, TypeQuiet, RetypedFinishInv
  <2> QED  BY <1>2, <2>2, <2>3 DEF NamedType
<1>3. CASE BeginPointer
  <2>1. /\ Running /\ Top.routine = "type" /\ Here.kind = "pointer" /\ ast' = ast
        /\ CallFrom(Stepping("referenced"), "type", Child(Top.node, "left"), 0)
    BY <1>3 DEF BeginPointer, Unresolved, Begin, AtNode, At, Call
  <2>2. Here.kind \in DOMAIN Needed /\ "left" \in Needed[Here.kind]
    BY <2>1 DEF Needed
  <2>3. Quiet /\ Retyped
    BY <2>1, TypeQuiet DEF Retyped
  <2>4. Calls("referenced", "left", "type")
    BY <2>1, <2>2, HasNeeded DEF Calls
  <2> QED  BY <2>1, <2>2, <2>3, <2>4, PartInv
<1>4. CASE EndPointer
  <2>1. /\ Running /\ Top.routine = "type"
        /\ Retyped /\ (outcome' = "running" => frames' = Popped)
    BY <1>4 DEF EndPointer, AtNode, At, Finish, Typed, Retyped
  <2> QED  BY <2>1, TypeQuiet, RetypedFinishInv
<1>5. CASE BeginTypeOf
  <2>1. /\ Running /\ Top.routine = "type" /\ Here.kind = "type_of" /\ ast' = ast
        /\ CallFrom(Stepping("expression"), "expression", Child(Top.node, "left"), 0)
    BY <1>5 DEF BeginTypeOf, Unresolved, Begin, AtNode, At, Call, Check
  <2>2. Here.kind \in DOMAIN Needed /\ "left" \in Needed[Here.kind]
    BY <2>1 DEF Needed
  <2>3. Quiet /\ Retyped
    BY <2>1, TypeQuiet DEF Retyped
  <2>4. Calls("expression", "left", "expression")
    BY <2>1, <2>2, HasNeeded DEF Calls
  <2> QED  BY <2>1, <2>2, <2>3, <2>4, PartInv
<1>6. CASE EndTypeOf
  <2>1. /\ Running /\ Top.routine = "type"
        /\ Retyped /\ (outcome' = "running" => frames' = Popped)
    BY <1>6 DEF EndTypeOf, AtNode, At, FinishWith, Finish, Typed, Retyped
  <2> QED  BY <2>1, TypeQuiet, RetypedFinishInv
<1> QED  BY <1>1, <1>2, <1>3, <1>4, <1>5, <1>6 DEF ResolveType

LEMMA ExpressionQuiet ==
  ASSUME Top.routine = "expression", Here.kind \notin {"?", "for"}
  PROVE  Quiet
BY KnownQuiet DEF LoopBegins

LEMMA ExpressionEnds ==
  ASSUME NamesInv, Running, Top.routine = "expression", Here.kind \notin {"?", "for"}, Retyped,
         outcome' = "running" => frames' = Popped
  PROVE  NamesInv'
BY ExpressionQuiet, RetypedFinishInv

LEMMA LiteralsInv ==
  ASSUME NamesInv, OtherLiteral \/ IntegerLiteral \/ Unsupported \/ CallOther
  PROVE  NamesInv'
<1>1. CASE OtherLiteral
  <2>1. /\ Running /\ Top.routine = "expression" /\ Here.kind \notin {"?", "for"}
        /\ Retyped /\ (outcome' = "running" => frames' = Popped)
    BY <1>1 DEF OtherLiteral, AtNode, At, FinishWith, Finish, Retyped
  <2> QED  BY <2>1, ExpressionEnds
<1>2. CASE IntegerLiteral
  <2>1. Running /\ Top.routine = "expression" /\ Here.kind \notin {"?", "for"}
    BY <1>2 DEF IntegerLiteral, AtNode, At
  <2>2. CASE Stop("not_an_integer")
    BY <2>1, <2>2, StopInv DEF Stop
  <2>3. CASE FinishWith(ast)
    <3>1. Retyped /\ (outcome' = "running" => frames' = Popped)
      BY <2>3 DEF FinishWith, Finish, Retyped
    <3> QED  BY <2>1, <3>1, ExpressionEnds
  <2>4. CASE FinishWith(Typed(LiteralType(table, Here.value, Here.type, Top.preferred)))
    <3>1. Retyped /\ (outcome' = "running" => frames' = Popped)
      BY <2>4 DEF FinishWith, Finish, Typed, Retyped
    <3> QED  BY <2>1, <3>1, ExpressionEnds
  <2> QED  BY <1>2, <2>2, <2>3, <2>4 DEF IntegerLiteral
<1>3. CASE Unsupported
  BY <1>3, StopInv DEF Unsupported, AtNode, At, Stop
<1>4. CASE CallOther
  <2>1. /\ Running /\ Top.routine = "expression" /\ Here.kind \notin {"?", "for"}
        /\ Retyped /\ (outcome' = "running" => frames' = Popped)
    BY <1>4 DEF CallOther, AtNode, At, Finish, Retyped
  <2> QED  BY <2>1, ExpressionEnds
<1> QED  BY <1>1, <1>2, <1>3, <1>4

LEMMA SizeOfInv ==
  ASSUME NamesInv, BeginSizeOf \/ EndSizeOf
  PROVE  NamesInv'
<1>1. CASE BeginSizeOf
  <2>1. /\ Running /\ Top.routine = "expression" /\ Here.kind = "size_of" /\ ast' = ast
        /\ CallFrom(Stepping("type"), "type", Child(Top.node, "type_def"), 0)
    BY <1>1 DEF BeginSizeOf, Begin, AtNode, At, Resolve, Call
  <2>2. Here.kind \in DOMAIN Needed /\ "type_def" \in Needed[Here.kind]
    BY <2>1 DEF Needed
  <2>3. Calls("type", "type_def", "type")
    BY <2>1, <2>2, HasNeeded DEF Calls
  <2>4. Quiet /\ Retyped
    BY <2>1, ExpressionQuiet DEF Retyped
  <2> QED  BY <2>1, <2>3, <2>4, PartInv
<1>2. CASE EndSizeOf
  <2>1. PICK v : v = SizeAsLiteral(table[TypeDef.type].size)
    OBVIOUS
  <2>2. /\ Running /\ Top.routine = "expression" /\ Here.kind = "size_of"
        /\ Finish([ast EXCEPT ![Top.node].kind = "integer", ![Top.node].type = U64,
                              ![Top.node].value = v], FALSE)
    BY <1>2, <2>1 DEF EndSizeOf, AtNode, At, FinishWith
  <2>3. /\ outcome' = "running" => frames' = Popped
        /\ \/ ast' = ast
           \/ ast' = [ast EXCEPT ![Top.node].kind = "integer", ![Top.node].type = U64,
                                 ![Top.node].value = v]
    BY <2>2 DEF Finish
  <2>4. CASE ast' = ast
    BY <2>2, <2>3, <2>4, ExpressionEnds DEF Retyped
  <2>5. CASE ast' = [ast EXCEPT ![Top.node].kind = "integer", ![Top.node].type = U64,
                                ![Top.node].value = v]
    <3>1. PICK t : t = ast
      OBVIOUS
    <3>2. PICK n : n = Top.node
      OBVIOUS
    <3>3. Structured(t) /\ n \in 1 .. Len(t) /\ t[n].kind \in {"size_of", "minus"}
      BY <2>2, <3>1, <3>2, TopFits DEF Here
    <3>4. Changes(t, [t EXCEPT ![n].kind = "integer", ![n].type = U64, ![n].value = v], n)
      BY <3>3, LiteralChanges
    <3>5. Changes(ast, ast', Top.node)
      BY <2>5, <3>1, <3>2, <3>4
    <3> QED  BY <2>2, <2>3, <3>5, ExpressionQuiet, FinishInv
  <2> QED  BY <2>3, <2>4, <2>5
<1> QED  BY <1>1, <1>2

LEMMA BinaryInv ==
  ASSUME NamesInv, BeginBinary \/ SecondOperand \/ EndBinary
  PROVE  NamesInv'
<1>1. ASSUME Running, Top.routine = "expression", Here.kind \in Binary, ast' = ast,
             NEW step, step \in {"left", "right", "both"}, NEW role, role \in {"left", "right"},
             \E p : CallFrom(Stepping(step), "expression", Child(Top.node, role), p)
      PROVE  NamesInv'
  <2>1. Here.kind \in DOMAIN Needed /\ role \in Needed[Here.kind]
    BY <1>1 DEF Needed, Binary
  <2>2. Calls(step, role, "expression")
    BY <1>1, <2>1, HasNeeded DEF Calls
  <2>3. Quiet /\ Retyped
    BY <1>1, ExpressionQuiet DEF Retyped, Binary
  <2> QED  BY <1>1, <2>2, <2>3, PartInv
<1>2. CASE BeginBinary
  <2>1. Running /\ Top.routine = "expression" /\ Here.kind \in Binary /\ ast' = ast
    BY <1>2 DEF BeginBinary, AtNode, At
  <2>2. \/ CallFrom(Stepping("right"), "expression", Child(Top.node, "right"), 0)
        \/ CallFrom(Stepping("left"), "expression", Child(Top.node, "left"), 0)
    BY <1>2 DEF BeginBinary, Check, Call
  <2> QED  BY <1>1, <2>1, <2>2
<1>3. CASE SecondOperand
  <2>1. Running /\ Top.routine = "expression" /\ Here.kind \in Binary /\ ast' = ast
    BY <1>3 DEF SecondOperand, AtNode, At
  <2>2. \/ CallFrom(Stepping("both"), "expression", Child(Top.node, "left"), Right.type)
        \/ CallFrom(Stepping("both"), "expression", Child(Top.node, "right"), Left.type)
    BY <1>3 DEF SecondOperand, Check, Call
  <2> QED  BY <1>1, <2>1, <2>2
<1>4. CASE EndBinary
  <2>1. Running /\ Top.routine = "expression" /\ Here.kind \notin {"?", "for"}
    BY <1>4 DEF EndBinary, AtNode, At, Binary
  <2>2. PICK answer : answer = CanImplicitlyCastEitherWay(table, Left.type, Right.type)
    OBVIOUS
  <2>3. \/ Stop(answer)
        \/ Finish(ast, TRUE)
        \/ \E x, e : Finish([ast EXCEPT ![Top.node].type = x], e)
    BY <1>4, <2>2 DEF EndBinary, FinishWith, Typed
  <2>4. CASE Stop(answer)
    BY <2>1, <2>4, StopInv DEF Stop
  <2>5. CASE Finish(ast, TRUE)
    BY <2>1, <2>5, ExpressionEnds DEF Finish, Retyped
  <2>6. ASSUME NEW x, NEW e, Finish([ast EXCEPT ![Top.node].type = x], e) PROVE NamesInv'
    BY <2>1, <2>6, ExpressionEnds DEF Finish, Retyped
  <2> QED  BY <2>3, <2>4, <2>5, <2>6
<1> QED  BY <1>2, <1>3, <1>4

LEMMA MinusInv ==
  ASSUME NamesInv, BeginMinus \/ EndMinus
  PROVE  NamesInv'
<1>1. CASE BeginMinus
  <2>1. /\ Running /\ Top.routine = "expression" /\ Here.kind = "minus" /\ ast' = ast
        /\ CallFrom(Stepping("operand"), "expression", Child(Top.node, "left"), MinusType)
    BY <1>1 DEF BeginMinus, Begin, AtNode, At, Check, Call
  <2>2. Here.kind \in DOMAIN Needed /\ "left" \in Needed[Here.kind]
    BY <2>1 DEF Needed
  <2>3. Calls("operand", "left", "expression")
    BY <2>1, <2>2, HasNeeded DEF Calls
  <2>4. Quiet /\ Retyped
    BY <2>1, ExpressionQuiet DEF Retyped
  <2> QED  BY <2>1, <2>3, <2>4, PartInv
<1>2. CASE EndMinus
  <2>1. PICK v : v = Negated(Left.value)
    OBVIOUS
  <2>2. PICK x : x = MinusType
    OBVIOUS
  <2>3. /\ Running /\ Top.routine = "expression" /\ Here.kind = "minus"
        /\ \/ Finish([[ast EXCEPT ![Top.node].type = x]
                        EXCEPT ![Top.node].kind = "integer", ![Top.node].value = v], FALSE)
           \/ Finish([ast EXCEPT ![Top.node].type = x], FALSE)
    BY <1>2, <2>1, <2>2 DEF EndMinus, AtNode, At, FinishWith, Typed
  <2>4. /\ outcome' = "running" => frames' = Popped
        /\ \/ Retyped
           \/ ast' = [[ast EXCEPT ![Top.node].type = x]
                        EXCEPT ![Top.node].kind = "integer", ![Top.node].value = v]
    BY <2>3 DEF Finish, Retyped
  <2>5. CASE Retyped
    BY <2>3, <2>4, <2>5, ExpressionEnds
  <2>6. CASE ast' = [[ast EXCEPT ![Top.node].type = x]
                        EXCEPT ![Top.node].kind = "integer", ![Top.node].value = v]
    <3>1. PICK t : t = ast
      OBVIOUS
    <3>2. PICK n : n = Top.node
      OBVIOUS
    <3>3. Structured(t) /\ n \in 1 .. Len(t) /\ t[n].kind \in {"size_of", "minus"}
      BY <2>3, <3>1, <3>2, TopFits DEF Here
    <3>4. Changes(t, [[t EXCEPT ![n].type = x] EXCEPT ![n].kind = "integer", ![n].value = v], n)
      BY <3>3, LiteralChanges
    <3>5. Changes(ast, ast', Top.node)
      BY <2>6, <3>1, <3>2, <3>4
    <3> QED  BY <2>3, <2>4, <3>5, ExpressionQuiet, FinishInv
  <2> QED  BY <2>4, <2>5, <2>6
<1> QED  BY <1>1, <1>2

LEMMA MemberInv ==
  ASSUME NamesInv, BeginMember \/ EndMember
  PROVE  NamesInv'
<1>1. CASE BeginMember
  <2>1. /\ Running /\ Top.routine = "expression" /\ Here.kind = "member" /\ ast' = ast
        /\ CallFrom(Stepping("object"), "expression", Child(Top.node, "left"), 0)
    BY <1>1 DEF BeginMember, Begin, AtNode, At, Check, Call
  <2>2. Here.kind \in DOMAIN Needed /\ "left" \in Needed[Here.kind]
    BY <2>1 DEF Needed
  <2>3. Calls("object", "left", "expression")
    BY <2>1, <2>2, HasNeeded DEF Calls
  <2>4. Quiet /\ Retyped
    BY <2>1, ExpressionQuiet DEF Retyped
  <2> QED  BY <2>1, <2>3, <2>4, PartInv
<1>2. CASE EndMember
  <2>1. Running /\ Top.routine = "expression" /\ Here.kind \notin {"?", "for"}
    BY <1>2 DEF EndMember, AtNode, At
  <2>2. \/ Finish(ast, TRUE)
        \/ \E x : Finish([ast EXCEPT ![Top.node].type = x], FALSE)
    BY <1>2 DEF EndMember, FinishWith, Typed
  <2>3. CASE Finish(ast, TRUE)
    BY <2>1, <2>3, ExpressionEnds DEF Finish, Retyped
  <2>4. ASSUME NEW x, Finish([ast EXCEPT ![Top.node].type = x], FALSE) PROVE NamesInv'
    BY <2>1, <2>4, ExpressionEnds DEF Finish, Retyped
  <2> QED  BY <2>2, <2>3, <2>4
<1> QED  BY <1>1, <1>2

LEMMA CastInv ==
  ASSUME NamesInv, BeginCast \/ CastOperand \/ EndCast
  PROVE  NamesInv'
<1>1. CASE BeginCast
  <2>1. /\ Running /\ Top.routine = "expression" /\ Here.kind = "cast" /\ ast' = ast
        /\ CallFrom(Stepping("type"), "type", Child(Top.node, "type_def"), 0)
    BY <1>1 DEF BeginCast, Begin, AtNode, At, Resolve, Call
  <2>2. Here.kind \in DOMAIN Needed /\ "type_def" \in Needed[Here.kind]
    BY <2>1 DEF Needed
  <2>3. Calls("type", "type_def", "type")
    BY <2>1, <2>2, HasNeeded DEF Calls
  <2>4. Quiet /\ Retyped
    BY <2>1, ExpressionQuiet DEF Retyped
  <2> QED  BY <2>1, <2>3, <2>4, PartInv
<1>2. CASE CastOperand
  <2>1. /\ Running /\ Top.routine = "expression" /\ Here.kind = "cast"
        /\ ast' = [ast EXCEPT ![Top.node].type = TypeDef.type]
        /\ CallFrom(Stepping("operand"), "expression", Child(Top.node, "left"), 0)
    BY <1>2 DEF CastOperand, AtNode, At, Check, Call, Typed
  <2>2. Here.kind \in DOMAIN Needed /\ "left" \in Needed[Here.kind]
    BY <2>1 DEF Needed
  <2>3. Calls("operand", "left", "expression")
    BY <2>1, <2>2, HasNeeded DEF Calls
  <2>4. Quiet /\ Retyped
    BY <2>1, ExpressionQuiet DEF Retyped
  <2> QED  BY <2>1, <2>3, <2>4, PartInv
<1>3. CASE EndCast
  <2>1. Running /\ Top.routine = "expression" /\ Here.kind \notin {"?", "for"}
    BY <1>3 DEF EndCast, AtNode, At
  <2>2. PICK answer : answer = CanCastTo(table, Left.type, Here.type)
    OBVIOUS
  <2>3. Stop(answer) \/ Finish(ast, FALSE)
    BY <1>3, <2>2 DEF EndCast, FinishWith
  <2>4. CASE Stop(answer)
    BY <2>1, <2>4, StopInv DEF Stop
  <2>5. CASE Finish(ast, FALSE)
    BY <2>1, <2>5, ExpressionEnds DEF Finish, Retyped
  <2> QED  BY <2>3, <2>4, <2>5
<1> QED  BY <1>1, <1>2, <1>3

LEMMA EndAssignInv ==
  ASSUME NamesInv, EndAssign
  PROVE  NamesInv'
<1>1. Running /\ Top.routine = "expression" /\ Here.kind \notin {"?", "for"}
  BY DEF EndAssign, AtNode, At
<1>2. PICK answer : answer = CanImplicitlyCastTo(table, Right.type, Here.type)
  OBVIOUS
<1>3. Stop(answer) \/ \E e : Finish(ast, e)
  BY <1>2 DEF EndAssign
<1>4. CASE Stop(answer)
  BY <1>1, <1>4, StopInv DEF Stop
<1>5. ASSUME NEW e, Finish(ast, e) PROVE NamesInv'
  BY <1>1, <1>5, ExpressionEnds DEF Finish, Retyped
<1> QED  BY <1>3, <1>4, <1>5

-----------------------------------------------------------------------------
(* The lookup of a name.                                                   *)
LEMMA NameFound ==
  ASSUME NamesInv, Running, Top.routine = "expression",
         Here.kind \in {"identifier", "assign"}, LookUp(Top.node, Here.name).decl # 0
  PROVE  Bodied(ast, Top.node) =>
           /\ Follows(ast, Top.node, LookUp(Top.node, Here.name).decl)
           /\ Settled(ast, Top.node)
<1> SUFFICES ASSUME Bodied(ast, Top.node)
             PROVE  /\ Follows(ast, Top.node, LookUp(Top.node, Here.name).decl)
                    /\ Settled(ast, Top.node)
  OBVIOUS
<1>1. /\ Structured(ast) /\ FramesFit(frames, ast) /\ Attended(frames, ast)
      /\ Top.node \in 1 .. Len(ast) /\ DOMAIN ast = 1 .. Len(ast) /\ Len(ast) \in Nat
  BY TopFits
<1>2. LookUp(Top.node, Here.name).decl = FindDeclaration(Top.node, Here.name)
  BY DEF LookUp
<1>3. PICK t : t = ast
  OBVIOUS
<1>4. PICK fr : fr = frames
  OBVIOUS
<1>5. PICK n : n = Top.node
  OBVIOUS
<1>6. PICK x : x = Here.name
  OBVIOUS
<1>7. OnTheEdge(ast, n)
  <2>1. n = fr[Len(fr)].node /\ n # 0 /\ Structured(t) /\ FramesFit(fr, t)
    BY <1>1, <1>3, <1>4, <1>5 DEF Top
  <2> QED  BY <1>3, <2>1, FramesOnTheEdge
<1>8. Settled(ast, n)
  <2>1. /\ fr[Len(fr)].node # 0 /\ t[fr[Len(fr)].node].kind \notin {"?", "for"}
        /\ Structured(t) /\ FramesFit(fr, t) /\ Attended(fr, t)
    BY <1>1, <1>3, <1>4 DEF Top, Here
  <2> QED  BY <1>3, <2>1, ExpressionSettled
<1>9. Follows(ast, n, FindDeclaration(n, x))
  <2>1. n \in 1 .. Len(ast) /\ Bodied(ast, n) /\ FindDeclaration(n, x) # 0
    BY <1>1, <1>2, <1>5, <1>6
  <2>2. ast[n].kind # "block" /\ ast[n].kind # "for" /\ ast[n].kind # "function"
    BY <1>5 DEF Here
  <2>3. Rooted(ast) /\ RolesFit(ast) /\ InOrder(ast)
    BY <1>1 DEF Structured, IsTree
  <2> QED  BY <1>1, <1>7, <2>1, <2>2, <2>3, LookupFollows
<1> QED  BY <1>2, <1>5, <1>6, <1>8, <1>9

LEMMA ResolvedInv ==
  ASSUME NamesInv, Running, Top.routine = "expression",
         Here.kind \in {"identifier", "assign"},
         ast' = Declared(LookUp(Top.node, Here.name)),
         outcome' = "running" => Moved(frames, frames', ast')
  PROVE  NamesInv'
<1>1. PICK t : t = ast
  OBVIOUS
<1>2. PICK u : u = ast'
  OBVIOUS
<1>3. PICK fr : fr = frames
  OBVIOUS
<1>4. PICK gr : gr = frames'
  OBVIOUS
<1>5. PICK n : n = Top.node
  OBVIOUS
<1>6. PICK d : d = LookUp(Top.node, Here.name).decl
  OBVIOUS
<1>7. /\ Structured(t) /\ NamesFollow(t) /\ FramesFit(fr, t) /\ Attended(fr, t)
      /\ n \in 1 .. Len(t) /\ n = fr[Len(fr)].node /\ t[n].kind \in {"identifier", "assign"}
  BY <1>1, <1>3, <1>5, TopFits DEF NamesInv, Top, Here
<1>8. /\ Updated(t, u, n) /\ u[n].decl = d
      /\ \A i \in 1 .. Len(t) : i # n => u[i] = t[i]
  <2>1. PICK x : x = LookUp(Top.node, Here.name).type
    OBVIOUS
  <2>2. u = DeclaredAt(t, n, d, x)
    BY <1>1, <1>2, <1>5, <1>6, <2>1 DEF Declared, DeclaredAt
  <2>3. Structured(t) /\ n \in 1 .. Len(t) /\ t[n].kind \in {"identifier", "assign"}
    BY <1>7
  <2> QED  BY <2>2, <2>3, DeclaredUpdates
<1>9. Structured(u) /\ Extends(t, u) /\ Len(u) = Len(t)
  <2>1. Structured(t) /\ Updated(t, u, n)
    BY <1>7, <1>8
  <2>2. Structured(u) /\ Extends(t, u)
    BY <2>1, UpdatedTree
  <2>3. Len(u) = Len(t)
    BY <2>1 DEF Updated
  <2> QED  BY <2>2, <2>3
<1>10. NamesFollow(u)
  <2> SUFFICES ASSUME NEW i \in 1 .. Len(u), IsName(u[i]), Bodied(u, i)
               PROVE  \/ i \in 1 .. Len(t) /\ IsName(t[i]) /\ t[i].decl = u[i].decl
                      \/ Follows(u, i, u[i].decl) /\ Settled(u, i)
    BY <1>7, <1>9, NamesKept
  <2>1. CASE i # n
    BY <1>8, <1>9, <2>1
  <2>2. CASE i = n
    <3>1. Bodied(t, n)
      <4>1. \A j \in 1 .. Len(t) : u[j].parent = t[j].parent /\ u[j].role = t[j].role
        BY <1>9 DEF Extends
      <4>2. n \in 0 .. Len(t) /\ Len(t) <= Len(u)
        BY <1>7, <1>9 DEF Extends
      <4>3. Up(u, n) = Up(t, n)
        BY <1>7, <1>9, <4>1, <4>2, UpKept DEF Structured, IsTree
      <4>4. Up(t, n) \subseteq 1 .. Len(t)
        <5>1. Rooted(t) /\ Len(t) \in Nat
          BY <1>7 DEF Structured, IsTree, Rooted
        <5>2. Up(t, n) \subseteq 1 .. n
          BY <1>7, <5>1, UpIs
        <5> QED  BY <1>7, <5>1, <5>2
      <4> QED  BY <2>2, <4>1, <4>3, <4>4 DEF Bodied
    <3>2. d # 0
      BY <1>8, <2>2 DEF IsName
    <3>3. Follows(t, n, d) /\ Settled(t, n)
      BY <1>1, <1>5, <1>6, <3>1, <3>2, NameFound
    <3>4. Follows(u, n, d) /\ Settled(u, n)
      BY <1>7, <1>9, <3>3, FollowsKept
    <3> QED  BY <1>8, <2>2, <3>4
  <2> QED  BY <2>1, <2>2
<1>11. ASSUME outcome' = "running" PROVE FramesFit(gr, u) /\ Attended(gr, u)
  <2>1. Moved(fr, gr, u)
    BY <1>2, <1>3, <1>4, <1>11
  <2>2. Quiet
    BY ExpressionQuiet
  <2>3. Proceeds(fr, gr, t)
    BY <1>1, <1>3, <2>2, QuietProceeds
  <2>4. ~ Open(t, n)
    BY <1>1, <1>5, <2>2 DEF Quiet
  <2> QED  BY <1>7, <1>8, <2>1, <2>3, <2>4, QuietFits
<1> QED  BY <1>2, <1>4, <1>9, <1>10, <1>11 DEF NamesInv, Running

LEMMA IdentifierInv ==
  ASSUME NamesInv, Identifier
  PROVE  NamesInv'
<1>1. Running /\ Top.routine = "expression" /\ Here.kind = "identifier"
  BY DEF Identifier, AtNode, At
<1>2. \/ ast' = Declared(LookUp(Top.node, Here.name)) /\ frames' = Popped
      \/ ast' = ast /\ outcome' # "running"
  BY <1>1 DEF Identifier, Finish
<1>3. CASE ast' = Declared(LookUp(Top.node, Here.name)) /\ frames' = Popped
  <2>1. Moved(frames, frames', ast')
    BY <1>1, <1>3, TopFits DEF Moved, Popped
  <2> QED  BY <1>1, <1>3, <2>1, ResolvedInv
<1>4. CASE ast' = ast /\ outcome' # "running"
  BY <1>1, <1>4, ExpressionEnds DEF Retyped
<1> QED  BY <1>2, <1>3, <1>4

LEMMA BeginAssignInv ==
  ASSUME NamesInv, BeginAssign
  PROVE  NamesInv'
<1>1. /\ Running /\ Top.routine = "expression" /\ Here.kind = "assign"
      /\ ast' = Declared(LookUp(Top.node, Here.name))
      /\ \E p : CallFrom(Stepping("right"), "expression", Child(Top.node, "right"), p)
  BY DEF BeginAssign, AtNode, At, Check, Call
<1>2. Updated(ast, ast', Top.node)
  <2>1. PICK t : t = ast
    OBVIOUS
  <2>2. PICK n : n = Top.node
    OBVIOUS
  <2>3. PICK d : d = LookUp(Top.node, Here.name).decl
    OBVIOUS
  <2>4. PICK x : x = LookUp(Top.node, Here.name).type
    OBVIOUS
  <2>5. PICK u : u = ast'
    OBVIOUS
  <2>6. u = DeclaredAt(t, n, d, x)
    BY <1>1, <2>1, <2>2, <2>3, <2>4, <2>5 DEF Declared, DeclaredAt
  <2>7. Structured(t) /\ n \in 1 .. Len(t) /\ t[n].kind \in {"identifier", "assign"}
    BY <1>1, <2>1, <2>2, TopFits DEF Here
  <2>8. Updated(t, u, n)
    BY <2>6, <2>7, DeclaredUpdates
  <2> QED  BY <2>1, <2>2, <2>5, <2>8
<1>3. Has(Top.node, "right")
  BY <1>1, HasNeeded DEF Needed
<1>4. outcome' = "running" => Moved(frames, frames', ast')
  BY <1>1, <1>2, <1>3, CallMoves
<1> QED  BY <1>1, <1>4, ResolvedInv

-----------------------------------------------------------------------------
(* Calls.                                                                  *)
LEMMA FindFunctionIs ==
  ASSUME DOMAIN ast = 1 .. Len(ast), Structured(ast), NEW x
  PROVE  /\ FindFunction(x) = Callee(ast, x)
         /\ FindFunction(x) # 0 =>
              /\ FindFunction(x) \in 1 .. Len(ast) /\ ast[FindFunction(x)].role = "function"
              /\ ast[FindFunction(x)].name = x
<1>1. \A f \in 1 .. Len(ast) : ast[f].role = "function" <=> ast[f].parent = 0
  BY DEF Structured, RolesFit
<1>2. PICK S : S = FunctionsNamed(ast, x)
  OBVIOUS
<1>3. {f \in Children(0, "function") : ast[f].name = x} = S
  BY <1>1, <1>2 DEF Children, FunctionsNamed
<1>4. FindFunction(x) = IF S = {} THEN 0 ELSE Least(S)
  BY <1>3 DEF FindFunction
<1>5. ASSUME S # {} PROVE Least(S) \in S
  <2>1. S \in SUBSET Nat
    BY <1>2 DEF FunctionsNamed, Structured, IsTree, Rooted
  <2>2. \E i \in S : \A j \in S : i <= j
    BY <1>5, <2>1, LeastElement
  <2> QED  BY <2>2 DEF Least
<1> QED  BY <1>2, <1>4, <1>5 DEF Callee, FunctionsNamed

LEMMA NthIn ==
  ASSUME DOMAIN ast = 1 .. Len(ast), Len(ast) \in Nat, NEW n, NEW r,
         NEW k, k \in 1 .. Cardinality(Children(n, r))
  PROVE  Nth(n, r, k) \in Parts(ast, n, r)
<1>1. PICK S : S = Children(n, r)
  OBVIOUS
<1>2. PICK m : m = Len(ast)
  OBVIOUS
<1>3. S \in SUBSET (1 .. m) /\ m \in Nat
  BY <1>1, <1>2 DEF Children
<1>4. \E i \in S : Cardinality({j \in S : j <= i}) = k
  <2>1. k \in 1 .. Cardinality(S)
    BY <1>1
  <2>2. S \in SUBSET (1 .. m)
    BY <1>3
  <2>3. m \in Nat
    BY <1>3
  <2> QED  BY <2>1, <2>2, <2>3, NthExists, Zenon
<1>5. Nth(n, r, k) \in S
  BY <1>1, <1>4 DEF Nth
<1> QED  BY <1>1, <1>5 DEF Children, Parts

LEMMA CountFits ==
  ASSUME DOMAIN ast = 1 .. Len(ast), Len(ast) \in Nat, NEW n, NEW r
  PROVE  /\ Children(n, r) = Parts(ast, n, r)
         /\ Cardinality(Children(n, r)) \in Nat
         /\ Has(n, r) => Cardinality(Children(n, r)) > 0
<1>1. PICK S : S = Children(n, r)
  OBVIOUS
<1>2. PICK m : m = Len(ast)
  OBVIOUS
<1>3. S \subseteq 1 .. m /\ m \in Nat
  BY <1>1, <1>2 DEF Children
<1>4. IsFiniteSet(S)
  <2>1. 1 \in Int /\ m \in Int
    BY <1>3
  <2>2. IsFiniteSet(1 .. m)
    BY <2>1, FS_Interval
  <2> QED  BY <1>3, <2>2, FS_Subset
<1>5. Cardinality(S) \in Nat /\ (Cardinality(S) = 0 <=> S = {})
  BY <1>4, FS_CardinalityType, FS_EmptySet
<1>6. Cardinality(S) \in Nat /\ (S # {} => Cardinality(S) > 0)
  BY <1>5
<1>7. Children(n, r) = Parts(ast, n, r)
  BY DEF Children, Parts
<1> QED  BY <1>1, <1>6, <1>7 DEF Has

LEMMA BeginCallInv ==
  ASSUME NamesInv, BeginCall
  PROVE  NamesInv'
<1>1. Running /\ Top.routine = "expression" /\ Here.kind = "call"
  BY DEF BeginCall, AtNode, At
<1>2. PICK c : c = FindFunction(Here.name)
  OBVIOUS
<1>3. CASE c = 0
  <2>1. Finish(ast, TRUE)
    BY <1>2, <1>3 DEF BeginCall
  <2> QED  BY <1>1, <2>1, ExpressionEnds DEF Finish, Retyped
<1>4. CASE c # 0
  <2>1. /\ ast' = [ast EXCEPT ![Top.node].decl = c]
        /\ \/ CallFrom(Stepping("signature"), "signature", c, 0)
           \/ frames' = Stepping("signature") /\ outcome' = outcome
    BY <1>2, <1>4 DEF BeginCall
  <2>2. PICK t : t = ast
    OBVIOUS
  <2>3. PICK u : u = ast'
    OBVIOUS
  <2>4. PICK n : n = Top.node
    OBVIOUS
  <2>5. PICK fr : fr = frames
    OBVIOUS
  <2>6. PICK hr : hr = [fr EXCEPT ![Len(fr)].step = "signature"]
    OBVIOUS
  <2>7. /\ Structured(t) /\ FramesFit(fr, t) /\ n \in 1 .. Len(t) /\ n = fr[Len(fr)].node
        /\ t[n].kind = "call"
    BY <1>1, <2>2, <2>4, <2>5, TopFits DEF Here, Top
  <2>8. c = Callee(t, t[n].name) /\ c \in 1 .. Len(t) /\ t[c].role = "function"
    <3>1. DOMAIN ast = 1 .. Len(ast) /\ Structured(ast)
      BY <1>1, TopFits
    <3>2. PICK x : x = Here.name
      OBVIOUS
    <3>3. /\ c = Callee(ast, x)
          /\ c \in 1 .. Len(ast) /\ ast[c].role = "function"
      BY <1>2, <1>4, <3>1, <3>2, FindFunctionIs
    <3>4. x = t[n].name
      BY <2>2, <2>4, <3>2 DEF Here
    <3> QED  BY <2>2, <3>3, <3>4
  <2>9. Changes(t, u, n) /\ u[n].decl = c
    <3>1. u = CalledAt(t, n, c)
      BY <2>1, <2>2, <2>3, <2>4 DEF CalledAt
    <3> QED  BY <1>4, <2>7, <2>8, <3>1, CallChanges, SMTT(30)
  <2>10. Structured(u) /\ Extends(t, u) /\ FramesFit(fr, u) /\ Len(u) = Len(t)
    <3>1. Updated(t, u, n)
      BY <2>9 DEF Changes
    <3>2. Len(u) = Len(t)
      BY <3>1 DEF Updated
    <3>3. Structured(u) /\ Extends(t, u) /\ FramesFit(fr, u)
      BY <2>7, <3>1, UpdatedFits
    <3> QED  BY <3>2, <3>3
  <2>11. n \in 1 .. Len(u) /\ u[n].kind = "call" /\ u[n].decl # 0
    BY <1>4, <2>7, <2>9, <2>10 DEF Extends, SameKind
  <2>12. Kept(fr, hr, u)
    BY <2>6, <2>7, <2>10, <2>11, SignatureKept
  <2>13. Entered(hr, c, "signature", u)
    <3>1. c \in 1 .. Len(u) /\ u[c].role = "function"
      BY <2>8, <2>10 DEF Extends
    <3>2. u[c].kind = "function" /\ u[c].parent = 0
      BY <2>10, <3>1 DEF Structured, RolesFit
    <3> QED  BY <3>1, <3>2 DEF Entered
  <2>14. Changes(ast, ast', Top.node)
    BY <2>2, <2>3, <2>4, <2>9
  <2>15. Quiet
    BY <1>1, ExpressionQuiet
  <2>16. PICK gr : gr = frames'
    OBVIOUS
  <2>17. Proceeds(frames, gr, ast)
    BY <1>1, <2>15, QuietProceeds
  <2>18. ASSUME outcome' = "running" PROVE Moved(frames, frames', ast')
    <3>1. CASE frames' = Stepping("signature")
      <4>1. frames' = hr
        BY <2>5, <2>6, <3>1 DEF Stepping
      <4> QED  BY <2>3, <2>5, <2>12, <4>1 DEF Moved
    <3>2. CASE CallFrom(Stepping("signature"), "signature", c, 0)
      <4>1. frames' = Append(hr, Frame("signature", c, 0))
        BY <2>5, <2>6, <2>18, <3>2 DEF Stepping, CallFrom
      <4>2. \E p : frames' = Append(hr, Frame("signature", c, p))
        BY <4>1
      <4> QED  BY <2>3, <2>5, <2>12, <2>13, <4>2 DEF Moved
    <3> QED  BY <2>1, <3>1, <3>2
  <2> QED  BY <1>1, <2>14, <2>15, <2>16, <2>17, <2>18, ChangesInv DEF Quiet
<1> QED  BY <1>3, <1>4

(* The check of an argument.                                               *)
LEMMA ArgumentInv ==
  ASSUME NamesInv, Running, Top.routine = "expression", Here.kind = "call",
         Here.decl # 0, Arguments = Parameters, NEW k \in 1 .. Arguments, ast' = ast,
         CheckArgument(k)
  PROVE  NamesInv'
<1>1. PICK t : t = ast
  OBVIOUS
<1>2. PICK n : n = Top.node
  OBVIOUS
<1>3. PICK fr : fr = frames
  OBVIOUS
<1>4. PICK c : c = Nth(Top.node, "argument", k)
  OBVIOUS
<1>5. PICK hr : hr = [[fr EXCEPT ![Len(fr)].step = "argument"] EXCEPT ![Len(fr)].position = k]
  OBVIOUS
<1>6. /\ Structured(t) /\ FramesFit(fr, t) /\ n \in 1 .. Len(t) /\ n = fr[Len(fr)].node
      /\ t[n].kind = "call" /\ t[n].decl # 0
  BY <1>1, <1>2, <1>3, TopFits DEF Here, Top
<1>7. DOMAIN ast = 1 .. Len(ast) /\ Len(ast) \in Nat
  BY TopFits
<1>8. Cardinality(Parts(t, n, "argument")) = Cardinality(Parts(t, t[n].decl, "parameter"))
  <2>1. Arguments = Cardinality(Parts(t, n, "argument"))
    BY <1>1, <1>2, <1>7, CountFits DEF Arguments
  <2>2. PICK d : d = Here.decl
    OBVIOUS
  <2>3. Parameters = Cardinality(Parts(t, d, "parameter"))
    BY <1>1, <1>7, <2>2, CountFits DEF Parameters
  <2>4. d = t[n].decl
    BY <1>1, <1>2, <2>2 DEF Here
  <2> QED  BY <2>1, <2>3, <2>4
<1>9. c \in Parts(t, n, "argument")
  BY <1>1, <1>2, <1>4, <1>7, NthIn DEF Arguments
<1>10. k \in Nat
  <2>1. Arguments \in Nat
    BY <1>7, CountFits DEF Arguments
  <2> QED  BY <2>1
<1>11. Kept(fr, hr, t)
  BY <1>5, <1>6, <1>8, <1>10, ArgumentKept
<1>12. Updated(t, t, n) /\ Changes(t, t, n)
  BY <1>6, SameChanges DEF Changes
<1>13. \A p : Moved(fr, Append(hr, Frame("expression", c, p)), t)
  <2> SUFFICES ASSUME NEW p PROVE Moved(fr, Append(hr, Frame("expression", c, p)), t)
    OBVIOUS
  <2>1. t[c].role = "argument"
    BY <1>9 DEF Parts
  <2> QED  BY <1>6, <1>9, <1>11, <1>12, <2>1, PartCalled
<1>14. ASSUME outcome' = "running" PROVE Moved(frames, frames', ast')
  <2>1. PICK p : p = Parameter(k).type
    OBVIOUS
  <2>2. frames' = Append([Stepping("argument") EXCEPT ![Len(frames)].position = k],
                         Frame("expression", c, p))
    BY <1>4, <1>14, <2>1 DEF CheckArgument, CallFrom
  <2>3. frames' = Append(hr, Frame("expression", c, p))
    BY <1>3, <1>5, <2>2 DEF Stepping
  <2> QED  BY <1>1, <1>3, <1>13, <2>3
<1>15. Quiet
  BY ExpressionQuiet
<1>16. PICK gr : gr = frames'
  OBVIOUS
<1>17. Proceeds(frames, gr, ast)
  BY <1>15, QuietProceeds
<1>18. Changes(ast, ast', Top.node)
  BY <1>1, <1>2, <1>12
<1> QED  BY <1>14, <1>15, <1>16, <1>17, <1>18, ChangesInv DEF Quiet

LEMMA ArgumentsInv ==
  ASSUME NamesInv, CheckArguments \/ NextArgument
  PROVE  NamesInv'
<1>1. Running /\ Top.routine = "expression" /\ Here.kind = "call" /\ Top.step \in {"signature", "argument"}
  BY DEF CheckArguments, NextArgument, AtNode, At
<1>2. CallFits(ast, Top)
  BY <1>1, TopFits DEF FrameFits, Top
<1>3. /\ Here.decl # 0
      /\ Top.step = "argument" =>
           Cardinality(Parts(ast, Top.node, "argument"))
             = Cardinality(Parts(ast, Here.decl, "parameter"))
  BY <1>1, <1>2 DEF CallFits, Here
<1>4. /\ DOMAIN ast = 1 .. Len(ast) /\ Len(ast) \in Nat /\ Top.position \in Nat
  BY <1>1, TopFits DEF FrameFits, Top
<1>5. PICK n : n = Top.node
  OBVIOUS
<1>6. PICK d : d = Here.decl
  OBVIOUS
<1>7. /\ Children(n, "argument") = Parts(ast, n, "argument")
      /\ Arguments \in Nat /\ (Has(n, "argument") => Arguments > 0)
  BY <1>4, <1>5, CountFits DEF Arguments
<1>8. Children(d, "parameter") = Parts(ast, d, "parameter")
  BY <1>4, CountFits
<1>9. Top.step = "argument" => Arguments = Parameters
  BY <1>3, <1>5, <1>6, <1>7, <1>8 DEF Arguments, Parameters
<1>10. CASE CheckArguments
  <2>1. CASE Arguments = Parameters /\ CheckArgument(1) /\ ast' = ast
    <3>1. Has(Top.node, "argument")
      BY <1>1, HasNeeded DEF Needed
    <3>2. 1 \in 1 .. Arguments
      BY <1>5, <1>7, <3>1
    <3> QED  BY <1>1, <1>3, <2>1, <3>2, ArgumentInv
  <2>2. CASE Finish(Typed(ast[Here.decl].type), TRUE)
    BY <1>1, <2>2, ExpressionEnds DEF Finish, Typed, Retyped
  <2> QED  BY <1>10, <2>1, <2>2 DEF CheckArguments
<1>11. CASE NextArgument
  <2>1. PICK k : k = Top.position
    OBVIOUS
  <2>2. PICK answer : answer = CanImplicitlyCastTo(table, Argument(k).type, Parameter(k).type)
    OBVIOUS
  <2>3. \/ Stop(answer)
        \/ k < Parameters /\ CheckArgument(k + 1) /\ ast' = ast
        \/ \E e : Finish(Typed(ast[Here.decl].type), e)
    BY <1>11, <2>1, <2>2 DEF NextArgument
  <2>4. CASE Stop(answer)
    BY <1>1, <2>4, StopInv DEF Stop
  <2>5. CASE k < Parameters /\ CheckArgument(k + 1) /\ ast' = ast
    <3>1. Arguments = Parameters
      BY <1>9, <1>11 DEF NextArgument, AtNode, At
    <3>2. k + 1 \in 1 .. Arguments
      BY <1>4, <1>7, <2>1, <2>5, <3>1
    <3> QED  BY <1>1, <1>3, <2>5, <3>1, <3>2, ArgumentInv
  <2>6. ASSUME NEW e, Finish(Typed(ast[Here.decl].type), e) PROVE NamesInv'
    BY <1>1, <2>6, ExpressionEnds DEF Finish, Typed, Retyped
  <2> QED  BY <2>3, <2>4, <2>5, <2>6
<1> QED  BY <1>10, <1>11

-----------------------------------------------------------------------------
(* Statements.                                                             *)
LEMMA StatementQuiet ==
  ASSUME Here.kind # "?", Here.kind # "for" \/ Top.step # "enter"
  PROVE  Quiet
BY KnownQuiet DEF LoopBegins

LEMMA StatementEnds ==
  ASSUME NamesInv, Running, Top.routine = "statement", Here.kind # "?",
         Here.kind # "for" \/ Top.step # "enter", Retyped,
         outcome' = "running" => frames' = Popped
  PROVE  NamesInv'
BY StatementQuiet, RetypedFinishInv

LEMMA ExpressionStatementInv ==
  ASSUME NamesInv, ExpressionStatement
  PROVE  NamesInv'
<1>1. /\ Running /\ Top.routine = "statement" /\ ast' = ast
      /\ Here.kind # "?" /\ Here.kind # "for"
      /\ frames' = [frames EXCEPT ![Len(frames)] = Frame("expression", Top.node, 0)]
  BY DEF ExpressionStatement, AtNode, At, ExpressionKinds, Leaves, Binary
<1>2. PICK t : t = ast
  OBVIOUS
<1>3. PICK fr : fr = frames
  OBVIOUS
<1>4. PICK g : g = Frame("expression", Top.node, 0)
  OBVIOUS
<1>5. /\ IsFrame(g) /\ g.node = Top.node /\ g.routine = "expression" /\ g.step = "enter"
      /\ g.position = 0
  BY <1>4 DEF Frame, IsFrame
<1>6. PICK gr : gr = [fr EXCEPT ![Len(fr)] = g]
  OBVIOUS
<1>7. Kept(fr, gr, t)
  <2>1. FramesFit(fr, t) /\ fr[Len(fr)].routine = "statement"
    BY <1>1, <1>2, <1>3, TopFits DEF Top
  <2>2. CallFits(t, g) /\ g.position \in Nat /\ g.node = fr[Len(fr)].node
    BY <1>3, <1>5 DEF CallFits, Top
  <2> QED  BY <1>5, <1>6, <2>1, <2>2, TopChanged
<1>8. Kept(frames, frames', ast')
  BY <1>1, <1>2, <1>3, <1>4, <1>6, <1>7
<1>9. Changes(ast, ast', Top.node)
  BY <1>1, RetypedChanges DEF Retyped
<1> QED  BY <1>1, <1>8, <1>9, StatementQuiet, KeptInv

LEMMA DeclarationInv ==
  ASSUME NamesInv, BeginDeclaration \/ TypedDeclaration \/ EndDeclaration
  PROVE  NamesInv'
<1>1. Running /\ Top.routine = "statement" /\ Here.kind = "declaration"
  BY DEF BeginDeclaration, TypedDeclaration, EndDeclaration, AtNode, At
<1>2. Quiet
  BY <1>1, StatementQuiet
<1>3. CASE BeginDeclaration
  <2>1. Retyped
    BY <1>3 DEF BeginDeclaration, Retyped
  <2>2. CASE Has(Top.node, "type_def")
    <3>1. CallFrom(Stepping("type"), "type", Child(Top.node, "type_def"), 0)
      BY <1>3, <2>2 DEF BeginDeclaration, Resolve, Call
    <3>2. Calls("type", "type_def", "type")
      BY <2>2, <3>1 DEF Calls
    <3> QED  BY <1>1, <1>2, <2>1, <3>2, PartInv
  <2>3. CASE ~ Has(Top.node, "type_def")
    <3>1. CallFrom(Stepping("inferred"), "expression", Child(Top.node, "right"), 0)
      BY <1>3, <2>3 DEF BeginDeclaration, Check, Call
    <3>2. Has(Top.node, "right")
      <4>1. DOMAIN ast = 1 .. Len(ast)
        BY <1>1, TopFits
      <4>2. \E j \in 1 .. Len(ast) :
              ast[j].parent = Top.node /\ ast[j].role \in {"type_def", "right"}
        BY <1>1, TopFits DEF Structured, Complete, Here
      <4> QED  BY <2>3, <4>1, <4>2 DEF Has, Children
    <3>3. Calls("inferred", "right", "expression")
      BY <3>1, <3>2 DEF Calls
    <3> QED  BY <1>1, <1>2, <2>1, <3>3, PartInv
  <2> QED  BY <2>2, <2>3
<1>4. CASE TypedDeclaration
  <2>1. Retyped
    BY <1>4 DEF TypedDeclaration, FinishWith, Finish, Typed, Retyped
  <2>2. CASE Has(Top.node, "right")
    <3>1. CallFrom(Stepping("initialized"), "expression", Child(Top.node, "right"), TypeDef.type)
      BY <1>4, <2>2 DEF TypedDeclaration, Check, Call
    <3>2. Calls("initialized", "right", "expression")
      BY <2>2, <3>1 DEF Calls
    <3> QED  BY <1>1, <1>2, <2>1, <3>2, PartInv
  <2>3. CASE ~ Has(Top.node, "right")
    <3>1. outcome' = "running" => frames' = Popped
      BY <1>4, <2>3 DEF TypedDeclaration, FinishWith, Finish
    <3> QED  BY <1>1, <2>1, <3>1, StatementEnds
  <2> QED  BY <2>2, <2>3
<1>5. CASE EndDeclaration
  <2>1. Retyped /\ (outcome' = "running" => frames' = Popped)
    BY <1>5 DEF EndDeclaration, FinishWith, Finish, Typed, Retyped
  <2> QED  BY <1>1, <2>1, StatementEnds
<1> QED  BY <1>3, <1>4, <1>5

(* A statement that is not a loop at its beginning goes on with a part.    *)
LEMMA StatementPartInv ==
  ASSUME NamesInv, Running, Top.routine = "statement", Here.kind \in DOMAIN Needed,
         Here.kind # "for" \/ Top.step # "enter", ast' = ast,
         NEW step, step \notin {"signature", "argument"},
         NEW role, role \in Needed[Here.kind], role \in {"left", "right", "body"},
         NEW routine, routine \in {"expression", "statement"},
         \E p : CallFrom(Stepping(step), routine, Child(Top.node, role), p)
  PROVE  NamesInv'
<1>1. Calls(step, role, routine)
  BY HasNeeded DEF Calls
<1>2. Quiet /\ Retyped
  BY StatementQuiet DEF Needed, Retyped
<1> QED  BY <1>1, <1>2, PartInv

LEMMA ConditionInv ==
  ASSUME NamesInv, BeginIf \/ ForCondition \/ AfterCondition \/ ForBody \/ BeginReturn
  PROVE  NamesInv'
<1>1. Running /\ Top.routine = "statement" /\ ast' = ast
  BY DEF BeginIf, ForCondition, AfterCondition, ForBody, BeginReturn, Begin, AtNode, At
<1>2. CASE BeginIf
  <2>1. Here.kind = "if" /\ CallFrom(Stepping("condition"), "expression", Child(Top.node, "left"), 0)
    BY <1>2 DEF BeginIf, Begin, AtNode, Check, Call
  <2>2. Here.kind \in DOMAIN Needed /\ "left" \in Needed[Here.kind]
    BY <2>1 DEF Needed
  <2> QED  BY <1>1, <2>1, <2>2, StatementPartInv
<1>3. CASE ForCondition
  <2>1. /\ Here.kind = "for" /\ Top.step # "enter"
        /\ CallFrom(Stepping("condition"), "expression", Child(Top.node, "left"), 0)
    BY <1>3 DEF ForCondition, AtNode, At, Check, Call
  <2>2. Here.kind \in DOMAIN Needed /\ "left" \in Needed[Here.kind]
    BY <2>1 DEF Needed
  <2> QED  BY <1>1, <2>1, <2>2, StatementPartInv
<1>4. CASE AfterCondition
  <2>1. /\ Here.kind \in {"if", "for"} /\ Top.step # "enter"
        /\ IF Here.kind = "for"
           THEN CallFrom(Stepping("step"), "expression", Child(Top.node, "right"), 0)
           ELSE CallFrom(Stepping("body"), "statement", Child(Top.node, "body"), 0)
    BY <1>4 DEF AfterCondition, AtNode, At, Check, Call
  <2>2. CASE Here.kind = "for"
    <3>1. Here.kind \in DOMAIN Needed /\ "right" \in Needed[Here.kind]
      BY <2>2 DEF Needed
    <3>2. CallFrom(Stepping("step"), "expression", Child(Top.node, "right"), 0)
      BY <2>1, <2>2
    <3> QED  BY <1>1, <2>1, <3>1, <3>2, StatementPartInv
  <2>3. CASE Here.kind = "if"
    <3>1. Here.kind \in DOMAIN Needed /\ "body" \in Needed[Here.kind]
      BY <2>3 DEF Needed
    <3>2. CallFrom(Stepping("body"), "statement", Child(Top.node, "body"), 0)
      BY <2>1, <2>3
    <3> QED  BY <1>1, <2>1, <3>1, <3>2, StatementPartInv
  <2> QED  BY <2>1, <2>2, <2>3
<1>5. CASE ForBody
  <2>1. /\ Here.kind = "for" /\ Top.step # "enter"
        /\ CallFrom(Stepping("body"), "statement", Child(Top.node, "body"), 0)
    BY <1>5 DEF ForBody, AtNode, At, Call
  <2>2. Here.kind \in DOMAIN Needed /\ "body" \in Needed[Here.kind]
    BY <2>1 DEF Needed
  <2> QED  BY <1>1, <2>1, <2>2, StatementPartInv
<1>6. CASE BeginReturn
  <2>1. /\ Here.kind = "return"
        /\ CallFrom(Stepping("value"), "expression", Child(Top.node, "left"), 0)
    BY <1>6 DEF BeginReturn, Begin, AtNode, Check, Call
  <2>2. Here.kind \in DOMAIN Needed /\ "left" \in Needed[Here.kind]
    BY <2>1 DEF Needed
  <2> QED  BY <1>1, <2>1, <2>2, StatementPartInv
<1> QED  BY <1>2, <1>3, <1>4, <1>5, <1>6

LEMMA StatementEndInv ==
  ASSUME NamesInv, AfterBody \/ EndReturn \/ EndList
  PROVE  NamesInv'
<1>1. CASE AfterBody \/ EndReturn
  <2>1. /\ Running /\ Top.routine = "statement" /\ Here.kind # "?" /\ Top.step # "enter"
        /\ Retyped /\ (outcome' = "running" => frames' = Popped)
    BY <1>1 DEF AfterBody, EndReturn, AtNode, At, FinishWith, Finish, Typed, Retyped
  <2> QED  BY <2>1, StatementEnds
<1>2. CASE EndList
  <2>1. /\ Running /\ Top.routine \in {"statement", "function"}
        /\ Top.routine = "statement" => Here.kind = "block"
        /\ Retyped /\ (outcome' = "running" => frames' = Popped)
    BY <1>2 DEF EndList, InList, AtNode, At, FinishWith, Finish, Retyped
  <2>2. Here.kind \in {"block", "function"}
    BY <2>1, TopFits
  <2> QED  BY <2>1, <2>2, StatementQuiet, RetypedFinishInv
<1> QED  BY <1>1, <1>2

(* A loop begins with its variable, the only one in that role.             *)
LEMMA BeginForInv ==
  ASSUME NamesInv, BeginFor
  PROVE  NamesInv'
<1>1. /\ Running /\ Top.routine = "statement" /\ Here.kind = "for" /\ ast' = ast
      /\ CallFrom(Stepping("decl"), "statement", Child(Top.node, "decl"), 0)
  BY DEF BeginFor, Begin, AtNode, At, Call
<1>2. Has(Top.node, "decl")
  BY <1>1, HasNeeded DEF Needed
<1>3. Changes(ast, ast', Top.node)
  BY <1>1, RetypedChanges DEF Retyped
<1>4. outcome' = "running" => Moved(frames, frames', ast')
  BY <1>1, <1>2, <1>3, CallMoves DEF Changes
<1>5. ASSUME outcome' = "running" PROVE Proceeds(frames, frames', ast)
  <2>1. PICK c : c = Child(Top.node, "decl")
    OBVIOUS
  <2>2. frames'[Len(frames')].node = c
    <3>1. PICK hr : hr = Stepping("decl")
      OBVIOUS
    <3>2. PICK g : g = Frame("statement", c, 0)
      OBVIOUS
    <3>3. frames' = Append(hr, g)
      BY <1>1, <1>5, <2>1, <3>1, <3>2 DEF CallFrom
    <3>4. Len(hr) \in Nat /\ \E T : hr \in Seq(T)
      <4>1. PICK fr : fr = frames
        OBVIOUS
      <4>2. PICK t : t = ast
        OBVIOUS
      <4>3. FramesFit(fr, t)
        BY <1>1, <4>1, <4>2, TopFits
      <4>4. hr = [fr EXCEPT ![Len(fr)].step = "decl"]
        BY <3>1, <4>1 DEF Stepping
      <4>5. Kept(fr, hr, t)
        BY <4>3, <4>4, StepKept
      <4> QED  BY <4>3, <4>5 DEF Kept, FramesFit
    <3>5. frames'[Len(frames')] = g
      BY <3>3, <3>4
    <3> QED  BY <3>2, <3>5 DEF Frame
  <2>3. DOMAIN ast = 1 .. Len(ast)
    BY <1>1, TopFits
  <2>4. c \in Children(Top.node, "decl")
    BY <1>2, <2>1 DEF Has, Child
  <2>5. c \in 1 .. Len(ast) /\ ast[c].parent = Top.node /\ ast[c].role = "decl"
    BY <2>3, <2>4 DEF Children
  <2>6. ASSUME NEW e \in 1 .. Len(ast), ast[e].parent = Top.node, ast[e].role = "decl"
        PROVE  e = c
    <3>1. InOrder(ast)
      BY <1>1, TopFits DEF Structured
    <3>2. e # c => e < c /\ c < e
      BY <2>5, <2>6, <3>1 DEF InOrder
    <3>3. e \in Int /\ c \in Int
      BY <2>5
    <3> QED  BY <3>2, <3>3
  <2> QED  BY <2>2, <2>6 DEF Proceeds, Top
<1>6. ~ Open(ast, Top.node)
  BY <1>1 DEF Open, Here
<1> QED  BY <1>1, <1>3, <1>4, <1>5, <1>6, ChangesInv

(* No statement of a list whose next statement is checked is on the stack. *)
LEMMA ListFree ==
  ASSUME NEW t, NEW fr, Structured(t), FramesFit(fr, t), NEW n, n = fr[Len(fr)].node,
         n # 0, t[n].kind = "block" \/ Len(fr) = 2, t[n].kind # "?",
         NEW k \in 2 .. Len(fr), t[fr[k].node].role = "statement"
  PROVE  t[fr[k].node].parent # n
<1> SUFFICES ASSUME t[fr[k].node].parent = n PROVE FALSE
  OBVIOUS
<1>1. PICK m : m = fr[k].node
  OBVIOUS
<1>2. Len(fr) \in Nat /\ k \in 1 .. Len(fr) /\ k # 1
  BY DEF FramesFit
<1>3. m \in 1 .. Len(t) /\ n \in 0 .. m - 1
  BY <1>1, <1>2 DEF FramesFit, FrameFits, Structured, IsTree, Rooted
<1>4. CASE k = Len(fr)
  BY <1>1, <1>3, <1>4
<1>5. CASE k # Len(fr)
  <2>1. k \in 1 .. Len(fr) - 1 /\ Len(fr) # 2 /\ Len(fr) # 1
    BY <1>2, <1>5
  <2>2. FrameFits(fr, t, Len(fr)) /\ n \in 1 .. Len(t)
    <3>1. Len(fr) \in 1 .. Len(fr)
      BY <1>2
    <3>2. n \in 1 .. Len(t)
      BY <1>3 DEF Structured, IsTree, Rooted
    <3> QED  BY <3>1, <3>2 DEF FramesFit
  <2>3. t[n].role \in {"statement", "body"}
    BY <2>1, <2>2 DEF Structured, RolesFit, RolesOf
  <2>4. m < n
    BY <1>1, <2>1, <2>2, <2>3 DEF FrameFits
  <2> QED  BY <1>3, <2>4
<1> QED  BY <1>4, <1>5

LEMMA ListedFits ==
  ASSUME NEW t, NEW u, NEW fr, NEW gr, NEW n, Structured(t), FramesFit(fr, t), Attended(fr, t),
         n = fr[Len(fr)].node, Listed(t, u, n), t[n].kind = "block" \/ Len(fr) = 2,
         gr = Append(fr, Frame("statement", Len(t) + 1, 0))
  PROVE  FramesFit(gr, u) /\ Attended(gr, u)
<1> DEFINE m == Len(t) + 1
<1>1. /\ Structured(u) /\ Extends(t, u) /\ Len(u) = m /\ \A i \in 1 .. Len(t) : u[i] = t[i]
      /\ u[m] = Unknown(n, "statement") /\ Len(t) \in Nat
  BY ListedTree, SMTT(30) DEF Structured, IsTree, Rooted
<1>2. /\ n \in 1 .. Len(t) /\ n # 0 /\ t[n].kind \in {"function", "block"}
  BY <1>1 DEF Listed
<1>3. u[m].parent = n /\ u[m].role = "statement" /\ u[m].kind = "?"
  BY <1>1, UnknownIs
<1>4. Len(t) + 1 .. Len(u) = {m} /\ 1 .. Len(u) = 1 .. Len(t) \cup {m}
  BY <1>1
<1>5. AddsFit(fr, t, u)
  <2>1. \A k \in 2 .. Len(fr) : t[fr[k].node].role = "statement" => t[fr[k].node].parent # n
    BY <1>2, ListFree
  <2> QED  BY <1>2, <1>3, <1>4, <2>1 DEF AddsFit
<1>6. CallsStay(t, u)
  BY <1>1 DEF CallsStay
<1>7. FramesFit(fr, u)
  BY <1>1, <1>5, <1>6, FramesRest
<1>8. Entered(fr, m, "statement", u)
  <2>1. \A k \in 1 .. Len(fr) : fr[k].node < m
    <3> SUFFICES ASSUME NEW k \in 1 .. Len(fr) PROVE fr[k].node < m
      OBVIOUS
    <3>1. IF k = 1 THEN fr[k].node = 0 ELSE fr[k].node \in 1 .. Len(t)
      BY DEF FramesFit, FrameFits
    <3> QED  BY <1>1, <3>1
  <2>2. m \in 1 .. Len(u) /\ \A j \in 1 .. Len(u) : j <= m
    BY <1>1
  <2> HIDE DEF m
  <2> QED  BY <1>3, <2>1, <2>2 DEF Entered
<1>9. FramesFit(gr, u)
  BY <1>1, <1>7, <1>8, PushFits
<1>10. gr[Len(gr)].node = m
  <2>1. PICK g : g = Frame("statement", m, 0)
    OBVIOUS
  <2>2. gr = Append(fr, g) /\ (\E R : fr \in Seq(R))
    BY <2>1 DEF FramesFit
  <2>3. gr[Len(gr)] = g
    BY <2>2
  <2> QED  BY <2>1, <2>3 DEF Frame
<1>11. ASSUME NEW e \in 1 .. Len(u), Open(u, e) PROVE e = m
  <2> SUFFICES ASSUME e \in 1 .. Len(t) PROVE FALSE
    BY <1>4
  <2>1. Open(t, e)
    BY <1>1, <1>11 DEF Open
  <2>2. t[n].kind # "?" /\ t[n].kind # "for"
    BY <1>2
  <2>3. t[e].role = "decl" => t[t[e].parent].kind = "for"
    BY DEF Structured, RolesFit, ParentKinds
  <2>4. e = n \/ (t[e].parent = n /\ t[e].role = "decl")
    BY <2>1 DEF Attended
  <2> QED  BY <2>1, <2>2, <2>3, <2>4 DEF Open
<1> QED  BY <1>9, <1>10, <1>11 DEF Attended

LEMMA NextStatementInv ==
  ASSUME NamesInv, NextStatement
  PROVE  NamesInv'
<1>1. /\ Running /\ Top.routine \in {"statement", "function"}
      /\ Top.routine = "statement" => Here.kind = "block"
      /\ ast' = Append(ast, Unknown(Top.node, "statement"))
      /\ CallFrom(frames, "statement", Len(ast) + 1, 0)
  BY DEF NextStatement, InList, AtNode, At
<1>2. PICK t : t = ast
  OBVIOUS
<1>3. PICK u : u = ast'
  OBVIOUS
<1>4. PICK fr : fr = frames
  OBVIOUS
<1>5. PICK gr : gr = frames'
  OBVIOUS
<1>6. PICK n : n = Top.node
  OBVIOUS
<1>7. /\ Structured(t) /\ NamesFollow(t) /\ FramesFit(fr, t) /\ Attended(fr, t)
      /\ n \in 1 .. Len(t) /\ n = fr[Len(fr)].node
      /\ t[n].kind = "block" \/ (t[n].kind = "function" /\ Len(fr) = 2)
  BY <1>1, <1>2, <1>4, <1>6, TopFits DEF NamesInv, Top, Here
<1>8. Listed(t, u, n)
  BY <1>1, <1>2, <1>3, <1>6, <1>7 DEF Listed
<1>9. /\ Structured(u) /\ Extends(t, u) /\ Len(u) = Len(t) + 1 /\ Len(t) \in Nat
      /\ u[Len(t) + 1] = Unknown(n, "statement") /\ \A i \in 1 .. Len(t) : u[i] = t[i]
  BY <1>7, <1>8, ListedTree, SMTT(30) DEF Structured, IsTree, Rooted
<1>10. NamesFollow(u)
  <2>1. u[Len(t) + 1].kind = "?"
    BY <1>9, UnknownIs
  <2>2. ASSUME NEW i \in 1 .. Len(u), IsName(u[i])
        PROVE  i \in 1 .. Len(t) /\ IsName(t[i]) /\ t[i].decl = u[i].decl
    <3>1. i # Len(t) + 1
      BY <2>1, <2>2 DEF IsName
    <3>2. i \in 1 .. Len(t)
      BY <1>9, <3>1
    <3> QED  BY <1>9, <2>2, <3>2
  <2> QED  BY <1>7, <1>9, <2>2, NamesKept
<1>11. ASSUME outcome' = "running" PROVE FramesFit(gr, u) /\ Attended(gr, u)
  <2>1. gr = Append(fr, Frame("statement", Len(t) + 1, 0))
    BY <1>1, <1>2, <1>4, <1>5, <1>11 DEF CallFrom
  <2> QED  BY <1>7, <1>8, <2>1, ListedFits
<1> QED  BY <1>3, <1>5, <1>9, <1>10, <1>11 DEF NamesInv, Running

-----------------------------------------------------------------------------
(* Functions and their signatures.                                         *)
LEMMA FunctionQuiet ==
  ASSUME NamesInv, Running, Top.routine \in {"function", "signature"}
  PROVE  Quiet /\ Top.node \in 1 .. Len(ast)
<1>1. Here.kind = "function" /\ Top.node \in 1 .. Len(ast)
  BY TopFits
<1> QED  BY <1>1, KnownQuiet

LEMMA StepInv ==
  ASSUME NamesInv, Running, Top.routine # "program", Quiet, Retyped,
         NEW step, step \notin {"signature", "argument"}, frames' = Stepping(step)
  PROVE  NamesInv'
<1>1. Changes(ast, ast', Top.node)
  BY RetypedChanges
<1>2. Kept(frames, frames', ast')
  <2>1. PICK t : t = ast
    OBVIOUS
  <2>2. PICK u : u = ast'
    OBVIOUS
  <2>3. PICK fr : fr = frames
    OBVIOUS
  <2>4. PICK n : n = Top.node
    OBVIOUS
  <2>5. Structured(t) /\ FramesFit(fr, t) /\ Updated(t, u, n)
    BY <1>1, <2>1, <2>2, <2>3, <2>4, TopFits DEF Changes
  <2>6. FramesFit(fr, u)
    BY <2>5, UpdatedFits
  <2>7. Kept(fr, [fr EXCEPT ![Len(fr)].step = step], u)
    BY <2>6, StepKept
  <2> QED  BY <2>2, <2>3, <2>7 DEF Stepping
<1> QED  BY <1>1, <1>2, KeptInv

LEMMA SignatureInv ==
  ASSUME NamesInv, BeginSignature \/ EndReturnType
  PROVE  NamesInv'
<1>1. CASE BeginSignature
  <2>1. Running /\ Top.routine = "signature"
    BY <1>1 DEF BeginSignature, At
  <2>2. Quiet /\ Top.routine # "program"
    BY <2>1, FunctionQuiet
  <2>3. CASE Has(Top.node, "type_def")
    <3>1. /\ CallFrom(Stepping("returns"), "type", Child(Top.node, "type_def"), 0)
          /\ ast' = ast
      BY <1>1, <2>3 DEF BeginSignature, Resolve, Call
    <3>2. Calls("returns", "type_def", "type")
      BY <2>3, <3>1 DEF Calls
    <3>3. Retyped
      BY <3>1 DEF Retyped
    <3> QED  BY <2>1, <2>2, <3>2, <3>3, PartInv
  <2>4. CASE ~ Has(Top.node, "type_def")
    <3>1. Retyped /\ frames' = Stepping("parameters")
      BY <1>1, <2>4 DEF BeginSignature, Typed, Retyped
    <3> QED  BY <2>1, <2>2, <3>1, StepInv
  <2> QED  BY <2>3, <2>4
<1>2. CASE EndReturnType
  <2>1. /\ Running /\ Top.routine = "signature" /\ Retyped /\ frames' = Stepping("parameters")
    BY <1>2 DEF EndReturnType, At, Typed, Retyped
  <2> QED  BY <2>1, FunctionQuiet, StepInv
<1> QED  BY <1>1, <1>2

(* A step that only calls.                                                 *)
LEMMA EnteredInv ==
  ASSUME NamesInv, Running, Quiet, ast' = ast, NEW hr, Kept(frames, hr, ast),
         NEW c, NEW r, Entered(hr, c, r, ast),
         CallFrom(hr, r, c, 0)
  PROVE  NamesInv'
<1>1. outcome' = "running" => Moved(frames, frames', ast')
  <2> SUFFICES ASSUME outcome' = "running" PROVE Moved(frames, frames', ast')
    OBVIOUS
  <2>1. frames' = Append(hr, Frame(r, c, 0))
    BY DEF CallFrom
  <2>2. \E p : frames' = Append(hr, Frame(r, c, p))
    BY <2>1
  <2>3. Kept(frames, hr, ast') /\ Entered(hr, c, r, ast')
    OBVIOUS
  <2> QED  BY <2>2, <2>3 DEF Moved
<1>2. Changes(ast, ast', Top.node)
  <2>1. PICK t : t = ast
    OBVIOUS
  <2>2. PICK n : n = Top.node
    OBVIOUS
  <2>3. Changes(t, t, n)
    BY <2>1, SameChanges, TopFits
  <2> QED  BY <2>1, <2>2, <2>3
<1>3. PICK gr : gr = frames'
  OBVIOUS
<1>4. Proceeds(frames, gr, ast)
  BY QuietProceeds
<1> QED  BY <1>1, <1>2, <1>3, <1>4, ChangesInv DEF Quiet

LEMMA NextParameterInv ==
  ASSUME NamesInv, NextParameter
  PROVE  NamesInv'
<1>1. Running /\ Top.routine = "signature"
  BY DEF NextParameter, At
<1>2. PICK k : k = Top.position + 1
  OBVIOUS
<1>3. \/ /\ k <= Cardinality(Children(Top.node, "parameter")) /\ ast' = ast
         /\ CallFrom([frames EXCEPT ![Len(frames)].position = k], "statement",
                     Nth(Top.node, "parameter", k), 0)
      \/ Finish(ast, FALSE)
  BY <1>2 DEF NextParameter, FinishWith
<1>4. CASE Finish(ast, FALSE)
  BY <1>1, <1>4, FunctionQuiet, RetypedFinishInv DEF Finish, Retyped
<1>5. CASE /\ k <= Cardinality(Children(Top.node, "parameter")) /\ ast' = ast
           /\ CallFrom([frames EXCEPT ![Len(frames)].position = k], "statement",
                       Nth(Top.node, "parameter", k), 0)
  <2>1. PICK t : t = ast
    OBVIOUS
  <2>2. PICK fr : fr = frames
    OBVIOUS
  <2>3. PICK n : n = Top.node
    OBVIOUS
  <2>4. PICK c : c = Nth(Top.node, "parameter", k)
    OBVIOUS
  <2>5. PICK hr : hr = [fr EXCEPT ![Len(fr)].position = k]
    OBVIOUS
  <2>6. /\ DOMAIN ast = 1 .. Len(ast) /\ Len(ast) \in Nat
        /\ Structured(t) /\ FramesFit(fr, t) /\ n = fr[Len(fr)].node
        /\ Top.position \in Nat
    BY <1>1, <2>1, <2>2, <2>3, TopFits DEF Top, FrameFits
  <2>7. k \in Nat /\ k \in 1 .. Cardinality(Children(n, "parameter"))
    <3>1. Cardinality(Children(n, "parameter")) \in Nat
      BY <2>6, CountFits
    <3> QED  BY <1>2, <1>5, <2>3, <2>6, <3>1
  <2>8. c \in Parts(t, n, "parameter")
    BY <2>1, <2>3, <2>4, <2>6, <2>7, NthIn
  <2>9. Kept(fr, hr, t)
    BY <2>5, <2>6, <2>7, PositionKept
  <2>10. Entered(hr, c, "statement", t)
    <3>1. FramesFit(hr, t) /\ hr[Len(hr)].node = n
      BY <2>6, <2>9, KeptFits DEF Kept
    <3>2. c \in 1 .. Len(t) /\ t[c].parent = n /\ t[c].role = "parameter"
      BY <2>8 DEF Parts
    <3> QED  BY <2>6, <3>1, <3>2, PartEntered
  <2>11. CallFrom(hr, "statement", c, 0)
    BY <1>5, <2>2, <2>4, <2>5
  <2>12. Kept(frames, hr, ast) /\ Entered(hr, c, "statement", ast)
    BY <2>1, <2>2, <2>9, <2>10
  <2> QED  BY <1>1, <1>5, <2>11, <2>12, FunctionQuiet, EnteredInv
<1> QED  BY <1>3, <1>4, <1>5

LEMMA BeginFunctionInv ==
  ASSUME NamesInv, BeginFunction
  PROVE  NamesInv'
<1>1. /\ Running /\ Top.routine = "function" /\ ast' = ast
      /\ CallFrom(Stepping("statements"), "signature", Top.node, 0)
  BY DEF BeginFunction, At
<1>2. PICK t : t = ast
  OBVIOUS
<1>3. PICK fr : fr = frames
  OBVIOUS
<1>4. PICK n : n = Top.node
  OBVIOUS
<1>5. PICK hr : hr = [fr EXCEPT ![Len(fr)].step = "statements"]
  OBVIOUS
<1>6. /\ Structured(t) /\ FramesFit(fr, t) /\ n = fr[Len(fr)].node /\ n \in 1 .. Len(t)
      /\ t[n].kind = "function"
  BY <1>1, <1>2, <1>3, <1>4, TopFits DEF Top, Here
<1>7. Kept(fr, hr, t)
  BY <1>5, <1>6, StepKept
<1>8. Entered(hr, n, "signature", t)
  <2>1. hr[Len(hr)].node = n
    BY <1>6, <1>7 DEF Kept
  <2>2. t[n].role = "function"
    BY <1>6 DEF Structured, RolesFit
  <2> QED  BY <1>6, <2>1, <2>2 DEF Entered
<1>9. CallFrom(hr, "signature", n, 0)
  BY <1>1, <1>3, <1>4, <1>5 DEF Stepping
<1>10. Kept(frames, hr, ast) /\ Entered(hr, n, "signature", ast)
  BY <1>2, <1>3, <1>7, <1>8
<1> QED  BY <1>1, <1>9, <1>10, FunctionQuiet, EnteredInv

(* The functions are the first nodes.                                      *)
LEMMA FunctionsFirst ==
  ASSUME NEW t, Structured(t), NEW f \in Nat, f > 0, f <= Cardinality(Parts(t, 0, "function"))
  PROVE  f \in 1 .. Len(t) /\ t[f].kind = "function" /\ t[f].role = "function" /\ t[f].parent = 0
<1> DEFINE S == Parts(t, 0, "function")
<1>1. Len(t) \in Nat /\ S \subseteq 1 .. Len(t)
  BY DEF Structured, IsTree, Rooted, Parts
<1>2. IsFiniteSet(S) /\ Cardinality(S) \in Nat
  <2>1. 1 \in Int /\ Len(t) \in Int
    BY <1>1
  <2>2. IsFiniteSet(1 .. Len(t))
    BY <2>1, FS_Interval
  <2> HIDE DEF S
  <2> QED  BY <1>1, <2>2, FS_Subset, FS_CardinalityType
<1>3. f \in S
  <2> SUFFICES ASSUME f \notin S PROVE FALSE
    OBVIOUS
  <2>1. S \subseteq 1 .. f - 1
    <3> SUFFICES ASSUME NEW i \in S, i >= f PROVE FALSE
      BY <1>1
    <3>1. i \in 1 .. Len(t) /\ t[i].role = "function" /\ f \in 1 .. i
      BY <1>1 DEF Parts
    <3>2. t[f].role = "function"
      BY <3>1 DEF Structured, RolesFit
    <3>3. f \in 1 .. Len(t)
      BY <1>1, <3>1
    <3>4. t[f].parent = 0
      BY <3>2, <3>3 DEF Structured, RolesFit
    <3> QED  BY <3>2, <3>3, <3>4 DEF Parts
  <2>2. IsFiniteSet(1 .. f - 1) /\ Cardinality(1 .. f - 1) = f - 1
    <3>1. PICK g : g = f - 1
      OBVIOUS
    <3>2. 1 \in Int /\ g \in Int /\ g >= 0
      BY <3>1
    <3>3. /\ IsFiniteSet(1 .. g)
          /\ Cardinality(1 .. g) = IF 1 > g THEN 0 ELSE g - 1 + 1
      BY <3>2, FS_Interval, Zenon
    <3>4. (IF 1 > g THEN 0 ELSE g - 1 + 1) = g
      BY <3>2
    <3> QED  BY <3>1, <3>3, <3>4
  <2>3. Cardinality(S) <= Cardinality(1 .. f - 1)
    <3> HIDE DEF S
    <3> QED  BY <2>1, <2>2, FS_Subset
  <2> HIDE DEF S
  <2>4. f <= Cardinality(S)
    BY DEF S
  <2> QED  BY <1>2, <2>2, <2>3, <2>4
<1> QED  BY <1>3 DEF Parts, Structured, RolesFit

LEMMA NextFunctionInv ==
  ASSUME NamesInv, NextFunction
  PROVE  NamesInv'
<1>1. Running /\ Top.routine = "program" /\ ast' = ast
  BY DEF NextFunction, At
<1>2. PICK f : f = Top.position + 1
  OBVIOUS
<1>3. \/ /\ f <= Cardinality(Children(0, "function"))
         /\ CallFrom([frames EXCEPT ![Len(frames)].position = f], "function", f, 0)
      \/ outcome' = "done"
  BY <1>2 DEF NextFunction
<1>4. CASE outcome' = "done"
  BY <1>1, <1>4 DEF NamesInv, Running
<1>5. CASE /\ f <= Cardinality(Children(0, "function"))
           /\ CallFrom([frames EXCEPT ![Len(frames)].position = f], "function", f, 0)
  <2>1. PICK t : t = ast
    OBVIOUS
  <2>2. PICK fr : fr = frames
    OBVIOUS
  <2>3. PICK hr : hr = [fr EXCEPT ![Len(fr)].position = f]
    OBVIOUS
  <2>4. /\ DOMAIN ast = 1 .. Len(ast) /\ Len(ast) \in Nat
        /\ Structured(t) /\ FramesFit(fr, t) /\ fr[Len(fr)].node = 0 /\ Len(fr) = 1
        /\ Top.position \in Nat
    BY <1>1, <2>1, <2>2, TopFits DEF Top, FrameFits
  <2>5. f \in Nat /\ f > 0
    BY <1>2, <2>4
  <2>6. f <= Cardinality(Parts(t, 0, "function"))
    BY <1>5, <2>1, <2>4, CountFits
  <2>7. f \in 1 .. Len(t) /\ t[f].kind = "function" /\ t[f].role = "function" /\ t[f].parent = 0
    BY <2>4, <2>5, <2>6, FunctionsFirst
  <2>8. Kept(fr, hr, t)
    BY <2>3, <2>4, <2>5, PositionKept
  <2>9. Entered(hr, f, "function", t)
    BY <2>4, <2>7, <2>8 DEF Entered, Kept
  <2>10. CallFrom(hr, "function", f, 0)
    BY <1>5, <2>2, <2>3
  <2>11. Kept(frames, hr, ast) /\ Entered(hr, f, "function", ast)
    BY <2>1, <2>2, <2>8, <2>9
  <2>12. Quiet
    <3>1. Top.node = 0
      BY <1>1, TopFits
    <3>2. ~ Open(ast, Top.node)
      BY <3>1 DEF Open
    <3> QED  BY <1>1, <3>2 DEF Quiet, LoopBegins
  <2> QED  BY <1>1, <2>10, <2>11, <2>12, EnteredInv
<1> QED  BY <1>3, <1>4, <1>5

-----------------------------------------------------------------------------
(* The constructs of the parser fit where it builds them.                  *)
LEMMA ShapeIs ==
  ASSUME NEW k, NEW x, NEW roles
  PROVE  /\ Shape(k, x, roles).kind = k /\ Shape(k, x, roles).roles = roles
         /\ Shape(k, x, roles).name = x
BY DEF Shape

LEMMA LeavesFit ==
  ASSUME NEW k \in Leaves \cup {"call_other", "named"}, NEW role
  PROVE  ShapeFits(role, k, <<>>)
BY DEF ShapeFits, RolesOf, Needed, Leaves

LEMMA OnePartFits ==
  ASSUME NEW k, NEW r,
         \/ k \in {"minus", "member", "pointer", "type_of", "return"} /\ r = "left"
         \/ k = "assign" /\ r = "right"
         \/ k = "size_of" /\ r = "type_def",
         NEW role
  PROVE  ShapeFits(role, k, <<r>>)
<1>1. PICK roles : roles = <<r>>
  OBVIOUS
<1>2. Len(roles) = 1 /\ roles[1] = r /\ 1 .. Len(roles) = {1}
  BY <1>1
<1>3. ShapeFits(role, k, roles)
  BY <1>2 DEF ShapeFits, RolesOf, Needed
<1> QED  BY <1>1, <1>3

LEMMA TwoPartsFit ==
  ASSUME NEW k, NEW r, NEW s,
         \/ k \in Binary /\ r = "left" /\ s = "right"
         \/ k = "cast" /\ r = "type_def" /\ s = "left",
         NEW role
  PROVE  ShapeFits(role, k, <<r, s>>)
<1>1. PICK roles : roles = <<r, s>>
  OBVIOUS
<1>2. Len(roles) = 2 /\ roles[1] = r /\ roles[2] = s /\ 1 .. Len(roles) = {1, 2}
  BY <1>1
<1>3. \E j \in 1 .. Len(roles) : roles[j] = r
  BY <1>2
<1>4. \E j \in 1 .. Len(roles) : roles[j] = s
  BY <1>2
<1>5. ShapeFits(role, k, roles)
  BY <1>2, <1>3, <1>4 DEF ShapeFits, RolesOf, Needed, Binary
<1> QED  BY <1>1, <1>5

LEMMA CallFitsAnywhere ==
  ASSUME NEW n \in 1 .. MaxArguments, NEW role
  PROVE  ShapeFits(role, "call", [i \in 1 .. n |-> "argument"])
<1>1. PICK roles : roles = [i \in 1 .. n |-> "argument"]
  OBVIOUS
<1>2. n \in Nat /\ n > 0
  BY ConstantsAssumption
<1>3. Len(roles) = n /\ \A j \in 1 .. n : roles[j] = "argument"
  BY <1>1, <1>2
<1>4. \E j \in 1 .. Len(roles) : roles[j] = "argument"
  BY <1>2, <1>3
<1>5. ShapeFits(role, "call", roles)
  BY <1>2, <1>3, <1>4 DEF ShapeFits, RolesOf, Needed
<1> QED  BY <1>1, <1>5

LEMMA DeclarationsFit ==
  ASSUME NEW roles \in {<<"type_def">>, <<"right">>, <<"type_def", "right">>},
         NEW role \in {"statement", "body", "decl"}
  PROVE  ShapeFits(role, "declaration", roles)
<1>1. /\ Len(roles) \in 1 .. 2
      /\ \A j \in 1 .. Len(roles) : roles[j] \in {"type_def", "right"}
  <2>1. CASE roles = <<"type_def">>
    BY <2>1
  <2>2. CASE roles = <<"right">>
    BY <2>2
  <2>3. CASE roles = <<"type_def", "right">>
    <3>1. Len(roles) = 2 /\ roles[1] = "type_def" /\ roles[2] = "right" /\ 1 .. 2 = {1, 2}
      BY <2>3
    <3> QED  BY <3>1
  <2> QED  BY <2>1, <2>2, <2>3
<1>2. \E j \in 1 .. Len(roles) : roles[j] \in {"type_def", "right"}
  BY <1>1
<1> QED  BY <1>1, <1>2 DEF ShapeFits, RolesOf, Needed

LEMMA StatementsFit ==
  ASSUME NEW role \in {"statement", "body"}
  PROVE  /\ ShapeFits(role, "if", <<"left", "body">>)
         /\ ShapeFits(role, "for", <<"decl", "left", "right", "body">>)
         /\ ShapeFits(role, "block", <<>>)
<1>1. ShapeFits(role, "if", <<"left", "body">>)
  <2>1. PICK roles : roles = <<"left", "body">>
    OBVIOUS
  <2>2. Len(roles) = 2 /\ roles[1] = "left" /\ roles[2] = "body" /\ 1 .. Len(roles) = {1, 2}
    BY <2>1
  <2>3. \A r \in {"left", "body"} : \E j \in 1 .. Len(roles) : roles[j] = r
    BY <2>2
  <2>4. ShapeFits(role, "if", roles)
    BY <2>2, <2>3 DEF ShapeFits, RolesOf, Needed
  <2> QED  BY <2>1, <2>4
<1>2. ShapeFits(role, "for", <<"decl", "left", "right", "body">>)
  <2>1. PICK roles : roles = <<"decl", "left", "right", "body">>
    OBVIOUS
  <2>2. /\ Len(roles) = 4 /\ roles[1] = "decl" /\ roles[2] = "left" /\ roles[3] = "right"
        /\ roles[4] = "body" /\ 1 .. Len(roles) = {1, 2, 3, 4}
    BY <2>1
  <2>3. \A r \in {"decl", "left", "right", "body"} : \E j \in 1 .. Len(roles) : roles[j] = r
    BY <2>2
  <2>4. ShapeFits(role, "for", roles)
    BY <2>2, <2>3 DEF ShapeFits, RolesOf, Needed
  <2> QED  BY <2>1, <2>4
<1>3. ShapeFits(role, "block", <<>>)
  BY DEF ShapeFits, RolesOf, Needed
<1> QED  BY <1>1, <1>2, <1>3

LEMMA ShapeFitsAs ==
  ASSUME NEW k, NEW x, NEW roles, NEW role, ShapeFits(role, k, roles),
         NEW s, s = Shape(k, x, roles)
  PROVE  ShapeFits(role, s.kind, s.roles)
<1>1. s.kind = k /\ s.roles = roles
  BY DEF Shape
<1> QED  BY <1>1, Zenon

LEMMA LiteralShapesFit ==
  ASSUME NEW s \in LiteralShapes, NEW role
  PROVE  ShapeFits(role, s.kind, s.roles)
<1> DEFINE Kinds == {<<"boolean", Bool>>, <<"string", String>>, <<"float", F32>>}
<1>1. CASE \E v \in Literals : s = [Shape("integer", "", <<>>) EXCEPT !.value = v, !.type = S64]
  <2>1. s.kind = "integer" /\ s.roles = <<>>
    BY <1>1 DEF Shape
  <2>2. ShapeFits(role, "integer", <<>>)
    BY LeavesFit DEF Leaves
  <2> QED  BY <2>1, <2>2, Zenon
<1>2. CASE \E k \in Kinds : s = [Shape(k[1], "", <<>>) EXCEPT !.type = k[2]]
  <2>1. PICK k \in Kinds : s = [Shape(k[1], "", <<>>) EXCEPT !.type = k[2]]
    BY <1>2, Zenon
  <2>2. s.kind = k[1] /\ s.roles = <<>>
    BY <2>1 DEF Shape
  <2>3. k[1] \in {"boolean", "string", "float"}
    OBVIOUS
  <2>4. \A c \in {"boolean", "string", "float"} : ShapeFits(role, c, <<>>)
    BY LeavesFit DEF Leaves
  <2> QED  BY <2>2, <2>3, <2>4, Zenon
<1> QED  BY <1>1, <1>2 DEF LiteralShapes

LEMMA ExpressionShapesFit ==
  ASSUME NEW s, s \in ExpressionShapes, NEW role
  PROVE  ShapeFits(role, s.kind, s.roles)
<1> DEFINE Args(n) == [i \in 1 .. n |-> "argument"]
           Naming == {Shape("identifier", x, <<>>) : x \in Variables}
           Assigning == {Shape("assign", x, <<"right">>) : x \in Variables}
           Selecting == {Shape("member", m, <<"left">>) : m \in {"count", "data", "other"}}
           Joining == {Shape(k, "", <<"left", "right">>) : k \in Binary}
<1>1. CASE s \in LiteralShapes
  BY <1>1, LiteralShapesFit
<1>2. CASE s \in Naming
  <2>1. PICK x \in Variables : s = Shape("identifier", x, <<>>)
    BY <1>2, Zenon
  <2>2. ShapeFits(role, "identifier", <<>>)
    BY LeavesFit DEF Leaves
  <2> QED  BY <2>1, <2>2, ShapeFitsAs, Zenon
<1>3. CASE s \in Assigning
  <2>1. PICK x \in Variables : s = Shape("assign", x, <<"right">>)
    BY <1>3, Zenon
  <2>2. ShapeFits(role, "assign", <<"right">>)
    BY OnePartFits
  <2> QED  BY <2>1, <2>2, ShapeFitsAs, Zenon
<1>4. CASE s \in CallShapes
  <2> HIDE DEF Args
  <2>1. PICK f \in FunctionNames, n \in 1 .. MaxArguments : s = Shape("call", f, Args(n))
    BY <1>4 DEF CallShapes, Args
  <2>2. PICK roles : roles = Args(n)
    OBVIOUS
  <2> USE DEF Args
  <2>3. ShapeFits(role, "call", roles)
    BY <2>2, CallFitsAnywhere, Zenon
  <2> HIDE DEF Args
  <2>4. s = Shape("call", f, roles)
    BY <2>1, <2>2, Zenon
  <2> QED  BY <2>3, <2>4, ShapeFitsAs, Zenon
<1>5. CASE s \in Selecting
  <2>1. PICK m \in {"count", "data", "other"} : s = Shape("member", m, <<"left">>)
    BY <1>5, Zenon
  <2>2. ShapeFits(role, "member", <<"left">>)
    BY OnePartFits
  <2> QED  BY <2>1, <2>2, ShapeFitsAs, Zenon
<1>6. CASE s \in Joining
  <2>1. PICK k \in Binary : s = Shape(k, "", <<"left", "right">>)
    BY <1>6, Zenon
  <2>2. ShapeFits(role, k, <<"left", "right">>)
    BY TwoPartsFit, Zenon
  <2> QED  BY <2>1, <2>2, ShapeFitsAs, Zenon
<1>7. CASE s = Shape("minus", "", <<"left">>)
  <2>1. ShapeFits(role, "minus", <<"left">>)
    BY OnePartFits
  <2> QED  BY <1>7, <2>1, ShapeFitsAs, Zenon
<1>8. CASE s = Shape("size_of", "", <<"type_def">>)
  <2>1. ShapeFits(role, "size_of", <<"type_def">>)
    BY OnePartFits
  <2> QED  BY <1>8, <2>1, ShapeFitsAs, Zenon
<1>9. CASE s = Shape("cast", "", <<"type_def", "left">>)
  <2>1. ShapeFits(role, "cast", <<"type_def", "left">>)
    BY TwoPartsFit
  <2> QED  BY <1>9, <2>1, ShapeFitsAs, Zenon
<1>10. CASE s = Shape("unsupported", "", <<>>)
  <2>1. ShapeFits(role, "unsupported", <<>>)
    BY LeavesFit DEF Leaves
  <2> QED  BY <1>10, <2>1, ShapeFitsAs, Zenon
<1>11. CASE s = Shape("call_other", "", <<>>)
  <2>1. ShapeFits(role, "call_other", <<>>)
    BY LeavesFit
  <2> QED  BY <1>11, <2>1, ShapeFitsAs, Zenon
<1>12. ExpressionShapes =
         LiteralShapes \cup Naming \cup Assigning \cup CallShapes \cup Selecting \cup Joining \cup
         {Shape("minus", "", <<"left">>), Shape("size_of", "", <<"type_def">>),
          Shape("cast", "", <<"type_def", "left">>),
          Shape("unsupported", "", <<>>), Shape("call_other", "", <<>>)}
  BY DEF ExpressionShapes
<1> HIDE DEF Naming, Assigning, Selecting, Joining
<1>13. \/ s \in LiteralShapes \/ s \in Naming \/ s \in Assigning \/ s \in CallShapes
       \/ s \in Selecting \/ s \in Joining
       \/ s \in {Shape("minus", "", <<"left">>), Shape("size_of", "", <<"type_def">>),
                 Shape("cast", "", <<"type_def", "left">>),
                 Shape("unsupported", "", <<>>), Shape("call_other", "", <<>>)}
  BY <1>12, Zenon
<1> QED  BY <1>1, <1>2, <1>3, <1>4, <1>5, <1>6, <1>7, <1>8, <1>9, <1>10, <1>11, <1>13, Zenon

LEMMA TypeShapesFit ==
  ASSUME NEW s, s \in TypeShapes, NEW role
  PROVE  ShapeFits(role, s.kind, s.roles)
<1>1. CASE s \in {Shape("named", t, <<>>) : t \in program.types}
  <2>1. PICK x : s = Shape("named", x, <<>>)
    BY <1>1, Zenon
  <2>2. ShapeFits(role, "named", <<>>)
    BY LeavesFit
  <2> QED  BY <2>1, <2>2, ShapeFitsAs, Zenon
<1>2. CASE s = Shape("pointer", "", <<"left">>)
  <2>1. ShapeFits(role, "pointer", <<"left">>)
    BY OnePartFits
  <2> QED  BY <1>2, <2>1, ShapeFitsAs, Zenon
<1>3. CASE s = Shape("type_of", "", <<"left">>)
  <2>1. ShapeFits(role, "type_of", <<"left">>)
    BY OnePartFits
  <2> QED  BY <1>3, <2>1, ShapeFitsAs, Zenon
<1> QED  BY <1>1, <1>2, <1>3, Zenon DEF TypeShapes

LEMMA DeclarationShapesFit ==
  ASSUME NEW s, s \in DeclarationShapes, NEW role \in {"statement", "body", "decl"}
  PROVE  ShapeFits(role, s.kind, s.roles)
<1>1. PICK x \in Variables, roles \in {<<"type_def">>, <<"right">>, <<"type_def", "right">>} :
        s = Shape("declaration", x, roles)
  BY DEF DeclarationShapes
<1>2. ShapeFits(role, "declaration", roles)
  BY DeclarationsFit, Zenon
<1> QED  BY <1>1, <1>2, ShapeFitsAs, Zenon

LEMMA StatementShapesFit ==
  ASSUME NEW s, s \in StatementShapes, NEW role \in {"statement", "body"}
  PROVE  ShapeFits(role, s.kind, s.roles)
<1>1. CASE s \in DeclarationShapes
  BY <1>1, DeclarationShapesFit
<1>2. CASE s \in ExpressionShapes
  BY <1>2, ExpressionShapesFit, Zenon
<1>3. CASE s = Shape("return", "", <<"left">>)
  <2>1. ShapeFits(role, "return", <<"left">>)
    BY OnePartFits
  <2> QED  BY <1>3, <2>1, ShapeFitsAs, Zenon
<1>4. CASE s = Shape("if", "", <<"left", "body">>)
  BY <1>4, StatementsFit, ShapeFitsAs, Zenon
<1>5. CASE s = Shape("for", "", <<"decl", "left", "right", "body">>)
  BY <1>5, StatementsFit, ShapeFitsAs, Zenon
<1>6. CASE s = Shape("block", "", <<>>)
  BY <1>6, StatementsFit, ShapeFitsAs, Zenon
<1> QED  BY <1>1, <1>2, <1>3, <1>4, <1>5, <1>6, Zenon DEF StatementShapes

LEMMA ShapesFit ==
  ASSUME NEW w, NEW s, s \in Shapes(w)
  PROVE  ShapeFits(ast[w].role, s.kind, s.roles)
<1>1. \/ s \in TypeShapes
      \/ ast[w].role = "decl" /\ s \in DeclarationShapes
      \/ ast[w].role \in {"statement", "body"} /\ s \in StatementShapes
      \/ s \in ExpressionShapes
  BY DEF Shapes
<1>2. PICK role : role = ast[w].role
  OBVIOUS
<1>3. CASE s \in TypeShapes
  BY <1>2, <1>3, TypeShapesFit, Zenon
<1>4. CASE role = "decl" /\ s \in DeclarationShapes
  BY <1>2, <1>4, DeclarationShapesFit
<1>5. CASE role \in {"statement", "body"} /\ s \in StatementShapes
  BY <1>2, <1>5, StatementShapesFit, Zenon
<1>6. CASE s \in ExpressionShapes
  BY <1>2, <1>6, ExpressionShapesFit, Zenon
<1> QED  BY <1>1, <1>2, <1>3, <1>4, <1>5, <1>6, Zenon

-----------------------------------------------------------------------------
(* A node becomes a construct.                                             *)
LEMMA GrowingIsGrown ==
  ASSUME Structured(ast), NEW w \in 1 .. Len(ast), ast[w].kind = "?",
         NEW s, s \in Shapes(w), NEW u, u = Growing(w, s)
  PROVE  Grown(ast, u, w, s.roles)
<1>1. PICK t : t = ast
  OBVIOUS
<1>2. PICK roles : roles = s.roles
  OBVIOUS
<1>3. ShapeFits(t[w].role, s.kind, roles)
  BY <1>1, <1>2, ShapesFit
<1>4. Len(roles) \in Nat /\ Len(t) \in Nat /\ IsNode(t[w])
  BY <1>1, <1>3 DEF ShapeFits, Structured, IsTree, Rooted
<1>5. PICK x : x = [t[w] EXCEPT !.kind = s.kind, !.name = s.name, !.type = s.type,
                                !.value = s.value]
  OBVIOUS
<1>6. /\ IsNode(x) /\ x.kind = s.kind /\ x.parent = t[w].parent /\ x.role = t[w].role
      /\ x.decl = t[w].decl
  BY <1>4, <1>5 DEF IsNode
<1> DEFINE m == Len(t) + Len(roles)
           V(i) == IF i = w THEN x ELSE IF i <= Len(t) THEN t[i]
                   ELSE Unknown(w, roles[i - Len(t)])
<1>7. u = [i \in 1 .. m |-> V(i)]
  BY <1>1, <1>2, <1>5 DEF Growing
<1>8. m \in Nat
  BY <1>4
<1>9. Len(u) = m /\ \E R : u \in Seq(R)
  <2> DEFINE R == {V(i) : i \in 1 .. m}
  <2>1. u \in [1 .. m -> R]
    <3> HIDE DEF V, m
    <3> QED  BY <1>7
  <2>2. u \in Seq(R)
    <3> HIDE DEF R, m
    <3> QED  BY <1>8, <2>1
  <2>3. DOMAIN u = 1 .. m
    BY <1>7
  <2>4. Len(u) = m
    <3> HIDE DEF R, m
    <3> QED  BY <1>8, <2>2, <2>3
  <2> HIDE DEF R
  <2> QED  BY <2>2, <2>4
<1>10. \A i \in 1 .. Len(t) : i \in 1 .. m /\ i <= Len(t)
  BY <1>4
<1>11. u[w] = x /\ \A i \in 1 .. Len(t) : i # w => u[i] = t[i]
  <2>1. \A i \in 1 .. m : u[i] = V(i)
    <3> HIDE DEF V, m
    <3> QED  BY <1>7
  <2> HIDE DEF m
  <2> QED  BY <1>1, <1>10, <2>1
<1>12. \A i \in Len(t) + 1 .. Len(t) + Len(roles) : u[i] = Unknown(w, roles[i - Len(t)])
  <2> SUFFICES ASSUME NEW i \in Len(t) + 1 .. Len(t) + Len(roles)
               PROVE  u[i] = Unknown(w, roles[i - Len(t)])
    OBVIOUS
  <2>1. i \in 1 .. m /\ i # w /\ ~ (i <= Len(t))
    BY <1>1, <1>4
  <2>2. u[i] = V(i)
    <3> HIDE DEF V, m
    <3> QED  BY <1>7, <2>1
  <2> QED  BY <2>1, <2>2
<1>13. ShapeFits(t[w].role, u[w].kind, roles)
  BY <1>3, <1>6, <1>11
<1>14. /\ IsNode(u[w]) /\ u[w].parent = t[w].parent /\ u[w].role = t[w].role
       /\ u[w].decl = t[w].decl
  BY <1>6, <1>11
<1>15. t[w].kind = "?" /\ w \in 1 .. Len(t)
  BY <1>1
<1>16. Grown(t, u, w, roles)
  BY <1>9, <1>11, <1>12, <1>13, <1>14, <1>15 DEF Grown
<1> QED  BY <1>1, <1>2, <1>16

LEMMA GrownFits ==
  ASSUME NEW t, NEW u, NEW fr, NEW w, NEW roles, Structured(t), NamesFollow(t),
         FramesFit(fr, t), Attended(fr, t), Grown(t, u, w, roles),
         fr[Len(fr)].step = "enter", w = fr[Len(fr)].node \/ t[w].role = "left"
  PROVE  Structured(u) /\ NamesFollow(u) /\ FramesFit(fr, u) /\ Attended(fr, u)
<1>1. Structured(u) /\ Extends(t, u)
  BY GrownTree
<1>2. /\ w \in 1 .. Len(t) /\ t[w].kind = "?" /\ ShapeFits(t[w].role, u[w].kind, roles)
      /\ Len(u) = Len(t) + Len(roles) /\ Len(t) \in Nat /\ Len(roles) \in Nat
      /\ u[w].role = t[w].role
  BY DEF Grown, ShapeFits, Structured, IsTree, Rooted
<1>3. \A i \in 1 .. Len(t) : i # w => u[i] = t[i]
  BY DEF Grown
<1>4. ASSUME NEW i \in Len(t) + 1 .. Len(u)
      PROVE  /\ u[i].parent = w /\ u[i].kind = "?"
             /\ u[i].role \in {"left", "right", "type_def", "argument", "body", "decl"}
             /\ u[i].role = "decl" => u[w].kind = "for"
  <2>1. i - Len(t) \in 1 .. Len(roles) /\ u[i] = Unknown(w, roles[i - Len(t)])
    BY <1>2 DEF Grown
  <2>2. PICK r : r = roles[i - Len(t)]
    OBVIOUS
  <2>3. u[i].parent = w /\ u[i].role = r /\ u[i].kind = "?"
    BY <2>1, <2>2, UnknownIs
  <2> QED  BY <1>2, <2>1, <2>2, <2>3 DEF ShapeFits
<1>5. \A i \in 1 .. Len(u) : i \in 1 .. Len(t) \/ i \in Len(t) + 1 .. Len(u)
  BY <1>2
<1>6. u[w].decl = 0 /\ u[w].kind # "?"
  BY <1>2 DEF Grown, Structured, InOrder, ShapeFits
<1>7. NamesFollow(u)
  <2>1. ASSUME NEW i \in 1 .. Len(u), IsName(u[i])
        PROVE  i \in 1 .. Len(t) /\ IsName(t[i]) /\ t[i].decl = u[i].decl
    <3>1. i \notin Len(t) + 1 .. Len(u)
      BY <1>4, <2>1 DEF IsName
    <3>2. i # w
      BY <1>6, <2>1 DEF IsName
    <3> QED  BY <1>3, <1>5, <2>1, <3>1, <3>2
  <2> QED  BY <1>1, <2>1, NamesKept
<1>8. AddsFit(fr, t, u)
  BY <1>2, <1>4 DEF AddsFit
<1>9. CallsStay(t, u)
  BY <1>2, <1>3 DEF CallsStay
<1>10. FramesFit(fr, u)
  BY <1>1, <1>8, <1>9, FramesRest
<1>11. Attended(fr, u)
  <2>1. PICK top : top = fr[Len(fr)]
    OBVIOUS
  <2> SUFFICES ASSUME NEW e \in 1 .. Len(u), Open(u, e)
               PROVE  e = top.node \/ (u[e].parent = top.node /\ u[e].role = "decl"
                                         /\ LoopBegins(top))
    BY <2>1 DEF Attended
  <2>2. CASE e \in 1 .. Len(t)
    <3>1. e # w
      BY <1>6 DEF Open
    <3>2. u[e] = t[e] /\ Open(t, e)
      BY <1>3, <2>2, <3>1 DEF Open
    <3> QED  BY <2>1, <2>2, <3>2 DEF Attended
  <2>3. CASE e \in Len(t) + 1 .. Len(u)
    <3>1. u[e].parent = w /\ u[e].role = "decl" /\ u[w].kind = "for"
      BY <1>4, <2>3 DEF Open
    <3>2. t[w].role \in {"statement", "body"}
      BY <1>2, <3>1 DEF ShapeFits, RolesOf
    <3>3. w = top.node /\ top.step = "enter"
      BY <2>1, <3>2
    <3>4. top.routine \notin {"program", "function", "signature", "type"}
      <4>1. FrameFits(fr, t, Len(fr)) /\ Len(fr) \in Nat /\ Len(fr) > 0
        BY DEF FramesFit
      <4>2. w # 0 /\ t[w].kind # "function" /\ t[w].role \notin {"type_def", "left"}
        BY <1>2, <3>2
      <4> QED  BY <2>1, <3>3, <4>1, <4>2 DEF FrameFits
    <3> QED  BY <3>1, <3>3, <3>4 DEF LoopBegins
  <2> QED  BY <1>5, <2>2, <2>3
<1> QED  BY <1>1, <1>7, <1>10, <1>11

LEMMA ChooseSyntaxInv ==
  ASSUME NamesInv, ChooseSyntax
  PROVE  NamesInv'
<1>1. PICK w : w = Wanted
  OBVIOUS
<1>2. PICK s \in Shapes(w) : ast' = Growing(w, s)
  BY <1>1 DEF ChooseSyntax
<1>3. Running /\ w # 0 /\ UNCHANGED <<frames, outcome>>
  BY <1>1 DEF ChooseSyntax
<1>4. /\ Top.step = "enter" /\ Top.node # 0
      /\ \/ Here.kind = "?" /\ w = Top.node
         \/ Here.kind \in Binary /\ Left.kind = "?" /\ w = Child(Top.node, "left")
  BY <1>1, <1>3 DEF Wanted
<1>5. Top.routine # "program" /\ Top.node \in 1 .. Len(ast) /\ DOMAIN ast = 1 .. Len(ast)
  BY <1>3, <1>4, TopFits
<1>6. /\ w \in 1 .. Len(ast) /\ ast[w].kind = "?"
      /\ w = Top.node \/ ast[w].role = "left"
  <2>1. CASE Here.kind = "?" /\ w = Top.node
    BY <1>5, <2>1 DEF Here
  <2>2. CASE Here.kind \in Binary /\ Left.kind = "?" /\ w = Child(Top.node, "left")
    <3>1. Has(Top.node, "left")
      <4>1. Here.kind \in DOMAIN Needed /\ "left" \in Needed[Here.kind]
        BY <2>2 DEF Needed, Binary
      <4> QED  BY <1>3, <1>5, <4>1, HasNeeded
    <3>2. w \in Children(Top.node, "left")
      BY <2>2, <3>1 DEF Has, Child
    <3> QED  BY <1>5, <2>2, <3>2 DEF Children, Left
  <2> QED  BY <1>4, <2>1, <2>2
<1>7. PICK t : t = ast
  OBVIOUS
<1>8. PICK u : u = ast'
  OBVIOUS
<1>9. PICK fr : fr = frames
  OBVIOUS
<1>10. Structured(t) /\ NamesFollow(t) /\ FramesFit(fr, t) /\ Attended(fr, t)
  BY <1>3, <1>7, <1>9 DEF NamesInv
<1>11. Grown(t, u, w, s.roles)
  BY <1>2, <1>6, <1>7, <1>8, <1>10, GrowingIsGrown
<1>12. /\ fr[Len(fr)].step = "enter"
       /\ w = fr[Len(fr)].node \/ t[w].role = "left"
  BY <1>4, <1>6, <1>7, <1>9 DEF Top
<1>13. Structured(u) /\ NamesFollow(u) /\ FramesFit(fr, u) /\ Attended(fr, u)
  BY <1>10, <1>11, <1>12, GrownFits
<1> QED  BY <1>3, <1>8, <1>9, <1>13 DEF NamesInv, Running

(* Every step keeps the invariant.                                         *)
LEMMA CheckExpressionInv ==
  ASSUME NamesInv, CheckExpression
  PROVE  NamesInv'
<1>1. CASE OtherLiteral \/ IntegerLiteral \/ Unsupported \/ CallOther
  BY <1>1, LiteralsInv
<1>2. CASE BeginSizeOf \/ EndSizeOf
  BY <1>2, SizeOfInv
<1>3. CASE BeginBinary \/ SecondOperand \/ EndBinary
  BY <1>3, BinaryInv
<1>4. CASE BeginMinus \/ EndMinus
  BY <1>4, MinusInv
<1>5. CASE BeginMember \/ EndMember
  BY <1>5, MemberInv
<1>6. CASE BeginCast \/ CastOperand \/ EndCast
  BY <1>6, CastInv
<1>7. CASE CheckArguments \/ NextArgument
  BY <1>7, ArgumentsInv
<1>8. CASE Identifier \/ BeginAssign \/ EndAssign \/ BeginCall
  BY <1>8, IdentifierInv, BeginAssignInv, EndAssignInv, BeginCallInv
<1> QED  BY <1>1, <1>2, <1>3, <1>4, <1>5, <1>6, <1>7, <1>8 DEF CheckExpression

LEMMA CheckStatementInv ==
  ASSUME NamesInv, CheckStatement
  PROVE  NamesInv'
<1>1. CASE BeginDeclaration \/ TypedDeclaration \/ EndDeclaration
  BY <1>1, DeclarationInv
<1>2. CASE BeginIf \/ ForCondition \/ AfterCondition \/ ForBody \/ BeginReturn
  BY <1>2, ConditionInv
<1>3. CASE AfterBody \/ EndReturn \/ EndList
  BY <1>3, StatementEndInv
<1>4. CASE ExpressionStatement \/ BeginFor \/ NextStatement
  BY <1>4, ExpressionStatementInv, BeginForInv, NextStatementInv
<1> QED  BY <1>1, <1>2, <1>3, <1>4 DEF CheckStatement

LEMMA NamesInvStep ==
  ASSUME NamesInv, [Next]_vars
  PROVE  NamesInv'
<1>1. CASE CheckDeclaration
  <2>1. CASE BeginSignature \/ EndReturnType
    BY <2>1, SignatureInv
  <2>2. CASE NextParameter \/ BeginFunction \/ NextFunction
    BY <2>2, NextParameterInv, BeginFunctionInv, NextFunctionInv
  <2> QED  BY <1>1, <2>1, <2>2 DEF CheckDeclaration
<1>2. CASE ChooseSyntax \/ ResolveType \/ CheckExpression \/ CheckStatement
  BY <1>2, ChooseSyntaxInv, ResolveTypeInv, CheckExpressionInv, CheckStatementInv
<1>3. CASE UNCHANGED vars
  BY <1>3 DEF vars, NamesInv, Running
<1> QED  BY <1>1, <1>2, <1>3 DEF Next

(* What the invariant says of the names that are emitted.                  *)
LEMMA NamesInvFollows ==
  ASSUME NamesInv
  PROVE  NamesFollowScopes
<1>1. DOMAIN ast = 1 .. Len(ast) /\ Structured(ast) /\ NamesFollow(ast)
  BY DEF NamesInv, Structured, IsTree
<1>2. \A i : Path(i) = Up(ast, i)
  BY DEF Path, Up
<1>3. \A i : SignatureAround(i) = Sig(ast, i)
  BY DEF SignatureAround, Sig
<1>4. ASSUME NEW n \in 1 .. Len(ast), ast[n].kind \in {"identifier", "assign"},
             ast[n].decl # 0, SignatureAround(n) = 0
      PROVE  Follows(ast, n, ast[n].decl)
  <2>1. Sig(ast, n) = 0
    BY <1>3, <1>4
  <2>2. ast[n].role # "function"
    BY <1>1, <1>4 DEF Structured, RolesFit
  <2>3. Bodied(ast, n)
    BY <1>1, <2>1, <2>2, SigIs DEF Structured, IsTree
  <2> QED  BY <1>1, <1>4, <2>3 DEF NamesFollow, IsName
<1>5. \A d, n : InScope(d, n) <=> Scoped(ast, d, n)
  BY <1>2 DEF InScope, Scoped
<1>6. \A d, n : OwnInitializer(d, n) <=> (ast[d].role = "decl" /\ d \in Up(ast, n))
  BY <1>2 DEF OwnInitializer
<1>7. ASSUME NEW n \in DOMAIN ast, ast[n].kind \in {"identifier", "assign"},
             ast[n].decl # 0, SignatureAround(n) = 0, NEW d, d = ast[n].decl
      PROVE  /\ InScope(d, n) \/ OwnInitializer(d, n)
             /\ \A e \in DOMAIN ast :
                  (InScope(e, n) /\ ast[e].name = ast[d].name /\ e # d) =>
                    \/ ast[e].parent < ast[d].parent
                    \/ ast[e].parent = ast[d].parent /\ ast[e].role = "parameter"
                    \/ ast[e].parent = ast[d].parent /\ d < e /\ ast[d].role # "parameter"
  <2>1. Follows(ast, n, d)
    BY <1>1, <1>4, <1>7
  <2>2. InScope(d, n) \/ OwnInitializer(d, n)
    BY <1>5, <1>6, <2>1 DEF Follows
  <2>3. ASSUME NEW e \in DOMAIN ast, InScope(e, n), ast[e].name = ast[d].name, e # d
        PROVE  Innermost(ast, e, d)
    BY <1>1, <1>5, <2>1, <2>3 DEF Follows
  <2> QED  BY <2>2, <2>3 DEF Innermost
<1> QED  BY <1>7 DEF NamesFollowScopes

-----------------------------------------------------------------------------
(* The declarations, as the parser leaves them.                            *)
IsSignature(N, f, n) ==
  /\ \E R : N \in Seq(R)
  /\ \A j \in 1 .. Len(N) :
       \/ N[j] = Unknown(f, "type_def")
       \/ /\ \E x : N[j] = Node("declaration", f, "parameter", x)
          /\ j + 1 \in 1 .. Len(N) /\ N[j + 1] = Unknown(n + j, "type_def")
       \/ /\ N[j] = Unknown(n + (j - 1), "type_def")
          /\ j - 1 \in 1 .. Len(N)
          /\ \E x : N[j - 1] = Node("declaration", f, "parameter", x)

LEMMA SignatureNodesAre ==
  ASSUME NEW f, NEW h, h.params \in Seq(STRING), h.returns \in BOOLEAN, NEW n \in Nat,
         NEW N, N = SignatureNodes(f, h, n)
  PROVE  IsSignature(N, f, n)
<1>1. PICK l : l = Len(h.params)
  OBVIOUS
<1>2. PICK q : q = h.params
  OBVIOUS
<1>3. PICK returns : returns = IF h.returns THEN <<Unknown(f, "type_def")>> ELSE <<>>
  OBVIOUS
<1>4. l \in Nat
  BY <1>1
<1>5. PICK r : r = Len(returns)
  OBVIOUS
<1>6. /\ r \in {0, 1} /\ (r = 1 => returns[1] = Unknown(f, "type_def"))
      /\ \E R : returns \in Seq(R)
  <2>1. PICK x : x = Unknown(f, "type_def")
    OBVIOUS
  <2>2. CASE h.returns
    <3>1. returns = <<x>>
      BY <1>3, <2>1, <2>2
    <3>2. returns \in Seq({x}) /\ Len(returns) = 1 /\ returns[1] = x
      BY <3>1
    <3> QED  BY <1>5, <2>1, <3>2
  <2>3. CASE ~ h.returns
    <3>1. returns = <<>>
      BY <1>3, <2>3
    <3>2. returns \in Seq({x}) /\ Len(returns) = 0
      BY <3>1
    <3> QED  BY <1>5, <3>2
  <2> QED  BY <2>2, <2>3
<1> DEFINE V(i) == IF i % 2 = 1 THEN Node("declaration", f, "parameter", q[(i + 1) \div 2])
                   ELSE Unknown(n + r + i - 1, "type_def")
<1>7. PICK pars : pars = [i \in 1 .. 2 * l |-> V(i)]
  OBVIOUS
<1>8. N = returns \o pars
  BY <1>1, <1>2, <1>3, <1>5, <1>7 DEF SignatureNodes
<1>9. 2 * l \in Nat
  BY <1>4
<1>10. /\ Len(pars) = 2 * l /\ \E R : pars \in Seq(R)
       /\ \A i \in 1 .. 2 * l : pars[i] = V(i)
  <2> DEFINE R == {V(i) : i \in 1 .. 2 * l}
             m == 2 * l
  <2>1. pars \in [1 .. m -> R] /\ \A i \in 1 .. m : pars[i] = V(i)
    <3> HIDE DEF V
    <3> QED  BY <1>7
  <2>2. pars \in Seq(R) /\ Len(pars) = m
    <3>1. DOMAIN pars = 1 .. m
      BY <1>7
    <3>2. m \in Nat
      BY <1>9
    <3> HIDE DEF R, m
    <3> QED  BY <2>1, <3>1, <3>2
  <2> HIDE DEF R, V
  <2> QED  BY <2>1, <2>2
<1>11. /\ \E R : N \in Seq(R)
       /\ Len(N) = r + 2 * l
       /\ \A j \in 1 .. r : N[j] = returns[j]
       /\ \A i \in 1 .. 2 * l : N[r + i] = pars[i]
  <2>1. PICK R1, R2 : returns \in Seq(R1) /\ pars \in Seq(R2)
    BY <1>6, <1>10
  <2>2. returns \in Seq(R1 \cup R2) /\ pars \in Seq(R1 \cup R2)
    BY <2>1
  <2>3. /\ returns \o pars \in Seq(R1 \cup R2)
        /\ Len(returns \o pars) = Len(returns) + Len(pars)
    BY <2>2
  <2>6. Len(returns \o pars) = r + 2 * l
    BY <1>5, <1>10, <2>3
  <2>4. \A j \in 1 .. r : (returns \o pars)[j] = returns[j]
    BY <1>5, <1>10, <2>2
  <2>5. \A i \in 1 .. 2 * l : (returns \o pars)[r + i] = pars[i]
    BY <1>5, <1>6, <1>9, <1>10, <2>2
  <2> QED  BY <1>8, <2>3, <2>4, <2>5, <2>6
<1>12. ASSUME NEW i \in 1 .. 2 * l
       PROVE  /\ i % 2 = 1 => i + 1 \in 1 .. 2 * l /\ (i + 1) % 2 # 1
              /\ i % 2 # 1 => i - 1 \in 1 .. 2 * l /\ (i - 1) % 2 = 1
  BY <1>4
<1>13. ASSUME NEW i \in 1 .. 2 * l, i % 2 = 1
       PROVE  \E x : pars[i] = Node("declaration", f, "parameter", x)
  BY <1>10, <1>13
<1>14. ASSUME NEW i \in 1 .. 2 * l, i % 2 # 1
       PROVE  pars[i] = Unknown(n + (r + i - 1), "type_def")
  <2>1. pars[i] = Unknown(n + r + i - 1, "type_def")
    BY <1>10, <1>14
  <2>2. n + r + i - 1 = n + (r + i - 1)
    BY <1>6, <1>14
  <2> QED  BY <2>1, <2>2
<1>15. ASSUME NEW j \in 1 .. Len(N)
       PROVE  \/ N[j] = Unknown(f, "type_def")
              \/ /\ \E x : N[j] = Node("declaration", f, "parameter", x)
                 /\ j + 1 \in 1 .. Len(N) /\ N[j + 1] = Unknown(n + j, "type_def")
              \/ /\ N[j] = Unknown(n + (j - 1), "type_def")
                 /\ j - 1 \in 1 .. Len(N)
                 /\ \E x : N[j - 1] = Node("declaration", f, "parameter", x)
  <2>1. CASE j <= r
    <3>1. j = 1 /\ r = 1 /\ j \in 1 .. r
      BY <1>6, <2>1
    <3> QED  BY <1>6, <1>11, <3>1
  <2>2. CASE j > r
    <3>1. PICK i : i = j - r
      OBVIOUS
    <3>2. i \in 1 .. 2 * l /\ j = r + i
      BY <1>4, <1>6, <1>11, <2>2, <3>1
    <3>3. CASE i % 2 = 1
      <4>1. i + 1 \in 1 .. 2 * l /\ (i + 1) % 2 # 1
        BY <1>12, <3>2, <3>3
      <4>2. r + (i + 1) = j + 1 /\ r + (i + 1) - 1 = j /\ j + 1 \in 1 .. Len(N)
        BY <1>4, <1>6, <1>11, <3>2, <4>1
      <4>3. N[j] = pars[i] /\ N[j + 1] = pars[i + 1]
        BY <1>11, <3>2, <4>1, <4>2
      <4>4. pars[i + 1] = Unknown(n + j, "type_def")
        BY <1>14, <4>1, <4>2
      <4> QED  BY <1>13, <3>2, <3>3, <4>2, <4>3, <4>4
    <3>4. CASE i % 2 # 1
      <4>1. i - 1 \in 1 .. 2 * l /\ (i - 1) % 2 = 1
        BY <1>12, <3>2, <3>4
      <4>2. r + (i - 1) = j - 1 /\ r + i - 1 = j - 1 /\ j - 1 \in 1 .. Len(N)
        BY <1>4, <1>6, <1>11, <3>2, <4>1
      <4>3. N[j] = pars[i] /\ N[j - 1] = pars[i - 1]
        BY <1>11, <3>2, <4>1, <4>2
      <4>4. pars[i] = Unknown(n + (j - 1), "type_def")
        BY <1>14, <3>2, <3>4, <4>2
      <4> QED  BY <1>13, <4>1, <4>2, <4>3, <4>4
    <3> QED  BY <3>3, <3>4
  <2> QED  BY <1>6, <2>1, <2>2
<1> QED  BY <1>11, <1>15 DEF IsSignature

(* The first m nodes are the functions; the others are their parameters,   *)
(* each before its type, and their return types.                           *)
IsDeclared(t, m, i) ==
  /\ IsNode(t[i]) /\ t[i].decl = 0
  /\ i <= m => t[i].kind = "function" /\ t[i].role = "function" /\ t[i].parent = 0
  /\ i > m =>
       \/ /\ t[i].kind = "?" /\ t[i].role = "type_def"
          /\ t[i].parent \in 1 .. i - 1 /\ t[t[i].parent].kind \in {"function", "declaration"}
       \/ /\ t[i].kind = "declaration" /\ t[i].role = "parameter" /\ t[i].parent \in 1 .. m
          /\ i + 1 \in 1 .. Len(t) /\ t[i + 1].parent = i /\ t[i + 1].role = "type_def"

AllDeclared(t, m) ==
  /\ \E R : t \in Seq(R)
  /\ m <= Len(t) /\ \A i \in 1 .. Len(t) : IsDeclared(t, m, i)

LEMMA SignatureDeclared ==
  ASSUME NEW t, NEW m \in Nat, AllDeclared(t, m), NEW f \in 1 .. m,
         NEW h, h.params \in Seq(STRING), h.returns \in BOOLEAN,
         NEW u, u = t \o SignatureNodes(f, h, Len(t))
  PROVE  AllDeclared(u, m)
<1>1. PICK n : n = Len(t)
  OBVIOUS
<1>2. n \in Nat /\ (\E R : t \in Seq(R)) /\ m <= n
  BY <1>1 DEF AllDeclared
<1>3. PICK N : N = SignatureNodes(f, h, n)
  OBVIOUS
<1>4. /\ \E R : N \in Seq(R)
      /\ \A j \in 1 .. Len(N) :
           \/ N[j] = Unknown(f, "type_def")
           \/ /\ \E x : N[j] = Node("declaration", f, "parameter", x)
              /\ j + 1 \in 1 .. Len(N) /\ N[j + 1] = Unknown(n + j, "type_def")
           \/ /\ N[j] = Unknown(n + (j - 1), "type_def")
              /\ j - 1 \in 1 .. Len(N)
              /\ \E x : N[j - 1] = Node("declaration", f, "parameter", x)
  <2>1. IsSignature(N, f, n)
    BY <1>2, <1>3, SignatureNodesAre
  <2> QED  BY <2>1 DEF IsSignature
<1>5. Len(N) \in Nat
  BY <1>4
<1>6. /\ \E R : u \in Seq(R)
      /\ Len(u) = n + Len(N)
      /\ \A i \in 1 .. n : u[i] = t[i]
      /\ \A j \in 1 .. Len(N) : u[n + j] = N[j]
  <2>1. PICK R1, R2 : t \in Seq(R1) /\ N \in Seq(R2)
    BY <1>2, <1>4
  <2>2. t \in Seq(R1 \cup R2) /\ N \in Seq(R1 \cup R2)
    BY <2>1
  <2>3. t \o N \in Seq(R1 \cup R2) /\ Len(t \o N) = n + Len(N)
    BY <1>1, <2>2
  <2>4. \A i \in 1 .. n : (t \o N)[i] = t[i]
    BY <1>1, <2>2
  <2>5. \A j \in 1 .. Len(N) : (t \o N)[n + j] = N[j]
    BY <1>1, <1>2, <1>5, <2>2
  <2>6. u = t \o N
    BY <1>1, <1>3
  <2> QED  BY <2>3, <2>4, <2>5, <2>6
<1>7. ASSUME NEW i \in 1 .. n PROVE IsDeclared(u, m, i)
  <2>1. IsDeclared(t, m, i)
    BY <1>1 DEF AllDeclared
  <2>2. \A j \in 1 .. n : j \in 1 .. Len(u)
    BY <1>2, <1>5, <1>6
  <2>3. t[i].parent \in 1 .. i - 1 => t[i].parent \in 1 .. n
    BY <1>2
  <2> QED  BY <1>1, <1>6, <2>1, <2>2, <2>3 DEF IsDeclared
<1>8. ASSUME NEW x, NEW a
      PROVE  LET d == Node("declaration", f, "parameter", x)
             IN  /\ IsNode(d) /\ d.decl = 0 /\ d.kind = "declaration" /\ d.role = "parameter"
                 /\ d.parent = f
  BY DEF Node, IsNode
<1>9. ASSUME NEW j \in 1 .. Len(N) PROVE IsDeclared(u, m, n + j)
  <2>1. n + j > m /\ ~ (n + j <= m) /\ n + j \in Nat
    BY <1>2, <1>5
  <2>2. u[n + j] = N[j]
    BY <1>6
  <2>3. CASE N[j] = Unknown(f, "type_def")
    <3>1. /\ IsNode(u[n + j]) /\ u[n + j].parent = f /\ u[n + j].role = "type_def"
          /\ u[n + j].kind = "?" /\ u[n + j].decl = 0
      BY <2>2, <2>3, UnknownIs
    <3>2. f \in 1 .. n /\ f \in 1 .. (n + j) - 1
      BY <1>2, <1>5
    <3>3. u[f].kind = "function"
      <4>1. IsDeclared(u, m, f)
        BY <1>7, <3>2
      <4>2. f <= m
        OBVIOUS
      <4> QED  BY <4>1, <4>2 DEF IsDeclared
    <3> QED  BY <2>1, <3>1, <3>2, <3>3 DEF IsDeclared
  <2>4. CASE /\ \E x : N[j] = Node("declaration", f, "parameter", x)
             /\ j + 1 \in 1 .. Len(N) /\ N[j + 1] = Unknown(n + j, "type_def")
    <3>1. /\ IsNode(u[n + j]) /\ u[n + j].parent = f /\ u[n + j].role = "parameter"
          /\ u[n + j].kind = "declaration" /\ u[n + j].decl = 0
      BY <1>8, <2>2, <2>4
    <3>2. u[n + (j + 1)] = Unknown(n + j, "type_def") /\ n + (j + 1) \in 1 .. Len(u)
      <4>1. j + 1 \in 1 .. Len(N) /\ N[j + 1] = Unknown(n + j, "type_def")
        BY <2>4
      <4>2. PICK q : q = j + 1
        OBVIOUS
      <4>3. q \in 1 .. Len(N) /\ N[q] = Unknown(n + j, "type_def")
        BY <4>1, <4>2
      <4>4. u[n + q] = N[q]
        BY <1>6, <4>3
      <4>5. Len(u) = n + Len(N)
        BY <1>6
      <4>6. n + q \in 1 .. Len(u)
        BY <1>2, <1>5, <4>3, <4>5
      <4> QED  BY <4>2, <4>3, <4>4, <4>6
    <3>3. n + (j + 1) = (n + j) + 1
      BY <1>2, <1>5
    <3>4. PICK k : k = n + j
      OBVIOUS
    <3>5. u[k + 1].parent = k /\ u[k + 1].role = "type_def" /\ k + 1 \in 1 .. Len(u)
      BY <3>2, <3>3, <3>4, UnknownIs, SMTT(30)
    <3>6. IsDeclared(u, m, k)
      BY <2>1, <3>1, <3>4, <3>5 DEF IsDeclared
    <3> QED  BY <3>4, <3>6
  <2>5. CASE /\ N[j] = Unknown(n + (j - 1), "type_def")
             /\ j - 1 \in 1 .. Len(N)
             /\ \E x : N[j - 1] = Node("declaration", f, "parameter", x)
    <3>1. PICK k : k = n + (j - 1)
      OBVIOUS
    <3>2. /\ IsNode(u[n + j]) /\ u[n + j].parent = k /\ u[n + j].role = "type_def"
          /\ u[n + j].kind = "?" /\ u[n + j].decl = 0
      BY <2>2, <2>5, <3>1, UnknownIs
    <3>3. k \in 1 .. (n + j) - 1
      BY <1>2, <1>5, <2>5, <3>1
    <3>4. u[k].kind = "declaration"
      <4>1. PICK q : q = j - 1
        OBVIOUS
      <4>2. PICK x : N[q] = Node("declaration", f, "parameter", x)
        BY <2>5, <4>1
      <4>3. q \in 1 .. Len(N) /\ k = n + q
        BY <1>2, <1>5, <2>5, <3>1, <4>1
      <4>4. u[k] = N[q]
        BY <1>6, <4>3
      <4> QED  BY <1>8, <4>2, <4>4
    <3> QED  BY <2>1, <3>2, <3>3, <3>4 DEF IsDeclared
  <2> QED  BY <1>4, <2>3, <2>4, <2>5
<1>10. ASSUME NEW i \in 1 .. Len(u) PROVE IsDeclared(u, m, i)
  <2>1. CASE i \in 1 .. n
    BY <1>7, <2>1
  <2>2. CASE i \notin 1 .. n
    <3>1. PICK j : j = i - n
      OBVIOUS
    <3>2. Len(u) = n + Len(N) /\ n \in Nat /\ Len(N) \in Nat
      BY <1>2, <1>5, <1>6
    <3>3. j \in 1 .. Len(N) /\ i = n + j
      BY <2>2, <3>1, <3>2
    <3> QED  BY <1>9, <3>3
  <2> QED  BY <2>1, <2>2
<1>11. m <= Len(u)
  BY <1>2, <1>5, <1>6
<1> QED  BY <1>6, <1>10, <1>11 DEF AllDeclared

LEMMA FunctionsDeclared ==
  ASSUME NEW p, NEW m \in Nat, NEW t, t = [f \in 1 .. m |-> Node("function", 0, "function", p[f].name)]
  PROVE  AllDeclared(t, m)
<1> DEFINE V(f) == Node("function", 0, "function", p[f].name)
           R == {V(f) : f \in 1 .. m}
<1>1. t \in [1 .. m -> R] /\ DOMAIN t = 1 .. m /\ \A i \in 1 .. m : t[i] = V(i)
  <2> HIDE DEF V
  <2>1. t = [f \in 1 .. m |-> V(f)]
    BY DEF V
  <2> QED  BY <2>1
<1>2. t \in Seq(R) /\ Len(t) = m
  <2> HIDE DEF R
  <2> QED  BY <1>1
<1>3. ASSUME NEW i \in 1 .. Len(t) PROVE IsDeclared(t, m, i)
  <2>1. t[i] = V(i) /\ i <= m /\ ~ (i > m)
    BY <1>1, <1>2
  <2>2. PICK x : x = p[i].name
    OBVIOUS
  <2>3. t[i] = Node("function", 0, "function", x)
    BY <2>1, <2>2
  <2>4. /\ IsNode(t[i]) /\ t[i].decl = 0
        /\ t[i].kind = "function" /\ t[i].role = "function" /\ t[i].parent = 0
    BY <2>3 DEF Node, IsNode
  <2> QED  BY <2>1, <2>4 DEF IsDeclared
<1> HIDE DEF R
<1>4. m <= Len(t)
  BY <1>2
<1> QED  BY <1>2, <1>3, <1>4 DEF AllDeclared

Headers == Seq([name : STRING, params : Seq(STRING), returns : BOOLEAN])

LEMMA DeclarationsAre ==
  ASSUME NEW p \in Headers
  PROVE  AllDeclared(Declarations(p), Len(p))
<1> DEFINE m == Len(p)
           functions == [f \in DOMAIN p |-> Node("function", 0, "function", p[f].name)]
           Value(g, i) == IF i = 0 THEN functions
                          ELSE g[i - 1] \o SignatureNodes(i, p[i], Len(g[i - 1]))
           Builds(g, k) == g = [i \in 0 .. k |-> Value(g, i)]
           S == {k \in Nat : k <= m => \E g : Builds(g, k)}
<1>1. m \in Nat /\ DOMAIN p = 1 .. m
      /\ \A i \in 1 .. m : p[i].params \in Seq(STRING) /\ p[i].returns \in BOOLEAN
  <2> DEFINE Header == [name : STRING, params : Seq(STRING), returns : BOOLEAN]
  <2>1. p \in Seq(Header)
    BY DEF Headers
  <2>2. \A h \in Header : h.params \in Seq(STRING) /\ h.returns \in BOOLEAN
    OBVIOUS
  <2> HIDE DEF Header
  <2>3. Len(p) \in Nat /\ DOMAIN p = 1 .. Len(p) /\ \A i \in 1 .. Len(p) : p[i] \in Header
    BY <2>1
  <2> QED  BY <2>2, <2>3
<1>2. 0 \in S
  <2> DEFINE g == [i \in 0 .. 0 |-> functions]
  <2>1. \A i \in 0 .. 0 : Value(g, i) = functions
    <3> HIDE DEF functions
    <3> QED  OBVIOUS
  <2>2. g = [i \in 0 .. 0 |-> Value(g, i)]
    <3> HIDE DEF Value, functions
    <3> QED  BY <2>1
  <2> QED  BY <2>2
<1>3. ASSUME NEW k \in Nat, k \in S PROVE k + 1 \in S
  <2> SUFFICES ASSUME k + 1 <= m PROVE \E g : Builds(g, k + 1)
    <3> HIDE DEF Builds, m
    <3> QED  OBVIOUS
  <2>1. PICK g : Builds(g, k)
    <3> HIDE DEF Builds, m
    <3> QED  BY <1>1, <1>3
  <2> DEFINE h == [i \in 0 .. k + 1 |-> IF i <= k THEN g[i] ELSE Value(g, i)]
  <2>2. ASSUME NEW i \in 0 .. k + 1 PROVE h[i] = Value(h, i)
    <3>1. i # 0 => i - 1 \in 0 .. k
      OBVIOUS
    <3>2. i # 0 => h[i - 1] = g[i - 1]
      <4> HIDE DEF Value
      <4> QED  BY <3>1
    <3>3. Value(h, i) = Value(g, i)
      <4> HIDE DEF h, functions
      <4> QED  BY <3>2
    <3>4. i <= k => g[i] = Value(g, i)
      <4> HIDE DEF Value
      <4> QED  BY <2>1
    <3>5. h[i] = IF i <= k THEN g[i] ELSE Value(g, i)
      <4> HIDE DEF Value
      <4> QED  OBVIOUS
    <3> HIDE DEF h, Value
    <3> QED  BY <3>3, <3>4, <3>5
  <2>3. h = [i \in 0 .. k + 1 |-> h[i]]
    <3> HIDE DEF Value
    <3> QED  OBVIOUS
  <2>4. Builds(h, k + 1)
    <3> HIDE DEF h, Value
    <3> QED  BY <2>2, <2>3
  <2> QED  BY <2>4
<1>4. m \in S
  <2>1. Nat \subseteq S
    <3> HIDE DEF S
    <3> QED  BY <1>2, <1>3, NatSetInduction
  <2> HIDE DEF S
  <2> QED  BY <1>1, <2>1
<1>5. \E g : Builds(g, m)
  <2> HIDE DEF Builds, m
  <2> QED  BY <1>1, <1>4
<1> DEFINE upTo == CHOOSE g : Builds(g, m)
<1>6. Builds(upTo, m)
  <2> HIDE DEF Builds
  <2> QED  BY <1>5
<1>7. Declarations(p) = upTo[m]
  BY DEF Declarations
<1>8. \A i \in 0 .. m : upTo[i] = Value(upTo, i)
  <2> HIDE DEF upTo, Value
  <2> QED  BY <1>6
<1> HIDE DEF upTo
<1> DEFINE T == {k \in Nat : k <= m => AllDeclared(upTo[k], m)}
<1>9. 0 \in T
  <2>1. upTo[0] = Value(upTo, 0)
    <3> HIDE DEF Value
    <3> QED  BY <1>1, <1>8
  <2>2. upTo[0] = functions
    BY <2>1
  <2>3. functions = [f \in 1 .. m |-> Node("function", 0, "function", p[f].name)]
    BY <1>1
  <2>4. AllDeclared(upTo[0], m)
    <3> HIDE DEF functions, m
    <3> QED  BY <1>1, <2>2, <2>3, FunctionsDeclared
  <2> QED  BY <2>4
<1>10. ASSUME NEW k \in Nat, k \in T PROVE k + 1 \in T
  <2> SUFFICES ASSUME k + 1 <= m PROVE AllDeclared(upTo[k + 1], m)
    OBVIOUS
  <2>1. k <= m /\ k + 1 \in 0 .. m /\ k + 1 \in 1 .. m /\ k + 1 # 0 /\ (k + 1) - 1 = k
    BY <1>1
  <2>2. PICK t : t = upTo[k]
    OBVIOUS
  <2>3. PICK h : h = p[k + 1]
    OBVIOUS
  <2>4. AllDeclared(t, m)
    BY <1>10, <2>1, <2>2
  <2>5. h.params \in Seq(STRING) /\ h.returns \in BOOLEAN
    BY <1>1, <2>1, <2>3
  <2>6. upTo[k + 1] = Value(upTo, k + 1)
    <3> HIDE DEF Value
    <3> QED  BY <1>8, <2>1
  <2>7. upTo[k + 1] = t \o SignatureNodes(k + 1, h, Len(t))
    <3> HIDE DEF functions
    <3> QED  BY <2>1, <2>2, <2>3, <2>6
  <2> HIDE DEF m
  <2> QED  BY <1>1, <2>1, <2>4, <2>5, <2>7, SignatureDeclared
<1>11. AllDeclared(upTo[m], m)
  <2>1. Nat \subseteq T
    <3> HIDE DEF T
    <3> QED  BY <1>9, <1>10, NatSetInduction
  <2>2. m \in T
    <3> HIDE DEF T, m
    <3> QED  BY <1>1, <2>1
  <2> QED  BY <1>1, <2>2
<1> QED  BY <1>7, <1>11

LEMMA DeclaredIsStructured ==
  ASSUME NEW t, NEW m \in Nat, AllDeclared(t, m)
  PROVE  Structured(t) /\ NamesFollow(t) /\ \A e : ~ Open(t, e)
<1>1. Len(t) \in Nat /\ (\E R : t \in Seq(R)) /\ m <= Len(t)
  BY DEF AllDeclared
<1>2. ASSUME NEW i \in 1 .. Len(t)
      PROVE  /\ IsNode(t[i]) /\ t[i].decl = 0 /\ t[i].parent \in 0 .. i - 1
             /\ i <= m => t[i].kind = "function" /\ t[i].role = "function" /\ t[i].parent = 0
             /\ i > m =>
                  \/ /\ t[i].kind = "?" /\ t[i].role = "type_def" /\ t[i].parent # 0
                     /\ t[t[i].parent].kind \in {"function", "declaration"}
                  \/ /\ t[i].kind = "declaration" /\ t[i].role = "parameter"
                     /\ t[i].parent \in 1 .. m
                     /\ i + 1 \in 1 .. Len(t) /\ t[i + 1].parent = i
                     /\ t[i + 1].role = "type_def"
  <2>1. IsDeclared(t, m, i)
    BY DEF AllDeclared
  <2>2. t[i].parent \in 0 .. i - 1
    BY <1>1, <2>1 DEF IsDeclared
  <2>3. t[i].parent \in 1 .. i - 1 => t[i].parent # 0
    OBVIOUS
  <2> QED  BY <2>1, <2>2, <2>3 DEF IsDeclared
<1>3. IsTree(t)
  BY <1>1, <1>2 DEF IsTree, Rooted
<1>4. \A i \in 1 .. Len(t) : i <= m \/ i > m
  BY <1>1
<1>5. \A i \in 1 .. m : i \in 1 .. Len(t) /\ t[i].kind = "function" /\ t[i].role = "function"
  BY <1>1, <1>2
<1>6. RolesFit(t)
  <2> SUFFICES ASSUME NEW i \in 1 .. Len(t)
               PROVE  /\ t[i].role = "function" <=> t[i].parent = 0
                      /\ t[i].role = "function" <=> t[i].kind = "function"
                      /\ t[i].role = "function" => \A j \in 1 .. i : t[j].role = "function"
                      /\ t[i].role \in DOMAIN ParentKinds =>
                           t[t[i].parent].kind \in ParentKinds[t[i].role]
                      /\ t[i].kind \in DOMAIN RolesOf => t[i].role \in RolesOf[t[i].kind]
                      /\ t[i].role = "parameter" => t[i].kind = "declaration"
                      /\ t[i].parent # 0 /\ t[t[i].parent].kind = "block"
                           => t[i].role = "statement"
    BY DEF RolesFit
  <2>1. CASE i <= m
    <3>1. t[i].kind = "function" /\ t[i].role = "function" /\ t[i].parent = 0
      BY <1>2, <2>1
    <3>2. \A j \in 1 .. i : t[j].role = "function"
      BY <1>1, <1>5, <2>1
    <3> QED  BY <3>1, <3>2 DEF ParentKinds, RolesOf
  <2>2. CASE /\ t[i].kind = "?" /\ t[i].role = "type_def" /\ t[i].parent # 0
             /\ t[t[i].parent].kind \in {"function", "declaration"}
    BY <2>2 DEF ParentKinds, RolesOf
  <2>3. CASE /\ t[i].kind = "declaration" /\ t[i].role = "parameter" /\ t[i].parent \in 1 .. m
    <3>1. t[t[i].parent].kind = "function" /\ t[i].parent # 0
      BY <1>5, <2>3
    <3> QED  BY <2>3, <3>1 DEF ParentKinds, RolesOf
  <2> QED  BY <1>2, <1>4, <2>1, <2>2, <2>3
<1>7. \A i \in 1 .. Len(t) : t[i].role \in {"function", "parameter", "type_def"}
                             /\ t[i].kind \in {"function", "declaration", "?"}
  BY <1>2, <1>4
<1>8. InOrder(t)
  <2>1. ASSUME NEW i \in 1 .. Len(t), t[i].kind = "?", NEW j \in 1 .. Len(t)
        PROVE  t[j].parent # i
    <3>1. t[j].parent # 0 => t[t[j].parent].kind \in {"function", "declaration"}
      BY <1>2, <1>4, <1>5
    <3> QED  BY <2>1, <3>1
  <2> QED  BY <1>2, <1>7, <2>1 DEF InOrder
<1>9. Complete(t)
  <2>1. ASSUME NEW i \in 1 .. Len(t), t[i].kind = "declaration"
        PROVE  \E j \in 1 .. Len(t) : t[j].parent = i /\ t[j].role \in {"type_def", "right"}
    BY <1>2, <1>4, <2>1
  <2>2. \A i \in 1 .. Len(t) : t[i].kind \notin DOMAIN Needed
    BY <1>7 DEF Needed
  <2> QED  BY <2>1, <2>2 DEF Complete
<1>10. CallsFit(t)
  BY <1>7 DEF CallsFit
<1>11. NamesFollow(t)
  BY <1>7 DEF NamesFollow, IsName
<1>12. \A e : ~ Open(t, e)
  BY <1>7 DEF Open
<1> QED  BY <1>3, <1>6, <1>8, <1>9, <1>10, <1>11, <1>12 DEF Structured

LEMMA NamesInvInit ==
  ASSUME Init
  PROVE  NamesInv
<1>1. program \in Programs /\ ast = Declarations(program.functions)
      /\ frames = <<Frame("program", 0, 0)>>
  BY DEF Init
<1>2. program.functions \in Headers
  BY <1>1, ConstantsAssumption DEF Headers
<1>3. PICK p \in Headers : p = program.functions
  BY <1>2
<1>4. PICK t : t = ast
  OBVIOUS
<1>5. PICK m : m = Len(p)
  OBVIOUS
<1>6. m \in Nat
  BY <1>5 DEF Headers
<1>7. AllDeclared(t, m)
  BY <1>1, <1>3, <1>4, <1>5, DeclarationsAre
<1>8. Structured(t) /\ NamesFollow(t) /\ \A e : ~ Open(t, e)
  BY <1>6, <1>7, DeclaredIsStructured
<1>9. PICK f : f = Frame("program", 0, 0)
  OBVIOUS
<1>10. PICK fr : fr = frames
  OBVIOUS
<1>11. /\ fr \in Seq({f}) /\ Len(fr) = 1 /\ fr[1] = f
  BY <1>1, <1>9, <1>10
<1>12. /\ IsFrame(f) /\ f.position = 0 /\ f.routine = "program" /\ f.node = 0 /\ f.step = "enter"
  BY <1>9 DEF Frame, IsFrame
<1>13. FrameFits(fr, t, 1)
  <2>1. Up(t, 0) = {}
    BY <1>8, UpClimbs DEF Structured, IsTree
  <2>2. CallFits(t, f)
    BY <1>12 DEF CallFits
  <2> QED  BY <1>11, <1>12, <2>1, <2>2 DEF FrameFits
<1>14. FramesFit(fr, t)
  <2>1. \A i \in 1 .. Len(fr) : FrameFits(fr, t, i)
    BY <1>11, <1>13
  <2>2. \E R : fr \in Seq(R)
    BY <1>11
  <2> QED  BY <1>11, <2>1, <2>2 DEF FramesFit
<1>15. Attended(fr, t)
  BY <1>8 DEF Attended
<1> QED  BY <1>4, <1>8, <1>10, <1>14, <1>15 DEF NamesInv

(* For all programs, sizes of the stack and numbers of nodes: a name that  *)
(* is emitted stands for the innermost declaration that is visible there.  *)
THEOREM NamesAlwaysFollowScopes == Spec => []NamesFollowScopes
<1>1. Init => NamesInv
  BY NamesInvInit
<1>2. NamesInv /\ [Next]_vars => NamesInv'
  BY NamesInvStep
<1>3. NamesInv => NamesFollowScopes
  BY NamesInvFollows
<1> QED  BY <1>1, <1>2, <1>3, PTL DEF Spec
=============================================================================
