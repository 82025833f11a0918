------------------------------- MODULE Lexer -------------------------------
(***************************************************************************)
(* The lexer (lexer.c) and the two tokens of the parser that it fills      *)
(* (advance_token, parser.c).  The input is a sequence of characters; a    *)
(* position counts the characters before it, as lexer.current does.        *)
(***************************************************************************)
EXTENDS Integers, SequencesExt, FiniteSetsExt

CONSTANTS
  Inputs,      \* the texts of the files
  Letters, Digits, Blanks, \* what is_alpha, is_digit and is_whitespace accept
  Keywords,    \* the identifiers that are keywords
  Directives   \* the words #load and #import

(* Texts are sequences of characters, a line break is a blank.             *)
Texts == Inputs \subseteq Seq(STRING) /\ "\n" \in Blanks

ASSUME LexerAssumption == Texts

VARIABLES
  input,       \* lexer.input
  position,    \* lexer.current
  token,       \* parser.current: [type, second, first, count]
  previous     \* parser.previous

lexerVars == <<input, position, token, previous>>

-----------------------------------------------------------------------------
Quote == "\""

AtEnd(p) == p >= Len(input)
Char(p) == input[p + 1]
NextChar(p) == IF p + 1 < Len(input) THEN input[p + 2] ELSE "nul"

(* Where a loop that eats characters of a set stops.                       *)
AfterAll(p, chars) == Min({q \in p .. Len(input) : AtEnd(q) \/ Char(q) \notin chars})
(* Where a loop that eats all but one character stops.                     *)
Upto(p, char) == Min({q \in p .. Len(input) : AtEnd(q) \/ Char(q) = char})

Closes(q) == q + 1 < Len(input) /\ Char(q) = "*" /\ Char(q + 1) = "/"
BlockEnd(p) ==
  IF \E q \in p .. Len(input) : Closes(q)
  THEN Min({q \in p .. Len(input) : Closes(q)}) + 2 ELSE Len(input)

SkipWhitespaceSlash(p) == \* mutant: a slash alone does not end the loop
  LET skipped[q \in 0 .. Len(input) + 1] ==
        IF AtEnd(q) THEN q
        ELSE IF Char(q) \in Blanks THEN skipped[q + 1]
        ELSE IF Char(q) = "/" /\ NextChar(q) = "/" THEN skipped[Upto(q, "\n") + 1]
        ELSE IF Char(q) = "/" THEN skipped[BlockEnd(q) + 1]
        ELSE q
  IN  skipped[p]

(* skip_whitespace: every round of the loop ends with eat_character, after *)
(* a comment too, so that one more character is skipped after its end, and *)
(* after a comment that ends with the input a position outside it.         *)
SkipWhitespace(p) ==
  LET skipped[q \in 0 .. Len(input) + 1] ==
        IF AtEnd(q) THEN q
        ELSE IF Char(q) \in Blanks THEN skipped[q + 1]
        ELSE IF Char(q) = "/" /\ NextChar(q) = "/" THEN skipped[Upto(q, "\n") + 1]
        ELSE IF Char(q) = "/" /\ NextChar(q) = "*" THEN skipped[BlockEnd(q) + 1]
        ELSE q
  IN  skipped[p]

(* A token and where the lexer stands after it.  The type of an operator   *)
(* is its first character, and its second one.                             *)
Lexed(type, p, q) ==
  [type |-> type, second |-> "", first |-> p, count |-> q - p, after |-> q]
Lexeme(p, q) == SubSeq(input, p + 1, q)

IdentifierToken(p) ==
  LET q == AfterAll(p + 1, Letters \cup Digits)
  IN  Lexed(IF Lexeme(p, q) \in Keywords THEN "keyword" ELSE "identifier", p, q)

NumberTokenUntyped(p) == \* mutant: the type stays that of an integer
  LET q == AfterAll(p + 1, Digits)
  IN  Lexed("integer", p, IF ~AtEnd(q) /\ NextChar(q) \in Digits
                          THEN AfterAll(q + 1, Digits) ELSE q)

(* The character between the digits of a float is not looked at.           *)
NumberToken(p) ==
  LET q == AfterAll(p + 1, Digits)
  IN  IF ~AtEnd(q) /\ NextChar(q) \in Digits
      THEN Lexed("float", p, AfterAll(q + 1, Digits)) ELSE Lexed("integer", p, q)

StringTokenUnquoted(p) == \* mutant: the lexeme without its quotes
  LET q == Upto(p + 1, Quote)
  IN  IF AtEnd(q) THEN Lexed("end", p, q)
      ELSE [Lexed("string", p + 1, q) EXCEPT !.after = q + 1]

StringTokenUnclosed(p) == \* mutant: no test for the end
  Lexed("string", p, Upto(p + 1, Quote) + 1)

StringToken(p) ==
  LET q == Upto(p + 1, Quote)
  IN  IF AtEnd(q) THEN Lexed("end", p, q) ELSE Lexed("string", p, q + 1)

DirectiveTokenInPlace(p) == \* mutant: the first character is not eaten
  LET q == AfterAll(p, Letters)
  IN  Lexed(IF Lexeme(p, q) \in Directives THEN "directive" ELSE "error", p, q)

DirectiveToken(p) ==
  LET q == AfterAll(p + 1, Letters)
  IN  Lexed(IF Lexeme(p, q) \in Directives THEN "directive" ELSE "error", p, q)

(* The switch of get_next_token.                                           *)
BeforeEquals == {"!", "&", "*", "+", "-", "/", ":", "<", "=", ">", "^", "|"}
Operators == BeforeEquals \cup {"%", "(", ")", ",", ".", ";", "?", "[", "]", "{", "}", "~"}

Second(p) ==
  CASE Char(p) \in BeforeEquals /\ NextChar(p) = "=" -> "="
    [] Char(p) = "-" /\ NextChar(p) = ">" -> ">"
    [] Char(p) = ":" /\ NextChar(p) = ":" -> ":"
    [] OTHER -> ""

(* The lexer is copied for make_token and advanced by matches_character in *)
(* arguments of one call, whose order C leaves open: the lexeme of an      *)
(* operator of two characters may be the first one alone.                  *)
OperatorTokens(p) ==
  IF Second(p) = "" THEN {Lexed(Char(p), p, p + 1)}
  ELSE {[Lexed(Char(p), p, p + 2) EXCEPT !.second = Second(p), !.count = n] : n \in 1 .. 2}

TokensAt(p) ==
  IF AtEnd(p) THEN {Lexed("end", p, p)}
  ELSE CASE Char(p) \in Letters -> {IdentifierToken(p)}
         [] Char(p) \in Digits -> {NumberToken(p)}
         [] Char(p) = Quote -> {StringToken(p)}
         [] Char(p) = "#" -> {DirectiveToken(p)}
         [] Char(p) \in Operators -> OperatorTokens(p)
         [] OTHER -> {Lexed("error", p, p + 1)}

(* get_next_token from a position.                                         *)
NextTokens(p) == TokensAt(SkipWhitespace(p))

-----------------------------------------------------------------------------
AdvanceToken ==
  /\ previous' = token
  /\ token' \in NextTokens(position)
  /\ position' = token'.after
  /\ UNCHANGED input

(* A file is loaded and parse reads its first token.                       *)
LexInit ==
  /\ input \in Inputs
  /\ token \in NextTokens(0)
  /\ position = token.after
  /\ previous = Lexed("end", 0, 0)

LexNext == AdvanceToken

(* The parser reads on to the end, unless it finds an error.               *)
LexSpec == LexInit /\ [][LexNext]_lexerVars /\ WF_lexerVars(LexNext)

-----------------------------------------------------------------------------
(* Properties.                                                             *)

(* What the lexer asks of a text: a comment does not end with it, and      *)
(* a blank, which skip_whitespace eats, is behind a block comment.         *)
CommentsEnd ==
  \A p \in 0 .. Len(input) - 1 :
    Char(p) = "/" =>
      /\ NextChar(p) = "/" => ~AtEnd(Upto(p, "\n"))
      /\ NextChar(p) = "*" => ~AtEnd(BlockEnd(p)) /\ Char(BlockEnd(p)) \in Blanks

(* The assertions of make_source_location (parser.c:46-47), which is given *)
(* the lexeme of every token that becomes a node or is reported.           *)
LexemesInside == token.first >= 0 /\ token.first + token.count <= Len(input)

(* What the parser relies on when it takes a literal apart: a string has   *)
(* its two quotes (parser.c:316), an integer has only digits               *)
(* (parser.c:287).                                                         *)
LiteralsParse ==
  LET text == SubSeq(input, token.first + 1, token.first + token.count)
  IN  /\ token.type = "string" => Len(text) >= 2 /\ text[1] = Quote /\ Last(text) = Quote
      /\ token.type = "integer" => text # <<>> /\ ToSet(text) \subseteq Digits

(* rollback_one_token sends the lexer back to where a lexeme starts and    *)
(* expects the token it saw there to be lexed again.                       *)
RelexesTheSame ==
  \A again \in NextTokens(token.first) :
    [again EXCEPT !.count = 0] = [token EXCEPT !.count = 0]

(* Nothing but blanks and comments from p up to q.                         *)
OnlyBlanks(p, q) ==
  LET blank[r \in 0 .. Len(input) + 1] ==
        IF r >= q \/ AtEnd(r) THEN r = q
        ELSE IF Char(r) \in Blanks THEN blank[r + 1]
        ELSE IF Char(r) = "/" /\ NextChar(r) = "/" THEN blank[Upto(r, "\n")]
        ELSE IF Char(r) = "/" /\ NextChar(r) = "*" THEN blank[BlockEnd(r)]
        ELSE FALSE
  IN  blank[p]

(* Between two tokens there is nothing but blanks and comments: no         *)
(* character of the program is lost.                                       *)
NothingSkipped == [][OnlyBlanks(token.after, token'.first)]_lexerVars

(* The end of the input is reached, and nothing comes after it.            *)
ReachesTheEnd == <>[](token.type = "end")
=============================================================================
