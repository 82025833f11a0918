------------------------------ MODULE MCParser ------------------------------
(***************************************************************************)
(* Parser for TLC: prefixes of inputs, and the grammar the parser is for,  *)
(* as the set of the sentences of each length with the node each one       *)
(* stands for.                                                             *)
(***************************************************************************)
EXTENDS Parser

MainBody == <<"identifier", "::", "(", ")", "{">>
Signature == <<"identifier", "::", "(", "identifier", ":", "identifier", ",",
               "identifier", ":", "*", "identifier", ")", "->", "identifier", "{">>

Shape(prefix, kinds, limit) == [prefix |-> prefix, kinds |-> kinds, limit |-> limit]
Operations == Shape(MainBody \o <<"return">>, {"identifier", "+", "*", "-", ";", "}"}, 7)
Groups == Shape(MainBody \o <<"return">>, {"identifier", "+", "(", ")", ";", "}"}, 6)
Casts == Shape(MainBody \o <<"return", "cast", "(">>, {"identifier", "!", ".", "(", ")", ";", "}"}, 5)
Branches == Shape(MainBody \o <<"if">>, {"identifier", "if", "(", ")", ";", "}"}, 6)
Blocks == Shape(MainBody, {"identifier", "{", ";", "}"}, 7)
Loops == Shape(MainBody \o <<"for", "(", "identifier", ":=", "identifier", ";">>,
               {"identifier", "=", ";", ")", "}"}, 7)
Variables == Shape(Signature, {"identifier", ":", "=", ":=", "return", ";", "}"}, 7)
Files == Shape(<<>>, {"import", "string", "identifier", "::", "struct", "->", "[", "(", ")", "{", "}", ";"}, 6)

AllShapes == {Operations, Groups, Casts, Branches, Blocks, Loops, Variables, Files}
MissingOperand == {Shape(MainBody \o <<"return">>, {"identifier", ";"}, 3)}

-----------------------------------------------------------------------------
(* The sentences of length n over an alphabet, when shorter[k] are those   *)
(* of length k < n.                                                        *)
SentencesOf(alphabet, shorter, n) ==
  LET Sentence(text, node) ==
        IF ToSet(text) \subseteq alphabet THEN {[text |-> text, node |-> node]} ELSE {}
      Shorter(k, symbol) == IF k \in 1 .. n - 1 THEN shorter[k][symbol] ELSE {}
      (* x before y, together with fixed tokens: n - fixed tokens to share *)
      Pairs(fixed, first, second) ==
        UNION {{<<x, y>> : x \in Shorter(k, first), y \in Shorter(n - fixed - k, second)} :
                 k \in 1 .. n - fixed}
      Binary(level, operand) ==
        UNION {UNION {Sentence(p[1].text \o <<op>> \o p[2].text, p[1].node \o p[2].node \o <<op>>) :
                        op \in Operators[level]} : p \in Pairs(1, level, operand)}
      One(kind) == IF n = 1 THEN Sentence(<<kind>>, <<kind>>) ELSE {}

      type == (IF n = 1 THEN Sentence(<<"identifier">>, <<"type">>) ELSE {})
              \cup UNION {Sentence(<<"*">> \o x.text, <<"pointer">> \o x.node) : x \in Shorter(n - 1, "type")}
      primary ==
        UNION {One(kind) : kind \in Literals \cup {"identifier"}}
        \cup UNION {Sentence(<<"(">> \o x.text \o <<")">>, x.node) : x \in Shorter(n - 2, "expression")}
      postfix ==
        primary
        \cup UNION {Sentence(p[1].text \o <<"(">> \o p[2].text \o <<")">>,
                             p[1].node \o <<"callee">> \o p[2].node \o <<"call">>) :
                      p \in Pairs(2, "postfix", "arguments")}
        \cup UNION {Sentence(x.text \o <<".", "identifier">>, x.node \o <<"member">>) :
                      x \in Shorter(n - 2, "postfix")}
      unary ==
        postfix
        \cup UNION {UNION {Sentence(<<op>> \o x.text, x.node \o <<"unary">>) : op \in {"!", "-"}} :
                      x \in Shorter(n - 1, "unary")}
        \cup UNION {Sentence(<<"cast", "(">> \o p[1].text \o <<")">> \o p[2].text,
                             p[1].node \o p[2].node \o <<"cast">>) : p \in Pairs(3, "type", "unary")}
        \cup UNION {Sentence(<<"size_of", "(">> \o x.text \o <<")">>, x.node \o <<"size_of">>) :
                      x \in Shorter(n - 3, "type")}
      factor == unary \cup Binary("factor", "unary")
      term == factor \cup Binary("term", "factor")
      comparison == term \cup Binary("comparison", "term")
      equality == comparison \cup Binary("equality", "comparison")
      expression ==
        equality
        \cup UNION {UNION {Sentence(<<"identifier", op>> \o x.text, <<"identifier">> \o x.node \o <<op>>) :
                             op \in AssignmentOperators} : x \in Shorter(n - 2, "equality")}
      arguments ==
        UNION {Sentence(x.text, x.node \o <<"argument">>) : x \in expression}
        \cup UNION {Sentence(p[1].text \o <<",">> \o p[2].text, p[1].node \o p[2].node \o <<"argument">>) :
                      p \in Pairs(1, "arguments", "expression")}
      variable ==
        UNION {Sentence(<<"identifier", ":=">> \o x.text, <<"variable">> \o x.node) :
                 x \in Shorter(n - 2, "expression")}
        \cup UNION {Sentence(<<"identifier", ":">> \o x.text, <<"variable">> \o x.node) :
                      x \in Shorter(n - 2, "type")}
        \cup UNION {Sentence(<<"identifier", ":">> \o p[1].text \o <<"=">> \o p[2].text,
                             <<"variable">> \o p[1].node \o p[2].node) :
                      p \in Pairs(3, "type", "expression")}
      simple == variable \cup {x \in expression : x.text[1] = "identifier"}
      statement ==
        UNION {Sentence(x.text \o <<";">>, x.node) : x \in Shorter(n - 1, "simple")}
        \cup UNION {Sentence(<<"return">> \o x.text \o <<";">>, <<"return">> \o x.node) :
                      x \in Shorter(n - 2, "expression")}
        \cup UNION {Sentence(<<"{">> \o x.text, <<"block">> \o x.node) : x \in Shorter(n - 1, "statements")}
        \cup UNION {Sentence(<<"if", "(">> \o p[1].text \o <<")">> \o p[2].text,
                             <<"if">> \o p[1].node \o p[2].node) : p \in Pairs(3, "expression", "statement")}
        \cup UNION {Sentence(<<"for", "(">> \o p[1].text \o <<";">> \o p[2].text,
                             <<"for">> \o p[1].node \o p[2].node) : p \in Pairs(3, "variable", "condition")}
      (* what follows the first semicolon of a for                         *)
      condition ==
        UNION {Sentence(p[1].text \o <<";">> \o p[2].text, p[1].node \o p[2].node) :
                 p \in Pairs(1, "expression", "increment")}
      increment ==
        UNION {Sentence(p[1].text \o <<")">> \o p[2].text, p[1].node \o p[2].node) :
                 p \in Pairs(1, "expression", "statement")}
      statements ==
        One("}")
        \cup UNION {Sentence(p[1].text \o p[2].text, p[1].node \o p[2].node) :
                      p \in Pairs(0, "statement", "statements")}
  IN  [type |-> type, postfix |-> postfix, unary |-> unary, factor |-> factor, term |-> term,
       comparison |-> comparison, equality |-> equality, expression |-> expression,
       arguments |-> arguments, variable |-> variable, simple |-> simple, statement |-> statement,
       condition |-> condition, increment |-> increment, statements |-> statements]

(* What can follow the opening brace of a function, in at most length tokens. *)
Bodies(alphabet, length) ==
  LET all == FoldLeft(LAMBDA shorter, n : Append(shorter, SentencesOf(alphabet, shorter, n)),
                      <<>>, [n \in 1 .. length |-> n])
  IN  UNION {all[n].statements : n \in 1 .. length}

(* The functions without parameters, and those with the signature, that    *)
(* begin as a shape does.                                                  *)
Headers ==
  {[text |-> MainBody, node |-> <<"function">>],
   [text |-> Signature,
    node |-> <<"function", "parameter", "type", "parameter", "pointer", "type", "type">>]}

Programs(s) ==
  UNION {LET bodies == Bodies(s.kinds \cup ToSet(s.prefix), s.limit + Len(s.prefix) - Len(h.text))
         IN  {[text |-> h.text \o x.text \o <<"end">>, node |-> h.node \o x.node] :
                x \in {y \in bodies : IsPrefix(s.prefix, h.text \o y.text)}} :
           h \in {g \in Headers : IsPrefix(g.text, s.prefix)}}

ProgramsOf == [s \in Shapes |-> Programs(s)]

(* The parser is a parser of the grammar: what it accepts is a sentence,   *)
(* and the node it returns is the one of that sentence, with the operators *)
(* bound as their levels say; what it refuses is not the beginning of one. *)
ParsesTheGrammar ==
  shape.prefix # <<>> =>
  /\ outcome = "accepted" =>
       \E x \in ProgramsOf[shape] : IsPrefix(x.text, input) /\ result = x.node
  /\ outcome \in {"rejected", "null dereferenced"} =>
       \A x \in ProgramsOf[shape] : ~IsPrefix(input, x.text)
=============================================================================
