------------------------------ MODULE MCLexer ------------------------------
(***************************************************************************)
(* Lexer for TLC: all short texts of a few characters of every class.      *)
(***************************************************************************)
EXTENDS Lexer

SomeBlanks == {" ", "\n"}
SomeLetters == {"i", "f"}
SomeKeywords == {<<"i", "f">>}
SomeDirectives == {<<"#", "i">>}

Characters == {"i", "f", "1", " ", "\n", "/", "\"", "#", "=", ":", "-", ">", ".", "@"}

(* Texts whose line comments end before the text does.                     *)
Lines ==
  {text \o <<"\n">> : text \in SeqOf(Characters, 3) \cup SeqOf({"i", "1", "/", "\"", " "}, 4)}

(* A block comment with a blank behind it somewhere in a text.             *)
Comment == <<"/", "*", "i", "*", "/", " ">>
Commented ==
  {before \o Comment \o after \o <<"\n">> :
     before \in SeqOf({"i", "1", "/", "\""}, 2), after \in SeqOf({"i", "1", "/", "\""}, 2)}

SomeInputs == Lines \cup Commented
=============================================================================
