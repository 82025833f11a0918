SPECIFICATION LexSpec
CONSTANTS
  Inputs <- SomeInputs
  Letters <- SomeLetters
  Digits = {"1"}
  Blanks <- SomeBlanks
  Keywords <- SomeKeywords
  Directives <- SomeDirectives
INVARIANTS
  LexemesInside
  LiteralsParse
  RelexesTheSame
PROPERTIES
  NothingSkipped
  ReachesTheEnd
