SPECIFICATION Spec
CONSTANTS
  IntWidth = 4
  CharWidth = 3
  Code <- MCCode
  Escapes <- MCEscapes
  Lines <- MCLines
  Macros <- MCMacros
  Meanings <- MCMeanings
CHECK_DEADLOCK FALSE
INVARIANT ValuesAreC
INVARIANT ErrorsOnlyWhereLive
