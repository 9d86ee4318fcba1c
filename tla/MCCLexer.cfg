SPECIFICATION Spec
CONSTANTS
  Alpha <- MCAlpha
  Digit <- MCDigit
  Escapable <- MCEscapable
  Punctuation <- MCPunctuation
  Keywords <- MCKeywords
  Punctuators <- MCPunctuators
  Inputs <- MCInputs
\* a source whose tokens are final is done
CHECK_DEADLOCK FALSE
INVARIANT TokensAreC
INVARIANT BadLexemesAreReported
INVARIANT LineStartsAreMarked
INVARIANT SeamsAreClean
