SPECIFICATION Spec
CONSTANTS
  Alpha <- MCAlpha
  Digit <- MCDigit
  HexDigit <- MCHexDigit
  OctDigit <- MCOctDigit
  BinDigit <- MCBinDigit
  Escapable <- MCEscapable
  Punctuation <- MCPunctuation
  Keywords <- MCKeywords
  Punctuators <- MCPunctuators
  Inputs <- CutInTwo
\* a source whose tokens are final is done
CHECK_DEADLOCK FALSE
INVARIANT SplitsBetweenTokensAreInvisible
