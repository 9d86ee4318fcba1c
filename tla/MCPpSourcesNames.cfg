SPECIFICATION Spec
CONSTANTS
  Chars <- MCChars
  Texts <- MCTexts
  SizeMod = 16
  MaxTokens = 2
CHECK_DEADLOCK FALSE
INVARIANT NamesAreBetweenTheirBrackets
