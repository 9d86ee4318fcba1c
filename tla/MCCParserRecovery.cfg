SPECIFICATION Spec
CONSTANTS
  Units <- MCUnits
  Sentences <- MCSentences
  LastGlobal <- MCLastGlobal
CHECK_DEADLOCK FALSE
INVARIANT NoGlobalFromABody
