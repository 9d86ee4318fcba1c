SPECIFICATION Spec
CONSTANTS
  Units <- MCUnits
  Sentences <- MCSentences
  LastGlobal <- MCLastGlobal
CHECK_DEADLOCK FALSE
INVARIANT TreesSpellTheUnit
INVARIANT AcceptsSentences
PROPERTY BrokenGlobalsAreReported
INVARIANT LastGlobalSurvives
PROPERTY Termination
