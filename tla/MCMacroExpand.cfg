SPECIFICATION Spec
CONSTANTS
  Names <- MCNames
  Symbols <- MCSymbols
  Glue <- MCGlue
  Inputs <- MCInputs
INVARIANT TypeOK
INVARIANT HidesCoverStack
INVARIANT NoMacroWithinItself
INVARIANT ReplacementIsStandard
INVARIANT ObjectsExpandByNesting
PROPERTY IdsKeepTheirMeaning
PROPERTY Termination
