SPECIFICATION Spec
CONSTANTS
  Conditions <- MCConditions
  Outcome <- MCOutcome
  Shapes <- MCShapes
  MaxCalls = 2
INVARIANT TypeOK
INVARIANT DeadBelowDead
INVARIANT LevelsConsistent
INVARIANT MarksWhatTheGroupsDrop
INVARIANT ReportsWhatTheStructureCalls
INVARIANT ConditionsMeanTheirGrammar
PROPERTY NoSecondBranch
