SPECIFICATION Spec
CONSTANTS
  Dirs = {"src", "inc"}
  HeaderNames = {"main", "a", "b"}
  Disk = {}
  MainPath <- MCMain
  IncludeDirs <- MCIncludeDirs
  CurrentDir = "src"
  Names = {"F"}
  LinesOf <- MCLinesOf
  MaxIncludeDepth = 1
INVARIANT TypeOK
INVARIANT DeadBelowDead
INVARIANT LevelsConsistent
INVARIANT SkipsWhatTheGroupsDrop
INVARIANT MacrosFollowTheLiveText
INVARIANT MainFileComesOutInOrder
PROPERTY NoSecondBranch
