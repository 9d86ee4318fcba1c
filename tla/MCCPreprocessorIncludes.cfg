SPECIFICATION Spec
CONSTANTS
  Dirs = {"src", "inc"}
  HeaderNames = {"main", "a", "b"}
  Disk <- MCDisk
  MainPath <- MCMain
  IncludeDirs <- MCIncludeDirs
  CurrentDir = "src"
  Names = {"G"}
  LinesOf <- MCLinesOf
  MaxIncludeDepth = 3
INVARIANT TypeOK
INVARIANT OnceRunsOnce
INVARIANT GuardRunsOnce
INVARIANT StackCountsOpenGroups
PROPERTY Termination
