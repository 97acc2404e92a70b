SPECIFICATION FairSpec
CONSTANTS
  File = {"a", "b"}
  MaxImports = 2
  MaxReloads = 1
  MaxPollers = 1
  Allows = {"slow", "lose"}
INVARIANT TypeOK
INVARIANT VerdictIsTrue
INVARIANT StageIsReached
INVARIANT WarnsOfAbort
PROPERTY ImportEnds
CHECK_DEADLOCK FALSE
