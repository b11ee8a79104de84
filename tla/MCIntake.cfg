SPECIFICATION Spec
CHECK_DEADLOCK FALSE
CONSTANTS
  Branches = {"main", "topic"}
  Files <- Paths
  Contents <- Texts
  TaskOf <- TaskIds
  BaseOf <- Bases
  Malformed <- Broken
  Absent = "none"
  Outside = "outside"
  Trees <- SomeTrees
  Main = "main"
  MaxSize = 5
  MaxCommits = 3
INVARIANTS TypeOK EveryPushIsAnswered OnlyAskedFor
