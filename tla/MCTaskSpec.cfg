SPECIFICATION Spec
CHECK_DEADLOCK FALSE
CONSTANTS
  Ids <- Names
  REQUIRED_H1 <- Sections
  TASK_H3 <- Parts
  Unknown = "?"
  Drafts <- Both
  Blocks <- Pieces
  SourcePaths <- Named
  Root <- Repository
  Directory <- TaskDir
INVARIANTS ReadsWhatIsWritten AcyclicityIsDecided IdentityIsTheFile
PROPERTIES ParserEnds
