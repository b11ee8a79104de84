SPECIFICATION Spec
CHECK_DEADLOCK FALSE
CONSTANTS
  ConfigFile <- Config
  TaskDir <- Tasks
  StateDir <- States
  Paths <- AllPaths
  Ignored <- IgnoredPaths
  Contents = {1, 2}
  Absent = 0
  Trees <- Start
  Policies <- ManyPolicies
  Specs <- ManySpecs
  MaxEdits = 4
INVARIANTS
  OnlyStagedRenamesHide DeliveredIsReported OnlyEditableIsPushed
