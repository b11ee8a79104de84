SPECIFICATION Spec

CONSTANTS
  NumTasks = 2
  DependsOn <- DependsOnTwo
  RepairLimit = 1
  MaxRuns = 2


PROPERTIES
  RetryIsAccepted
