SPECIFICATION Spec

CONSTANTS
  NumTasks = 2
  DependsOn <- DependsOnTwo
  RepairLimit = 1
  MaxRuns = 3

INVARIANTS
  TypeOK
  CompletedClosed
  CompletedArePassed
  VerifiedTreeInScope
  RepairBudget
  EveryReportIsRead

PROPERTIES
  ProgressSurvives
  RunsEnd
  KeepsThePromise
