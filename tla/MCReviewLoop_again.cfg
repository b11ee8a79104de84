SPECIFICATION Spec
CHECK_DEADLOCK FALSE
CONSTANTS
  NumHeads = 2
  Heads <- TwoHeads
  Items <- ThreeItems
  Inline <- TwoInline
  NatureOf <- ThreeNatures
  Answers <- ThreeAnswers
  Words <- JustCompleted
  AutoRepair = FALSE
  Caps <- OneOrTwo
  Limit = 1
  MaxRuns = 2
  MaxFaults = 1
INVARIANTS
  NeverReadyAgain
