SPECIFICATION Spec
CHECK_DEADLOCK FALSE
CONSTANTS
  NumHeads = 2
  Heads <- TwoHeads
  Items <- ThreeItems
  Inline <- TwoInline
  NatureOf <- ThreeNatures
  Answers <- ThreeAnswers
  Words <- ThreeWords
  AutoRepair = TRUE
  Caps <- OneOrTwo
  Limit = 1
  MaxRuns = 2
  MaxFaults = 1
INVARIANTS
  TypeOK NoWayBack NothingUnread OneTrack RepairsBounded OutcomeIsShown
PROPERTIES
  KeepsTheLedger ReviewIsBounded
