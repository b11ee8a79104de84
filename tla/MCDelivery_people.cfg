SPECIFICATION Spec

CONSTANTS
  Jobs = {j1, j2}
  NumCommits = 2
  SpecAt <- SpecEdited
  BaseOf <- BranchMoved
  Absent = Absent
  Foreign = Foreign
  MaxFaults = 0
  MaxTouches = 2
  j1 = j1
  j2 = j2
  main = main
  develop = develop
  s1 = s1
  s2 = s2

SYMMETRY AnyJob

INVARIANTS
  TypeOK
  OnlyVerifiedWork
  OnePullPerWorkUnit
  PullShowsItsWork

PROPERTIES
  KeepsTheDeliveryLedger
