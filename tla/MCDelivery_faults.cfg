SPECIFICATION Spec

CONSTANTS
  Jobs = {j1, j2}
  NumCommits = 2
  SpecAt <- SpecEdited
  BaseOf <- BranchKept
  Absent = Absent
  Foreign = Foreign
  MaxFaults = 2
  MaxTouches = 0
  j1 = j1
  j2 = j2
  main = main
  develop = develop
  s1 = s1
  s2 = s2

INVARIANTS
  CreatedIsOurs
  FailureIsAnnounced
  LabelsExclusive

PROPERTIES
  DeliveryEnds
