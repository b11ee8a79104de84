SPECIFICATION Spec

CONSTANTS
  Jobs = {j1, j2}
  NumCommits = 1
  SpecAt <- SpecKept
  BaseOf <- BranchKept
  Absent = Absent
  Foreign = Foreign
  MaxFaults = 1
  MaxTouches = 0
  j1 = j1
  j2 = j2
  main = main
  develop = develop
  s1 = s1
  s2 = s2

PROPERTIES
  FailedIsRetryable
