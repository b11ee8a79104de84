SPECIFICATION Spec
CHECK_DEADLOCK FALSE
CONSTRAINT Bounded
CONSTANTS
  NumHeads = 2
  Heads <- TwoHeads
  Conclusions <- AllConclusions
  Posts <- AllPosts
  Others = TRUE
  MaxTime = 2
  Budgets <- SomeBudgets
INVARIANTS
  TypeOK VerdictWasTrue OnlyTheOvertakenMiss JudgedByPreparedSpec
