SPECIFICATION HarnessSpec
CONSTANTS
  n1 = n1
  n2 = n2
  m1 = m1
  m2 = m2
  None = None
  Needs = {n1, n2}
  Limits = {4, 5}
  Models = {m1, m2}
SYMMETRY Interchangeable
CHECK_DEADLOCK FALSE
INVARIANTS
  BudgetSuffices
  EveryNeedHasOneSource
  ReturnedPlanIsLocked
