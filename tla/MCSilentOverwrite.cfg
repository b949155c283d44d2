SPECIFICATION BuilderSpec
CONSTANTS
  t1 = t1
  t2 = t2
  Tabs = {t1, t2}
  Storing = {t1, t2}
  MaxPlans = 1
  MaxEdits = 2
  MaxPuts = 2
CHECK_DEADLOCK FALSE
INVARIANTS
  NoSilentOverwrite
