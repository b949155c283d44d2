SPECIFICATION Spec
CONSTANTS
  k1 = k1
  k2 = k2
  c1 = c1
  c2 = c2
  c3 = c3
  o1 = o1
  o2 = o2
  a1 = a1
  a2 = a2
  taken = taken
  None = None
  Specs = {s1, s2}
  Keys = {k1, k2}
  Aliases = {a1, a2, taken}
  TakenAliases = {taken}
  Calls = {c1, c2}
  Offers = {o1, o2}
  Prices = {10, 20}
  MaxVersions = 2
  MaxPublications = 2
SYMMETRY Symmetry
INVARIANTS
  PointerMatchesActive
  InternalKeyFollowsRevision
  SuspensionSeals
  OneAnswerPerKey
PROPERTIES
  WithdrawalIsFinal
