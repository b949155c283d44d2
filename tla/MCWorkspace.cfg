SPECIFICATION WorkspaceSpec
CONSTANTS
  s1 = s1
  s2 = s2
  a1 = a1
  a2 = a2
  a3 = a3
  c1 = c1
  c2 = c2
  c3 = c3
  u1 = u1
  u2 = u2
  u3 = u3
  u4 = u4
  d1 = d1
  d2 = d2
  d3 = d3
  n1 = n1
  n2 = n2
  n3 = n3
  v1 = v1
  v2 = v2
  v3 = v3
  x1 = x1
  x2 = x2
  x3 = x3
  x4 = x4
  r1 = r1
  r2 = r2
  p1 = p1
  p2 = p2
  p3 = p3
  stock = stock
  g = g
  h = h
  None = None
  Requests = {s1, s2, a1, a2, a3, c1, c2, c3, u1, u2, u3, u4, d1, d2, d3, n1, n2, n3, v1, v2, v3, x1, x2, x3, x4, r1, r2, p1, p2, p3}
  Ask <- MCAsk
  Workloads <- MCWorkloads
  Stored = stock
  HeldKeys = {g, h}
  MaxFaults = 2
  MaxAttempts = 3
CHECK_DEADLOCK FALSE
INVARIANTS
  KeysActOnce
  AnswersStayTrue
  OneWallet
  ActivationIsStored
  KeysAreOrdered
  VersionChangesOnce
  ProfileKeepsItsKey
