SPECIFICATION MCSpec
CONSTANTS
  c1 = c1
  c2 = c2
  k1 = k1
  k2 = k2
  a1 = a1
  s1 = s1
  t1 = t1
  t2 = t2
  h1 = h1
  h2 = h2
  h3 = h3
  r1 = r1
  r2 = r2
  None = None
  Aliases = {a1}
  TakenAliases = {}
  TransferOf <- MCTransferOf
  PriceOf <- MCPriceOf
  Specs = {s1}
  Keys = {k1}
  Calls = {c1}
  Offers = {}
  Prices = {10}
  MaxVersions = 1
  MaxPublications = 1
  Requests = {r1, r2}
  Transfers = {t1, t2}
  Headers = {h1, h2, h3}
SYMMETRY Symmetry
INVARIANTS
  RevenueIsReal
  SettledIsNotWrittenOff
PROPERTIES
  ConfirmedIsFinal
  ImplementsSale
