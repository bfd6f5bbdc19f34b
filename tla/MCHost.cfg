SPECIFICATION SumSpec
CONSTANTS
  c1 = c1
  c2 = c2
  k1 = k1
  k2 = k2
  p1 = p1
  p2 = p2
  stock = stock
  hyphaed = hyphaed
  Commit = {c1, c2}
  Kernel = {k1, k2}
  Needed = {nvidia}
  Extra = {}
  Pkg = {p1, p2}
  None = None
  Bad = Bad
  Installed = {stock, hyphaed}
  Stock = {stock}
  MaxDriver = 2
SYMMETRY Symmetry
CONSTRAINT Apart
INVARIANTS
  PurgeHasModules
  RollbackKept
  ReadyLoads
  CurrencyIsSound
  CauseIsNamed
  UsernsLive
  BridgeIsWhole
