SPECIFICATION SalesSpec
CONSTANTS
  v1 = v1
  v2 = v2
  w1 = w1
  w2 = w2
  c1 = c1
  c2 = c2
  c3 = c3
  None = None
  Carts = {c1, c2}
  Sessions = {s1, s2}
  Variants = {v1}
  Warehouses = {w1, w2}
  FillRank <- MCFillRank
  DefaultWarehouse = w2
  StockRows <- TwoWarehouses
  LockRank <- MCLockRank
  PastZero = {}
  CartRequests <- HoldOne
  OrderRequests <- OrderOneOrTwo
  InitialQuantity <- OneEach
  HoldTTL = 1
  SweepGrace = 1
  MaxTime = 3
  MaxRecount = 1
  MaxRecounts = 0
  SharedCart = FALSE
  k1 = k1
  k2 = k2
  k3 = k3
  NoScope = NoScope
  All = All
  Scopes = {k1, k2, k3}
  Sagas = {g1, g2}
  Sweeps = {z1, z2}
  Wanted <- OneTwoAll
  GrandTotal = 3
  Captured = 3
  CardOrder <- NoCards
  Applied <- NothingApplied
  Voidable = {}
  MaxInFlight = 3
  MayRefuse = TRUE
  LateSettle = FALSE
  EventsNameOrder = TRUE
SYMMETRY SalesSymmetry
INVARIANT SalesTypeOK
INVARIANT StockConserved
INVARIANT LiveHoldsCovered
INVARIANT NoRowCycle
INVARIANT DecrementsLocked
INVARIANT SharedNeverOversold
INVARIANT SettledOnce
INVARIANT WithinCapture
INVARIANT BookedExactly
PROPERTY LiveHoldsKept
PROPERTY ShelfSpec
PROPERTY SucceededIsFinal
CHECK_DEADLOCK FALSE
