SPECIFICATION Spec
CONSTANTS
  v1 = v1
  v2 = v2
  w1 = w1
  w2 = w2
  c1 = c1
  c2 = c2
  c3 = c3
  None = None
  Carts = {c1, c2, c3}
  Sessions = {s1, s2}
  Variants = {v1}
  Warehouses = {w1, w2}
  FillRank <- MCFillRank
  DefaultWarehouse = w1
  StockRows <- TwoWarehouses
  LockRank <- MCLockRank
  PastZero = {}
  CartRequests <- HoldOne
  OrderRequests <- OrderOne
  InitialQuantity <- OneEach
  HoldTTL = 1
  SweepGrace = 1
  MaxTime = 0
  MaxRecount = 1
  MaxRecounts = 0
  SharedCart = FALSE
SYMMETRY SessionSymmetry
INVARIANT NoLockCycle
