SPECIFICATION RefundSpec
CONSTANTS
  k1 = k1
  k2 = k2
  k3 = k3
  NoScope = NoScope
  All = All
  Scopes = {k1, k2}
  Sagas = {g1, g2}
  Sweeps = {w1}
  Wanted <- OneThenAll
  GrandTotal = 2
  Captured = 2
  CardOrder <- NoCards
  Applied <- NothingApplied
  Voidable = {}
  MaxInFlight = 3
  MayRefuse = FALSE
  LateSettle = FALSE
  EventsNameOrder = TRUE
SYMMETRY RefundSymmetry
INVARIANT NeverLost
CHECK_DEADLOCK FALSE
