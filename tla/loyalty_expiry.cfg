SPECIFICATION StoreSpec
CONSTANTS
  Checkouts = {1, 2, 3, 4, 5, 6, 7, 8}
  Nobody = 0
  EmailOf <- Emails
  KeyOf <- Keys
  Uses <- Wishes
  Due <- Totals
  Uploads = {"u1", "u2"}
  Attached <- Pictures
  MaxCrops = 1
  Erasers = {11, 12}
  Subject = "x"
  MaxAttempts = 2
  UsageLimit = 2
  PatchLimits = {1}
  PerCustomer = 1
  MaxPatches = 1
  InitialBalance = 3
  Members = {"x", "y"}
  PaidOrders = {"o1", "o2"}
  BuyerOf <- Buyers
  EarnBase <- Earns
  SignupBonus = 1
  ReferralBonus = 1
  RefereeBonus = 1
  UpperTierAt = 3
  MaxAwards = 2
  MaxAdjusts = 1
  MaxCycles = 2
  Overlapping = FALSE
  k1 = k1
  k2 = k2
  k3 = k3
  card1 = card1
  card2 = card2
  NoScope = NoScope
  All = All
  Scopes = {k1, k2, k3}
  Sagas = {g1, g2, g3}
  Requests <- Everyone
  Kind <- KindOf
  Event <- EventOf
  Outcome <- OutcomeOf
  Together <- Stories
  Groups = {1, 2}
  Desks = {1, 2}
  MaxLabels = 3
  Trackers = {1, 2}
  Cancellers = {1, 2}
  ReversePickups = TRUE
  MaxPickups = 2
  MaxEdits = 1
  MaxParcelMishaps = 1
  Skus <- Variants
  PastZero = {"b"}
  Depots = 2
  Stocks <- Counts
  Basket <- Carts
INVARIANT ExpiredOnce
CHECK_DEADLOCK FALSE
