SPECIFICATION Spec
CONSTANTS
  MaxInt = 9998
  Merchants = {m1}
  Posters = {r1, r2, kc}
  Runs = {r1, r2}
  Consumer = kc
  NoPoster = NoPoster
  Refs = {b1, b2, e1}
  Batches = {b1, b2}
  Fees = {}
  Earnings = {e1}
  NoRef = NoRef
  NoBatch = NoBatch
  Opened = {m1, "MERCHANT-WALLET", "ONBOARDING-REVENUE", "REVENUE-FEES", "TAX-PAYABLE", "RESERVE-HOLDBACK", "BANK-SETTLEMENT", "CLEARING"}
  Amounts = {400}
  DbFails = FALSE
SYMMETRY Symmetry
INVARIANT PayableZeroedOut
CHECK_DEADLOCK FALSE
