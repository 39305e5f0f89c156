SPECIFICATION Spec
CONSTANTS
  MaxInt = 5000
  Merchants = {m1, m2}
  Posters = {r1, r2, kc}
  Runs = {r1, r2}
  Consumer = kc
  NoPoster = NoPoster
  Refs = {b1, b2, f1, e1, e2}
  Batches = {b1, b2}
  Fees = {f1}
  Earnings = {e1, e2}
  NoRef = NoRef
  NoBatch = NoBatch
  Opened = {m1, m2, "MERCHANT-WALLET", "REVENUE-FEES", "TAX-PAYABLE", "RESERVE-HOLDBACK", "BANK-SETTLEMENT", "CLEARING"}
  Amounts = {339, 400}
  DbFails = TRUE
SYMMETRY Symmetry
INVARIANTS TypeOK NoWaitCycle LedgerBalances PaidIsBooked StatusTellsTruth OverdrawnOnlyByOverlap
PROPERTY ImplementsAtomicLedger
CHECK_DEADLOCK FALSE
