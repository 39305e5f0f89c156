SPECIFICATION Spec
CONSTANTS
  Tx = {t1}
  NoTx = NoTx
  Ext = {e1, e2}
  NoExt = NoExt
  PendingWords = {"PENDING"}
  ApprovedWords = {"APPROVED", "SUCCESS"}
  RejectedWords = {"REJECTED", "FAILED"}
  MaxRetries = 2
  DbFails = TRUE
  PollRuns = {}
  RetryRuns = {r1, r2}
  Events = {}
  Hooks = {}
  ReconRuns = {}
  MaxCrashes = 1
SYMMETRY Symmetry
INVARIANTS TypeOK TimeoutIsJustified TrackedAtProvider
