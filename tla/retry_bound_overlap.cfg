SPECIFICATION Spec
CONSTANTS
  Tx = {t1}
  NoTx = NoTx
  Ext = {e1}
  NoExt = NoExt
  PendingWords = {"PENDING"}
  ApprovedWords = {"APPROVED", "SUCCESS"}
  RejectedWords = {"REJECTED", "FAILED"}
  MaxRetries = 5
  DbFails = FALSE
  PollRuns = {}
  RetryRuns = {r1, r2}
  Events = {}
  Hooks = {}
  ReconRuns = {}
  MaxCrashes = 0
SYMMETRY Symmetry
INVARIANTS SubmitsBounded
