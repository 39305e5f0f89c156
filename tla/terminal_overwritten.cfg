SPECIFICATION Spec
CONSTANTS
  Tx = {t1}
  NoTx = NoTx
  Ext = {e1}
  NoExt = NoExt
  PendingWords = {"PENDING"}
  ApprovedWords = {"APPROVED", "SUCCESS"}
  RejectedWords = {"REJECTED", "FAILED"}
  MaxRetries = 2
  DbFails = FALSE
  PollRuns = {p1}
  RetryRuns = {}
  Events = {v1}
  Hooks = {h1}
  ReconRuns = {}
  MaxCrashes = 0
SYMMETRY Symmetry
PROPERTIES TerminalProtected
