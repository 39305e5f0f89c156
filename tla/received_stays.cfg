SPECIFICATION FairSpec
CONSTANTS
  Tx = {t1}
  NoTx = NoTx
  Ext = {e1}
  NoExt = NoExt
  PendingWords = {"PENDING"}
  ApprovedWords = {"APPROVED", "SUCCESS"}
  RejectedWords = {"REJECTED", "FAILED"}
  MaxRetries = 2
  DbFails = FALSE
  PollRuns = {p1}
  RetryRuns = {r1}
  Events = {v1}
  Hooks = {h1}
  ReconRuns = {c1}
  MaxCrashes = 0
PROPERTIES ReceivedMovesOn
