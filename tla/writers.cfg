SPECIFICATION Spec
CONSTANTS
  Tx = {t1}
  NoTx = NoTx
  Ext = {e1}
  NoExt = NoExt
  PendingWords = {"PENDING"}
  ApprovedWords = {"APPROVED", "SUCCESS"}
  RejectedWords = {"REJECTED", "FAILED"}
  MaxRetries = 2
  DbFails = TRUE
  PollRuns = {p1}
  RetryRuns = {}
  Events = {v1}
  Hooks = {h1, h2}
  ReconRuns = {c1}
  MaxCrashes = 1
SYMMETRY Symmetry
INVARIANTS FinalIsJustified WebhookAppliedOnce CorrectionIsReal HealingReversesNothing IInv
PROPERTIES SettledStaysSettled
