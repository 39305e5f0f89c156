------------------------- MODULE LifecycleInvariant -------------------------
(***************************************************************************)
(* The inductive invariant of Lifecycle.  FinalIsJustified and its like    *)
(* speak of rows; what keeps them true is what the workers carry between   *)
(* reading a row and writing it.  Each part below says this of one worker. *)
(***************************************************************************)
EXTENDS Lifecycle

(* A request is submitted for some transaction exactly when it is used. *)
RequestsOwned == \A e \in Ext : submittedFor[e] = NoTx <=> verdict[e] = "unused"

(* What a reader may still rely on about e and t, whatever happened since:  *)
(* e was submitted for t, and t's row has a request id.                     *)
Tracked(e, t) == e \in Ext /\ submittedFor[e] = t /\ row[t].ext # NoExt

WordFits(w, e) ==
  /\ w \in SuccessWords => verdict[e] = "approved"
  /\ w \in FailureWords => verdict[e] = "rejected"

PollInv ==
  /\ \A r \in PollRuns : \A x \in pollTodo[r] : x.ext # NoExt => Tracked(x.ext, x.tx)
  /\ \A r \in PollRuns : \A a \in pollAnswer[r] :
       row[a.tx].ext # NoExt /\ Justified(a.tx, a.status)

(* What a retry run holds: the outcome of a submission has a reason, and    *)
(* the attempt counts stay in range.                                        *)
RetryWorkInv ==
  /\ \A r \in RetryRuns : \A x \in retryTodo[r] : x.retries < MaxRetries
  /\ \A r \in RetryRuns : \A j \in retryJob[r] :
       /\ j.attempt \in 1..MaxRetries
       /\ j.stage # "submit" =>
            /\ j.result \in Results
            /\ j.result = "SUCCESS" => j.ext \in Ext /\ submittedFor[j.ext] = j.tx
            /\ j.result = "FAILED" => j.tx \in refused
            /\ j.result = "TIMEOUT" => j.attempt = MaxRetries
            /\ j.result = "TECHNICAL_FAILURE" => j.attempt < MaxRetries

(* The retry count stays below the maximum as long as a retry is possible. *)
RetryInv ==
  /\ RetryWorkInv
  /\ \A t \in Tx : row[t].status = "RETRY_PENDING" => row[t].retries < MaxRetries

HookInv ==
  /\ \A p \in posted : submittedFor[p.ext] # NoTx /\ WordFits(p.word, p.ext)
  /\ \A h \in Hooks : \A j \in hookJob[h] :
       /\ submittedFor[j.ext] # NoTx /\ WordFits(j.word, j.ext)
       /\ j.tx # NoTx => Tracked(j.ext, j.tx)

(* Each event is in the hands of one delivery at most, the audit knows it,  *)
(* and it has not been applied.                                             *)
HookOnceInv ==
  /\ applied \subseteq webhookAudit
  /\ \A h \in Hooks : \A j \in hookJob[h] :
       j.event \in webhookAudit /\ hookJob[h] = {j}
  /\ WebhookAppliedOnce

ReconInv ==
  /\ \A r \in ReconRuns : \A x \in reconTodo[r] : x.ext # NoExt => Tracked(x.ext, x.tx)
  /\ \A r \in ReconRuns : \A j \in reconJob[r] :
       row[j.tx].ext # NoExt /\ Justified(j.tx, HealTarget(j.external))

(* The inductive invariant. *)
IInv ==
  /\ TypeOK
  /\ RequestsOwned /\ TrackedAtProvider /\ TimeoutIsJustified /\ FinalIsJustified
  /\ PollInv /\ RetryInv /\ HookInv /\ HookOnceInv /\ ReconInv

=============================================================================
