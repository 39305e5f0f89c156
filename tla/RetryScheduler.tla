--------------------------- MODULE RetryScheduler ---------------------------
(***************************************************************************)
(* internal/scheduler/retry.go: every minute a run of processRetries reads *)
(* the transactions whose retry is due and, one after the other, marks     *)
(* each as RETRYING, submits it to the provider again, stores the outcome  *)
(* and writes a row of retry_audit: four calls with nothing holding them   *)
(* together.  A submission may take ten seconds, so runs can overlap.      *)
(***************************************************************************)
EXTENDS Transactions

CONSTANT RetryRuns  \* retry runs that can be under way together

VARIABLES
  retryTodo,  \* rows a run has read and not yet treated
  retryJob,   \* the retry a run is busy with (at most one)
  retryAudit, \* rows of retry_audit
  submits     \* submissions made for each transaction, counted up to one too many

retryVars == <<retryTodo, retryJob, retryAudit, submits>>

Results == {"SUCCESS", "FAILED", "TIMEOUT", "TECHNICAL_FAILURE"}

RetryItems == [tx : Tx, retries : 0..MaxRetries]

RetryJobs == [tx : Tx, attempt : Nat, stage : {"submit", "record", "audit"},
              result : Results \cup {"none"}, ext : Ext \cup {NoExt}]

RetryTypeOK ==
  /\ retryTodo \in [RetryRuns -> SUBSET RetryItems]
  /\ retryJob \in [RetryRuns -> SUBSET RetryJobs]
  /\ retryAudit \subseteq [tx : Tx, attempt : Nat, result : Results]
  /\ submits \in [Tx -> 0..MaxRetries + 1]

RetryInit ==
  /\ retryTodo = [r \in RetryRuns |-> {}]
  /\ retryJob = [r \in RetryRuns |-> {}]
  /\ retryAudit = {}
  /\ submits = [t \in Tx |-> 0]

-----------------------------------------------------------------------------

FindPendingRetries ==
  {t \in Tx : row[t].status = "RETRY_PENDING" /\ row[t].nextRetry = "due"}

RetryFetch(r) ==
  /\ retryTodo[r] = {} /\ retryJob[r] = {}
  /\ retryTodo' = [retryTodo EXCEPT ![r] =
                     {[tx |-> t, retries |-> row[t].retries] : t \in FindPendingRetries}]
  /\ UNCHANGED <<retryJob, retryAudit, submits, tableVars, providerVars>>

RetryMark(r, x) ==
  /\ retryJob[r] = {} /\ x \in retryTodo[r]
  /\ MarkForRetry(x.tx, "RETRYING", x.retries, "null") \/ DbError
  /\ retryTodo' = [retryTodo EXCEPT ![r] = @ \ {x}]
  /\ retryJob' = [retryJob EXCEPT ![r] =
                    {[tx |-> x.tx, attempt |-> x.retries + 1, stage |-> "submit",
                      result |-> "none", ext |-> NoExt]}]
  /\ UNCHANGED <<retryAudit, submits, aged, audit, outbox, providerVars>>

(* Slips the runs must catch: the limit reached one attempt early or late.  *)
TechnicalResultEarly(attempt) ==
  IF attempt + 1 >= MaxRetries THEN "TIMEOUT" ELSE "TECHNICAL_FAILURE"

TechnicalResultLate(attempt) ==
  IF attempt > MaxRetries THEN "TIMEOUT" ELSE "TECHNICAL_FAILURE"

(* The result of a technical failure: the fifth attempt is the last.        *)
TechnicalResult(attempt) ==
  IF attempt >= MaxRetries THEN "TIMEOUT" ELSE "TECHNICAL_FAILURE"

Submitted(r, j, result, e) ==
  retryJob' = [retryJob EXCEPT ![r] =
                 {[j EXCEPT !.stage = "record", !.result = result, !.ext = e]}]

(* client.Submit: taken in and answered, taken in with the answer lost,     *)
(* failed on the way or with 5xx, or refused with 4xx.                      *)
RetrySubmit(r) ==
  \E j \in retryJob[r] :
    /\ j.stage = "submit"
    /\ submits' = [submits EXCEPT ![j.tx] = IF @ > MaxRetries THEN @ ELSE @ + 1]
    /\ \/ \E e \in Ext : Register(e, j.tx) /\ Submitted(r, j, "SUCCESS", e)
       \/ /\ \E e \in Ext : Register(e, j.tx)
          /\ Submitted(r, j, TechnicalResult(j.attempt), NoExt)
       \/ /\ Submitted(r, j, TechnicalResult(j.attempt), NoExt)
          /\ UNCHANGED providerVars
       \/ Refuse(j.tx) /\ Submitted(r, j, "FAILED", NoExt)
    /\ UNCHANGED <<retryTodo, retryAudit, tableVars>>

(* Slips the runs must catch: the request id, or the time of the next       *)
(* attempt, not stored.                                                     *)
StoreNoRequestId(j) ==
  MarkForRetry(j.tx, IF j.result = "SUCCESS" THEN "ACCEPTED" ELSE "FAILED", j.attempt, "null")

StoreNoNextTime(j) ==
  \/ j.result = "SUCCESS" /\ UpdateProviderDetails(j.tx, j.ext, "ACCEPTED")
  \/ j.result # "SUCCESS" /\ MarkForRetry(j.tx, "RETRY_PENDING", j.attempt, "null")

(* The statement that stores the outcome of j. *)
StoreResult(j) ==
  \/ j.result = "SUCCESS" /\ UpdateProviderDetails(j.tx, j.ext, "ACCEPTED")
  \/ j.result = "FAILED" /\ MarkForRetry(j.tx, "FAILED", j.attempt, "null")
  \/ j.result = "TIMEOUT" /\ MarkForRetry(j.tx, "TIMEOUT", j.attempt, "null")
  \/ /\ j.result = "TECHNICAL_FAILURE"
     /\ MarkForRetry(j.tx, "RETRY_PENDING", j.attempt, "later")

RetryRecord(r) ==
  \E j \in retryJob[r] :
    /\ j.stage = "record"
    /\ StoreResult(j) \/ DbError
    /\ retryJob' = [retryJob EXCEPT ![r] = {[j EXCEPT !.stage = "audit"]}]
    /\ UNCHANGED <<retryTodo, retryAudit, submits, aged, audit, outbox, providerVars>>

SaveRetryAudit(r) ==
  \E j \in retryJob[r] :
    /\ j.stage = "audit"
    /\ \/ retryAudit' = retryAudit
                          \cup {[tx |-> j.tx, attempt |-> j.attempt, result |-> j.result]}
       \/ DbFails /\ UNCHANGED retryAudit
    /\ retryJob' = [retryJob EXCEPT ![r] = {}]
    /\ UNCHANGED <<retryTodo, submits, tableVars, providerVars>>

RetryRun(r) ==
  \/ RetryFetch(r)
  \/ \E x \in retryTodo[r] : RetryMark(r, x)
  \/ RetrySubmit(r)
  \/ RetryRecord(r)
  \/ SaveRetryAudit(r)

=============================================================================
