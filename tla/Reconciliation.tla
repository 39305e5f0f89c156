--------------------------- MODULE Reconciliation ---------------------------
(***************************************************************************)
(* internal/scheduler/reconciliation.go: every hour a run of               *)
(* PerformExternalReconciliation reads the transactions that have stayed   *)
(* ACCEPTED or PROCESSING for 30 minutes, asks the provider about each and *)
(* compares.  It decides on the status it has read, which may no longer be *)
(* the status of the row, and heals through the state machine.             *)
(***************************************************************************)
EXTENDS Transactions

CONSTANT ReconRuns  \* reconciliation runs that can be under way together

VARIABLES
  reconTodo,      \* rows a run has read and not yet treated
  reconJob,       \* the comparison a run is busy with (at most one)
  reconResults,   \* rows of reconciliation_result
  reconExceptions \* transactions in reconciliation_exception

reconVars == <<reconTodo, reconJob, reconResults, reconExceptions>>

ReconItems == [tx : Tx, ext : Ext \cup {NoExt}, status : Statuses]

ReconJobs == [tx : Tx, internal : Statuses, external : Words,
              stage : {"compare", "healed", "review"}]

ReconRows == [tx : Tx, internal : Statuses, external : Words,
              result : {"MATCHED", "AUTO_CORRECTED", "MANUAL_REVIEW"}]

ReconTypeOK ==
  /\ reconTodo \in [ReconRuns -> SUBSET ReconItems]
  /\ reconJob \in [ReconRuns -> SUBSET ReconJobs]
  /\ reconResults \subseteq ReconRows
  /\ reconExceptions \subseteq Tx

ReconInit ==
  /\ reconTodo = [r \in ReconRuns |-> {}]
  /\ reconJob = [r \in ReconRuns |-> {}]
  /\ reconResults = {} /\ reconExceptions = {}

-----------------------------------------------------------------------------

FindStuckTransactions ==
  {t \in Tx : row[t].status \in {"ACCEPTED", "PROCESSING"} /\ t \in quiet}

IsStatusMatch(internal, external) ==
  \/ internal = "COMPLETED" /\ external = "SUCCESS"
  \/ internal = "FAILED" /\ external = "FAILED"
  \/ internal \in {"PROCESSING", "ACCEPTED"} /\ external \in {"PROCESSING", "PENDING"}

(* A slip the runs must catch: every other word taken for a failure. *)
HealTargetDefault(external) == IF external = "SUCCESS" THEN "COMPLETED" ELSE "FAILED"

(* The status the provider's word calls for, where healing is deemed safe. *)
HealTarget(external) ==
  CASE external = "SUCCESS" -> "COMPLETED"
    [] external = "FAILED"  -> "FAILED"
    [] OTHER                -> "none"

SaveResult(j, result) ==
  reconResults' = reconResults \cup
    {[tx |-> j.tx, internal |-> j.internal, external |-> j.external, result |-> result]}

ReconFetch(r) ==
  /\ reconTodo[r] = {} /\ reconJob[r] = {}
  /\ reconTodo' = [reconTodo EXCEPT ![r] =
       {[tx |-> t, ext |-> row[t].ext, status |-> row[t].status] : t \in FindStuckTransactions}]
  /\ UNCHANGED <<reconJob, reconResults, reconExceptions, tableVars, providerVars>>

(* No request id to ask for, or the provider does not answer. *)
ReconSkip(r, x) ==
  /\ reconJob[r] = {}
  /\ reconTodo' = [reconTodo EXCEPT ![r] = @ \ {x}]
  /\ UNCHANGED <<reconJob, reconResults, reconExceptions, tableVars, providerVars>>

ReconAsk(r, x) ==
  /\ reconJob[r] = {} /\ x.ext # NoExt
  /\ reconTodo' = [reconTodo EXCEPT ![r] = @ \ {x}]
  /\ \E w \in Answers(x.ext) :
       reconJob' = [reconJob EXCEPT ![r] =
         {[tx |-> x.tx, internal |-> x.status, external |-> w, stage |-> "compare"]}]
  /\ UNCHANGED <<reconResults, reconExceptions, tableVars, providerVars>>

ReconMatch(r) ==
  \E j \in reconJob[r] :
    /\ j.stage = "compare" /\ IsStatusMatch(j.internal, j.external)
    /\ SaveResult(j, "MATCHED") \/ (DbFails /\ UNCHANGED reconResults)
    /\ reconJob' = [reconJob EXCEPT ![r] = {}]
    /\ UNCHANGED <<reconTodo, reconExceptions, tableVars, providerVars>>

(* Transition is allowed from the status read, and commits. *)
ReconHeal(r) ==
  \E j \in reconJob[r] :
    /\ j.stage = "compare" /\ ~IsStatusMatch(j.internal, j.external)
    /\ HealTarget(j.external) # "none"
    /\ MayTransition(j.internal, HealTarget(j.external))
    /\ UpdateStateAndAudit(j.tx, j.internal, HealTarget(j.external))
    /\ reconJob' = [reconJob EXCEPT ![r] = {[j EXCEPT !.stage = "healed"]}]
    /\ UNCHANGED <<reconTodo, reconResults, reconExceptions, aged, providerVars>>

(* A slip the runs must catch: the error of Transition not looked at. *)
ReconHealErrorIgnored(r) ==
  \E j \in reconJob[r] :
    /\ j.stage = "compare" /\ HealTarget(j.external) # "none"
    /\ reconJob' = [reconJob EXCEPT ![r] = {[j EXCEPT !.stage = "healed"]}]
    /\ UNCHANGED <<reconTodo, reconResults, reconExceptions, tableVars, providerVars>>

(* Transition returns an error, which is logged and no more. *)
ReconHealFails(r) ==
  \E j \in reconJob[r] :
    /\ j.stage = "compare" /\ ~IsStatusMatch(j.internal, j.external)
    /\ HealTarget(j.external) # "none"
    /\ ~MayTransition(j.internal, HealTarget(j.external)) \/ DbFails
    /\ reconJob' = [reconJob EXCEPT ![r] = {}]
    /\ UNCHANGED <<reconTodo, reconResults, reconExceptions, tableVars, providerVars>>

ReconSaveHealed(r) ==
  \E j \in reconJob[r] :
    /\ j.stage = "healed"
    /\ SaveResult(j, "AUTO_CORRECTED") \/ (DbFails /\ UNCHANGED reconResults)
    /\ reconJob' = [reconJob EXCEPT ![r] = {}]
    /\ UNCHANGED <<reconTodo, reconExceptions, tableVars, providerVars>>

(* Neither in step nor safe to heal. *)
ReconReview(r) ==
  \E j \in reconJob[r] :
    /\ j.stage = "compare" /\ ~IsStatusMatch(j.internal, j.external)
    /\ HealTarget(j.external) = "none"
    /\ SaveResult(j, "MANUAL_REVIEW") \/ (DbFails /\ UNCHANGED reconResults)
    /\ reconJob' = [reconJob EXCEPT ![r] = {[j EXCEPT !.stage = "review"]}]
    /\ UNCHANGED <<reconTodo, reconExceptions, tableVars, providerVars>>

SaveException(r) ==
  \E j \in reconJob[r] :
    /\ j.stage = "review"
    /\ \/ reconExceptions' = reconExceptions \cup {j.tx}
       \/ DbFails /\ UNCHANGED reconExceptions
    /\ reconJob' = [reconJob EXCEPT ![r] = {}]
    /\ UNCHANGED <<reconTodo, reconResults, tableVars, providerVars>>

ReconRun(r) ==
  \/ ReconFetch(r)
  \/ \E x \in reconTodo[r] : ReconSkip(r, x) \/ ReconAsk(r, x)
  \/ ReconMatch(r)
  \/ ReconHeal(r)
  \/ ReconHealFails(r)
  \/ ReconSaveHealed(r)
  \/ ReconReview(r)
  \/ SaveException(r)

=============================================================================
