------------------------------- MODULE Polling -------------------------------
(***************************************************************************)
(* internal/scheduler/poller.go: every five minutes a run of               *)
(* pollPendingTransactions reads the transactions due for polling and      *)
(* treats them one after the other.  The cron starts a run whether or not  *)
(* the previous one has ended, so PollRuns has one element for each run    *)
(* that can be under way at a time.  The rows' locks taken by FOR UPDATE   *)
(* SKIP LOCKED end with the query, which runs outside any transaction.     *)
(***************************************************************************)
EXTENDS Transactions

CONSTANT PollRuns  \* poll runs that can be under way together

VARIABLES
  pollTodo,   \* rows a run has read and not yet treated
  pollAnswer  \* the mapped answer a run is about to store (at most one)

pollVars == <<pollTodo, pollAnswer>>

PollItems == [tx : Tx, ext : Ext \cup {NoExt}]

PollTypeOK ==
  /\ pollTodo \in [PollRuns -> SUBSET PollItems]
  /\ pollAnswer \in [PollRuns -> SUBSET [tx : Tx, status : {"PROCESSING", "COMPLETED", "FAILED"}]]

PollInit ==
  /\ pollTodo = [r \in PollRuns |-> {}]
  /\ pollAnswer = [r \in PollRuns |-> {}]

-----------------------------------------------------------------------------

(* Slips the runs must catch: the condition on the status left out; a null *)
(* next_poll_at not taken for due.                                         *)
FindWhateverStatus == {t \in Tx : row[t].status # Absent /\ row[t].nextPoll # "later"}

FindOnlyDue ==
  {t \in Tx : row[t].status \in {"ACCEPTED", "PROCESSING"} /\ row[t].nextPoll = "due"}

FindEligibleForPolling ==
  {t \in Tx : /\ row[t].status \in {"ACCEPTED", "PROCESSING"}
              /\ row[t].nextPoll # "later"}

PollFetch(r) ==
  /\ pollTodo[r] = {} /\ pollAnswer[r] = {}
  /\ pollTodo' = [pollTodo EXCEPT ![r] =
                    {[tx |-> t, ext |-> row[t].ext] : t \in FindEligibleForPolling}]
  /\ UNCHANGED <<pollAnswer, tableVars, providerVars>>

PollTake(r, x) ==
  /\ pollAnswer[r] = {} /\ x \in pollTodo[r]
  /\ pollTodo' = [pollTodo EXCEPT ![r] = @ \ {x}]

(* The transaction is older than 72 hours. *)
PollExpire(r, x) ==
  /\ PollTake(r, x) /\ x.tx \in aged
  /\ UpdatePollingStatus(x.tx, "TIMEOUT", "null", FALSE) \/ DbError
  /\ UNCHANGED <<pollAnswer, aged, audit, outbox, providerVars>>

(* No request id to ask for, or the provider does not answer. *)
PollSkip(r, x) ==
  /\ PollTake(r, x) /\ x.tx \notin aged
  /\ UNCHANGED <<pollAnswer, tableVars, providerVars>>

(* The provider answers; the row may change before the answer is stored. *)
PollAsk(r, x) ==
  /\ PollTake(r, x) /\ x.tx \notin aged /\ x.ext # NoExt
  /\ \E w \in Answers(x.ext) :
       pollAnswer' = [pollAnswer EXCEPT ![r] =
                        {[tx |-> x.tx, status |-> MapProviderStatus(w)]}]
  /\ UNCHANGED <<tableVars, providerVars>>

PollWrite(r) ==
  /\ \E a \in pollAnswer[r] :
       \/ /\ a.status = "PROCESSING"
          /\ UpdatePollingStatus(a.tx, a.status, "later", FALSE)
       \/ /\ a.status # "PROCESSING"
          /\ UpdatePollingStatus(a.tx, a.status, "null", TRUE)
       \/ DbError
  /\ pollAnswer' = [pollAnswer EXCEPT ![r] = {}]
  /\ UNCHANGED <<pollTodo, aged, audit, outbox, providerVars>>

PollRun(r) ==
  \/ PollFetch(r)
  \/ \E x \in pollTodo[r] : PollExpire(r, x) \/ PollSkip(r, x) \/ PollAsk(r, x)
  \/ PollWrite(r)

=============================================================================
