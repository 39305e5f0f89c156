--------------------------- MODULE LifecycleProofs ---------------------------
(***************************************************************************)
(* Proofs about Lifecycle, for any number of transactions, request ids,    *)
(* events, runs and deliveries, any maximum of retries, and whether or not *)
(* statements fail.  The argument:                                         *)
(*                                                                         *)
(*  - every step either leaves the rows alone or replaces one row by one   *)
(*    that is Allowed (RowStep), and what a worker once learnt about a     *)
(*    request or a row stays true (Grows);                                 *)
(*  - so a step of one worker keeps the parts of IInv that speak of the    *)
(*    others, and only the acting worker's own part needs a proof.         *)
(***************************************************************************)
EXTENDS LifecycleInvariant, TLAPS

(* What readers learnt stays true. *)
Grows ==
  /\ \A e \in Ext : submittedFor[e] # NoTx => submittedFor'[e] = submittedFor[e]
  /\ \A e \in Ext : verdict[e] \in {"approved", "rejected"} => verdict'[e] = verdict[e]
  /\ refused \subseteq refused'
  /\ aged \subseteq aged'
  /\ \A t \in Tx : row[t].ext # NoExt => row'[t].ext # NoExt

(* The part of IInv that speaks of rows. *)
RowInv ==
  /\ TrackedAtProvider
  /\ TimeoutIsJustified
  /\ \A t \in Tx : Justified(t, row[t].status)
  /\ \A t \in Tx : row[t].status = "RETRY_PENDING" => row[t].retries < MaxRetries

OutboxInv == \A o \in outbox : Justified(o.tx, o.status)

(* A row of t with status s, request id e and n retries keeps RowInv. *)
Allowed(t, s, e, n) ==
  /\ s \in {"ACCEPTED", "PROCESSING", "COMPLETED"} => e # NoExt
  /\ e # NoExt => submittedFor[e] = t
  /\ row[t].ext # NoExt => e # NoExt
  /\ s = "TIMEOUT" => t \in aged \/ n = MaxRetries
  /\ s = "RETRY_PENDING" => n < MaxRetries
  /\ Justified(t, s)

Rewrites(t, s, e, n) ==
  /\ row' \in [Tx -> Rows]
  /\ \A u \in Tx \ {t} : row'[u] = row[u]
  /\ row'[t].status = s /\ row'[t].ext = e /\ row'[t].retries = n

RowStep ==
  \/ UNCHANGED row
  \/ \E t \in Tx, s \in Statuses \cup {Absent}, e \in Ext \cup {NoExt}, n \in 0..MaxRetries :
       Rewrites(t, s, e, n) /\ Allowed(t, s, e, n)

-----------------------------------------------------------------------------
(* The statements on the table. *)

LEMMA PutRow ==
  ASSUME row \in [Tx -> Rows], quiet \subseteq Tx,
         NEW t \in Tx, NEW x \in Rows, Put(t, x)
  PROVE  /\ Rewrites(t, x.status, x.ext, x.retries)
         /\ quiet' \subseteq Tx
BY DEF Put, Rewrites

LEMMA PollingStatement ==
  ASSUME row \in [Tx -> Rows], quiet \subseteq Tx,
         NEW t \in Tx, NEW s \in Statuses, NEW n \in When, NEW c \in BOOLEAN,
         UpdatePollingStatus(t, s, n, c)
  PROVE  Rewrites(t, s, row[t].ext, row[t].retries) /\ quiet' \subseteq Tx
<1> DEFINE x == [row[t] EXCEPT !.status = s, !.nextPoll = n, !.completed = c]
<1>1. x \in Rows /\ x.status = s /\ x.ext = row[t].ext /\ x.retries = row[t].retries
  BY DEF Rows
<1>2. Put(t, x)
  BY DEF UpdatePollingStatus
<1> QED
  BY <1>1, <1>2, PutRow

LEMMA WebhookStatement ==
  ASSUME row \in [Tx -> Rows], quiet \subseteq Tx,
         NEW t \in Tx, NEW s \in Statuses, NEW c \in BOOLEAN,
         UpdateWebhookStatus(t, s, c)
  PROVE  Rewrites(t, s, row[t].ext, row[t].retries) /\ quiet' \subseteq Tx
<1> DEFINE x == [row[t] EXCEPT !.status = s, !.completed = c]
<1>1. x \in Rows /\ x.status = s /\ x.ext = row[t].ext /\ x.retries = row[t].retries
  BY DEF Rows
<1>2. Put(t, x)
  BY DEF UpdateWebhookStatus
<1> QED
  BY <1>1, <1>2, PutRow

LEMMA DetailsStatement ==
  ASSUME row \in [Tx -> Rows], quiet \subseteq Tx,
         NEW t \in Tx, NEW e \in Ext, NEW s \in Statuses,
         UpdateProviderDetails(t, e, s)
  PROVE  Rewrites(t, s, e, row[t].retries) /\ quiet' \subseteq Tx
<1> DEFINE x == [row[t] EXCEPT !.ext = e, !.status = s]
<1>1. x \in Rows /\ x.status = s /\ x.ext = e /\ x.retries = row[t].retries
  BY DEF Rows
<1>2. Put(t, x)
  BY DEF UpdateProviderDetails
<1> QED
  BY <1>1, <1>2, PutRow

LEMMA RetryStatement ==
  ASSUME row \in [Tx -> Rows], quiet \subseteq Tx,
         NEW t \in Tx, NEW s \in Statuses, NEW n \in 0..MaxRetries, NEW w \in When,
         MarkForRetry(t, s, n, w)
  PROVE  Rewrites(t, s, row[t].ext, n) /\ quiet' \subseteq Tx
<1> DEFINE x == [row[t] EXCEPT !.status = s, !.retries = n, !.nextRetry = w]
<1>1. x \in Rows /\ x.status = s /\ x.ext = row[t].ext /\ x.retries = n
  BY DEF Rows
<1>2. Put(t, x)
  BY DEF MarkForRetry
<1> QED
  BY <1>1, <1>2, PutRow

LEMMA StateStatement ==
  ASSUME TableTypeOK, NEW t \in Tx, NEW old \in Statuses, NEW new \in Statuses,
         UpdateStateAndAudit(t, old, new)
  PROVE  /\ Rewrites(t, new, row[t].ext, row[t].retries) /\ quiet' \subseteq Tx
         /\ audit' \subseteq AuditRows /\ outbox' \subseteq OutboxRows
         /\ outbox' = outbox \cup {[tx |-> t, type |-> "changed", status |-> new]}
<1> USE DEF TableTypeOK
<1> DEFINE x == [row[t] EXCEPT !.status = new]
<1>1. x \in Rows /\ x.status = new /\ x.ext = row[t].ext /\ x.retries = row[t].retries
  BY DEF Rows
<1>2. Put(t, x)
  BY DEF UpdateStateAndAudit
<1>3. Rewrites(t, new, row[t].ext, row[t].retries) /\ quiet' \subseteq Tx
  BY <1>1, <1>2, PutRow
<1>4. row[t].status \in Statuses \cup {Absent}
  BY DEF Rows
<1>5. audit' \subseteq AuditRows /\ outbox' \subseteq OutboxRows
  BY <1>4 DEF UpdateStateAndAudit, AuditRows, OutboxRows
<1> QED
  BY <1>3, <1>5 DEF UpdateStateAndAudit

(* A step that changes at most one row, and no request, and puts only       *)
(* Allowed rows, is a step every other part of IInv survives.               *)
LEMMA RowStepKeeps ==
  ASSUME TypeOK, RowInv, RowStep, UNCHANGED providerVars, aged \subseteq aged'
  PROVE  row' \in [Tx -> Rows] /\ RowInv' /\ Grows
<1> USE DEF TypeOK, TableTypeOK, providerVars
<1>1. CASE UNCHANGED row
  BY <1>1 DEF RowInv, TrackedAtProvider, TimeoutIsJustified, Justified, Approved,
              TurnedDown, Grows
<1>2. CASE \E t \in Tx, s \in Statuses \cup {Absent}, e \in Ext \cup {NoExt}, n \in 0..MaxRetries :
             Rewrites(t, s, e, n) /\ Allowed(t, s, e, n)
  <2> PICK t \in Tx, s \in Statuses \cup {Absent}, e \in Ext \cup {NoExt}, n \in 0..MaxRetries :
             Rewrites(t, s, e, n) /\ Allowed(t, s, e, n)
    BY <1>2
  <2>1. row' \in [Tx -> Rows] /\ \A u \in Tx \ {t} : row'[u] = row[u]
    BY DEF Rewrites
  <2>2. row'[t].status = s /\ row'[t].ext = e /\ row'[t].retries = n
    BY DEF Rewrites
  <2>3. TrackedAtProvider'
    BY <2>1, <2>2 DEF RowInv, TrackedAtProvider, Allowed
  <2>4. TimeoutIsJustified'
    BY <2>1, <2>2 DEF RowInv, TimeoutIsJustified, Allowed
  <2>5. (\A u \in Tx : Justified(u, row[u].status))'
    BY <2>1, <2>2 DEF RowInv, Justified, Approved, TurnedDown, Allowed
  <2>6. \A u \in Tx : row'[u].status = "RETRY_PENDING" => row'[u].retries < MaxRetries
    BY <2>1, <2>2 DEF RowInv, Allowed
  <2>7. Grows
    BY <2>1, <2>2 DEF Grows, Allowed
  <2> QED
    BY <2>1, <2>3, <2>4, <2>5, <2>6, <2>7 DEF RowInv
<1> QED
  BY <1>1, <1>2 DEF RowStep

(* What a worker holds stays right through the steps of the others. *)
LEMMA JustifiedGrows ==
  ASSUME TypeOK, Grows, NEW t \in Tx, NEW s, Justified(t, s)
  PROVE  Justified(t, s)'
BY IdAssumption DEF Grows, Justified, Approved, TurnedDown, TypeOK, ProviderTypeOK

LEMMA TrackedGrows ==
  ASSUME Grows, NEW e, NEW t \in Tx, Tracked(e, t)
  PROVE  Tracked(e, t)'
BY IdAssumption DEF Grows, Tracked

LEMMA WordFitsGrows ==
  ASSUME Grows, NEW e \in Ext, NEW w, WordFits(w, e)
  PROVE  WordFits(w, e)'
BY DEF Grows, WordFits

LEMMA PollKept ==
  ASSUME TypeOK, PollInv, Grows, UNCHANGED pollVars
  PROVE  PollInv'
<1>1. \A r \in PollRuns : \A x \in pollTodo[r] : x.tx \in Tx
  BY DEF TypeOK, PollTypeOK, PollItems
<1>2. \A r \in PollRuns : \A a \in pollAnswer[r] : a.tx \in Tx
  BY DEF TypeOK, PollTypeOK
<1>3. \A r \in PollRuns : \A x \in pollTodo[r] :
        x.ext # NoExt => Tracked(x.ext, x.tx)'
  BY <1>1, TrackedGrows DEF PollInv
<1>4. \A r \in PollRuns : \A a \in pollAnswer[r] :
        row'[a.tx].ext # NoExt /\ Justified(a.tx, a.status)'
  BY <1>2, JustifiedGrows DEF PollInv, Grows
<1> QED
  BY <1>3, <1>4 DEF PollInv, pollVars

LEMMA RetryKept ==
  ASSUME TypeOK, RetryWorkInv, Grows, UNCHANGED retryVars
  PROVE  RetryWorkInv'
<1>1. \A r \in RetryRuns : \A j \in retryJob[r] : j.tx \in Tx
  BY DEF TypeOK, RetryTypeOK, RetryJobs
<1> QED
  BY <1>1, IdAssumption DEF RetryWorkInv, Grows, retryVars

LEMMA HookKept ==
  ASSUME TypeOK, HookInv, Grows, UNCHANGED hookVars
  PROVE  HookInv'
<1>1. \A p \in posted : p.ext \in Ext
  BY DEF TypeOK, HookTypeOK, Posts
<1>2. \A h \in Hooks : \A j \in hookJob[h] : j.ext \in Ext /\ j.tx \in Tx \cup {NoTx}
  BY DEF TypeOK, HookTypeOK, HookJobs
<1>3. \A p \in posted : submittedFor'[p.ext] # NoTx /\ WordFits(p.word, p.ext)'
  BY <1>1, WordFitsGrows DEF HookInv, Grows
<1>4. \A h \in Hooks : \A j \in hookJob[h] :
        /\ submittedFor'[j.ext] # NoTx /\ WordFits(j.word, j.ext)'
        /\ j.tx # NoTx => Tracked(j.ext, j.tx)'
  BY <1>2, WordFitsGrows, TrackedGrows DEF HookInv, Grows
<1> QED
  BY <1>3, <1>4 DEF HookInv, hookVars

LEMMA HookOnceKept ==
  ASSUME HookOnceInv, UNCHANGED hookVars
  PROVE  HookOnceInv'
BY DEF HookOnceInv, WebhookAppliedOnce, hookVars

LEMMA ReconKept ==
  ASSUME TypeOK, ReconInv, Grows, UNCHANGED reconVars
  PROVE  ReconInv'
<1>1. \A r \in ReconRuns : \A x \in reconTodo[r] : x.tx \in Tx
  BY DEF TypeOK, ReconTypeOK, ReconItems
<1>2. \A r \in ReconRuns : \A j \in reconJob[r] : j.tx \in Tx
  BY DEF TypeOK, ReconTypeOK, ReconJobs
<1>3. \A r \in ReconRuns : \A x \in reconTodo[r] :
        x.ext # NoExt => Tracked(x.ext, x.tx)'
  BY <1>1, TrackedGrows DEF ReconInv
<1>4. \A r \in ReconRuns : \A j \in reconJob[r] :
        row'[j.tx].ext # NoExt /\ Justified(j.tx, HealTarget(j.external))'
  BY <1>2, JustifiedGrows DEF ReconInv, Grows
<1> QED
  BY <1>3, <1>4 DEF ReconInv, reconVars

LEMMA OutboxKept ==
  ASSUME TypeOK, OutboxInv, Grows, UNCHANGED outbox
  PROVE  OutboxInv'
<1>1. \A o \in outbox : o.tx \in Tx
  BY DEF TypeOK, TableTypeOK, OutboxRows
<1> QED
  BY <1>1, JustifiedGrows DEF OutboxInv

(* IInv, cut along the workers. *)
Parts ==
  /\ TypeOK
  /\ RequestsOwned /\ RowInv /\ OutboxInv
  /\ PollInv /\ RetryWorkInv /\ HookInv /\ HookOnceInv /\ ReconInv

LEMMA PartsOfIInv == IInv <=> Parts
BY DEF IInv, Parts, RowInv, OutboxInv, RetryInv, FinalIsJustified

-----------------------------------------------------------------------------
(* The poller. *)

LEMMA PollStep ==
  ASSUME Parts, NEW r \in PollRuns, PollRun(r)
  PROVE  /\ RowStep /\ quiet' \subseteq Tx /\ PollTypeOK' /\ PollInv'
         /\ UNCHANGED <<aged, audit, outbox, providerVars>>
<1> USE DEF Parts, TypeOK
<1>1. CASE PollFetch(r)
  <2> DEFINE Found == {[tx |-> t, ext |-> row[t].ext] : t \in FindEligibleForPolling}
  <2>1. pollTodo' = [pollTodo EXCEPT ![r] = Found] /\ UNCHANGED <<pollAnswer, tableVars, providerVars>>
    BY <1>1 DEF PollFetch
  <2>2. \A x \in Found : x \in PollItems /\ (x.ext # NoExt => Tracked(x.ext, x.tx))
    BY DEF FindEligibleForPolling, TableTypeOK, Rows, PollItems, Tracked, RowInv,
           TrackedAtProvider
  <2> HIDE DEF Found
  <2>3. PollTypeOK'
    BY <2>1, <2>2 DEF PollTypeOK
  <2>4. PollInv'
    BY <2>1, <2>2 DEF PollInv, PollTypeOK, Tracked, Justified, Approved, TurnedDown,
                      tableVars, providerVars
  <2> QED
    BY <2>1, <2>3, <2>4 DEF RowStep, tableVars, TableTypeOK
<1>2. ASSUME NEW x \in pollTodo[r], PollExpire(r, x)
      PROVE  /\ RowStep /\ quiet' \subseteq Tx /\ PollTypeOK' /\ PollInv'
             /\ UNCHANGED <<aged, audit, outbox, providerVars>>
  <2>1. x.tx \in Tx /\ x.tx \in aged
    BY <1>2 DEF PollTypeOK, PollItems, PollExpire
  <2>2. RowStep /\ quiet' \subseteq Tx
    <3>1. CASE UpdatePollingStatus(x.tx, "TIMEOUT", "null", FALSE)
      <4>1. /\ Rewrites(x.tx, "TIMEOUT", row[x.tx].ext, row[x.tx].retries)
            /\ quiet' \subseteq Tx
        BY <2>1, <3>1, PollingStatement DEF TableTypeOK, Statuses, When
      <4>2. Allowed(x.tx, "TIMEOUT", row[x.tx].ext, row[x.tx].retries)
        BY <2>1 DEF Allowed, RowInv, TrackedAtProvider, Justified
      <4> QED
        BY <2>1, <4>1, <4>2 DEF RowStep, TableTypeOK, Rows, Statuses
    <3>2. CASE DbError
      BY <3>2 DEF DbError, RowStep, TableTypeOK
    <3> QED
      BY <1>2, <3>1, <3>2 DEF PollExpire
  <2>3. Grows
    BY <1>2, <2>2, RowStepKeeps DEF PollExpire
  <2>4. /\ pollTodo' = [pollTodo EXCEPT ![r] = @ \ {x}]
        /\ UNCHANGED <<pollAnswer, aged, audit, outbox, providerVars>>
    BY <1>2 DEF PollExpire, PollTake
  <2>5. PollTypeOK'
    BY <2>4 DEF PollTypeOK
  <2>6. PollInv'
    <3>1. \A q \in PollRuns : \A y \in pollTodo'[q] :
            /\ y \in pollTodo[q] /\ y.tx \in Tx
            /\ y.ext # NoExt => Tracked(y.ext, y.tx)
      BY <2>4 DEF PollTypeOK, PollItems, PollInv
    <3>2. \A q \in PollRuns : \A a \in pollAnswer'[q] :
            a \in pollAnswer[q] /\ a.tx \in Tx /\ row[a.tx].ext # NoExt /\ Justified(a.tx, a.status)
      BY <2>4 DEF PollTypeOK, PollInv
    <3>3. \A q \in PollRuns : \A a \in pollAnswer'[q] :
            row'[a.tx].ext # NoExt /\ Justified(a.tx, a.status)'
      BY <2>3, <3>2, JustifiedGrows DEF Grows
    <3> QED
      BY <2>3, <3>1, <3>3, TrackedGrows DEF PollInv
  <2> QED
    BY <2>2, <2>4, <2>5, <2>6
<1>3. ASSUME NEW x \in pollTodo[r], PollSkip(r, x) \/ PollAsk(r, x)
      PROVE  /\ RowStep /\ quiet' \subseteq Tx /\ PollTypeOK' /\ PollInv'
             /\ UNCHANGED <<aged, audit, outbox, providerVars>>
  <2>1. /\ pollTodo' = [pollTodo EXCEPT ![r] = @ \ {x}]
        /\ UNCHANGED <<tableVars, providerVars>>
    BY <1>3 DEF PollSkip, PollAsk, PollTake
  <2>2. CASE PollSkip(r, x)
    BY <2>1, <2>2 DEF PollSkip, PollTypeOK, PollInv, Tracked, Justified, Approved, TurnedDown,
                      RowStep, tableVars, providerVars, TableTypeOK
  <2>3. CASE PollAsk(r, x)
    <3>1. x.ext # NoExt /\ x.tx \in Tx /\ Tracked(x.ext, x.tx)
      BY <2>3 DEF PollAsk, PollTypeOK, PollItems, PollInv
    <3>2. PICK w \in Answers(x.ext) :
            pollAnswer' = [pollAnswer EXCEPT ![r] =
                             {[tx |-> x.tx, status |-> MapProviderStatus(w)]}]
      BY <2>3 DEF PollAsk
    <3>3. WordFits(w, x.ext)
      BY VocabularyAssumption DEF Answers, WordFits
    <3>4. /\ MapProviderStatus(w) \in {"PROCESSING", "COMPLETED", "FAILED"}
          /\ Justified(x.tx, MapProviderStatus(w))
      BY <3>1, <3>3 DEF MapProviderStatus, WordFits, Justified, Approved, TurnedDown, Tracked,
                        SuccessWords, FailureWords
    <3>5. PollTypeOK'
      BY <2>1, <3>1, <3>2, <3>4 DEF PollTypeOK
    <3>6. PollInv'
      BY <2>1, <3>1, <3>2, <3>4 DEF PollTypeOK, PollInv, Tracked, Justified, Approved,
                                    TurnedDown, tableVars, providerVars
    <3> QED
      BY <2>1, <3>5, <3>6 DEF RowStep, tableVars, TableTypeOK
  <2> QED
    BY <1>3, <2>2, <2>3
<1>4. CASE PollWrite(r)
  <2>1. PICK a \in pollAnswer[r] :
          \/ /\ a.status = "PROCESSING"
             /\ UpdatePollingStatus(a.tx, a.status, "later", FALSE)
          \/ /\ a.status # "PROCESSING"
             /\ UpdatePollingStatus(a.tx, a.status, "null", TRUE)
          \/ DbError
    BY <1>4 DEF PollWrite
  <2>2. /\ pollAnswer' = [pollAnswer EXCEPT ![r] = {}]
        /\ UNCHANGED <<pollTodo, aged, audit, outbox, providerVars>>
    BY <1>4 DEF PollWrite
  <2>3. /\ a.tx \in Tx /\ a.status \in {"PROCESSING", "COMPLETED", "FAILED"}
        /\ row[a.tx].ext # NoExt /\ Justified(a.tx, a.status)
    BY DEF PollTypeOK, PollInv
  <2>4. RowStep /\ quiet' \subseteq Tx
    <3>1. CASE DbError
      BY <3>1 DEF DbError, RowStep, TableTypeOK
    <3>2. CASE \E n \in When, c \in BOOLEAN : UpdatePollingStatus(a.tx, a.status, n, c)
      <4>1. /\ Rewrites(a.tx, a.status, row[a.tx].ext, row[a.tx].retries)
            /\ quiet' \subseteq Tx
        BY <2>3, <3>2, PollingStatement DEF TableTypeOK, Statuses
      <4>2. Allowed(a.tx, a.status, row[a.tx].ext, row[a.tx].retries)
        BY <2>3 DEF Allowed, RowInv, TrackedAtProvider
      <4> QED
        BY <2>3, <4>1, <4>2 DEF RowStep, TableTypeOK, Rows, Statuses
    <3> QED
      BY <2>1, <3>1, <3>2 DEF When
  <2>5. Grows
    BY <2>2, <2>4, RowStepKeeps
  <2>6. PollTypeOK'
    BY <2>2 DEF PollTypeOK
  <2>7. PollInv'
    <3>1. \A q \in PollRuns : \A y \in pollTodo'[q] :
            y.tx \in Tx /\ (y.ext # NoExt => Tracked(y.ext, y.tx))
      BY <2>2 DEF PollTypeOK, PollItems, PollInv
    <3>2. \A q \in PollRuns : \A b \in pollAnswer'[q] :
            b.tx \in Tx /\ row[b.tx].ext # NoExt /\ Justified(b.tx, b.status)
      BY <2>2 DEF PollTypeOK, PollInv
    <3>3. \A q \in PollRuns : \A b \in pollAnswer'[q] :
            row'[b.tx].ext # NoExt /\ Justified(b.tx, b.status)'
      BY <2>5, <3>2, JustifiedGrows DEF Grows
    <3> QED
      BY <2>5, <3>1, <3>3, TrackedGrows DEF PollInv
  <2> QED
    BY <2>2, <2>4, <2>6, <2>7
<1> QED
  BY <1>1, <1>2, <1>3, <1>4 DEF PollRun

-----------------------------------------------------------------------------
(* The provider: a request is registered, refused or decided. *)

LEMMA ProviderStep ==
  ASSUME Parts, UNCHANGED tableVars,
         \/ \E e \in Ext, t \in Tx : Register(e, t)
         \/ \E t \in Tx : Refuse(t)
         \/ \E e \in Ext : Decide(e)
  PROVE  ProviderTypeOK' /\ RequestsOwned' /\ RowInv' /\ Grows
<1> USE IdAssumption DEF Parts, TypeOK, ProviderTypeOK, Verdicts, RequestsOwned
<1>1. ASSUME NEW e \in Ext, NEW t \in Tx, Register(e, t)
      PROVE  ProviderTypeOK' /\ RequestsOwned' /\ Grows
  <2>1. submittedFor[e] = NoTx
    BY <1>1 DEF Register
  <2>2. \A x \in Ext : /\ verdict'[x] = IF x = e THEN "pending" ELSE verdict[x]
                       /\ submittedFor'[x] = IF x = e THEN t ELSE submittedFor[x]
    BY <1>1 DEF Register
  <2>3. ProviderTypeOK'
    BY <1>1, <2>2 DEF Register
  <2>4. RequestsOwned'
    BY <2>1, <2>2
  <2>5. Grows
    BY <1>1, <2>1, <2>2 DEF Register, Grows, tableVars
  <2> QED
    BY <2>3, <2>4, <2>5
<1>2. ASSUME NEW t \in Tx, Refuse(t)
      PROVE  ProviderTypeOK' /\ RequestsOwned' /\ Grows
  BY <1>2 DEF Refuse, Grows, tableVars
<1>3. ASSUME NEW e \in Ext, Decide(e)
      PROVE  ProviderTypeOK' /\ RequestsOwned' /\ Grows
  <2>1. PICK v \in {"approved", "rejected"} : verdict' = [verdict EXCEPT ![e] = v]
    BY <1>3 DEF Decide
  <2>2. verdict[e] = "pending" /\ UNCHANGED <<submittedFor, refused>>
    BY <1>3 DEF Decide
  <2>3. ProviderTypeOK' /\ RequestsOwned'
    BY <2>1, <2>2
  <2>4. Grows
    BY <2>1, <2>2 DEF Grows, tableVars
  <2> QED
    BY <2>3, <2>4
<1>4. ProviderTypeOK' /\ RequestsOwned' /\ Grows
  BY <1>1, <1>2, <1>3
<1>5. \A t \in Tx : Justified(t, row[t].status)'
  <2> TAKE t \in Tx
  <2>1. PICK s : s = row[t].status
    OBVIOUS
  <2>2. Justified(t, s)'
    BY <1>4, <2>1, JustifiedGrows DEF RowInv
  <2>3. row'[t].status = s
    BY <2>1 DEF tableVars
  <2> QED
    BY <2>2, <2>3
<1>6. TrackedAtProvider'
  BY <1>4 DEF RowInv, TrackedAtProvider, Grows, TableTypeOK, Rows, tableVars
<1>7. TimeoutIsJustified'
  BY DEF RowInv, TimeoutIsJustified, tableVars
<1>8. (\A t \in Tx : row[t].status = "RETRY_PENDING" => row[t].retries < MaxRetries)'
  BY DEF RowInv, tableVars
<1> QED
  BY <1>4, <1>5, <1>6, <1>7, <1>8 DEF RowInv

-----------------------------------------------------------------------------
(* The retry scheduler.  All its steps but the submission leave the         *)
(* provider alone.                                                          *)

LEMMA RetryRowStep ==
  ASSUME Parts, NEW r \in RetryRuns, RetryRun(r), ~RetrySubmit(r)
  PROVE  /\ RowStep /\ quiet' \subseteq Tx /\ RetryTypeOK' /\ RetryWorkInv'
         /\ UNCHANGED <<aged, audit, outbox, providerVars>>
<1> USE RetryAssumption DEF Parts, TypeOK
<1>1. CASE RetryFetch(r)
  <2> DEFINE Found == {[tx |-> t, retries |-> row[t].retries] : t \in FindPendingRetries}
  <2>1. /\ retryTodo' = [retryTodo EXCEPT ![r] = Found]
        /\ UNCHANGED <<retryJob, retryAudit, submits, tableVars, providerVars>>
    BY <1>1 DEF RetryFetch
  <2>2. \A x \in Found : x \in RetryItems /\ x.retries < MaxRetries
    BY DEF FindPendingRetries, TableTypeOK, Rows, RetryItems, RowInv
  <2> HIDE DEF Found
  <2>3. RetryTypeOK'
    BY <2>1, <2>2 DEF RetryTypeOK
  <2>4. RetryWorkInv'
    BY <2>1, <2>2 DEF RetryWorkInv, RetryTypeOK, providerVars
  <2> QED
    BY <2>1, <2>3, <2>4 DEF RowStep, tableVars, TableTypeOK
<1>2. ASSUME NEW x \in retryTodo[r], RetryMark(r, x)
      PROVE  /\ RowStep /\ quiet' \subseteq Tx /\ RetryTypeOK' /\ RetryWorkInv'
             /\ UNCHANGED <<aged, audit, outbox, providerVars>>
  <2>1. x.tx \in Tx /\ x.retries \in 0..MaxRetries /\ x.retries < MaxRetries
    BY DEF RetryTypeOK, RetryItems, RetryWorkInv
  <2>2. RowStep /\ quiet' \subseteq Tx
    <3>1. CASE MarkForRetry(x.tx, "RETRYING", x.retries, "null")
      <4>1. Rewrites(x.tx, "RETRYING", row[x.tx].ext, x.retries) /\ quiet' \subseteq Tx
        BY <2>1, <3>1, RetryStatement DEF TableTypeOK, Statuses, When
      <4>2. Allowed(x.tx, "RETRYING", row[x.tx].ext, x.retries)
        BY <2>1 DEF Allowed, RowInv, TrackedAtProvider, Justified
      <4> QED
        BY <2>1, <4>1, <4>2 DEF RowStep, TableTypeOK, Rows, Statuses
    <3>2. CASE DbError
      BY <3>2 DEF DbError, RowStep, TableTypeOK
    <3> QED
      BY <1>2, <3>1, <3>2 DEF RetryMark
  <2> DEFINE job == [tx |-> x.tx, attempt |-> x.retries + 1, stage |-> "submit",
                     result |-> "none", ext |-> NoExt]
  <2>3. /\ retryTodo' = [retryTodo EXCEPT ![r] = @ \ {x}]
        /\ retryJob' = [retryJob EXCEPT ![r] = {job}]
        /\ UNCHANGED <<retryAudit, submits, aged, audit, outbox, providerVars>>
    BY <1>2 DEF RetryMark
  <2>4. job \in RetryJobs /\ job.attempt \in 1..MaxRetries /\ job.stage = "submit"
    BY <2>1 DEF RetryJobs
  <2> HIDE DEF job
  <2>5. RetryTypeOK'
    BY <2>3, <2>4 DEF RetryTypeOK
  <2>6. RetryWorkInv'
    BY <2>3, <2>4 DEF RetryTypeOK, RetryWorkInv, providerVars
  <2> QED
    BY <2>2, <2>3, <2>5, <2>6
<1>3. CASE RetryRecord(r)
  <2>1. PICK j \in retryJob[r] :
          /\ j.stage = "record"
          /\ StoreResult(j) \/ DbError
          /\ retryJob' = [retryJob EXCEPT ![r] = {[j EXCEPT !.stage = "audit"]}]
          /\ UNCHANGED <<retryTodo, retryAudit, submits, aged, audit, outbox, providerVars>>
    BY <1>3 DEF RetryRecord
  <2>2. /\ j \in RetryJobs /\ j.tx \in Tx /\ j.attempt \in 1..MaxRetries
        /\ j.result = "SUCCESS" => j.ext \in Ext /\ submittedFor[j.ext] = j.tx
        /\ j.result = "FAILED" => j.tx \in refused
        /\ j.result = "TIMEOUT" => j.attempt = MaxRetries
        /\ j.result = "TECHNICAL_FAILURE" => j.attempt < MaxRetries
    BY <2>1 DEF RetryTypeOK, RetryJobs, RetryWorkInv
  <2>3. RowStep /\ quiet' \subseteq Tx
    <3>1. CASE j.result = "SUCCESS" /\ UpdateProviderDetails(j.tx, j.ext, "ACCEPTED")
      <4>1. Rewrites(j.tx, "ACCEPTED", j.ext, row[j.tx].retries) /\ quiet' \subseteq Tx
        BY <2>2, <3>1, DetailsStatement DEF TableTypeOK, Statuses
      <4>2. Allowed(j.tx, "ACCEPTED", j.ext, row[j.tx].retries)
        BY <2>2, <3>1, IdAssumption DEF Allowed, Justified
      <4> QED
        BY <2>2, <3>1, <4>1, <4>2 DEF RowStep, TableTypeOK, Rows, Statuses
    <3>2. ASSUME NEW s \in {"FAILED", "TIMEOUT", "RETRY_PENDING"}, NEW n \in When,
                 MarkForRetry(j.tx, s, j.attempt, n),
                 s = "FAILED" => j.tx \in refused,
                 s = "TIMEOUT" => j.attempt = MaxRetries,
                 s = "RETRY_PENDING" => j.attempt < MaxRetries
          PROVE  RowStep /\ quiet' \subseteq Tx
      <4>1. j.attempt \in 0..MaxRetries /\ s \in Statuses
        BY <2>2 DEF Statuses
      <4>2. Rewrites(j.tx, s, row[j.tx].ext, j.attempt) /\ quiet' \subseteq Tx
        BY <2>2, <3>2, <4>1, RetryStatement DEF TableTypeOK
      <4>3. Allowed(j.tx, s, row[j.tx].ext, j.attempt)
        BY <2>2, <3>2 DEF Allowed, RowInv, TrackedAtProvider, Justified, TurnedDown
      <4> QED
        BY <2>2, <4>1, <4>2, <4>3 DEF RowStep, TableTypeOK, Rows
    <3>3. CASE DbError
      BY <3>3 DEF DbError, RowStep, TableTypeOK
    <3> QED
      BY <2>1, <2>2, <3>1, <3>2, <3>3 DEF StoreResult, When
  <2> DEFINE job == [j EXCEPT !.stage = "audit"]
  <2>4. job \in RetryJobs /\ job.attempt \in 1..MaxRetries /\ job.stage = "audit"
    BY <2>2 DEF RetryJobs
  <2>5. retryJob' = [retryJob EXCEPT ![r] = {job}]
    BY <2>1
  <2> HIDE DEF job
  <2>6. RetryTypeOK'
    BY <2>1, <2>4, <2>5 DEF RetryTypeOK
  <2>7. RetryWorkInv'
    <3>1. /\ job.result = j.result /\ job.tx = j.tx /\ job.ext = j.ext
          /\ job.attempt = j.attempt
      BY <2>2 DEF job, RetryJobs
    <3>2. j.result \in Results
      BY <2>1 DEF RetryWorkInv
    <3> QED
      BY <2>1, <2>2, <2>5, <3>1, <3>2 DEF RetryTypeOK, RetryWorkInv, providerVars
  <2> QED
    BY <2>1, <2>3, <2>6, <2>7
<1>4. CASE SaveRetryAudit(r)
  <2>1. PICK j \in retryJob[r] :
          /\ j.stage = "audit"
          /\ \/ retryAudit' = retryAudit
                                \cup {[tx |-> j.tx, attempt |-> j.attempt, result |-> j.result]}
             \/ UNCHANGED retryAudit
          /\ retryJob' = [retryJob EXCEPT ![r] = {}]
          /\ UNCHANGED <<retryTodo, submits, tableVars, providerVars>>
    BY <1>4 DEF SaveRetryAudit
  <2>2. j.tx \in Tx /\ j.attempt \in Nat /\ j.result \in Results
    BY <2>1 DEF RetryTypeOK, RetryJobs, RetryWorkInv
  <2>3. RetryTypeOK'
    BY <2>1, <2>2 DEF RetryTypeOK
  <2>4. RetryWorkInv'
    BY <2>1 DEF RetryTypeOK, RetryWorkInv, providerVars
  <2> QED
    BY <2>1, <2>3, <2>4 DEF RowStep, tableVars, TableTypeOK
<1> QED
  BY <1>1, <1>2, <1>3, <1>4 DEF RetryRun

LEMMA RetrySubmitStep ==
  ASSUME Parts, NEW r \in RetryRuns, RetrySubmit(r)
  PROVE  /\ ProviderTypeOK' /\ RequestsOwned' /\ RowInv' /\ Grows
         /\ RetryTypeOK' /\ RetryWorkInv' /\ UNCHANGED tableVars
<1> USE RetryAssumption DEF Parts, TypeOK
<1>1. PICK j \in retryJob[r] :
        /\ j.stage = "submit"
        /\ submits' = [submits EXCEPT ![j.tx] = IF @ > MaxRetries THEN @ ELSE @ + 1]
        /\ \/ \E e \in Ext : Register(e, j.tx) /\ Submitted(r, j, "SUCCESS", e)
           \/ /\ \E e \in Ext : Register(e, j.tx)
              /\ Submitted(r, j, TechnicalResult(j.attempt), NoExt)
           \/ /\ Submitted(r, j, TechnicalResult(j.attempt), NoExt)
              /\ UNCHANGED providerVars
           \/ Refuse(j.tx) /\ Submitted(r, j, "FAILED", NoExt)
        /\ UNCHANGED <<retryTodo, retryAudit, tableVars>>
  BY DEF RetrySubmit
<1>2. j \in RetryJobs /\ j.tx \in Tx /\ j.attempt \in 1..MaxRetries
  BY <1>1 DEF RetryTypeOK, RetryJobs, RetryWorkInv
<1>3. ProviderTypeOK' /\ RequestsOwned' /\ RowInv' /\ Grows
  <2>1. CASE UNCHANGED providerVars
    <3>1. ProviderTypeOK' /\ RequestsOwned'
      BY <2>1 DEF ProviderTypeOK, RequestsOwned, providerVars
    <3> QED
      BY <1>1, <2>1, <3>1, RowStepKeeps DEF RowStep, tableVars
  <2>2. CASE \/ \E e \in Ext : Register(e, j.tx)
             \/ Refuse(j.tx)
    BY <1>1, <1>2, <2>2, ProviderStep
  <2> QED
    BY <1>1, <2>1, <2>2
<1>4. PICK result \in Results, e \in Ext \cup {NoExt} :
        /\ Submitted(r, j, result, e)
        /\ result = "SUCCESS" => e \in Ext /\ submittedFor'[e] = j.tx
        /\ result = "FAILED" => j.tx \in refused'
        /\ result = "TIMEOUT" => j.attempt = MaxRetries
        /\ result = "TECHNICAL_FAILURE" => j.attempt < MaxRetries
  <2>1. CASE \E e \in Ext : Register(e, j.tx) /\ Submitted(r, j, "SUCCESS", e)
    BY <1>2, <2>1 DEF Register, Results, ProviderTypeOK
  <2>2. CASE Submitted(r, j, TechnicalResult(j.attempt), NoExt)
    BY <1>2, <2>2 DEF TechnicalResult, Results
  <2>3. CASE Refuse(j.tx) /\ Submitted(r, j, "FAILED", NoExt)
    BY <1>2, <2>3 DEF Refuse, Results
  <2> QED
    BY <1>1, <2>1, <2>2, <2>3
<1> DEFINE job == [j EXCEPT !.stage = "record", !.result = result, !.ext = e]
<1>5. /\ job \in RetryJobs /\ job.tx = j.tx /\ job.attempt = j.attempt
      /\ job.stage = "record" /\ job.result = result /\ job.ext = e
  BY <1>2 DEF RetryJobs
<1>6. retryJob' = [retryJob EXCEPT ![r] = {job}] /\ UNCHANGED <<retryTodo, retryAudit>>
  BY <1>1, <1>4 DEF Submitted
<1> HIDE DEF job
<1>7. RetryTypeOK'
  <2>1. submits' \in [Tx -> 0..MaxRetries + 1]
    BY <1>1, <1>2 DEF RetryTypeOK
  <2> QED
    BY <1>5, <1>6, <2>1 DEF RetryTypeOK
<1>8. RetryWorkInv'
  <2>1. \A q \in RetryRuns : \A k \in retryJob[q] : k.tx \in Tx
    BY DEF RetryTypeOK, RetryJobs
  <2>2. \A q \in RetryRuns : \A k \in retryJob[q] :
          /\ k.attempt \in 1..MaxRetries
          /\ k.stage # "submit" =>
               /\ k.result \in Results
               /\ k.result = "SUCCESS" => k.ext \in Ext /\ submittedFor'[k.ext] = k.tx
               /\ k.result = "FAILED" => k.tx \in refused'
               /\ k.result = "TIMEOUT" => k.attempt = MaxRetries
               /\ k.result = "TECHNICAL_FAILURE" => k.attempt < MaxRetries
    BY <1>3, <2>1, IdAssumption DEF RetryWorkInv, Grows
  <2>3. \A q \in RetryRuns : \A k \in retryJob'[q] : k \in retryJob[q] \/ k = job
    BY <1>6 DEF RetryTypeOK
  <2> QED
    BY <1>2, <1>4, <1>5, <1>6, <2>2, <2>3 DEF RetryWorkInv
<1> QED
  BY <1>1, <1>3, <1>7, <1>8

-----------------------------------------------------------------------------
(* The webhook handler. *)

LEMMA HookStep ==
  ASSUME Parts, NEW h \in Hooks, HookRun(h)
  PROVE  /\ RowStep /\ quiet' \subseteq Tx /\ HookTypeOK' /\ HookInv' /\ HookOnceInv'
         /\ UNCHANGED <<aged, audit, outbox, providerVars>>
<1> USE DEF Parts, TypeOK
<1>1. ASSUME NEW p \in posted, HookReceive(h, p)
      PROVE  /\ RowStep /\ quiet' \subseteq Tx /\ HookTypeOK' /\ HookInv' /\ HookOnceInv'
             /\ UNCHANGED <<aged, audit, outbox, providerVars>>
  <2> DEFINE job == [event |-> p.event, ext |-> p.ext, word |-> p.word, tx |-> NoTx]
  <2>1. /\ hookJob[h] = {} /\ p.event \notin webhookAudit
        /\ webhookAudit' = webhookAudit \cup {p.event}
        /\ hookJob' = [hookJob EXCEPT ![h] = {job}]
        /\ UNCHANGED <<posted, applied, tableVars, providerVars>>
    BY <1>1 DEF HookReceive
  <2>2. /\ job \in HookJobs /\ p.event \in Events
        /\ job.event = p.event /\ job.ext = p.ext /\ job.word = p.word /\ job.tx = NoTx
    BY DEF HookTypeOK, Posts, HookJobs
  <2> HIDE DEF job
  <2>3. HookTypeOK'
    BY <2>1, <2>2 DEF HookTypeOK
  <2>4. HookInv'
    BY <2>1, <2>2 DEF HookInv, HookTypeOK, WordFits, Tracked, tableVars, providerVars
  <2>5. HookOnceInv'
    BY <2>1, <2>2 DEF HookOnceInv, WebhookAppliedOnce, HookTypeOK
  <2> QED
    BY <2>1, <2>3, <2>4, <2>5 DEF RowStep, tableVars, TableTypeOK
<1>2. ASSUME NEW t \in Tx, HookFind(h, t)
      PROVE  /\ RowStep /\ quiet' \subseteq Tx /\ HookTypeOK' /\ HookInv' /\ HookOnceInv'
             /\ UNCHANGED <<aged, audit, outbox, providerVars>>
  <2>1. PICK j \in hookJob[h] :
          /\ row[t].ext = j.ext
          /\ hookJob' = [hookJob EXCEPT ![h] = {[j EXCEPT !.tx = t]}]
          /\ UNCHANGED <<posted, webhookAudit, applied, tableVars, providerVars>>
    BY <1>2 DEF HookFind
  <2> DEFINE job == [j EXCEPT !.tx = t]
  <2>2. /\ job \in HookJobs /\ j.ext \in Ext
        /\ job.event = j.event /\ job.ext = j.ext /\ job.word = j.word /\ job.tx = t
    BY DEF HookTypeOK, HookJobs
  <2>3. hookJob' = [hookJob EXCEPT ![h] = {job}]
    BY <2>1
  <2> HIDE DEF job
  <2>4. Tracked(j.ext, t)
    BY <2>1, <2>2, IdAssumption DEF Tracked, RowInv, TrackedAtProvider
  <2>5. HookTypeOK'
    BY <2>1, <2>2, <2>3 DEF HookTypeOK
  <2>6. HookInv'
    BY <2>1, <2>2, <2>3, <2>4 DEF HookInv, HookTypeOK, WordFits, Tracked, tableVars, providerVars
  <2>7. HookOnceInv'
    BY <2>1, <2>2, <2>3 DEF HookOnceInv, WebhookAppliedOnce, HookTypeOK
  <2> QED
    BY <2>1, <2>5, <2>6, <2>7 DEF RowStep, tableVars, TableTypeOK
<1>3. CASE HookDismiss(h)
  <2>1. /\ hookJob' = [hookJob EXCEPT ![h] = {}]
        /\ UNCHANGED <<posted, webhookAudit, applied, tableVars, providerVars>>
    BY <1>3 DEF HookDismiss
  <2>2. HookTypeOK'
    BY <2>1 DEF HookTypeOK
  <2>3. HookInv'
    BY <2>1 DEF HookInv, HookTypeOK, WordFits, Tracked, tableVars, providerVars
  <2>4. HookOnceInv'
    BY <2>1 DEF HookOnceInv, WebhookAppliedOnce, HookTypeOK
  <2> QED
    BY <2>1, <2>2, <2>3, <2>4 DEF RowStep, tableVars, TableTypeOK
<1>4. CASE HookWrite(h)
  <2>1. PICK j \in hookJob[h] :
          LET s == MapProviderStatus(j.word) IN
          /\ j.tx # NoTx
          /\ \/ /\ UpdateWebhookStatus(j.tx, s, s \in {"COMPLETED", "FAILED"})
                /\ applied' = applied \cup {j.event}
             \/ DbError /\ UNCHANGED applied
          /\ hookJob' = [hookJob EXCEPT ![h] = {}]
          /\ UNCHANGED <<posted, webhookAudit, aged, audit, outbox, providerVars>>
    BY <1>4 DEF HookWrite
  <2> DEFINE s == MapProviderStatus(j.word)
  <2>2. /\ j.tx \in Tx /\ j.ext \in Ext /\ j.event \in Events
        /\ Tracked(j.ext, j.tx) /\ WordFits(j.word, j.ext)
    BY <2>1 DEF HookTypeOK, HookJobs, HookInv
  <2>3. s \in Statuses /\ Justified(j.tx, s) /\ s \in {"PROCESSING", "COMPLETED", "FAILED"}
    BY <2>2 DEF MapProviderStatus, Justified, Approved, TurnedDown, Tracked, WordFits,
                SuccessWords, FailureWords, Statuses
  <2>4. RowStep /\ quiet' \subseteq Tx
    <3> HIDE DEF s
    <3>1. CASE UpdateWebhookStatus(j.tx, s, s \in {"COMPLETED", "FAILED"})
      <4> DEFINE c == s \in {"COMPLETED", "FAILED"}
      <4>1. c \in BOOLEAN /\ UpdateWebhookStatus(j.tx, s, c)
        BY <3>1
      <4> HIDE DEF c
      <4>2. Rewrites(j.tx, s, row[j.tx].ext, row[j.tx].retries) /\ quiet' \subseteq Tx
        BY <2>2, <2>3, <4>1, WebhookStatement DEF TableTypeOK
      <4>3. Allowed(j.tx, s, row[j.tx].ext, row[j.tx].retries)
        BY <2>2, <2>3 DEF Allowed, RowInv, TrackedAtProvider, Tracked
      <4> QED
        BY <2>2, <2>3, <4>2, <4>3 DEF RowStep, TableTypeOK, Rows
    <3>2. CASE DbError
      BY <3>2 DEF DbError, RowStep, TableTypeOK
    <3> QED
      BY <2>1, <3>1, <3>2 DEF s
  <2>5. Grows
    BY <2>1, <2>4, RowStepKeeps
  <2>6. /\ hookJob' = [hookJob EXCEPT ![h] = {}]
        /\ applied' \subseteq applied \cup {j.event}
        /\ UNCHANGED <<posted, webhookAudit>>
    BY <2>1
  <2>7. HookTypeOK'
    BY <2>2, <2>6 DEF HookTypeOK
  <2>8. HookInv'
    <3>1. \A p \in posted' : submittedFor'[p.ext] # NoTx /\ WordFits(p.word, p.ext)'
      BY <2>1, <2>6 DEF HookInv, WordFits, providerVars
    <3>2. \A g \in Hooks : \A k \in hookJob'[g] : k \in hookJob[g]
      BY <2>6 DEF HookTypeOK
    <3>3. \A g \in Hooks : \A k \in hookJob'[g] :
            /\ k.ext \in Ext /\ k.tx \in Tx \cup {NoTx}
            /\ submittedFor[k.ext] # NoTx /\ WordFits(k.word, k.ext)
            /\ k.tx # NoTx => Tracked(k.ext, k.tx)
      BY <3>2 DEF HookInv, HookTypeOK, HookJobs
    <3>4. \A g \in Hooks : \A k \in hookJob'[g] :
            /\ submittedFor'[k.ext] # NoTx /\ WordFits(k.word, k.ext)'
            /\ k.tx # NoTx => Tracked(k.ext, k.tx)'
      BY <2>5, <3>3, WordFitsGrows, TrackedGrows DEF Grows
    <3> QED
      BY <3>1, <3>4 DEF HookInv
  <2>9. HookOnceInv'
    BY <2>6 DEF HookOnceInv, WebhookAppliedOnce, HookTypeOK
  <2> QED
    BY <2>1, <2>4, <2>7, <2>8, <2>9
<1> QED
  BY <1>1, <1>2, <1>3, <1>4 DEF HookRun

-----------------------------------------------------------------------------
(* Reconciliation. *)

LEMMA ReconStep ==
  ASSUME Parts, NEW r \in ReconRuns, ReconRun(r)
  PROVE  /\ RowStep /\ quiet' \subseteq Tx /\ ReconTypeOK' /\ ReconInv'
         /\ audit' \subseteq AuditRows /\ outbox' \subseteq OutboxRows /\ OutboxInv'
         /\ UNCHANGED <<aged, providerVars>>
<1> USE DEF Parts, TypeOK
<1>1. ASSUME UNCHANGED <<tableVars, providerVars>>,
             reconTodo' \in [ReconRuns -> SUBSET ReconItems],
             reconJob' \in [ReconRuns -> SUBSET ReconJobs],
             reconResults' \subseteq ReconRows, reconExceptions' \subseteq Tx,
             \A q \in ReconRuns : \A x \in reconTodo'[q] :
               x.ext # NoExt => Tracked(x.ext, x.tx),
             \A q \in ReconRuns : \A j \in reconJob'[q] :
               row[j.tx].ext # NoExt /\ Justified(j.tx, HealTarget(j.external))
      PROVE  /\ RowStep /\ quiet' \subseteq Tx /\ ReconTypeOK' /\ ReconInv'
             /\ audit' \subseteq AuditRows /\ outbox' \subseteq OutboxRows /\ OutboxInv'
             /\ UNCHANGED <<aged, providerVars>>
  BY <1>1 DEF RowStep, TableTypeOK, ReconTypeOK, ReconInv, OutboxInv, Tracked, Justified,
              Approved, TurnedDown, tableVars, providerVars
<1>2. CASE ReconFetch(r)
  <2> DEFINE Found == {[tx |-> t, ext |-> row[t].ext, status |-> row[t].status] :
                         t \in FindStuckTransactions}
  <2>1. /\ reconTodo' = [reconTodo EXCEPT ![r] = Found]
        /\ UNCHANGED <<reconJob, reconResults, reconExceptions, tableVars, providerVars>>
    BY <1>2 DEF ReconFetch
  <2>2. \A x \in Found : x \in ReconItems /\ (x.ext # NoExt => Tracked(x.ext, x.tx))
    BY DEF FindStuckTransactions, TableTypeOK, Rows, Statuses, ReconItems, Tracked, RowInv,
           TrackedAtProvider
  <2> HIDE DEF Found
  <2>3. /\ reconTodo' \in [ReconRuns -> SUBSET ReconItems]
        /\ \A q \in ReconRuns : \A x \in reconTodo'[q] : x.ext # NoExt => Tracked(x.ext, x.tx)
    BY <2>1, <2>2 DEF ReconTypeOK, ReconInv
  <2>4. /\ reconJob' \in [ReconRuns -> SUBSET ReconJobs]
        /\ reconResults' \subseteq ReconRows /\ reconExceptions' \subseteq Tx
        /\ \A q \in ReconRuns : \A j \in reconJob'[q] :
             row[j.tx].ext # NoExt /\ Justified(j.tx, HealTarget(j.external))
    BY <2>1 DEF ReconTypeOK, ReconInv
  <2> QED
    BY <1>1, <2>1, <2>3, <2>4
<1>3. ASSUME NEW x \in reconTodo[r], ReconSkip(r, x) \/ ReconAsk(r, x)
      PROVE  /\ RowStep /\ quiet' \subseteq Tx /\ ReconTypeOK' /\ ReconInv'
             /\ audit' \subseteq AuditRows /\ outbox' \subseteq OutboxRows /\ OutboxInv'
             /\ UNCHANGED <<aged, providerVars>>
  <2>1. /\ reconTodo' = [reconTodo EXCEPT ![r] = @ \ {x}]
        /\ UNCHANGED <<reconResults, reconExceptions, tableVars, providerVars>>
    BY <1>3 DEF ReconSkip, ReconAsk
  <2>2. /\ reconTodo' \in [ReconRuns -> SUBSET ReconItems]
        /\ \A q \in ReconRuns : \A y \in reconTodo'[q] : y.ext # NoExt => Tracked(y.ext, y.tx)
        /\ reconResults' \subseteq ReconRows /\ reconExceptions' \subseteq Tx
    BY <2>1 DEF ReconTypeOK, ReconInv
  <2>3. /\ reconJob' \in [ReconRuns -> SUBSET ReconJobs]
        /\ \A q \in ReconRuns : \A j \in reconJob'[q] :
             row[j.tx].ext # NoExt /\ Justified(j.tx, HealTarget(j.external))
    <3>1. CASE UNCHANGED reconJob
      BY <3>1 DEF ReconTypeOK, ReconInv
    <3>2. CASE ReconAsk(r, x)
      <4>1. x.tx \in Tx /\ x.status \in Statuses /\ Tracked(x.ext, x.tx)
        BY <3>2 DEF ReconAsk, ReconTypeOK, ReconItems, ReconInv
      <4>2. PICK w \in Answers(x.ext) :
              reconJob' = [reconJob EXCEPT ![r] =
                {[tx |-> x.tx, internal |-> x.status, external |-> w, stage |-> "compare"]}]
        BY <3>2 DEF ReconAsk
      <4> DEFINE job == [tx |-> x.tx, internal |-> x.status, external |-> w, stage |-> "compare"]
      <4>3. job \in ReconJobs /\ job.tx = x.tx /\ job.external = w
        BY <4>1 DEF ReconJobs, Answers, Words
      <4>4. WordFits(w, x.ext)
        BY VocabularyAssumption DEF Answers, WordFits
      <4>5. Justified(x.tx, HealTarget(w)) /\ row[x.tx].ext # NoExt
        BY <4>1, <4>4 DEF HealTarget, WordFits, Justified, Approved, TurnedDown, Tracked,
                          SuccessWords, FailureWords
      <4>6. reconJob' = [reconJob EXCEPT ![r] = {job}]
        BY <4>2
      <4> HIDE DEF job
      <4> QED
        BY <4>3, <4>5, <4>6 DEF ReconTypeOK, ReconInv
    <3> QED
      BY <1>3, <3>1, <3>2 DEF ReconSkip
  <2> QED
    BY <1>1, <2>1, <2>2, <2>3
<1>4. CASE \/ ReconMatch(r) \/ ReconHealFails(r) \/ ReconSaveHealed(r)
           \/ ReconReview(r) \/ SaveException(r)
  <2>1. PICK j \in reconJob[r] :
          /\ \/ reconResults' = reconResults
             \/ \E result \in {"MATCHED", "AUTO_CORRECTED", "MANUAL_REVIEW"} : SaveResult(j, result)
          /\ reconExceptions' \subseteq reconExceptions \cup {j.tx}
          /\ \/ reconJob' = [reconJob EXCEPT ![r] = {}]
             \/ reconJob' = [reconJob EXCEPT ![r] = {[j EXCEPT !.stage = "review"]}]
          /\ UNCHANGED <<reconTodo, tableVars, providerVars>>
    BY <1>4 DEF ReconMatch, ReconHealFails, ReconSaveHealed, ReconReview, SaveException
  <2>2. j \in ReconJobs /\ j.tx \in Tx /\ j.internal \in Statuses /\ j.external \in Words
    BY DEF ReconTypeOK, ReconJobs
  <2>3. reconResults' \subseteq ReconRows /\ reconExceptions' \subseteq Tx
    BY <2>1, <2>2 DEF SaveResult, ReconTypeOK, ReconRows
  <2> DEFINE job == [j EXCEPT !.stage = "review"]
  <2>4. job \in ReconJobs /\ job.tx = j.tx /\ job.external = j.external
    BY <2>2 DEF ReconJobs
  <2>5. \A q \in ReconRuns : \A k \in reconJob'[q] : k \in reconJob[q] \/ k = job
    BY <2>1 DEF ReconTypeOK
  <2>6. reconJob' \in [ReconRuns -> SUBSET ReconJobs]
    BY <2>1, <2>4 DEF ReconTypeOK
  <2> HIDE DEF job
  <2>7. /\ reconTodo' \in [ReconRuns -> SUBSET ReconItems]
        /\ \A q \in ReconRuns : \A y \in reconTodo'[q] : y.ext # NoExt => Tracked(y.ext, y.tx)
    BY <2>1 DEF ReconTypeOK, ReconInv
  <2>8. \A q \in ReconRuns : \A k \in reconJob'[q] :
          row[k.tx].ext # NoExt /\ Justified(k.tx, HealTarget(k.external))
    BY <2>4, <2>5 DEF ReconInv
  <2> QED
    BY <1>1, <2>1, <2>3, <2>6, <2>7, <2>8
<1>5. CASE ReconHeal(r)
  <2>1. PICK j \in reconJob[r] :
          /\ HealTarget(j.external) # "none"
          /\ UpdateStateAndAudit(j.tx, j.internal, HealTarget(j.external))
          /\ reconJob' = [reconJob EXCEPT ![r] = {[j EXCEPT !.stage = "healed"]}]
          /\ UNCHANGED <<reconTodo, reconResults, reconExceptions, aged, providerVars>>
    BY <1>5 DEF ReconHeal
  <2>2. PICK s : s = HealTarget(j.external)
    OBVIOUS
  <2>3. /\ s \in {"COMPLETED", "FAILED"} /\ s \in Statuses
        /\ j \in ReconJobs /\ j.tx \in Tx /\ j.internal \in Statuses
        /\ row[j.tx].ext # NoExt /\ Justified(j.tx, s)
    BY <2>1, <2>2 DEF HealTarget, Statuses, ReconTypeOK, ReconJobs, ReconInv
  <2>4. /\ Rewrites(j.tx, s, row[j.tx].ext, row[j.tx].retries) /\ quiet' \subseteq Tx
        /\ audit' \subseteq AuditRows /\ outbox' \subseteq OutboxRows
        /\ outbox' = outbox \cup {[tx |-> j.tx, type |-> "changed", status |-> s]}
    BY <2>1, <2>2, <2>3, StateStatement
  <2>5. Allowed(j.tx, s, row[j.tx].ext, row[j.tx].retries)
    BY <2>3 DEF Allowed, RowInv, TrackedAtProvider
  <2>6. RowStep
    BY <2>3, <2>4, <2>5 DEF RowStep, TableTypeOK, Rows
  <2>7. Grows
    BY <2>1, <2>6, RowStepKeeps
  <2>8. OutboxInv'
    BY <2>1, <2>3, <2>4 DEF OutboxInv, Justified, Approved, TurnedDown, providerVars
  <2> DEFINE job == [j EXCEPT !.stage = "healed"]
  <2>9. job \in ReconJobs /\ job.tx = j.tx /\ job.external = j.external
    BY <2>3 DEF ReconJobs
  <2>10. reconJob' = [reconJob EXCEPT ![r] = {job}]
    BY <2>1
  <2> HIDE DEF job
  <2>11. ReconTypeOK'
    BY <2>1, <2>9, <2>10 DEF ReconTypeOK
  <2>12. ReconInv'
    <3>1. \A q \in ReconRuns : \A x \in reconTodo'[q] :
            x.tx \in Tx /\ (x.ext # NoExt => Tracked(x.ext, x.tx))
      BY <2>1 DEF ReconInv, ReconTypeOK, ReconItems
    <3>2. \A q \in ReconRuns : \A k \in reconJob'[q] :
            /\ k.tx \in Tx /\ row[k.tx].ext # NoExt
            /\ Justified(k.tx, HealTarget(k.external))
      BY <2>2, <2>3, <2>9, <2>10 DEF ReconInv, ReconTypeOK, ReconJobs
    <3>3. \A q \in ReconRuns : \A k \in reconJob'[q] :
            row'[k.tx].ext # NoExt /\ Justified(k.tx, HealTarget(k.external))'
      BY <2>7, <3>2, JustifiedGrows DEF Grows
    <3> QED
      BY <2>7, <3>1, <3>3, TrackedGrows DEF ReconInv
  <2> QED
    BY <2>1, <2>4, <2>6, <2>8, <2>11, <2>12
<1> QED
  BY <1>2, <1>3, <1>4, <1>5 DEF ReconRun

-----------------------------------------------------------------------------
(* Onboarding and the clock. *)

LEMMA OnboardStep ==
  ASSUME Parts, NEW t \in Tx, Save(t)
  PROVE  /\ RowStep /\ quiet' \subseteq Tx /\ outbox' \subseteq OutboxRows /\ OutboxInv'
         /\ UNCHANGED <<aged, audit, providerVars>>
<1> USE DEF Parts, TypeOK, TableTypeOK
<1>1. /\ row[t].status = Absent
      /\ Put(t, [row[t] EXCEPT !.status = "RECEIVED"])
      /\ outbox' = outbox \cup {[tx |-> t, type |-> "created", status |-> "RECEIVED"]}
      /\ UNCHANGED <<aged, audit, providerVars>>
  BY DEF Save
<1> DEFINE x == [row[t] EXCEPT !.status = "RECEIVED"]
<1>2. /\ x \in Rows /\ x.status = "RECEIVED" /\ x.ext = row[t].ext
      /\ x.retries = row[t].retries
  BY DEF Rows, Statuses
<1>3. Put(t, x)
  BY <1>1
<1> HIDE DEF x
<1>4. Rewrites(t, "RECEIVED", row[t].ext, row[t].retries) /\ quiet' \subseteq Tx
  BY <1>2, <1>3, PutRow
<1>5. Allowed(t, "RECEIVED", row[t].ext, row[t].retries)
  BY DEF Allowed, RowInv, TrackedAtProvider, Justified
<1>6. outbox' \subseteq OutboxRows /\ OutboxInv'
  BY <1>1 DEF OutboxRows, Statuses, OutboxInv, Justified, Approved, TurnedDown, providerVars
<1> QED
  BY <1>1, <1>4, <1>5, <1>6 DEF RowStep, Rows, Statuses

LEMMA ClockStep ==
  ASSUME Parts, NEW t \in Tx, TimePasses(t)
  PROVE  /\ RowStep /\ quiet' \subseteq Tx /\ aged \subseteq aged' /\ aged' \subseteq Tx
         /\ UNCHANGED <<audit, outbox, providerVars>>
<1> USE DEF Parts, TypeOK, TableTypeOK
<1>1. CASE PollTimeArrives(t) \/ RetryTimeArrives(t)
  <2>1. PICK x : /\ x \in Rows /\ x.status = row[t].status /\ x.ext = row[t].ext
                 /\ x.retries = row[t].retries
                 /\ row' = [row EXCEPT ![t] = x]
    <3>1. CASE PollTimeArrives(t)
      <4> DEFINE y == [row[t] EXCEPT !.nextPoll = "due"]
      <4>1. y \in Rows /\ y.status = row[t].status /\ y.ext = row[t].ext /\ y.retries = row[t].retries
        BY DEF Rows, When
      <4>2. row' = [row EXCEPT ![t] = y]
        BY <3>1 DEF PollTimeArrives
      <4> HIDE DEF y
      <4> QED
        BY <4>1, <4>2
    <3>2. CASE RetryTimeArrives(t)
      <4> DEFINE y == [row[t] EXCEPT !.nextRetry = "due"]
      <4>1. y \in Rows /\ y.status = row[t].status /\ y.ext = row[t].ext /\ y.retries = row[t].retries
        BY DEF Rows, When
      <4>2. row' = [row EXCEPT ![t] = y]
        BY <3>2 DEF RetryTimeArrives
      <4> HIDE DEF y
      <4> QED
        BY <4>1, <4>2
    <3> QED
      BY <1>1, <3>1, <3>2
  <2>2. Rewrites(t, row[t].status, row[t].ext, row[t].retries)
    BY <2>1 DEF Rewrites
  <2>3. Allowed(t, row[t].status, row[t].ext, row[t].retries)
    BY DEF Allowed, RowInv, TrackedAtProvider, TimeoutIsJustified
  <2> QED
    BY <1>1, <2>2, <2>3 DEF RowStep, Rows, PollTimeArrives, RetryTimeArrives
<1>2. CASE Ages(t) \/ GoesQuiet(t)
  BY <1>2 DEF Ages, GoesQuiet, RowStep
<1> QED
  BY <1>1, <1>2 DEF TimePasses

-----------------------------------------------------------------------------
(* The invariant. *)

LEMMA StartRowsType ==
  \A x \in StartRows : /\ x \in Rows /\ x.retries = 0
                       /\ x.status \in {Absent, "RETRY_PENDING", "ACCEPTED"}
                       /\ x.status = "ACCEPTED" => x.ext # NoExt
<1>1. /\ NoRow \in Rows /\ NoRow.retries = 0 /\ NoRow.status = Absent
  BY RetryAssumption DEF NoRow, Rows, When
<1>2. ASSUME NEW n \in Rows
      PROVE  LET x == [n EXCEPT !.status = "RETRY_PENDING", !.nextRetry = "later"] IN
             x \in Rows /\ x.retries = n.retries /\ x.status = "RETRY_PENDING"
  BY DEF Rows, When, Statuses
<1>3. ASSUME NEW n \in Rows, NEW e \in Ext
      PROVE  LET x == [n EXCEPT !.status = "ACCEPTED", !.ext = e] IN
             x \in Rows /\ x.retries = n.retries /\ x.status = "ACCEPTED" /\ x.ext = e
  BY DEF Rows, Statuses
<1>4. ASSUME NEW x \in StartRows
      PROVE  /\ x \in Rows /\ x.retries = 0
             /\ x.status \in {Absent, "RETRY_PENDING", "ACCEPTED"}
             /\ x.status = "ACCEPTED" => x.ext # NoExt
  <2>1. CASE x = NoRow
    BY <1>1, <2>1 DEF Absent
  <2>2. CASE x = [NoRow EXCEPT !.status = "RETRY_PENDING", !.nextRetry = "later"]
    BY <1>1, <1>2, <2>2
  <2>3. CASE \E e \in Ext : x = [NoRow EXCEPT !.status = "ACCEPTED", !.ext = e]
    <3>1. PICK e \in Ext : x = [NoRow EXCEPT !.status = "ACCEPTED", !.ext = e]
      BY <2>3
    <3>2. x \in Rows /\ x.retries = NoRow.retries /\ x.status = "ACCEPTED" /\ x.ext = e
      BY <1>1, <1>3, <3>1
    <3> QED
      BY <1>1, <3>2, IdAssumption
  <2> QED
    BY <2>1, <2>2, <2>3 DEF StartRows
<1> QED
  BY <1>4

LEMMA InitParts == Init => Parts
<1> SUFFICES ASSUME Init PROVE Parts
  OBVIOUS
<1> USE IdAssumption, RetryAssumption
        DEF Init, TransactionsInit, PollInit, RetryInit, HookInit, ReconInit
<1>1. ProviderTypeOK /\ RequestsOwned
  BY DEF ProviderTypeOK, Verdicts, RequestsOwned
<1>4. TableTypeOK
  BY StartRowsType DEF TableTypeOK
<1>5. RowInv
  BY StartRowsType DEF RowInv, TrackedAtProvider, TimeoutIsJustified, Justified, Absent
<1>6. PollTypeOK /\ RetryTypeOK /\ HookTypeOK /\ ReconTypeOK
  BY DEF PollTypeOK, RetryTypeOK, HookTypeOK, ReconTypeOK
<1>7. PollInv /\ RetryWorkInv /\ HookInv /\ ReconInv /\ OutboxInv
  BY DEF PollInv, RetryWorkInv, HookInv, ReconInv, OutboxInv
<1>8. HookOnceInv
  BY DEF HookOnceInv, WebhookAppliedOnce
<1> QED
  BY <1>1, <1>4, <1>5, <1>6, <1>7, <1>8 DEF Parts, TypeOK

LEMMA StepParts == Parts /\ [Next]_vars => Parts' /\ Grows
<1> SUFFICES ASSUME Parts, [Next]_vars PROVE Parts' /\ Grows
  OBVIOUS
<1> USE DEF Parts
<1>1. ASSUME NEW r \in PollRuns, Poller(r) PROVE Parts' /\ Grows
  <2>1. /\ RowStep /\ quiet' \subseteq Tx /\ PollTypeOK' /\ PollInv'
        /\ UNCHANGED <<aged, audit, outbox, providerVars, retryVars, hookVars, reconVars, crashes>>
    BY <1>1, PollStep DEF Poller
  <2>2. row' \in [Tx -> Rows] /\ RowInv' /\ Grows
    BY <2>1, RowStepKeeps
  <2>3. OutboxInv' /\ RetryWorkInv' /\ HookInv' /\ HookOnceInv' /\ ReconInv'
    BY <2>1, <2>2, OutboxKept, RetryKept, HookKept, HookOnceKept, ReconKept
  <2>4. RequestsOwned' /\ ProviderTypeOK' /\ RetryTypeOK' /\ HookTypeOK' /\ ReconTypeOK'
    BY <2>1 DEF TypeOK, RequestsOwned, ProviderTypeOK, RetryTypeOK, HookTypeOK, ReconTypeOK,
                providerVars, retryVars, hookVars, reconVars
  <2> QED
    BY <2>1, <2>2, <2>3, <2>4 DEF TypeOK, TableTypeOK
<1>2. ASSUME NEW r \in RetryRuns, Retrier(r) PROVE Parts' /\ Grows
  <2>1. CASE RetrySubmit(r)
    <3>1. /\ ProviderTypeOK' /\ RequestsOwned' /\ RowInv' /\ Grows
          /\ RetryTypeOK' /\ RetryWorkInv' /\ UNCHANGED tableVars
          /\ UNCHANGED <<pollVars, hookVars, reconVars, crashes>>
      BY <1>2, <2>1, RetrySubmitStep DEF Retrier
    <3>2. OutboxInv' /\ PollInv' /\ HookInv' /\ HookOnceInv' /\ ReconInv'
      BY <3>1, OutboxKept, PollKept, HookKept, HookOnceKept, ReconKept DEF tableVars
    <3>3. TableTypeOK' /\ PollTypeOK' /\ HookTypeOK' /\ ReconTypeOK'
      BY <3>1 DEF TypeOK, TableTypeOK, PollTypeOK, HookTypeOK, ReconTypeOK,
                  tableVars, pollVars, hookVars, reconVars
    <3> QED
      BY <3>1, <3>2, <3>3 DEF TypeOK
  <2>2. CASE ~RetrySubmit(r)
    <3>1. /\ RowStep /\ quiet' \subseteq Tx /\ RetryTypeOK' /\ RetryWorkInv'
          /\ UNCHANGED <<aged, audit, outbox, providerVars, pollVars, hookVars, reconVars, crashes>>
      BY <1>2, <2>2, RetryRowStep DEF Retrier
    <3>2. row' \in [Tx -> Rows] /\ RowInv' /\ Grows
      BY <3>1, RowStepKeeps
    <3>3. OutboxInv' /\ PollInv' /\ HookInv' /\ HookOnceInv' /\ ReconInv'
      BY <3>1, <3>2, OutboxKept, PollKept, HookKept, HookOnceKept, ReconKept
    <3>4. RequestsOwned' /\ ProviderTypeOK' /\ PollTypeOK' /\ HookTypeOK' /\ ReconTypeOK'
      BY <3>1 DEF TypeOK, RequestsOwned, ProviderTypeOK, PollTypeOK, HookTypeOK, ReconTypeOK,
                  providerVars, pollVars, hookVars, reconVars
    <3> QED
      BY <3>1, <3>2, <3>3, <3>4 DEF TypeOK, TableTypeOK
  <2> QED
    BY <2>1, <2>2
<1>3. ASSUME NEW h \in Hooks, Callback(h) PROVE Parts' /\ Grows
  <2>1. /\ RowStep /\ quiet' \subseteq Tx /\ HookTypeOK' /\ HookInv' /\ HookOnceInv'
        /\ UNCHANGED <<aged, audit, outbox, providerVars, pollVars, retryVars, reconVars, crashes>>
    BY <1>3, HookStep DEF Callback
  <2>2. row' \in [Tx -> Rows] /\ RowInv' /\ Grows
    BY <2>1, RowStepKeeps
  <2>3. OutboxInv' /\ PollInv' /\ RetryWorkInv' /\ ReconInv'
    BY <2>1, <2>2, OutboxKept, PollKept, RetryKept, ReconKept
  <2>4. RequestsOwned' /\ ProviderTypeOK' /\ PollTypeOK' /\ RetryTypeOK' /\ ReconTypeOK'
    BY <2>1 DEF TypeOK, RequestsOwned, ProviderTypeOK, PollTypeOK, RetryTypeOK, ReconTypeOK,
                providerVars, pollVars, retryVars, reconVars
  <2> QED
    BY <2>1, <2>2, <2>3, <2>4 DEF TypeOK, TableTypeOK
<1>4. ASSUME NEW r \in ReconRuns, Reconciler(r) PROVE Parts' /\ Grows
  <2>1. /\ RowStep /\ quiet' \subseteq Tx /\ ReconTypeOK' /\ ReconInv'
        /\ audit' \subseteq AuditRows /\ outbox' \subseteq OutboxRows /\ OutboxInv'
        /\ UNCHANGED <<aged, providerVars, pollVars, retryVars, hookVars, crashes>>
    BY <1>4, ReconStep DEF Reconciler
  <2>2. row' \in [Tx -> Rows] /\ RowInv' /\ Grows
    BY <2>1, RowStepKeeps
  <2>3. PollInv' /\ RetryWorkInv' /\ HookInv' /\ HookOnceInv'
    BY <2>1, <2>2, PollKept, RetryKept, HookKept, HookOnceKept
  <2>4. RequestsOwned' /\ ProviderTypeOK' /\ PollTypeOK' /\ RetryTypeOK' /\ HookTypeOK'
    BY <2>1 DEF TypeOK, RequestsOwned, ProviderTypeOK, PollTypeOK, RetryTypeOK, HookTypeOK,
                providerVars, pollVars, retryVars, hookVars
  <2> QED
    BY <2>1, <2>2, <2>3, <2>4 DEF TypeOK, TableTypeOK
<1>5. ASSUME NEW t \in Tx, Onboard(t) \/ Clock(TimePasses(t)) PROVE Parts' /\ Grows
  <2>1. /\ RowStep /\ quiet' \subseteq Tx /\ outbox' \subseteq OutboxRows
        /\ OutboxInv' \/ UNCHANGED outbox
        /\ aged \subseteq aged' /\ aged' \subseteq Tx /\ UNCHANGED audit
        /\ UNCHANGED <<providerVars, pollVars, retryVars, hookVars, reconVars, crashes>>
    BY <1>5, OnboardStep, ClockStep DEF Onboard, Clock, TypeOK, TableTypeOK
  <2>2. row' \in [Tx -> Rows] /\ RowInv' /\ Grows
    BY <2>1, RowStepKeeps
  <2>3. OutboxInv' /\ PollInv' /\ RetryWorkInv' /\ HookInv' /\ HookOnceInv' /\ ReconInv'
    BY <2>1, <2>2, OutboxKept, PollKept, RetryKept, HookKept, HookOnceKept, ReconKept
  <2>4. RequestsOwned' /\ ProviderTypeOK'
    BY <2>1 DEF TypeOK, RequestsOwned, ProviderTypeOK, providerVars
  <2>5. PollTypeOK' /\ RetryTypeOK' /\ HookTypeOK' /\ ReconTypeOK'
    BY <2>1 DEF TypeOK, PollTypeOK, RetryTypeOK, HookTypeOK, ReconTypeOK,
                pollVars, retryVars, hookVars, reconVars
  <2> QED
    BY <2>1, <2>2, <2>3, <2>4, <2>5 DEF TypeOK, TableTypeOK
<1>6. ASSUME NEW e \in Ext, ProviderDecides(e) PROVE Parts' /\ Grows
  <2>1. /\ Decide(e)
        /\ UNCHANGED <<tableVars, pollVars, retryVars, hookVars, reconVars, crashes>>
    BY <1>6 DEF ProviderDecides
  <2>2. ProviderTypeOK' /\ RequestsOwned' /\ RowInv' /\ Grows
    BY <2>1, ProviderStep
  <2>3. OutboxInv' /\ PollInv' /\ RetryWorkInv' /\ HookInv' /\ HookOnceInv' /\ ReconInv'
    BY <2>1, <2>2, OutboxKept, PollKept, RetryKept, HookKept, HookOnceKept, ReconKept
       DEF tableVars
  <2>4. TableTypeOK' /\ PollTypeOK' /\ RetryTypeOK' /\ HookTypeOK' /\ ReconTypeOK'
    BY <2>1 DEF TypeOK, TableTypeOK, PollTypeOK, RetryTypeOK, HookTypeOK, ReconTypeOK,
                tableVars, pollVars, retryVars, hookVars, reconVars
  <2> QED
    BY <2>1, <2>2, <2>3, <2>4 DEF TypeOK
<1>7. ASSUME NEW e \in Events, NEW x \in Ext, ProviderPosts(e, x) PROVE Parts' /\ Grows
  <2>1. /\ \E w \in Answers(x) : posted' = posted \cup {[event |-> e, ext |-> x, word |-> w]}
        /\ UNCHANGED <<webhookAudit, hookJob, applied, tableVars, providerVars>>
        /\ UNCHANGED <<pollVars, retryVars, reconVars, crashes>>
    BY <1>7 DEF ProviderPosts, Post
  <2>2. RowInv' /\ Grows
    BY <2>1, RowStepKeeps DEF RowStep, tableVars
  <2>3. PICK w \in Answers(x) : posted' = posted \cup {[event |-> e, ext |-> x, word |-> w]}
    BY <2>1
  <2>4. w \in Words /\ WordFits(w, x) /\ submittedFor[x] # NoTx
    BY IdAssumption, VocabularyAssumption
       DEF Answers, Words, WordFits, RequestsOwned, TypeOK, ProviderTypeOK
  <2>5. HookTypeOK'
    BY <2>1, <2>3, <2>4 DEF TypeOK, HookTypeOK, Posts
  <2>6. HookInv'
    BY <2>1, <2>3, <2>4 DEF HookInv, WordFits, Tracked, tableVars, providerVars
  <2>7. HookOnceInv'
    BY <2>1 DEF HookOnceInv, WebhookAppliedOnce
  <2>8. OutboxInv' /\ PollInv' /\ RetryWorkInv' /\ ReconInv'
    BY <2>1, <2>2, OutboxKept, PollKept, RetryKept, ReconKept DEF tableVars
  <2>9. /\ RequestsOwned' /\ ProviderTypeOK' /\ TableTypeOK'
        /\ PollTypeOK' /\ RetryTypeOK' /\ ReconTypeOK'
    BY <2>1 DEF TypeOK, RequestsOwned, ProviderTypeOK, TableTypeOK, PollTypeOK, RetryTypeOK,
                ReconTypeOK, providerVars, tableVars, pollVars, retryVars, reconVars
  <2> QED
    BY <2>1, <2>2, <2>5, <2>6, <2>7, <2>8, <2>9 DEF TypeOK
<1>8. CASE Crash
  <2>1. /\ crashes' = crashes + 1
        /\ pollTodo' = [r \in PollRuns |-> {}] /\ pollAnswer' = [r \in PollRuns |-> {}]
        /\ reconTodo' = [r \in ReconRuns |-> {}] /\ reconJob' = [r \in ReconRuns |-> {}]
        /\ retryTodo' = [r \in RetryRuns |-> {}] /\ retryJob' = [r \in RetryRuns |-> {}]
        /\ hookJob' = [h \in Hooks |-> {}]
        /\ UNCHANGED <<tableVars, providerVars, retryAudit, submits, posted, webhookAudit,
                       applied, reconResults, reconExceptions>>
    BY <1>8 DEF Crash
  <2>2. RowInv' /\ Grows
    BY <2>1, RowStepKeeps DEF RowStep, tableVars
  <2>3. PollTypeOK' /\ PollInv' /\ RetryTypeOK' /\ RetryWorkInv' /\ ReconTypeOK' /\ ReconInv'
    BY <2>1 DEF TypeOK, PollTypeOK, PollInv, RetryTypeOK, RetryWorkInv, ReconTypeOK, ReconInv
  <2>4. HookTypeOK' /\ HookInv' /\ HookOnceInv'
    BY <2>1 DEF TypeOK, HookTypeOK, HookInv, HookOnceInv, WebhookAppliedOnce, WordFits, providerVars
  <2>5. OutboxInv'
    BY <2>1, <2>2, OutboxKept DEF tableVars
  <2>6. RequestsOwned' /\ ProviderTypeOK' /\ TableTypeOK' /\ crashes' \in Nat
    BY <2>1 DEF TypeOK, RequestsOwned, ProviderTypeOK, TableTypeOK, providerVars, tableVars
  <2> QED
    BY <2>2, <2>3, <2>4, <2>5, <2>6 DEF TypeOK
<1>9. CASE UNCHANGED vars
  <2>1. RowInv' /\ Grows
    BY <1>9, RowStepKeeps DEF RowStep, vars, tableVars
  <2>2. OutboxInv' /\ PollInv' /\ RetryWorkInv' /\ HookInv' /\ HookOnceInv' /\ ReconInv'
    BY <1>9, <2>1, OutboxKept, PollKept, RetryKept, HookKept, HookOnceKept, ReconKept
       DEF vars, tableVars
  <2>3. RequestsOwned' /\ ProviderTypeOK' /\ TableTypeOK' /\ crashes' \in Nat
    BY <1>9 DEF TypeOK, RequestsOwned, ProviderTypeOK, TableTypeOK, vars, providerVars, tableVars
  <2>4. PollTypeOK' /\ RetryTypeOK' /\ HookTypeOK' /\ ReconTypeOK'
    BY <1>9 DEF TypeOK, PollTypeOK, RetryTypeOK, HookTypeOK, ReconTypeOK, vars,
                pollVars, retryVars, hookVars, reconVars
  <2> QED
    BY <2>1, <2>2, <2>3, <2>4 DEF TypeOK
<1> QED
  BY <1>1, <1>2, <1>3, <1>4, <1>5, <1>6, <1>7, <1>8, <1>9 DEF Next

LEMMA Invariance == Spec => []IInv
<1>1. Spec => []Parts
  BY InitParts, StepParts, PTL DEF Spec
<1> QED
  BY <1>1, PartsOfIInv, PTL

-----------------------------------------------------------------------------
(* What follows from the invariant. *)

(* Every variable keeps to the values the code can give it: whatever fails  *)
(* or overlaps, no retry count passes MaxRetries and every row has one of   *)
(* the eight statuses.                                                      *)
THEOREM TypeCorrect == Spec => []TypeOK
<1>1. IInv => TypeOK
  BY DEF IInv
<1> QED
  BY <1>1, Invariance, PTL

(* No transaction is COMPLETED unless the provider approved one of its      *)
(* submissions, none is FAILED unless the provider turned one of them down, *)
(* and none is announced as either: through stale answers, callbacks for    *)
(* old requests, overlapping runs, crashes and failing statements.          *)
THEOREM FinalStatusJustified == Spec => []FinalIsJustified
<1>1. IInv => FinalIsJustified
  BY DEF IInv
<1> QED
  BY <1>1, Invariance, PTL

(* No transaction is in TIMEOUT before its 72 hours or its last attempt.    *)
THEOREM TimeoutJustified == Spec => []TimeoutIsJustified
<1>1. IInv => TimeoutIsJustified
  BY DEF IInv
<1> QED
  BY <1>1, Invariance, PTL

(* Every row the schedulers and callbacks work on carries the id of a       *)
(* request taken in for it, so that no request id belongs to two rows.      *)
THEOREM RowsTracked == Spec => []TrackedAtProvider
<1>1. IInv => TrackedAtProvider
  BY DEF IInv
<1> QED
  BY <1>1, Invariance, PTL

(* However many deliveries of an event run at once, one applies it.         *)
THEOREM CallbackAppliedOnce == Spec => []WebhookAppliedOnce
<1>1. IInv => WebhookAppliedOnce
  BY DEF IInv, HookOnceInv
<1> QED
  BY <1>1, Invariance, PTL

=============================================================================
