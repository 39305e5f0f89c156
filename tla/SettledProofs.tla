---------------------------- MODULE SettledProofs ----------------------------
(***************************************************************************)
(* Results of Lifecycle that rest on who holds a reading of a row: a       *)
(* settled transaction stays settled, a recorded correction was made, no   *)
(* transaction ever leaves RECEIVED, and a retry scheduler whose runs do   *)
(* not overlap submits a transaction at most MaxRetries times.             *)
(***************************************************************************)
EXTENDS LifecycleProofs

Settled(t) == row[t].status \in {"COMPLETED", "FAILED"}

PollHolds(t) == \E r \in PollRuns : \E x \in pollTodo[r] \cup pollAnswer[r] : x.tx = t
RetryHolds(t) == \E r \in RetryRuns : \E x \in retryTodo[r] \cup retryJob[r] : x.tx = t
HookHolds(t) == \E h \in Hooks : \E j \in hookJob[h] : j.tx = t
ReconHolds(t) == \E r \in ReconRuns : \E x \in reconTodo[r] \cup reconJob[r] : x.tx = t

LEMMA HoldsInHand ==
  \A t \in Tx : InHand(t) <=> PollHolds(t) \/ RetryHolds(t) \/ HookHolds(t) \/ ReconHolds(t)
BY DEF InHand, PollHolds, RetryHolds, HookHolds, ReconHolds

(* A row the workers' queries do not select, and that nobody holds, is left *)
(* alone.  The four lemmas below say so of each worker.                     *)
Unasked(t) == row[t].status \notin {"ACCEPTED", "PROCESSING"}
Answered(t) == row[t].status \in {"COMPLETED", "FAILED"} \/ row[t].ext = NoExt

(* A statement on another row leaves t's alone. *)
LEMMA PutElsewhere ==
  ASSUME row \in [Tx -> Rows], NEW t \in Tx, NEW u, u # t, NEW x, Put(u, x)
  PROVE  row'[t] = row[t]
BY DEF Put

LEMMA PollPassesBy ==
  ASSUME TypeOK, NEW t \in Tx, Unasked(t), ~PollHolds(t), NEW r \in PollRuns, PollRun(r)
  PROVE  row'[t] = row[t] /\ ~PollHolds(t)'
<1> USE DEF TypeOK, TableTypeOK, PollTypeOK
<1>1. CASE PollFetch(r)
  <2>1. t \notin FindEligibleForPolling
    BY DEF FindEligibleForPolling, Unasked
  <2>2. \A q \in PollRuns : \A x \in pollTodo'[q] \cup pollAnswer'[q] : x.tx # t
    BY <1>1, <2>1 DEF PollFetch, PollHolds
  <2> QED
    BY <1>1, <2>2 DEF PollFetch, PollHolds, tableVars
<1>2. ASSUME NEW x \in pollTodo[r], PollExpire(r, x) \/ PollSkip(r, x) \/ PollAsk(r, x)
      PROVE  row'[t] = row[t] /\ ~PollHolds(t)'
  <2>1. /\ x.tx # t /\ x.tx \in Tx
        /\ \A q \in PollRuns : \A y \in pollTodo[q] \cup pollAnswer[q] : y.tx # t
    BY DEF PollHolds, PollItems
  <2>2. pollTodo' = [pollTodo EXCEPT ![r] = @ \ {x}]
    BY <1>2 DEF PollExpire, PollSkip, PollAsk, PollTake
  <2>3. \A q \in PollRuns : \A y \in pollAnswer'[q] : y.tx # t
    <3>1. CASE UNCHANGED pollAnswer
      BY <2>1, <3>1
    <3>2. CASE PollAsk(r, x)
      <4>1. PICK s : pollAnswer' = [pollAnswer EXCEPT ![r] = {[tx |-> x.tx, status |-> s]}]
        BY <3>2 DEF PollAsk
      <4> QED
        BY <2>1, <4>1
    <3> QED
      BY <1>2, <3>1, <3>2 DEF PollExpire, PollSkip
  <2>4. row'[t] = row[t]
    BY <1>2, <2>1, PutElsewhere
       DEF PollExpire, PollSkip, PollAsk, UpdatePollingStatus, DbError, tableVars
  <2> QED
    BY <2>1, <2>2, <2>3, <2>4 DEF PollHolds
<1>3. CASE PollWrite(r)
  <2>1. \A q \in PollRuns : \A y \in pollTodo[q] \cup pollAnswer[q] : y.tx # t
    BY DEF PollHolds
  <2>2. row'[t] = row[t]
    BY <1>3, <2>1, PutElsewhere DEF PollWrite, UpdatePollingStatus, DbError
  <2> QED
    BY <1>3, <2>1, <2>2 DEF PollWrite, PollHolds
<1> QED
  BY <1>1, <1>2, <1>3 DEF PollRun

LEMMA RetryPassesBy ==
  ASSUME TypeOK, NEW t \in Tx, row[t].status # "RETRY_PENDING", ~RetryHolds(t),
         NEW r \in RetryRuns, RetryRun(r)
  PROVE  row'[t] = row[t] /\ ~RetryHolds(t)'
<1> USE DEF TypeOK, TableTypeOK, RetryTypeOK
<1>0. \A q \in RetryRuns : \A y \in retryTodo[q] \cup retryJob[q] : y.tx # t
  BY DEF RetryHolds
<1>1. CASE RetryFetch(r)
  <2>1. t \notin FindPendingRetries
    BY DEF FindPendingRetries
  <2> QED
    BY <1>0, <1>1, <2>1 DEF RetryFetch, RetryHolds, tableVars
<1>2. ASSUME NEW x \in retryTodo[r], RetryMark(r, x)
      PROVE  row'[t] = row[t] /\ ~RetryHolds(t)'
  <2>1. row'[t] = row[t]
    BY <1>0, <1>2, PutElsewhere DEF RetryMark, MarkForRetry, DbError
  <2> QED
    BY <1>0, <1>2, <2>1 DEF RetryMark, RetryHolds
<1>3. CASE RetrySubmit(r)
  <2>1. PICK j \in retryJob[r], result \in Results, e \in Ext \cup {NoExt} :
          retryJob' = [retryJob EXCEPT ![r] =
                         {[j EXCEPT !.stage = "record", !.result = result, !.ext = e]}]
    BY <1>3 DEF RetrySubmit, Submitted, Results, TechnicalResult
  <2>2. [j EXCEPT !.stage = "record", !.result = result, !.ext = e].tx = j.tx
    BY DEF RetryJobs
  <2>3. UNCHANGED <<row, retryTodo>>
    BY <1>3 DEF RetrySubmit, tableVars
  <2> QED
    BY <1>0, <2>1, <2>2, <2>3 DEF RetryHolds
<1>4. CASE RetryRecord(r)
  <2>1. PICK j \in retryJob[r] :
          /\ StoreResult(j) \/ DbError
          /\ retryJob' = [retryJob EXCEPT ![r] = {[j EXCEPT !.stage = "audit"]}]
          /\ UNCHANGED retryTodo
    BY <1>4 DEF RetryRecord
  <2>2. [j EXCEPT !.stage = "audit"].tx = j.tx
    BY DEF RetryJobs
  <2>3. row'[t] = row[t]
    BY <1>0, <2>1, PutElsewhere DEF StoreResult, UpdateProviderDetails, MarkForRetry, DbError
  <2> QED
    BY <1>0, <2>1, <2>2, <2>3 DEF RetryHolds
<1>5. CASE SaveRetryAudit(r)
  BY <1>0, <1>5 DEF SaveRetryAudit, RetryHolds, tableVars
<1> QED
  BY <1>1, <1>2, <1>3, <1>4, <1>5 DEF RetryRun

LEMMA HookPassesBy ==
  ASSUME TypeOK, NEW t \in Tx, Answered(t), ~HookHolds(t), NEW h \in Hooks, HookRun(h)
  PROVE  row'[t] = row[t] /\ ~HookHolds(t)'
<1> USE DEF TypeOK, TableTypeOK, HookTypeOK
<1>0. \A g \in Hooks : \A y \in hookJob[g] : y.tx # t
  BY DEF HookHolds
<1>1. ASSUME NEW p \in posted, HookReceive(h, p)
      PROVE  row'[t] = row[t] /\ ~HookHolds(t)'
  BY <1>0, <1>1, IdAssumption DEF HookReceive, HookHolds, tableVars
<1>2. ASSUME NEW u \in Tx, HookFind(h, u)
      PROVE  row'[t] = row[t] /\ ~HookHolds(t)'
  <2>1. u # t
    BY <1>2, IdAssumption DEF HookFind, Answered, HookJobs
  <2>2. PICK j \in hookJob[h] : /\ hookJob' = [hookJob EXCEPT ![h] = {[j EXCEPT !.tx = u]}]
                                /\ UNCHANGED row
    BY <1>2 DEF HookFind, tableVars
  <2>3. [j EXCEPT !.tx = u].tx = u
    BY DEF HookJobs
  <2> QED
    BY <1>0, <2>1, <2>2, <2>3 DEF HookHolds
<1>3. CASE HookDismiss(h)
  BY <1>0, <1>3 DEF HookDismiss, HookHolds, tableVars
<1>4. CASE HookWrite(h)
  <2>1. row'[t] = row[t]
    BY <1>0, <1>4, PutElsewhere DEF HookWrite, UpdateWebhookStatus, DbError
  <2> QED
    BY <1>0, <1>4, <2>1 DEF HookWrite, HookHolds
<1> QED
  BY <1>1, <1>2, <1>3, <1>4 DEF HookRun

LEMMA ReconPassesBy ==
  ASSUME TypeOK, NEW t \in Tx, Unasked(t), ~ReconHolds(t), NEW r \in ReconRuns, ReconRun(r)
  PROVE  row'[t] = row[t] /\ ~ReconHolds(t)'
<1> USE DEF TypeOK, TableTypeOK, ReconTypeOK
<1>0. \A q \in ReconRuns : \A y \in reconTodo[q] \cup reconJob[q] : y.tx # t
  BY DEF ReconHolds
<1>1. CASE ReconFetch(r)
  <2>1. t \notin FindStuckTransactions
    BY DEF FindStuckTransactions, Unasked
  <2> QED
    BY <1>0, <1>1, <2>1 DEF ReconFetch, ReconHolds, tableVars
<1>2. ASSUME NEW x \in reconTodo[r], ReconSkip(r, x) \/ ReconAsk(r, x)
      PROVE  row'[t] = row[t] /\ ~ReconHolds(t)'
  BY <1>0, <1>2 DEF ReconSkip, ReconAsk, ReconHolds, tableVars
<1>3. CASE ReconMatch(r) \/ ReconHealFails(r) \/ ReconSaveHealed(r) \/ SaveException(r)
  BY <1>0, <1>3 DEF ReconMatch, ReconHealFails, ReconSaveHealed, SaveException, ReconHolds, tableVars
<1>5. CASE ReconReview(r)
  <2>1. PICK j \in reconJob[r] :
          /\ reconJob' = [reconJob EXCEPT ![r] = {[j EXCEPT !.stage = "review"]}]
          /\ UNCHANGED <<reconTodo, tableVars>>
    BY <1>5 DEF ReconReview
  <2>2. [j EXCEPT !.stage = "review"].tx = j.tx
    BY DEF ReconJobs
  <2> QED
    BY <1>0, <2>1, <2>2 DEF ReconHolds, tableVars
<1>4. CASE ReconHeal(r)
  <2>1. PICK j \in reconJob[r] :
          /\ UpdateStateAndAudit(j.tx, j.internal, HealTarget(j.external))
          /\ reconJob' = [reconJob EXCEPT ![r] = {[j EXCEPT !.stage = "healed"]}]
          /\ UNCHANGED reconTodo
    BY <1>4 DEF ReconHeal
  <2>2. [j EXCEPT !.stage = "healed"].tx = j.tx
    BY DEF ReconJobs
  <2>3. row'[t] = row[t]
    BY <1>0, <2>1, PutElsewhere DEF UpdateStateAndAudit
  <2> QED
    BY <1>0, <2>1, <2>2, <2>3 DEF ReconHolds
<1> QED
  BY <1>1, <1>2, <1>3, <1>4, <1>5 DEF ReconRun

-----------------------------------------------------------------------------

LEMMA SettledStep ==
  ASSUME TypeOK, [Next]_vars, NEW t \in Tx, Settled(t), ~InHand(t)
  PROVE  row'[t].status = row[t].status /\ ~InHand(t)'
<1>0. /\ ~PollHolds(t) /\ ~RetryHolds(t) /\ ~HookHolds(t) /\ ~ReconHolds(t)
      /\ InHand(t)' <=> (PollHolds(t)' \/ RetryHolds(t)' \/ HookHolds(t)' \/ ReconHolds(t)')
      /\ Unasked(t) /\ Answered(t) /\ row[t].status # "RETRY_PENDING"
  BY DEF InHand, PollHolds, RetryHolds, HookHolds, ReconHolds, Settled, Unasked, Answered
<1>1. UNCHANGED pollVars => ~PollHolds(t)'
  BY <1>0 DEF pollVars, PollHolds
<1>2. UNCHANGED retryVars => ~RetryHolds(t)'
  BY <1>0 DEF retryVars, RetryHolds
<1>3. UNCHANGED hookVars => ~HookHolds(t)'
  BY <1>0 DEF hookVars, HookHolds
<1>4. UNCHANGED reconVars => ~ReconHolds(t)'
  BY <1>0 DEF reconVars, ReconHolds
<1>5. ASSUME NEW r \in PollRuns, Poller(r) PROVE row'[t].status = row[t].status /\ ~InHand(t)'
  BY <1>0, <1>2, <1>3, <1>4, <1>5, PollPassesBy DEF Poller
<1>6. ASSUME NEW r \in RetryRuns, Retrier(r) PROVE row'[t].status = row[t].status /\ ~InHand(t)'
  BY <1>0, <1>1, <1>3, <1>4, <1>6, RetryPassesBy DEF Retrier
<1>7. ASSUME NEW h \in Hooks, Callback(h) PROVE row'[t].status = row[t].status /\ ~InHand(t)'
  BY <1>0, <1>1, <1>2, <1>4, <1>7, HookPassesBy DEF Callback
<1>8. ASSUME NEW r \in ReconRuns, Reconciler(r) PROVE row'[t].status = row[t].status /\ ~InHand(t)'
  BY <1>0, <1>1, <1>2, <1>3, <1>8, ReconPassesBy DEF Reconciler
<1>9. ASSUME NEW u \in Tx, Onboard(u) \/ Clock(TimePasses(u))
      PROVE row'[t].status = row[t].status /\ ~InHand(t)'
  <2>1. row'[t].status = row[t].status
    <3>1. CASE Onboard(u)
      <4>1. u # t /\ Put(u, [row[u] EXCEPT !.status = "RECEIVED"])
        BY <3>1 DEF Onboard, Save, Settled, Absent
      <4> QED
        BY <4>1, PutElsewhere DEF TypeOK, TableTypeOK
    <3>2. CASE PollTimeArrives(u) \/ RetryTimeArrives(u)
      BY <3>2 DEF PollTimeArrives, RetryTimeArrives, TypeOK, TableTypeOK, Rows
    <3>3. CASE Ages(u) \/ GoesQuiet(u)
      BY <3>3 DEF Ages, GoesQuiet
    <3> QED
      BY <1>9, <3>1, <3>2, <3>3 DEF Clock, TimePasses
  <2> QED
    BY <1>0, <1>1, <1>2, <1>3, <1>4, <1>9, <2>1 DEF Onboard, Clock
<1>10. CASE \E e \in Ext : ProviderDecides(e)
  BY <1>0, <1>1, <1>2, <1>3, <1>4, <1>10 DEF ProviderDecides, tableVars
<1>11. CASE \E e \in Events, x \in Ext : ProviderPosts(e, x)
  <2>1. UNCHANGED <<pollVars, retryVars, reconVars, hookJob, row>>
    BY <1>11 DEF ProviderPosts, Post, tableVars
  <2> QED
    BY <1>0, <1>1, <1>2, <1>4, <2>1 DEF HookHolds
<1>12. CASE Crash
  BY <1>0, <1>12 DEF Crash, PollHolds, RetryHolds, HookHolds, ReconHolds, tableVars
<1>13. CASE UNCHANGED vars
  BY <1>0, <1>1, <1>2, <1>3, <1>4, <1>13 DEF vars, tableVars
<1> QED
  BY <1>5, <1>6, <1>7, <1>8, <1>9, <1>10, <1>11, <1>12, <1>13 DEF Next

(* Once a transaction is COMPLETED or FAILED and nobody holds an older      *)
(* reading of its row, no scheduler, callback or reconciliation changes its *)
(* status or picks it up again.                                             *)
THEOREM SettledForever == Spec => SettledStaysSettled
<1>1. ASSUME TypeOK, [Next]_vars, NEW t \in Tx
      PROVE  row[t].status \in {"COMPLETED", "FAILED"} /\ ~InHand(t) =>
               row'[t].status = row[t].status /\ ~InHand(t)'
  BY <1>1, SettledStep DEF Settled
<1>2. TypeOK /\ [Next]_vars =>
        [\A t \in Tx : row[t].status \in {"COMPLETED", "FAILED"} /\ ~InHand(t) =>
           row'[t].status = row[t].status /\ ~InHand(t)']_vars
  BY <1>1
<1> QED
  BY <1>2, TypeCorrect, PTL DEF Spec, SettledStaysSettled

-----------------------------------------------------------------------------
(* Corrections. *)

(* A run that goes on to record a correction has made it. *)
CorrectionInv ==
  /\ CorrectionIsReal
  /\ \A r \in ReconRuns : \A j \in reconJob[r] : j.stage = "healed" =>
       \E a \in audit : a.tx = j.tx /\ a.old = j.internal /\ a.new = HealTarget(j.external)

LEMMA CorrectionStep ==
  ASSUME TypeOK, CorrectionInv, [Next]_vars
  PROVE  CorrectionInv'
<1> USE DEF TypeOK, TableTypeOK, ReconTypeOK
<1>1. CASE audit \subseteq audit' /\ UNCHANGED reconVars
  BY <1>1 DEF CorrectionInv, CorrectionIsReal, reconVars
<1>2. ASSUME NEW r \in ReconRuns, ReconRun(r)
      PROVE  CorrectionInv'
  <2>1. CASE ReconFetch(r) \/ ReconHealFails(r) \/ \E x \in reconTodo[r] : ReconSkip(r, x)
    BY <2>1 DEF ReconFetch, ReconHealFails, ReconSkip, CorrectionInv, CorrectionIsReal, tableVars
  <2>2. CASE \E x \in reconTodo[r] : ReconAsk(r, x)
    <3>1. PICK x, w : reconJob' = [reconJob EXCEPT ![r] =
            {[tx |-> x.tx, internal |-> x.status, external |-> w, stage |-> "compare"]}]
      BY <2>2 DEF ReconAsk
    <3>2. UNCHANGED <<audit, reconResults>>
      BY <2>2 DEF ReconAsk, tableVars
    <3> QED
      BY <3>1, <3>2 DEF CorrectionInv, CorrectionIsReal
  <2>3. CASE ReconMatch(r) \/ SaveException(r)
    BY <2>3 DEF ReconMatch, SaveException, SaveResult, CorrectionInv, CorrectionIsReal, tableVars
  <2>6. CASE ReconReview(r)
    <3>1. PICK j \in reconJob[r] :
            /\ SaveResult(j, "MANUAL_REVIEW") \/ UNCHANGED reconResults
            /\ reconJob' = [reconJob EXCEPT ![r] = {[j EXCEPT !.stage = "review"]}]
            /\ UNCHANGED audit
      BY <2>6 DEF ReconReview, tableVars
    <3>2. [j EXCEPT !.stage = "review"].stage = "review"
      BY DEF ReconJobs
    <3>3. CorrectionIsReal'
      BY <3>1 DEF SaveResult, CorrectionInv, CorrectionIsReal
    <3>4. \A q \in ReconRuns : \A k \in reconJob'[q] : k \in reconJob[q] \/ k.stage = "review"
      BY <3>1, <3>2
    <3> QED
      BY <3>1, <3>3, <3>4 DEF CorrectionInv
  <2>4. CASE ReconSaveHealed(r)
    BY <2>4 DEF ReconSaveHealed, SaveResult, CorrectionInv, CorrectionIsReal, tableVars
  <2>5. CASE ReconHeal(r)
    <3>1. PICK j \in reconJob[r] :
            /\ UpdateStateAndAudit(j.tx, j.internal, HealTarget(j.external))
            /\ reconJob' = [reconJob EXCEPT ![r] = {[j EXCEPT !.stage = "healed"]}]
            /\ UNCHANGED reconResults
      BY <2>5 DEF ReconHeal
    <3> DEFINE job == [j EXCEPT !.stage = "healed"]
    <3>2. job.tx = j.tx /\ job.internal = j.internal /\ job.external = j.external
      BY DEF ReconJobs
    <3>3. reconJob' = [reconJob EXCEPT ![r] = {job}]
      BY <3>1
    <3> HIDE DEF job
    <3>4. /\ audit \subseteq audit'
          /\ \E a \in audit' : a.tx = j.tx /\ a.old = j.internal /\ a.new = HealTarget(j.external)
      <4> DEFINE a == [tx |-> j.tx, old |-> j.internal, new |-> HealTarget(j.external),
                       was |-> row[j.tx].status]
      <4>1. audit' = audit \cup {a}
        BY <3>1 DEF UpdateStateAndAudit
      <4>2. a.tx = j.tx /\ a.old = j.internal /\ a.new = HealTarget(j.external)
        OBVIOUS
      <4> HIDE DEF a
      <4> QED
        BY <4>1, <4>2
    <3>5. CorrectionIsReal'
      BY <3>1, <3>4 DEF CorrectionInv, CorrectionIsReal
    <3>6. \A q \in ReconRuns : \A k \in reconJob'[q] : k \in reconJob[q] \/ k = job
      BY <3>3
    <3> QED
      BY <3>2, <3>4, <3>5, <3>6 DEF CorrectionInv
  <2> QED
    BY <1>2, <2>1, <2>2, <2>3, <2>4, <2>5, <2>6 DEF ReconRun
<1>3. CASE Crash
  BY <1>3 DEF Crash, CorrectionInv, CorrectionIsReal, tableVars
<1>4. CASE \E r \in PollRuns : Poller(r)
  BY <1>1, <1>4 DEF Poller, PollRun, PollFetch, PollExpire, PollSkip, PollAsk, PollWrite, tableVars
<1>5. CASE \E r \in RetryRuns : Retrier(r)
  BY <1>1, <1>5 DEF Retrier, RetryRun, RetryFetch, RetryMark, RetrySubmit, RetryRecord,
                    SaveRetryAudit, tableVars
<1>6. CASE \E h \in Hooks : Callback(h)
  BY <1>1, <1>6 DEF Callback, HookRun, HookReceive, HookFind, HookDismiss, HookWrite, tableVars
<1>7. CASE \E t \in Tx : Onboard(t) \/ Clock(TimePasses(t))
  BY <1>1, <1>7 DEF Onboard, Save, Clock, TimePasses, PollTimeArrives, RetryTimeArrives, Ages,
                    GoesQuiet
<1>8. CASE \/ \E e \in Ext : ProviderDecides(e)
           \/ \E e \in Events, x \in Ext : ProviderPosts(e, x)
           \/ UNCHANGED vars
  BY <1>1, <1>8 DEF ProviderDecides, ProviderPosts, Post, vars, tableVars
<1> QED
  BY <1>2, <1>3, <1>4, <1>5, <1>6, <1>7, <1>8 DEF Next, Reconciler

(* A result AUTO_CORRECTED is recorded only after the state machine         *)
(* committed that very correction, crashes and failures included.           *)
THEOREM CorrectionsReal == Spec => []CorrectionIsReal
<1>1. Init => CorrectionInv
  BY DEF Init, ReconInit, CorrectionInv, CorrectionIsReal
<1>2. TypeOK /\ CorrectionInv /\ [Next]_vars => CorrectionInv'
  BY CorrectionStep
<1>3. CorrectionInv => CorrectionIsReal
  BY DEF CorrectionInv
<1> QED
  BY <1>1, <1>2, <1>3, TypeCorrect, PTL DEF Spec

(* Both the status a correction replaced and the one it stored have a       *)
(* decision behind them.                                                    *)
AuditInv ==
  \A a \in audit :
    /\ a.tx \in Tx /\ a.new \in {"COMPLETED", "FAILED"}
    /\ Justified(a.tx, a.was) /\ Justified(a.tx, a.new)

LEMMA AuditStep ==
  ASSUME Parts, AuditInv, [Next]_vars
  PROVE  AuditInv'
<1>0. TypeOK /\ Grows
  BY StepParts DEF Parts
<1>1. \A a \in audit : /\ a.tx \in Tx /\ a.new \in {"COMPLETED", "FAILED"}
                       /\ Justified(a.tx, a.was)' /\ Justified(a.tx, a.new)'
  BY <1>0, JustifiedGrows DEF AuditInv
<1>2. CASE UNCHANGED audit
  BY <1>1, <1>2 DEF AuditInv
<1>3. ASSUME NEW r \in ReconRuns, ReconHeal(r)
      PROVE  AuditInv'
  <2>1. PICK j \in reconJob[r] :
          /\ HealTarget(j.external) # "none"
          /\ UpdateStateAndAudit(j.tx, j.internal, HealTarget(j.external))
    BY <1>3 DEF ReconHeal
  <2>2. PICK s : s = HealTarget(j.external)
    OBVIOUS
  <2>3. /\ j.tx \in Tx /\ s \in {"COMPLETED", "FAILED"}
        /\ Justified(j.tx, s) /\ Justified(j.tx, row[j.tx].status)
    BY <2>1, <2>2, <1>0 DEF Parts, ReconInv, RowInv, TypeOK, ReconTypeOK, ReconJobs, HealTarget
  <2>4. PICK a : a = [tx |-> j.tx, old |-> j.internal, new |-> s, was |-> row[j.tx].status]
    OBVIOUS
  <2>5. audit' = audit \cup {a}
    BY <2>1, <2>2, <2>4 DEF UpdateStateAndAudit
  <2>6. /\ a.tx \in Tx /\ a.new \in {"COMPLETED", "FAILED"}
        /\ Justified(a.tx, a.was) /\ Justified(a.tx, a.new)
    BY <2>3, <2>4
  <2>7. Justified(a.tx, a.was)' /\ Justified(a.tx, a.new)'
    BY <1>0, <2>6, JustifiedGrows
  <2> QED
    BY <1>1, <2>5, <2>6, <2>7 DEF AuditInv
<1>4. CASE \E r \in ReconRuns : Reconciler(r)
  BY <1>2, <1>3, <1>4
     DEF Reconciler, ReconRun, ReconFetch, ReconSkip, ReconAsk, ReconMatch, ReconHealFails,
         ReconSaveHealed, ReconReview, SaveException, tableVars
<1>5. CASE \/ \E r \in PollRuns : Poller(r)
           \/ \E r \in RetryRuns : Retrier(r)
           \/ \E h \in Hooks : Callback(h)
  BY <1>2, <1>5
     DEF Poller, PollRun, PollFetch, PollExpire, PollSkip, PollAsk, PollWrite,
         Retrier, RetryRun, RetryFetch, RetryMark, RetrySubmit, RetryRecord, SaveRetryAudit,
         Callback, HookRun, HookReceive, HookFind, HookDismiss, HookWrite, tableVars
<1>6. CASE \/ \E t \in Tx : Onboard(t) \/ Clock(TimePasses(t))
           \/ \E e \in Ext : ProviderDecides(e)
           \/ \E e \in Events, x \in Ext : ProviderPosts(e, x)
           \/ Crash \/ UNCHANGED vars
  BY <1>2, <1>6
     DEF Onboard, Save, Clock, TimePasses, PollTimeArrives, RetryTimeArrives, Ages, GoesQuiet,
         ProviderDecides, ProviderPosts, Post, Crash, vars, tableVars
<1> QED
  BY <1>4, <1>5, <1>6 DEF Next

(* A correction made on a reading however old, over a row however changed   *)
(* since, reverses a decision only if the provider gave two answers on that *)
(* transaction.                                                             *)
THEOREM NothingReversed == Spec => []HealingReversesNothing
<1>1. Init => AuditInv
  BY DEF Init, TransactionsInit, AuditInv
<1>2. Parts /\ AuditInv /\ [Next]_vars => AuditInv'
  BY AuditStep
<1>3. Spec => []Parts
  BY InitParts, StepParts, PTL DEF Spec
<1>4. AuditInv => HealingReversesNothing
  BY DEF AuditInv, HealingReversesNothing, AnsweredTwice, Justified, Approved, TurnedDown
<1> QED
  BY <1>1, <1>2, <1>3, <1>4, PTL DEF Spec

-----------------------------------------------------------------------------
(* Transactions the provider has not been seen to take in. *)

(* The workers that ask the provider ask about a request id, and a          *)
(* transaction that onboarding has just stored is held by no retry run.     *)
RestInv ==
  /\ \A r \in PollRuns : \A x \in pollTodo[r] : x.ext # NoExt
  /\ \A r \in ReconRuns : \A x \in reconTodo[r] : x.ext # NoExt
  /\ \A t \in Tx : row[t].status \in {Absent, "RECEIVED"} =>
       row[t].ext = NoExt /\ ~RetryHolds(t)

(* A row without a request id is out of the poller's, the callbacks' and    *)
(* reconciliation's reach.                                                  *)
LEMMA UnknownUnheld ==
  ASSUME IInv, RestInv, NEW t \in Tx, row[t].ext = NoExt
  PROVE  /\ ~PollHolds(t) /\ ~HookHolds(t) /\ ~ReconHolds(t)
         /\ Unasked(t) /\ Answered(t)
<1>1. ~PollHolds(t)
  BY DEF IInv, PollInv, RestInv, PollHolds, Tracked
<1>2. ~HookHolds(t)
  BY IdAssumption DEF IInv, HookInv, HookHolds, Tracked
<1>3. ~ReconHolds(t)
  BY DEF IInv, ReconInv, RestInv, ReconHolds, Tracked
<1> QED
  BY <1>1, <1>2, <1>3 DEF IInv, TrackedAtProvider, Unasked, Answered

(* What each worker puts into a row it changes. *)
Reported(t) == row'[t].status \in {"PROCESSING", "COMPLETED", "FAILED", "TIMEOUT"}

LEMMA PollReports ==
  ASSUME TypeOK, NEW t \in Tx, NEW r \in PollRuns, PollRun(r)
  PROVE  row'[t] = row[t] \/ Reported(t)
<1> USE DEF TypeOK, TableTypeOK, PollTypeOK
<1>1. ASSUME NEW u \in Tx, NEW s \in {"PROCESSING", "COMPLETED", "FAILED", "TIMEOUT"},
             NEW n \in When, NEW c \in BOOLEAN, UpdatePollingStatus(u, s, n, c)
      PROVE  row'[t] = row[t] \/ Reported(t)
  BY <1>1, PollingStatement DEF Rewrites, Reported, Statuses
<1>2. CASE PollWrite(r)
  <2>1. PICK a \in pollAnswer[r] :
          \/ /\ a.status = "PROCESSING"
             /\ UpdatePollingStatus(a.tx, a.status, "later", FALSE)
          \/ /\ a.status # "PROCESSING"
             /\ UpdatePollingStatus(a.tx, a.status, "null", TRUE)
          \/ DbError
    BY <1>2 DEF PollWrite
  <2>2. a.tx \in Tx /\ a.status \in {"PROCESSING", "COMPLETED", "FAILED"}
    OBVIOUS
  <2>3. CASE DbError
    BY <2>3 DEF DbError
  <2> QED
    BY <1>1, <2>1, <2>2, <2>3 DEF When
<1>3. CASE \E x \in pollTodo[r] : PollExpire(r, x) \/ PollSkip(r, x) \/ PollAsk(r, x)
  BY <1>1, <1>3 DEF PollExpire, PollSkip, PollAsk, DbError, When, PollItems, tableVars
<1>4. CASE PollFetch(r)
  BY <1>4 DEF PollFetch, tableVars
<1> QED
  BY <1>2, <1>3, <1>4 DEF PollRun

LEMMA HookReports ==
  ASSUME TypeOK, NEW t \in Tx, NEW h \in Hooks, HookRun(h)
  PROVE  row'[t] = row[t] \/ Reported(t)
<1> USE DEF TypeOK, TableTypeOK, HookTypeOK
<1>1. CASE HookWrite(h)
  <2>1. PICK j \in hookJob[h] :
          /\ j.tx # NoTx
          /\ \/ UpdateWebhookStatus(j.tx, MapProviderStatus(j.word),
                                    MapProviderStatus(j.word) \in {"COMPLETED", "FAILED"})
             \/ DbError
    BY <1>1 DEF HookWrite
  <2>2. j.tx \in Tx /\ MapProviderStatus(j.word) \in {"PROCESSING", "COMPLETED", "FAILED"}
    BY <2>1 DEF HookJobs, MapProviderStatus
  <2>3. MapProviderStatus(j.word) \in Statuses
    BY <2>2 DEF Statuses
  <2>4. CASE DbError
    BY <2>4 DEF DbError
  <2>5. CASE UpdateWebhookStatus(j.tx, MapProviderStatus(j.word),
                                 MapProviderStatus(j.word) \in {"COMPLETED", "FAILED"})
    <3> DEFINE w == MapProviderStatus(j.word)
               c == w \in {"COMPLETED", "FAILED"}
    <3>1. c \in BOOLEAN /\ UpdateWebhookStatus(j.tx, w, c)
      BY <2>5
    <3>2. w \in Statuses /\ w \in {"PROCESSING", "COMPLETED", "FAILED"} /\ j.tx \in Tx
      BY <2>2, <2>3
    <3> HIDE DEF w, c
    <3>3. Rewrites(j.tx, w, row[j.tx].ext, row[j.tx].retries)
      BY <3>1, <3>2, WebhookStatement
    <3> QED
      BY <3>2, <3>3 DEF Rewrites, Reported
  <2> QED
    BY <2>1, <2>4, <2>5
<1>2. CASE HookDismiss(h)
  BY <1>2 DEF HookDismiss, tableVars
<1>3. CASE \E p \in posted : HookReceive(h, p)
  BY <1>3 DEF HookReceive, tableVars
<1>4. CASE \E u \in Tx : HookFind(h, u)
  BY <1>4 DEF HookFind, tableVars
<1> QED
  BY <1>1, <1>2, <1>3, <1>4 DEF HookRun

LEMMA ReconReports ==
  ASSUME TypeOK, NEW t \in Tx, NEW r \in ReconRuns, ReconRun(r)
  PROVE  row'[t] = row[t] \/ Reported(t)
<1> USE DEF TypeOK, ReconTypeOK
<1>1. CASE ReconHeal(r)
  <2>1. PICK j \in reconJob[r] :
          /\ HealTarget(j.external) # "none"
          /\ UpdateStateAndAudit(j.tx, j.internal, HealTarget(j.external))
    BY <1>1 DEF ReconHeal
  <2>2. /\ j.tx \in Tx /\ j.internal \in Statuses
        /\ HealTarget(j.external) \in {"COMPLETED", "FAILED"}
    BY <2>1 DEF ReconJobs, HealTarget
  <2>3. HealTarget(j.external) \in Statuses
    BY <2>2 DEF Statuses
  <2> QED
    BY <2>1, <2>2, <2>3, StateStatement DEF Rewrites, Reported
<1>2. CASE ReconFetch(r) \/ \E x \in reconTodo[r] : ReconSkip(r, x) \/ ReconAsk(r, x)
  BY <1>2 DEF ReconFetch, ReconSkip, ReconAsk, tableVars
<1>3. CASE \/ ReconMatch(r) \/ ReconHealFails(r) \/ ReconSaveHealed(r)
           \/ ReconReview(r) \/ SaveException(r)
  BY <1>3 DEF ReconMatch, ReconHealFails, ReconSaveHealed, ReconReview, SaveException, tableVars
<1> QED
  BY <1>1, <1>2, <1>3 DEF ReconRun

LEMMA RetryReports ==
  ASSUME TypeOK, RetryWorkInv, NEW t \in Tx, NEW r \in RetryRuns, RetryRun(r)
  PROVE  row'[t] = row[t] \/ row'[t].status \notin {Absent, "RECEIVED"}
<1> USE DEF TypeOK, TableTypeOK, RetryTypeOK
<1>1. ASSUME NEW u \in Tx, NEW n \in 0..MaxRetries, NEW w \in When,
             NEW s \in Statuses \ {"RECEIVED"}, MarkForRetry(u, s, n, w)
      PROVE  row'[t] = row[t] \/ row'[t].status \notin {Absent, "RECEIVED"}
  BY <1>1, RetryStatement DEF Rewrites, Statuses, Absent
<1>2. ASSUME NEW x \in retryTodo[r], RetryMark(r, x)
      PROVE  row'[t] = row[t] \/ row'[t].status \notin {Absent, "RECEIVED"}
  <2>1. x.tx \in Tx /\ x.retries \in 0..MaxRetries
    BY DEF RetryItems
  <2> QED
    BY <1>1, <1>2, <2>1 DEF RetryMark, DbError, Statuses, When
<1>3. CASE RetryRecord(r)
  <2>1. PICK j \in retryJob[r] : j.stage = "record" /\ (StoreResult(j) \/ DbError)
    BY <1>3 DEF RetryRecord
  <2>2. j.tx \in Tx /\ j.attempt \in 0..MaxRetries /\ (j.result = "SUCCESS" => j.ext \in Ext)
    BY <2>1 DEF RetryJobs, RetryWorkInv
  <2>3. CASE DbError
    BY <2>3 DEF DbError
  <2>4. CASE j.result = "SUCCESS" /\ UpdateProviderDetails(j.tx, j.ext, "ACCEPTED")
    BY <2>2, <2>4, DetailsStatement DEF Rewrites, Statuses, Absent
  <2>5. CASE \E s \in {"FAILED", "TIMEOUT", "RETRY_PENDING"}, w \in {"null", "later"} :
               MarkForRetry(j.tx, s, j.attempt, w)
    BY <1>1, <2>2, <2>5 DEF Statuses, When
  <2> QED
    BY <2>1, <2>3, <2>4, <2>5 DEF StoreResult
<1>4. CASE RetryFetch(r) \/ RetrySubmit(r) \/ SaveRetryAudit(r)
  BY <1>4 DEF RetryFetch, RetrySubmit, SaveRetryAudit, tableVars
<1> QED
  BY <1>2, <1>3, <1>4 DEF RetryRun

(* A step of a worker that asks the provider leaves a row without a request *)
(* id alone and cannot bring a row to a status that only onboarding and     *)
(* retries give.                                                            *)
AskerRun ==
  \/ \E r \in PollRuns : Poller(r)
  \/ \E h \in Hooks : Callback(h)
  \/ \E r \in ReconRuns : Reconciler(r)

LEMMA AskersPassBy ==
  ASSUME IInv, RestInv, AskerRun, NEW t \in Tx
  PROVE  /\ UNCHANGED retryVars
         /\ row'[t] = row[t] \/ Reported(t)
         /\ row[t].ext = NoExt => row'[t] = row[t]
<1> USE DEF IInv
<1>1. ASSUME NEW r \in PollRuns, Poller(r)
      PROVE  /\ UNCHANGED retryVars
             /\ row'[t] = row[t] \/ Reported(t)
             /\ row[t].ext = NoExt => row'[t] = row[t]
  BY <1>1, PollPassesBy, PollReports, UnknownUnheld DEF Poller
<1>2. ASSUME NEW h \in Hooks, Callback(h)
      PROVE  /\ UNCHANGED retryVars
             /\ row'[t] = row[t] \/ Reported(t)
             /\ row[t].ext = NoExt => row'[t] = row[t]
  BY <1>2, HookPassesBy, HookReports, UnknownUnheld DEF Callback
<1>3. ASSUME NEW r \in ReconRuns, Reconciler(r)
      PROVE  /\ UNCHANGED retryVars
             /\ row'[t] = row[t] \/ Reported(t)
             /\ row[t].ext = NoExt => row'[t] = row[t]
  BY <1>3, ReconPassesBy, ReconReports, UnknownUnheld DEF Reconciler
<1> QED
  BY <1>1, <1>2, <1>3 DEF AskerRun

(* Whatever else happens touches a row only when it is stored or when one   *)
(* of its times comes.                                                      *)
OtherStep ==
  \/ \E t \in Tx : Onboard(t) \/ Clock(TimePasses(t))
  \/ \E e \in Ext : ProviderDecides(e)
  \/ \E e \in Events, x \in Ext : ProviderPosts(e, x)
  \/ Crash
  \/ UNCHANGED vars

LEMMA OthersPassBy ==
  ASSUME TypeOK, OtherStep, NEW t \in Tx
  PROVE  /\ row'[t].ext = row[t].ext /\ row'[t].retries = row[t].retries
         /\ \/ row'[t].status = row[t].status
            \/ row[t].status = Absent /\ row'[t].status = "RECEIVED"
         /\ submits' = submits
         /\ \A r \in RetryRuns : /\ retryTodo'[r] \subseteq retryTodo[r]
                                 /\ retryJob'[r] \subseteq retryJob[r]
<1> USE DEF TypeOK, TableTypeOK, RetryTypeOK
<1>1. ASSUME NEW u \in Tx, Onboard(u) \/ Clock(TimePasses(u))
      PROVE  /\ row'[t].ext = row[t].ext /\ row'[t].retries = row[t].retries
             /\ \/ row'[t].status = row[t].status
                \/ row[t].status = Absent /\ row'[t].status = "RECEIVED"
             /\ UNCHANGED retryVars
  <2>1. CASE Onboard(u)
    BY <2>1 DEF Onboard, Save, Put, Rows
  <2>2. CASE Clock(PollTimeArrives(u) \/ RetryTimeArrives(u))
    <3>1. \/ row' = [row EXCEPT ![u] = [row[u] EXCEPT !.nextPoll = "due"]]
          \/ row' = [row EXCEPT ![u] = [row[u] EXCEPT !.nextRetry = "due"]]
      BY <2>2 DEF Clock, PollTimeArrives, RetryTimeArrives
    <3>2. /\ row'[t].ext = row[t].ext /\ row'[t].retries = row[t].retries
          /\ row'[t].status = row[t].status
      BY <3>1 DEF Rows
    <3> QED
      BY <2>2, <3>2 DEF Clock
  <2>3. CASE Clock(Ages(u) \/ GoesQuiet(u))
    BY <2>3 DEF Clock, Ages, GoesQuiet
  <2> QED
    BY <1>1, <2>1, <2>2, <2>3 DEF TimePasses, Clock
<1>2. CASE \/ \E e \in Ext : ProviderDecides(e)
           \/ \E e \in Events, x \in Ext : ProviderPosts(e, x)
           \/ UNCHANGED vars
  BY <1>2 DEF ProviderDecides, ProviderPosts, Post, vars, tableVars, retryVars
<1>3. CASE Crash
  BY <1>3 DEF Crash, tableVars
<1> QED
  BY <1>1, <1>2, <1>3 DEF OtherStep, retryVars

LEMMA Steps ==
  [Next]_vars => AskerRun \/ OtherStep \/ \E r \in RetryRuns : Retrier(r)
BY DEF Next, AskerRun, OtherStep

LEMMA RestStep ==
  ASSUME IInv, RestInv, [Next]_vars
  PROVE  RestInv'
<1> USE DEF IInv, TypeOK, TableTypeOK
<1>0. OtherStep => /\ \A r \in PollRuns : pollTodo'[r] \subseteq pollTodo[r]
                   /\ \A r \in ReconRuns : reconTodo'[r] \subseteq reconTodo[r]
  <2>1. CASE OtherStep /\ UNCHANGED <<pollVars, reconVars>>
    BY <2>1 DEF pollVars, reconVars
  <2>2. CASE Crash
    BY <2>2 DEF Crash
  <2> QED
    BY <2>1, <2>2 DEF OtherStep, Onboard, Clock, ProviderDecides, ProviderPosts, vars
<1>1. \A r \in PollRuns : \A x \in pollTodo'[r] : x.ext # NoExt
  <2>1. CASE \E r \in PollRuns : Poller(r)
    <3> PICK r \in PollRuns : PollRun(r)
      BY <2>1 DEF Poller
    <3>1. CASE PollFetch(r)
      BY <3>1 DEF PollFetch, FindEligibleForPolling, TrackedAtProvider, RestInv, PollTypeOK
    <3>2. CASE PollWrite(r) \/ \E x \in pollTodo[r] : PollExpire(r, x) \/ PollSkip(r, x) \/ PollAsk(r, x)
      <4>1. \A q \in PollRuns : pollTodo'[q] \subseteq pollTodo[q]
        <5>1. CASE PollWrite(r)
          BY <5>1 DEF PollWrite
        <5>2. CASE \E x \in pollTodo[r] : PollTake(r, x)
          BY <5>2 DEF PollTake, PollTypeOK
        <5> QED
          BY <3>2, <5>1, <5>2 DEF PollExpire, PollSkip, PollAsk
      <4> QED
        BY <4>1 DEF RestInv
    <3> QED
      BY <3>1, <3>2 DEF PollRun
  <2>2. CASE \/ \E r \in RetryRuns : Retrier(r)
             \/ \E h \in Hooks : Callback(h)
             \/ \E r \in ReconRuns : Reconciler(r)
    BY <2>2 DEF Retrier, Callback, Reconciler, pollVars, RestInv
  <2>3. CASE OtherStep
    BY <2>3, <1>0 DEF RestInv
  <2> QED
    BY <2>1, <2>2, <2>3, Steps DEF AskerRun
<1>2. \A r \in ReconRuns : \A x \in reconTodo'[r] : x.ext # NoExt
  <2>1. CASE \E r \in ReconRuns : Reconciler(r)
    <3> PICK r \in ReconRuns : ReconRun(r)
      BY <2>1 DEF Reconciler
    <3>1. CASE ReconFetch(r)
      BY <3>1 DEF ReconFetch, FindStuckTransactions, TrackedAtProvider, RestInv, ReconTypeOK
    <3>2. CASE \E x \in reconTodo[r] : ReconSkip(r, x) \/ ReconAsk(r, x)
      BY <3>2 DEF ReconSkip, ReconAsk, RestInv, ReconTypeOK
    <3>3. CASE \/ ReconMatch(r) \/ ReconHeal(r) \/ ReconHealFails(r) \/ ReconSaveHealed(r)
               \/ ReconReview(r) \/ SaveException(r)
      BY <3>3 DEF ReconMatch, ReconHeal, ReconHealFails, ReconSaveHealed, ReconReview,
                  SaveException, RestInv
    <3> QED
      BY <3>1, <3>2, <3>3 DEF ReconRun
  <2>2. CASE \/ \E r \in RetryRuns : Retrier(r)
             \/ \E h \in Hooks : Callback(h)
             \/ \E r \in PollRuns : Poller(r)
    BY <2>2 DEF Retrier, Callback, Poller, reconVars, RestInv
  <2>3. CASE OtherStep
    BY <2>3, <1>0 DEF RestInv
  <2> QED
    BY <2>1, <2>2, <2>3, Steps DEF AskerRun
<1>3. ASSUME NEW t \in Tx, row'[t].status \in {Absent, "RECEIVED"}
      PROVE  row'[t].ext = NoExt /\ ~RetryHolds(t)'
  <2>1. row[t].status \in {Absent, "RECEIVED"} =>
          row[t].ext = NoExt /\ ~RetryHolds(t) /\ row[t].status # "RETRY_PENDING"
    BY DEF RestInv, Absent
  <2>2. CASE AskerRun
    BY <1>3, <2>1, <2>2, AskersPassBy DEF Reported, Absent, RetryHolds, retryVars
  <2>3. CASE OtherStep
    BY <1>3, <2>1, <2>3, OthersPassBy DEF RetryHolds
  <2>4. CASE \E r \in RetryRuns : Retrier(r)
    BY <1>3, <2>1, <2>4, RetryPassesBy, RetryReports DEF Retrier, RetryInv
  <2> QED
    BY <2>2, <2>3, <2>4, Steps
<1> QED
  BY <1>1, <1>2, <1>3 DEF RestInv

LEMMA Rest == Spec => [](IInv /\ RestInv)
<1>1. Init => RestInv
  <2> SUFFICES ASSUME Init PROVE RestInv
    OBVIOUS
  <2>1. ASSUME NEW t \in Tx, row[t].status \in {Absent, "RECEIVED"}
        PROVE  row[t].ext = NoExt
    <3>1. row[t] \in StartRows
      BY DEF Init, TransactionsInit
    <3>2. CASE row[t] = NoRow
      BY <3>2 DEF NoRow
    <3>3. CASE row[t] = [NoRow EXCEPT !.status = "RETRY_PENDING", !.nextRetry = "later"]
      BY <2>1, <3>3 DEF NoRow, Absent
    <3>4. ASSUME NEW e \in Ext, row[t] = [NoRow EXCEPT !.status = "ACCEPTED", !.ext = e]
          PROVE  FALSE
      BY <2>1, <3>4 DEF NoRow, Absent
    <3> QED
      BY <3>1, <3>2, <3>3, <3>4 DEF StartRows
  <2>2. \A t \in Tx : ~RetryHolds(t)
    BY DEF Init, RetryInit, RetryHolds
  <2> QED
    BY <2>1, <2>2 DEF Init, PollInit, ReconInit, RestInv
<1>2. IInv /\ RestInv /\ [Next]_vars => RestInv'
  BY RestStep
<1> QED
  BY <1>1, <1>2, Invariance, PTL DEF Spec

(* No step, of any worker, under any interleaving, failure or crash, takes  *)
(* a transaction out of RECEIVED: handlers/merchant.go leaves it to a saga  *)
(* that nothing drives, and no worker selects it or comes upon it.          *)
THEOREM ReceivedForever == Spec => ReceivedKept
<1>1. ASSUME IInv, RestInv, [Next]_vars, NEW t \in Tx, row[t].status = "RECEIVED"
      PROVE  row'[t].status = "RECEIVED"
  <2>1. row[t].ext = NoExt /\ ~RetryHolds(t) /\ TypeOK
    BY <1>1 DEF RestInv, IInv
  <2>2. CASE AskerRun
    BY <1>1, <2>1, <2>2, AskersPassBy
  <2>3. CASE OtherStep
    BY <1>1, <2>1, <2>3, OthersPassBy DEF Absent
  <2>4. CASE \E r \in RetryRuns : Retrier(r)
    BY <1>1, <2>1, <2>4, RetryPassesBy DEF Retrier
  <2> QED
    BY <1>1, <2>2, <2>3, <2>4, Steps
<1>2. (IInv /\ RestInv) /\ [Next]_vars =>
        [\A t \in Tx : row[t].status = "RECEIVED" => row'[t].status = "RECEIVED"]_vars
  BY <1>1
<1> QED
  BY <1>2, Rest, PTL DEF Spec, ReceivedKept

-----------------------------------------------------------------------------
(* Retries that do not overlap. *)

Waiting(t) == row[t].status \in {"RETRY_PENDING", "RETRYING"}

(* What one run at a time and a database that does not fail keep: a         *)
(* transaction waits for a retry only before any submission of it was       *)
(* acknowledged, its row counts its submissions, the rows read are still as *)
(* they were, and the submission under way is the next one.                 *)
BoundInv ==
  /\ SubmitsBounded
  /\ \A t \in Tx : Waiting(t) => row[t].ext = NoExt
  /\ \A t \in Tx : row[t].status = "RETRY_PENDING" => submits[t] = row[t].retries
  /\ \A r \in RetryRuns : \A x \in retryTodo[r] :
       row[x.tx].status = "RETRY_PENDING" /\ row[x.tx].retries = x.retries
  /\ \A r \in RetryRuns : \A j \in retryJob[r] :
       /\ j.stage = "submit" => row[j.tx].status = "RETRYING" /\ submits[j.tx] = j.attempt - 1
       /\ j.stage = "record" => row[j.tx].status = "RETRYING" /\ submits[j.tx] = j.attempt

(* A step that leaves the rows waiting for a retry alone, puts no other row *)
(* among them, and changes nothing in a retry run's hands but to lose it.   *)
LEMMA BoundKept ==
  ASSUME TypeOK, BoundInv, submits' = submits,
         \A r \in RetryRuns : retryTodo'[r] \subseteq retryTodo[r] /\ retryJob'[r] \subseteq retryJob[r],
         \A t \in Tx : Waiting(t) \/ Waiting(t)' =>
           /\ row'[t].status = row[t].status
           /\ row'[t].ext = row[t].ext /\ row'[t].retries = row[t].retries
  PROVE  BoundInv'
<1>1. \A r \in RetryRuns : /\ \A x \in retryTodo[r] : x.tx \in Tx
                           /\ \A j \in retryJob[r] : j.tx \in Tx
  BY DEF TypeOK, RetryTypeOK, RetryItems, RetryJobs
<1>2. SubmitsBounded'
  BY DEF BoundInv, SubmitsBounded
<1>3. \A t \in Tx : /\ Waiting(t)' => row'[t].ext = NoExt
                    /\ row'[t].status = "RETRY_PENDING" => submits'[t] = row'[t].retries
  BY DEF BoundInv, Waiting
<1>4. \A r \in RetryRuns : \A x \in retryTodo'[r] :
        row'[x.tx].status = "RETRY_PENDING" /\ row'[x.tx].retries = x.retries
  BY <1>1 DEF BoundInv, Waiting
<1>5. \A r \in RetryRuns : \A j \in retryJob'[r] :
        /\ j.stage = "submit" => row'[j.tx].status = "RETRYING" /\ submits'[j.tx] = j.attempt - 1
        /\ j.stage = "record" => row'[j.tx].status = "RETRYING" /\ submits'[j.tx] = j.attempt
  BY <1>1 DEF BoundInv, Waiting
<1> QED
  BY <1>2, <1>3, <1>4, <1>5 DEF BoundInv

LEMMA BoundRetry ==
  ASSUME ~DbFails, \A r, s \in RetryRuns : r = s,
         IInv, BoundInv, NEW r \in RetryRuns, RetryRun(r)
  PROVE  BoundInv'
<1> USE DEF IInv, TypeOK, TableTypeOK, RetryTypeOK
<1>0. /\ \A x \in retryTodo[r] : x.tx \in Tx /\ x.retries \in 0..MaxRetries
      /\ \A j \in retryJob[r] : j.tx \in Tx /\ j.attempt \in 1..MaxRetries
      /\ \A q \in RetryRuns : q = r
  BY DEF RetryItems, RetryJobs, RetryInv, RetryWorkInv
<1>1. CASE RetryFetch(r)
  <2>1. /\ retryTodo'[r] = {[tx |-> t, retries |-> row[t].retries] : t \in FindPendingRetries}
        /\ retryJob'[r] = {} /\ UNCHANGED <<row, submits>>
    BY <1>1 DEF RetryFetch, tableVars
  <2>2. \A x \in retryTodo'[r] : row[x.tx].status = "RETRY_PENDING" /\ row[x.tx].retries = x.retries
    BY <2>1 DEF FindPendingRetries
  <2> QED
    BY <1>0, <2>1, <2>2 DEF BoundInv, SubmitsBounded, Waiting
<1>2. ASSUME NEW x \in retryTodo[r], RetryMark(r, x)
      PROVE  BoundInv'
  <2>1. x.tx \in Tx /\ x.retries \in 0..MaxRetries
    BY <1>0
  <2>2. Rewrites(x.tx, "RETRYING", row[x.tx].ext, x.retries)
    BY <1>2, <2>1, RetryStatement DEF RetryMark, DbError, Statuses, When
  <2>3. /\ retryTodo'[r] = retryTodo[r] \ {x} /\ UNCHANGED submits
        /\ \A j \in retryJob'[r] : j.tx = x.tx /\ j.attempt = x.retries + 1 /\ j.stage = "submit"
    BY <1>2 DEF RetryMark
  <2>4. \A y \in retryTodo'[r] : y.tx # x.tx /\ y.tx \in Tx
    BY <1>0, <2>3 DEF BoundInv, RetryItems
  <2>5. /\ row[x.tx].ext = NoExt /\ submits[x.tx] = x.retries
    BY <1>2, <2>1 DEF BoundInv, Waiting
  <2>6. /\ \A t \in Tx \ {x.tx} : row'[t] = row[t]
        /\ row'[x.tx].status = "RETRYING" /\ row'[x.tx].ext = NoExt
    BY <2>2, <2>5 DEF Rewrites
  <2>7. \A t \in Tx : /\ Waiting(t)' => row'[t].ext = NoExt
                      /\ row'[t].status = "RETRY_PENDING" => submits'[t] = row'[t].retries
    BY <2>3, <2>6 DEF BoundInv, Waiting
  <2>8. \A y \in retryTodo'[r] : row'[y.tx].status = "RETRY_PENDING" /\ row'[y.tx].retries = y.retries
    BY <2>3, <2>4, <2>6 DEF BoundInv
  <2>9. \A j \in retryJob'[r] : /\ row'[j.tx].status = "RETRYING" /\ submits'[j.tx] = j.attempt - 1
                                /\ j.stage = "submit"
    BY <2>1, <2>3, <2>5, <2>6
  <2> QED
    BY <1>0, <2>3, <2>7, <2>8, <2>9 DEF BoundInv, SubmitsBounded
<1>3. CASE RetrySubmit(r)
  <2>1. PICK j \in retryJob[r] :
          /\ j.stage = "submit"
          /\ submits' = [submits EXCEPT ![j.tx] = IF @ > MaxRetries THEN @ ELSE @ + 1]
          /\ \/ \E e \in Ext : Submitted(r, j, "SUCCESS", e)
             \/ Submitted(r, j, TechnicalResult(j.attempt), NoExt)
             \/ Submitted(r, j, "FAILED", NoExt)
          /\ UNCHANGED <<row, retryTodo>>
    BY <1>3 DEF RetrySubmit, tableVars
  <2>2. PICK result \in Results, e \in Ext \cup {NoExt} : Submitted(r, j, result, e)
    BY <2>1 DEF TechnicalResult, Results
  <2>3. \A k \in retryJob'[r] : k.tx = j.tx /\ k.attempt = j.attempt /\ k.stage = "record"
    <3> DEFINE k == [j EXCEPT !.stage = "record", !.result = result, !.ext = e]
    <3>1. k.tx = j.tx /\ k.attempt = j.attempt /\ k.stage = "record"
      BY DEF RetryJobs
    <3>2. retryJob'[r] = {k}
      BY <1>0, <2>2 DEF Submitted
    <3> HIDE DEF k
    <3> QED
      BY <3>1, <3>2
  <2>4. /\ row[j.tx].status = "RETRYING" /\ submits[j.tx] = j.attempt - 1
        /\ j.tx \in Tx /\ j.attempt \in 1..MaxRetries
    BY <1>0, <2>1 DEF BoundInv
  <2>5. /\ submits'[j.tx] = j.attempt
        /\ \A t \in Tx \ {j.tx} : submits'[t] = submits[t]
    BY <2>1, <2>4, RetryAssumption
  <2>6. SubmitsBounded'
    BY <2>4, <2>5, RetryAssumption DEF BoundInv, SubmitsBounded
  <2> QED
    BY <1>0, <2>1, <2>3, <2>4, <2>5, <2>6 DEF BoundInv, Waiting
<1>4. CASE RetryRecord(r)
  <2>1. PICK j \in retryJob[r] :
          /\ j.stage = "record" /\ StoreResult(j)
          /\ retryJob' = [retryJob EXCEPT ![r] = {[j EXCEPT !.stage = "audit"]}]
          /\ UNCHANGED <<retryTodo, submits>>
    BY <1>4 DEF RetryRecord, DbError
  <2>2. /\ row[j.tx].status = "RETRYING" /\ submits[j.tx] = j.attempt /\ row[j.tx].ext = NoExt
        /\ j.tx \in Tx /\ j.attempt \in 0..MaxRetries /\ (j.result = "SUCCESS" => j.ext \in Ext)
    BY <1>0, <2>1 DEF BoundInv, Waiting, RetryInv, RetryWorkInv
  <2>3. PICK s \in {"ACCEPTED", "FAILED", "TIMEOUT", "RETRY_PENDING"},
             e \in Ext \cup {NoExt}, n \in 0..MaxRetries :
          /\ Rewrites(j.tx, s, e, n)
          /\ s = "RETRY_PENDING" => e = NoExt /\ n = j.attempt
    <3>1. CASE j.result = "SUCCESS" /\ UpdateProviderDetails(j.tx, j.ext, "ACCEPTED")
      <4>1. Rewrites(j.tx, "ACCEPTED", j.ext, row[j.tx].retries)
        BY <2>2, <3>1, DetailsStatement DEF Statuses
      <4> QED
        BY <2>2, <3>1, <4>1 DEF Rows
    <3>2. ASSUME NEW s \in {"FAILED", "TIMEOUT", "RETRY_PENDING"}, NEW w \in {"null", "later"},
                 MarkForRetry(j.tx, s, j.attempt, w)
          PROVE  Rewrites(j.tx, s, NoExt, j.attempt)
      BY <2>2, <3>2, RetryStatement DEF Statuses, When
    <3> QED
      BY <2>1, <2>2, <3>1, <3>2 DEF StoreResult
  <2>4. /\ \A t \in Tx \ {j.tx} : row'[t] = row[t]
        /\ row'[j.tx].status = s /\ row'[j.tx].ext = e /\ row'[j.tx].retries = n
    BY <2>3 DEF Rewrites
  <2>5. \A t \in Tx : /\ Waiting(t)' => row'[t].ext = NoExt
                      /\ row'[t].status = "RETRY_PENDING" => submits'[t] = row'[t].retries
    BY <2>1, <2>2, <2>3, <2>4 DEF BoundInv, Waiting
  <2>6. \A y \in retryTodo'[r] : row'[y.tx].status = "RETRY_PENDING" /\ row'[y.tx].retries = y.retries
    BY <1>0, <2>1, <2>2, <2>4 DEF BoundInv
  <2>7. \A k \in retryJob'[r] : k.stage = "audit"
    BY <2>1 DEF RetryJobs
  <2> QED
    BY <1>0, <2>1, <2>5, <2>6, <2>7 DEF BoundInv, SubmitsBounded
<1>5. CASE SaveRetryAudit(r)
  BY <1>0, <1>5 DEF SaveRetryAudit, tableVars, BoundInv, SubmitsBounded, Waiting
<1> QED
  BY <1>1, <1>2, <1>3, <1>4, <1>5 DEF RetryRun

(* While no retry run starts before the last one has ended and no statement *)
(* fails, the provider is sent a transaction at most MaxRetries times,      *)
(* whatever the other workers, the provider and crashes do.  What breaks    *)
(* the limit is thus the overlap of runs, or a statement that fails.        *)
THEOREM SubmitsLimited ==
  ASSUME ~DbFails, \A r, s \in RetryRuns : r = s
  PROVE  Spec => []SubmitsBounded
<1>1. Init => BoundInv
  <2> SUFFICES ASSUME Init PROVE BoundInv
    OBVIOUS
  <2>1. ASSUME NEW t \in Tx, Waiting(t)
        PROVE  row[t].ext = NoExt /\ row[t].retries = 0
    <3>1. row[t] \in StartRows
      BY DEF Init, TransactionsInit
    <3>2. ASSUME NEW e \in Ext, row[t] = [NoRow EXCEPT !.status = "ACCEPTED", !.ext = e]
          PROVE  FALSE
      BY <2>1, <3>2 DEF NoRow, Waiting
    <3>3. CASE row[t] = NoRow
      BY <3>3 DEF NoRow
    <3>4. CASE row[t] = [NoRow EXCEPT !.status = "RETRY_PENDING", !.nextRetry = "later"]
      BY <3>4 DEF NoRow
    <3> QED
      BY <3>1, <3>2, <3>3, <3>4 DEF StartRows
  <2>2. SubmitsBounded /\ \A t \in Tx : submits[t] = 0
    BY RetryAssumption DEF Init, RetryInit, SubmitsBounded
  <2> QED
    BY <2>1, <2>2 DEF Init, RetryInit, BoundInv, Waiting
<1>2. ASSUME IInv, RestInv, BoundInv, [Next]_vars
      PROVE  BoundInv'
  <2>1. CASE AskerRun
    <3>1. \A t \in Tx : Waiting(t) \/ Waiting(t)' => row'[t] = row[t]
      BY <1>2, <2>1, AskersPassBy DEF BoundInv, Waiting, Reported
    <3>2. UNCHANGED retryVars
      BY <2>1 DEF AskerRun, Poller, Callback, Reconciler
    <3> QED
      BY <1>2, <3>1, <3>2, BoundKept DEF retryVars, IInv
  <2>2. CASE OtherStep
    <3>1. \A t \in Tx : Waiting(t) \/ Waiting(t)' =>
            /\ row'[t].status = row[t].status
            /\ row'[t].ext = row[t].ext /\ row'[t].retries = row[t].retries
      BY <1>2, <2>2, OthersPassBy DEF Waiting, Absent, IInv
    <3>2. /\ submits' = submits
          /\ \A r \in RetryRuns : retryTodo'[r] \subseteq retryTodo[r] /\ retryJob'[r] \subseteq retryJob[r]
      BY <2>2 DEF OtherStep, Onboard, Clock, ProviderDecides, ProviderPosts, Crash, vars, retryVars
    <3> QED
      BY <1>2, <3>1, <3>2, BoundKept DEF IInv
  <2>3. CASE \E r \in RetryRuns : Retrier(r)
    BY <1>2, <2>3, BoundRetry DEF Retrier
  <2> QED
    BY <1>2, <2>1, <2>2, <2>3, Steps
<1>3. BoundInv => SubmitsBounded
  BY DEF BoundInv
<1>4. (IInv /\ RestInv) /\ BoundInv /\ [Next]_vars => BoundInv'
  BY <1>2
<1> QED
  BY <1>1, <1>3, <1>4, Rest, PTL DEF Spec

=============================================================================
