--------------------------- MODULE OnboardingProofs ---------------------------
(***************************************************************************)
(* Proofs about Onboarding for any number of requests, keys, payloads and  *)
(* tracking ids.  The argument: a tracking id is drawn once, so a request  *)
(* that is about to store its idempotency record holds an id no record     *)
(* has; the record, once there, never changes, and every 202 repeats it.   *)
(***************************************************************************)
EXTENDS Onboarding, TLAPS

(* Stages in which a request has a tracking id of its own. *)
Owning == {"save", "create", "dispatch", "remember"}

RequestOK(q) ==
  /\ q.stage # "unsent" => q.key \in Keys /\ q.body \in Bodies
  /\ q.stage \in Owning => q.id \in used
  /\ q.stage \in {"create", "dispatch", "remember"} => q.id \in transactions
  /\ q.stage = "dispatch" => saga[q.id] # NoSaga
  /\ q.stage = "reply" => q.answer = "accepted"
  /\ (q.stage \in {"reply", "answered"} /\ q.answer = "accepted") =>
       /\ q.key \in Keys
       /\ record[q.key] # None
       /\ record[q.key].body = q.body /\ record[q.key].id = q.id

IdsApart ==
  \A r, s \in Reqs :
    r # s /\ req[r].stage \in Owning /\ req[s].stage \in Owning => req[r].id # req[s].id

RecordsOK ==
  /\ \A k \in Keys : record[k] # None =>
       /\ record[k].id \in transactions
       /\ \A r \in Reqs : req[r].stage \in Owning => req[r].id # record[k].id
  /\ \A k, l \in Keys : k # l /\ record[k] # None /\ record[l] # None =>
       record[k].id # record[l].id

Inv ==
  /\ TypeOK
  /\ \A r \in Reqs : RequestOK(req[r])
  /\ IdsApart /\ RecordsOK /\ SagaHasTransaction

LEMMA InitInv == Init => Inv
<1> SUFFICES ASSUME Init PROVE Inv
  OBVIOUS
<1> USE DEF Init, SagaInit
<1>1. Blank \in Requests /\ Blank.stage = "unsent" /\ Blank.answer = "none"
  BY DEF Blank, Requests, Stages, Answers
<1>2. TypeOK
  BY <1>1 DEF TypeOK, SagaTypeOK, SagaRows
<1>3. \A r \in Reqs : RequestOK(req[r])
  BY <1>1 DEF RequestOK, Owning
<1>4. IdsApart /\ RecordsOK
  BY <1>1 DEF IdsApart, RecordsOK, Owning
<1>5. SagaHasTransaction
  BY DEF SagaHasTransaction
<1> QED
  BY <1>2, <1>3, <1>4, <1>5 DEF Inv

(* A step that moves one request on and touches nothing else. *)
LEMMA MoveOn ==
  ASSUME Inv, NEW r \in Reqs, NEW q \in Requests,
         req' = [req EXCEPT ![r] = q], RequestOK(q),
         q.stage \in Owning => req[r].stage \in Owning /\ q.id = req[r].id,
         UNCHANGED <<record, transactions, used, crashes, sagaVars>>
  PROVE  Inv'
<1> USE DEF Inv
<1>1. TypeOK'
  BY DEF TypeOK, SagaTypeOK, sagaVars
<1>2. \A s \in Reqs : req'[s] = IF s = r THEN q ELSE req[s]
  BY DEF TypeOK
<1>3. (\A s \in Reqs : RequestOK(req[s]))'
  BY <1>2 DEF RequestOK, sagaVars
<1>4. IdsApart'
  BY <1>2 DEF IdsApart
<1>5. RecordsOK'
  BY <1>2 DEF RecordsOK
<1>6. SagaHasTransaction'
  BY DEF SagaHasTransaction, sagaVars
<1> QED
  BY <1>1, <1>3, <1>4, <1>5, <1>6

LEMMA SendStep ==
  ASSUME Inv, NEW r \in Reqs, NEW k \in Keys, NEW b \in Bodies, Send(r, k, b)
  PROVE  Inv'
<1> DEFINE q == [req[r] EXCEPT !.stage = "lookup", !.key = k, !.body = b]
<1>1. req[r] \in Requests
  BY DEF Inv, TypeOK
<1>2. q \in Requests /\ q.stage = "lookup" /\ q.key = k /\ q.body = b
  <2>1. q \in Requests
    BY <1>1 DEF Requests, Stages, Answers
  <2>2. q.stage = "lookup"
    BY <1>1 DEF Requests, Stages, Answers
  <2>3. q.key = k
    BY <1>1 DEF Requests, Stages, Answers
  <2>4. q.body = b
    BY <1>1 DEF Requests, Stages, Answers
  <2> QED
    BY <2>1, <2>2, <2>3, <2>4
<1>3. req' = [req EXCEPT ![r] = q]
  BY DEF Send
<1> HIDE DEF q
<1>4. RequestOK(q)
  BY <1>2 DEF RequestOK, Owning
<1> QED
  BY <1>2, <1>3, <1>4, MoveOn DEF Send, Owning

LEMMA RepeatStep ==
  ASSUME Inv, NEW r \in Reqs, Repeat(r)
  PROVE  Inv'
<1> DEFINE known == record[req[r].key]
<1>1. /\ req[r] \in Requests /\ req[r].stage = "lookup" /\ known # None
      /\ req[r].key \in Keys /\ req[r].body \in Bodies
      /\ UNCHANGED <<record, transactions, used, crashes, sagaVars>>
  BY DEF Inv, TypeOK, Repeat, RequestOK
<1>2. known \in Records /\ known.id \in Ids
  BY <1>1 DEF Inv, TypeOK, Records
<1>3. CASE Answer(r, "conflict")
  <2> DEFINE q == [req[r] EXCEPT !.stage = "answered", !.answer = "conflict"]
  <2>1. q \in Requests /\ q.stage = "answered" /\ q.answer = "conflict" /\ q.key = req[r].key /\ q.body = req[r].body
    BY <1>1 DEF Requests, Stages, Answers
  <2>2. req' = [req EXCEPT ![r] = q]
    BY <1>3 DEF Answer
  <2> HIDE DEF q
  <2>3. RequestOK(q)
    BY <1>1, <2>1 DEF RequestOK, Owning
  <2> QED
    BY <1>1, <2>1, <2>2, <2>3, MoveOn DEF Owning
<1>4. CASE /\ known.body = req[r].body
           /\ req' = [req EXCEPT ![r] =
                        [@ EXCEPT !.stage = "answered", !.answer = "accepted", !.id = known.id]]
  <2> DEFINE q == [req[r] EXCEPT !.stage = "answered", !.answer = "accepted", !.id = known.id]
  <2>1. /\ q \in Requests /\ q.stage = "answered" /\ q.answer = "accepted" /\ q.id = known.id
        /\ q.key = req[r].key /\ q.body = req[r].body
    BY <1>1, <1>2 DEF Requests, Stages, Answers
  <2>2. req' = [req EXCEPT ![r] = q]
    BY <1>4
  <2> HIDE DEF q
  <2>3. RequestOK(q)
    BY <1>1, <1>4, <2>1 DEF RequestOK, Owning
  <2> QED
    BY <1>1, <2>1, <2>2, <2>3, MoveOn DEF Owning
<1> QED
  BY <1>3, <1>4 DEF Repeat

LEMMA BeginStep ==
  ASSUME Inv, NEW r \in Reqs, Begin(r)
  PROVE  Inv'
<1>1. /\ req[r] \in Requests /\ req[r].stage = "lookup"
      /\ req[r].key \in Keys /\ req[r].body \in Bodies
      /\ UNCHANGED <<record, transactions, crashes, sagaVars>>
  BY DEF Inv, TypeOK, Begin, RequestOK
<1>2. CASE Answer(r, "malformed") /\ UNCHANGED used
  <2> DEFINE q == [req[r] EXCEPT !.stage = "answered", !.answer = "malformed"]
  <2>1. q \in Requests /\ q.stage = "answered" /\ q.answer = "malformed" /\ q.key = req[r].key /\ q.body = req[r].body
    BY <1>1 DEF Requests, Stages, Answers
  <2>2. req' = [req EXCEPT ![r] = q]
    BY <1>2 DEF Answer
  <2> HIDE DEF q
  <2>3. RequestOK(q)
    BY <1>1, <2>1 DEF RequestOK, Owning
  <2> QED
    BY <1>1, <1>2, <2>1, <2>2, <2>3, MoveOn DEF Owning
<1>3. CASE \E i \in Ids \ used :
             /\ req' = [req EXCEPT ![r] = [@ EXCEPT !.stage = "save", !.id = i]]
             /\ used' = used \cup {i}
  <2>1. PICK i \in Ids \ used :
             /\ req' = [req EXCEPT ![r] = [@ EXCEPT !.stage = "save", !.id = i]]
             /\ used' = used \cup {i}
    BY <1>3
  <2> DEFINE q == [req[r] EXCEPT !.stage = "save", !.id = i]
  <2>2. /\ q \in Requests /\ q.stage = "save" /\ q.id = i
        /\ q.key = req[r].key /\ q.body = req[r].body
    BY <1>1 DEF Requests, Stages, Answers
  <2>3. req' = [req EXCEPT ![r] = q]
    BY <2>1
  <2> HIDE DEF q
  <2>4. \A s \in Reqs : req'[s] = IF s = r THEN q ELSE req[s]
    BY <2>3 DEF Inv, TypeOK
  <2>5. TypeOK'
    BY <1>1, <2>1, <2>2, <2>3 DEF Inv, TypeOK, SagaTypeOK, sagaVars
  <2>6. (\A s \in Reqs : RequestOK(req[s]))'
    BY <1>1, <2>1, <2>2, <2>4 DEF Inv, RequestOK, Owning, sagaVars
  <2>7. IdsApart'
    BY <2>1, <2>2, <2>4 DEF Inv, IdsApart, RequestOK
  <2>8. RecordsOK'
    BY <1>1, <2>1, <2>2, <2>4 DEF Inv, RecordsOK, TypeOK
  <2>9. SagaHasTransaction'
    BY <1>1 DEF Inv, SagaHasTransaction, sagaVars
  <2> QED
    BY <2>5, <2>6, <2>7, <2>8, <2>9 DEF Inv
<1> QED
  BY <1>2, <1>3 DEF Begin

LEMMA SaveStep ==
  ASSUME Inv, NEW r \in Reqs, Save(r)
  PROVE  Inv'
<1>1. /\ req[r] \in Requests /\ req[r].stage = "save" /\ req[r].id \in used
      /\ req[r].key \in Keys /\ req[r].body \in Bodies
      /\ UNCHANGED <<record, used, crashes, sagaVars>>
  BY DEF Inv, TypeOK, Save, RequestOK, Owning
<1>2. PICK q \in Requests :
        /\ req' = [req EXCEPT ![r] = q]
        /\ q.key = req[r].key /\ q.body = req[r].body /\ q.id = req[r].id
        /\ transactions \subseteq transactions' /\ transactions' \subseteq transactions \cup {req[r].id}
        /\ \/ q.stage = "create" /\ req[r].id \in transactions'
           \/ q.stage = "answered" /\ q.answer = "error"
  <2>1. CASE transactions' = transactions \cup {req[r].id} /\ Goto(r, "create")
    <3> DEFINE q == [req[r] EXCEPT !.stage = "create"]
    <3>1. /\ q \in Requests /\ q.stage = "create" /\ q.id = req[r].id
          /\ q.key = req[r].key /\ q.body = req[r].body
      BY <1>1 DEF Requests, Stages, Answers
    <3>2. req' = [req EXCEPT ![r] = q]
      BY <2>1 DEF Goto
    <3> HIDE DEF q
    <3> QED
      BY <2>1, <3>1, <3>2
  <2>2. CASE Answer(r, "error") /\ transactions' \in {transactions, transactions \cup {req[r].id}}
    <3> DEFINE q == [req[r] EXCEPT !.stage = "answered", !.answer = "error"]
    <3>1. /\ q \in Requests /\ q.stage = "answered" /\ q.answer = "error" /\ q.id = req[r].id
          /\ q.key = req[r].key /\ q.body = req[r].body
      BY <1>1 DEF Requests, Stages, Answers
    <3>2. req' = [req EXCEPT ![r] = q]
      BY <2>2 DEF Answer
    <3> HIDE DEF q
    <3> QED
      BY <2>2, <3>1, <3>2
  <2> QED
    BY <2>1, <2>2 DEF Save
<1>3. \A s \in Reqs : req'[s] = IF s = r THEN q ELSE req[s]
  BY <1>2 DEF Inv, TypeOK
<1>4. TypeOK'
  BY <1>1, <1>2 DEF Inv, TypeOK, SagaTypeOK, sagaVars
<1>5. (\A s \in Reqs : RequestOK(req[s]))'
  BY <1>1, <1>2, <1>3 DEF Inv, RequestOK, Owning, sagaVars
<1>6. IdsApart'
  BY <1>1, <1>2, <1>3 DEF Inv, IdsApart, Owning
<1>7. RecordsOK'
  BY <1>1, <1>2, <1>3 DEF Inv, RecordsOK, Owning
<1>8. SagaHasTransaction'
  BY <1>1, <1>2 DEF Inv, SagaHasTransaction, sagaVars
<1> QED
  BY <1>4, <1>5, <1>6, <1>7, <1>8 DEF Inv

(* Both halves of Start, and their failures. *)
LEMMA SagaSteps ==
  ASSUME Inv, NEW r \in Reqs, StartSaga(r) \/ DispatchFirst(r)
  PROVE  Inv'
<1>1. /\ req[r] \in Requests /\ req[r].stage \in {"create", "dispatch"}
      /\ req[r].id \in used /\ req[r].id \in transactions /\ req[r].id \in Ids
      /\ req[r].key \in Keys /\ req[r].body \in Bodies
      /\ UNCHANGED <<record, transactions, used, crashes>>
  BY DEF Inv, TypeOK, StartSaga, DispatchFirst, RequestOK, Owning
<1>2. PICK q \in Requests :
        /\ req' = [req EXCEPT ![r] = q]
        /\ q.key = req[r].key /\ q.body = req[r].body /\ q.id = req[r].id
        /\ q.stage \in {"dispatch", "remember"}
        /\ q.stage = "dispatch" => CreateSaga(req[r].id, "VERIFY_IDENTITY")
  <2>1. ASSUME NEW stage \in {"dispatch", "remember"}, Goto(r, stage)
        PROVE \E q \in Requests :
                /\ req' = [req EXCEPT ![r] = q]
                /\ q.key = req[r].key /\ q.body = req[r].body /\ q.id = req[r].id
                /\ q.stage = stage
    <3> DEFINE q == [req[r] EXCEPT !.stage = stage]
    <3>1. /\ q \in Requests /\ q.stage = stage /\ q.id = req[r].id
          /\ q.key = req[r].key /\ q.body = req[r].body
      BY <1>1 DEF Requests, Stages, Answers
    <3>2. req' = [req EXCEPT ![r] = q]
      BY <2>1 DEF Goto
    <3> HIDE DEF q
    <3> QED
      BY <3>1, <3>2
  <2>2. \/ Goto(r, "dispatch") /\ CreateSaga(req[r].id, "VERIFY_IDENTITY")
        \/ Goto(r, "remember")
    BY DEF StartSaga, DispatchFirst
  <2>3. CASE Goto(r, "dispatch") /\ CreateSaga(req[r].id, "VERIFY_IDENTITY")
    BY <2>1, <2>3
  <2>4. CASE Goto(r, "remember")
    BY <2>1, <2>4
  <2> QED
    BY <2>2, <2>3, <2>4
<1>3. \A s \in Reqs : req'[s] = IF s = r THEN q ELSE req[s]
  BY <1>2 DEF Inv, TypeOK
<1>4. /\ SagaTypeOK' /\ SagaHasTransaction'
      /\ \A i \in Ids : saga[i] # NoSaga => saga'[i] # NoSaga
  <2>1. CASE UNCHANGED sagaVars
    BY <1>1, <2>1 DEF Inv, TypeOK, SagaTypeOK, SagaHasTransaction, sagaVars
  <2>2. CASE CreateSaga(req[r].id, "VERIFY_IDENTITY")
    <3> DEFINE new == [status |-> "STARTED", step |-> "VERIFY_IDENTITY"]
    <3>1. new \in SagaRows /\ new # NoSaga /\ NoSaga.status = "none"
      BY DEF SagaRows, SagaStatuses, Steps, NoSaga
    <3>2. saga' = [saga EXCEPT ![req[r].id] = new] /\ UNCHANGED <<sagaAudit, commands>>
      BY <2>2 DEF CreateSaga
    <3> HIDE DEF new
    <3>3. SagaTypeOK'
      BY <1>1, <3>1, <3>2 DEF Inv, TypeOK, SagaTypeOK
    <3>4. \A c \in commands : c.id # req[r].id
      BY <2>2, <3>1 DEF Inv, SagaHasTransaction, CreateSaga
    <3>5. \A i \in Ids : saga'[i] = IF i = req[r].id THEN new ELSE saga[i]
      BY <3>2 DEF Inv, TypeOK, SagaTypeOK
    <3>6. \A c \in commands : c.id \in Ids
      BY DEF Inv, TypeOK, SagaTypeOK
    <3> QED
      BY <1>1, <3>1, <3>2, <3>3, <3>4, <3>5, <3>6 DEF Inv, SagaHasTransaction
  <2>3. CASE /\ DispatchFirst(r)
             /\ AdvanceSaga(req[r].id, "IN_PROGRESS", "VERIFY_IDENTITY", "FORWARD")
    <3> DEFINE new == [status |-> "IN_PROGRESS", step |-> "VERIFY_IDENTITY"]
    <3> DEFINE command == [id |-> req[r].id, step |-> "VERIFY_IDENTITY", action |-> "FORWARD"]
    <3>1. new \in SagaRows /\ new # NoSaga /\ new.status = "IN_PROGRESS" /\ command.id = req[r].id
      BY DEF SagaRows, SagaStatuses, Steps, NoSaga
    <3>8. saga[req[r].id] # NoSaga
      BY <2>3 DEF Inv, RequestOK, DispatchFirst
    <3>2. saga' = [saga EXCEPT ![req[r].id] = new] /\ commands' = commands \cup {command}
      BY <2>3, <3>8 DEF AdvanceSaga, Inv, TypeOK, SagaTypeOK
    <3>3. sagaAudit' \subseteq [id : Ids, step : Steps, action : Actions,
                               result : {"PENDING", "SUCCESS", "FAILED"}]
      BY <1>1, <2>3 DEF AdvanceSaga, Inv, TypeOK, SagaTypeOK, Steps, Actions
    <3>4. command \in [id : Ids, step : Steps, action : Actions]
      BY <1>1 DEF Steps, Actions
    <3> HIDE DEF new, command
    <3>5. SagaTypeOK'
      BY <1>1, <3>1, <3>2, <3>3, <3>4 DEF Inv, TypeOK, SagaTypeOK
    <3>6. \A i \in Ids : saga'[i] = IF i = req[r].id THEN new ELSE saga[i]
      BY <3>2 DEF Inv, TypeOK, SagaTypeOK
    <3>7. \A c \in commands : c.id \in Ids
      BY DEF Inv, TypeOK, SagaTypeOK
    <3> QED
      BY <1>1, <3>1, <3>2, <3>5, <3>6, <3>7 DEF Inv, SagaHasTransaction
  <2> QED
    BY <2>1, <2>2, <2>3 DEF StartSaga, DispatchFirst
<1>5. TypeOK'
  BY <1>1, <1>2, <1>4 DEF Inv, TypeOK
<1>6. q.stage = "dispatch" => saga'[q.id] # NoSaga
  BY <1>1, <1>2 DEF CreateSaga, Inv, TypeOK, SagaTypeOK, NoSaga
<1>7. (\A s \in Reqs : RequestOK(req[s]))'
  BY <1>1, <1>2, <1>3, <1>4, <1>6 DEF Inv, RequestOK, Owning, TypeOK, Requests
<1>8. IdsApart'
  BY <1>1, <1>2, <1>3 DEF Inv, IdsApart, Owning
<1>9. RecordsOK'
  BY <1>1, <1>2, <1>3 DEF Inv, RecordsOK, Owning
<1> QED
  BY <1>4, <1>5, <1>7, <1>8, <1>9 DEF Inv

(* What Remember does: the record is there already or stored now, and the   *)
(* request holds no id of its own any more.                                 *)
LEMMA RememberMoves ==
  ASSUME Inv, NEW r \in Reqs, Remember(r)
  PROVE  \E q \in Requests :
           /\ req' = [req EXCEPT ![r] = q]
           /\ q.key = req[r].key /\ q.body = req[r].body /\ q.id = req[r].id
           /\ \/ /\ q.stage = "reply" /\ q.answer = "accepted"
                 /\ record[req[r].key] = None /\ RecordKey(r)
              \/ /\ q.stage = "answered" /\ q.answer = "conflict"
                 /\ UNCHANGED record \/ (record[req[r].key] = None /\ RecordKey(r))
<1>1. req[r] \in Requests
  BY DEF Inv, TypeOK
<1>2. CASE /\ record[req[r].key] = None /\ RecordKey(r)
           /\ req' = [req EXCEPT ![r] = [@ EXCEPT !.stage = "reply", !.answer = "accepted"]]
  <2> DEFINE q == [req[r] EXCEPT !.stage = "reply", !.answer = "accepted"]
  <2>1. /\ q \in Requests /\ q.stage = "reply" /\ q.answer = "accepted" /\ q.id = req[r].id
        /\ q.key = req[r].key /\ q.body = req[r].body
    BY <1>1 DEF Requests, Stages, Answers
  <2>2. req' = [req EXCEPT ![r] = q]
    BY <1>2
  <2> HIDE DEF q
  <2> QED
    BY <1>2, <2>1, <2>2
<1>3. CASE /\ Answer(r, "conflict")
           /\ UNCHANGED record \/ (record[req[r].key] = None /\ RecordKey(r))
  <2> DEFINE q == [req[r] EXCEPT !.stage = "answered", !.answer = "conflict"]
  <2>1. /\ q \in Requests /\ q.stage = "answered" /\ q.answer = "conflict" /\ q.id = req[r].id
        /\ q.key = req[r].key /\ q.body = req[r].body
    BY <1>1 DEF Requests, Stages, Answers
  <2>2. req' = [req EXCEPT ![r] = q]
    BY <1>3 DEF Answer
  <2> HIDE DEF q
  <2> QED
    BY <1>3, <2>1, <2>2
<1> QED
  BY <1>2, <1>3 DEF Remember

LEMMA RememberStep ==
  ASSUME Inv, NEW r \in Reqs, Remember(r)
  PROVE  Inv'
<1>1. /\ req[r] \in Requests /\ req[r].stage = "remember" /\ req[r].id \in used
      /\ req[r].id \in transactions /\ req[r].id \in Ids
      /\ req[r].key \in Keys /\ req[r].body \in Bodies
      /\ UNCHANGED <<transactions, used, crashes, sagaVars>>
  BY DEF Inv, TypeOK, Remember, RequestOK, Owning
<1>2. PICK q \in Requests :
        /\ req' = [req EXCEPT ![r] = q]
        /\ q.key = req[r].key /\ q.body = req[r].body /\ q.id = req[r].id
        /\ \/ /\ q.stage = "reply" /\ q.answer = "accepted"
              /\ record[req[r].key] = None /\ RecordKey(r)
           \/ /\ q.stage = "answered" /\ q.answer = "conflict"
              /\ UNCHANGED record \/ (record[req[r].key] = None /\ RecordKey(r))
  BY RememberMoves
<1>3. \A s \in Reqs : req'[s] = IF s = r THEN q ELSE req[s]
  BY <1>2 DEF Inv, TypeOK
<1> DEFINE new == [body |-> req[r].body, id |-> req[r].id]
<1>4. new \in Records /\ new.body = req[r].body /\ new.id = req[r].id /\ new # None
  BY <1>1, NoneAssumption DEF Records
<1>5. RecordKey(r) => \A k \in Keys : record'[k] = IF k = req[r].key THEN new ELSE record[k]
  BY DEF RecordKey, Inv, TypeOK
<1>6. RecordKey(r) => record' = [record EXCEPT ![req[r].key] = new]
  BY DEF RecordKey
<1> HIDE DEF new
<1>7. TypeOK'
  BY <1>1, <1>2, <1>4, <1>6 DEF Inv, TypeOK, SagaTypeOK, sagaVars
<1>8. \A k \in Keys : \/ record'[k] = record[k]
                      \/ record[k] = None /\ k = req[r].key /\ record'[k] = new
  BY <1>2, <1>5
<1>9. (\A s \in Reqs : RequestOK(req[s]))'
  <2>1. ASSUME NEW s \in Reqs, s # r PROVE RequestOK(req[s])'
    <3>1. RequestOK(req[s]) /\ req'[s] = req[s]
      BY <1>3, <2>1 DEF Inv
    <3> QED
      BY <1>1, <1>8, <3>1 DEF RequestOK, sagaVars
  <2>2. RequestOK(q)'
    BY <1>1, <1>2, <1>4, <1>5 DEF RequestOK, Owning
  <2> QED
    BY <1>3, <2>1, <2>2
<1>10. IdsApart'
  BY <1>2, <1>3 DEF Inv, IdsApart, Owning
<1>11. RecordsOK'
  <2>1. \A s \in Reqs : req'[s].stage \in Owning =>
          s # r /\ req'[s] = req[s] /\ req[s].id # req[r].id
    BY <1>1, <1>2, <1>3 DEF Inv, IdsApart, Owning
  <2>2. \A k \in Keys : record[k] # None => record[k].id # req[r].id
    BY <1>1 DEF Inv, RecordsOK, Owning
  <2> QED
    BY <1>1, <1>4, <1>8, <2>1, <2>2 DEF Inv, RecordsOK
<1>12. SagaHasTransaction'
  BY <1>1 DEF Inv, SagaHasTransaction, sagaVars
<1> QED
  BY <1>7, <1>9, <1>10, <1>11, <1>12 DEF Inv

LEMMA ReplyStep ==
  ASSUME Inv, NEW r \in Reqs, Reply(r)
  PROVE  Inv'
<1>1. /\ req[r] \in Requests /\ req[r].stage = "reply" /\ RequestOK(req[r])
      /\ UNCHANGED <<record, transactions, used, crashes, sagaVars>>
  BY DEF Inv, TypeOK, Reply
<1> DEFINE q == [req[r] EXCEPT !.stage = "answered"]
<1>2. /\ q \in Requests /\ q.stage = "answered" /\ q.answer = req[r].answer
      /\ q.key = req[r].key /\ q.body = req[r].body /\ q.id = req[r].id
  BY <1>1 DEF Requests, Stages, Answers
<1>3. req' = [req EXCEPT ![r] = q]
  BY DEF Reply, Goto
<1> HIDE DEF q
<1>4. RequestOK(q)
  BY <1>1, <1>2 DEF RequestOK, Owning
<1> QED
  BY <1>1, <1>2, <1>3, <1>4, MoveOn DEF Owning

LEMMA CrashStep ==
  ASSUME Inv, Crash
  PROVE  Inv'
<1>1. /\ crashes' = crashes + 1
      /\ req' = [r \in Reqs |-> IF req[r].stage \in Underway
                                THEN [req[r] EXCEPT !.stage = "lost"] ELSE req[r]]
      /\ UNCHANGED <<record, transactions, used, sagaVars>>
  BY DEF Crash
<1>2. ASSUME NEW r \in Reqs
      PROVE  /\ req'[r] \in Requests /\ RequestOK(req'[r])
             /\ req'[r].stage \notin Owning
  <2> DEFINE q == [req[r] EXCEPT !.stage = "lost"]
  <2>0. req[r] \in Requests /\ RequestOK(req[r])
    BY DEF Inv, TypeOK
  <2>1. /\ q \in Requests /\ q.stage = "lost" /\ q.answer = req[r].answer
        /\ q.key = req[r].key /\ q.body = req[r].body /\ q.id = req[r].id
    BY <2>0 DEF Requests, Stages, Answers
  <2>2. req'[r] = IF req[r].stage \in Underway THEN q ELSE req[r]
    BY <1>1
  <2> HIDE DEF q
  <2>3. req[r].stage \in Underway => RequestOK(q)
    BY <2>0, <2>1 DEF RequestOK, Owning, Underway
  <2> QED
    BY <2>0, <2>1, <2>2, <2>3 DEF Owning, Underway
<1>3. TypeOK'
  BY <1>1, <1>2 DEF Inv, TypeOK, SagaTypeOK, sagaVars
<1>4. (\A r \in Reqs : RequestOK(req[r]))'
  BY <1>1, <1>2 DEF RequestOK, sagaVars
<1>5. IdsApart' /\ RecordsOK'
  BY <1>1, <1>2 DEF Inv, IdsApart, RecordsOK
<1>6. SagaHasTransaction'
  BY <1>1 DEF Inv, SagaHasTransaction, sagaVars
<1> QED
  BY <1>3, <1>4, <1>5, <1>6 DEF Inv

LEMMA StepInv == Inv /\ [Next]_allVars => Inv'
<1> SUFFICES ASSUME Inv, [Next]_allVars PROVE Inv'
  OBVIOUS
<1>1. CASE \E r \in Reqs, k \in Keys, b \in Bodies : Send(r, k, b)
  BY <1>1, SendStep
<1>2. CASE \E r \in Reqs : Handle(r)
  BY <1>2, RepeatStep, BeginStep, SaveStep, SagaSteps, RememberStep, ReplyStep DEF Handle
<1>3. CASE Crash
  BY <1>3, CrashStep
<1>4. CASE UNCHANGED allVars
  BY <1>4 DEF Inv, TypeOK, SagaTypeOK, RequestOK, IdsApart, RecordsOK, SagaHasTransaction,
              allVars, onboardVars, sagaVars
<1> QED
  BY <1>1, <1>2, <1>3, <1>4 DEF Next

LEMMA InvHolds == Spec => []Inv
BY InitInv, StepInv, PTL DEF Spec

-----------------------------------------------------------------------------

(* Requests, records, transactions and sagas keep to the values the code    *)
(* can give them.                                                           *)
THEOREM OnboardingTypeCorrect == Spec => []TypeOK
<1>1. Inv => TypeOK
  BY DEF Inv
<1> QED
  BY <1>1, InvHolds, PTL

(* All acceptances of one key name one tracking id and one payload.         *)
THEOREM OneAnswerPerKey == Spec => []SameAnswer
<1>1. Inv => SameAnswer
  BY DEF Inv, SameAnswer, Accepted, RequestOK
<1> QED
  BY <1>1, InvHolds, PTL

(* Whatever was accepted is in the database, and a repeated request will    *)
(* be given the same answer.                                                *)
THEOREM AcceptedStored == Spec => []AcceptedIsStored
<1>1. ASSUME Inv, NEW r \in Accepted
      PROVE  /\ req[r].id \in transactions
             /\ record[req[r].key] = [body |-> req[r].body, id |-> req[r].id]
  <2>1. /\ req[r].key \in Keys /\ record[req[r].key] # None
        /\ record[req[r].key].body = req[r].body /\ record[req[r].key].id = req[r].id
    BY <1>1 DEF Inv, Accepted, RequestOK
  <2>2. record[req[r].key] \in Records
    BY <1>1, <2>1 DEF Inv, TypeOK
  <2> QED
    BY <1>1, <2>1, <2>2 DEF Inv, RecordsOK, Records
<1>2. Inv => AcceptedIsStored
  BY <1>1 DEF AcceptedIsStored
<1> QED
  BY <1>2, InvHolds, PTL

(* No saga and no command without a stored transaction.                     *)
THEOREM SagasStored == Spec => []SagaHasTransaction
<1>1. Inv => SagaHasTransaction
  BY DEF Inv
<1> QED
  BY <1>1, InvHolds, PTL

-----------------------------------------------------------------------------
(* Onboarding implements IdempotentEndpoint: storing the idempotency record *)
(* is the abstract Bind, giving the answer 202 the abstract Accept, and     *)
(* every other statement of the handler changes nothing a merchant can see. *)

AcceptedReply(q) == [key |-> q.key, body |-> q.body, id |-> q.id]

IsAccepted(q) == q.stage = "answered" /\ q.answer = "accepted"

(* One request moves on: the replies grow by its answer, if it is a 202.    *)
LEMMA RepliesGrow ==
  ASSUME req \in [Reqs -> Requests], NEW r \in Reqs, NEW q,
         req' = [req EXCEPT ![r] = q], req[r].stage # "answered"
  PROVE  AcceptedReplies' =
           IF IsAccepted(q) THEN AcceptedReplies \cup {AcceptedReply(q)} ELSE AcceptedReplies
<1>1. \A s \in Reqs : req'[s] = IF s = r THEN q ELSE req[s]
  OBVIOUS
<1>2. Accepted' = IF IsAccepted(q) THEN Accepted \cup {r} ELSE Accepted
  BY <1>1 DEF Accepted, IsAccepted
<1>3. r \notin Accepted
  BY DEF Accepted
<1>4. \A s \in Accepted : req'[s] = req[s]
  BY <1>1, <1>3 DEF Accepted
<1>5. AcceptedReplies = {AcceptedReply(req[s]) : s \in Accepted}
  BY DEF AcceptedReplies, AcceptedReply
<1>6. AcceptedReplies' = {AcceptedReply(req'[s]) : s \in Accepted'}
  BY DEF AcceptedReplies, AcceptedReply
<1>7. \A s \in Accepted : AcceptedReply(req'[s]) = AcceptedReply(req[s])
  BY <1>4
<1>8. req'[r] = q
  BY <1>1
<1> HIDE DEF Accepted, AcceptedReply, IsAccepted
<1>9. CASE IsAccepted(q)
  BY <1>2, <1>5, <1>6, <1>7, <1>8, <1>9
<1>10. CASE ~IsAccepted(q)
  BY <1>2, <1>5, <1>6, <1>7, <1>10
<1> QED
  BY <1>9, <1>10

(* A statement that stores no record and gives no 202 is not seen.          *)
LEMMA Unseen ==
  ASSUME req \in [Reqs -> Requests], NEW r \in Reqs, NEW q,
         req' = [req EXCEPT ![r] = q], req[r].stage # "answered",
         ~IsAccepted(q), UNCHANGED record
  PROVE  UNCHANGED Endpoint!endpointVars
BY RepliesGrow DEF Endpoint!endpointVars

(* A 202 that repeats what the record says is an abstract Accept.           *)
LEMMA Seen ==
  ASSUME Inv, NEW r \in Reqs, NEW q,
         req' = [req EXCEPT ![r] = q], req[r].stage # "answered", UNCHANGED record,
         IsAccepted(q), q.key \in Keys, record[q.key] # None,
         record[q.key].body = q.body, record[q.key].id = q.id
  PROVE  Endpoint!EndpointNext
<1>1. AcceptedReplies' = AcceptedReplies \cup {AcceptedReply(q)}
  BY RepliesGrow DEF Inv, TypeOK
<1>2. Endpoint!Accept(q.key)
  BY <1>1 DEF Endpoint!Accept, AcceptedReply
<1> QED
  BY <1>2 DEF Endpoint!EndpointNext

-----------------------------------------------------------------------------

LEMMA SendUnseen ==
  ASSUME Inv, NEW r \in Reqs, NEW k \in Keys, NEW b \in Bodies, Send(r, k, b)
  PROVE  UNCHANGED Endpoint!endpointVars
<1> DEFINE q == [req[r] EXCEPT !.stage = "lookup", !.key = k, !.body = b]
<1>1. req \in [Reqs -> Requests] /\ req[r] \in Requests /\ req[r].stage = "unsent"
  BY DEF Inv, TypeOK, Send
<1>2. q.stage = "lookup"
  BY <1>1 DEF Requests, Stages, Answers
<1>3. req' = [req EXCEPT ![r] = q] /\ UNCHANGED record
  BY DEF Send
<1> HIDE DEF q
<1> QED
  BY <1>1, <1>2, <1>3, Unseen DEF IsAccepted

(* An answer other than 202.                                                *)
LEMMA RefusalUnseen ==
  ASSUME Inv, NEW r \in Reqs, NEW answer \in Answers \ {"accepted"}, Answer(r, answer),
         req[r].stage # "answered", UNCHANGED record
  PROVE  UNCHANGED Endpoint!endpointVars
<1> DEFINE q == [req[r] EXCEPT !.stage = "answered", !.answer = answer]
<1>1. req \in [Reqs -> Requests] /\ req[r] \in Requests
  BY DEF Inv, TypeOK
<1>2. q.answer = answer
  BY <1>1 DEF Requests, Stages, Answers
<1>3. req' = [req EXCEPT ![r] = q]
  BY DEF Answer
<1> HIDE DEF q
<1> QED
  BY <1>1, <1>2, <1>3, Unseen DEF IsAccepted

LEMMA GotoUnseen ==
  ASSUME Inv, NEW r \in Reqs, NEW stage \in Stages \ {"answered"}, Goto(r, stage),
         req[r].stage # "answered", UNCHANGED record
  PROVE  UNCHANGED Endpoint!endpointVars
<1> DEFINE q == [req[r] EXCEPT !.stage = stage]
<1>1. req \in [Reqs -> Requests] /\ req[r] \in Requests
  BY DEF Inv, TypeOK
<1>2. q.stage = stage
  BY <1>1 DEF Requests, Stages, Answers
<1>3. req' = [req EXCEPT ![r] = q]
  BY DEF Goto
<1> HIDE DEF q
<1> QED
  BY <1>1, <1>2, <1>3, Unseen DEF IsAccepted

LEMMA RepeatMaps ==
  ASSUME Inv, NEW r \in Reqs, Repeat(r)
  PROVE  Endpoint!EndpointNext \/ UNCHANGED Endpoint!endpointVars
<1> DEFINE known == record[req[r].key]
<1>1. /\ req[r] \in Requests /\ req[r].stage = "lookup" /\ known # None
      /\ req[r].key \in Keys /\ UNCHANGED record
  BY DEF Inv, TypeOK, Repeat, RequestOK
<1>2. known \in Records /\ known.id \in Ids
  BY <1>1 DEF Inv, TypeOK, Records
<1>3. CASE Answer(r, "conflict")
  BY <1>1, <1>3, RefusalUnseen DEF Answers
<1>4. CASE /\ known.body = req[r].body
           /\ req' = [req EXCEPT ![r] =
                        [@ EXCEPT !.stage = "answered", !.answer = "accepted", !.id = known.id]]
  <2> DEFINE q == [req[r] EXCEPT !.stage = "answered", !.answer = "accepted", !.id = known.id]
  <2>1. /\ q.stage = "answered" /\ q.answer = "accepted" /\ q.id = known.id
        /\ q.key = req[r].key /\ q.body = req[r].body
    BY <1>1, <1>2 DEF Requests, Stages, Answers
  <2>2. req' = [req EXCEPT ![r] = q]
    BY <1>4
  <2> HIDE DEF q
  <2> QED
    <3>1. IsAccepted(q) /\ q.key \in Keys /\ record[q.key] = known
      BY <1>1, <2>1 DEF IsAccepted
    <3>2. record[q.key] # None /\ record[q.key].body = q.body /\ record[q.key].id = q.id
      BY <1>1, <1>4, <2>1, <3>1
    <3>3. Endpoint!EndpointNext
      BY <1>1, <2>2, <3>1, <3>2, Seen
    <3> QED
      BY <3>3
<1> QED
  BY <1>3, <1>4 DEF Repeat

LEMMA BeginUnseen ==
  ASSUME Inv, NEW r \in Reqs, Begin(r)
  PROVE  UNCHANGED Endpoint!endpointVars
<1>1. /\ req \in [Reqs -> Requests] /\ req[r] \in Requests
      /\ req[r].stage = "lookup" /\ UNCHANGED record
  BY DEF Inv, TypeOK, Begin
<1>2. CASE Answer(r, "malformed")
  BY <1>1, <1>2, RefusalUnseen DEF Answers
<1>3. CASE \E i \in Ids : req' = [req EXCEPT ![r] = [@ EXCEPT !.stage = "save", !.id = i]]
  <2>1. PICK i \in Ids : req' = [req EXCEPT ![r] = [@ EXCEPT !.stage = "save", !.id = i]]
    BY <1>3
  <2> DEFINE q == [req[r] EXCEPT !.stage = "save", !.id = i]
  <2>2. q.stage = "save"
    BY <1>1 DEF Requests, Stages, Answers
  <2>3. req' = [req EXCEPT ![r] = q]
    BY <2>1
  <2> HIDE DEF q
  <2> QED
    BY <1>1, <2>2, <2>3, Unseen DEF IsAccepted
<1> QED
  BY <1>2, <1>3 DEF Begin

LEMMA StatementsUnseen ==
  ASSUME Inv, NEW r \in Reqs, Save(r) \/ StartSaga(r) \/ DispatchFirst(r)
  PROVE  UNCHANGED Endpoint!endpointVars
<1>1. UNCHANGED record /\ req[r].stage # "answered"
  BY DEF Save, StartSaga, DispatchFirst
<1>2. \/ \E stage \in {"create", "dispatch", "remember"} : Goto(r, stage)
      \/ Answer(r, "error")
  BY DEF Save, StartSaga, DispatchFirst
<1> QED
  BY <1>1, <1>2, RefusalUnseen, GotoUnseen DEF Stages, Answers

(* The record is stored with an id no other record has: the abstract Bind.  *)
LEMMA RememberMaps ==
  ASSUME Inv, NEW r \in Reqs, Remember(r)
  PROVE  Endpoint!EndpointNext \/ UNCHANGED Endpoint!endpointVars
<1>1. /\ req \in [Reqs -> Requests] /\ req[r].stage = "remember" /\ req[r].id \in Ids
      /\ req[r].key \in Keys /\ req[r].body \in Bodies
  BY DEF Inv, TypeOK, Remember, RequestOK, Owning
<1>2. PICK q \in Requests :
        /\ req' = [req EXCEPT ![r] = q]
        /\ q.stage = "reply" \/ (q.stage = "answered" /\ q.answer = "conflict")
        /\ UNCHANGED record \/ (record[req[r].key] = None /\ RecordKey(r))
  BY RememberMoves
<1>3. ~IsAccepted(q)
  BY <1>2 DEF IsAccepted
<1>4. CASE UNCHANGED record
  BY <1>1, <1>2, <1>3, <1>4, Unseen
<1>5. CASE record[req[r].key] = None /\ RecordKey(r)
  <2>1. AcceptedReplies' = AcceptedReplies
    BY <1>1, <1>2, <1>3, RepliesGrow
  <2>2. \A k \in Keys : record[k] # None => record[k].id # req[r].id
    BY <1>1 DEF Inv, RecordsOK, Owning
  <2>3. Endpoint!Bind(req[r].key, req[r].body, req[r].id)
    BY <1>5, <2>1, <2>2 DEF Endpoint!Bind, RecordKey
  <2> QED
    BY <1>1, <2>3 DEF Endpoint!EndpointNext
<1> QED
  BY <1>2, <1>4, <1>5

LEMMA ReplyMaps ==
  ASSUME Inv, NEW r \in Reqs, Reply(r)
  PROVE  Endpoint!EndpointNext
<1>1. /\ req[r] \in Requests /\ req[r].stage = "reply" /\ RequestOK(req[r])
      /\ UNCHANGED record
  BY DEF Inv, TypeOK, Reply
<1> DEFINE q == [req[r] EXCEPT !.stage = "answered"]
<1>2. /\ q.stage = "answered" /\ q.answer = req[r].answer
      /\ q.key = req[r].key /\ q.body = req[r].body /\ q.id = req[r].id
  BY <1>1 DEF Requests, Stages, Answers
<1>3. req' = [req EXCEPT ![r] = q]
  BY DEF Reply, Goto
<1> HIDE DEF q
<1> QED
  BY <1>1, <1>2, <1>3, Seen DEF IsAccepted, RequestOK

(* A crash loses requests under way; none of them had its answer.           *)
LEMMA CrashUnseen ==
  ASSUME Inv, Crash
  PROVE  UNCHANGED Endpoint!endpointVars
<1>1. /\ req' = [r \in Reqs |-> IF req[r].stage \in Underway
                                THEN [req[r] EXCEPT !.stage = "lost"] ELSE req[r]]
      /\ UNCHANGED record
  BY DEF Crash
<1>2. ASSUME NEW r \in Reqs, req[r].stage \in Underway
      PROVE  req'[r].stage = "lost"
  BY <1>1, <1>2 DEF Inv, TypeOK, Requests, Stages, Answers
<1>3. ASSUME NEW r \in Reqs, req[r].stage \notin Underway
      PROVE  req'[r] = req[r]
  BY <1>1, <1>3
<1>4. Accepted' = Accepted /\ \A r \in Accepted : req'[r] = req[r]
  BY <1>2, <1>3 DEF Accepted, Underway
<1>5. AcceptedReplies' = AcceptedReplies
  BY <1>4 DEF AcceptedReplies
<1> QED
  BY <1>1, <1>5 DEF Endpoint!endpointVars

LEMMA StepMaps ==
  Inv /\ [Next]_allVars => [Endpoint!EndpointNext]_(Endpoint!endpointVars)
<1> SUFFICES ASSUME Inv, [Next]_allVars
             PROVE  Endpoint!EndpointNext \/ UNCHANGED Endpoint!endpointVars
  OBVIOUS
<1>1. CASE \E r \in Reqs, k \in Keys, b \in Bodies : Send(r, k, b)
  BY <1>1, SendUnseen
<1>2. CASE \E r \in Reqs : Handle(r)
  BY <1>2, RepeatMaps, BeginUnseen, StatementsUnseen, RememberMaps, ReplyMaps DEF Handle
<1>3. CASE Crash
  BY <1>3, CrashUnseen
<1>4. CASE UNCHANGED allVars
  BY <1>4 DEF allVars, onboardVars, Endpoint!endpointVars, AcceptedReplies, Accepted
<1> QED
  BY <1>1, <1>2, <1>3, <1>4 DEF Next

LEMMA InitMaps == Init => Endpoint!EndpointInit
<1> SUFFICES ASSUME Init PROVE Endpoint!EndpointInit
  OBVIOUS
<1>1. Blank.stage = "unsent"
  BY DEF Blank
<1>2. Accepted = {}
  BY <1>1 DEF Accepted, Init
<1>3. AcceptedReplies = {}
  BY <1>2 DEF AcceptedReplies
<1> QED
  BY <1>3 DEF Init, Endpoint!EndpointInit

(* The handler of POST /onboard, with its concurrent requests, failing      *)
(* statements and crashes, implements the idempotent endpoint: a key is     *)
(* tied once to one payload and one tracking id, and only that is accepted. *)
THEOREM EndpointImplemented == Spec => ImplementsEndpoint
<1>1. Spec => []Inv
  BY InvHolds
<1> QED
  BY <1>1, InitMaps, StepMaps, PTL DEF Spec, ImplementsEndpoint, Endpoint!EndpointSpec

=============================================================================
