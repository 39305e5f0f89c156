------------------------------ MODULE SagaStore ------------------------------
(***************************************************************************)
(* The tables saga_instance and saga_audit and the commands in             *)
(* outbox_event, with the statements of internal/repository/saga.go.  A    *)
(* saga is known by its transaction: tracking_id is UNIQUE in              *)
(* saga_instance and every Start draws a fresh saga id.                    *)
(***************************************************************************)

CONSTANT Ids  \* tracking ids

VARIABLES
  saga,      \* the saga_instance row of each transaction
  sagaAudit, \* rows of saga_audit
  commands   \* commands put into outbox_event

sagaVars == <<saga, sagaAudit, commands>>

Steps == {"VERIFY_IDENTITY", "FRAUD_CHECK", "SETUP_SETTLEMENT", "SEND_NOTIFICATION"}

(* COMPENSATED is declared and never written. *)
SagaStatuses == {"STARTED", "IN_PROGRESS", "COMPLETED", "COMPENSATING", "COMPENSATED", "FAILED"}

Actions == {"FORWARD", "COMPENSATE"}

NoSaga == [status |-> "none", step |-> "none"]

SagaRows == [status : SagaStatuses, step : Steps] \cup {NoSaga}

SagaTypeOK ==
  /\ saga \in [Ids -> SagaRows]
  /\ sagaAudit \subseteq [id : Ids, step : Steps, action : Actions,
                          result : {"PENDING", "SUCCESS", "FAILED"}]
  /\ commands \subseteq [id : Ids, step : Steps, action : Actions]

SagaInit ==
  /\ saga = [i \in Ids |-> NoSaga]
  /\ sagaAudit = {} /\ commands = {}

(* A slip that run onboarding must catch: the Status of the entity not set, *)
(* so that the empty string is stored (the column is NOT NULL).             *)
CreateSagaNoStatus(i, step) ==
  /\ saga[i] = NoSaga
  /\ saga' = [saga EXCEPT ![i] = [status |-> "", step |-> step]]
  /\ UNCHANGED <<sagaAudit, commands>>

CreateSaga(i, step) ==
  /\ saga[i] = NoSaga
  /\ saga' = [saga EXCEPT ![i] = [status |-> "STARTED", step |-> step]]
  /\ UNCHANGED <<sagaAudit, commands>>

(* Saga state, audit row and command in one database transaction; an        *)
(* UPDATE that finds no row is no error.                                    *)
AdvanceSaga(i, status, step, action) ==
  /\ saga' = [saga EXCEPT ![i] = IF @ = NoSaga THEN NoSaga
                                 ELSE [status |-> status, step |-> step]]
  /\ sagaAudit' = sagaAudit \cup
       {[id |-> i, step |-> step, action |-> action, result |-> "PENDING"]}
  /\ commands' = commands \cup {[id |-> i, step |-> step, action |-> action]}

=============================================================================
