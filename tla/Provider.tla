------------------------------ MODULE Provider ------------------------------
(***************************************************************************)
(* The onboarding provider, an external HTTP service, as far as the calls  *)
(* of internal/client/provider.go let the service see it.  A submission    *)
(* that reaches it is given a request id of its own and is decided once;   *)
(* a status query (GetStatus) is answered with one of the words that stand *)
(* for the decision.  Which words it uses is a parameter: the poller and   *)
(* the webhook handler understand APPROVED/REJECTED, the reconciliation    *)
(* job understands SUCCESS/FAILED, and all of them ask the same service.   *)
(***************************************************************************)

CONSTANTS
  Tx,            \* tracking ids
  NoTx,          \* "no transaction"
  Ext,           \* request ids the provider can hand out
  NoExt,         \* SQL NULL in the column external_request_id
  PendingWords,  \* status words for a request not yet decided
  ApprovedWords, \* status words for an approved request
  RejectedWords  \* status words for a rejected request

(* Words that some reader in src/ takes for a final decision. *)
SuccessWords == {"APPROVED", "SUCCESS"}
FailureWords == {"REJECTED", "FAILED"}

ASSUME IdAssumption == NoTx \notin Tx /\ NoExt \notin Ext

(* The provider may word a decision as it likes, but never words one        *)
(* decision as another.                                                     *)
ASSUME VocabularyAssumption ==
  /\ PendingWords \cap (SuccessWords \cup FailureWords) = {}
  /\ ApprovedWords \cap FailureWords = {}
  /\ RejectedWords \cap SuccessWords = {}

VARIABLES
  submittedFor, \* the transaction each provider request was submitted for
  verdict,      \* the provider's decision on each request
  refused       \* transactions one of whose submissions was answered 4xx

providerVars == <<submittedFor, verdict, refused>>

Verdicts == {"unused", "pending", "approved", "rejected"}

Words == PendingWords \cup ApprovedWords \cup RejectedWords

ProviderTypeOK ==
  /\ submittedFor \in [Ext -> Tx \cup {NoTx}]
  /\ verdict \in [Ext -> Verdicts]
  /\ refused \subseteq Tx
  /\ \A e \in Ext : verdict[e] # "unused" => submittedFor[e] \in Tx

-----------------------------------------------------------------------------

(* What GetStatus may answer for request e. *)
Answers(e) ==
  {w \in PendingWords : verdict[e] = "pending"}
    \cup {w \in ApprovedWords : verdict[e] = "approved"}
    \cup {w \in RejectedWords : verdict[e] = "rejected"}

(* The provider takes in a submission made for t, under the fresh id e. *)
Register(e, t) ==
  /\ verdict[e] = "unused"
  /\ verdict' = [verdict EXCEPT ![e] = "pending"]
  /\ submittedFor' = [submittedFor EXCEPT ![e] = t]
  /\ UNCHANGED refused

(* The provider turns a submission for t down at once: HTTP status 4xx. *)
Refuse(t) ==
  /\ refused' = refused \cup {t}
  /\ UNCHANGED <<submittedFor, verdict>>

(* The provider decides a request; a decision is never taken back. *)
Decide(e) ==
  /\ verdict[e] = "pending"
  /\ \E v \in {"approved", "rejected"} : verdict' = [verdict EXCEPT ![e] = v]
  /\ UNCHANGED <<submittedFor, refused>>

=============================================================================
