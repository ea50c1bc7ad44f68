-------------------------- MODULE FinancialClient --------------------------
(***************************************************************************)
(* The mobile app's FinancialOperation talking to a guarded POST: one      *)
(* operation of one scope, its key in IdempotencyKeyStore, and the server  *)
(* of Idempotency.  The fingerprint of an intention is the body it sends.  *)
(***************************************************************************)
EXTENDS Idempotency

VARIABLES
  fingerprint,  \* this.fingerprint
  stored,       \* the scope's entry in IdempotencyKeyStore
  sent,         \* the request whose submit() is awaited (this.submitting)
  used,         \* history: keys generateIdempotencyKey has returned
  outcomes      \* history: what run() resolved to, by request

clientVars == <<fingerprint, stored, sent, used, outcomes>>
allVars    == <<vars, clientVars>>

Statuses == {"confirmed", "rejected", "uncertain", "pending"}

\* Answers that ApiError classifies as a kind in DEFINITIVE_REJECTIONS.  Every
\* 409 is of kind 'conflict', those of the idempotency filter included.
DefinitiveRejections == {"rejected", "inProgress", "stale", "conflict"}

Submitting == sent # Nobody

Resolve(status) == outcomes' = [outcomes EXCEPT ![sent] = status]

\* Mutation: the key is not released.
KeepKey == UNCHANGED <<stored, fingerprint>>

\* release() of the key, and the operation forgets its fingerprint.
Release == stored' = Nobody /\ fingerprint' = Nobody

-----------------------------------------------------------------------------
(* run(): a new fingerprint rotates the key, the same one acquires it.     *)

\* Mutation: a changed form keeps its key.
StoredKeyFor(b) == IF stored # Nobody THEN {stored} ELSE Keys \ used

KeyFor(b) ==
  IF fingerprint = b /\ stored # Nobody THEN {stored} ELSE Keys \ used

Run(r, b) ==
  /\ ~Submitting
  /\ \E k \in KeyFor(b) :
       /\ stored' = k
       /\ used' = used \cup {k}
       /\ Arrive(r, k, b)
  /\ fingerprint' = b
  /\ sent' = r
  /\ UNCHANGED outcomes

Answered == Submitting /\ req[sent].phase = "answered"

Confirm ==
  /\ Answered /\ req[sent].reply.kind = "created"
  /\ Resolve("confirmed") /\ Release
  /\ sent' = Nobody
  /\ UNCHANGED <<vars, used>>

Rejected ==
  /\ Answered /\ req[sent].reply.kind \in DefinitiveRejections
  /\ Resolve("rejected") /\ Release
  /\ sent' = Nobody
  /\ UNCHANGED <<vars, used>>

\* A 5xx, a timeout, a lost connection, a cancellation: the key is kept and the
\* server may still be at work on the request.
Uncertain ==
  /\ Submitting
  /\ Answered => req[sent].reply.kind = "serverError"
  /\ Resolve("uncertain")
  /\ sent' = Nobody
  /\ UNCHANGED <<vars, fingerprint, stored, used>>

\* onSessionCleared empties the key store; the operations live on.
ClearSession ==
  /\ stored # Nobody
  /\ stored' = Nobody
  /\ UNCHANGED <<vars, fingerprint, sent, used, outcomes>>

\* Nothing of this is on the device's storage.
Restart ==
  /\ fingerprint # Nobody \/ stored # Nobody \/ Submitting
  /\ Release
  /\ sent' = Nobody
  /\ UNCHANGED <<vars, used, outcomes>>

-----------------------------------------------------------------------------
ClientInit ==
  /\ Init
  /\ fingerprint = Nobody /\ stored = Nobody /\ sent = Nobody
  /\ used = {}
  /\ outcomes = [r \in Requests |-> "pending"]

Client ==
  \/ \E r \in Requests, b \in Bodies : Run(r, b)
  \/ Confirm \/ Rejected \/ Uncertain \/ ClearSession \/ Restart

ClientNext == Client \/ (Server /\ UNCHANGED clientVars)

ClientSpec == ClientInit /\ [][ClientNext]_allVars

-----------------------------------------------------------------------------
(* Properties.                                                             *)

\* Every variable stays within its type, and run() awaits one submission.
ClientTypeOK ==
  /\ TypeOK
  /\ fingerprint \in Bodies \cup {Nobody}
  /\ stored \in Keys \cup {Nobody}
  /\ sent \in Requests \cup {Nobody}
  /\ used \subseteq Keys
  /\ outcomes \in [Requests -> Statuses]

\* A confirmation shown to the user is a payment of its own: what it asked for
\* was committed, and no earlier confirmation was of the same operation, not even
\* for two equal intentions in a row.
ConfirmationsAreNew ==
  \A r \in Requests : outcomes[r] = "confirmed" =>
    /\ \E e \in effects :
         e.by = req[r].reply.by /\ e.key = req[r].key /\ e.body = req[r].body
    /\ \A s \in Requests :
         outcomes[s] = "confirmed" /\ req[s].reply.by = req[r].reply.by => s = r

\* A key stands for one intention: whatever was edited, retried, cancelled or lost
\* in between, the server never meets a key again under another body, so the user
\* is never told idempotency_conflict.
NoKeyConflicts == \A r \in Requests : req[r].reply.kind # "conflict"

\* "Un rechazo definitivo" (financialOperation.ts): an intention reported rejected
\* was not carried out.  A retry of an uncertain attempt that meets the first one
\* still in progress is answered 409, which counts as a definitive rejection.
RejectedHasNoEffect ==
  \A r \in Requests : outcomes[r] = "rejected" =>
    ~\E e \in effects : e.key = req[r].key /\ e.body = req[r].body
=============================================================================
