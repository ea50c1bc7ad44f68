------------------------ MODULE OutboxReconciliation ------------------------
(***************************************************************************)
(* Financial operators resolving OUTBOX_STUCK issues (Nequi.Backoffice)    *)
(* while the workers drain the outbox.  ResolveIssue finds the issue,      *)
(* requeues the event if that is the resolution and then stores the        *)
(* resolution: three stores, three calls, with the drains in between.      *)
(***************************************************************************)
EXTENDS Outbox

CONSTANTS
  Operators,
  Offered,      \* bound: the resolutions that operators choose from
  MaxRequeues   \* bound on requeued rows

VARIABLES
  resolved,   \* resolution in reconciliation_resolutions/RECON-OBX-<event>
  resolving,  \* where each ResolveIssue call is
  requeues    \* history: how often RequeueOutboxAsync has updated a row

reconVars == <<resolved, resolving, requeues>>
systemVars == <<vars, reconVars>>

Resolutions == {"REQUEUE_EVENT", "ACKNOWLEDGED", "FALSE_POSITIVE", "ADJUSTED"}

ASSUME RequeuesAssumption == Offered \subseteq Resolutions /\ MaxRequeues \in Nat

\* "found": FindAsync has returned an open issue and the event is to be requeued;
\* "acted": what the resolution asks for is done, which is nothing for the others.
Calls == [phase : {"idle", "found", "acted"}, event : Events \cup {NoEvent},
          resolution : Resolutions]

NoCall == [phase |-> "idle", event |-> NoEvent, resolution |-> "ACKNOWLEDGED"]

\* The query of DetectAsync.  A queued row counts from its fifth minute on; the
\* model lets any queued row be that old.
Stuck(e) == e \in committed \ published

\* The status DetectAsync reports for the issue.
Open(e) == Stuck(e) /\ resolved[e] = "none"

-----------------------------------------------------------------------------
Find(o, e, resolution) ==
  /\ resolving[o].phase = "idle"
  /\ Open(e)
  /\ resolving' = [resolving EXCEPT ![o] =
                     [phase |-> IF resolution = "REQUEUE_EVENT" THEN "found" ELSE "acted",
                      event |-> e, resolution |-> resolution]]
  /\ UNCHANGED <<vars, resolved, requeues>>

\* Mutation: the issue was open when it was found, which is not checked again.
RequeueFound(e) ==
  /\ clock' = clock + 1
  /\ since' = [since EXCEPT ![e] = clock + 1]
  /\ attempts' = [attempts EXCEPT ![e] = 0]
  /\ UNCHANGED <<committed, published>>

\* RequeueOutboxAsync: UPDATE ... WHERE event_id=@e AND published_at IS NULL
Requeue(e) ==
  /\ e \notin published
  /\ clock' = clock + 1
  /\ since' = [since EXCEPT ![e] = clock + 1]
  /\ attempts' = [attempts EXCEPT ![e] = 0]
  /\ UNCHANGED <<committed, published>>

\* A published event is answered 409 and its issue is left alone.
Act(o) ==
  LET e == resolving[o].event
  IN  /\ resolving[o].phase = "found"
      /\ \/ /\ requeues < MaxRequeues /\ Requeue(e)
            /\ requeues' = requeues + 1
            /\ resolving' = [resolving EXCEPT ![o].phase = "acted"]
         \/ /\ e \in published
            /\ resolving' = [resolving EXCEPT ![o] = NoCall]
            /\ UNCHANGED <<rows, requeues>>
      /\ UNCHANGED <<drain, topic, resolved>>

Resolve(o) ==
  /\ resolving[o].phase = "acted"
  /\ resolved' = [resolved EXCEPT ![resolving[o].event] = resolving[o].resolution]
  /\ resolving' = [resolving EXCEPT ![o] = NoCall]
  /\ UNCHANGED <<vars, requeues>>

\* An exception, a cancellation or a crash: what was done stays done.
BreakOff(o) ==
  /\ resolving[o].phase # "idle"
  /\ resolving' = [resolving EXCEPT ![o] = NoCall]
  /\ UNCHANGED <<vars, resolved, requeues>>

-----------------------------------------------------------------------------
ReconInit ==
  /\ Init
  /\ resolved = [e \in Events |-> "none"]
  /\ resolving = [o \in Operators |-> NoCall]
  /\ requeues = 0

Reconcile ==
  \/ \E o \in Operators, e \in Events, resolution \in Offered : Find(o, e, resolution)
  \/ \E o \in Operators : Act(o) \/ Resolve(o) \/ BreakOff(o)

ReconNext == (Next /\ UNCHANGED reconVars) \/ Reconcile

ReconSpec == ReconInit /\ [][ReconNext]_systemVars

\* Nobody has to resolve an issue.
ReconFairSpec == ReconSpec /\ Fairness

-----------------------------------------------------------------------------
(* Properties.                                                             *)

\* Every variable stays within its type.
ReconTypeOK ==
  /\ TypeOK
  /\ resolved \in [Events -> Resolutions \cup {"none"}]
  /\ resolving \in [Operators -> Calls]
  /\ requeues \in 0..MaxRequeues

\* "inconsistencies are detected on demand: OUTBOX_STUCK domain event ... with
\* retries exhausted" (ReconciliationService.cs): an event that was given up shows
\* as an open issue unless an operator chose to leave it.  A stored resolution
\* hides the issue for ever, also when the event is given up after it was requeued.
GivenUpIsReported ==
  \A e \in committed \ published :
    ~Pending(e) /\ resolved[e] \in {"none", "REQUEUE_EVENT"} => Open(e)
=============================================================================
