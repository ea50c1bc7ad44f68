------------------------------- MODULE Outbox -------------------------------
(***************************************************************************)
(* The transactional outbox: rows of outbox_events (SpannerOutboxStore)    *)
(* drained to Pub/Sub by OutboxDispatcher.  Every instance of the workers  *)
(* service runs the loop, and /internal/outbox/drain runs it on demand, so *)
(* several drains overlap, each working from the batch it read; no row is  *)
(* locked and no mark looks at the state it overwrites.                    *)
(***************************************************************************)
EXTENDS Integers, FiniteSets

CONSTANTS
  Events,       \* event ids
  Poison,       \* events whose payload TryMap refuses
  NoEvent,
  Dispatchers,  \* drains that may run at the same time
  BatchSize,
  MaxAttempts

ASSUME EventsAssumption ==
  /\ Poison \subseteq Events
  /\ NoEvent \notin Events
ASSUME SizesAssumption ==
  /\ BatchSize \in Nat \ {0}
  /\ MaxAttempts \in Nat \ {0}

VARIABLES
  committed,  \* rows of outbox_events
  since,      \* pending_since (0: NULL)
  published,  \* rows whose published_at is set
  attempts,
  clock,      \* the latest pending_since given out
  drain,      \* where each DrainOnceAsync is
  topic       \* events the broker has accepted, once or more often

vars == <<committed, since, published, attempts, clock, drain, topic>>
rows == <<committed, since, published, attempts, clock>>

\* "accepted": PublishAsync returned; "failed": PublishAsync or the mark threw.
Phases == {"idle", "working", "accepted", "failed"}

Idle == [phase |-> "idle", batch |-> {}, event |-> NoEvent]

Drains == [phase : Phases, batch : SUBSET Events, event : Events \cup {NoEvent}]

Pending(e) == since[e] > 0
PendingRows == {e \in Events : Pending(e)}

\* ORDER BY pending_since LIMIT BatchSize
Batch ==
  {e \in PendingRows : Cardinality({f \in PendingRows : since[f] < since[e]}) < BatchSize}

-----------------------------------------------------------------------------
(* A ledger transaction commits with the event's row in it.                *)

Insert(e) ==
  /\ e \notin committed
  /\ committed' = committed \cup {e}
  /\ clock' = clock + 1
  /\ since' = [since EXCEPT ![e] = clock + 1]
  /\ UNCHANGED <<published, attempts, drain, topic>>

-----------------------------------------------------------------------------
(* The two updates of SpannerOutboxStore.                                  *)

MarkPublished(e) ==
  /\ published' = published \cup {e}
  /\ since' = [since EXCEPT ![e] = 0]
  /\ UNCHANGED <<committed, attempts, clock>>

\* Mutation: a failure never is final.
MarkFailedForever(e) ==
  /\ attempts' = [attempts EXCEPT ![e] = IF @ < MaxAttempts THEN @ + 1 ELSE @]
  /\ UNCHANGED <<committed, since, published, clock>>

MarkFailed(e) ==
  /\ attempts' = [attempts EXCEPT ![e] = @ + 1]
  /\ since' = [since EXCEPT ![e] = IF attempts[e] + 1 >= MaxAttempts THEN 0 ELSE @]
  /\ UNCHANGED <<committed, published, clock>>

-----------------------------------------------------------------------------
(* DrainOnceAsync.                                                         *)

Fetch(d) ==
  /\ drain[d].phase = "idle"
  /\ PendingRows # {}
  /\ drain' = [drain EXCEPT ![d] = [Idle EXCEPT !.phase = "working", !.batch = Batch]]
  /\ UNCHANGED <<rows, topic>>

\* FetchPendingAsync marks the poison rows of the batch before it returns.
FailPoison(d, e) ==
  /\ drain[d].phase = "working"
  /\ e \in drain[d].batch \cap Poison
  /\ MarkFailed(e)
  /\ drain' = [drain EXCEPT ![d].batch = @ \ {e}]
  /\ UNCHANGED topic

\* The call may also fail after the broker has accepted the message.
Publish(d, e) ==
  /\ drain[d].phase = "working"
  /\ drain[d].batch \cap Poison = {}
  /\ e \in drain[d].batch
  /\ \/ /\ topic' = topic \cup {e}
        /\ drain' = [drain EXCEPT ![d].phase = "accepted", ![d].event = e]
     \/ /\ topic' \in {topic, topic \cup {e}}
        /\ drain' = [drain EXCEPT ![d].phase = "failed", ![d].event = e]
  /\ UNCHANGED rows

NextEvent(d) ==
  drain' = [drain EXCEPT ![d] =
              [phase |-> "working", batch |-> @.batch \ {@.event}, event |-> NoEvent]]

Confirm(d) ==
  /\ drain[d].phase = "accepted"
  /\ MarkPublished(drain[d].event)
  /\ NextEvent(d)
  /\ UNCHANGED topic

\* MarkPublishedAsync throws, its update applied or not.
ConfirmThrows(d) ==
  /\ drain[d].phase = "accepted"
  /\ MarkPublished(drain[d].event) \/ UNCHANGED rows
  /\ drain' = [drain EXCEPT ![d].phase = "failed"]
  /\ UNCHANGED topic

Fail(d) ==
  /\ drain[d].phase = "failed"
  /\ MarkFailed(drain[d].event)
  /\ NextEvent(d)
  /\ UNCHANGED topic

Finish(d) ==
  /\ drain[d].phase = "working" /\ drain[d].batch = {}
  /\ drain' = [drain EXCEPT ![d] = Idle]
  /\ UNCHANGED <<rows, topic>>

\* The instance stops, the token is cancelled or MarkFailedAsync itself throws:
\* the rest of the batch is dropped.
Abort(d) ==
  /\ drain[d].phase # "idle"
  /\ drain' = [drain EXCEPT ![d] = Idle]
  /\ UNCHANGED <<rows, topic>>

-----------------------------------------------------------------------------
Init ==
  /\ committed = {} /\ published = {} /\ topic = {}
  /\ since = [e \in Events |-> 0]
  /\ attempts = [e \in Events |-> 0]
  /\ clock = 0
  /\ drain = [d \in Dispatchers |-> Idle]

Mark(d) == Confirm(d) \/ ConfirmThrows(d) \/ Fail(d)

Drain(d) ==
  \/ Fetch(d) \/ Mark(d) \/ Finish(d) \/ Abort(d)
  \/ \E e \in Events : FailPoison(d, e) \/ Publish(d, e)

Next == (\E e \in Events : Insert(e)) \/ (\E d \in Dispatchers : Drain(d))

\* The loops poll for ever.  However often drains are stopped, they are not all of
\* them stopped before the same call each time.
Fairness ==
  /\ WF_vars(\E d \in Dispatchers : Fetch(d) \/ Finish(d))
  /\ SF_vars(\E d \in Dispatchers, e \in Events : FailPoison(d, e) \/ Publish(d, e))
  /\ SF_vars(\E d \in Dispatchers : Confirm(d) \/ ConfirmThrows(d))
  /\ SF_vars(\E d \in Dispatchers : Fail(d))

Spec == Init /\ [][Next]_vars

-----------------------------------------------------------------------------
(* Properties.                                                             *)

\* Every variable stays within its type.
TypeOK ==
  /\ committed \subseteq Events /\ published \subseteq Events /\ topic \subseteq Events
  /\ since \in [Events -> Nat]
  /\ attempts \in [Events -> Nat]
  /\ clock \in Nat
  /\ drain \in [Dispatchers -> Drains]

\* published_at is only set on an event the broker has accepted, whichever drain
\* sets it and however old its batch.
PublishedWasSent == published \subseteq topic

\* No committed event drops out of sight: it is published, or queued, or it has
\* used up its attempts and StatsAsync and reconciliation report it.
NoEventLost ==
  \A e \in committed : e \in published \/ Pending(e) \/ attempts[e] >= MaxAttempts

\* A published event is out of the queue for good, although a drain whose own
\* call failed may still count a failure against its row.
PublishedLeavesQueue == \A e \in published : ~Pending(e)

\* Whatever drains and operators do to the rows, and in whichever order their marks
\* come: no event is lost, none is published unsent, none is queued when published.
EventsAreSafe == NoEventLost /\ PublishedWasSent /\ PublishedLeavesQueue

\* Only committed events with a readable payload are ever sent.
OnlyCommittedSent == topic \subseteq committed \ Poison

\* Every committed event is eventually published or given up, so neither a
\* poison row, nor one the broker keeps refusing, nor what operators requeue blocks
\* those behind it.
QueueDrains ==
  \A e \in Events :
    e \in committed ~> e \in published \/ (~Pending(e) /\ attempts[e] >= MaxAttempts)
=============================================================================
