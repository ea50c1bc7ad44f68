--------------------------- MODULE OutboxDelivery ---------------------------
(***************************************************************************)
(* What becomes of published events: Pub/Sub pushes them to the projection *)
(* and to the notification handler of the workers service, at least once,  *)
(* and dead-letters a message after too many failed attempts.              *)
(***************************************************************************)
EXTENDS Outbox

CONSTANTS
  Handlers,       \* push requests that may be in progress at the same time
  NoSubscription,
  MaxDeliveries   \* max-delivery-attempts of the subscriptions

ASSUME DeliveriesAssumption == MaxDeliveries \in Nat \ {0}

Subscriptions == {"projection", "notifications"}

ASSUME SubscriptionsAssumption == NoSubscription \notin Subscriptions

VARIABLES
  movements,      \* documents of financial_movements, by eventId
  notifications,  \* documents of notifications, by eventId
  pushes,         \* how often push.SendAsync ran for an event
  handler,        \* where each push request is
  acked,          \* events with an acknowledged delivery, by subscription
  failures        \* failed deliveries, up to MaxDeliveries

readModel    == <<movements, notifications, pushes>>
subscription == <<acked, failures>>
deliveryVars == <<readModel, handler, subscription>>
allVars      == <<vars, deliveryVars>>

\* "created": the notification document was new, so the push is still to be sent.
HandlerPhases == {"idle", "received", "created", "done"}

Free == [phase |-> "idle", sub |-> NoSubscription, event |-> NoEvent]

DeadLettered(s, e) == e \notin acked[s] /\ failures[s][e] = MaxDeliveries

-----------------------------------------------------------------------------
(* Pub/Sub.  A message may come again after it was acknowledged, and an    *)
(* event published twice is two messages.                                  *)

Receive(h, s, e) ==
  /\ handler[h].phase = "idle"
  /\ e \in topic
  /\ handler' = [handler EXCEPT ![h] = [phase |-> "received", sub |-> s, event |-> e]]
  /\ UNCHANGED <<readModel, subscription>>

\* Mutation: the message is acknowledged before it is handled.
AckEarly(h) ==
  /\ handler[h].phase # "idle"
  /\ acked' = [acked EXCEPT ![handler[h].sub] = @ \cup {handler[h].event}]
  /\ handler' = [handler EXCEPT ![h] = Free]
  /\ UNCHANGED <<readModel, failures>>

Ack(h) ==
  /\ handler[h].phase = "done"
  /\ acked' = [acked EXCEPT ![handler[h].sub] = @ \cup {handler[h].event}]
  /\ handler' = [handler EXCEPT ![h] = Free]
  /\ UNCHANGED <<readModel, failures>>

\* Mutation: failed deliveries are not counted.
NackUncounted(h) ==
  /\ handler[h].phase # "idle"
  /\ handler' = [handler EXCEPT ![h] = Free]
  /\ UNCHANGED <<readModel, subscription>>

\* The handler throws, the instance dies or its answer is lost.
Nack(h) ==
  /\ handler[h].phase # "idle"
  /\ failures' = [failures EXCEPT ![handler[h].sub][handler[h].event] =
                    IF @ < MaxDeliveries THEN @ + 1 ELSE @]
  /\ handler' = [handler EXCEPT ![h] = Free]
  /\ UNCHANGED <<readModel, acked>>

-----------------------------------------------------------------------------
(* The handlers.  The document id is the eventId and CreateIfAbsentAsync   *)
(* creates it or finds it there.                                           *)

Project(h) ==
  /\ handler[h].phase = "received" /\ handler[h].sub = "projection"
  /\ movements' = movements \cup {handler[h].event}
  /\ handler' = [handler EXCEPT ![h].phase = "done"]
  /\ UNCHANGED <<notifications, pushes, subscription>>

\* Mutation: UpsertAsync.
Upserted(e) == TRUE

\* What CreateIfAbsentAsync returns.
Created(e) == notifications[e] = "none"

Notify(h) ==
  LET e == handler[h].event
  IN  /\ handler[h].phase = "received" /\ handler[h].sub = "notifications"
      /\ notifications' = [notifications EXCEPT ![e] = IF Created(e) THEN "unread" ELSE @]
      /\ handler' = [handler EXCEPT ![h].phase = IF Created(e) THEN "created" ELSE "done"]
      /\ UNCHANGED <<movements, pushes, subscription>>

SendPush(h) ==
  /\ handler[h].phase = "created"
  /\ pushes' = [pushes EXCEPT ![handler[h].event] = @ + 1]
  /\ handler' = [handler EXCEPT ![h].phase = "done"]
  /\ UNCHANGED <<movements, notifications, subscription>>

\* PATCH /v1/notifications/{id}/read, by the owner.
MarkRead(e) ==
  /\ notifications[e] # "none"
  /\ notifications' = [notifications EXCEPT ![e] = "read"]
  /\ UNCHANGED <<movements, pushes, handler, subscription>>

-----------------------------------------------------------------------------
DeliveryInit ==
  /\ Init
  /\ movements = {}
  /\ notifications = [e \in Events |-> "none"]
  /\ pushes = [e \in Events |-> 0]
  /\ handler = [h \in Handlers |-> Free]
  /\ acked = [s \in Subscriptions |-> {}]
  /\ failures = [s \in Subscriptions |-> [e \in Events |-> 0]]

Handle(h) == Project(h) \/ Notify(h) \/ SendPush(h) \/ Ack(h) \/ Nack(h)

Deliver ==
  \/ \E h \in Handlers : Handle(h)
  \/ \E h \in Handlers, s \in Subscriptions, e \in Events : Receive(h, s, e)
  \/ \E e \in Events : MarkRead(e)

DeliveryNext == (Next /\ UNCHANGED deliveryVars) \/ (Deliver /\ UNCHANGED vars)

\* Pub/Sub keeps delivering a message that is neither acknowledged nor dead, and a
\* push request ends.
Redeliver(s, e) ==
  /\ ~DeadLettered(s, e) /\ e \notin acked[s]
  /\ \E h \in Handlers : Receive(h, s, e) /\ UNCHANGED vars

DeliverySpec == DeliveryInit /\ [][DeliveryNext]_allVars

DeliveryFairSpec ==
  /\ DeliverySpec
  /\ \A h \in Handlers : WF_allVars(Handle(h) /\ UNCHANGED vars)
  /\ \A s \in Subscriptions, e \in Events : SF_allVars(Redeliver(s, e))

-----------------------------------------------------------------------------
(* Properties.                                                             *)

\* Every variable stays within its type.
DeliveryTypeOK ==
  /\ TypeOK
  /\ movements \subseteq Events
  /\ notifications \in [Events -> {"none", "unread", "read"}]
  /\ pushes \in [Events -> Nat]
  /\ handler \in [Handlers -> [phase : HandlerPhases, event : Events \cup {NoEvent},
                               sub : Subscriptions \cup {NoSubscription}]]
  /\ acked \in [Subscriptions -> SUBSET Events]
  /\ failures \in [Subscriptions -> [Events -> 0..MaxDeliveries]]

\* However often an event is published and delivered, and whichever deliveries
\* overlap or are repeated, its owner's phone buzzes at most once, and only when
\* there is a notification to show.
PushedOnce == \A e \in Events : pushes[e] <= 1 /\ (pushes[e] = 1 => notifications[e] # "none")

\* A redelivered event never makes a read notification unread again.
ReadStaysRead ==
  [][\A e \in Events : notifications[e] = "read" => notifications'[e] = "read"]_allVars

\* Acknowledged means done: the broker forgets an event only when the document it
\* is about exists, and no document is about an event that was not committed.
AckedIsApplied ==
  /\ acked["projection"] \subseteq movements
  /\ \A e \in acked["notifications"] : notifications[e] # "none"
  /\ movements \cup {e \in Events : notifications[e] # "none"} \subseteq committed \ Poison

\* A published event reaches the client's movements unless it is dead-lettered.
PublishedIsProjected ==
  \A e \in Events :
    e \in topic ~> e \in movements \/ DeadLettered("projection", e)
=============================================================================
