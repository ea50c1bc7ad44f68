------------------------ MODULE OutboxDeliveryProofs ------------------------
(***************************************************************************)
(* OutboxDelivery: what is acknowledged is done, and a phone is pushed at  *)
(* most once, for any number of events, drains and push requests.          *)
(***************************************************************************)
EXTENDS OutboxDelivery, OutboxProofs

Deliveries ==
  [phase : HandlerPhases, event : Events \cup {NoEvent}, sub : Subscriptions \cup {NoSubscription}]

\* The document of event e that subscription s is about exists.
Applied(s, e) == IF s = "projection" THEN e \in movements ELSE notifications[e] # "none"

\* A request delivers a published event; it says it is done when the document is
\* there, and only the one that created a notification, not pushed yet, will push it.
HandlerOK(h) ==
  LET e == handler[h].event
      s == handler[h].sub
  IN  /\ handler[h].phase # "idle" => e \in topic /\ s \in Subscriptions
      /\ handler[h].phase = "done" => Applied(s, e)
      /\ handler[h].phase = "created" =>
           /\ s = "notifications" /\ notifications[e] # "none" /\ pushes[e] = 0
           /\ \A g \in Handlers :
                handler[g].phase = "created" /\ handler[g].event = e => g = h

\* Documents are about published events, and a push about a document.
DocumentsOK ==
  /\ movements \subseteq topic
  /\ \A e \in Events : notifications[e] # "none" => e \in topic
  /\ \A e \in Events : pushes[e] <= 1 /\ (notifications[e] = "none" => pushes[e] = 0)

AckedOK == \A s \in Subscriptions : \A e \in acked[s] : Applied(s, e)

DeliveryInv ==
  /\ Inv
  /\ DeliveryTypeOK
  /\ \A h \in Handlers : HandlerOK(h)
  /\ DocumentsOK
  /\ AckedOK

-----------------------------------------------------------------------------
LEMMA DeliveryInitInv == DeliveryInit => DeliveryInv
<1> SUFFICES ASSUME DeliveryInit PROVE DeliveryInv
  OBVIOUS
<1>1. Inv /\ TypeOK
  BY InitInv DEF DeliveryInit, Inv
<1>2. DeliveryTypeOK
  BY <1>1, DeliveriesAssumption
  DEF DeliveryInit, DeliveryTypeOK, Free, HandlerPhases
<1>3. \A h \in Handlers : HandlerOK(h)
  BY DEF DeliveryInit, HandlerOK, Free
<1>4. DocumentsOK /\ AckedOK
  BY DEF DeliveryInit, DocumentsOK, AckedOK
<1> QED
  BY <1>1, <1>2, <1>3, <1>4 DEF DeliveryInv

\* The outbox goes on: it may publish more, and touches no document.
LEMMA OutboxStepInv ==
  ASSUME DeliveryInv, [Next]_vars, UNCHANGED deliveryVars
  PROVE  DeliveryInv'
<1>1. Inv'
  BY NextInv DEF DeliveryInv
<1>2. topic \subseteq topic'
  BY DEF Next, vars, rows, Insert, Drain, Fetch, FailPoison, Publish, Mark, Confirm,
         ConfirmThrows, Fail, Finish, Abort
<1>3. UNCHANGED <<movements, notifications, pushes, handler, acked, failures>>
  BY DEF deliveryVars, readModel, subscription
<1>4. DeliveryTypeOK'
  BY <1>1, <1>3 DEF DeliveryInv, DeliveryTypeOK, Inv
<1>5. \A h \in Handlers : HandlerOK(h)'
  BY <1>2, <1>3 DEF DeliveryInv, HandlerOK, Applied
<1>6. DocumentsOK' /\ AckedOK'
  BY <1>2, <1>3 DEF DeliveryInv, DocumentsOK, AckedOK, Applied
<1> QED
  BY <1>1, <1>4, <1>5, <1>6 DEF DeliveryInv

\* A step of Pub/Sub or a handler: what it must show of its own writes.
LEMMA DeliveryStepInv ==
  ASSUME DeliveryInv, UNCHANGED vars, DeliveryTypeOK',
         \A h \in Handlers : HandlerOK(h)', DocumentsOK', AckedOK'
  PROVE  DeliveryInv'
<1>1. Inv'
  BY NextInv DEF DeliveryInv
<1> QED
  BY <1>1 DEF DeliveryInv

\* One request moves to a state D that owes nothing; documents stay as they are.
LEMMA MoveHandlerInv ==
  ASSUME DeliveryInv, UNCHANGED vars, UNCHANGED readModel,
         NEW h \in Handlers, NEW D \in Deliveries,
         handler' = [handler EXCEPT ![h] = D],
         D.phase \in {"idle", "received"},
         D.phase = "received" => D.event \in topic /\ D.sub \in Subscriptions,
         acked' \in [Subscriptions -> SUBSET Events], AckedOK',
         failures' \in [Subscriptions -> [Events -> 0..MaxDeliveries]]
  PROVE  DeliveryInv'
<1>1. /\ UNCHANGED <<movements, notifications, pushes, topic>>
      /\ TypeOK'
  BY NextInv DEF readModel, vars, DeliveryInv, Inv
<1>2. handler \in [Handlers -> Deliveries]
  BY DEF DeliveryInv, DeliveryTypeOK, Deliveries
<1>3. handler'[h] = D /\ \A g \in Handlers \ {h} : handler'[g] = handler[g]
  BY <1>2
<1>4. DeliveryTypeOK'
  BY <1>1, <1>2 DEF DeliveryInv, DeliveryTypeOK, Deliveries
<1>5. ASSUME NEW g \in Handlers
      PROVE  HandlerOK(g)'
  <2>1. CASE g = h
    BY <1>1, <1>3, <2>1 DEF HandlerOK
  <2>2. CASE g # h
    <3>1. HandlerOK(g) /\ handler'[g] = handler[g]
      BY <1>3, <2>2 DEF DeliveryInv
    <3> QED
      BY <1>1, <1>3, <3>1 DEF HandlerOK, Applied
  <2> QED
    BY <2>1, <2>2
<1>6. DocumentsOK'
  BY <1>1 DEF DeliveryInv, DocumentsOK
<1> QED
  BY <1>4, <1>5, <1>6, DeliveryStepInv

LEMMA FreeIsFree == Free \in Deliveries /\ Free.phase = "idle"
  BY DEF Free, Deliveries, HandlerPhases

LEMMA ReceiveInv ==
  ASSUME DeliveryInv, UNCHANGED vars,
         NEW h \in Handlers, NEW s \in Subscriptions, NEW e \in Events, Receive(h, s, e)
  PROVE  DeliveryInv'
<1> DEFINE D == [phase |-> "received", sub |-> s, event |-> e]
<1>1. D \in Deliveries /\ D.phase = "received" /\ D.event \in topic /\ D.sub \in Subscriptions
  BY DEF Receive, Deliveries, HandlerPhases
<1>2. /\ UNCHANGED readModel /\ UNCHANGED <<acked, failures>>
      /\ handler' = [handler EXCEPT ![h] = D]
  BY DEF Receive, subscription
<1>3. AckedOK'
  BY <1>2 DEF DeliveryInv, AckedOK, Applied, readModel
<1> HIDE DEF D
<1> QED
  BY <1>1, <1>2, <1>3, MoveHandlerInv DEF DeliveryInv, DeliveryTypeOK

LEMMA AckInv ==
  ASSUME DeliveryInv, UNCHANGED vars, NEW h \in Handlers, Ack(h)
  PROVE  DeliveryInv'
<1> DEFINE e == handler[h].event
           s == handler[h].sub
<1>1. /\ UNCHANGED readModel /\ failures' = failures
      /\ handler' = [handler EXCEPT ![h] = Free]
      /\ acked' = [acked EXCEPT ![s] = @ \cup {e}]
  BY DEF Ack
<1>2. e \in topic /\ s \in Subscriptions /\ Applied(s, e) /\ e \in Events
  BY DEF Ack, DeliveryInv, HandlerOK, DeliveryTypeOK, TypeOK
<1> HIDE DEF e, s
<1>3. acked' \in [Subscriptions -> SUBSET Events]
  BY <1>1, <1>2 DEF DeliveryInv, DeliveryTypeOK
<1>4. AckedOK'
  BY <1>1, <1>2 DEF DeliveryInv, DeliveryTypeOK, AckedOK, Applied, readModel
<1> QED
  BY <1>1, <1>3, <1>4, FreeIsFree, MoveHandlerInv DEF DeliveryInv, DeliveryTypeOK

LEMMA NackInv ==
  ASSUME DeliveryInv, UNCHANGED vars, NEW h \in Handlers, Nack(h)
  PROVE  DeliveryInv'
<1>1. /\ UNCHANGED readModel /\ acked' = acked
      /\ handler' = [handler EXCEPT ![h] = Free]
  BY DEF Nack
<1>2. failures' \in [Subscriptions -> [Events -> 0..MaxDeliveries]]
  <2> DEFINE e == handler[h].event
             s == handler[h].sub
             n == IF failures[s][e] < MaxDeliveries THEN failures[s][e] + 1 ELSE failures[s][e]
  <2>1. failures \in [Subscriptions -> [Events -> 0..MaxDeliveries]]
    BY DEF DeliveryInv, DeliveryTypeOK
  <2>2. s \in Subscriptions /\ e \in Events
    BY DEF Nack, DeliveryInv, HandlerOK, DeliveryTypeOK, TypeOK
  <2>3. failures' = [failures EXCEPT ![s] = [failures[s] EXCEPT ![e] = n]]
    BY DEF Nack
  <2>4. n \in 0..MaxDeliveries
    BY <2>1, <2>2, DeliveriesAssumption
  <2> HIDE DEF e, s, n
  <2>5. [failures[s] EXCEPT ![e] = n] \in [Events -> 0..MaxDeliveries]
    BY <2>1, <2>2, <2>4
  <2> QED
    BY <2>1, <2>3, <2>5
<1>3. AckedOK'
  BY <1>1 DEF DeliveryInv, AckedOK, Applied, readModel
<1> QED
  BY <1>1, <1>2, <1>3, FreeIsFree, MoveHandlerInv DEF DeliveryInv, DeliveryTypeOK

-----------------------------------------------------------------------------
LEMMA ProjectInv ==
  ASSUME DeliveryInv, UNCHANGED vars, NEW h \in Handlers, Project(h)
  PROVE  DeliveryInv'
<1>1. /\ UNCHANGED <<notifications, pushes, acked, failures, topic>> /\ TypeOK'
      /\ movements' = movements \cup {handler[h].event}
      /\ handler' = [handler EXCEPT ![h].phase = "done"]
      /\ handler[h].sub = "projection" /\ handler[h].event \in topic
  BY NextInv DEF Project, subscription, vars, DeliveryInv, Inv, HandlerOK
<1>2. handler \in [Handlers -> Deliveries] /\ topic \subseteq Events
  BY DEF DeliveryInv, DeliveryTypeOK, Deliveries, TypeOK
<1>3. /\ handler' \in [Handlers -> Deliveries]
      /\ handler'[h].phase = "done"
      /\ handler'[h].event = handler[h].event /\ handler'[h].sub = handler[h].sub
      /\ \A g \in Handlers \ {h} : handler'[g] = handler[g]
  BY <1>1, <1>2 DEF Deliveries, HandlerPhases
<1>4. DeliveryTypeOK'
  BY <1>1, <1>2, <1>3 DEF DeliveryInv, DeliveryTypeOK, Deliveries
<1>5. ASSUME NEW g \in Handlers
      PROVE  HandlerOK(g)'
  <2>1. CASE g = h
    BY <1>1, <1>3, <2>1 DEF HandlerOK, Applied, Subscriptions
  <2>2. CASE g # h
    <3>1. HandlerOK(g) /\ handler'[g] = handler[g]
      BY <1>3, <2>2 DEF DeliveryInv
    <3>2. \A f \in Handlers : handler'[f].phase = "created" => handler'[f] = handler[f]
      BY <1>3
    <3>3. /\ movements \subseteq movements'
          /\ notifications' = notifications /\ pushes' = pushes /\ topic' = topic
      BY <1>1
    <3> QED
      BY <3>1, <3>2, <3>3 DEF HandlerOK, Applied
  <2> QED
    BY <2>1, <2>2
<1>6. DocumentsOK' /\ AckedOK'
  BY <1>1 DEF DeliveryInv, DocumentsOK, AckedOK, Applied
<1> QED
  BY <1>4, <1>5, <1>6, DeliveryStepInv

LEMMA NotifyInv ==
  ASSUME DeliveryInv, UNCHANGED vars, NEW h \in Handlers, Notify(h)
  PROVE  DeliveryInv'
<1> DEFINE e == handler[h].event
<1>1. /\ UNCHANGED <<movements, pushes, acked, failures, topic>> /\ TypeOK'
      /\ notifications' = [notifications EXCEPT ![e] = IF Created(e) THEN "unread" ELSE @]
      /\ handler' = [handler EXCEPT ![h].phase = IF Created(e) THEN "created" ELSE "done"]
      /\ handler[h].sub = "notifications" /\ e \in topic
  BY NextInv DEF Notify, subscription, vars, DeliveryInv, Inv, HandlerOK
<1>2. /\ handler \in [Handlers -> Deliveries] /\ topic \subseteq Events
      /\ notifications \in [Events -> {"none", "unread", "read"}]
  BY DEF DeliveryInv, DeliveryTypeOK, Deliveries, TypeOK
<1>3. /\ handler' \in [Handlers -> Deliveries]
      /\ handler'[h].phase = IF Created(e) THEN "created" ELSE "done"
      /\ handler'[h].event = e /\ handler'[h].sub = "notifications"
      /\ \A g \in Handlers \ {h} : handler'[g] = handler[g]
  BY <1>1, <1>2 DEF Deliveries, HandlerPhases
<1> HIDE DEF e
<1>4. /\ notifications' \in [Events -> {"none", "unread", "read"}]
      /\ notifications'[e] # "none"
      /\ \A f \in Events : f # e => notifications'[f] = notifications[f]
      /\ \A f \in Events : notifications[f] # "none" => notifications'[f] # "none"
  BY <1>1, <1>2 DEF Created
<1>5. DeliveryTypeOK'
  BY <1>1, <1>3, <1>4 DEF DeliveryInv, DeliveryTypeOK, Deliveries
<1>6. Created(e) => /\ pushes[e] = 0
                    /\ \A g \in Handlers : ~(handler[g].phase = "created" /\ handler[g].event = e)
  BY <1>1, <1>2 DEF DeliveryInv, DocumentsOK, HandlerOK, Created
<1>7. ASSUME NEW g \in Handlers
      PROVE  HandlerOK(g)'
  <2>1. CASE g = h
    BY <1>1, <1>3, <1>4, <1>6, <2>1 DEF HandlerOK, Applied, Subscriptions
  <2>2. CASE g # h
    <3>1. HandlerOK(g) /\ handler'[g] = handler[g]
      BY <1>3, <2>2 DEF DeliveryInv
    <3>2. handler[g].phase # "idle" => handler[g].event \in Events
      BY <1>2, <3>1 DEF HandlerOK
    <3> QED
      BY <1>1, <1>3, <1>4, <1>6, <2>2, <3>1, <3>2 DEF HandlerOK, Applied
  <2> QED
    BY <2>1, <2>2
<1>8. DocumentsOK' /\ AckedOK'
  <2>1. \A s \in Subscriptions : acked[s] \subseteq Events
    BY DEF DeliveryInv, DeliveryTypeOK
  <2> QED
    BY <1>1, <1>4, <2>1 DEF DeliveryInv, DocumentsOK, AckedOK, Applied
<1> QED
  BY <1>5, <1>7, <1>8, DeliveryStepInv

LEMMA SendPushInv ==
  ASSUME DeliveryInv, UNCHANGED vars, NEW h \in Handlers, SendPush(h)
  PROVE  DeliveryInv'
<1> DEFINE e == handler[h].event
<1>1. /\ UNCHANGED <<movements, notifications, acked, failures, topic>> /\ TypeOK'
      /\ pushes' = [pushes EXCEPT ![e] = @ + 1]
      /\ handler' = [handler EXCEPT ![h].phase = "done"]
      /\ handler[h].phase = "created"
  BY NextInv DEF SendPush, subscription, vars, DeliveryInv, Inv
<1>2. /\ handler \in [Handlers -> Deliveries] /\ topic \subseteq Events
      /\ pushes \in [Events -> Nat]
  BY DEF DeliveryInv, DeliveryTypeOK, Deliveries, TypeOK
<1>3. /\ handler' \in [Handlers -> Deliveries]
      /\ handler'[h].phase = "done"
      /\ handler'[h].event = e /\ handler'[h].sub = handler[h].sub
      /\ \A g \in Handlers \ {h} : handler'[g] = handler[g]
  BY <1>1, <1>2 DEF Deliveries, HandlerPhases
<1>4. /\ handler[h].sub = "notifications" /\ notifications[e] # "none" /\ pushes[e] = 0
      /\ e \in topic
      /\ \A g \in Handlers : handler[g].phase = "created" /\ handler[g].event = e => g = h
  BY <1>1 DEF DeliveryInv, HandlerOK
<1> HIDE DEF e
<1>5. /\ pushes' \in [Events -> Nat] /\ pushes'[e] = 1
      /\ \A f \in Events : f # e => pushes'[f] = pushes[f]
  BY <1>1, <1>2, <1>4
<1>6. DeliveryTypeOK'
  BY <1>1, <1>3, <1>5 DEF DeliveryInv, DeliveryTypeOK, Deliveries
<1>7. ASSUME NEW g \in Handlers
      PROVE  HandlerOK(g)'
  <2>1. CASE g = h
    BY <1>1, <1>3, <1>4, <2>1 DEF HandlerOK, Applied, Subscriptions
  <2>2. CASE g # h
    <3>1. HandlerOK(g) /\ handler'[g] = handler[g]
      BY <1>3, <2>2 DEF DeliveryInv
    <3>2. handler[g].phase = "created" => handler[g].event \in Events /\ handler[g].event # e
      BY <1>2, <1>4, <2>2, <3>1 DEF HandlerOK
    <3> QED
      BY <1>1, <1>3, <1>5, <3>1, <3>2 DEF HandlerOK, Applied
  <2> QED
    BY <2>1, <2>2
<1>8. DocumentsOK' /\ AckedOK'
  BY <1>1, <1>4, <1>5 DEF DeliveryInv, DocumentsOK, AckedOK, Applied
<1> QED
  BY <1>6, <1>7, <1>8, DeliveryStepInv

LEMMA MarkReadInv ==
  ASSUME DeliveryInv, UNCHANGED vars, NEW e \in Events, MarkRead(e)
  PROVE  DeliveryInv'
<1>1. /\ UNCHANGED <<movements, pushes, handler, acked, failures, topic>> /\ TypeOK'
      /\ notifications' = [notifications EXCEPT ![e] = "read"] /\ notifications[e] # "none"
  BY NextInv DEF MarkRead, subscription, vars, DeliveryInv, Inv
<1>2. /\ notifications \in [Events -> {"none", "unread", "read"}] /\ topic \subseteq Events
      /\ \A s \in Subscriptions : acked[s] \subseteq Events
  BY DEF DeliveryInv, DeliveryTypeOK, TypeOK
<1>3. /\ notifications' \in [Events -> {"none", "unread", "read"}]
      /\ \A f \in Events : notifications'[f] = "none" <=> notifications[f] = "none"
  BY <1>1, <1>2
<1>4. DeliveryTypeOK'
  BY <1>1, <1>3 DEF DeliveryInv, DeliveryTypeOK
<1>5. \A h \in Handlers : HandlerOK(h)'
  BY <1>1, <1>2, <1>3 DEF DeliveryInv, HandlerOK, Applied
<1>6. DocumentsOK' /\ AckedOK'
  BY <1>1, <1>2, <1>3 DEF DeliveryInv, DocumentsOK, AckedOK, Applied
<1> QED
  BY <1>4, <1>5, <1>6, DeliveryStepInv

-----------------------------------------------------------------------------
LEMMA DeliveryNextInv == DeliveryInv /\ [DeliveryNext]_allVars => DeliveryInv'
<1> SUFFICES ASSUME DeliveryInv, [DeliveryNext]_allVars PROVE DeliveryInv'
  OBVIOUS
<1>1. CASE [Next]_vars /\ UNCHANGED deliveryVars
  BY <1>1, OutboxStepInv
<1>2. CASE Deliver /\ UNCHANGED vars
  BY <1>2, ReceiveInv, AckInv, NackInv, ProjectInv, NotifyInv, SendPushInv, MarkReadInv
  DEF Deliver, Handle
<1> QED
  BY <1>1, <1>2 DEF DeliveryNext, allVars

LEMMA DeliverySpecInv == DeliverySpec => []DeliveryInv
  BY DeliveryInitInv, DeliveryNextInv, PTL DEF DeliverySpec

\* Whatever is published twice, redelivered or delivered to overlapping requests,
\* a client's phone is pushed at most once about a movement, and only about a
\* notification that exists (NotificationService, CreateIfAbsentAsync).
THEOREM AtMostOnePush == DeliverySpec => []PushedOnce
<1>1. DeliveryInv => PushedOnce
  BY DEF DeliveryInv, DocumentsOK, PushedOnce
<1> QED
  BY <1>1, DeliverySpecInv, PTL

\* An acknowledged event has its document, and no document is about an event that
\* was not committed (PubSubPushController and the two handlers).
THEOREM AckMeansApplied == DeliverySpec => []AckedIsApplied
<1>1. DeliveryInv => AckedIsApplied
  <2> SUFFICES ASSUME DeliveryInv PROVE AckedIsApplied
    OBVIOUS
  <2>1. topic \subseteq committed \ Poison
    BY DEF DeliveryInv, Inv, OnlyCommittedSent
  <2> QED
    BY <2>1 DEF DeliveryInv, DocumentsOK, AckedOK, Applied, Subscriptions, AckedIsApplied
<1> QED
  BY <1>1, DeliverySpecInv, PTL

\* A redelivery leaves a read notification read (CreateIfAbsentAsync never updates).
THEOREM ReadStays == DeliverySpec => ReadStaysRead
<1>1. DeliveryInv /\ [DeliveryNext]_allVars =>
        \A e \in Events : notifications[e] = "read" => notifications'[e] = "read"
  <2> SUFFICES ASSUME DeliveryInv, [DeliveryNext]_allVars, NEW e \in Events,
                      notifications[e] = "read"
               PROVE  notifications'[e] = "read"
    OBVIOUS
  <2>1. notifications \in [Events -> {"none", "unread", "read"}]
    BY DEF DeliveryInv, DeliveryTypeOK
  <2>2. ASSUME NEW h \in Handlers, Notify(h)
        PROVE  notifications'[e] = "read"
    BY <2>1, <2>2 DEF Notify, Created
  <2>3. ASSUME NEW f \in Events, MarkRead(f)
        PROVE  notifications'[e] = "read"
    BY <2>1, <2>3 DEF MarkRead
  <2>4. CASE UNCHANGED notifications
    BY <2>4
  <2> QED
    BY <2>2, <2>3, <2>4
    DEF DeliveryNext, Deliver, Handle, Receive, Project, SendPush, Ack, Nack, readModel,
        deliveryVars, allVars
<1> QED
  BY <1>1, DeliverySpecInv, PTL DEF DeliverySpec, ReadStaysRead
=============================================================================
