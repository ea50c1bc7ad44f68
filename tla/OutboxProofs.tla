---------------------------- MODULE OutboxProofs ----------------------------
(***************************************************************************)
(* Outbox and OutboxReconciliation: the safety invariants hold for every   *)
(* set of events, drains and operators, every batch size and every number  *)
(* of attempts.                                                            *)
(***************************************************************************)
EXTENDS OutboxReconciliation, TLAPS

\* A drain only ever works on rows that are committed, and it is about to mark
\* as published only what the broker has accepted.
DrainOK(d) ==
  /\ drain[d].batch \subseteq committed
  /\ drain[d].phase \in {"accepted", "failed"} => drain[d].event \in committed \ Poison
  /\ drain[d].phase = "accepted" => drain[d].event \in topic

QueueOK == \A e \in Events : Pending(e) => e \in committed

Inv ==
  /\ TypeOK
  /\ \A d \in Dispatchers : DrainOK(d)
  /\ QueueOK
  /\ OnlyCommittedSent
  /\ PublishedWasSent
  /\ PublishedLeavesQueue
  /\ NoEventLost

-----------------------------------------------------------------------------
LEMMA InitInv == Init => Inv
  BY EventsAssumption
  DEF Init, Inv, TypeOK, Drains, Phases, Idle, DrainOK, QueueOK, OnlyCommittedSent,
      PublishedWasSent, PublishedLeavesQueue, NoEventLost, Pending

\* What the two marks do to the rows, on their own.
LEMMA MarkPublishedRows ==
  ASSUME TypeOK, QueueOK, PublishedWasSent, PublishedLeavesQueue, NoEventLost,
         NEW e \in Events, e \in topic, MarkPublished(e), topic' = topic
  PROVE  /\ published' \subseteq Events /\ since' \in [Events -> Nat]
         /\ attempts' \in [Events -> Nat] /\ clock' \in Nat
         /\ committed' = committed
         /\ QueueOK' /\ PublishedWasSent' /\ PublishedLeavesQueue' /\ NoEventLost'
  BY DEF TypeOK, QueueOK, PublishedWasSent, PublishedLeavesQueue, NoEventLost, MarkPublished,
         Pending

LEMMA MarkFailedRows ==
  ASSUME TypeOK, QueueOK, PublishedWasSent, PublishedLeavesQueue, NoEventLost,
         NEW e \in Events, MarkFailed(e), topic' = topic
  PROVE  /\ published' \subseteq Events /\ since' \in [Events -> Nat]
         /\ attempts' \in [Events -> Nat] /\ clock' \in Nat
         /\ committed' = committed
         /\ QueueOK' /\ PublishedWasSent' /\ PublishedLeavesQueue' /\ NoEventLost'
<1>1. /\ since' \in [Events -> Nat]
      /\ attempts' \in [Events -> Nat]
      /\ published' = published /\ committed' = committed /\ clock' = clock
  BY DEF TypeOK, MarkFailed
<1>2. \A f \in Events : since'[f] > 0 => since[f] > 0
  BY DEF TypeOK, MarkFailed
<1>3. \A f \in Events : /\ attempts'[f] >= attempts[f]
                        /\ since'[f] = since[f] \/ attempts'[f] >= MaxAttempts
  BY SizesAssumption DEF TypeOK, MarkFailed
<1>4. QueueOK' /\ PublishedWasSent' /\ PublishedLeavesQueue'
  BY <1>1, <1>2
  DEF TypeOK, QueueOK, PublishedWasSent, PublishedLeavesQueue, Pending
<1>5. NoEventLost'
  <2> SUFFICES ASSUME NEW f \in committed, f \notin published, ~(since'[f] > 0)
               PROVE  attempts'[f] >= MaxAttempts
    BY <1>1 DEF NoEventLost, Pending
  <2>1. f \in Events
    BY DEF TypeOK
  <2>2. attempts[f] \in Nat /\ attempts'[f] \in Nat
    BY <1>1, <2>1 DEF TypeOK
  <2>3. CASE since'[f] = since[f]
    <3>1. attempts[f] >= MaxAttempts
      BY <2>3 DEF NoEventLost, Pending
    <3> QED
      BY <1>3, <2>1, <2>2, <3>1, SizesAssumption
  <2> QED
    BY <1>3, <2>1, <2>3
<1> QED
  BY <1>1, <1>4, <1>5 DEF TypeOK

-----------------------------------------------------------------------------
\* One lemma per kind of step.
LEMMA InsertInv ==
  ASSUME Inv, NEW e \in Events, Insert(e)
  PROVE  Inv'
<1> USE DEF Inv
<1>1. TypeOK'
  BY DEF Insert, TypeOK
<1>2. \A d \in Dispatchers : DrainOK(d)'
  BY DEF Insert, DrainOK
<1>3. QueueOK' /\ OnlyCommittedSent' /\ PublishedWasSent'
  BY DEF Insert, TypeOK, QueueOK, OnlyCommittedSent, PublishedWasSent, Pending
<1>4. e \notin published
  BY DEF Insert, OnlyCommittedSent, PublishedWasSent
<1>5. PublishedLeavesQueue' /\ NoEventLost'
  BY <1>4 DEF Insert, TypeOK, PublishedLeavesQueue, NoEventLost, Pending
<1> QED
  BY <1>1, <1>2, <1>3, <1>5

\* The steps that leave the rows and the topic alone.
LEMMA DrainOnlyInv ==
  ASSUME Inv, NEW d \in Dispatchers, UNCHANGED <<rows, topic>>,
         NEW D \in Drains, drain' = [drain EXCEPT ![d] = D],
         D.batch \subseteq committed,
         D.phase \in {"accepted", "failed"} => D.event \in committed \ Poison,
         D.phase = "accepted" => D.event \in topic
  PROVE  Inv'
<1>1. TypeOK'
  BY DEF Inv, TypeOK, rows
<1>2. \A c \in Dispatchers : DrainOK(c)'
  BY DEF Inv, TypeOK, rows, DrainOK
<1> QED
  BY <1>1, <1>2
  DEF Inv, rows, QueueOK, OnlyCommittedSent, PublishedWasSent, PublishedLeavesQueue,
      NoEventLost, Pending

LEMMA FetchInv ==
  ASSUME Inv, NEW d \in Dispatchers, Fetch(d)
  PROVE  Inv'
<1> DEFINE D == [Idle EXCEPT !.phase = "working", !.batch = Batch]
<1>1. Batch \subseteq Events /\ Batch \subseteq committed
  BY DEF Inv, QueueOK, Batch, PendingRows
<1>2. D \in Drains /\ D.batch = Batch /\ D.phase = "working"
  BY <1>1, EventsAssumption DEF Drains, Phases, Idle
<1> HIDE DEF D
<1>3. UNCHANGED <<rows, topic>> /\ drain' = [drain EXCEPT ![d] = D]
  BY DEF Fetch, D
<1> QED
  BY <1>1, <1>2, <1>3, DrainOnlyInv

LEMMA StopInv ==
  ASSUME Inv, NEW d \in Dispatchers, Finish(d) \/ Abort(d)
  PROVE  Inv'
<1>1. Idle \in Drains /\ Idle.batch = {} /\ Idle.phase = "idle"
  BY DEF Drains, Phases, Idle
<1>2. UNCHANGED <<rows, topic>> /\ drain' = [drain EXCEPT ![d] = Idle]
  BY DEF Finish, Abort
<1> QED
  BY <1>1, <1>2, DrainOnlyInv

LEMMA FailPoisonInv ==
  ASSUME Inv, NEW d \in Dispatchers, NEW e \in Events, FailPoison(d, e)
  PROVE  Inv'
<1>1. MarkFailed(e) /\ topic' = topic
  BY DEF FailPoison
<1>2. /\ published' \subseteq Events /\ since' \in [Events -> Nat]
      /\ attempts' \in [Events -> Nat] /\ clock' \in Nat
      /\ committed' = committed
      /\ QueueOK' /\ PublishedWasSent' /\ PublishedLeavesQueue' /\ NoEventLost'
  BY <1>1, MarkFailedRows DEF Inv
<1>3. drain' \in [Dispatchers -> Drains]
  BY DEF Inv, TypeOK, Drains, FailPoison
<1>4. \A c \in Dispatchers : DrainOK(c)'
  BY <1>1, <1>2 DEF Inv, TypeOK, Drains, DrainOK, FailPoison
<1> QED
  BY <1>1, <1>2, <1>3, <1>4 DEF Inv, TypeOK, OnlyCommittedSent

LEMMA PublishInv ==
  ASSUME Inv, NEW d \in Dispatchers, NEW e \in Events, Publish(d, e)
  PROVE  Inv'
<1>1. UNCHANGED rows /\ topic' \in {topic, topic \cup {e}}
  BY DEF Publish
<1>2. e \in committed \ Poison /\ drain[d].batch \subseteq committed
  BY DEF Inv, DrainOK, Publish
<1>3. drain' \in [Dispatchers -> Drains]
  BY DEF Inv, TypeOK, Drains, Phases, Publish
<1>4. TypeOK' /\ OnlyCommittedSent' /\ PublishedWasSent'
  BY <1>1, <1>2, <1>3 DEF Inv, TypeOK, OnlyCommittedSent, PublishedWasSent, rows
<1>5. \A c \in Dispatchers : DrainOK(c)'
  <2>1. DrainOK(d)'
    BY <1>1, <1>2 DEF Inv, TypeOK, Drains, DrainOK, Publish, rows
  <2>2. \A c \in Dispatchers \ {d} : drain'[c] = drain[c]
    BY DEF Inv, TypeOK, Publish
  <2> QED
    BY <1>1, <2>1, <2>2 DEF Inv, DrainOK, rows
<1> QED
  BY <1>1, <1>4, <1>5
  DEF Inv, rows, QueueOK, PublishedLeavesQueue, NoEventLost, Pending

\* Confirm, ConfirmThrows and Fail change the rows of the drain's event and leave
\* its batch no larger.
LEMMA MarkInv ==
  ASSUME Inv, NEW d \in Dispatchers, Mark(d)
  PROVE  Inv'
<1> DEFINE e == drain[d].event
<1>1. drain[d].phase \in {"accepted", "failed"} /\ topic' = topic
  BY DEF Mark, Confirm, ConfirmThrows, Fail
<1>2. e \in committed \ Poison /\ e \in Events
  BY <1>1 DEF Inv, TypeOK, DrainOK
<1>3. drain[d].phase = "accepted" => e \in topic
  BY DEF Inv, DrainOK
<1>4. \/ drain[d].phase = "accepted" /\ MarkPublished(e)
      \/ drain[d].phase = "accepted" /\ UNCHANGED rows
      \/ MarkFailed(e)
  BY DEF Mark, Confirm, ConfirmThrows, Fail
<1>5. drain' \in [Dispatchers -> Drains]
  BY DEF Inv, TypeOK, Drains, Phases, Mark, Confirm, ConfirmThrows, Fail, NextEvent
<1>6. /\ drain'[d].batch \subseteq drain[d].batch
      /\ drain'[d].phase # "accepted"
      /\ drain'[d].phase = "failed" => drain'[d].event = e
      /\ \A c \in Dispatchers \ {d} : drain'[c] = drain[c]
  BY DEF Inv, TypeOK, Drains, Mark, Confirm, ConfirmThrows, Fail, NextEvent
<1> HIDE DEF e
<1>7. /\ published' \subseteq Events /\ since' \in [Events -> Nat]
      /\ attempts' \in [Events -> Nat] /\ clock' \in Nat
      /\ committed' = committed
      /\ QueueOK' /\ PublishedWasSent' /\ PublishedLeavesQueue' /\ NoEventLost'
  <2>1. CASE drain[d].phase = "accepted" /\ MarkPublished(e)
    BY <1>1, <1>2, <1>3, <2>1, MarkPublishedRows DEF Inv
  <2>2. CASE UNCHANGED rows
    BY <1>1, <2>2
    DEF Inv, TypeOK, rows, QueueOK, PublishedWasSent, PublishedLeavesQueue, NoEventLost, Pending
  <2>3. CASE MarkFailed(e)
    BY <1>1, <1>2, <2>3, MarkFailedRows DEF Inv
  <2> QED
    BY <1>4, <2>1, <2>2, <2>3
<1>8. \A c \in Dispatchers : DrainOK(c)'
  BY <1>1, <1>2, <1>6, <1>7 DEF Inv, TypeOK, DrainOK
<1> QED
  BY <1>1, <1>5, <1>7, <1>8 DEF Inv, TypeOK, OnlyCommittedSent

LEMMA NextInv == Inv /\ [Next]_vars => Inv'
<1> SUFFICES ASSUME Inv, [Next]_vars PROVE Inv'
  OBVIOUS
<1>1. CASE \E e \in Events : Insert(e)
  BY <1>1, InsertInv
<1>2. CASE \E d \in Dispatchers : Drain(d)
  <2> PICK d \in Dispatchers : Drain(d)
    BY <1>2
  <2> QED
    BY FetchInv, MarkInv, StopInv, FailPoisonInv, PublishInv DEF Drain
<1>3. CASE UNCHANGED vars
  BY <1>3
  DEF vars, Inv, TypeOK, DrainOK, QueueOK, OnlyCommittedSent, PublishedWasSent,
      PublishedLeavesQueue, NoEventLost, Pending
<1> QED
  BY <1>1, <1>2, <1>3 DEF Next

-----------------------------------------------------------------------------
\* However many drains overlap and wherever they stop: only committed events are
\* sent, only sent events are marked published, a published event never returns
\* to the queue, and an unpublished one leaves it only with its attempts used up
\* (SpannerOutboxStore, OutboxDispatcher).
THEOREM OutboxIsSafe ==
  Spec => [](TypeOK /\ OnlyCommittedSent /\ EventsAreSafe)
<1>1. Spec => []Inv
  BY InitInv, NextInv, PTL DEF Spec
<1>2. Inv => TypeOK /\ OnlyCommittedSent /\ EventsAreSafe
  BY DEF Inv, EventsAreSafe
<1> QED
  BY <1>1, <1>2, PTL

-----------------------------------------------------------------------------
(* Operators who requeue.                                                  *)

\* A call that has found an issue holds a committed event.
CallOK(o) == resolving[o].phase # "idle" => resolving[o].event \in committed

ReconInv ==
  /\ Inv
  /\ resolving \in [Operators -> Calls]
  /\ \A o \in Operators : CallOK(o)

\* The UPDATE of RequeueOutboxAsync, at any moment.
LEMMA RequeueInv ==
  ASSUME Inv, NEW e \in committed, Requeue(e), UNCHANGED <<drain, topic>>
  PROVE  Inv'
<1>1. e \in Events /\ e \notin published
  BY DEF Inv, TypeOK, Requeue
<1>2. /\ since' \in [Events -> Nat] /\ attempts' \in [Events -> Nat] /\ clock' \in Nat
      /\ since'[e] > 0
      /\ \A f \in Events \ {e} : since'[f] = since[f] /\ attempts'[f] = attempts[f]
      /\ committed' = committed /\ published' = published
  BY <1>1 DEF Inv, TypeOK, Requeue
<1>3. TypeOK' /\ OnlyCommittedSent' /\ PublishedWasSent'
  BY <1>2 DEF Inv, TypeOK, OnlyCommittedSent, PublishedWasSent
<1>4. QueueOK' /\ PublishedLeavesQueue' /\ NoEventLost'
  BY <1>1, <1>2
  DEF Inv, TypeOK, QueueOK, PublishedLeavesQueue, NoEventLost, Pending
<1>5. \A d \in Dispatchers : DrainOK(d)'
  BY <1>2 DEF Inv, DrainOK
<1> QED
  BY <1>3, <1>4, <1>5 DEF Inv

LEMMA ReconInitInv == ReconInit => ReconInv
  BY InitInv DEF ReconInit, ReconInv, CallOK, Calls, NoCall, Resolutions

LEMMA ReconNextInv == ReconInv /\ [ReconNext]_systemVars => ReconInv'
<1> SUFFICES ASSUME ReconInv, [ReconNext]_systemVars PROVE ReconInv'
  OBVIOUS
<1>1. committed \subseteq committed'
  BY DEF ReconNext, systemVars, Next, Insert, Drain, Fetch, Mark, Finish, Abort, FailPoison,
         Publish, Confirm, ConfirmThrows, Fail, MarkPublished, MarkFailed, Reconcile, Find,
         Act, Requeue, Resolve, BreakOff, vars, rows
<1>2. Inv'
  <2>1. CASE [Next]_vars
    BY <2>1, NextInv DEF ReconInv
  <2>2. CASE \E o \in Operators : Act(o)
    <3> PICK o \in Operators : Act(o)
      BY <2>2
    <3>1. CASE UNCHANGED rows
      <4>1. UNCHANGED vars
        BY <3>1 DEF Act, rows, vars
      <4> QED
        BY <4>1, NextInv DEF ReconInv
    <3>2. CASE Requeue(resolving[o].event)
      <4>1. resolving[o].event \in committed /\ UNCHANGED <<drain, topic>>
        BY DEF ReconInv, CallOK, Act
      <4> QED
        BY <3>2, <4>1, RequeueInv DEF ReconInv
    <3> QED
      BY <3>1, <3>2 DEF Act
  <2> QED
    BY <2>1, <2>2 DEF ReconNext, Reconcile, Find, Resolve, BreakOff, systemVars
<1>3. resolving' \in [Operators -> Calls] /\ \A o \in Operators : CallOK(o)'
  <2>1. CASE UNCHANGED resolving
    BY <1>1, <2>1 DEF ReconInv, CallOK
  <2>2. ASSUME NEW o \in Operators, NEW e \in Events, NEW resolution \in Offered,
               Find(o, e, resolution)
        PROVE  resolving' \in [Operators -> Calls] /\ \A p \in Operators : CallOK(p)'
    <3>1. e \in committed /\ committed' = committed
      BY <2>2 DEF Find, Open, Stuck, vars
    <3> QED
      BY <2>2, <3>1, RequeuesAssumption DEF Find, ReconInv, CallOK, Calls
  <2>3. ASSUME NEW o \in Operators, Act(o) \/ Resolve(o) \/ BreakOff(o)
        PROVE  resolving' \in [Operators -> Calls] /\ \A p \in Operators : CallOK(p)'
    <3>1. NoCall \in Calls /\ NoCall.phase = "idle"
      BY DEF NoCall, Calls, Resolutions
    <3>2. \/ resolving' = [resolving EXCEPT ![o] = NoCall]
          \/ /\ resolving[o].phase = "found"
             /\ resolving' = [resolving EXCEPT ![o].phase = "acted"]
      BY <2>3 DEF Act, Resolve, BreakOff
    <3> QED
      BY <1>1, <3>1, <3>2 DEF ReconInv, CallOK, Calls
  <2> QED
    BY <2>1, <2>2, <2>3 DEF ReconNext, Reconcile, reconVars, systemVars
<1> QED
  BY <1>2, <1>3 DEF ReconInv

\* An operator's requeue, decided on an issue read any time before, never puts a
\* published event back in the queue nor drops one (RequeueOutboxAsync, ResolveIssue).
THEOREM RequeueKeepsOutboxSafe == ReconSpec => []EventsAreSafe
<1>1. ReconSpec => []ReconInv
  BY ReconInitInv, ReconNextInv, PTL DEF ReconSpec
<1>2. ReconInv => EventsAreSafe
  BY DEF ReconInv, Inv, EventsAreSafe
<1> QED
  BY <1>1, <1>2, PTL
=============================================================================
