---------------------------- MODULE Idempotency ----------------------------
(***************************************************************************)
(* The HTTP idempotency layer: IdempotencyActionFilter and                 *)
(* IdempotencyFilter around a handler that commits one ledger transaction, *)
(* over the reservations of SpannerIdempotencyStore.                       *)
(*                                                                         *)
(* A reservation, a ledger commit and the completion of a reservation are  *)
(* three separate transactions; a request may stop between any two.        *)
(***************************************************************************)
EXTENDS Integers

CONSTANTS
  Keys,       \* (actor, scope, Idempotency-Key): primary keys of idempotency_records
  Bodies,     \* request bodies, told apart by their SHA-256
  Requests,   \* HTTP requests, each used once
  Nobody,
  MaxLives    \* how often the retention policy may delete one key, plus one

ASSUME RequestsAssumption == Nobody \notin Requests /\ Nobody \notin Bodies
ASSUME LivesAssumption == MaxLives \in Nat \ {0}

VARIABLES
  record,   \* idempotency_records
  late,     \* keys whose record is older than InProgressTimeout
  life,     \* history: how many times a key's record was deleted
  req,      \* where each request is in the filter, and its reply
  effects   \* ledger operations committed by the handlers

vars == <<record, late, life, req, effects>>

ReplyKinds == {"none", "created", "rejected", "serverError", "inProgress", "stale", "conflict"}
Replies    == [kind : ReplyKinds, by : Requests \cup {Nobody}]

Reply(kind) == [kind |-> kind, by |-> Nobody]
Result(kind, r) == [kind |-> kind, by |-> r]   \* the handler's own result

Records ==
  [status : {"NONE", "IN_PROGRESS", "COMPLETED"}, hash : Bodies \cup {Nobody}, response : Replies]

NoRecord == [status |-> "NONE", hash |-> Nobody, response |-> Reply("none")]

\* "executing": BeginAsync said Started; "committed": the handler's ledger
\* transaction is in; "returned": next() came back with a status below 500.
Phases == {"idle", "arrived", "executing", "committed", "returned", "answered", "dead"}
Holding == {"executing", "committed", "returned"}

Holds(r, k) == req[r].phase \in Holding /\ req[r].key = k

Effects == [key : Keys, body : Bodies, by : Requests, life : 0..(MaxLives - 1)]

\* What was committed under a key since its record was last deleted.
EffectsOf(k) == {e \in effects : e.key = k /\ e.life = life[k]}

Answer(r, reply) == req' = [req EXCEPT ![r].phase = "answered", ![r].reply = reply]

-----------------------------------------------------------------------------
(* A request reaches the filter.  One without a valid key is turned away   *)
(* with 400 before it, and is not modelled.                                *)

Arrive(r, k, b) ==
  /\ req[r].phase = "idle"
  /\ req' = [req EXCEPT ![r] = [phase |-> "arrived", key |-> k, body |-> b, reply |-> Reply("none")]]
  /\ UNCHANGED <<record, late, life, effects>>

-----------------------------------------------------------------------------
(* BeginAsync: one read-write transaction, then the filter's switch.       *)

\* Mutations: a reservation in progress, or any reservation, is started over.
StartOver(r, k) ==
  /\ record[k].status # "COMPLETED"
  /\ record' = [record EXCEPT ![k] = [NoRecord EXCEPT !.status = "IN_PROGRESS", !.hash = req[r].body]]
  /\ req' = [req EXCEPT ![r].phase = "executing"]

StartAgain(r, k) ==
  /\ record' = [record EXCEPT ![k] = [NoRecord EXCEPT !.status = "IN_PROGRESS", !.hash = req[r].body]]
  /\ req' = [req EXCEPT ![r].phase = "executing"]

Start(r, k) ==
  /\ record[k].status = "NONE"
  /\ record' = [record EXCEPT ![k] = [NoRecord EXCEPT !.status = "IN_PROGRESS", !.hash = req[r].body]]
  /\ req' = [req EXCEPT ![r].phase = "executing"]

\* Mutation: a stored answer is replayed to any body.
TurnAwayAny(r, k) ==
  /\ record[k].status # "NONE"
  /\ Answer(r, IF record[k].status = "COMPLETED" THEN record[k].response
               ELSE Reply(IF k \in late THEN "stale" ELSE "inProgress"))
  /\ UNCHANGED record

TurnAway(r, k) ==
  /\ record[k].status # "NONE"
  /\ \/ record[k].hash # req[r].body /\ Answer(r, Reply("conflict"))
     \/ /\ record[k].hash = req[r].body
        /\ \/ /\ record[k].status = "IN_PROGRESS"
              /\ Answer(r, Reply(IF k \in late THEN "stale" ELSE "inProgress"))
           \/ record[k].status = "COMPLETED" /\ Answer(r, record[k].response)
  /\ UNCHANGED record

\* Mutation: a request that finds a reservation waits for it.
BeginOnlyNew(r) ==
  /\ req[r].phase = "arrived"
  /\ Start(r, req[r].key)
  /\ UNCHANGED <<late, life, effects>>

Begin(r) ==
  /\ req[r].phase = "arrived"
  /\ Start(r, req[r].key) \/ TurnAway(r, req[r].key)
  /\ UNCHANGED <<late, life, effects>>

-----------------------------------------------------------------------------
(* The handler.                                                            *)

Commit(r) ==
  /\ req[r].phase = "executing"
  /\ effects' = effects \cup
       {[key |-> req[r].key, body |-> req[r].body, by |-> r, life |-> life[req[r].key]]}
  /\ req' = [req EXCEPT ![r].phase = "committed"]
  /\ UNCHANGED <<record, late, life>>

\* A domain exception rolls the transaction back and is mapped to a 4xx.
Reject(r) ==
  /\ req[r].phase = "executing"
  /\ req' = [req EXCEPT ![r].phase = "returned", ![r].reply = Result("rejected", r)]
  /\ UNCHANGED <<record, late, life, effects>>

Succeed(r) ==
  /\ req[r].phase = "committed"
  /\ req' = [req EXCEPT ![r].phase = "returned", ![r].reply = Result("created", r)]
  /\ UNCHANGED <<record, late, life, effects>>

-----------------------------------------------------------------------------
(* After the handler.                                                      *)

\* CompleteAsync is an UPDATE by primary key with no condition on the status.
Complete(r) ==
  /\ req[r].phase = "returned"
  /\ record' = [record EXCEPT ![req[r].key].status = "COMPLETED",
                              ![req[r].key].response = req[r].reply]
  /\ Answer(r, req[r].reply)
  /\ UNCHANGED <<late, life, effects>>

\* An exception nobody maps, a 5xx, a cancelled call or a failed CompleteAsync:
\* the filter leaves the reservation as it is.  A crash also gives no answer.
BreakOff(r) ==
  /\ req[r].phase \in {"arrived"} \cup Holding
  /\ \/ Answer(r, Reply("serverError"))
     \/ req' = [req EXCEPT ![r].phase = "dead", ![r].reply = Reply("none")]
  /\ UNCHANGED <<record, late, life, effects>>

-----------------------------------------------------------------------------
(* Time.                                                                   *)

\* Five minutes since created_at: the owner may be dead, or only slow.
Age(k) ==
  /\ record[k].status # "NONE" /\ k \notin late
  /\ late' = late \cup {k}
  /\ UNCHANGED <<record, life, req, effects>>

\* ROW DELETION POLICY, 30 days after created_at: no request is that old.
Expire(k) ==
  /\ k \in late
  /\ \A r \in Requests : ~Holds(r, k)
  /\ life[k] + 1 < MaxLives
  /\ life' = [life EXCEPT ![k] = @ + 1]
  /\ record' = [record EXCEPT ![k] = NoRecord]
  /\ late' = late \ {k}
  /\ UNCHANGED <<req, effects>>

-----------------------------------------------------------------------------
Init ==
  /\ record = [k \in Keys |-> NoRecord]
  /\ late = {}
  /\ life = [k \in Keys |-> 0]
  /\ req = [r \in Requests |->
              [phase |-> "idle", key |-> Nobody, body |-> Nobody, reply |-> Reply("none")]]
  /\ effects = {}

\* What the server does on its own, requests having arrived.
Server ==
  \/ \E r \in Requests :
       Begin(r) \/ Commit(r) \/ Reject(r) \/ Succeed(r) \/ Complete(r) \/ BreakOff(r)
  \/ \E k \in Keys : Age(k) \/ Expire(k)

Next ==
  \/ \E r \in Requests, k \in Keys, b \in Bodies : Arrive(r, k, b)
  \/ Server

Fairness ==
  \A r \in Requests :
    WF_vars(Begin(r)) /\ WF_vars(Commit(r) \/ Reject(r)) /\ WF_vars(Succeed(r)) /\ WF_vars(Complete(r))

Spec == Init /\ [][Next]_vars
FairSpec == Spec /\ Fairness

-----------------------------------------------------------------------------
(* Properties.                                                             *)

\* Every variable stays within its type.
TypeOK ==
  /\ record \in [Keys -> Records]
  /\ late \subseteq Keys
  /\ life \in [Keys -> 0..(MaxLives - 1)]
  /\ req \in [Requests -> [phase : Phases, key : Keys \cup {Nobody},
                           body : Bodies \cup {Nobody}, reply : Replies]]
  /\ effects \subseteq Effects

\* However many requests carry a key, and wherever they stop, its reservation
\* lets at most one of them commit a ledger transaction while it is kept.
AppliedOnce ==
  \A e, f \in effects : e.key = f.key /\ e.life = f.life => e = f

\* What a caller is told about a key is what happened to it, for the body it
\* sent: "created" names a committed operation, "rejected" one that never was.
AnswersAreTrue ==
  \A r \in Requests :
    LET told == req[r].reply
        sameRequest(e) == e.by = told.by /\ e.key = req[r].key /\ e.body = req[r].body
    IN  /\ told.kind = "created" => \E e \in effects : sameRequest(e)
        /\ told.kind = "rejected" =>
             /\ req[told.by].key = req[r].key /\ req[told.by].body = req[r].body
             /\ ~\E e \in effects : e.by = told.by

\* A reservation no request works on any more.
Orphaned(k) == record[k].status = "IN_PROGRESS" /\ \A r \in Requests : ~Holds(r, k)

\* An orphaned reservation may have committed, so nothing but the retention
\* policy frees it: no retry, however late, runs the handler again.
OrphansStayBlocked ==
  [][\A k \in Keys : Orphaned(k) /\ life'[k] = life[k] =>
       Orphaned(k)' /\ {e \in effects' : e.key = k} = {e \in effects : e.key = k}]_vars

\* The answer stored under a key is never replaced by another one.
AnswerIsKept ==
  [][\A k \in Keys : record[k].status = "COMPLETED" /\ life'[k] = life[k] =>
       record'[k] = record[k]]_vars

\* Every request that reaches the filter gets out of it.
RequestsFinish ==
  \A r \in Requests :
    req[r].phase = "arrived" ~> req[r].phase \in {"answered", "dead"}

-----------------------------------------------------------------------------
(* The layer keeps the promise of IdempotentEndpoint.                      *)

OutcomeOf(k) ==
  IF EffectsOf(k) # {}
  THEN [status |-> "applied", by |-> (CHOOSE e \in EffectsOf(k) : TRUE).by]
  ELSE IF record[k].status = "COMPLETED"
       THEN [status |-> "refused", by |-> record[k].response.by]
       ELSE [status |-> "open", by |-> Nobody]

Endpoint == INSTANCE IdempotentEndpoint WITH outcome <- [k \in Keys |-> OutcomeOf(k)]

\* While its reservation is kept, a key is decided once, for one request, and
\* the decision never changes.
DecidesOnce == Endpoint!Spec
=============================================================================
