------------------------- MODULE IdempotencyProofs -------------------------
(***************************************************************************)
(* Idempotency: a key is applied at most once and every answer is true,    *)
(* for any number of requests, keys and bodies.                            *)
(***************************************************************************)
EXTENDS Idempotency, TLAPS

\* Phases in which a request can no longer commit.
Past == {"committed", "returned", "answered", "dead"}

\* A request has a key and a body from its arrival on.
RequestOK(r) == req[r].phase # "idle" => req[r].key \in Keys /\ req[r].body \in Bodies

\* The holder of a reservation is alone, and the reservation is its own.
HolderOK(r) ==
  LET k == req[r].key
  IN  req[r].phase \in Holding =>
        /\ record[k].status = "IN_PROGRESS"
        /\ record[k].hash = req[r].body
        /\ \A s \in Requests : Holds(s, k) => s = r

\* An effect was committed by its request, in the past.
EffectOK(e) ==
  /\ req[e.by].phase \in Past
  /\ req[e.by].key = e.key /\ req[e.by].body = e.body
  /\ e.life <= life[e.key]

\* Nothing is committed yet under a free key, nor while its holder executes.
Uncommitted(k) == \A e \in effects : ~(e.key = k /\ e.life = life[k])

CommitsAhead ==
  /\ \A k \in Keys : record[k].status = "NONE" => Uncommitted(k)
  /\ \A r \in Requests : req[r].phase = "executing" => Uncommitted(req[r].key)

\* What an answer t to a request for key k and body b claims.
Truth(t, k, b) ==
  /\ t.kind = "created" => \E e \in effects : e.by = t.by /\ e.key = k /\ e.body = b
  /\ t.kind = "rejected" =>
       /\ t.by \in Requests
       /\ req[t.by].phase \in Past
       /\ req[t.by].key = k /\ req[t.by].body = b
       /\ \A e \in effects : e.by # t.by

AnswersOK ==
  /\ \A r \in Requests : Truth(req[r].reply, req[r].key, req[r].body)
  /\ \A k \in Keys : Truth(record[k].response, k, record[k].hash)

CommittedOK ==
  \A r \in Requests : req[r].phase = "committed" =>
    \E e \in effects : e.by = r /\ e.key = req[r].key /\ e.body = req[r].body

IInv ==
  /\ TypeOK
  /\ \A r \in Requests : RequestOK(r) /\ HolderOK(r)
  /\ \A e \in effects : EffectOK(e)
  /\ CommitsAhead
  /\ CommittedOK
  /\ AnswersOK
  /\ AppliedOnce

ReqType == [phase : Phases, key : Keys \cup {Nobody}, body : Bodies \cup {Nobody},
            reply : Replies]

-----------------------------------------------------------------------------
LEMMA InitIInv == Init => IInv
<1> SUFFICES ASSUME Init PROVE IInv
  OBVIOUS
<1>1. Reply("none") \in Replies /\ Reply("none").kind = "none"
  BY DEF Reply, Replies, ReplyKinds
<1>2. NoRecord \in Records /\ NoRecord.status = "NONE" /\ NoRecord.response = Reply("none")
  BY <1>1 DEF NoRecord, Records
<1>3. TypeOK
  BY <1>1, <1>2, LivesAssumption DEF Init, TypeOK, Phases
<1>4. \A r \in Requests : RequestOK(r) /\ HolderOK(r)
  BY DEF Init, RequestOK, HolderOK, Holding
<1>5. CommitsAhead /\ CommittedOK /\ AppliedOnce /\ \A e \in effects : EffectOK(e)
  BY DEF Init, CommitsAhead, CommittedOK, AppliedOnce, Uncommitted
<1>6. AnswersOK
  BY <1>1, <1>2 DEF Init, AnswersOK, Truth
<1> QED
  BY <1>3, <1>4, <1>5, <1>6 DEF IInv

-----------------------------------------------------------------------------
(* Steps that only move one request along: nothing else changes, the       *)
(* request keeps its key and body and does not become a holder.            *)
MovesAlong(r) ==
  /\ UNCHANGED <<record, late, life, effects>>
  /\ req' \in [Requests -> ReqType]
  /\ \A s \in Requests \ {r} : req'[s] = req[s]
  /\ req'[r].key = req[r].key /\ req'[r].body = req[r].body
  /\ req[r].phase # "idle"
  /\ req[r].phase \in Past => req'[r].phase \in Past
  /\ req'[r].phase \in Holding => req[r].phase \in Holding
  /\ req'[r].phase \notin {"executing", "committed"}
  /\ Truth(req[r].reply, req[r].key, req[r].body)'

LEMMA MovesAlongInv ==
  ASSUME IInv, NEW r \in Requests, MovesAlong(r)
  PROVE  IInv'
<1>1. TypeOK'
  BY DEF IInv, TypeOK, MovesAlong, ReqType
<1>2. \A s \in Requests : /\ req'[s].key = req[s].key /\ req'[s].body = req[s].body
                          /\ req[s].phase \in Past => req'[s].phase \in Past
                          /\ req'[s].phase \in Holding => req[s].phase \in Holding
                          /\ req'[s].phase # "idle" => req[s].phase # "idle"
                          /\ req'[s].phase = "executing" => req[s].phase = "executing"
                          /\ req'[s].phase = "committed" => req[s].phase = "committed"
  BY DEF MovesAlong
<1>3. \A s \in Requests : RequestOK(s)' /\ HolderOK(s)'
  BY <1>2 DEF IInv, RequestOK, HolderOK, Holds, MovesAlong
<1>4. \A e \in effects : EffectOK(e)'
  BY <1>2 DEF IInv, TypeOK, Effects, EffectOK, MovesAlong
<1>5. CommitsAhead' /\ CommittedOK' /\ AppliedOnce'
  BY <1>2 DEF IInv, CommitsAhead, CommittedOK, AppliedOnce, Uncommitted, MovesAlong
<1>6. AnswersOK'
  <2>1. ASSUME NEW t \in Replies, NEW k, NEW b, Truth(t, k, b)
        PROVE  Truth(t, k, b)'
    BY <1>2, <2>1 DEF Truth, MovesAlong
  <2>2. \A s \in Requests \ {r} : Truth(req[s].reply, req[s].key, req[s].body)'
    BY <2>1 DEF IInv, TypeOK, AnswersOK, MovesAlong
  <2> QED
    BY <2>1, <2>2, <1>2 DEF IInv, TypeOK, Records, AnswersOK, MovesAlong, Truth
<1> QED
  BY <1>1, <1>3, <1>4, <1>5, <1>6 DEF IInv, MovesAlong

-----------------------------------------------------------------------------
LEMMA RejectInv ==
  ASSUME IInv, NEW r \in Requests, Reject(r)
  PROVE  IInv'
<1>1. /\ req[r].phase = "executing"
      /\ UNCHANGED <<record, late, life, effects>>
      /\ req' = [req EXCEPT ![r].phase = "returned", ![r].reply = Result("rejected", r)]
  BY DEF Reject
<1>2. Result("rejected", r) \in Replies
  BY DEF Result, Replies, ReplyKinds
<1>3. req \in [Requests -> ReqType]
  BY DEF IInv, TypeOK, ReqType
<1>4. /\ req' \in [Requests -> ReqType]
      /\ req'[r].phase = "returned" /\ req'[r].reply = Result("rejected", r)
      /\ req'[r].key = req[r].key /\ req'[r].body = req[r].body
      /\ \A s \in Requests \ {r} : req'[s] = req[s]
  BY <1>1, <1>2, <1>3 DEF ReqType, Phases
<1>5. \A e \in effects : e.by # r
  BY <1>1 DEF IInv, EffectOK, Past
<1>6. Truth(req[r].reply, req[r].key, req[r].body)'
  BY <1>1, <1>4, <1>5 DEF Truth, Result, Past
<1> QED
  BY <1>1, <1>4, <1>6, MovesAlongInv DEF MovesAlong, Past, Holding

LEMMA SucceedInv ==
  ASSUME IInv, NEW r \in Requests, Succeed(r)
  PROVE  IInv'
<1>1. /\ req[r].phase = "committed"
      /\ UNCHANGED <<record, late, life, effects>>
      /\ req' = [req EXCEPT ![r].phase = "returned", ![r].reply = Result("created", r)]
  BY DEF Succeed
<1>2. Result("created", r) \in Replies
  BY DEF Result, Replies, ReplyKinds
<1>3. req \in [Requests -> ReqType]
  BY DEF IInv, TypeOK, ReqType
<1>4. /\ req' \in [Requests -> ReqType]
      /\ req'[r].phase = "returned" /\ req'[r].reply = Result("created", r)
      /\ req'[r].key = req[r].key /\ req'[r].body = req[r].body
      /\ \A s \in Requests \ {r} : req'[s] = req[s]
  BY <1>1, <1>2, <1>3 DEF ReqType, Phases
<1>5. \E e \in effects : e.by = r /\ e.key = req[r].key /\ e.body = req[r].body
  BY <1>1 DEF IInv, CommittedOK
<1>6. Truth(req[r].reply, req[r].key, req[r].body)'
  BY <1>1, <1>4, <1>5 DEF Truth, Result
<1> QED
  BY <1>1, <1>4, <1>6, MovesAlongInv DEF MovesAlong, Past, Holding

\* The answers that claim nothing.
LEMMA SilentReplies ==
  \A kind \in ReplyKinds \ {"created", "rejected"} :
    Reply(kind) \in Replies /\ \A k, b : Truth(Reply(kind), k, b) /\ Truth(Reply(kind), k, b)'
  BY DEF Reply, Replies, Truth

LEMMA BreakOffInv ==
  ASSUME IInv, NEW r \in Requests, BreakOff(r)
  PROVE  IInv'
<1>1. PICK p \in {"answered", "dead"}, kind \in {"serverError", "none"} :
        /\ req[r].phase \in {"arrived"} \cup Holding
        /\ UNCHANGED <<record, late, life, effects>>
        /\ req' = [req EXCEPT ![r].phase = p, ![r].reply = Reply(kind)]
  <2>1. CASE req' = [req EXCEPT ![r].phase = "answered", ![r].reply = Reply("serverError")]
    BY <2>1 DEF BreakOff
  <2>2. CASE req' = [req EXCEPT ![r].phase = "dead", ![r].reply = Reply("none")]
    BY <2>2 DEF BreakOff
  <2> QED
    BY <2>1, <2>2 DEF BreakOff, Answer
<1>2. kind \in ReplyKinds \ {"created", "rejected"}
  BY DEF ReplyKinds
<1>3. req \in [Requests -> ReqType]
  BY DEF IInv, TypeOK, ReqType
<1>4. Reply(kind) \in Replies
  BY <1>2, SilentReplies
<1>5. /\ req' \in [Requests -> ReqType]
      /\ req'[r].phase = p /\ req'[r].reply = Reply(kind)
      /\ req'[r].key = req[r].key /\ req'[r].body = req[r].body
      /\ \A s \in Requests \ {r} : req'[s] = req[s]
  BY <1>1, <1>3, <1>4 DEF ReqType, Phases
<1>6. Truth(req[r].reply, req[r].key, req[r].body)'
  BY <1>5 DEF Truth, Reply
<1> QED
  BY <1>1, <1>5, <1>6, MovesAlongInv DEF MovesAlong, Past, Holding

LEMMA TurnAwayInv ==
  ASSUME IInv, NEW r \in Requests, req[r].phase = "arrived", TurnAway(r, req[r].key),
         UNCHANGED <<late, life, effects>>
  PROVE  IInv'
<1> DEFINE k == req[r].key
<1>1. k \in Keys
  BY DEF IInv, RequestOK
<1>2. PICK t : /\ req' = [req EXCEPT ![r].phase = "answered", ![r].reply = t]
               /\ UNCHANGED record
               /\ \/ \E kind \in {"conflict", "stale", "inProgress"} : t = Reply(kind)
                  \/ t = record[k].response /\ record[k].hash = req[r].body
  BY DEF TurnAway, Answer
<1>3. t \in Replies /\ Truth(t, k, req[r].body)
  <2>1. CASE \E kind \in {"conflict", "stale", "inProgress"} : t = Reply(kind)
    BY <2>1, SilentReplies DEF ReplyKinds
  <2>2. CASE t = record[k].response /\ record[k].hash = req[r].body
    BY <1>1, <2>2 DEF IInv, TypeOK, Records, AnswersOK
  <2> QED
    BY <1>2, <2>1, <2>2
<1>4. req \in [Requests -> ReqType]
  BY DEF IInv, TypeOK, ReqType
<1>5. /\ req' \in [Requests -> ReqType]
      /\ req'[r].phase = "answered" /\ req'[r].reply = t
      /\ req'[r].key = k /\ req'[r].body = req[r].body
      /\ \A s \in Requests \ {r} : req'[s] = req[s]
  BY <1>2, <1>3, <1>4 DEF ReqType, Phases
<1>6. /\ effects' = effects
      /\ \A s \in Requests : /\ req'[s].key = req[s].key /\ req'[s].body = req[s].body
                              /\ req[s].phase \in Past => req'[s].phase \in Past
  BY <1>5 DEF Past
<1>7. Truth(req[r].reply, req[r].key, req[r].body)'
  BY <1>3, <1>5, <1>6 DEF Truth
<1> QED
  BY <1>2, <1>5, <1>7, MovesAlongInv DEF MovesAlong, Past, Holding

-----------------------------------------------------------------------------
LEMMA ArriveInv ==
  ASSUME IInv, NEW r \in Requests, NEW k \in Keys, NEW b \in Bodies, Arrive(r, k, b)
  PROVE  IInv'
<1> DEFINE R == [phase |-> "arrived", key |-> k, body |-> b, reply |-> Reply("none")]
<1>1. R \in ReqType /\ R.phase = "arrived" /\ R.key = k /\ R.body = b
      /\ R.reply = Reply("none") /\ R.reply.kind = "none"
  BY DEF ReqType, Phases, Reply, Replies, ReplyKinds
<1> HIDE DEF R
<1>2. /\ req[r].phase = "idle" /\ req' = [req EXCEPT ![r] = R]
      /\ UNCHANGED <<record, late, life, effects>>
  BY DEF Arrive, R
<1>3. req \in [Requests -> ReqType]
  BY DEF IInv, TypeOK, ReqType
<1>4. /\ req' \in [Requests -> ReqType] /\ req'[r] = R
      /\ \A s \in Requests \ {r} : req'[s] = req[s]
  BY <1>1, <1>2, <1>3
<1>5. TypeOK'
  BY <1>2, <1>4 DEF IInv, TypeOK, ReqType
<1>6. \A s \in Requests : RequestOK(s)' /\ HolderOK(s)'
  BY <1>1, <1>2, <1>4 DEF IInv, RequestOK, HolderOK, Holds, Holding
<1>7. \A e \in effects : e.by # r /\ EffectOK(e)'
  BY <1>2, <1>4 DEF IInv, TypeOK, Effects, EffectOK, Past
<1>8. CommitsAhead' /\ CommittedOK' /\ AppliedOnce'
  BY <1>1, <1>2, <1>4 DEF IInv, CommitsAhead, CommittedOK, AppliedOnce, Uncommitted
<1>9. AnswersOK'
  <2>1. ASSUME NEW t, NEW x, NEW y, Truth(t, x, y)
        PROVE  Truth(t, x, y)'
    BY <1>2, <1>4, <2>1 DEF Truth, Past
  <2>2. ASSUME NEW s \in Requests
        PROVE  Truth(req[s].reply, req[s].key, req[s].body)'
    <3>1. CASE s = r
      BY <1>1, <1>4, <3>1 DEF Truth
    <3>2. CASE s # r
      BY <1>4, <2>1, <3>2 DEF IInv, AnswersOK, Truth
    <3> QED
      BY <3>1, <3>2
  <2>3. ASSUME NEW j \in Keys
        PROVE  Truth(record[j].response, j, record[j].hash)'
    <3>1. Truth(record[j].response, j, record[j].hash)
      BY DEF IInv, AnswersOK
    <3>2. \A s \in Requests : req[s].phase \in Past => req'[s] = req[s]
      BY <1>2, <1>4 DEF Past
    <3> QED
      BY <1>2, <3>1, <3>2 DEF Truth
  <2> QED
    BY <2>2, <2>3 DEF AnswersOK
<1> QED
  BY <1>2, <1>5, <1>6, <1>7, <1>8, <1>9 DEF IInv

LEMMA StartInv ==
  ASSUME IInv, NEW r \in Requests, req[r].phase = "arrived", Start(r, req[r].key),
         UNCHANGED <<late, life, effects>>
  PROVE  IInv'
<1> DEFINE k == req[r].key
           N == [NoRecord EXCEPT !.status = "IN_PROGRESS", !.hash = req[r].body]
<1>1. k \in Keys /\ req[r].body \in Bodies
  BY DEF IInv, RequestOK
<1>2. N \in Records /\ N.status = "IN_PROGRESS" /\ N.hash = req[r].body
      /\ N.response = Reply("none") /\ N.response.kind = "none"
  BY <1>1 DEF NoRecord, Records, Reply, Replies, ReplyKinds
<1> HIDE DEF N
<1>3. /\ record[k].status = "NONE"
      /\ record' = [record EXCEPT ![k] = N]
      /\ req' = [req EXCEPT ![r].phase = "executing"]
  BY DEF Start, N
<1> HIDE DEF k
<1>4. req \in [Requests -> ReqType] /\ record \in [Keys -> Records]
  BY DEF IInv, TypeOK, ReqType
<1>5. /\ req' \in [Requests -> ReqType]
      /\ req'[r].phase = "executing" /\ req'[r].reply = req[r].reply
      /\ req'[r].key = req[r].key /\ req'[r].body = req[r].body
      /\ \A s \in Requests \ {r} : req'[s] = req[s]
  BY <1>3, <1>4 DEF ReqType, Phases
<1>6. /\ record' \in [Keys -> Records] /\ record'[k] = N
      /\ \A j \in Keys \ {k} : record'[j] = record[j]
  BY <1>1, <1>2, <1>3, <1>4
<1>7. \A s \in Requests : ~Holds(s, k)
  BY <1>3 DEF IInv, HolderOK, Holds
<1>8. TypeOK'
  BY <1>5, <1>6 DEF IInv, TypeOK, ReqType
<1>9. \A s \in Requests : RequestOK(s)'
  BY <1>1, <1>5 DEF IInv, RequestOK, k
<1>10. \A s \in Requests : HolderOK(s)'
  <2>1. HolderOK(r)'
    BY <1>2, <1>5, <1>6, <1>7 DEF HolderOK, Holds, Holding, k
  <2>2. ASSUME NEW s \in Requests \ {r}
        PROVE  HolderOK(s)'
    <3>1. req[s].phase \in Holding => req[s].key \in Keys \ {k}
      BY <1>7 DEF IInv, RequestOK, Holds, Holding
    <3> QED
      BY <1>5, <1>6, <2>2, <3>1 DEF IInv, HolderOK, Holds, k
  <2> QED
    BY <2>1, <2>2
<1>11. \A e \in effects : EffectOK(e)' /\ e.by # r
  BY <1>5 DEF IInv, TypeOK, Effects, EffectOK, Past
<1>12. CommitsAhead'
  BY <1>1, <1>2, <1>3, <1>5, <1>6 DEF IInv, CommitsAhead, Uncommitted, k
<1>13. CommittedOK' /\ AppliedOnce'
  BY <1>5 DEF IInv, CommittedOK, AppliedOnce
<1>14. AnswersOK'
  <2>1. ASSUME NEW t, NEW x, NEW y, Truth(t, x, y)
        PROVE  Truth(t, x, y)'
    BY <1>5, <2>1 DEF Truth, Past
  <2>2. record'[k].response.kind = "none"
    BY <1>2, <1>6
  <2>3. \A s \in Requests : Truth(req[s].reply, req[s].key, req[s].body)'
    BY <1>5, <2>1 DEF IInv, AnswersOK, Truth
  <2>4. ASSUME NEW j \in Keys
        PROVE  Truth(record[j].response, j, record[j].hash)'
    <3>1. CASE j = k
      BY <2>2, <3>1 DEF Truth
    <3>2. CASE j # k
      <4>1. Truth(record[j].response, j, record[j].hash)
        BY DEF IInv, AnswersOK
      <4>2. \A s \in Requests : req[s].phase \in Past => req'[s] = req[s]
        BY <1>5 DEF Past
      <4> QED
        BY <1>6, <3>2, <4>1, <4>2 DEF Truth
    <3> QED
      BY <3>1, <3>2
  <2> QED
    BY <2>3, <2>4 DEF AnswersOK
<1> QED
  BY <1>8, <1>9, <1>10, <1>11, <1>12, <1>13, <1>14 DEF IInv

LEMMA CommitInv ==
  ASSUME IInv, NEW r \in Requests, Commit(r)
  PROVE  IInv'
<1> DEFINE k == req[r].key
           E == [key |-> k, body |-> req[r].body, by |-> r, life |-> life[k]]
<1>1. /\ req[r].phase = "executing"
      /\ effects' = effects \cup {E}
      /\ req' = [req EXCEPT ![r].phase = "committed"]
      /\ UNCHANGED <<record, late, life>>
  BY DEF Commit
<1>2. k \in Keys /\ req[r].body \in Bodies
  BY <1>1 DEF IInv, RequestOK
<1>3. E \in Effects /\ E.key = k /\ E.body = req[r].body /\ E.by = r /\ E.life = life[k]
  BY <1>2 DEF IInv, TypeOK, Effects
<1>4. Uncommitted(k) /\ \A s \in Requests : Holds(s, k) => s = r
  BY <1>1 DEF IInv, CommitsAhead, HolderOK, Holding
<1> HIDE DEF E, k
<1>5. req \in [Requests -> ReqType]
  BY DEF IInv, TypeOK, ReqType
<1>6. /\ req' \in [Requests -> ReqType]
      /\ req'[r].phase = "committed" /\ req'[r].reply = req[r].reply
      /\ req'[r].key = req[r].key /\ req'[r].body = req[r].body
      /\ \A s \in Requests \ {r} : req'[s] = req[s]
  BY <1>1, <1>5 DEF ReqType, Phases
<1>7. TypeOK'
  BY <1>1, <1>3, <1>6 DEF IInv, TypeOK, ReqType
<1>8. \A s \in Requests : RequestOK(s)' /\ HolderOK(s)'
  BY <1>1, <1>6 DEF IInv, RequestOK, HolderOK, Holds, Holding
<1>9. ASSUME NEW e \in effects'
      PROVE  EffectOK(e)'
  <2>1. CASE e = E
    BY <1>1, <1>2, <1>3, <1>6, <2>1 DEF IInv, TypeOK, EffectOK, Past, k
  <2>2. CASE e \in effects
    BY <1>1, <1>6, <2>2 DEF IInv, TypeOK, Effects, EffectOK, Past
  <2> QED
    BY <1>1, <2>1, <2>2
<1>10. CommitsAhead'
  <2>1. record[k].status # "NONE"
    BY <1>1 DEF IInv, HolderOK, Holding, k
  <2>2. \A s \in Requests : req'[s].phase = "executing" => req'[s].key # k
    BY <1>4, <1>6 DEF Holds, Holding
  <2>3. \A j \in Keys \ {k} : Uncommitted(j) => Uncommitted(j)'
    BY <1>1, <1>3 DEF Uncommitted
  <2>4. \A s \in Requests : req'[s].phase = "executing" =>
          req[s].phase = "executing" /\ req'[s].key = req[s].key /\ req[s].key \in Keys
    BY <1>6 DEF IInv, RequestOK
  <2>5. \A j \in Keys : record'[j].status = "NONE" => Uncommitted(j)'
    BY <1>1, <2>1, <2>3 DEF IInv, CommitsAhead
  <2>6. ASSUME NEW s \in Requests, req'[s].phase = "executing"
        PROVE  Uncommitted(req[s].key)'
    <3>1. req[s].key \in Keys \ {k} /\ Uncommitted(req[s].key)
      BY <2>2, <2>4, <2>6 DEF IInv, CommitsAhead
    <3>2. \A e \in effects' : ~(e.key = req[s].key /\ e.life = life'[req[s].key])
      BY <1>1, <1>3, <3>1 DEF Uncommitted
    <3> QED
      BY <2>4, <2>6, <3>2 DEF Uncommitted
  <2> QED
    BY <2>5, <2>6 DEF CommitsAhead
<1>11. CommittedOK'
  BY <1>1, <1>3, <1>6 DEF IInv, CommittedOK, k
<1>12. AppliedOnce'
  BY <1>1, <1>3, <1>4 DEF IInv, AppliedOnce, Uncommitted
<1>13. AnswersOK'
  <2>1. /\ effects \subseteq effects' /\ \A e \in effects' : e \in effects \/ e.by = r
        /\ \A s \in Requests : req[s].phase \in Past => s # r /\ req'[s] = req[s]
        /\ record' = record
    BY <1>1, <1>3, <1>6 DEF Past
  <2>2. ASSUME NEW s \in Requests
        PROVE  Truth(req[s].reply, req[s].key, req[s].body)'
    <3>1. Truth(req[s].reply, req[s].key, req[s].body)
      BY DEF IInv, AnswersOK
    <3>2. /\ req'[s].reply = req[s].reply
          /\ req'[s].key = req[s].key /\ req'[s].body = req[s].body
      BY <1>6
    <3> QED
      BY <2>1, <3>1, <3>2 DEF Truth
  <2>3. ASSUME NEW j \in Keys
        PROVE  Truth(record[j].response, j, record[j].hash)'
    <3>1. Truth(record[j].response, j, record[j].hash)
      BY DEF IInv, AnswersOK
    <3> QED
      BY <2>1, <3>1 DEF Truth
  <2> QED
    BY <2>2, <2>3 DEF AnswersOK
<1> QED
  BY <1>7, <1>8, <1>9, <1>10, <1>11, <1>12, <1>13 DEF IInv

LEMMA CompleteInv ==
  ASSUME IInv, NEW r \in Requests, Complete(r)
  PROVE  IInv'
<1> DEFINE k == req[r].key
<1>1. /\ req[r].phase = "returned"
      /\ record' = [record EXCEPT ![k].status = "COMPLETED", ![k].response = req[r].reply]
      /\ req' = [req EXCEPT ![r].phase = "answered", ![r].reply = req[r].reply]
      /\ UNCHANGED <<late, life, effects>>
  BY DEF Complete, Answer
<1>2. k \in Keys /\ record[k].hash = req[r].body /\ record[k].status = "IN_PROGRESS"
      /\ \A s \in Requests : Holds(s, k) => s = r
  BY <1>1 DEF IInv, RequestOK, HolderOK, Holding
<1>3. req \in [Requests -> ReqType] /\ record \in [Keys -> Records]
  BY DEF IInv, TypeOK, ReqType
<1>4. /\ req' \in [Requests -> ReqType]
      /\ req'[r].phase = "answered" /\ req'[r].reply = req[r].reply
      /\ req'[r].key = req[r].key /\ req'[r].body = req[r].body
      /\ \A s \in Requests \ {r} : req'[s] = req[s]
  BY <1>1, <1>3 DEF ReqType, Phases
<1>5. \A s \in Requests : /\ req'[s].key = req[s].key /\ req'[s].body = req[s].body
                          /\ req'[s].reply = req[s].reply
                          /\ req[s].phase \in Past => req'[s].phase \in Past
                          /\ req'[s].phase \in {"idle"} \cup Holding => req'[s] = req[s]
                          /\ req'[s].phase = "idle" <=> req[s].phase = "idle"
  BY <1>1, <1>4 DEF Past, Holding
<1> HIDE DEF k
<1>6. /\ record' \in [Keys -> Records]
      /\ record'[k].status = "COMPLETED" /\ record'[k].response = req[r].reply
      /\ record'[k].hash = record[k].hash
      /\ \A j \in Keys \ {k} : record'[j] = record[j]
  BY <1>1, <1>2, <1>3 DEF ReqType, Records
<1>same. UNCHANGED <<late, life, effects>>
  BY <1>1
<1>7. TypeOK'
  BY <1>1, <1>4, <1>6 DEF IInv, TypeOK, ReqType
<1>8. ASSUME NEW s \in Requests
      PROVE  RequestOK(s)' /\ HolderOK(s)'
  <2>1. RequestOK(s)'
    BY <1>5 DEF IInv, RequestOK
  <2>2. ASSUME req'[s].phase \in Holding
        PROVE  s # r /\ req[s].phase \in Holding /\ req[s].key \in Keys \ {k}
    <3>1. s # r /\ req'[s] = req[s]
      BY <1>4, <2>2 DEF Holding
    <3> QED
      BY <1>2, <2>2, <3>1 DEF IInv, RequestOK, Holds, Holding
  <2>3. HolderOK(s)'
    BY <1>4, <1>5, <1>6, <2>2 DEF IInv, HolderOK, Holds
  <2> QED
    BY <2>1, <2>3
<1>9. \A e \in effects : EffectOK(e)'
  BY <1>same, <1>5 DEF IInv, TypeOK, Effects, EffectOK
<1>10. CommitsAhead'
  BY <1>same, <1>5, <1>6 DEF IInv, CommitsAhead, Uncommitted, Holding
<1>11. CommittedOK' /\ AppliedOnce'
  BY <1>same, <1>5 DEF IInv, CommittedOK, AppliedOnce, Holding
<1>12. AnswersOK'
  <2>1. ASSUME NEW s \in Requests
        PROVE  Truth(req[s].reply, req[s].key, req[s].body)'
    <3>1. Truth(req[s].reply, req[s].key, req[s].body)
      BY DEF IInv, AnswersOK
    <3> QED
      BY <1>same, <1>5, <3>1 DEF Truth
  <2>2. ASSUME NEW j \in Keys
        PROVE  Truth(record[j].response, j, record[j].hash)'
    <3>1. CASE j = k
      <4>1. Truth(req[r].reply, k, record[k].hash)
        BY <1>2 DEF IInv, AnswersOK, k
      <4> QED
        BY <1>same, <1>5, <1>6, <3>1, <4>1 DEF Truth
    <3>2. CASE j # k
      <4>1. Truth(record[j].response, j, record[j].hash)
        BY DEF IInv, AnswersOK
      <4> QED
        BY <1>same, <1>5, <1>6, <3>2, <4>1 DEF Truth
    <3> QED
      BY <3>1, <3>2
  <2> QED
    BY <2>1, <2>2 DEF AnswersOK
<1> QED
  BY <1>1, <1>7, <1>8, <1>9, <1>10, <1>11, <1>12 DEF IInv

LEMMA ExpireInv ==
  ASSUME IInv, NEW k \in Keys, Expire(k)
  PROVE  IInv'
<1>1. /\ \A r \in Requests : ~Holds(r, k)
      /\ life' = [life EXCEPT ![k] = life[k] + 1] /\ life[k] + 1 < MaxLives
      /\ record' = [record EXCEPT ![k] = NoRecord]
      /\ late' = late \ {k}
      /\ UNCHANGED <<req, effects>>
  BY DEF Expire
<1>2. NoRecord \in Records /\ NoRecord.status = "NONE" /\ NoRecord.response.kind = "none"
  BY DEF NoRecord, Records, Reply, Replies, ReplyKinds
<1>3. /\ life \in [Keys -> 0..(MaxLives - 1)] /\ record \in [Keys -> Records]
      /\ MaxLives \in Nat
  BY LivesAssumption DEF IInv, TypeOK
<1>4. /\ record' \in [Keys -> Records] /\ record'[k] = NoRecord
      /\ \A j \in Keys \ {k} : record'[j] = record[j]
  BY <1>1, <1>2, <1>3
<1>5. /\ life' \in [Keys -> 0..(MaxLives - 1)] /\ life'[k] = life[k] + 1
      /\ \A j \in Keys \ {k} : life'[j] = life[j]
  BY <1>1, <1>3
<1>6. TypeOK'
  BY <1>1, <1>4, <1>5 DEF IInv, TypeOK
<1>7. \A r \in Requests : req[r].phase \in Holding => req[r].key \in Keys \ {k}
  BY <1>1 DEF IInv, RequestOK, Holds, Holding
<1>8. \A r \in Requests : RequestOK(r)' /\ HolderOK(r)'
  BY <1>1, <1>4, <1>7 DEF IInv, RequestOK, HolderOK, Holds
<1>9. ASSUME NEW e \in effects
      PROVE  EffectOK(e)' /\ (e.key = k => e.life # life'[k])
  <2>1. /\ e.key \in Keys /\ e.life \in Nat
        /\ req[e.by].phase \in Past /\ req[e.by].key = e.key /\ req[e.by].body = e.body
        /\ e.life <= life[e.key] /\ life[e.key] \in Nat
    BY <1>3 DEF IInv, TypeOK, Effects, EffectOK
  <2> QED
    BY <1>1, <1>5, <2>1 DEF EffectOK
<1>10. CommitsAhead'
  <2>1. \A j \in Keys : record'[j].status = "NONE" => Uncommitted(j)'
    BY <1>1, <1>4, <1>5, <1>9 DEF IInv, CommitsAhead, Uncommitted
  <2>2. ASSUME NEW r \in Requests, req[r].phase = "executing"
        PROVE  Uncommitted(req[r].key)'
    BY <1>1, <1>5, <1>7, <2>2 DEF IInv, CommitsAhead, Uncommitted, Holding
  <2> QED
    BY <1>1, <2>1, <2>2 DEF CommitsAhead
<1>11. CommittedOK' /\ AppliedOnce'
  BY <1>1 DEF IInv, CommittedOK, AppliedOnce
<1>12. AnswersOK'
  <2>1. ASSUME NEW r \in Requests
        PROVE  Truth(req[r].reply, req[r].key, req[r].body)'
    <3>1. Truth(req[r].reply, req[r].key, req[r].body)
      BY DEF IInv, AnswersOK
    <3> QED
      BY <1>1, <3>1 DEF Truth
  <2>2. ASSUME NEW j \in Keys
        PROVE  Truth(record[j].response, j, record[j].hash)'
    <3>1. CASE j = k
      BY <1>2, <1>4, <3>1 DEF Truth
    <3>2. CASE j # k
      <4>1. Truth(record[j].response, j, record[j].hash)
        BY DEF IInv, AnswersOK
      <4> QED
        BY <1>1, <1>4, <3>2, <4>1 DEF Truth
    <3> QED
      BY <3>1, <3>2
  <2> QED
    BY <2>1, <2>2 DEF AnswersOK
<1> QED
  BY <1>1, <1>6, <1>8, <1>9, <1>10, <1>11, <1>12 DEF IInv

LEMMA AgeInv ==
  ASSUME IInv, NEW k \in Keys, Age(k)
  PROVE  IInv'
<1>1. late' = late \cup {k} /\ UNCHANGED <<record, life, req, effects>>
  BY DEF Age
<1>2. TypeOK'
  BY <1>1 DEF IInv, TypeOK
<1> QED
  BY <1>1, <1>2
  DEF IInv, RequestOK, HolderOK, Holds, EffectOK, CommitsAhead, Uncommitted, CommittedOK,
      AnswersOK, Truth, AppliedOnce

LEMMA NextIInv == IInv /\ [Next]_vars => IInv'
<1> SUFFICES ASSUME IInv, [Next]_vars PROVE IInv'
  OBVIOUS
<1>1. CASE \E r \in Requests, k \in Keys, b \in Bodies : Arrive(r, k, b)
  BY <1>1, ArriveInv
<1>2. ASSUME NEW r \in Requests,
             Begin(r) \/ Commit(r) \/ Reject(r) \/ Succeed(r) \/ Complete(r) \/ BreakOff(r)
      PROVE  IInv'
  <2>1. CASE Begin(r)
    BY <2>1, StartInv, TurnAwayInv DEF Begin
  <2> QED
    BY <1>2, <2>1, CommitInv, RejectInv, SucceedInv, CompleteInv, BreakOffInv
<1>3. CASE \E k \in Keys : Age(k) \/ Expire(k)
  BY <1>3, AgeInv, ExpireInv
<1>4. CASE UNCHANGED vars
  BY <1>4
  DEF vars, IInv, TypeOK, RequestOK, HolderOK, Holds, EffectOK, CommitsAhead, Uncommitted,
      CommittedOK, AnswersOK, Truth, AppliedOnce
<1> QED
  BY <1>1, <1>2, <1>3, <1>4 DEF Next, Server

LEMMA SpecIInv == Spec => []IInv
  BY InitIInv, NextIInv, PTL DEF Spec

-----------------------------------------------------------------------------
\* However many requests carry an Idempotency-Key and wherever they stop, at most
\* one ledger transaction is committed under it while its reservation is kept
\* (IdempotencyActionFilter, SpannerIdempotencyStore).
THEOREM KeyAppliedOnce == Spec => [](TypeOK /\ AppliedOnce)
<1>1. IInv => TypeOK /\ AppliedOnce
  BY DEF IInv
<1> QED
  BY <1>1, SpecIInv, PTL

\* "created" and "rejected" are what happened to the key and body of the request
\* that is told so, also when the answer is replayed.
THEOREM AnswersTellTheTruth == Spec => []AnswersAreTrue
<1>1. IInv => AnswersAreTrue
  <2> SUFFICES ASSUME IInv, NEW r \in Requests
               PROVE  LET told == req[r].reply
                          sameRequest(e) == e.by = told.by /\ e.key = req[r].key /\ e.body = req[r].body
                      IN  /\ told.kind = "created" => \E e \in effects : sameRequest(e)
                          /\ told.kind = "rejected" =>
                               /\ req[told.by].key = req[r].key /\ req[told.by].body = req[r].body
                               /\ ~\E e \in effects : e.by = told.by
    BY DEF AnswersAreTrue
  <2>1. Truth(req[r].reply, req[r].key, req[r].body)
    BY DEF IInv, AnswersOK
  <2> QED
    BY <2>1 DEF Truth
<1> QED
  BY <1>1, SpecIInv, PTL

\* Nothing but the retention policy frees an orphaned reservation, and no request
\* commits under it (BeginAsync answers Stale, AbandonAsync has no caller).
THEOREM OrphansBlock == Spec => OrphansStayBlocked
<1>1. IInv /\ [Next]_vars =>
        \A k \in Keys : Orphaned(k) /\ life'[k] = life[k] =>
          Orphaned(k)' /\ {e \in effects' : e.key = k} = {e \in effects : e.key = k}
  <2> SUFFICES ASSUME IInv, [Next]_vars, NEW k \in Keys, Orphaned(k), life'[k] = life[k]
               PROVE  /\ record'[k].status = "IN_PROGRESS"
                      /\ \A r \in Requests : ~Holds(r, k)'
                      /\ {e \in effects' : e.key = k} = {e \in effects : e.key = k}
    BY DEF Orphaned
  <2>1. /\ record[k].status = "IN_PROGRESS"
        /\ \A r \in Requests : ~(req[r].phase \in Holding /\ req[r].key = k)
        /\ req \in [Requests -> ReqType] /\ record \in [Keys -> Records]
    BY DEF IInv, TypeOK, ReqType, Orphaned, Holds
  <2>2. ASSUME NEW r \in Requests, NEW j \in Keys, NEW b \in Bodies, Arrive(r, j, b)
        PROVE  /\ record' = record /\ effects' = effects
               /\ \A s \in Requests : ~(req'[s].phase \in Holding /\ req'[s].key = k)
    BY <2>1, <2>2 DEF Arrive, Holding
  <2>3. ASSUME NEW r \in Requests, Begin(r)
        PROVE  /\ record'[k] = record[k] /\ effects' = effects
               /\ \A s \in Requests : ~(req'[s].phase \in Holding /\ req'[s].key = k)
    <3>1. CASE Start(r, req[r].key)
      BY <2>1, <2>3, <3>1 DEF Begin, Start, ReqType, Holding
    <3>2. CASE TurnAway(r, req[r].key)
      BY <2>1, <2>3, <3>2 DEF Begin, TurnAway, Answer, ReqType, Holding
    <3> QED
      BY <2>3, <3>1, <3>2 DEF Begin
  <2>4. ASSUME NEW r \in Requests,
               Commit(r) \/ Reject(r) \/ Succeed(r) \/ Complete(r) \/ BreakOff(r)
        PROVE  /\ record'[k] = record[k]
               /\ \A e \in effects' : e \in effects \/ e.key # k
               /\ effects \subseteq effects'
               /\ \A s \in Requests : ~(req'[s].phase \in Holding /\ req'[s].key = k)
    <3>1. CASE Commit(r)
      BY <2>1, <3>1 DEF Commit, ReqType, Holding
    <3>2. CASE Reject(r)
      BY <2>1, <3>2 DEF Reject, ReqType, Holding
    <3>3. CASE Succeed(r)
      BY <2>1, <3>3 DEF Succeed, ReqType, Holding
    <3>4. CASE Complete(r)
      <4>1. req[r].key # k
        BY <2>1, <3>4 DEF Complete, Holding
      <4> QED
        BY <2>1, <3>4, <4>1 DEF Complete, Answer, ReqType, Holding
    <3>5. CASE BreakOff(r)
      BY <2>1, <3>5 DEF BreakOff, Answer, ReqType, Holding
    <3> QED
      BY <2>4, <3>1, <3>2, <3>3, <3>4, <3>5
  <2>5. ASSUME NEW j \in Keys, Age(j)
        PROVE  record' = record /\ effects' = effects /\ req' = req
    BY <2>5 DEF Age
  <2>6. ASSUME NEW j \in Keys, Expire(j)
        PROVE  record'[k] = record[k] /\ effects' = effects /\ req' = req
    <3>1. life[k] \in Int
      BY LivesAssumption DEF IInv, TypeOK
    <3>2. j # k
      BY <2>6, <3>1 DEF Expire, IInv, TypeOK
    <3> QED
      BY <2>1, <2>6, <3>2 DEF Expire
  <2>7. CASE UNCHANGED vars
    BY <2>1, <2>7 DEF vars, Holds
  <2> QED
    BY <2>1, <2>2, <2>3, <2>4, <2>5, <2>6, <2>7 DEF Next, Server, Holds
<1> QED
  BY <1>1, SpecIInv, PTL DEF Spec, OrphansStayBlocked

\* A stored answer is never replaced (CompleteAsync updates whatever it finds, but
\* only the holder of an IN_PROGRESS reservation calls it).
THEOREM StoredAnswerStays == Spec => AnswerIsKept
<1>1. IInv /\ [Next]_vars =>
        \A k \in Keys : record[k].status = "COMPLETED" /\ life'[k] = life[k] =>
          record'[k] = record[k]
  <2> SUFFICES ASSUME IInv, [Next]_vars, NEW k \in Keys, record[k].status = "COMPLETED",
                      life'[k] = life[k]
               PROVE  record'[k] = record[k]
    OBVIOUS
  <2>1. record \in [Keys -> Records]
    BY DEF IInv, TypeOK
  <2>2. ASSUME NEW r \in Requests, Begin(r)
        PROVE  record'[k] = record[k]
    BY <2>1, <2>2 DEF Begin, Start, TurnAway
  <2>3. ASSUME NEW r \in Requests, Complete(r)
        PROVE  record'[k] = record[k]
    <3>1. req[r].key # k
      BY <2>3 DEF Complete, IInv, HolderOK, Holding
    <3> QED
      BY <2>1, <2>3, <3>1 DEF Complete
  <2>4. ASSUME NEW j \in Keys, Expire(j)
        PROVE  record'[k] = record[k]
    <3>1. life[k] \in Int /\ life \in [Keys -> 0..(MaxLives - 1)]
      BY LivesAssumption DEF IInv, TypeOK
    <3>2. j # k
      BY <2>4, <3>1 DEF Expire
    <3> QED
      BY <2>1, <2>4, <3>2 DEF Expire
  <2>5. \/ \E r \in Requests : Begin(r) \/ Complete(r)
        \/ \E j \in Keys : Expire(j)
        \/ record' = record
    BY DEF Next, Server, Arrive, Commit, Reject, Succeed, BreakOff, Age, vars
  <2> QED
    BY <2>2, <2>3, <2>4, <2>5
<1> QED
  BY <1>1, SpecIInv, PTL DEF Spec, AnswerIsKept

-----------------------------------------------------------------------------
(* The layer implements IdempotentEndpoint.                                *)

\* A result is the result of its request, and a success was committed since the
\* record of its key was last deleted.
ResultsOK ==
  /\ \A r \in Requests :
       /\ req[r].phase = "committed" => EffectsOf(req[r].key) # {}
       /\ req[r].phase = "returned" =>
            /\ req[r].reply.by = r
            /\ req[r].reply.kind = "rejected" \/ EffectsOf(req[r].key) # {}
  /\ \A k \in Keys : record[k].status = "COMPLETED" =>
       record[k].response.by \in Requests

LEMMA ResultsNext == IInv /\ ResultsOK /\ [Next]_vars => ResultsOK'
<1> SUFFICES ASSUME IInv, ResultsOK, [Next]_vars PROVE ResultsOK'
  OBVIOUS
<1>1. /\ req \in [Requests -> ReqType] /\ record \in [Keys -> Records]
      /\ life \in [Keys -> 0..(MaxLives - 1)]
      /\ \A r \in Requests : RequestOK(r) /\ HolderOK(r)
  BY DEF IInv, TypeOK, ReqType
<1>2. ASSUME NEW r \in Requests, NEW k \in Keys, NEW b \in Bodies, Arrive(r, k, b)
      PROVE  ResultsOK'
  BY <1>1, <1>2 DEF Arrive, ResultsOK, EffectsOf
<1>3. ASSUME NEW r \in Requests, Begin(r)
      PROVE  ResultsOK'
  <2>1. CASE Start(r, req[r].key)
    BY <1>1, <1>3, <2>1 DEF Begin, Start, ResultsOK, EffectsOf, ReqType, NoRecord
  <2>2. CASE TurnAway(r, req[r].key)
    <3>1. record' = record /\ UNCHANGED <<life, effects>>
      BY <1>3, <2>2 DEF Begin, TurnAway
    <3>2. req'[r].phase = "answered" /\ \A s \in Requests \ {r} : req'[s] = req[s]
      BY <1>1, <2>2 DEF TurnAway, Answer, ReqType
    <3> QED
      BY <3>1, <3>2 DEF ResultsOK, EffectsOf
  <2> QED
    BY <1>3, <2>1, <2>2 DEF Begin
<1>4. ASSUME NEW r \in Requests, Commit(r)
      PROVE  ResultsOK'
  <2> DEFINE new == [key |-> req[r].key, body |-> req[r].body, by |-> r, life |-> life[req[r].key]]
  <2>1. /\ effects' = effects \cup {new} /\ UNCHANGED <<record, life>>
        /\ req'[r].phase = "committed" /\ req'[r].key = req[r].key
        /\ \A s \in Requests \ {r} : req'[s] = req[s]
    BY <1>1, <1>4 DEF Commit, ReqType
  <2>2. new \in EffectsOf(req[r].key)'
    BY <2>1 DEF EffectsOf
  <2>3. \A j : EffectsOf(j) \subseteq EffectsOf(j)'
    BY <2>1 DEF EffectsOf
  <2> HIDE DEF new
  <2> QED
    BY <2>1, <2>2, <2>3 DEF ResultsOK
<1>5. ASSUME NEW r \in Requests, Reject(r) \/ Succeed(r)
      PROVE  ResultsOK'
  <2>1. /\ UNCHANGED <<record, life, effects>>
        /\ req'[r].phase = "returned" /\ req'[r].key = req[r].key
        /\ req'[r].reply.by = r
        /\ req'[r].reply.kind = "rejected" \/ req[r].phase = "committed"
        /\ \A s \in Requests \ {r} : req'[s] = req[s]
    BY <1>1, <1>5 DEF Reject, Succeed, Result, ReqType
  <2> QED
    BY <2>1 DEF ResultsOK, EffectsOf
<1>6. ASSUME NEW r \in Requests, Complete(r)
      PROVE  ResultsOK'
  <2>1. /\ UNCHANGED <<life, effects>>
        /\ req'[r].phase = "answered" /\ req[r].phase = "returned"
        /\ \A s \in Requests \ {r} : req'[s] = req[s]
    BY <1>1, <1>6 DEF Complete, Answer, ReqType
  <2>2. record' = [record EXCEPT ![req[r].key].status = "COMPLETED",
                                 ![req[r].key].response = req[r].reply]
    BY <1>6 DEF Complete
  <2>3. \A k \in Keys : \/ record'[k] = record[k]
                        \/ record'[k].response = req[r].reply
    BY <1>1, <2>2 DEF Records
  <2> QED
    BY <2>1, <2>3 DEF ResultsOK, EffectsOf
<1>7. ASSUME NEW r \in Requests, BreakOff(r)
      PROVE  ResultsOK'
  <2>1. /\ UNCHANGED <<record, life, effects>>
        /\ req'[r].phase \in {"answered", "dead"}
        /\ \A s \in Requests \ {r} : req'[s] = req[s]
    BY <1>1, <1>7 DEF BreakOff, Answer, ReqType
  <2> QED
    BY <2>1 DEF ResultsOK, EffectsOf
<1>8. ASSUME NEW k \in Keys, Expire(k)
      PROVE  ResultsOK'
  <2>1. /\ UNCHANGED <<req, effects>> /\ record' = [record EXCEPT ![k] = NoRecord]
        /\ life' = [life EXCEPT ![k] = @ + 1]
        /\ \A r \in Requests : req[r].phase \in Holding => req[r].key \in Keys \ {k}
    BY <1>1, <1>8 DEF Expire, RequestOK, Holds, Holding
  <2>2. \A j \in Keys \ {k} : EffectsOf(j)' = EffectsOf(j)
    BY <1>1, <2>1 DEF EffectsOf
  <2>3. \A j \in Keys : record'[j].status = "COMPLETED" => record'[j] = record[j]
    BY <1>1, <2>1 DEF NoRecord
  <2> QED
    BY <2>1, <2>2, <2>3 DEF ResultsOK, Holding
<1>9. CASE (\E k \in Keys : Age(k)) \/ UNCHANGED vars
  BY <1>9 DEF Age, vars, ResultsOK, EffectsOf
<1> QED
  BY <1>2, <1>3, <1>4, <1>5, <1>6, <1>7, <1>8, <1>9 DEF Next, Server

LEMMA ResultsInit == Init => ResultsOK
  BY DEF Init, ResultsOK, NoRecord

-----------------------------------------------------------------------------
OpenOutcome == [status |-> "open", by |-> Nobody]

\* The outcome of key k as long as nothing of k changes.
LEMMA SameOutcome ==
  ASSUME NEW k \in Keys, EffectsOf(k)' = EffectsOf(k),
         \/ record'[k] = record[k]
         \/ record[k].status # "COMPLETED" /\ record'[k].status # "COMPLETED"
         \/ EffectsOf(k) # {}
  PROVE  OutcomeOf(k)' = OutcomeOf(k)
  BY DEF OutcomeOf

\* One key changes its outcome, or none does.
LEMMA OneOutcome ==
  ASSUME NEW k \in Keys, \A j \in Keys \ {k} : OutcomeOf(j)' = OutcomeOf(j)
  PROVE  [j \in Keys |-> OutcomeOf(j)'] = [[j \in Keys |-> OutcomeOf(j)] EXCEPT ![k] = OutcomeOf(k)']
  OBVIOUS

\* Every step of the layer decides an open key, forgets one, or changes no outcome.
LEMMA StepOutcome ==
  ASSUME IInv, ResultsOK, [Next]_vars
  PROVE  \/ \A k \in Keys : OutcomeOf(k)' = OutcomeOf(k)
         \/ \E k \in Keys :
              /\ \A j \in Keys \ {k} : OutcomeOf(j)' = OutcomeOf(j)
              /\ \/ OutcomeOf(k)' = OpenOutcome
                 \/ /\ OutcomeOf(k) = OpenOutcome
                    /\ \E r \in Requests, status \in {"applied", "refused"} :
                         OutcomeOf(k)' = [status |-> status, by |-> r]
<1>1. /\ req \in [Requests -> ReqType] /\ record \in [Keys -> Records]
      /\ life \in [Keys -> 0..(MaxLives - 1)] /\ MaxLives \in Nat
      /\ \A r \in Requests : RequestOK(r) /\ HolderOK(r)
  BY LivesAssumption DEF IInv, TypeOK, ReqType
<1>2. ASSUME NEW r \in Requests, Start(r, req[r].key), UNCHANGED <<life, effects>>
      PROVE  \A k \in Keys : OutcomeOf(k)' = OutcomeOf(k)
  <2>1. \A k \in Keys :
          record'[k] = record[k]
            \/ (record[k].status # "COMPLETED" /\ record'[k].status # "COMPLETED")
    BY <1>1, <1>2 DEF Start, NoRecord
  <2> QED
    BY <1>2, <2>1, SameOutcome DEF EffectsOf
<1>3. ASSUME UNCHANGED <<record, life, effects>>
      PROVE  \A k \in Keys : OutcomeOf(k)' = OutcomeOf(k)
  BY <1>3, SameOutcome DEF EffectsOf
<1>4. ASSUME NEW r \in Requests, NEW k \in Keys, k = req[r].key, Commit(r)
      PROVE  /\ \A j \in Keys \ {k} : OutcomeOf(j)' = OutcomeOf(j)
             /\ OutcomeOf(k) = OpenOutcome
             /\ OutcomeOf(k)' = [status |-> "applied", by |-> r]
  <2> DEFINE new == [key |-> k, body |-> req[r].body, by |-> r, life |-> life[k]]
  <2>1. /\ effects' = effects \cup {new} /\ UNCHANGED <<record, life>>
        /\ record[k].status = "IN_PROGRESS"
    BY <1>1, <1>4 DEF Commit, RequestOK, HolderOK, Holding
  <2>2. EffectsOf(k) = {}
    BY <1>4 DEF Commit, IInv, CommitsAhead, Uncommitted, EffectsOf
  <2>3. new.key = k /\ new.life = life[k] /\ new.by = r
    OBVIOUS
  <2> HIDE DEF new
  <2>4. EffectsOf(k)' = {new}
    BY <2>1, <2>2, <2>3 DEF EffectsOf
  <2>5. \A j \in Keys \ {k} : EffectsOf(j)' = EffectsOf(j)
    BY <2>1, <2>3 DEF EffectsOf
  <2>6. OutcomeOf(k) = OpenOutcome
    BY <2>1, <2>2 DEF OutcomeOf, OpenOutcome
  <2>7. OutcomeOf(k)' = [status |-> "applied", by |-> r]
    <3>1. (CHOOSE e \in {new} : TRUE) = new
      OBVIOUS
    <3> QED
      BY <2>3, <2>4, <3>1 DEF OutcomeOf
  <2>8. \A j \in Keys \ {k} : OutcomeOf(j)' = OutcomeOf(j)
    BY <2>1, <2>5, SameOutcome
  <2> QED
    BY <2>6, <2>7, <2>8
<1>5. ASSUME NEW r \in Requests, NEW k \in Keys, k = req[r].key, Complete(r)
      PROVE  /\ \A j \in Keys \ {k} : OutcomeOf(j)' = OutcomeOf(j)
             /\ \/ OutcomeOf(k)' = OutcomeOf(k)
                \/ /\ OutcomeOf(k) = OpenOutcome
                   /\ OutcomeOf(k)' = [status |-> "refused", by |-> r]
  <2>1. /\ UNCHANGED <<life, effects>>
        /\ record[k].status = "IN_PROGRESS"
        /\ req[r].reply.by = r
    BY <1>1, <1>5 DEF Complete, RequestOK, HolderOK, Holding, ResultsOK
  <2>2. /\ record'[k].status = "COMPLETED" /\ record'[k].response = req[r].reply
        /\ \A j \in Keys \ {k} : record'[j] = record[j]
    BY <1>1, <1>5 DEF Complete, Records
  <2>3. \A j \in Keys : EffectsOf(j)' = EffectsOf(j)
    BY <2>1 DEF EffectsOf
  <2>4. \A j \in Keys \ {k} : OutcomeOf(j)' = OutcomeOf(j)
    BY <2>2, <2>3, SameOutcome
  <2>5. CASE EffectsOf(k) # {}
    BY <2>3, <2>4, <2>5, SameOutcome
  <2>6. CASE EffectsOf(k) = {}
    BY <2>1, <2>2, <2>3, <2>4, <2>6 DEF OutcomeOf, OpenOutcome
  <2> QED
    BY <2>5, <2>6
<1>6. ASSUME NEW k \in Keys, Expire(k)
      PROVE  /\ \A j \in Keys \ {k} : OutcomeOf(j)' = OutcomeOf(j)
             /\ OutcomeOf(k)' = OpenOutcome
  <2>1. /\ effects' = effects /\ life' = [life EXCEPT ![k] = @ + 1]
        /\ record' = [record EXCEPT ![k] = NoRecord]
    BY <1>6 DEF Expire
  <2>2. EffectsOf(k)' = {}
    <3>1. \A e \in effects : e.key = k => e.life \in Nat /\ e.life <= life[k]
      BY <1>1 DEF IInv, TypeOK, Effects, EffectOK
    <3>2. life'[k] = life[k] + 1 /\ life[k] \in Nat
      BY <1>1, <2>1
    <3> QED
      BY <2>1, <3>1, <3>2 DEF EffectsOf
  <2>3. record'[k].status = "NONE"
    BY <1>1, <2>1 DEF NoRecord
  <2>4. \A j \in Keys \ {k} : EffectsOf(j)' = EffectsOf(j) /\ record'[j] = record[j]
    BY <1>1, <2>1 DEF EffectsOf
  <2>5. OutcomeOf(k)' = OpenOutcome
    BY <2>2, <2>3 DEF OutcomeOf, OpenOutcome
  <2> QED
    BY <2>4, <2>5, SameOutcome
<1>7. \/ \E r \in Requests : Start(r, req[r].key) /\ UNCHANGED <<life, effects>>
      \/ \E r \in Requests : Commit(r) \/ Complete(r)
      \/ \E k \in Keys : Expire(k)
      \/ UNCHANGED <<record, life, effects>>
  BY DEF Next, Server, Arrive, Begin, TurnAway, Reject, Succeed, BreakOff, Age, vars
<1>8. \A r \in Requests : Commit(r) \/ Complete(r) => req[r].key \in Keys
  BY <1>1 DEF Commit, Complete, RequestOK, HolderOK, Holding
<1> QED
  BY <1>2, <1>3, <1>4, <1>5, <1>6, <1>7, <1>8

\* While its reservation is kept a key is decided once, for one request, and the
\* decision never changes: the layer is a correct IdempotentEndpoint.
THEOREM LayerDecidesOnce == Spec => DecidesOnce
<1>1. Init => Endpoint!Init
  BY DEF Init, Endpoint!Init, Endpoint!Open, OutcomeOf, EffectsOf, NoRecord
<1>2. IInv /\ ResultsOK /\ [Next]_vars => [Endpoint!Next]_([k \in Keys |-> OutcomeOf(k)])
  <2> SUFFICES ASSUME IInv, ResultsOK, [Next]_vars
               PROVE  [Endpoint!Next]_([k \in Keys |-> OutcomeOf(k)])
    OBVIOUS
  <2>1. CASE \A k \in Keys : OutcomeOf(k)' = OutcomeOf(k)
    BY <2>1
  <2>2. ASSUME NEW k \in Keys, \A j \in Keys \ {k} : OutcomeOf(j)' = OutcomeOf(j),
               OutcomeOf(k)' = OpenOutcome
        PROVE  Endpoint!Next
    BY <2>2, OneOutcome DEF Endpoint!Next, Endpoint!Forget, Endpoint!Open, OpenOutcome
  <2>3. ASSUME NEW k \in Keys, \A j \in Keys \ {k} : OutcomeOf(j)' = OutcomeOf(j),
               OutcomeOf(k) = OpenOutcome, NEW r \in Requests,
               NEW status \in {"applied", "refused"},
               OutcomeOf(k)' = [status |-> status, by |-> r]
        PROVE  Endpoint!Next
    <3> DEFINE was == [j \in Keys |-> OutcomeOf(j)]
    <3>1. was' = [was EXCEPT ![k] = [status |-> status, by |-> r]]
      BY <2>3, OneOutcome
    <3>2. was[k] = Endpoint!Open
      BY <2>3 DEF Endpoint!Open, OpenOutcome
    <3>3. Endpoint!Decide(k, r, status)
      BY <3>1, <3>2 DEF Endpoint!Decide
    <3> QED
      BY <2>3, <3>3 DEF Endpoint!Next
  <2> QED
    BY <2>1, <2>2, <2>3, StepOutcome
<1> QED
  BY <1>1, <1>2, SpecIInv, ResultsInit, ResultsNext, PTL DEF Spec, DecidesOnce, Endpoint!Spec
=============================================================================
