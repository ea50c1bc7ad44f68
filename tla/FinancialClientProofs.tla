----------------------- MODULE FinancialClientProofs -----------------------
(***************************************************************************)
(* FinancialClient: a key stands for one intention and a confirmation for  *)
(* one payment, however often the user edits, retries or restarts.         *)
(***************************************************************************)
EXTENDS FinancialClient, IdempotencyProofs

Sent(r) == req[r].phase # "idle"

\* Whatever was sent carries a key that was generated.
KeysUsed == \A r \in Requests : Sent(r) => req[r].key \in used

\* A key has one body: in the requests, in the reservation and in the operation.
OneBody ==
  /\ \A r, s \in Requests :
       Sent(r) /\ Sent(s) /\ req[r].key = req[s].key => req[r].body = req[s].body
  /\ \A k \in Keys : record[k].status # "NONE" =>
       \E r \in Requests : Sent(r) /\ req[r].key = k /\ req[r].body = record[k].hash
  /\ stored # Nobody =>
       /\ stored \in used
       /\ \A r \in Requests : Sent(r) /\ req[r].key = stored => req[r].body = fingerprint

NoConflict ==
  /\ NoKeyConflicts
  /\ \A k \in Keys : record[k].response.kind # "conflict"

\* The key of a confirmed request is released: it is neither stored nor awaited.
ConfirmedOK ==
  /\ \A r \in Requests : outcomes[r] = "confirmed" =>
       /\ req[r].phase = "answered" /\ req[r].reply.kind = "created"
       /\ stored # Nobody => req[r].key # stored
       /\ Submitting => req[r].key # req[sent].key
  /\ \A r, s \in Requests :
       outcomes[r] = "confirmed" /\ outcomes[s] = "confirmed" /\ req[r].key = req[s].key => r = s

ClientInv ==
  /\ IInv
  /\ ClientTypeOK
  /\ Submitting => Sent(sent)
  /\ KeysUsed
  /\ OneBody
  /\ NoConflict
  /\ ConfirmedOK

-----------------------------------------------------------------------------
LEMMA ClientInitInv == ClientInit => ClientInv
<1> SUFFICES ASSUME ClientInit PROVE ClientInv
  OBVIOUS
<1>1. IInv /\ TypeOK
  BY InitIInv DEF ClientInit, IInv
<1>2. ClientTypeOK
  BY <1>1 DEF ClientInit, ClientTypeOK, Statuses
<1>3. NoConflict
  BY DEF ClientInit, Init, NoConflict, NoKeyConflicts, NoRecord, Reply
<1>4. KeysUsed /\ OneBody /\ ConfirmedOK /\ (Submitting => Sent(sent))
  BY DEF ClientInit, Init, KeysUsed, OneBody, ConfirmedOK, Submitting, Sent, NoRecord
<1> QED
  BY <1>1, <1>2, <1>3, <1>4 DEF ClientInv

-----------------------------------------------------------------------------
(* The server: requests keep their key and body, and answers stay given.   *)

LEMMA ServerRequests ==
  ASSUME IInv, Server
  PROVE  \A s \in Requests :
           /\ req'[s].key = req[s].key /\ req'[s].body = req[s].body
           /\ Sent(s)' <=> Sent(s)
           /\ req[s].phase = "answered" => req'[s] = req[s]
<1>1. req \in [Requests -> ReqType]
  BY DEF IInv, TypeOK, ReqType
<1>2. ASSUME NEW r \in Requests, Begin(r)
      PROVE  \A s \in Requests :
               /\ req'[s].key = req[s].key /\ req'[s].body = req[s].body
               /\ Sent(s)' <=> Sent(s)
               /\ req[s].phase = "answered" => req'[s] = req[s]
  BY <1>1, <1>2 DEF Begin, Start, TurnAway, Answer, Sent, ReqType
<1>3. ASSUME NEW r \in Requests, Commit(r) \/ Reject(r) \/ Succeed(r)
      PROVE  \A s \in Requests :
               /\ req'[s].key = req[s].key /\ req'[s].body = req[s].body
               /\ Sent(s)' <=> Sent(s)
               /\ req[s].phase = "answered" => req'[s] = req[s]
  BY <1>1, <1>3 DEF Commit, Reject, Succeed, Sent, ReqType
<1>4. ASSUME NEW r \in Requests, Complete(r) \/ BreakOff(r)
      PROVE  \A s \in Requests :
               /\ req'[s].key = req[s].key /\ req'[s].body = req[s].body
               /\ Sent(s)' <=> Sent(s)
               /\ req[s].phase = "answered" => req'[s] = req[s]
  BY <1>1, <1>4 DEF Complete, BreakOff, Answer, Sent, ReqType, Holding
<1>5. ASSUME NEW k \in Keys, Age(k) \/ Expire(k)
      PROVE  req' = req
  BY <1>5 DEF Age, Expire
<1> QED
  BY <1>2, <1>3, <1>4, <1>5 DEF Server, Sent

\* A reservation keeps its hash, or is a new one for a request that was sent.
LEMMA ServerRecords ==
  ASSUME IInv, Server, NEW k \in Keys, record'[k].status # "NONE"
  PROVE  \/ record[k].status # "NONE" /\ record'[k].hash = record[k].hash
         \/ \E r \in Requests : Sent(r) /\ req[r].key = k /\ req[r].body = record'[k].hash
<1>1. /\ record \in [Keys -> Records]
      /\ \A r \in Requests : RequestOK(r) /\ HolderOK(r)
  BY DEF IInv, TypeOK
<1>2. ASSUME NEW r \in Requests, Begin(r)
      PROVE  \/ record[k].status # "NONE" /\ record'[k].hash = record[k].hash
             \/ Sent(r) /\ req[r].key = k /\ req[r].body = record'[k].hash
  BY <1>1, <1>2 DEF Begin, Start, TurnAway, Sent, NoRecord
<1>3. ASSUME NEW r \in Requests, Complete(r)
      PROVE  record[k].status # "NONE" /\ record'[k].hash = record[k].hash
  <2>1. req[r].key \in Keys /\ record[req[r].key].status = "IN_PROGRESS"
    BY <1>1, <1>3 DEF Complete, RequestOK, HolderOK, Holding
  <2>2. record' = [record EXCEPT ![req[r].key].status = "COMPLETED",
                                 ![req[r].key].response = req[r].reply]
    BY <1>3 DEF Complete
  <2> QED
    BY <1>1, <2>1, <2>2 DEF Records
<1>4. ASSUME NEW j \in Keys, Expire(j)
      PROVE  record[k].status # "NONE" /\ record'[k].hash = record[k].hash
  BY <1>1, <1>4 DEF Expire, NoRecord
<1> QED
  BY <1>2, <1>3, <1>4
  DEF Server, Commit, Reject, Succeed, BreakOff, Age

LEMMA ServerNoConflict ==
  ASSUME ClientInv, Server
  PROVE  NoConflict'
<1>1. /\ req \in [Requests -> ReqType] /\ record \in [Keys -> Records]
      /\ \A r \in Requests : RequestOK(r)
      /\ \A r \in Requests : req[r].reply.kind # "conflict"
      /\ \A k \in Keys : record[k].response.kind # "conflict"
  BY DEF ClientInv, IInv, TypeOK, ReqType, NoConflict, NoKeyConflicts
<1>2. ASSUME NEW r \in Requests, Begin(r)
      PROVE  NoConflict'
  <2>1. req[r].key \in Keys /\ Sent(r)
    BY <1>1, <1>2 DEF Begin, RequestOK, Sent
  <2>2. record[req[r].key].status # "NONE" => record[req[r].key].hash = req[r].body
    BY <2>1 DEF ClientInv, OneBody
  <2>3. CASE Start(r, req[r].key)
    <3>1. record' = [record EXCEPT ![req[r].key] =
                       [NoRecord EXCEPT !.status = "IN_PROGRESS", !.hash = req[r].body]]
          /\ req' = [req EXCEPT ![r].phase = "executing"]
      BY <2>3 DEF Start
    <3>2. [NoRecord EXCEPT !.status = "IN_PROGRESS", !.hash = req[r].body].response.kind = "none"
      BY DEF NoRecord, Reply
    <3>3. \A s \in Requests : req'[s].reply = req[s].reply
      BY <1>1, <3>1 DEF ReqType
    <3>4. \A k \in Keys : record'[k].response.kind # "conflict"
      BY <1>1, <3>1, <3>2
    <3> QED
      BY <1>1, <3>3, <3>4 DEF NoConflict, NoKeyConflicts
  <2>4. CASE TurnAway(r, req[r].key)
    <3>1. /\ record' = record
          /\ \E t : Answer(r, t) /\ t.kind # "conflict"
      BY <1>1, <2>1, <2>2, <2>4 DEF TurnAway, Reply
    <3> QED
      BY <1>1, <3>1 DEF NoConflict, NoKeyConflicts, Answer, ReqType
  <2> QED
    BY <1>2, <2>3, <2>4 DEF Begin
<1>3. ASSUME NEW r \in Requests, Commit(r) \/ Reject(r) \/ Succeed(r) \/ BreakOff(r)
      PROVE  NoConflict'
  <2>1. record' = record
    BY <1>3 DEF Commit, Reject, Succeed, BreakOff
  <2>2. CASE Commit(r) \/ Reject(r) \/ Succeed(r)
    <3>1. \A s \in Requests : req'[s].reply.kind # "conflict"
      BY <1>1, <2>2 DEF Commit, Reject, Succeed, Result, ReqType
    <3> QED
      BY <1>1, <2>1, <3>1 DEF NoConflict, NoKeyConflicts
  <2>3. CASE BreakOff(r)
    <3>1. \A s \in Requests : req'[s].reply.kind # "conflict"
      BY <1>1, <2>3 DEF BreakOff, Answer, Reply, ReqType
    <3> QED
      BY <1>1, <2>1, <3>1 DEF NoConflict, NoKeyConflicts
  <2> QED
    BY <1>3, <2>2, <2>3
<1>4. ASSUME NEW r \in Requests, Complete(r)
      PROVE  NoConflict'
  <2>1. \A s \in Requests : req'[s].reply = req[s].reply
    BY <1>1, <1>4 DEF Complete, Answer, ReqType
  <2>2. record' = [record EXCEPT ![req[r].key].status = "COMPLETED",
                                 ![req[r].key].response = req[r].reply]
    BY <1>4 DEF Complete
  <2>3. \A k \in Keys : record'[k].response \in {record[k].response, req[r].reply}
    BY <1>1, <2>2 DEF Records
  <2> QED
    BY <1>1, <2>1, <2>3 DEF NoConflict, NoKeyConflicts
<1>5. ASSUME NEW k \in Keys, Age(k) \/ Expire(k)
      PROVE  NoConflict'
  <2>1. req' = req /\ (record' = record \/ record' = [record EXCEPT ![k] = NoRecord])
    BY <1>5 DEF Age, Expire
  <2>2. NoRecord.response.kind = "none"
    BY DEF NoRecord, Reply
  <2> QED
    BY <1>1, <2>1, <2>2 DEF NoConflict, NoKeyConflicts
<1> QED
  BY <1>2, <1>3, <1>4, <1>5 DEF Server

LEMMA ServerClientInv ==
  ASSUME ClientInv, Server, UNCHANGED clientVars
  PROVE  ClientInv'
<1>1. UNCHANGED <<fingerprint, stored, sent, used, outcomes>>
  BY DEF clientVars
<1>2. IInv'
  BY NextIInv DEF ClientInv, Next
<1>3. ClientTypeOK'
  BY <1>1, <1>2 DEF ClientInv, ClientTypeOK, IInv
<1>4. \A s \in Requests :
        /\ req'[s].key = req[s].key /\ req'[s].body = req[s].body
        /\ Sent(s)' <=> Sent(s)
        /\ req[s].phase = "answered" => req'[s] = req[s]
  BY ServerRequests DEF ClientInv
<1>6. \A k \in Keys : record'[k].status # "NONE" =>
        \/ record[k].status # "NONE" /\ record'[k].hash = record[k].hash
        \/ \E r \in Requests : Sent(r) /\ req[r].key = k /\ req[r].body = record'[k].hash
  BY ServerRecords DEF ClientInv
<1>7. KeysUsed'
  BY <1>1, <1>4 DEF ClientInv, KeysUsed
<1>8. OneBody'
  <2>1. ASSUME NEW k \in Keys, record'[k].status # "NONE"
        PROVE  \E r \in Requests : Sent(r) /\ req[r].key = k /\ req[r].body = record'[k].hash
    BY <1>6, <2>1 DEF ClientInv, OneBody
  <2> QED
    BY <1>1, <1>4, <2>1 DEF ClientInv, OneBody
<1>9. NoConflict'
  BY ServerNoConflict
<1>10. (Submitting => Sent(sent))' /\ ConfirmedOK'
  <2>1. sent \in Requests \cup {Nobody}
    BY DEF ClientInv, ClientTypeOK
  <2> QED
    BY <1>1, <1>4, <2>1 DEF ClientInv, ConfirmedOK, Submitting
<1> QED
  BY <1>2, <1>3, <1>7, <1>8, <1>9, <1>10 DEF ClientInv

-----------------------------------------------------------------------------
(* The operation on the device.                                            *)

LEMMA RunInv ==
  ASSUME ClientInv, NEW r \in Requests, NEW b \in Bodies, Run(r, b)
  PROVE  ClientInv'
<1> PICK k \in KeyFor(b) : stored' = k /\ used' = used \cup {k} /\ Arrive(r, k, b)
  BY DEF Run
<1>1. /\ fingerprint' = b /\ sent' = r /\ outcomes' = outcomes /\ ~Submitting
      /\ req[r].phase = "idle"
      /\ req' = [req EXCEPT ![r] = [phase |-> "arrived", key |-> k, body |-> b,
                                    reply |-> Reply("none")]]
      /\ UNCHANGED <<record, late, life, effects>>
  BY DEF Run, Arrive
<1>2. k \in Keys
  BY DEF KeyFor, ClientInv, ClientTypeOK
<1>3. IInv'
  BY <1>2, NextIInv DEF ClientInv, Next
<1>4. /\ req'[r].phase = "arrived" /\ req'[r].key = k /\ req'[r].body = b
      /\ req'[r].reply.kind = "none"
      /\ \A s \in Requests \ {r} : req'[s] = req[s]
  BY <1>1 DEF ClientInv, IInv, TypeOK, Reply
<1>5. ClientTypeOK'
  BY <1>1, <1>2, <1>3 DEF ClientInv, ClientTypeOK, IInv
<1>6. KeysUsed'
  BY <1>1, <1>4 DEF ClientInv, KeysUsed, Sent
<1>7. \A s \in Requests : Sent(s) /\ req[s].key = k => req[s].body = b
  BY DEF KeyFor, ClientInv, OneBody, KeysUsed
<1>8. OneBody'
  <2>1. \A s \in Requests : Sent(s)' <=> Sent(s) \/ s = r
    BY <1>1, <1>4 DEF Sent
  <2>2. \A s, t \in Requests :
          Sent(s)' /\ Sent(t)' /\ req'[s].key = req'[t].key => req'[s].body = req'[t].body
    BY <1>4, <1>7, <2>1 DEF ClientInv, OneBody
  <2>3. \A j \in Keys : record'[j].status # "NONE" =>
          \E s \in Requests : Sent(s)' /\ req'[s].key = j /\ req'[s].body = record'[j].hash
    <3> SUFFICES ASSUME NEW j \in Keys, record[j].status # "NONE"
                 PROVE  \E s \in Requests :
                          Sent(s)' /\ req'[s].key = j /\ req'[s].body = record[j].hash
      BY <1>1
    <3>1. PICK s \in Requests : Sent(s) /\ req[s].key = j /\ req[s].body = record[j].hash
      BY DEF ClientInv, OneBody
    <3>2. s # r
      BY <1>1, <3>1 DEF Sent
    <3> QED
      BY <1>4, <2>1, <3>1, <3>2
  <2>4. \A s \in Requests : Sent(s)' /\ req'[s].key = k => req'[s].body = b
    BY <1>4, <1>7, <2>1
  <2> QED
    BY <1>1, <2>2, <2>3, <2>4 DEF OneBody
<1>9. NoConflict'
  BY <1>1, <1>4 DEF ClientInv, NoConflict, NoKeyConflicts
<1>10. \A s \in Requests : outcomes[s] = "confirmed" => s # r /\ req[s].key # k
  <2> SUFFICES ASSUME NEW s \in Requests, outcomes[s] = "confirmed"
               PROVE  s # r /\ req[s].key # k
    OBVIOUS
  <2>1. /\ req[s].phase = "answered" /\ Sent(s) /\ req[s].key \in used
        /\ stored # Nobody => req[s].key # stored
    BY DEF ClientInv, ConfirmedOK, KeysUsed, Sent
  <2> QED
    BY <1>1, <2>1 DEF KeyFor
<1>11. ConfirmedOK' /\ (Submitting => Sent(sent))'
  BY <1>1, <1>4, <1>10 DEF ClientInv, ConfirmedOK, Submitting, Sent
<1> QED
  BY <1>3, <1>5, <1>6, <1>8, <1>9, <1>11 DEF ClientInv

\* A step of the operation that sends nothing: what it must show of its own.
LEMMA LocalStepInv ==
  ASSUME ClientInv, UNCHANGED vars, used' = used, sent' = Nobody,
         fingerprint' \in Bodies \cup {Nobody}, outcomes' \in [Requests -> Statuses],
         stored' = Nobody \/ (stored' = stored /\ fingerprint' = fingerprint),
         \A r \in Requests : outcomes'[r] = "confirmed" =>
           /\ req[r].phase = "answered" /\ req[r].reply.kind = "created"
           /\ stored' # Nobody => req[r].key # stored',
         \A r, s \in Requests :
           outcomes'[r] = "confirmed" /\ outcomes'[s] = "confirmed" /\ req[r].key = req[s].key
             => r = s
  PROVE  ClientInv'
<1>1. IInv' /\ UNCHANGED <<record, req>>
  BY NextIInv DEF ClientInv, vars
<1>2. ClientTypeOK'
  BY <1>1 DEF ClientInv, ClientTypeOK, IInv
<1>3. KeysUsed' /\ NoConflict'
  BY <1>1 DEF ClientInv, KeysUsed, NoConflict, NoKeyConflicts, Sent
<1>4. OneBody'
  BY <1>1 DEF ClientInv, OneBody, Sent
<1>5. ConfirmedOK' /\ (Submitting => Sent(sent))'
  BY <1>1 DEF ConfirmedOK, Submitting
<1> QED
  BY <1>1, <1>2, <1>3, <1>4, <1>5 DEF ClientInv

LEMMA ConfirmInv ==
  ASSUME ClientInv, Confirm
  PROVE  ClientInv'
<1>1. /\ UNCHANGED vars /\ used' = used /\ sent' = Nobody /\ stored' = Nobody
      /\ fingerprint' = Nobody
      /\ outcomes' = [outcomes EXCEPT ![sent] = "confirmed"]
      /\ Submitting /\ req[sent].phase = "answered" /\ req[sent].reply.kind = "created"
  BY DEF Confirm, Release, Resolve, Answered
<1>2. sent \in Requests /\ outcomes \in [Requests -> Statuses]
  BY <1>1 DEF ClientInv, ClientTypeOK, Submitting
<1>3. outcomes' \in [Requests -> Statuses]
  BY <1>1, <1>2 DEF Statuses
<1>4. \A r \in Requests : outcomes'[r] = "confirmed" =>
        r = sent \/ (outcomes[r] = "confirmed" /\ req[r].key # req[sent].key)
  BY <1>1, <1>2 DEF ClientInv, ConfirmedOK
<1> QED
  BY <1>1, <1>3, <1>4, LocalStepInv DEF ClientInv, ConfirmedOK

LEMMA NotConfirmedInv ==
  ASSUME ClientInv, Rejected \/ Uncertain
  PROVE  ClientInv'
<1>1. /\ UNCHANGED vars /\ used' = used /\ sent' = Nobody
      /\ Submitting
      /\ \/ stored' = Nobody /\ fingerprint' = Nobody
         \/ stored' = stored /\ fingerprint' = fingerprint
      /\ \E o \in {"rejected", "uncertain"} : outcomes' = [outcomes EXCEPT ![sent] = o]
  BY DEF Rejected, Uncertain, Release, Resolve, Answered
<1>2. /\ sent \in Requests /\ outcomes \in [Requests -> Statuses]
      /\ fingerprint \in Bodies \cup {Nobody}
  BY <1>1 DEF ClientInv, ClientTypeOK, Submitting
<1>3. outcomes' \in [Requests -> Statuses]
  BY <1>1, <1>2 DEF Statuses
<1>4. \A r \in Requests : outcomes'[r] = "confirmed" => outcomes[r] = "confirmed"
  BY <1>1, <1>2
<1> QED
  BY <1>1, <1>2, <1>3, <1>4, LocalStepInv DEF ClientInv, ConfirmedOK

LEMMA ForgetInv ==
  ASSUME ClientInv, ClearSession \/ Restart
  PROVE  ClientInv'
<1>1. CASE Restart
  BY <1>1, LocalStepInv DEF Restart, Release, ClientInv, ClientTypeOK, ConfirmedOK
<1>2. CASE ClearSession
  <2>1. /\ UNCHANGED <<vars, fingerprint, sent, used, outcomes>> /\ stored' = Nobody
        /\ UNCHANGED <<record, req>>
    BY <1>2 DEF ClearSession, vars
  <2>2. IInv'
    BY <2>1, NextIInv DEF ClientInv
  <2>3. ClientTypeOK'
    BY <2>1, <2>2 DEF ClientInv, ClientTypeOK, IInv
  <2> QED
    BY <2>1, <2>2, <2>3
    DEF ClientInv, KeysUsed, OneBody, NoConflict, NoKeyConflicts, ConfirmedOK, Submitting, Sent
<1> QED
  BY <1>1, <1>2

LEMMA ClientNextInv == ClientInv /\ [ClientNext]_allVars => ClientInv'
<1> SUFFICES ASSUME ClientInv, [ClientNext]_allVars PROVE ClientInv'
  OBVIOUS
<1>1. CASE Client
  BY <1>1, RunInv, ConfirmInv, NotConfirmedInv, ForgetInv DEF Client
<1>2. CASE Server /\ UNCHANGED clientVars
  BY <1>2, ServerClientInv
<1>3. CASE UNCHANGED allVars
  <2>1. UNCHANGED <<vars, record, req, fingerprint, stored, sent, used, outcomes>>
    BY <1>3 DEF allVars, vars, clientVars
  <2>2. IInv'
    BY <2>1, NextIInv DEF ClientInv
  <2>3. ClientTypeOK'
    BY <2>1, <2>2 DEF ClientInv, ClientTypeOK, IInv
  <2> QED
    BY <2>1, <2>2, <2>3
    DEF ClientInv, KeysUsed, OneBody, NoConflict, NoKeyConflicts, ConfirmedOK, Submitting, Sent
<1> QED
  BY <1>1, <1>2, <1>3 DEF ClientNext

LEMMA ClientSpecInv == ClientSpec => []ClientInv
  BY ClientInitInv, ClientNextInv, PTL DEF ClientSpec

-----------------------------------------------------------------------------
\* Edits, retries, lost answers, sign-outs and restarts never send a key again
\* under another body: no one is told idempotency_conflict (run, KeyFor).
THEOREM KeysNeverConflict == ClientSpec => []NoKeyConflicts
<1>1. ClientInv => NoKeyConflicts
  BY DEF ClientInv, NoConflict
<1> QED
  BY <1>1, ClientSpecInv, PTL

\* What is shown as confirmed was committed as asked, and no two confirmations are
\* of the same operation (FinancialOperation.run, release).
THEOREM ConfirmedIsNew == ClientSpec => []ConfirmationsAreNew
<1>1. ClientInv => ConfirmationsAreNew
  <2> SUFFICES ASSUME ClientInv PROVE ConfirmationsAreNew
    OBVIOUS
  <2>1. ASSUME NEW r \in Requests, outcomes[r] = "confirmed"
        PROVE  \E e \in effects :
                 e.by = req[r].reply.by /\ e.key = req[r].key /\ e.body = req[r].body
    <3>1. req[r].reply.kind = "created" /\ Truth(req[r].reply, req[r].key, req[r].body)
      BY <2>1 DEF ClientInv, ConfirmedOK, IInv, AnswersOK
    <3> QED
      BY <3>1 DEF Truth
  <2>2. \A e \in effects : req[e.by].key = e.key
    BY DEF ClientInv, IInv, EffectOK
  <2>3. ASSUME NEW r \in Requests, NEW s \in Requests,
               outcomes[r] = "confirmed", outcomes[s] = "confirmed",
               req[s].reply.by = req[r].reply.by
        PROVE  s = r
    <3>1. req[r].key = req[s].key
      BY <2>1, <2>2, <2>3
    <3> QED
      BY <2>3, <3>1 DEF ClientInv, ConfirmedOK
  <2> QED
    BY <2>1, <2>3 DEF ConfirmationsAreNew
<1> QED
  BY <1>1, ClientSpecInv, PTL

-----------------------------------------------------------------------------
(* The app is one of the clients the server was proved against.                *)

LEMMA ClientStepIsServerStep ==
  ASSUME ClientInv, [ClientNext]_allVars
  PROVE  [Next]_vars
<1>1. ASSUME NEW r \in Requests, NEW b \in Bodies, Run(r, b)
      PROVE  Next
  <2>1. KeyFor(b) \subseteq Keys
    BY DEF KeyFor, ClientInv, ClientTypeOK
  <2> QED
    BY <1>1, <2>1 DEF Run, Next
<1>2. CASE Confirm \/ Rejected \/ Uncertain \/ ClearSession \/ Restart
  BY <1>2 DEF Confirm, Rejected, Uncertain, ClearSession, Restart
<1>3. CASE Server
  BY <1>3 DEF Next
<1>4. CASE UNCHANGED allVars
  BY <1>4 DEF allVars
<1> QED
  BY <1>1, <1>2, <1>3, <1>4 DEF ClientNext, Client

\* What run() sends are requests of Idempotency: with the app in front of it the
\* filter still decides a key once, applies it at most once in a life and answers
\* what was done.
THEOREM AppKeepsToTheProtocol ==
  ClientSpec => DecidesOnce /\ []AppliedOnce /\ []AnswersAreTrue
<1>1. ClientSpec => Spec
  <2>1. ClientInit => Init
    BY DEF ClientInit
  <2>2. ClientInv /\ [ClientNext]_allVars => [Next]_vars
    BY ClientStepIsServerStep
  <2> QED
    BY <2>1, <2>2, ClientSpecInv, PTL DEF ClientSpec, Spec
<1> QED
  BY <1>1, LayerDecidesOnce, KeyAppliedOnce, AnswersTellTheTruth, PTL
=============================================================================
