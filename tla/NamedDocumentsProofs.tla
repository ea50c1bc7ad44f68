------------------------ MODULE NamedDocumentsProofs ------------------------
(* Names stay unique, for any number of requests and names.                    *)
EXTENDS NamedDocuments, TLAPS

\* Who holds a name: an active document holds its own.
Held == \A d \in Requests : doc[d].active => key[doc[d].name] = d

\* A request that creates: its document is not there yet and its name is reserved.
Creating(r) ==
  /\ req[r].id = r /\ doc[r] = NoDoc
  /\ req[r].phase \in {"reserved", "failed"}
  /\ req[r].existing = NoDoc
  /\ key[req[r].name] = r

\* A request that changes a document: what it read is still so until it writes, and the
\* names it is to delete are of its document.
Changing(r) ==
  LET c == req[r]
  IN  /\ c.existing.name \in Names /\ c.existing.active
      /\ c.phase = "read" => c.op = "update"
      /\ c.phase \in {"read", "failed"} => c.op = "update" /\ c.name # c.existing.name
      /\ c.phase \in {"read", "reserved", "failed"} => doc[c.id] = c.existing
      /\ c.phase \in {"reserved", "failed"} /\ Renames(r) => key[c.name] = c.id
      /\ c.phase = "written" =>
           /\ doc[c.id] = Saved(r) /\ Releases(r)
           /\ key[c.existing.name] = c.id

LiveOK(r) == Live(r) => IF req[r].op = "create" THEN Creating(r) ELSE Changing(r)

Apart == \A r, s \in Requests : Live(r) /\ Live(s) /\ req[r].id = req[s].id => r = s

Unused == \A r \in Requests : req[r].phase = "idle" => doc[r] = NoDoc

Orderly ==
  /\ Held /\ Apart /\ Unused
  /\ \A r \in Requests : LiveOK(r)

\* A request under way is for a document and a name.
Typed == TypeOK /\ \A r \in Requests : Live(r) => req[r].id \in Requests /\ req[r].name \in Names

Inv == Typed /\ (marks \subseteq {"stopped"} => Orderly)
-----------------------------------------------------------------------------
LEMMA InitInv == Init => Inv
  BY NobodyAssumption
  DEF Init, Inv, Typed, TypeOK, Orderly, Held, Apart, Unused, LiveOK, Live, Idle, Calls, Phases,
      Docs, NoDoc, Kinds

\* What a request saves is a document.
LEMMA SavedType ==
  ASSUME Typed, NEW r \in Requests, Live(r)
  PROVE  Saved(r) \in Docs /\ Saved(r) # NoDoc
  BY NobodyAssumption DEF Typed, Saved, Docs, NoDoc, TypeOK, Calls

\* A call whose phase changes keeps the rest.
LEMMA PhaseOf ==
  ASSUME NEW c \in Calls, NEW p \in Phases
  PROVE  /\ [c EXCEPT !.phase = p] \in Calls
         /\ [c EXCEPT !.phase = p] =
              [phase |-> p, op |-> c.op, id |-> c.id, name |-> c.name, existing |-> c.existing]
  BY DEF Calls

LEMMA CreateEffect ==
  ASSUME TypeOK, NEW r \in Requests, NEW n \in Names, Create(r, n)
  PROVE  \E p \in {"reserved", "ended"} :
           /\ req' = [req EXCEPT ![r] = [phase |-> p, op |-> "create", id |-> r, name |-> n,
                                        existing |-> NoDoc]]
           /\ IF p = "reserved" THEN Free(n) /\ key' = [key EXCEPT ![n] = r] ELSE key' = key
<1>1. Creation(r, n) \in Calls
  BY DEF Creation, Calls, Docs, Phases
<1>2. \A p \in Phases : [Creation(r, n) EXCEPT !.phase = p] =
        [phase |-> p, op |-> "create", id |-> r, name |-> n, existing |-> NoDoc]
  BY <1>1, PhaseOf DEF Creation
<1>3. Creation(r, n).id = r /\ Creation(r, n).name = n
  BY DEF Creation
<1> QED
  BY <1>2, <1>3 DEF Create, TryReserveKey, Phases

LEMMA ReserveEffect ==
  ASSUME TypeOK, NEW r \in Requests, ReserveNew(r)
  PROVE  \E p \in {"reserved", "ended"} :
           /\ req' = [req EXCEPT ![r] = [req[r] EXCEPT !.phase = p]]
           /\ IF p = "reserved"
              THEN Free(req[r].name) /\ key' = [key EXCEPT ![req[r].name] = req[r].id]
              ELSE key' = key
  BY DEF ReserveNew, TryReserveKey

LEMMA ReadEffect ==
  ASSUME TypeOK, NEW r \in Requests, NEW id \in Requests, NEW n, NEW op \in {"update", "deactivate"},
         n \in Names \/ n = doc[id].name, Read(r, id, op, n)
  PROVE  /\ n \in Names /\ doc[id].name \in Names
         /\ \E p \in {"read", "reserved"} :
              /\ req' = [req EXCEPT ![r] = [phase |-> p, op |-> op, id |-> id, name |-> n,
                                           existing |-> doc[id]]]
              /\ p = "read" <=> op = "update" /\ n # doc[id].name
  BY DEF Read, TypeOK, Docs

LEMMA TypeNext == Typed /\ [Next]_vars => Typed'
<1> SUFFICES ASSUME Typed, [Next]_vars PROVE Typed'
  OBVIOUS
<1>1. CASE UNCHANGED vars
  BY <1>1 DEF vars, Typed, TypeOK, Live
<1>2. CASE Next
  <2>0. kind' \in Kinds
    BY <1>2 DEF Next, Typed, TypeOK
  <2>1. ASSUME NEW r \in Requests, NEW n \in Names, Create(r, n)
        PROVE  Typed'
    BY <2>0, <2>1, CreateEffect DEF Create, Typed, TypeOK, Calls, Phases, Docs, Live
  <2>2. ASSUME NEW r \in Requests, NEW id \in Requests, NEW n,
               NEW op \in {"update", "deactivate"},
               n \in Names \/ n = doc[id].name, Read(r, id, op, n)
        PROVE  Typed'
    <3>1. n \in Names /\ \E p \in {"read", "reserved"} :
            req' = [req EXCEPT ![r] = [phase |-> p, op |-> op, id |-> id, name |-> n,
                                       existing |-> doc[id]]]
      BY <2>2, ReadEffect DEF Typed
    <3> QED
      BY <2>0, <2>2, <3>1 DEF Read, Typed, TypeOK, Calls, Phases, Live
  <2>3. ASSUME NEW r \in Requests, NEW p \in Phases, Live(r),
               req' = [req EXCEPT ![r].phase = p],
               doc' = doc \/ doc' = [doc EXCEPT ![req[r].id] = Saved(r)],
               key' \in [Names -> Requests \cup {Nobody}],
               marks' \subseteq marks \cup {"stopped", "blurred"}
        PROVE  Typed'
    <3>1. doc' \in [Requests -> Docs]
      BY <2>3, SavedType DEF Typed, TypeOK
    <3>2. /\ req' \in [Requests -> Calls]
          /\ \A s \in Requests : req'[s].id = req[s].id /\ req'[s].name = req[s].name
          /\ \A s \in Requests : s # r => req'[s] = req[s]
      BY <2>3 DEF Typed, TypeOK, Calls
    <3> QED
      BY <2>0, <2>3, <3>1, <3>2 DEF Typed, TypeOK, Live
  <2>4. ASSUME NEW r \in Requests, Continue(r)
        PROVE  Typed'
    <3>1. CASE ReserveNew(r)
      BY <2>3, <3>1 DEF ReserveNew, TryReserveKey, Live, Phases, Typed, TypeOK, Calls
    <3>2. CASE Write(r)
      BY <2>3, <3>2 DEF Write, Live, Phases, Typed, TypeOK
    <3>3. CASE WriteThrows(r)
      BY <2>3, <3>3 DEF WriteThrows, Live, Phases, Typed, TypeOK
    <3>4. CASE Compensate(r) \/ ReleaseOld(r)
      BY <2>3, <3>4 DEF Compensate, ReleaseOld, End, Live, Phases, Typed, TypeOK
    <3>5. CASE Stop(r)
      BY <2>3, <3>5 DEF Stop, End, Phases, Typed, TypeOK
    <3> QED
      BY <2>4, <3>1, <3>2, <3>3, <3>4, <3>5 DEF Continue
  <2> QED
    BY <1>2, <2>1, <2>2, <2>4
    DEF Next, Begin, CreateCategory, CreateGoal, UpdateCategory, UpdateGoal, Deactivate
<1> QED
  BY <1>1, <1>2

-----------------------------------------------------------------------------
\* What is so of a live request stays so while its document does and no key of its
\* document changes hands.
LEMMA LiveFrame ==
  ASSUME NEW s \in Requests, Typed, LiveOK(s), req'[s] = req[s],
         Live(s) => doc'[req[s].id] = doc[req[s].id],
         Live(s) => \A n \in Names : key[n] = req[s].id => key'[n] = key[n]
  PROVE  LiveOK(s)'
<1> SUFFICES ASSUME Live(s) PROVE LiveOK(s)'
  BY DEF LiveOK, Live
<1>1. req[s].id \in Requests /\ req[s].name \in Names
  BY DEF Typed
<1>2. CASE req[s].op = "create"
  BY <1>1, <1>2 DEF LiveOK, Live, Creating
<1>3. CASE req[s].op # "create"
  BY <1>1, <1>3 DEF LiveOK, Live, Changing, Saved, Renames, Releases
<1> QED
  BY <1>2, <1>3

\* A step of request r on document id: the others see nothing of it.
LEMMA StepOrderly ==
  ASSUME Typed, Orderly, NEW r \in Requests, NEW id \in Requests,
         \A s \in Requests \ {r} : req'[s] = req[s] /\ (Live(s) => req[s].id # id),
         \A d \in Requests \ {id} : doc'[d] = doc[d],
         \A n \in Names : key'[n] # key[n] => key[n] \in {Nobody, id},
         req'[r].phase # "idle",
         Live(r)' => req'[r].id = id,
         doc'[id] = doc[id] \/ req[id].phase # "idle",
         doc'[id].active => key'[doc'[id].name] = id,
         LiveOK(r)'
  PROVE  Orderly'
<1>1. Held'
  <2> SUFFICES ASSUME NEW d \in Requests, d # id, doc[d].active PROVE key'[doc[d].name] = d
    BY DEF Held
  <2>1. key[doc[d].name] = d /\ doc[d].name \in Names
    BY DEF Orderly, Held, Typed, TypeOK, Docs, NoDoc
  <2> QED
    BY <2>1, NobodyAssumption
<1>2. Apart'
  BY DEF Orderly, Apart, Live
<1>3. Unused'
  BY DEF Orderly, Unused
<1>4. ASSUME NEW s \in Requests PROVE LiveOK(s)'
  <2>1. CASE s # r
    <3>1. Live(s) => req[s].id \in Requests
      BY DEF Typed
    <3> QED
      BY <2>1, <3>1, LiveFrame, NobodyAssumption DEF Orderly
  <2> QED
    BY <2>1
<1> QED
  BY <1>1, <1>2, <1>3, <1>4 DEF Orderly

\* A live request that does not create has its document.
LEMMA LiveDoc ==
  ASSUME Typed, Orderly, NEW s \in Requests, Live(s), req[s].op # "create"
  PROVE  doc[req[s].id] # NoDoc
<1>1. req[s].name \in Names /\ Changing(s)
  BY DEF Typed, Orderly, LiveOK
<1> QED
  BY <1>1, NobodyAssumption DEF Changing, Saved, NoDoc, Live

LEMMA CreateOrderly ==
  ASSUME Typed, Orderly, NEW r \in Requests, NEW n \in Names, Create(r, n)
  PROVE  Orderly'
<1>1. req[r].phase = "idle" /\ doc[r] = NoDoc /\ doc' = doc
  BY DEF Create, Orderly, Unused
<1>2. \A s \in Requests \ {r} : Live(s) => req[s].id # r
  BY <1>1, LiveDoc DEF Orderly, LiveOK, Creating
<1>3. PICK p \in {"reserved", "ended"} :
        /\ req' = [req EXCEPT ![r] = [phase |-> p, op |-> "create", id |-> r, name |-> n,
                                     existing |-> NoDoc]]
        /\ IF p = "reserved" THEN Free(n) /\ key' = [key EXCEPT ![n] = r] ELSE key' = key
  BY CreateEffect DEF Typed
<1>4. /\ req'[r] = [phase |-> p, op |-> "create", id |-> r, name |-> n, existing |-> NoDoc]
      /\ \A s \in Requests \ {r} : req'[s] = req[s]
  BY <1>3 DEF Typed, TypeOK
<1>5. /\ p = "reserved" => key'[n] = r
      /\ \A m \in Names : key'[m] # key[m] => key[m] = Nobody
  BY <1>3 DEF Typed, TypeOK, Free
<1>6. LiveOK(r)'
  BY <1>1, <1>4, <1>5 DEF LiveOK, Live, Creating
<1>7. ~doc'[r].active
  BY <1>1 DEF NoDoc
<1> QED
  BY <1>1, <1>2, <1>4, <1>5, <1>6, <1>7, StepOrderly

LEMMA ReadOrderly ==
  ASSUME Typed, Orderly, NEW r \in Requests, NEW id \in Requests, NEW n,
         NEW op \in {"update", "deactivate"}, n \in Names \/ n = doc[id].name,
         Read(r, id, op, n), marks' \subseteq {"stopped"}
  PROVE  Orderly'
<1>1. /\ \A s \in Requests : Live(s) => req[s].id # id
      /\ doc[id].active /\ doc[id] # NoDoc /\ doc' = doc /\ key' = key
  BY DEF Read
<1>2. PICK p \in {"read", "reserved"} :
        /\ n \in Names /\ doc[id].name \in Names
        /\ req' = [req EXCEPT ![r] = [phase |-> p, op |-> op, id |-> id, name |-> n,
                                     existing |-> doc[id]]]
        /\ p = "read" <=> op = "update" /\ n # doc[id].name
  BY ReadEffect DEF Typed
<1>3. /\ req'[r] = [phase |-> p, op |-> op, id |-> id, name |-> n, existing |-> doc[id]]
      /\ \A s \in Requests \ {r} : req'[s] = req[s]
  BY <1>2 DEF Typed, TypeOK
<1>4. LiveOK(r)'
  BY <1>1, <1>2, <1>3 DEF LiveOK, Changing, Renames
<1>5. key'[doc'[id].name] = id
  BY <1>1 DEF Orderly, Held
<1> QED
  BY <1>1, <1>3, <1>4, <1>5, StepOrderly

\* What a request that goes on knows of itself and of the others.
LEMMA LiveFacts ==
  ASSUME Typed, Orderly, NEW r \in Requests, Live(r)
  PROVE  /\ req[r] \in Calls /\ req[r].id \in Requests /\ req[r].name \in Names
         /\ IF req[r].op = "create" THEN Creating(r) ELSE Changing(r)
         /\ \A s \in Requests \ {r} : Live(s) => req[s].id # req[r].id
         /\ req[req[r].id].phase # "idle"
<1>1. /\ req[r] \in Calls /\ req[r].id \in Requests /\ req[r].name \in Names
      /\ IF req[r].op = "create" THEN Creating(r) ELSE Changing(r)
  BY DEF Typed, TypeOK, Orderly, LiveOK
<1>2. \A s \in Requests \ {r} : Live(s) => req[s].id # req[r].id
  BY DEF Orderly, Apart
<1>3. req[req[r].id].phase # "idle"
  BY <1>1, LiveDoc DEF Orderly, Unused, Creating, Live
<1> QED
  BY <1>1, <1>2, <1>3

\* The phase of r is all that changes of it.
LEMMA PhaseStep ==
  ASSUME Typed, NEW r \in Requests, NEW p \in Phases, req' = [req EXCEPT ![r].phase = p]
  PROVE  /\ req'[r].phase = p /\ req'[r].op = req[r].op /\ req'[r].id = req[r].id
         /\ req'[r].name = req[r].name /\ req'[r].existing = req[r].existing
         /\ \A s \in Requests \ {r} : req'[s] = req[s]
  BY DEF Typed, TypeOK, Calls

LEMMA ReserveOrderly ==
  ASSUME Typed, Orderly, NEW r \in Requests, ReserveNew(r)
  PROVE  Orderly'
<1>1. Live(r) /\ req[r].phase = "read" /\ doc' = doc
  BY DEF ReserveNew, Live
<1>2. PICK p \in {"reserved", "ended"} :
        /\ req' = [req EXCEPT ![r].phase = p]
        /\ IF p = "reserved"
           THEN Free(req[r].name) /\ key' = [key EXCEPT ![req[r].name] = req[r].id]
           ELSE key' = key
  BY ReserveEffect DEF Typed
<1>3. /\ p = "reserved" => key'[req[r].name] = req[r].id
      /\ \A m \in Names : key'[m] # key[m] => key[m] = Nobody
  BY <1>1, <1>2, LiveFacts DEF Typed, TypeOK, Free
<1>4. /\ Changing(r) /\ req[r].op = "update"
      /\ doc[req[r].id] = req[r].existing /\ req[r].existing.active
      /\ req[r].existing.name \in Names
  BY <1>1, LiveFacts DEF Creating, Changing
<1>5. LiveOK(r)'
  BY <1>1, <1>2, <1>3, <1>4, PhaseStep DEF LiveOK, Live, Changing, Phases
<1>6. key'[doc'[req[r].id].name] = req[r].id
  <2>1. key[req[r].existing.name] = req[r].id
    BY <1>1, <1>4, LiveFacts DEF Orderly, Held
  <2> QED
    BY <1>1, <1>3, <1>4, <2>1, LiveFacts, NobodyAssumption
<1> QED
  BY <1>1, <1>2, <1>3, <1>5, <1>6, LiveFacts, PhaseStep, StepOrderly DEF Phases

LEMMA WriteOrderly ==
  ASSUME Typed, Orderly, NEW r \in Requests, Write(r)
  PROVE  Orderly'
<1> DEFINE id == req[r].id
<1>1. Live(r) /\ req[r].phase = "reserved" /\ key' = key
  BY DEF Write, Live
<1>2. PICK p \in {"written", "ended"} :
        req' = [req EXCEPT ![r].phase = p] /\ (p = "written" <=> Releases(r))
  BY DEF Write
<1>3. id \in Requests /\ doc'[id] = Saved(r) /\ \A d \in Requests \ {id} : doc'[d] = doc[d]
  BY <1>1, LiveFacts DEF Write, Typed, TypeOK
<1>4. Saved(r).active => key[Saved(r).name] = id
  <2>1. CASE req[r].op = "create"
    BY <1>1, <2>1, LiveFacts DEF Creating, Saved
  <2>2. CASE req[r].op = "update" /\ Renames(r)
    BY <1>1, <2>2, LiveFacts DEF Changing, Saved
  <2>3. CASE req[r].op = "update" /\ ~Renames(r)
    <3>1. /\ doc[id] = req[r].existing /\ req[r].existing.active
          /\ req[r].existing.name = req[r].name
      BY <1>1, <2>3, LiveFacts DEF Changing, Renames
    <3>2. key[doc[id].name] = id
      BY <1>3, <3>1 DEF Orderly, Held
    <3> QED
      BY <3>1, <3>2 DEF Saved
  <2> QED
    BY <2>1, <2>2, <2>3 DEF Saved
<1>5. LiveOK(r)'
  <2> SUFFICES ASSUME p = "written" PROVE LiveOK(r)'
    BY <1>1, <1>2, PhaseStep DEF LiveOK, Live, Phases
  <2>1. Releases(r) /\ req[r].op # "create"
    BY <1>2 DEF Releases
  <2>2. /\ req[r].existing.name \in Names /\ req[r].existing.active
        /\ doc[id] = req[r].existing
    BY <1>1, <2>1, LiveFacts DEF Changing
  <2>3. key[req[r].existing.name] = id
    BY <1>3, <2>2 DEF Orderly, Held
  <2>4. /\ req'[r].phase = p /\ req'[r].op = req[r].op /\ req'[r].id = req[r].id
        /\ req'[r].name = req[r].name /\ req'[r].existing = req[r].existing
    BY <1>2, PhaseStep DEF Phases
  <2>5. Saved(r)' = Saved(r) /\ (Releases(r)' <=> Releases(r))
    BY <2>4 DEF Saved, Releases, Renames
  <2> QED
    BY <1>1, <1>3, <2>1, <2>2, <2>3, <2>4, <2>5 DEF LiveOK, Changing
<1>6. req'[r].phase # "idle" /\ req'[r].id = id /\ \A s \in Requests \ {r} : req'[s] = req[s]
  BY <1>2, PhaseStep DEF Phases
<1>7. /\ \A s \in Requests \ {r} : Live(s) => req[s].id # id
      /\ req[id].phase # "idle"
  BY <1>1, LiveFacts
<1>8. doc'[id].active => key'[doc'[id].name] = id
  BY <1>1, <1>3, <1>4
<1> HIDE DEF id
<1> QED
  BY <1>1, <1>3, <1>5, <1>6, <1>7, <1>8, StepOrderly

\* A step that changes no document: its request goes on or ends.
LEMMA QuietStep ==
  ASSUME Typed, Orderly, NEW r \in Requests, Live(r),
         NEW p \in {"failed", "ended"}, req' = [req EXCEPT ![r].phase = p],
         p = "failed" => req[r].phase = "reserved" /\ Renames(r) /\ req[r].op # "deactivate",
         doc' = doc,
         \A n \in Names : key'[n] # key[n] =>
           /\ p = "ended" /\ key[n] = req[r].id
           /\ ~(doc[req[r].id].active /\ doc[req[r].id].name = n)
  PROVE  Orderly'
<1> DEFINE id == req[r].id
<1>1. /\ req'[r].phase = p /\ req'[r].op = req[r].op /\ req'[r].id = req[r].id
      /\ req'[r].name = req[r].name /\ req'[r].existing = req[r].existing
      /\ \A s \in Requests \ {r} : req'[s] = req[s]
  BY PhaseStep DEF Phases
<1>2. \A n \in Names : key'[n] # key[n] => key[n] = id
  OBVIOUS
<1>3. doc'[id].active => key'[doc'[id].name] = id
  <2> SUFFICES ASSUME doc[id].active PROVE key'[doc[id].name] = id
    OBVIOUS
  <2>1. key[doc[id].name] = id /\ doc[id].name \in Names
    BY LiveFacts DEF Orderly, Held, Typed, TypeOK, Docs, NoDoc
  <2> QED
    BY <2>1 DEF Typed, TypeOK
<1>4. LiveOK(r)'
  <2> SUFFICES ASSUME p = "failed" PROVE LiveOK(r)'
    BY <1>1 DEF LiveOK, Live
  <2>1. CASE req[r].op = "create"
    BY <1>1, <2>1, LiveFacts DEF LiveOK, Live, Creating
  <2>2. CASE req[r].op # "create"
    <3>1. req[r].op = "update" /\ Changing(r) /\ key'[req[r].name] = key[req[r].name]
      BY <2>2, LiveFacts DEF Calls
    <3> QED
      BY <1>1, <3>1 DEF LiveOK, Changing, Renames
  <2> QED
    BY <2>1, <2>2
<1>5. /\ \A s \in Requests \ {r} : Live(s) => req[s].id # id
      /\ id \in Requests
  BY LiveFacts
<1> HIDE DEF id
<1> QED
  BY <1>1, <1>2, <1>3, <1>4, <1>5, StepOrderly DEF id

LEMMA ContinueOrderly ==
  ASSUME Typed, Orderly, NEW r \in Requests, Continue(r), marks' \subseteq {"stopped"}
  PROVE  Orderly'
<1>1. CASE ReserveNew(r)
  BY <1>1, ReserveOrderly
<1>2. CASE Write(r)
  BY <1>2, WriteOrderly
<1>3. CASE WriteThrows(r)
  <2>1. Live(r) /\ req[r].phase = "reserved" /\ doc' = doc /\ key' = key
    BY <1>3 DEF WriteThrows, Live
  <2>2. PICK p \in {"failed", "ended"} :
          req' = [req EXCEPT ![r].phase = p] /\ (p = "failed" <=> Renames(r))
    BY <1>3 DEF WriteThrows
  <2>3. Renames(r) => req[r].op # "deactivate"
    BY DEF Renames
  <2> QED
    BY <2>1, <2>2, <2>3, QuietStep
<1>4. CASE Compensate(r)
  <2>1. /\ Live(r) /\ req[r].phase = "failed" /\ doc' = doc
        /\ req' = [req EXCEPT ![r].phase = "ended"]
        /\ key' = [key EXCEPT ![req[r].name] = Nobody]
    BY <1>4 DEF Compensate, End, Live
  <2>2. /\ key[req[r].name] = req[r].id
        /\ ~(doc[req[r].id].active /\ doc[req[r].id].name = req[r].name)
    <3>1. CASE req[r].op = "create"
      BY <2>1, <3>1, LiveFacts DEF Creating, NoDoc
    <3>2. CASE req[r].op # "create"
      <4>1. Changing(r)
        BY <2>1, <3>2, LiveFacts
      <4> QED
        BY <2>1, <4>1 DEF Changing, Renames
    <3> QED
      BY <3>1, <3>2
  <2>3. \A n \in Names : key'[n] # key[n] => n = req[r].name
    BY <2>1 DEF Typed, TypeOK
  <2> QED
    BY <2>1, <2>2, <2>3, QuietStep
<1>5. CASE ReleaseOld(r)
  <2>1. /\ Live(r) /\ req[r].phase = "written" /\ doc' = doc
        /\ req' = [req EXCEPT ![r].phase = "ended"]
        /\ key' = [key EXCEPT ![req[r].existing.name] = Nobody]
    BY <1>5 DEF ReleaseOld, End, Live
  <2>2. /\ key[req[r].existing.name] = req[r].id
        /\ doc[req[r].id] = Saved(r) /\ Releases(r)
    BY <2>1, LiveFacts DEF Creating, Changing
  <2>3. ~(doc[req[r].id].active /\ doc[req[r].id].name = req[r].existing.name)
    <3>1. /\ Saved(r).name = req[r].name
          /\ Saved(r).active => req[r].op \in {"create", "update"}
      BY DEF Saved
    <3>2. req[r].op = "deactivate" \/ req[r].name # req[r].existing.name
      BY <2>2 DEF Releases, Renames
    <3> QED
      BY <2>2, <3>1, <3>2
  <2>4. \A n \in Names : key'[n] # key[n] => n = req[r].existing.name
    BY <2>1 DEF Typed, TypeOK
  <2> QED
    BY <2>1, <2>2, <2>3, <2>4, QuietStep
<1>6. CASE Stop(r)
  <2>1. Live(r) /\ req' = [req EXCEPT ![r].phase = "ended"] /\ doc' = doc /\ key' = key
    BY <1>6 DEF Stop, End
  <2> QED
    BY <2>1, QuietStep
<1> QED
  BY <1>1, <1>2, <1>3, <1>4, <1>5, <1>6 DEF Continue

LEMMA NextOrderly ==
  ASSUME Typed, Orderly, [Next]_vars, marks' \subseteq {"stopped"}
  PROVE  Orderly'
<1>1. CASE UNCHANGED vars
  BY <1>1
  DEF vars, Orderly, Held, Apart, Unused, LiveOK, Live, Creating, Changing, Renames, Saved, Releases
<1>2. CASE Next
  BY <1>2, CreateOrderly, ReadOrderly, ContinueOrderly
  DEF Next, Begin, CreateCategory, CreateGoal, UpdateCategory, UpdateGoal, Deactivate
<1> QED
  BY <1>1, <1>2

\* The marks are never taken back.
LEMMA MarksStay == [Next]_vars => marks \subseteq marks'
  BY DEF Next, vars, Begin, Continue, CreateCategory, CreateGoal, Create, UpdateCategory,
         UpdateGoal, Deactivate, Read, ReserveNew, Write, WriteThrows, Compensate, ReleaseOld, Stop

LEMMA InvIsEnough == Inv => ReservationsProtect
<1> SUFFICES ASSUME Orderly PROVE NamesAreUnique
  BY DEF Inv, ReservationsProtect
<1> QED
  BY DEF Orderly, Held, NamesAreUnique

\* However creations, renames and deactivations interleave, fail or stop, no two active
\* categories (goals) of a client have one name, as long as no two requests change one
\* document together, no deactivated one is changed and no write throws although done.
THEOREM NamesStayUnique == Spec => []ReservationsProtect
<1>1. Inv /\ [Next]_vars => Inv'
  BY TypeNext, NextOrderly, MarksStay DEF Inv
<1> QED
  BY <1>1, InitInv, InvIsEnough, PTL DEF Spec
-----------------------------------------------------------------------------
\* Who is to save a document under a name, to give the name back or to delete it: the
\* request that changes the document the name is reserved for.
Holds(r, n) ==
  /\ Live(r) /\ key[n] = req[r].id
  /\ \/ req[r].phase \in {"reserved", "failed"} /\ n = req[r].name /\ Renames(r)
     \/ req[r].phase = "written" /\ n = req[r].existing.name

InUse(n) == doc[key[n]].active /\ doc[key[n]].name = n

Accounted(n) == Free(n) \/ InUse(n) \/ \E r \in Requests : Holds(r, n)

AllAccounted == \A n \in Names : Accounted(n)

AccountInv == Inv /\ (marks = {} => AllAccounted)

\* A step of request r on document id leaves the names of other documents as they are:
\* what is to be shown is that those of id are accounted for.
LEMMA StepAccounted ==
  ASSUME Typed, AllAccounted, NEW r \in Requests, NEW id \in Requests,
         \A s \in Requests \ {r} : req'[s] = req[s],
         Live(r) => req[r].id = id,
         \A d \in Requests \ {id} : doc'[d] = doc[d],
         \A n \in Names : key'[n] = key[n] \/ key'[n] \in {Nobody, id},
         \A n \in Names : key'[n] = id => Accounted(n)'
  PROVE  AllAccounted'
<1> SUFFICES ASSUME NEW n \in Names, key'[n] = key[n], key[n] \notin {Nobody, id}
             PROVE  Accounted(n)'
  BY DEF AllAccounted, Accounted, Free
<1>1. key[n] \in Requests
  BY DEF Typed, TypeOK
<1>2. CASE InUse(n)
  BY <1>1, <1>2 DEF InUse, Accounted
<1>3. ASSUME NEW s \in Requests, Holds(s, n) PROVE Accounted(n)'
  <2>1. s # r
    BY <1>3 DEF Holds
  <2> QED
    BY <1>3, <2>1 DEF Holds, Live, Renames, Accounted
<1> QED
  BY <1>2, <1>3 DEF AllAccounted, Accounted, Free

\* Whose document it is that a name of id is of: its own or the one request on it.
LEMMA OfDocument ==
  ASSUME Typed, Orderly, AllAccounted, NEW r \in Requests, Live(r),
         NEW n \in Names, key[n] = req[r].id
  PROVE  InUse(n) \/ Holds(r, n)
<1>1. ~Free(n)
  BY NobodyAssumption, LiveFacts DEF Free
<1>2. ASSUME NEW s \in Requests, Holds(s, n) PROVE s = r
  BY <1>2, LiveFacts DEF Holds
<1> QED
  BY <1>1, <1>2 DEF AllAccounted, Accounted
\* A request that ends, or whose write failed, on document id.
LEMMA QuietAccounted ==
  ASSUME Typed, Orderly, AllAccounted, NEW r \in Requests, Live(r),
         NEW p \in {"failed", "ended"}, req' = [req EXCEPT ![r].phase = p], doc' = doc,
         \A n \in Names : key'[n] = key[n] \/ key'[n] = Nobody,
         \A n \in Names : key'[n] # Nobody /\ Holds(r, n) =>
           p = "failed" /\ req[r].phase = "reserved"
  PROVE  AllAccounted'
<1> DEFINE id == req[r].id
<1>1. /\ req'[r].phase = p /\ req'[r].op = req[r].op /\ req'[r].id = id
      /\ req'[r].name = req[r].name /\ req'[r].existing = req[r].existing
      /\ \A s \in Requests \ {r} : req'[s] = req[s]
  BY PhaseStep DEF Phases
<1>2. id \in Requests
  BY LiveFacts
<1>3. ASSUME NEW n \in Names, key'[n] = id PROVE Accounted(n)'
  <2>1. key[n] = id /\ key'[n] # Nobody
    BY <1>2, <1>3, NobodyAssumption
  <2>2. CASE InUse(n)
    BY <1>3, <2>1, <2>2 DEF InUse, Accounted
  <2>3. CASE Holds(r, n)
    BY <1>1, <1>3, <2>1, <2>3 DEF Holds, Live, Renames, Accounted
  <2> QED
    BY <2>1, <2>2, <2>3, OfDocument
<1>4. \A d \in Requests \ {id} : doc'[d] = doc[d]
  OBVIOUS
<1> HIDE DEF id
<1> QED
  BY <1>1, <1>2, <1>3, <1>4, StepAccounted DEF id

LEMMA CreateAccounted ==
  ASSUME Typed, Orderly, AllAccounted, NEW r \in Requests, NEW n \in Names, Create(r, n)
  PROVE  AllAccounted'
<1>1. PICK p \in {"reserved", "ended"} :
        /\ req' = [req EXCEPT ![r] = [phase |-> p, op |-> "create", id |-> r, name |-> n,
                                     existing |-> NoDoc]]
        /\ IF p = "reserved" THEN Free(n) /\ key' = [key EXCEPT ![n] = r] ELSE key' = key
  BY CreateEffect DEF Typed
<1>2. /\ req'[r] = [phase |-> p, op |-> "create", id |-> r, name |-> n, existing |-> NoDoc]
      /\ \A s \in Requests \ {r} : req'[s] = req[s]
  BY <1>1 DEF Typed, TypeOK
<1>3. doc' = doc /\ ~Live(r) /\ doc[r] = NoDoc
  BY DEF Create, Live, Orderly, Unused
<1>4. /\ \A m \in Names : m # n => key'[m] = key[m]
      /\ IF p = "reserved" THEN key'[n] = r ELSE key'[n] = key[n]
  BY <1>1 DEF Typed, TypeOK
<1>5. ASSUME NEW m \in Names, key[m] = r PROVE FALSE
  <2>1. ~Free(m) /\ ~InUse(m)
    BY <1>3, <1>5, NobodyAssumption DEF Free, InUse, NoDoc
  <2>2. PICK s \in Requests : Holds(s, m)
    BY <2>1 DEF AllAccounted, Accounted
  <2>3. s # r /\ Live(s) /\ req[s].id = r
    BY <1>3, <1>5, <2>2 DEF Holds
  <2> QED
    BY <1>3, <2>3, LiveDoc DEF Orderly, LiveOK, Creating
<1>6. ASSUME NEW m \in Names, key'[m] = r PROVE Accounted(m)'
  <2>1. m = n /\ p = "reserved"
    BY <1>4, <1>5, <1>6
  <2> QED
    BY <1>2, <1>6, <2>1, NobodyAssumption DEF Holds, Live, Renames, NoDoc, Accounted
<1> QED
  BY <1>2, <1>3, <1>4, <1>6, StepAccounted

LEMMA ReadAccounted ==
  ASSUME Typed, Orderly, AllAccounted, NEW r \in Requests, NEW id \in Requests, NEW n,
         NEW op \in {"update", "deactivate"}, n \in Names \/ n = doc[id].name,
         Read(r, id, op, n), marks' = {}
  PROVE  AllAccounted'
<1>1. /\ \A s \in Requests : Live(s) => req[s].id # id
      /\ ~Live(r) /\ doc' = doc /\ key' = key
  BY DEF Read, Live
<1>2. \A s \in Requests \ {r} : req'[s] = req[s]
  BY ReadEffect DEF Typed, TypeOK
<1>3. ASSUME NEW m \in Names, key'[m] = id PROVE Accounted(m)'
  <2>1. ~Free(m)
    BY <1>1, <1>3, NobodyAssumption DEF Free
  <2>2. InUse(m)
    BY <1>1, <1>3, <2>1 DEF AllAccounted, Accounted, Holds
  <2> QED
    BY <1>1, <2>2 DEF InUse, Accounted
<1> QED
  BY <1>1, <1>2, <1>3, StepAccounted

LEMMA ReserveAccounted ==
  ASSUME Typed, Orderly, AllAccounted, NEW r \in Requests, ReserveNew(r)
  PROVE  AllAccounted'
<1> DEFINE id == req[r].id
<1>1. Live(r) /\ req[r].phase = "read" /\ doc' = doc
  BY DEF ReserveNew, Live
<1>2. PICK p \in {"reserved", "ended"} :
        /\ req' = [req EXCEPT ![r].phase = p]
        /\ IF p = "reserved"
           THEN Free(req[r].name) /\ key' = [key EXCEPT ![req[r].name] = req[r].id]
           ELSE key' = key
  BY ReserveEffect DEF Typed
<1>3. /\ req'[r].phase = p /\ req'[r].op = req[r].op /\ req'[r].id = id
      /\ req'[r].name = req[r].name /\ req'[r].existing = req[r].existing
      /\ \A s \in Requests \ {r} : req'[s] = req[s]
  BY <1>2, PhaseStep DEF Phases
<1>4. /\ id \in Requests /\ req[r].name \in Names
      /\ req[r].op = "update" /\ Renames(r)
  BY <1>1, LiveFacts DEF Creating, Changing, Renames
<1>5. /\ \A m \in Names : m # req[r].name => key'[m] = key[m]
      /\ IF p = "reserved" THEN key'[req[r].name] = id ELSE key'[req[r].name] = key[req[r].name]
  BY <1>2, <1>4 DEF Typed, TypeOK
<1>6. ASSUME NEW m \in Names, key'[m] = id PROVE Accounted(m)'
  <2>1. CASE m = req[r].name /\ p = "reserved"
    BY <1>3, <1>4, <1>6, <2>1 DEF Holds, Live, Renames, Accounted
  <2>2. CASE ~(m = req[r].name /\ p = "reserved")
    <3>1. key[m] = id
      BY <1>5, <1>6, <2>2
    <3>2. InUse(m)
      BY <1>1, <3>1, OfDocument DEF Holds
    <3> QED
      BY <1>1, <1>6, <3>1, <3>2 DEF InUse, Accounted
  <2> QED
    BY <2>1, <2>2
<1>7. \A m \in Names : key'[m] = key[m] \/ key'[m] \in {Nobody, id}
  BY <1>5
<1> HIDE DEF id
<1> QED
  BY <1>1, <1>3, <1>4, <1>6, <1>7, StepAccounted DEF id

LEMMA WriteAccounted ==
  ASSUME Typed, Orderly, AllAccounted, NEW r \in Requests, Write(r)
  PROVE  AllAccounted'
<1> DEFINE id == req[r].id
<1>1. Live(r) /\ req[r].phase = "reserved" /\ key' = key
  BY DEF Write, Live
<1>2. PICK p \in {"written", "ended"} :
        req' = [req EXCEPT ![r].phase = p] /\ (p = "written" <=> Releases(r))
  BY DEF Write
<1>3. /\ req'[r].phase = p /\ req'[r].op = req[r].op /\ req'[r].id = id
      /\ req'[r].name = req[r].name /\ req'[r].existing = req[r].existing
      /\ \A s \in Requests \ {r} : req'[s] = req[s]
  BY <1>2, PhaseStep DEF Phases
<1>4. id \in Requests /\ doc'[id] = Saved(r) /\ \A d \in Requests \ {id} : doc'[d] = doc[d]
  BY <1>1, LiveFacts DEF Write, Typed, TypeOK
<1>5. /\ Saved(r).name = req[r].name
      /\ req[r].op = "create" => Saved(r).active
      /\ req[r].op = "update" /\ req[r].existing.active => Saved(r).active
  BY DEF Saved
<1>6. ASSUME NEW n \in Names, key'[n] = id PROVE Accounted(n)'
  <2>0. key[n] = id
    BY <1>1, <1>6
  <2>1. req[r].op \in {"create", "update"} => Saved(r).active
    BY <1>1, <1>5, LiveFacts DEF Changing
  <2>2. req[r].op \in {"create", "update", "deactivate"}
    BY <1>1, LiveFacts DEF Calls
  <2>3. CASE Holds(r, n)
    <3>1. n = req[r].name /\ req[r].op # "deactivate"
      BY <1>1, <2>3 DEF Holds, Renames
    <3> QED
      BY <1>4, <1>5, <1>6, <2>1, <2>2, <3>1 DEF InUse, Accounted
  <2>4. CASE InUse(n)
    <3>1. req[r].op # "create"
      BY <1>1, <2>0, <2>4, LiveFacts DEF Creating, InUse, NoDoc
    <3>2. n = req[r].existing.name
      BY <1>1, <2>0, <2>4, <3>1, LiveFacts DEF Changing, InUse
    <3>3. CASE p = "written"
      BY <1>3, <1>6, <3>2, <3>3 DEF Holds, Live, Accounted
    <3>4. CASE p # "written"
      <4>1. req[r].op = "update" /\ req[r].name = n
        BY <1>2, <2>2, <3>1, <3>2, <3>4 DEF Releases, Renames
      <4> QED
        BY <1>4, <1>5, <1>6, <2>1, <4>1 DEF InUse, Accounted
    <3> QED
      BY <3>3, <3>4
  <2> QED
    BY <1>1, <2>0, <2>3, <2>4, OfDocument
<1> HIDE DEF id
<1> QED
  BY <1>1, <1>3, <1>4, <1>6, StepAccounted DEF id

LEMMA ContinueAccounted ==
  ASSUME Typed, Orderly, AllAccounted, NEW r \in Requests, Continue(r), marks' = {}
  PROVE  AllAccounted'
<1>1. CASE ReserveNew(r)
  BY <1>1, ReserveAccounted
<1>2. CASE Write(r)
  BY <1>2, WriteAccounted
<1>3. CASE WriteThrows(r)
  <2>1. Live(r) /\ req[r].phase = "reserved" /\ doc' = doc /\ key' = key
    BY <1>3 DEF WriteThrows, Live
  <2>2. PICK p \in {"failed", "ended"} :
          req' = [req EXCEPT ![r].phase = p] /\ (p = "failed" <=> Renames(r))
    BY <1>3 DEF WriteThrows
  <2>3. \A n \in Names : Holds(r, n) => Renames(r)
    BY <2>1 DEF Holds
  <2> QED
    BY <2>1, <2>2, <2>3, QuietAccounted
<1>4. CASE Compensate(r)
  <2>1. /\ Live(r) /\ req[r].phase = "failed" /\ doc' = doc
        /\ req' = [req EXCEPT ![r].phase = "ended"]
        /\ key' = [key EXCEPT ![req[r].name] = Nobody]
    BY <1>4 DEF Compensate, End, Live
  <2>2. \A n \in Names : IF n = req[r].name THEN key'[n] = Nobody ELSE key'[n] = key[n]
    BY <2>1 DEF Typed, TypeOK
  <2>3. \A n \in Names : Holds(r, n) => n = req[r].name
    BY <2>1 DEF Holds
  <2> QED
    BY <2>1, <2>2, <2>3, QuietAccounted
<1>5. CASE ReleaseOld(r)
  <2>1. /\ Live(r) /\ req[r].phase = "written" /\ doc' = doc
        /\ req' = [req EXCEPT ![r].phase = "ended"]
        /\ key' = [key EXCEPT ![req[r].existing.name] = Nobody]
    BY <1>5 DEF ReleaseOld, End, Live
  <2>2. \A n \in Names : IF n = req[r].existing.name THEN key'[n] = Nobody ELSE key'[n] = key[n]
    BY <2>1 DEF Typed, TypeOK
  <2>3. \A n \in Names : Holds(r, n) => n = req[r].existing.name
    BY <2>1 DEF Holds
  <2> QED
    BY <2>1, <2>2, <2>3, QuietAccounted
<1>6. ~Stop(r)
  BY DEF Stop
<1> QED
  BY <1>1, <1>2, <1>3, <1>4, <1>5, <1>6 DEF Continue

LEMMA NextAccounted ==
  ASSUME Typed, Orderly, AllAccounted, [Next]_vars, marks' = {}
  PROVE  AllAccounted'
<1>1. CASE UNCHANGED vars
  BY <1>1 DEF vars, AllAccounted, Accounted, Free, InUse, Holds, Live, Renames
<1>2. CASE Next
  BY <1>2, CreateAccounted, ReadAccounted, ContinueAccounted
  DEF Next, Begin, CreateCategory, CreateGoal, UpdateCategory, UpdateGoal, Deactivate
<1> QED
  BY <1>1, <1>2

LEMMA AccountIsEnough == AccountInv => NoNameIsLost
  BY DEF AccountInv, NoNameIsLost, AllAccounted, Accounted, InUse, Holds

\* A key of a name is never left over by requests that compete, fail or are refused: it
\* is of a document in use or of a request that is to save, rename or give it back.
THEOREM NoReservationIsLost == Spec => []NoNameIsLost
<1>1. Init => AccountInv
  BY InitInv DEF AccountInv, AllAccounted, Accounted, Free, Init
<1>2. AccountInv /\ [Next]_vars => AccountInv'
  <2> SUFFICES ASSUME AccountInv, [Next]_vars PROVE AccountInv'
    OBVIOUS
  <2>1. Inv'
    BY TypeNext, NextOrderly, MarksStay DEF AccountInv, Inv
  <2>2. marks' = {} => AllAccounted'
    BY NextAccounted, MarksStay DEF AccountInv, Inv
  <2> QED
    BY <2>1, <2>2 DEF AccountInv
<1> QED
  BY <1>1, <1>2, AccountIsEnough, PTL DEF Spec
=============================================================================
