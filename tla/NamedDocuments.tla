--------------------------- MODULE NamedDocuments ---------------------------
(***************************************************************************)
(* The names of a client's categories (CategoryService) and goals          *)
(* (GoalService), which are to be unique.  The documents are in Firestore  *)
(* and no transaction covers a request: it reserves the key of the name,   *)
(* writes the document and deletes the key it does not need any more, in   *)
(* calls of their own, and a key is deleted by its name, whoever holds it. *)
(*                                                                         *)
(* One client, one type of category: the keys of others never meet.  Names *)
(* are told apart by NameKey.                                              *)
(***************************************************************************)
EXTENDS FiniteSets

CONSTANTS
  Names,
  Requests,  \* HTTP requests, each used once; also the id drawn by one that creates
  Nobody,
  Faults     \* what goes wrong: "stop", "blur" and "overlap"

ASSUME NobodyAssumption == Nobody \notin Requests /\ Nobody \notin Names

VARIABLES
  kind,   \* the collection
  doc,    \* categories or goals
  key,    \* category_keys or goal_keys: the id in the payload
  req,    \* where each request is
  marks   \* history: what the names have been through

vars == <<kind, doc, key, req, marks>>

Kinds  == {"categories", "goals"}
NoDoc  == [name |-> Nobody, active |-> FALSE]
Docs   == [name : Names, active : BOOLEAN] \cup {NoDoc}

\* "reserved": its new name, if any, is its own; "written": the document is saved and
\* the old key is to go; "failed": the write threw and the new key is to go.
Phases == {"idle", "read", "reserved", "written", "failed", "ended"}
Live(r) == req[r].phase \in {"read", "reserved", "written", "failed"}

\* "existing" is what the request read, "name" what it asks for.
Idle   == [phase |-> "idle", op |-> "create", id |-> Nobody, name |-> Nobody, existing |-> NoDoc]
Calls  == [phase : Phases, op : {"create", "update", "deactivate"},
           id : Requests \cup {Nobody}, name : Names \cup {Nobody}, existing : Docs]

Renames(r) == req[r].op # "deactivate" /\ req[r].name # req[r].existing.name

End(r) == req' = [req EXCEPT ![r].phase = "ended"]

-----------------------------------------------------------------------------
(* TryReserveKeyAsync: a document that is created only if it is not there. *)

\* Mutation: a key without a document is taken for one that was abandoned.
FreeOrAbandoned(n) == \A d \in Requests : ~(doc[d].active /\ doc[d].name = n)

Free(n) == key[n] = Nobody

TryReserveKey(r, call) ==
  \/ /\ Free(call.name)
     /\ key' = [key EXCEPT ![call.name] = call.id]
     /\ req' = [req EXCEPT ![r] = [call EXCEPT !.phase = "reserved"]]
  \/ /\ ~Free(call.name)
     /\ req' = [req EXCEPT ![r] = [call EXCEPT !.phase = "ended"]]
     /\ UNCHANGED key

-----------------------------------------------------------------------------
(* How a request starts.                                                   *)

Creation(r, n) ==
  [phase |-> "idle", op |-> "create", id |-> r, name |-> n, existing |-> NoDoc]

Create(r, n) ==
  /\ req[r].phase = "idle"
  /\ TryReserveKey(r, Creation(r, n))
  /\ UNCHANGED <<doc, marks>>

\* The document a request reads: another request may be about to change it, and it may
\* be a category that was deactivated.
Read(r, id, op, n) ==
  /\ req[r].phase = "idle"
  /\ doc[id] # NoDoc
  /\ "overlap" \in Faults \/ \A s \in Requests : Live(s) => req[s].id # id
  /\ req' = [req EXCEPT ![r] =
               [phase |-> IF op = "update" /\ n # doc[id].name THEN "read" ELSE "reserved",
                op |-> op, id |-> id, name |-> n, existing |-> doc[id]]]
  /\ marks' = marks \cup {m \in {"overlap", "revived"} :
                            \/ m = "overlap" /\ \E s \in Requests : Live(s) /\ req[s].id = id
                            \/ m = "revived" /\ ~doc[id].active}
  /\ UNCHANGED <<doc, key>>

CreateCategory(r, n) == kind = "categories" /\ Create(r, n)
CreateGoal(r, n)     == kind = "goals" /\ Create(r, n)

\* A new name, or the same one: then nothing is reserved.
UpdateCategory(r, id, n) == kind = "categories" /\ Read(r, id, "update", n)
UpdateGoal(r, id, n)     == kind = "goals" /\ Read(r, id, "update", n)

Deactivate(r, id) == kind = "categories" /\ Read(r, id, "deactivate", doc[id].name)

ReserveNew(r) ==
  /\ req[r].phase = "read"
  /\ TryReserveKey(r, req[r])
  /\ UNCHANGED <<doc, marks>>

-----------------------------------------------------------------------------
(* How it goes on.                                                         *)

\* The whole document, from what was read.
Saved(r) ==
  [name |-> req[r].name,
   active |-> req[r].op = "create" \/ (req[r].op = "update" /\ req[r].existing.active)]

\* Whether an old key is to be deleted after the document is saved.
Releases(r) == req[r].op = "deactivate" \/ (req[r].op = "update" /\ Renames(r))

Write(r) ==
  /\ req[r].phase = "reserved"
  /\ doc' = [doc EXCEPT ![req[r].id] = Saved(r)]
  /\ req' = [req EXCEPT ![r].phase = IF Releases(r) THEN "written" ELSE "ended"]
  /\ UNCHANGED <<key, marks>>

\* The write throws, the document saved or not: the call is cancelled when the client
\* goes away, or its answer is lost.
WriteThrows(r) ==
  /\ req[r].phase = "reserved"
  /\ \/ UNCHANGED <<doc, marks>>
     \/ /\ "blur" \in Faults
        /\ doc' = [doc EXCEPT ![req[r].id] = Saved(r)]
        /\ marks' = marks \cup {"blurred"}
  /\ req' = [req EXCEPT ![r].phase = IF Renames(r) THEN "failed" ELSE "ended"]
  /\ UNCHANGED key

\* Mutation: there is no catch.
CompensateNot(r) == req[r].phase = "failed" /\ End(r) /\ UNCHANGED <<doc, key, marks>>

\* The catch blocks.
Compensate(r) ==
  /\ req[r].phase = "failed"
  /\ key' = [key EXCEPT ![req[r].name] = Nobody]
  /\ End(r)
  /\ UNCHANGED <<doc, marks>>

ReleaseOld(r) ==
  /\ req[r].phase = "written"
  /\ key' = [key EXCEPT ![req[r].existing.name] = Nobody]
  /\ End(r)
  /\ UNCHANGED <<doc, marks>>

\* The process stops, or a call outside the try throws: what was done stays done.
Stop(r) ==
  /\ "stop" \in Faults /\ Live(r)
  /\ End(r)
  /\ marks' = marks \cup {"stopped"}
  /\ UNCHANGED <<doc, key>>

-----------------------------------------------------------------------------
Init ==
  /\ kind \in Kinds
  /\ doc = [d \in Requests |-> NoDoc]
  /\ key = [n \in Names |-> Nobody]
  /\ req = [r \in Requests |-> Idle]
  /\ marks = {}

Begin(r) ==
  \/ \E n \in Names : CreateCategory(r, n) \/ CreateGoal(r, n)
  \/ \E id \in Requests, n \in Names : UpdateCategory(r, id, n) \/ UpdateGoal(r, id, n)
  \/ \E id \in Requests : Deactivate(r, id)

Continue(r) ==
  ReserveNew(r) \/ Write(r) \/ WriteThrows(r) \/ Compensate(r) \/ ReleaseOld(r) \/ Stop(r)

Next == (\E r \in Requests : Begin(r) \/ Continue(r)) /\ UNCHANGED kind

Spec == Init /\ [][Next]_vars

-----------------------------------------------------------------------------
(* Properties.                                                             *)

\* Every variable stays within its type.
TypeOK ==
  /\ kind \in Kinds
  /\ doc \in [Requests -> Docs]
  /\ key \in [Names -> Requests \cup {Nobody}]
  /\ req \in [Requests -> Calls]
  /\ marks \subseteq {"overlap", "revived", "blurred", "stopped"}

\* "Nombre unico por propietario y tipo" (CategoriesController.cs): no two active
\* documents have the same name.
NamesAreUnique ==
  \A c, d \in Requests :
    doc[c].active /\ doc[d].active /\ doc[c].name = doc[d].name => c = d

\* Creations and renames that compete for a name, and requests that stop or fail at any
\* call, leave names unique.  Three things do not, and set the states apart: two requests
\* that change one document at the same time, a deactivated category that is changed
\* again, and a write that threw although it was done.
ReservationsProtect == marks \subseteq {"stopped"} => NamesAreUnique

\* A reserved name is in use, or about to be, or about to be given back: failed writes
\* block no name for ever (the catch blocks of the services).
NoNameIsLost ==
  marks = {} =>
    \A n \in Names : ~Free(n) =>
      \/ doc[key[n]].active /\ doc[key[n]].name = n
      \/ \E r \in Requests : Live(r) /\ n \in {req[r].name, req[r].existing.name}
=============================================================================
