--------------------------- MODULE SessionScreens ---------------------------
(***************************************************************************)
(* What a screen does with its requests: the loads of useApiResource,      *)
(* useMovements and useCashRegister, and the writes of useAsyncAction.     *)
(***************************************************************************)
EXTENDS ClientSession, Sequences, SequencesExt

CONSTANTS
  LastPage,     \* the pages the server has
  LoadNumbers,  \* bound: the numbers of loads, enough to have a free one
  MaxOpen       \* bound: requests at a time, by app

ASSUME LastPageAssumption == LastPage \in Nat \ {0}

VARIABLES
  shown,   \* the screens are rendered, and not the gate
  list,    \* the state of the hook: status, pages and cursor, ...
  form     \* the state of useAsyncAction

screenVars == <<shown, list, form>>

NoList == [status |-> "idle", pages |-> {}, cursor |-> 0, more |-> FALSE, missing |-> {},
           got |-> {}]

ScreensInit == shown = FALSE /\ list = NoList /\ form = "idle"

\* A load has a number no load that left something behind has.
NewLoad == CHOOSE n \in LoadNumbers :
             n # load /\ (\A r \in requests : r.of # n) /\ (\A p \in list.pages : p.load # n)

Request(n, part, page) ==
  [of |-> n, part |-> part, page |-> page, phase |-> "new", gen |-> 0, token |-> NoToken]

\* Bound: the user asks for no more than MaxOpen[app] requests at a time.
Room(n) == Cardinality(requests) + n <= MaxOpen[app]

\* The abort of a load's cleanup ends what is not yet answered; a request that awaits
\* its token sees the abort later, and one whose body is read never does.
Kept == {r \in requests : r.part = "write" \/ r.phase # "sent"}

Ask(rs) ==
  /\ requests' = Kept \cup getAccessToken(rs)
  /\ refreshing' = IF NeedsRefresh THEN refreshWith(session.user, generation) ELSE refreshing

\* The effect of the hook: a load of this screen, or of the next one.
StartLoad(before, parts) ==
  /\ Room(Cardinality(parts)) /\ load' = NewLoad
  /\ Ask({Request(load', part, 1) : part \in parts})
  /\ list' = [before EXCEPT !.status = "loading", !.more = FALSE, !.missing = parts, !.got = {}]

\* Mutation: the gate closes over a list that is kept.
KeptLoad ==
  /\ load' = NewLoad /\ requests' = Kept /\ UNCHANGED <<list, refreshing>>

\* The cleanup of a screen that loads nothing, or of a hook that is not active.
StopLoad ==
  /\ load' = NewLoad /\ requests' = Kept /\ list' = NoList /\ UNCHANGED refreshing

Quiet == UNCHANGED <<session, status, generation, restoring, signing, deletes, device, counts,
                     overtaken>>

loadMore ==
  /\ list.status = "success" /\ list.cursor # 0 /\ ~list.more /\ Room(1)
  /\ list' = [list EXCEPT !.more = TRUE]
  /\ requests' = requests \cup getAccessToken({Request(load, "more", list.cursor)})
  /\ refreshing' = IF NeedsRefresh THEN refreshWith(session.user, generation) ELSE refreshing
  /\ UNCHANGED load

\* The page a request brings, and where the next one starts.
Page(r) == [load |-> r.of, page |-> r.page, by |-> r.token.user]

\* Mutation: the last page has a next one.
EndlessCursor(r) == r.page + 1

Cursor(r) == IF r.page < LastPage THEN r.page + 1 ELSE 0

\* An answer of the present load: all of its parts, or the first failure.
LoadApplied(r, e) ==
  LET got     == list.got \cup (IF r.part = "page" THEN {Page(r)} ELSE {})
      missing == list.missing \ {r.part}
  IN IF e # "ok" THEN [NoList EXCEPT !.status = "error"]
     ELSE IF missing # {} THEN [list EXCEPT !.got = got, !.missing = missing]
     ELSE [NoList EXCEPT !.status = "success", !.pages = got,
                         !.cursor = IF LastPage > 1 THEN 2 ELSE 0]

\* A failed page keeps the pages there are.
MoreApplied(r, e) ==
  IF e # "ok" THEN [list EXCEPT !.more = FALSE]
  ELSE [list EXCEPT !.more = FALSE, !.pages = @ \cup {Page(r)}, !.cursor = Cursor(r)]

\* Mutation: the generation is not compared.
AnyAnswered ==
  /\ \E r \in requests : \E e \in Ends(r) :
       /\ r.part # "write" /\ execute(r, e)
       /\ list' = IF r.part # "more" /\ list.status # "loading" THEN list
                  ELSE IF r.part = "more" THEN MoreApplied(r, e) ELSE LoadApplied(r, e)
  /\ UNCHANGED <<shown, form>>

\* The generation of the hook, or its "active" flag, tells a late answer.
ListAnswered ==
  /\ \E r \in requests : \E e \in Ends(r) :
       /\ r.part # "write" /\ execute(r, e)
       /\ list' = IF r.of # load \/ (r.part # "more" /\ list.status # "loading") THEN list
                  ELSE IF r.part = "more" THEN MoreApplied(r, e) ELSE LoadApplied(r, e)
  /\ UNCHANGED <<shown, form>>

\* useAsyncAction: one write at a time, and its answer only while it is mounted.
Execute ==
  /\ form \in {"idle", "error"} /\ Room(1) /\ form' = "sending"
  /\ requests' = requests \cup getAccessToken({Request(load, "write", 0)})
  /\ refreshing' = IF NeedsRefresh THEN refreshWith(session.user, generation) ELSE refreshing
  /\ Quiet /\ UNCHANGED <<load, shown, list>>

WriteAnswered ==
  /\ \E r \in requests : \E e \in Ends(r) :
       /\ r.part = "write" /\ execute(r, e)
       /\ form' = IF r.of # load THEN form ELSE IF e = "ok" THEN "done" ELSE "error"
  /\ UNCHANGED <<shown, list>>
=============================================================================
