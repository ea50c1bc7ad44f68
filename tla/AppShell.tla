----------------------------- MODULE AppShell -----------------------------
(***************************************************************************)
(* MainApp of App.tsx: one screen at a time, the stack behind the hardware *)
(* Back button, the session gate over them, the writes awaiting an answer  *)
(* and the loads whose status moves the user from screen to screen.  The   *)
(* screens of each module are in the modules that extend this one.         *)
(*                                                                         *)
(* A behaviour has one focus: the module whose list may fail to load and   *)
(* whose forms are sent.  The lists of the other modules are taken to load *)
(* at once with entries, and their forms are looked at but not sent.       *)
(***************************************************************************)
EXTENDS AppAnswers, Integers, Sequences, SequencesExt, FiniteSets

CONSTANTS
  Users,      \* who may sign in
  Nobody,     \* no user
  Builds,     \* <<mode, focus>>: a build of the app ("demo", "real", "academic")
              \* and the module a behaviour is about
  MaxBack,    \* bound: the last screens the Back stack remembers, by build
  MaxSends,   \* bound: writes sent in a behaviour, by build
  MaxUpsets   \* bound: Backs, failed loads, lost sessions and demo jumps, by build

VARIABLES
  mode,     \* appConfig.demoModeEnabled / academicModeEnabled
  focus,
  screen,   \* currentState, as <<module, number>>
  history,  \* stateHistoryRef
  gate,     \* sessionGate
  actor,    \* the uid of sessionManager's snapshot
  res,      \* the status of the focus's list, with what its effect tells apart
  form,     \* the focus's drafts, selections and results
  flight,   \* writes without an answer
  tries,    \* the attempts of the focus's useRetryLimiter
  truth,    \* history: what the server did of the write answered in this step
  sends, upsets

build == <<mode, focus>>
vars == <<mode, focus, screen, history, gate, actor, res, form, flight, tries,
          truth, sends, upsets>>

Movements(n)     == <<"Movements", n>>
Beneficiaries(n) == <<"Beneficiaries", n>>
Categories(n)    == <<"Categories", n>>
Transfers(n)     == <<"Transfers", n>>
Recharges(n)     == <<"Recharges", n>>
Cash(n)          == <<"Cash", n>>
Budgets(n)       == <<"Budgets", n>>
Goals(n)         == <<"Goals", n>>
Analytics(n)     == <<"Analytics", n>>
Access(n)        == <<"Access", n>>
Wallet(n)        == <<"Wallet", n>>
Profile(n)       == <<"Profile", n>>
Configuration(n) == <<"Configuration", n>>
Projection(n)    == <<"Projection_Status", n>>

\* AppState: the screens of each module (BeneficiariesState and its like, and
\* MODULE1_SCREEN_COUNTS).
Count == [Movements |-> 8, Beneficiaries |-> 14, Categories |-> 8, Transfers |-> 22,
          Recharges |-> 10, Cash |-> 12, Budgets |-> 13, Goals |-> 13, Analytics |-> 10,
          Access |-> 3, Wallet |-> 9, Profile |-> 9, Configuration |-> 9,
          Projection_Status |-> 5]

AppStates == UNION {{<<m, n>> : n \in 1..Count[m]} : m \in DOMAIN Count}

ASSUME BuildsAssumption ==
  /\ Builds \subseteq {"demo", "real", "academic"} \X (DOMAIN Count \cup {"Module1"})
  /\ \A b \in Builds : MaxBack[b] \in Nat /\ MaxSends[b] \in Nat /\ MaxUpsets[b] \in Nat

\* Bound: what a behaviour visits besides its focus.
Linked == [Movements |-> {"Recharges"}, Beneficiaries |-> {"Transfers"},
           Cash |-> {"Categories"}, Categories |-> {"Budgets"}, Budgets |-> {"Cash"},
           Module1 |-> {"Configuration", "Projection_Status"}]

Visited == {focus, "Movements", "Wallet", "Profile", "Access"} \cup
           (IF focus \in DOMAIN Linked THEN Linked[focus] ELSE {})

Real == mode # "demo"
realReady == Real /\ gate = "ready"

\* MainApp's first render: DEMO starts at Access_01, without a session gate; a
\* build without an API stays at the gate.
Init ==
  /\ \E b \in Builds : mode = b[1] /\ focus = b[2]
  /\ gate \in IF mode = "demo" THEN {"ready"} ELSE {"loading", "configuration"}
  /\ screen = IF mode = "demo" THEN Access(1) ELSE Movements(1)
  /\ history = <<>> /\ actor = Nobody /\ res = "loading" /\ tries = 0
  /\ form = LET draft == IF mode = "demo" THEN {"recipient", "amount"} ELSE {}
            IN [transferDraft |-> draft, requested |-> FALSE, attempt |-> FALSE,
                live |-> FALSE, seen |-> <<screen, FALSE, FALSE, draft>>,
                asked |-> TRUE, consent |-> {}, uncertain |-> FALSE,
                rechargeResult |-> FALSE, beneficiary |-> FALSE, beneficiaryAdded |-> FALSE,
                systemCategory |-> FALSE, cashDraft |-> "none", cashResult |-> FALSE,
                budgetDraft |-> "none", budget |-> FALSE, goalDraft |-> "none",
                goal |-> FALSE]
  /\ flight = {} /\ truth = "none" /\ sends = 0 /\ upsets = 0

-----------------------------------------------------------------------------
(* Effects: where the status of a list moves the user.                     *)

\* useMovements' status, on the list and on its skeleton.
MovementsEffect(s, st) ==
  IF s \notin {Movements(1), Movements(3)} THEN s
  ELSE CASE st = "loading" -> Movements(3)
         [] st = "unauthorized" -> Movements(7)
         [] st = "failed" -> Movements(8)
         [] st = "empty" -> Movements(2)
         [] OTHER -> Movements(1)

BeneficiariesEffect(s, st) ==
  IF s \notin {Beneficiaries(n) : n \in {1, 2, 3, 13}} THEN s
  ELSE CASE st = "loading" -> Beneficiaries(3)
         [] st = "unauthorized" -> Beneficiaries(11)
         [] st = "failed" -> Beneficiaries(13)
         [] st = "empty" -> Beneficiaries(2)
         [] OTHER -> Beneficiaries(1)

\* "noBalance": the balance failed, so the client's own id is unknown and the
\* history is not asked for.
TransfersEffect(s, st) ==
  IF s \notin {Transfers(15), Transfers(17)} THEN s
  ELSE CASE st \in {"noBalance", "failed"} -> Transfers(18)
         [] st = "loading" -> Transfers(17)
         [] st = "unauthorized" -> Transfers(6)
         [] st = "empty" -> Transfers(16)
         [] OTHER -> Transfers(15)

RechargesEffect(s, st) ==
  IF s # Recharges(8) THEN s
  ELSE CASE st = "unauthorized" -> Recharges(4)
         [] st = "failed" -> Recharges(7)
         [] st = "empty" -> Recharges(9)
         [] OTHER -> s

CategoriesEffect(s, st) ==
  IF s = Categories(1) /\ st = "empty" THEN Categories(2) ELSE s

CashEffect(s, st) ==
  IF s = Cash(1) /\ st = "unauthorized" THEN Cash(8) ELSE s

BudgetsEffect(s, st) ==
  IF s \notin {Budgets(1), Budgets(3)} THEN s
  ELSE CASE st = "unauthorized" -> Budgets(13)
         [] st \in {"loading", "failed"} -> Budgets(3)
         [] st = "empty" -> Budgets(2)
         [] OTHER -> Budgets(1)

GoalsEffect(s, st) ==
  IF s # Goals(1) THEN s
  ELSE CASE st = "unauthorized" -> Goals(2)
         [] st = "failed" -> Goals(3)
         [] OTHER -> s

AnalyticsEffect(s, st) ==
  IF s \notin {Analytics(1), Analytics(5), Analytics(8)} THEN s
  ELSE LET login == CASE s[2] = 1 -> 3 [] s[2] = 5 -> 6 [] OTHER -> 9
       IN CASE st = "unauthorized" -> Analytics(login)
            [] st = "failed" -> Analytics(login + 1)
            [] OTHER -> s

\* The effects of the render that shows s, when the focus's list has status st.
Redirect(s, st, ready) ==
  LET status == IF s[1] = focus THEN st ELSE "entries"
  IN IF ~ready THEN s
     ELSE CASE s[1] = "Movements" -> MovementsEffect(s, status)
            [] s[1] = "Beneficiaries" -> BeneficiariesEffect(s, status)
            [] s[1] = "Transfers" -> TransfersEffect(s, status)
            [] s[1] = "Recharges" -> RechargesEffect(s, status)
            [] s[1] = "Categories" -> CategoriesEffect(s, status)
            [] s[1] = "Cash" -> CashEffect(s, status)
            [] s[1] = "Budgets" -> BudgetsEffect(s, status)
            [] s[1] = "Goals" -> GoalsEffect(s, status)
            [] s[1] = "Analytics" -> AnalyticsEffect(s, status)
            [] OTHER -> s

-----------------------------------------------------------------------------
(* Navigation.                                                             *)

\* A screen set twice in a row is rendered once.
Render(path, s) == IF Last(path) = s THEN path ELSE Append(path, s)

\* The stack remembers every screen left; the model the last MaxBack of them.
Newest(stack) == SubSeq(stack, Len(stack) - MaxBack[build] + 1, Len(stack))
Remember(stack) == history' = IF Len(stack) > MaxBack[build] THEN Newest(stack) ELSE stack

\* The renders of one step: each screen of the path is left for the next.
Visit(stack, path) ==
  /\ \A i \in DOMAIN path : path[i][1] \in Visited
  /\ screen' = Last(path)
  /\ Remember(stack \o Front(path))

\* An effect that sees the list loaded resets the limiter of its retries.
Limited == {Movements(1), Movements(3), Transfers(15), Transfers(17)}
Tries(n, s, st) ==
  tries' = IF realReady /\ s \in Limited /\ s[1] = focus /\ st \in {"entries", "empty"}
           THEN 0 ELSE n

\* setCurrentState(s), and the effects of that render.
Goto(s) ==
  /\ Visit(history, Render(Render(<<screen>>, s), Redirect(s, res, realReady)))
  /\ Tries(tries, s, res)
  /\ UNCHANGED res

\* A reload() and setCurrentState(s) in one handler.  The effects of the render
\* they cause still see the old status; the load they start has status st and
\* shows in the next render.
GotoWith(s, st, n) ==
  LET first == Redirect(s, res, realReady)
  IN /\ Visit(history, Render(Render(Render(<<screen>>, s), first),
                                 Redirect(first, st, realReady)))
     /\ Tries(n, s, res)
     /\ res' = st

\* The list of module m is reloaded.  The history of transfers is not asked for
\* while the client's own id is unknown.
GotoReloading(m, s, n) ==
  GotoWith(s, IF focus = m /\ Real /\ res # "noBalance" THEN "loading" ELSE res, n)

\* The transfer effect runs again when one of these changes.
TransferDeps == <<screen, realReady, form.requested, form.transferDraft>>
Settled == focus = "Transfers" /\ Real => form.seen = TransferDeps

\* The screen of a module is what the user sees, and its effects have run.
At(s) == screen = s /\ (mode = "demo" \/ gate = "ready") /\ Settled

Still == UNCHANGED <<mode, focus, gate, actor, flight, sends, upsets>> /\ truth' = "none"

\* What the screens of module m show of its list.
Status(m) == IF Real /\ focus = m THEN res ELSE "entries"

Unmoved == UNCHANGED <<screen, history, tries, res>>

Edit(f) == form' = f /\ Still /\ Unmoved
Nav(s) == Goto(s) /\ Still /\ UNCHANGED form
NavWith(s, f) == Goto(s) /\ form' = f /\ Still
NavReloading(s) == GotoReloading(s[1], s, tries) /\ Still /\ UNCHANGED form

\* useRetryLimiter's attempt, around the reload of an error screen.
MaxTries == 3
\* Mutation: the limiter never gives up.
EndlessAttempt(m, skeleton) ==
  /\ m = focus /\ Still /\ UNCHANGED form
  /\ GotoReloading(m, skeleton, tries + 1)

attempt(m, skeleton) ==
  /\ m = focus /\ Still /\ UNCHANGED form
  /\ \/ tries < MaxTries /\ GotoReloading(m, skeleton, tries + 1)
     \/ tries >= MaxTries /\ GotoWith(Wallet(1), res, 0) \* goHomeAfterRepeatedFailure

\* A button of screen s leads to one of the targets.
Tap(s, targets) == At(s) /\ \E t \in targets : Nav(t)

\* handleBottomTab: resolveBottomTab, and an alert for the assistant.
BottomTabs == {Wallet(1), Movements(1), Profile(1)}

Upset == upsets < MaxUpsets[build] /\ upsets' = upsets + 1

\* hardwareBackPress.  With an empty stack Android closes the app.
Back ==
  /\ history # <<>> /\ Settled /\ Upset
  /\ ~(mode = "academic" /\ screen = Transfers(22))
  /\ LET previous == Last(history)
     IN /\ Visit(Front(history), Render(<<previous>>, Redirect(previous, res, realReady)))
        /\ Tries(tries, previous, res)
  /\ truth' = "none"
  /\ UNCHANGED <<mode, focus, gate, actor, res, form, flight, sends>>

\* Mutation: the bar is shown in every build.
JumpAnywhere ==
  /\ Upset
  /\ \E s \in AppStates : s[1] \in Visited /\ Goto(s)
  /\ truth' = "none"
  /\ UNCHANGED <<mode, focus, gate, actor, form, flight, sends>>

\* DevStateBarMulti: any screen, in DEMO only.
Jump ==
  /\ mode = "demo" /\ Upset
  /\ \E s \in AppStates : s[1] \in Visited /\ Goto(s)
  /\ truth' = "none"
  /\ UNCHANGED <<mode, focus, gate, actor, form, flight, sends>>

-----------------------------------------------------------------------------
(* The session gate, over any screen.                                      *)

\* Where the screen is rendered again with the lists loading anew.
Reenter ==
  /\ gate' = "ready" /\ res' = "loading" /\ tries' = tries
  /\ Visit(history, Render(<<screen>>, Redirect(screen, "loading", TRUE)))

GateFrame == truth' = "none" /\ UNCHANGED <<mode, focus, form, flight, sends>>
NoRender == UNCHANGED <<screen, history, tries>>

\* restore() ends: a session, none, or a provider that cannot say.
Restored ==
  /\ Real /\ gate = "loading"
  /\ \/ \E u \in Users : actor' = u /\ Reenter
     \/ gate' \in {"signed-out", "unavailable", "configuration"}
        /\ NoRender /\ UNCHANGED <<actor, res>>
  /\ GateFrame /\ UNCHANGED upsets

\* handleRetrySession.
RetrySession ==
  /\ gate = "unavailable" /\ Upset
  /\ gate' = "loading"
  /\ NoRender /\ GateFrame /\ UNCHANGED <<actor, res>>

\* SessionGate's form.
SignIn ==
  /\ gate = "signed-out"
  /\ \E u \in Users : actor' = u
  /\ Reenter /\ GateFrame /\ UNCHANGED upsets

\* clearSession: the user is gone at once; the status follows once the stored
\* token is deleted.  Another request's 401, or a refresh that is refused.
LoseSession ==
  /\ realReady /\ actor # Nobody /\ Settled /\ Upset
  /\ actor' = Nobody
  /\ NoRender /\ GateFrame /\ UNCHANGED <<gate, res>>

GateCloses ==
  /\ realReady /\ actor = Nobody /\ Settled
  /\ gate' = "signed-out" /\ res' = "loading"
  /\ NoRender /\ GateFrame /\ UNCHANGED <<actor, upsets>>

Session == Restored \/ RetrySession \/ SignIn \/ LoseSession \/ GateCloses

-----------------------------------------------------------------------------
(* Loads and writes.                                                       *)

\* useApiResource: the list of the focus ends loading.
ListLoads ==
  /\ realReady /\ actor # Nobody /\ Settled /\ res = "loading" /\ focus \in DOMAIN Count
  /\ \/ res' \in {"entries", "empty"} /\ UNCHANGED <<actor, upsets>>
     \/ res' = "failed" /\ Upset /\ UNCHANGED actor
     \/ res' = "noBalance" /\ focus = "Transfers" /\ Upset /\ UNCHANGED actor
     \/ res' = "unauthorized" /\ Upset /\ actor' \in {actor, Nobody}
  /\ Visit(history, Render(<<screen>>, Redirect(screen, res', TRUE)))
  /\ Tries(tries, screen, res')
  /\ truth' = "none"
  /\ UNCHANGED <<mode, focus, gate, form, flight, sends>>

Submitting(ops) == \E f \in flight : f.op \in ops

\* A handler starts a write: from which screen, and as whom.
Start(op) ==
  /\ realReady /\ sends < MaxSends[build]
  /\ sends' = sends + 1
  /\ flight' = flight \cup {[op |-> op, from |-> screen, by |-> actor]}

Submit(op, busy, f) ==
  /\ ~Submitting(busy) /\ Start(op)
  /\ form' = f /\ truth' = "none"
  /\ UNCHANGED <<mode, focus, screen, history, gate, actor, res, tries, upsets>>

\* The writes sent with an Idempotency-Key.
Keyed == {"transfer", "recharge", "cash.income", "cash.expense"}

\* What became of the write at the server.  The filter in front of the keyed writes
\* also answers 409 while the first request with the key runs, or has committed.
Truth(op, e) ==
  CASE e \in {"ok", "garbled"} -> {"done"}
    [] e \in {"500", "503", "network", "timeout"} \/ (e = "409" /\ op \in Keyed) ->
         {"done", "notDone"}
    [] OTHER -> {"notDone"}

\* What any write may end with.
Common == {"ok", "garbled", "400", "401", "403", "404", "409", "422", "429", "500", "503",
           "network", "timeout"}

\* A request ends, and what its handler still awaits takes its place.
\* onUnauthorized clears the session, unless the token it was sent with is no
\* longer the session's.
Close(f, e, next) ==
  /\ Settled
  /\ f.by = Nobody => e \in {"401", "network", "timeout"}
  /\ actor' \in IF e = "401" /\ actor = f.by THEN {actor, Nobody} ELSE {actor}
  /\ flight' = (flight \ {f}) \cup next
  /\ UNCHANGED <<mode, focus, gate, sends, upsets>>

End(f, e) == Close(f, e, {}) /\ truth' \in Truth(f.op, e)

\* actorGuard, and currentStateRef still at the origin.
SameActor(f) == gate = "ready" /\ actor' = f.by
\* Mutation: only the user is compared, not the screen.
AppliesAnywhere(f) == SameActor(f)

Applies(f) == SameActor(f) /\ screen = f.from

\* A late answer, or one that leaves the form as it is.
Drop == Unmoved /\ UNCHANGED form
=============================================================================
