-------------------------------- MODULE App --------------------------------
(***************************************************************************)
(* The client app: MainApp and the screens of all its modules.             *)
(***************************************************************************)
EXTENDS Module1Screens, MovementsScreens, RechargesScreens, BeneficiariesScreens,
        CategoriesScreens, CashScreens, BudgetsScreens, GoalsScreens, AnalyticsScreens

Sections == MovementsSection \/ BeneficiariesSection \/ CategoriesSection \/ TransfersSection
            \/ RechargesSection \/ CashSection \/ BudgetsSection \/ GoalsSection
            \/ AnalyticsSection \/ Module1Section

Answers == BeneficiariesFlow \/ CategoriesFlow \/ RechargeFlow \/ CashAnswered
           \/ BudgetAnswered \/ GoalAnswered

Next == Sections \/ Answers \/ TransferFlow \/ ListLoads \/ Session \/ Back \/ Jump

Spec == Init /\ [][Next]_vars

-----------------------------------------------------------------------------
(* Properties.                                                             *)

\* The variables have their types.
TypeOK ==
  /\ build \in Builds /\ screen \in AppStates
  /\ history \in Seq(AppStates) /\ Len(history) <= MaxBack[build]
  /\ gate \in {"loading", "ready", "signed-out", "unavailable", "configuration"}
  /\ actor \in Users \cup {Nobody}
  /\ res \in {"loading", "entries", "empty", "failed", "unauthorized", "noBalance"}
  /\ \A f \in flight : f.from \in AppStates /\ f.by \in Users \cup {Nobody}
  /\ tries \in 0..MaxTries /\ truth \in {"none", "done", "notDone"}
  /\ sends \in 0..MaxSends[build] /\ upsets \in 0..MaxUpsets[build]
  /\ form.consent \subseteq Users \cup {Nobody}

WentBack == Len(history') < Len(history)
Ended == flight \ flight'

\* An answer moves the user only on the screen, and in the session, in which it was
\* asked for (actorGuard and currentStateRef); otherwise only the load it starts does.
LateAnswersMoveNobody ==
  [][\A f \in Ended : screen' \in {screen, Redirect(screen, "loading", TRUE)}
                      \/ (screen = f.from /\ actor' = f.by)]_vars

Success == {Transfers(4), Recharges(2), Cash(4), Cash(5), Budgets(9), Goals(4), Goals(9),
            Beneficiaries(5), Beneficiaries(10), Categories(5)}

\* Outside DEMO a screen of success is entered only when the server did the write, and
\* by the user who asked for it; Back may show it again (SIMULATED_SUCCESS_STATES).
SuccessIsEarned ==
  [][Real /\ screen' # screen /\ screen' \in Success =>
     WentBack \/ (truth' = "done" /\ \E f \in Ended : f.by = actor')]_vars

\* The screens whose text refuses the write, or says why it cannot be done.  Transfers_08
\* and Cash_10 are none of them: they say that it was done before.
Refusals == {Transfers(5), Transfers(7), Transfers(9), Transfers(11), Transfers(12),
             Recharges(3), Recharges(5), Recharges(6), Cash(7), Cash(9),
             Budgets(10), Goals(7), Goals(12), Beneficiaries(6), Beneficiaries(7),
             Beneficiaries(8), Beneficiaries(9), Categories(6), Categories(7)}

\* An answer that leads to a screen of refusal is of a write the server did not do: a
\* timeout, a 5xx and a 409 that may come from the idempotency filter lead elsewhere.
RefusalsAreTrue ==
  [][\A f \in Ended : screen' # screen /\ screen' \in Refusals => truth' = "notDone"]_vars

\* Transfers_13 without its `uncertain`: "No se descontó dinero" (Transfers13Screen.tsx:39).
DeniesTransfer == screen = Transfers(13) /\ ~form.uncertain

\* "Ante timeout, red o 5xx el resultado es INCIERTO: ... no se presenta la operación como
\* exitosa ni como rechazada" (financialOperation.ts:8): that no money was taken is only
\* said of a transfer the server did not do.
DenialsAreTrue ==
  [][\A f \in Ended : screen' # screen /\ DeniesTransfer' => truth' = "notDone"]_vars

\* The screens that only DEMO shows.
DemoOnly == {s \in AppStates : s[1] \in {"Access", "Configuration", "Projection_Status",
                                             "Analytics"}}

\* Outside DEMO no screen of it is ever shown, nor kept for Back.
NoDemoScreens == Real => ({screen} \cup Range(history)) \cap DemoOnly = {}

\* Every transfer is sent at a tap on Confirmar by the user it is sent as ("una sola vez
\* por intencion", App.tsx:1021).
EverySendWasConfirmed == form.asked
=============================================================================
