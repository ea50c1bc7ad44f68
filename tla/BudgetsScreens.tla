--------------------------- MODULE BudgetsScreens ---------------------------
(***************************************************************************)
(* The budgets of App.tsx: the screens Budgets_01 to Budgets_13, and the   *)
(* handlers that create one and change its limit.                          *)
(***************************************************************************)
EXTENDS AppShell

BudgetOp == [create |-> "budgets.create", update |-> "budgets.update"]
BudgetOps == {"budgets.create", "budgets.update"}

\* The draft is kept before anything is checked.
submitBudget(draft) ==
  LET drafted == [form EXCEPT !.budgetDraft = draft]
  IN \/ ~Real /\ NavWith(Budgets(IF draft = "create" THEN 9 ELSE 1), drafted)
     \/ /\ Real /\ draft = "update" /\ ~form.budget
        /\ NavWith(Budgets(1), drafted)
     \/ /\ Real /\ (draft = "update" => form.budget)
        /\ \/ Submitting(BudgetOps) /\ Edit(drafted)
           \/ focus = "Budgets" /\ Submit(BudgetOp[draft], BudgetOps, drafted)

handleCreateBudget == submitBudget("create")

handleUpdateBudget ==
  \/ ~form.budget /\ Nav(Budgets(1))
  \/ form.budget /\ submitBudget("update")

retryBudget ==
  \/ form.budgetDraft = "none" /\ Nav(Budgets(1))
  \/ form.budgetDraft # "none" /\ submitBudget(form.budgetDraft)

\* The budget in the way is in the loaded list, or the list is loaded again.
editBudgetFromConflict ==
  \/ Status("Budgets") # "empty" /\ Real /\ NavWith(Budgets(5), [form EXCEPT !.budget = TRUE])
  \/ NavReloading(Budgets(1))

-----------------------------------------------------------------------------
(* Screens.                                                                *)

\* An error is shown with a retry on either of the two.
BudgetsError(s) ==
  /\ Status("Budgets") \in {"failed", "unauthorized"} /\ At(s)
  /\ NavReloading(s) \/ Nav(Movements(1))

Budgets01Screen ==
  \/ BudgetsError(Budgets(1))
  \/ Status("Budgets") \notin {"failed", "unauthorized"}
     /\ \/ Tap(Budgets(1), {Movements(1), Budgets(4)})
        \/ At(Budgets(1)) /\ NavWith(Budgets(5), [form EXCEPT !.budget = TRUE])

Budgets02Screen == Tap(Budgets(2), {Movements(1), Budgets(4)})

Budgets03Screen ==
  \/ BudgetsError(Budgets(3))
  \/ Status("Budgets") \notin {"failed", "unauthorized"} /\ Tap(Budgets(3), {Movements(1)})

Budgets04Screen ==
  \/ Tap(Budgets(4), {Budgets(1)})
  \/ At(Budgets(4)) /\ ~Submitting(BudgetOps) /\ handleCreateBudget

Budgets05Screen ==
  \/ Tap(Budgets(5), {Budgets(1)})
  \/ At(Budgets(5)) /\ ~Submitting(BudgetOps) /\ handleUpdateBudget

Budgets06Screen == Tap(Budgets(6), {Budgets(1), Budgets(5), Cash(3)})
Budgets07Screen == Tap(Budgets(7), {Budgets(6), Budgets(5), Cash(3)})
Budgets08Screen == Tap(Budgets(8), {Budgets(1), Budgets(5), Movements(1)})
Budgets09Screen == Tap(Budgets(9), {Budgets(1), Budgets(4)})

Budgets10Screen ==
  \/ Tap(Budgets(10), {Budgets(1)})
  \/ At(Budgets(10)) /\ editBudgetFromConflict

Budgets11Screen == Tap(Budgets(11), {Budgets(4), Budgets(1)})
Budgets12Screen == Tap(Budgets(12), {Budgets(1)}) \/ (At(Budgets(12)) /\ retryBudget)
Budgets13Screen == Tap(Budgets(13), {Movements(1)})

BudgetsSection ==
  \/ Budgets01Screen \/ Budgets02Screen \/ Budgets03Screen \/ Budgets04Screen
  \/ Budgets05Screen \/ Budgets06Screen \/ Budgets07Screen \/ Budgets08Screen
  \/ Budgets09Screen \/ Budgets10Screen \/ Budgets11Screen \/ Budgets12Screen
  \/ Budgets13Screen

-----------------------------------------------------------------------------
(* Answers.                                                                *)

\* What was done reloads the list, whoever is signed in by then.
BudgetAnswered ==
  \E f \in flight, e \in Common :
    LET why == Failure(e)
    IN /\ f.op \in BudgetOps /\ End(f, e)
       /\ \/ /\ e = "ok" /\ Applies(f)
             /\ form' = [form EXCEPT !.budgetDraft = "none",
                                     !.budget = @ \/ f.op = "budgets.update"]
             /\ GotoReloading("Budgets", Budgets(IF f.op = "budgets.create" THEN 9 ELSE 1), tries)
          \/ /\ e = "ok" /\ ~Applies(f) /\ UNCHANGED form
             /\ GotoReloading("Budgets", screen, tries)
          \/ e # "ok" /\ ~Applies(f) /\ Drop
          \/ /\ e # "ok" /\ Applies(f) /\ why = "not_found"
             /\ form' = [form EXCEPT !.budget = FALSE]
             /\ GotoReloading("Budgets", Budgets(1), tries)
          \/ e # "ok" /\ Applies(f) /\ why \in {"validation", "forbidden"} /\ Drop
          \/ /\ e # "ok" /\ Applies(f) /\ why \notin {"not_found", "validation", "forbidden"}
             /\ Goto(Budgets(CASE why = "session" -> 13 [] why = "conflict" -> 10 [] OTHER -> 12))
             /\ UNCHANGED form
=============================================================================
