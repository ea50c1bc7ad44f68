----------------------------- MODULE CashScreens -----------------------------
(***************************************************************************)
(* The cash register of App.tsx: the screens Cash_01 to Cash_12, and the   *)
(* handler that records an income or an expense.                           *)
(***************************************************************************)
EXTENDS AppShell

CashOp == [income |-> "cash.income", expense |-> "cash.expense"]
CashOps == {"cash.income", "cash.expense"}

\* The draft is kept, and the last result forgotten, before anything is checked.
submitCash(direction) ==
  LET drafted == [form EXCEPT !.cashDraft = direction, !.cashResult = FALSE]
  IN \/ ~Real /\ NavWith(Cash(IF direction = "income" THEN 4 ELSE 5), drafted)
     \/ Real /\ Submitting(CashOps) /\ Edit(drafted)
     \/ Real /\ focus = "Cash" /\ Submit(CashOp[direction], CashOps, drafted)

handleCashSubmit == submitCash(IF screen = Cash(2) THEN "income" ELSE "expense")

retryCash ==
  \/ form.cashDraft = "none" /\ Nav(Cash(1))
  \/ form.cashDraft # "none" /\ submitCash(form.cashDraft)

-----------------------------------------------------------------------------
(* Screens.                                                                *)

\* A message while loading; its error has a retry that stays here.
Cash01Screen ==
  \/ Status("Cash") \in {"failed", "unauthorized"}
     /\ \/ Tap(Cash(1), {Movements(1)})
        \/ At(Cash(1)) /\ NavReloading(Cash(1))
  \/ Status("Cash") \in {"entries", "empty"}
     /\ Tap(Cash(1), {Movements(1), Cash(2), Cash(3), Cash(12)})

\* The form of an income; it cannot be sent while one is being sent.
Cash02Screen ==
  \/ Tap(Cash(2), {Cash(1)})
  \/ At(Cash(2)) /\ ~Submitting(CashOps) /\ handleCashSubmit

Cash03Screen ==
  \/ Tap(Cash(3), {Cash(1)})
  \/ At(Cash(3)) /\ ~Submitting(CashOps) /\ handleCashSubmit

Cash04Screen == Tap(Cash(4), {Cash(1), Cash(2)})
Cash05Screen == Tap(Cash(5), {Cash(1), Cash(3)})
Cash06Screen == Tap(Cash(6), {Cash(3), Cash(1)})
Cash07Screen == Tap(Cash(7), {Cash(3), Cash(2)})
Cash08Screen == Tap(Cash(8), {Movements(1)})
Cash09Screen == Tap(Cash(9), {Cash(3), Categories(3)})
Cash10Screen == Tap(Cash(10), {Cash(1), Cash(3)})
Cash11Screen == Tap(Cash(11), {Cash(1)}) \/ (At(Cash(11)) /\ retryCash)
Cash12Screen == Tap(Cash(12), {Cash(1), Movements(1)})

CashSection ==
  \/ Cash01Screen \/ Cash02Screen \/ Cash03Screen \/ Cash04Screen \/ Cash05Screen
  \/ Cash06Screen \/ Cash07Screen \/ Cash08Screen \/ Cash09Screen \/ Cash10Screen
  \/ Cash11Screen \/ Cash12Screen

-----------------------------------------------------------------------------
(* Answers.                                                                *)

CashFailureScreen(e) ==
  LET why == Failure(e)
  IN CASE why = "session" -> 8
       [] why = "insufficient_funds" -> 7
       [] e = "noCategory" -> 9
       [] why = "conflict" -> 10
       [] why \in {"validation", "forbidden"} -> 0
       [] OTHER -> 11

\* The result and the lists are taken over whoever is signed in by then, and so
\* is the balance that was too low.
CashAnswered ==
  \E f \in flight, e \in Common \cup {"short", "noCategory"} :
    LET to == IF e = "ok" THEN Cash(IF f.op = "cash.income" THEN 4 ELSE 5)
              ELSE IF CashFailureScreen(e) = 0 THEN screen ELSE Cash(CashFailureScreen(e))
        shown == IF Applies(f) THEN to ELSE screen
    IN /\ f.op \in CashOps /\ (e = "short" => f.op = "cash.expense") /\ End(f, e)
       /\ \/ /\ e = "ok"
             /\ form' = [form EXCEPT !.cashResult = TRUE, !.cashDraft = "none"]
             /\ GotoReloading("Cash", shown, tries)
          \/ /\ e = "short" /\ UNCHANGED form
             /\ GotoReloading("Cash", shown, tries)
          \/ /\ e \notin {"ok", "short"} /\ UNCHANGED form
             /\ Goto(shown)
=============================================================================
