-------------------------- MODULE RechargesScreens --------------------------
(***************************************************************************)
(* The recharge flow of App.tsx: the screens Recharges_01 to Recharges_10, *)
(* the handler that sends a recharge, and its answers.                     *)
(***************************************************************************)
EXTENDS AppShell

\* Another recharge: a new FinancialOperation, so a new Idempotency-Key, and no
\* result for Recharges_02 to show.
startNewRecharge == NavWith(Recharges(1), [form EXCEPT !.rechargeResult = FALSE])

\* While a recharge, or the balance after it, is awaited there is no second one.
RechargeOps == {"recharge", "recharge.balance"}
\* Mutation: the simulated success of DEMO, in every build.
SimulatedRecharge == NavWith(Recharges(2), [form EXCEPT !.rechargeResult = FALSE])

handleRecharge ==
  \/ ~Real /\ NavWith(Recharges(2), [form EXCEPT !.rechargeResult = FALSE])
  \/ Real /\ focus = "Recharges" /\ Submit("recharge", RechargeOps, form)

-----------------------------------------------------------------------------
(* Screens.                                                                *)

\* Continue, with a valid amount.
Recharges01Screen ==
  \/ Tap(Recharges(1), {Recharges(8)})
  \/ At(Recharges(1)) /\ handleRecharge

Recharges02Screen ==
  \/ Tap(Recharges(2), {Movements(1), Recharges(8)})
  \/ At(Recharges(2)) /\ startNewRecharge

Recharges03Screen == Tap(Recharges(3), {Recharges(1)})
Recharges04Screen == Tap(Recharges(4), {Movements(1)})
Recharges05Screen == Tap(Recharges(5), {Recharges(1), Recharges(8)})
Recharges06Screen == Tap(Recharges(6), {Recharges(8)})
Recharges07Screen == Tap(Recharges(7), {Recharges(1), Movements(1)})

\* Nothing but a message while the list loads.
Recharges08Screen ==
  /\ Status("Recharges") # "loading"
  /\ \/ Tap(Recharges(8), {Movements(1)})
     \/ At(Recharges(8)) /\ startNewRecharge

RechargeEmptyView(n) == Tap(Recharges(n), {Movements(1), Recharges(1)})
Recharges09Screen == RechargeEmptyView(9)
Recharges10Screen == RechargeEmptyView(10)

RechargesSection ==
  \/ Recharges01Screen \/ Recharges02Screen \/ Recharges03Screen \/ Recharges04Screen
  \/ Recharges05Screen \/ Recharges06Screen \/ Recharges07Screen \/ Recharges08Screen
  \/ Recharges09Screen \/ Recharges10Screen

-----------------------------------------------------------------------------
(* Answers.                                                                *)

RechargeFailureScreen ==
  [session |-> 4, validation |-> 3, limit_exceeded |-> 5, rate_limited |-> 6]

\* A confirmed recharge is shown only after the balance is asked for.
RechargeAnswered ==
  \E f \in flight, e \in Common \cup {"locked", "noMethod"} :
    /\ f.op = "recharge" /\ truth' \in Truth(f.op, e)
    /\ Close(f, e, IF e = "ok" /\ Applies(f) THEN {[f EXCEPT !.op = "recharge.balance"]}
                   ELSE {})
    /\ LET why == Failure(e)
       IN \/ (Applies(f) => e \in {"ok", "noMethod"}) /\ Drop
          \/ /\ Applies(f) /\ e \notin {"ok", "noMethod"} /\ UNCHANGED form
             /\ IF why = "uncertain" THEN GotoReloading("Recharges", Recharges(7), tries)
                ELSE Goto(Recharges(IF why \in DOMAIN RechargeFailureScreen
                                    THEN RechargeFailureScreen[why] ELSE 7))

\* The balance, or none, and the user has not gone elsewhere meanwhile.
RechargeBalanceAnswered ==
  \E f \in flight, e \in {"ok", "401", "500"} :
    /\ f.op = "recharge.balance" /\ Close(f, e, {}) /\ truth' = "done"
    /\ \/ ~Applies(f) /\ Drop
       \/ /\ Applies(f)
          /\ form' = [form EXCEPT !.rechargeResult = TRUE]
          /\ GotoReloading("Recharges", Recharges(2), tries)

RechargeFlow == RechargeAnswered \/ RechargeBalanceAnswered
=============================================================================
