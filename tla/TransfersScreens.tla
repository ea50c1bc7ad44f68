-------------------------- MODULE TransfersScreens --------------------------
(***************************************************************************)
(* The transfer flow of App.tsx: the screens Transfers_01 to Transfers_22, *)
(* the effect that sends a confirmed transfer, and its answers.            *)
(***************************************************************************)
EXTENDS AppShell

\* The amount is valid for the balance on screen, and the recipient has a code.
Complete == form.transferDraft = {"recipient", "amount"}

\* setTransferSubmitRequested(false), in most buttons of the flow.
NotRequested == [form EXCEPT !.requested = FALSE]
Leave(n, targets) == At(Transfers(n)) /\ \E s \in targets : NavWith(s, NotRequested)

openTransferFlow ==
  NavWith(Transfers(1), IF Real THEN [NotRequested EXCEPT !.transferDraft = {}]
                        ELSE NotRequested)

\* After a confirmed transfer; only the academic build empties the draft.
leaveAcademicTransferCompletion(target) ==
  NavWith(target, IF mode = "academic" THEN [NotRequested EXCEPT !.transferDraft = {}]
                  ELSE NotRequested)

\* hardwareBackPress on the receipt of the academic build.
BackFromReceipt ==
  /\ mode = "academic" /\ At(Transfers(22))
  /\ leaveAcademicTransferCompletion(Movements(1))

handleTransferSimulatedSuccess == Nav(Transfers(IF Real THEN 14 ELSE 4))

-----------------------------------------------------------------------------
(* Screens.                                                                *)

\* Typing an amount, and on to review the transfer.
Transfers01Screen ==
  \/ Tap(Transfers(1), {Transfers(15), Transfers(2)})
  \/ /\ At(Transfers(1)) /\ Real
     /\ Edit([form EXCEPT !.transferDraft = SymDiff(@, {"amount"})])
  \/ (Real => Complete) /\ Leave(1, {Transfers(3)})

\* A row is chosen; Continue does not look at the amount.
Transfers02Screen ==
  LET chosen == [form EXCEPT !.transferDraft = @ \cup {"recipient"}]
  IN \/ Tap(Transfers(2), {Transfers(1)})
     \/ At(Transfers(2)) /\ form # chosen /\ Edit(chosen)
     \/ At(Transfers(2)) /\ NavWith(Transfers(3), [chosen EXCEPT !.requested = FALSE])

\* Confirm requests the transfer, and the effect below sends it.  Nothing can be
\* tapped while it is requested.
Transfers03Screen ==
  /\ At(Transfers(3))
  /\ \/ /\ Real /\ ~form.requested /\ Complete
        /\ Edit([form EXCEPT !.requested = TRUE, !.consent = {actor}])
     \/ Real /\ ~form.requested /\ Leave(3, {Transfers(1)})
     \/ ~Real /\ handleTransferSimulatedSuccess

Transfers04Screen ==
  \/ Tap(Transfers(4), {Transfers(22)})
  \/ mode # "academic" /\ Tap(Transfers(4), {Movements(1)})
  \/ /\ mode = "academic" /\ At(Transfers(4))
     /\ leaveAcademicTransferCompletion(Wallet(1))

Transfers05Screen == Leave(5, {Transfers(1), Transfers(2)})
Transfers06Screen == Tap(Transfers(6), {Movements(1)})
Transfers07Screen == Leave(7, {Transfers(2), Transfers(15)})
Transfers08Screen == Tap(Transfers(8), {Transfers(22), Movements(1)})
Transfers09Screen == Leave(9, {Movements(1), Transfers(1)})
Transfers10Screen == Leave(10, {Transfers(1), Transfers(15)})
Transfers11Screen == Leave(11, {Transfers(1), Transfers(15)})
Transfers12Screen == Leave(12, {Transfers(15)})
Transfers13Screen == Tap(Transfers(13), {Transfers(15)}) \/ Leave(13, {Transfers(1)})
Transfers14Screen == Tap(Transfers(14), {Movements(1)}) \/ Leave(14, {Transfers(1)})

\* The history, its empty form, its skeleton and its error.
Transfers15Screen == Tap(Transfers(15), {Movements(1), Transfers(19)})
Transfers16Screen == Tap(Transfers(16), {Movements(1), Transfers(1)})
Transfers17Screen == Tap(Transfers(17), {Movements(1)})

\* The retry reloads the history, never the balance.
Transfers18Screen ==
  /\ At(Transfers(18))
  /\ Nav(Movements(1)) \/ attempt("Transfers", Transfers(17))

Transfers19Screen == Tap(Transfers(19), {Transfers(15), Transfers(22)})
Transfers20Screen == Tap(Transfers(20), {Transfers(15)})
Transfers21Screen == Tap(Transfers(21), {Transfers(15)})

\* The receipt, or what its own load makes of Transfers_20, 21, 06, 14 and 13,
\* whose Reintentar loads it again.
Transfers22Screen ==
  /\ At(Transfers(22))
  /\ \/ mode # "academic" /\ Nav(Transfers(19))
     \/ /\ mode = "academic"
        /\ \E target \in {Movements(1), Wallet(1)} : leaveAcademicTransferCompletion(target)
     \/ Real /\ (Nav(Transfers(15)) \/ Nav(Movements(1)))

TransfersSection ==
  \/ Transfers01Screen \/ Transfers02Screen \/ Transfers03Screen \/ Transfers04Screen
  \/ Transfers05Screen \/ Transfers06Screen \/ Transfers07Screen \/ Transfers08Screen
  \/ Transfers09Screen \/ Transfers10Screen \/ Transfers11Screen \/ Transfers12Screen
  \/ Transfers13Screen \/ Transfers14Screen \/ Transfers15Screen \/ Transfers16Screen
  \/ Transfers17Screen \/ Transfers18Screen \/ Transfers19Screen \/ Transfers20Screen
  \/ Transfers21Screen \/ Transfers22Screen \/ BackFromReceipt

-----------------------------------------------------------------------------
(* The effect that sends, and the answer.                                  *)

\* The cleanup of the effect's last run leaves its attempt without a listener.
Seen == [form EXCEPT !.seen = TransferDeps, !.live = FALSE]
Due == realReady /\ screen = Transfers(3) /\ form.requested /\ ~form.attempt

TransferSettles == ~Settled /\ ~Due /\ Edit(Seen)

TransferRefused ==
  /\ ~Settled /\ Due /\ ~Complete
  /\ NavWith(Transfers(5), [Seen EXCEPT !.requested = FALSE])

TransferSent ==
  /\ ~Settled /\ Due /\ Complete
  /\ Submit("transfer", {}, [Seen EXCEPT !.attempt = TRUE, !.live = TRUE,
                                         !.asked = actor \in form.consent, !.consent = {}])

\* Where a failure leads; every other failure to Transfers_13.
FailureScreen ==
  [session |-> 6, not_found |-> 7, conflict |-> 8, insufficient_funds |-> 9,
   limit_exceeded |-> 11, rate_limited |-> 12, validation |-> 5, unavailable |-> 14]

TransferAnswered ==
  \E f \in flight, e \in Common \cup {"short", "locked"} :
    LET ended  == [form EXCEPT !.attempt = FALSE, !.live = FALSE]
        closed == [ended EXCEPT !.requested = FALSE]
        why    == Failure(e)
    IN /\ f.op = "transfer" /\ End(f, e)
       /\ \/ ~(form.live /\ SameActor(f)) /\ form' = ended /\ Unmoved
          \/ /\ form.live /\ SameActor(f) /\ e = "ok"
             /\ \/ \* mapTransfer refuses what was confirmed
                   form' = closed /\ Goto(Transfers(13))
                \/ /\ form' = [closed EXCEPT !.uncertain = FALSE]
                   /\ GotoWith(Transfers(4), "loading", tries)
          \/ /\ form.live /\ SameActor(f) /\ e # "ok" /\ why \in DOMAIN FailureScreen
             /\ form' = closed
             /\ GotoWith(Transfers(FailureScreen[why]),
                         IF why = "insufficient_funds" /\ res = "noBalance" THEN "loading"
                         ELSE res, tries)
          \/ /\ form.live /\ SameActor(f) /\ e # "ok" /\ why \notin DOMAIN FailureScreen
             /\ form' = [closed EXCEPT !.uncertain = (why = "uncertain")]
             /\ GotoWith(Transfers(13), IF why = "uncertain" THEN "loading" ELSE res, tries)

TransferFlow == TransferSettles \/ TransferRefused \/ TransferSent \/ TransferAnswered
=============================================================================
