-------------------------- MODULE MovementsScreens --------------------------
(***************************************************************************)
(* The movements list of App.tsx and its screens.                          *)
(***************************************************************************)
EXTENDS AppShell

\* handleSelectMovement leads to the detail; the list can be loaded anew.
Movements01Screen ==
  \/ Tap(Movements(1), {Movements(4), Movements(5)} \cup BottomTabs)
  \/ Real /\ At(Movements(1)) /\ NavReloading(Movements(1))

Movements02Screen == Tap(Movements(2), {Movements(4), Recharges(1)} \cup BottomTabs)
Movements03Screen == Tap(Movements(3), {Movements(4)} \cup BottomTabs)
Movements04Screen == Tap(Movements(4), {Movements(1)})

\* The receipt, when the movement is a transfer of the loaded history.
Movements05Screen ==
  \/ Tap(Movements(5), {Movements(1)})
  \/ Real /\ Tap(Movements(5), {Transfers(22)})

Movements06Screen == Tap(Movements(6), {Movements(1)})
Movements07Screen == Tap(Movements(7), {Movements(1)})

Movements08Screen ==
  \/ Tap(Movements(8), BottomTabs)
  \/ At(Movements(8)) /\ attempt("Movements", Movements(3))

MovementsSection ==
  \/ Movements01Screen \/ Movements02Screen \/ Movements03Screen \/ Movements04Screen
  \/ Movements05Screen \/ Movements06Screen \/ Movements07Screen \/ Movements08Screen
=============================================================================
