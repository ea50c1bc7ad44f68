-------------------------- MODULE AnalyticsScreens --------------------------
(***************************************************************************)
(* The analytics of App.tsx: the screens Analytics_01 to Analytics_10.     *)
(* No button of the app leads to them; DEMO's state bar does.              *)
(***************************************************************************)
EXTENDS AppShell

\* BottomNav's Inicio and Movimientos, and the tabs over the screen.
TapOrHome(n, targets) == Tap(Analytics(n), {Movements(1)} \cup {Analytics(k) : k \in targets})

\* A message while loading.
Loaded == Status("Analytics") # "loading"

RetryTo(n, target) == At(Analytics(n)) /\ NavReloading(Analytics(target))

Analytics01Screen == Loaded /\ TapOrHome(1, {2, 5, 8})
Analytics02Screen == TapOrHome(2, {1, 5, 8})
Analytics03Screen == TapOrHome(3, {1, 6, 9})
Analytics04Screen == TapOrHome(4, {1, 7, 10}) \/ RetryTo(4, 1)
Analytics05Screen == Loaded /\ TapOrHome(5, {1, 2, 8})
Analytics06Screen == TapOrHome(6, {3, 5, 9})
Analytics07Screen == TapOrHome(7, {4, 5, 10}) \/ RetryTo(7, 5)
Analytics08Screen == Loaded /\ TapOrHome(8, {1, 2, 5})
Analytics09Screen == TapOrHome(9, {3, 6, 8})
Analytics10Screen == TapOrHome(10, {4, 7, 8}) \/ RetryTo(10, 8)

AnalyticsSection ==
  \/ Analytics01Screen \/ Analytics02Screen \/ Analytics03Screen \/ Analytics04Screen
  \/ Analytics05Screen \/ Analytics06Screen \/ Analytics07Screen \/ Analytics08Screen
  \/ Analytics09Screen \/ Analytics10Screen
=============================================================================
