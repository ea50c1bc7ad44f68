----------------------------- MODULE AppProofs -----------------------------
(***************************************************************************)
(* Theorems about App.                                                     *)
(***************************************************************************)
EXTENDS App, TLAPS

\* The screens that a build may show, and those that a button may lead to: a
\* real build enters a screen of success only with an answer.
Kept == {s \in AppStates : Real => s \notin DemoOnly}
Good(s) == s \in Kept /\ (Real => s \notin Success)

\* The screens to which an effect moves the user, whatever the list's status.
Landings == {Movements(n) : n \in {1, 2, 3, 7, 8}}
            \cup {Beneficiaries(n) : n \in {1, 2, 3, 11, 13}}
            \cup {Transfers(n) : n \in {6, 15, 16, 17, 18}}
            \cup {Recharges(n) : n \in {4, 7, 9}} \cup {Categories(2), Cash(8)}
            \cup {Budgets(n) : n \in {1, 2, 3, 13}} \cup {Goals(2), Goals(3)}
            \cup {Analytics(n) : n \in {3, 4, 6, 7, 9, 10}}

Statuses == {"loading", "entries", "empty", "failed", "unauthorized", "noBalance"}
Actors == Users \cup {Nobody}

CashDrafts == {"none", "income", "expense"}
BudgetDrafts == {"none", "create", "update"}

\* An attempt has a listener only as long as its effect saw the screen it was
\* sent from.
Draft(f) == /\ {"consent", "live", "seen", "cashDraft", "budgetDraft"} \subseteq DOMAIN f
            /\ f.consent \subseteq Actors
            /\ f.live => f.seen[1] = Transfers(3)
            /\ f.cashDraft \in CashDrafts /\ f.budgetDraft \in BudgetDrafts

InFlight(f) == /\ f = [op |-> f.op, from |-> f.from, by |-> f.by]
               /\ f.from \in AppStates /\ f.by \in Actors
               /\ f.op = "transfer" => focus = "Transfers" /\ Real /\ f.from = Transfers(3)

\* What an effect makes of the screen is already on it.
AtRest == realReady => Redirect(screen, res, TRUE) = screen

\* The parts that the moves of the user change, and the others.
ScreenOK == /\ screen \in Kept /\ history \in Seq(Kept)
            /\ Len(history) <= MaxBack[build]
            /\ res \in Statuses /\ tries \in 0..MaxTries
            /\ AtRest
RestOK == /\ build \in Builds
          /\ gate \in {"loading", "ready", "signed-out", "unavailable", "configuration"}
          /\ actor \in Actors /\ truth \in {"none", "done", "notDone"}
          /\ sends \in 0..MaxSends[build] /\ upsets \in 0..MaxUpsets[build]
          /\ Draft(form)
          /\ \A f \in flight : InFlight(f)
AppInv == ScreenOK /\ RestOK

-----------------------------------------------------------------------------
(* What the properties say of a step.                                      *)

LateStep == \A f \in Ended : \/ screen' \in {screen, Redirect(screen, "loading", TRUE)}
                             \/ screen = f.from /\ actor' = f.by
EarnedStep == Real /\ screen' # screen /\ screen' \in Success =>
                WentBack \/ (truth' = "done" /\ \E f \in Ended : f.by = actor')
TrueStep == \A f \in Ended : screen' # screen /\ screen' \in Refusals => truth' = "notDone"

Keeps == AppInv' /\ LateStep /\ EarnedStep /\ TrueStep

-----------------------------------------------------------------------------
(* The screens.                                                            *)

LEMMA Counts ==
  /\ DOMAIN Count = {"Movements", "Beneficiaries", "Categories", "Transfers", "Recharges",
                     "Cash", "Budgets", "Goals", "Analytics", "Access", "Wallet", "Profile",
                     "Configuration", "Projection_Status"}
  /\ Count["Movements"] = 8 /\ Count["Beneficiaries"] = 14 /\ Count["Categories"] = 8
  /\ Count["Transfers"] = 22 /\ Count["Recharges"] = 10 /\ Count["Cash"] = 12
  /\ Count["Budgets"] = 13 /\ Count["Goals"] = 13 /\ Count["Analytics"] = 10
  /\ Count["Access"] = 3 /\ Count["Wallet"] = 9 /\ Count["Profile"] = 9
  /\ Count["Configuration"] = 9 /\ Count["Projection_Status"] = 5
BY DEF Count

\* A screen is a module and one of its numbers.
LEMMA ScreensOfModules ==
  ASSUME NEW m \in DOMAIN Count, NEW n
  PROVE  <<m, n>> \in AppStates <=> n \in 1..Count[m]
BY Counts DEF AppStates

LEMMA AppStatesArePairs ==
  ASSUME NEW s \in AppStates
  PROVE  /\ s = <<s[1], s[2]>> /\ s[1] \in DOMAIN Count /\ s[2] \in 1..Count[s[1]]
BY DEF AppStates

\* Where any build may lead the user with a button.
LEMMA GoodScreens ==
  /\ \A n \in 1..8 : Good(Movements(n))
  /\ \A n \in 1..14 : n \notin {5, 10} => Good(Beneficiaries(n))
  /\ \A n \in 1..8 : n # 5 => Good(Categories(n))
  /\ \A n \in 1..22 : n # 4 => Good(Transfers(n))
  /\ \A n \in 1..10 : n # 2 => Good(Recharges(n))
  /\ \A n \in 1..12 : n \notin {4, 5} => Good(Cash(n))
  /\ \A n \in 1..13 : n # 9 => Good(Budgets(n))
  /\ \A n \in 1..13 : n \notin {4, 9} => Good(Goals(n))
  /\ \A n \in 1..9 : Good(Wallet(n)) /\ Good(Profile(n))
<1> USE Counts, ScreensOfModules DEF Good, Kept, DemoOnly, Success, Beneficiaries, Categories,
        Transfers, Recharges, Cash, Budgets, Goals
<1>1. \A n \in 1..8 : Good(Movements(n))
  BY DEF Movements
<1>2. \A n \in 1..14 : n \notin {5, 10} => Good(Beneficiaries(n))
  OBVIOUS
<1>3. \A n \in 1..8 : n # 5 => Good(Categories(n))
  OBVIOUS
<1>4. \A n \in 1..22 : n # 4 => Good(Transfers(n))
  OBVIOUS
<1>5. \A n \in 1..10 : n # 2 => Good(Recharges(n))
  OBVIOUS
<1>6. \A n \in 1..12 : n \notin {4, 5} => Good(Cash(n))
  OBVIOUS
<1>7. \A n \in 1..13 : n # 9 => Good(Budgets(n))
  OBVIOUS
<1>8. \A n \in 1..13 : n \notin {4, 9} => Good(Goals(n))
  OBVIOUS
<1>9. \A n \in 1..9 : Good(Wallet(n)) /\ Good(Profile(n))
  BY DEF Wallet, Profile
<1> QED
  BY <1>1, <1>2, <1>3, <1>4, <1>5, <1>6, <1>7, <1>8, <1>9

\* And where DEMO may.
LEMMA DemoScreens == ASSUME ~Real, NEW s \in AppStates PROVE Good(s)
BY DEF Good, Kept

\* The screens of success may be shown in any build.
LEMMA SuccessKept ==
  /\ {Transfers(4), Recharges(2), Cash(4), Cash(5), Budgets(9), Goals(4), Goals(9),
      Beneficiaries(5), Beneficiaries(10), Categories(5)} \subseteq Kept
BY Counts, ScreensOfModules DEF Kept, DemoOnly, Beneficiaries, Categories, Transfers,
   Recharges, Cash, Budgets, Goals

LEMMA LandingsAreCalm ==
  /\ Landings \cap (Success \cup Refusals) = {}
  /\ Landings \subseteq AppStates
<1>1. Landings \cap (Success \cup Refusals) = {}
  BY DEF Landings, Success, Refusals, Movements, Beneficiaries, Categories, Transfers,
         Recharges, Cash, Budgets, Goals, Analytics
<1>2. Landings \subseteq AppStates
  BY Counts, ScreensOfModules DEF Landings, Movements, Beneficiaries, Categories, Transfers,
         Recharges, Cash, Budgets, Goals, Analytics
<1> QED
  BY <1>1, <1>2

-----------------------------------------------------------------------------
(* The effects.                                                            *)

\* An effect leaves the user, or moves him within the module.
LEMMA RedirectLands ==
  ASSUME NEW s \in AppStates, NEW st, NEW r
  PROVE  /\ Redirect(s, st, r) = s \/ Redirect(s, st, r) \in Landings
         /\ Redirect(s, st, r)[1] = s[1]
         /\ Redirect(s, st, r) \in AppStates
<1> DEFINE t == Redirect(s, st, r)
<1>1. (t = s \/ t \in Landings) /\ t[1] = s[1]
  <2> USE DEF Redirect, Landings
  <2>1. CASE s[1] = "Movements"
    BY <2>1 DEF MovementsEffect, Movements
  <2>2. CASE s[1] = "Beneficiaries"
    BY <2>2 DEF BeneficiariesEffect, Beneficiaries
  <2>3. CASE s[1] = "Transfers"
    BY <2>3 DEF TransfersEffect, Transfers
  <2>4. CASE s[1] = "Recharges"
    BY <2>4 DEF RechargesEffect, Recharges
  <2>5. CASE s[1] = "Categories"
    BY <2>5 DEF CategoriesEffect, Categories
  <2>6. CASE s[1] = "Cash"
    BY <2>6 DEF CashEffect, Cash
  <2>7. CASE s[1] = "Budgets"
    BY <2>7 DEF BudgetsEffect, Budgets
  <2>8. CASE s[1] = "Goals"
    BY <2>8 DEF GoalsEffect, Goals
  <2>9. CASE s[1] = "Analytics"
    BY <2>9 DEF AnalyticsEffect, Analytics
  <2>10. CASE s[1] \notin {"Movements", "Beneficiaries", "Transfers", "Recharges",
                           "Categories", "Cash", "Budgets", "Goals", "Analytics"}
    BY <2>10
  <2> QED
    BY <2>1, <2>2, <2>3, <2>4, <2>5, <2>6, <2>7, <2>8, <2>9, <2>10
<1> QED
  BY <1>1, LandingsAreCalm

\* The effects of a render have nothing more to do after the next one.
LEMMA RedirectRests ==
  ASSUME NEW s \in AppStates, NEW st, NEW r
  PROVE  Redirect(Redirect(s, st, r), st, r) = Redirect(s, st, r)
<1> USE DEF Redirect
<1>1. CASE s[1] = "Movements"
  BY <1>1 DEF MovementsEffect, Movements
<1>2. CASE s[1] = "Beneficiaries"
  BY <1>2 DEF BeneficiariesEffect, Beneficiaries
<1>3. CASE s[1] = "Transfers"
  BY <1>3 DEF TransfersEffect, Transfers
<1>4. CASE s[1] = "Recharges"
  BY <1>4 DEF RechargesEffect, Recharges
<1>5. CASE s[1] = "Categories"
  BY <1>5 DEF CategoriesEffect, Categories
<1>6. CASE s[1] = "Cash"
  BY <1>6 DEF CashEffect, Cash
<1>7. CASE s[1] = "Budgets"
  BY <1>7 DEF BudgetsEffect, Budgets
<1>8. CASE s[1] = "Goals"
  BY <1>8 DEF GoalsEffect, Goals
<1>9. CASE s[1] = "Analytics"
  BY <1>9 DEF AnalyticsEffect, Analytics
<1>10. CASE s[1] \notin {"Movements", "Beneficiaries", "Transfers", "Recharges",
                         "Categories", "Cash", "Budgets", "Goals", "Analytics"}
  BY <1>10
<1> QED
  BY <1>1, <1>2, <1>3, <1>4, <1>5, <1>6, <1>7, <1>8, <1>9, <1>10

\* In a real build it never leads to a screen of DEMO.
LEMMA RedirectKeeps ==
  ASSUME NEW s \in Kept, NEW st, NEW r
  PROVE  Redirect(s, st, r) \in Kept
BY RedirectLands DEF Kept, DemoOnly

\* Before the session is ready no effect moves the user.
LEMMA RedirectUnready ==
  ASSUME NEW s, NEW st
  PROVE  Redirect(s, st, FALSE) = s
BY DEF Redirect

LEMMA ReadyOrNot == realReady = TRUE \/ realReady = FALSE
BY DEF realReady, Real

LEMMA ScreenRests ==
  ASSUME AtRest
  PROVE  Redirect(screen, res, realReady) = screen
BY ReadyOrNot, RedirectUnready DEF AtRest

LEMMA RedirectOfFocus ==
  ASSUME NEW s, NEW st, UNCHANGED focus, screen' = s, res' = st
  PROVE  Redirect(screen, res, TRUE)' = Redirect(s, st, TRUE)
BY DEF Redirect, MovementsEffect, BeneficiariesEffect, TransfersEffect, RechargesEffect,
   CategoriesEffect, CashEffect, BudgetsEffect, GoalsEffect, AnalyticsEffect

-----------------------------------------------------------------------------
(* The moves of the user.                                                  *)

\* What is known of a step that is told to show s.
Moves(s) ==
  /\ ScreenOK'
  /\ screen' = s \/ screen' \in Landings
  /\ s = screen => screen' \in {screen, Redirect(screen, "loading", TRUE)}

LEMMA RenderKeeps ==
  ASSUME NEW path \in Seq(Kept), path # <<>>, NEW s \in Kept
  PROVE  /\ Render(path, s) \in Seq(Kept) /\ Render(path, s) # <<>>
         /\ Last(Render(path, s)) = s
BY DEF Render, Last

LEMMA RenderTwo ==
  ASSUME NEW s \in Kept, NEW t \in Kept
  PROVE  /\ Render(<<s>>, t) \in Seq(Kept) /\ Render(<<s>>, t) # <<>>
         /\ Last(Render(<<s>>, t)) = t
<1>1. <<s>> \in Seq(Kept) /\ <<s>> # <<>>
  OBVIOUS
<1> QED
  BY <1>1, RenderKeeps

LEMMA FrontIsShorter ==
  ASSUME NEW S, NEW q \in Seq(S), q # <<>>
  PROVE  Front(q) \in Seq(S) /\ Len(Front(q)) = Len(q) - 1
<1>1. Len(q) \in Nat \ {0}
  OBVIOUS
<1> DEFINE n == Len(q) - 1
<1>2. Front(q) = SubSeq(q, 1, n)
  BY DEF Front
<1>3. n \in Nat /\ n <= Len(q)
  BY <1>1
<1> HIDE DEF n
<1>4. SubSeq(q, 1, n) \in Seq(S) /\ Len(SubSeq(q, 1, n)) = n
  BY <1>1, <1>3
<1> QED
  BY <1>2, <1>4 DEF n

LEMMA VisitKeeps ==
  ASSUME RestOK, NEW stack \in Seq(Kept), NEW path \in Seq(Kept), path # <<>>,
         Visit(stack, path)
  PROVE  /\ screen' = Last(path) /\ screen' \in Kept
         /\ history' \in Seq(Kept) /\ Len(history') <= MaxBack[build]
<1> DEFINE all == stack \o Front(path)
           n == MaxBack[build]
<1>1. n \in Nat
  BY BuildsAssumption DEF RestOK
<1>2. /\ Len(path) \in Nat \ {0} /\ Last(path) = path[Len(path)]
      /\ Last(path) \in Kept
  BY DEF Last
<1>3. Front(path) \in Seq(Kept)
  BY <1>2 DEF Front
<1>4. all \in Seq(Kept)
  BY <1>3
<1>5. history' = IF Len(all) > n THEN SubSeq(all, Len(all) - n + 1, Len(all)) ELSE all
  BY DEF Visit, Remember, Newest
<1>6. screen' = Last(path)
  BY DEF Visit
<1> HIDE DEF all, n
<1>7. CASE Len(all) > n
  <2>1. Len(all) \in Nat /\ Len(all) - n + 1 \in 1..Len(all)+1
    BY <1>1, <1>4, <1>7
  <2>2. /\ SubSeq(all, Len(all) - n + 1, Len(all)) \in Seq(Kept)
        /\ Len(SubSeq(all, Len(all) - n + 1, Len(all))) = n
    BY <2>1, <1>1, <1>4, <1>7
  <2> QED
    BY <2>2, <1>1, <1>2, <1>5, <1>6, <1>7 DEF n
<1>8. CASE ~(Len(all) > n)
  BY <1>1, <1>2, <1>4, <1>5, <1>6, <1>8 DEF n
<1> QED
  BY <1>7, <1>8

\* Nothing that Kept and the bounds depend on changes.
Framed == UNCHANGED <<mode, focus, gate>>

LEMMA KeptStays ==
  ASSUME UNCHANGED <<mode, focus>>
  PROVE  Kept' = Kept /\ build' = build /\ Real' = Real
BY DEF Kept, Real, build, DemoOnly

LEMMA FrameStays ==
  ASSUME Framed
  PROVE  Kept' = Kept /\ build' = build /\ Real' = Real /\ realReady' = realReady
BY KeptStays DEF Framed, realReady, Real

\* A step that shows what the effects of status st make of s, which are at rest.
LEMMA ShowKeeps ==
  ASSUME UNCHANGED <<mode, focus>>, RestOK, NEW s \in Kept,
         NEW stack \in Seq(Kept), NEW path \in Seq(Kept), path # <<>>, Visit(stack, path),
         NEW ready \in BOOLEAN, realReady' = ready, Last(path) = Redirect(s, res', ready),
         res' \in Statuses, tries' \in 0..MaxTries
  PROVE  ScreenOK'
<1>1. /\ screen' = Redirect(s, res', ready) /\ screen' \in Kept
      /\ history' \in Seq(Kept) /\ Len(history') <= MaxBack[build]
  BY VisitKeeps
<1>2. ASSUME ready = TRUE
      PROVE  Redirect(screen, res, TRUE)' = screen'
  <2>1. Redirect(screen, res, TRUE)' = Redirect(screen', res', TRUE)
    BY RedirectOfFocus
  <2>2. s \in AppStates
    BY DEF Kept
  <2> QED
    BY <1>1, <1>2, <2>1, <2>2, RedirectRests
<1>3. AtRest'
  BY <1>2 DEF AtRest
<1> QED
  BY <1>1, <1>3, KeptStays DEF ScreenOK

\* setCurrentState.
LEMMA GotoMoves ==
  ASSUME AppInv, Framed, NEW s \in Kept, Goto(s)
  PROVE  Moves(s)
<1> DEFINE t == Redirect(s, res, realReady)
           path == Render(Render(<<screen>>, s), t)
<1>1. screen \in Kept /\ history \in Seq(Kept) /\ res \in Statuses /\ tries \in 0..MaxTries
  BY DEF AppInv, ScreenOK
<1>2. t \in Kept
  BY RedirectKeeps
<1>3. path \in Seq(Kept) /\ path # <<>> /\ Last(path) = t
  <2>1. <<screen>> \in Seq(Kept) /\ <<screen>> # <<>>
    BY <1>1
  <2>2. Render(<<screen>>, s) \in Seq(Kept) /\ Render(<<screen>>, s) # <<>>
    BY <2>1, RenderKeeps
  <2> QED
    BY <1>2, <2>2, RenderKeeps
<1>4. Visit(history, path) /\ res' = res /\ tries' \in 0..MaxTries
  BY <1>1 DEF Goto, Tries, MaxTries
<1> HIDE DEF path
<1>5. ScreenOK'
  BY <1>1, <1>3, <1>4, ShowKeeps, FrameStays, ReadyOrNot DEF AppInv, Framed
<1>6. screen' = t
  BY <1>3, <1>4 DEF Visit
<1>7. s = screen => t = screen
  BY ScreenRests DEF AppInv, ScreenOK
<1>8. s \in AppStates
  BY DEF Kept
<1> QED
  BY <1>5, <1>6, <1>7, <1>8, RedirectLands DEF Moves

\* A reload() with it, whose load is under way or has ended.
LEMMA GotoWithMoves ==
  ASSUME AppInv, Framed, NEW s \in Kept, NEW st \in Statuses, NEW n \in 0..MaxTries,
         GotoWith(s, st, n), st \in {"loading", res} \/ s # screen
  PROVE  Moves(s)
<1> DEFINE first == Redirect(s, res, realReady)
           t == Redirect(first, st, realReady)
           path == Render(Render(Render(<<screen>>, s), first), t)
<1>1. screen \in Kept /\ history \in Seq(Kept) /\ res \in Statuses
  BY DEF AppInv, ScreenOK
<1>2. first \in Kept /\ t \in Kept
  BY RedirectKeeps
<1>3. path \in Seq(Kept) /\ path # <<>> /\ Last(path) = t
  <2>1. <<screen>> \in Seq(Kept) /\ <<screen>> # <<>>
    BY <1>1
  <2>2. Render(<<screen>>, s) \in Seq(Kept) /\ Render(<<screen>>, s) # <<>>
    BY <2>1, RenderKeeps
  <2> DEFINE two == Render(Render(<<screen>>, s), first)
  <2>3. two \in Seq(Kept) /\ two # <<>>
    BY <1>2, <2>2, RenderKeeps
  <2> QED
    BY <1>2, <2>3, RenderKeeps
<1>4. Visit(history, path) /\ res' = st /\ tries' \in 0..MaxTries
  BY <1>1 DEF GotoWith, Tries, MaxTries
<1> HIDE DEF path
<1>5. ScreenOK'
  BY <1>1, <1>2, <1>3, <1>4, ShowKeeps, FrameStays, ReadyOrNot DEF AppInv, Framed
<1>6. screen' = t
  BY <1>3, <1>4 DEF Visit
<1>7. s = screen => t \in {screen, Redirect(screen, "loading", TRUE)}
  <2>1. s = screen => first = screen
    BY ScreenRests DEF AppInv, ScreenOK
  <2>2. s = screen => t = Redirect(screen, st, realReady)
    BY <2>1
  <2>3. Redirect(screen, st, realReady) \in {screen, Redirect(screen, "loading", TRUE)}
        \/ s # screen
    <3>1. CASE realReady = FALSE
      BY <3>1, RedirectUnready
    <3>2. CASE realReady = TRUE
      BY <2>1, <3>2
    <3> QED
      BY <3>1, <3>2, ReadyOrNot
  <2> QED
    BY <2>2, <2>3
<1>8. s \in AppStates /\ first \in AppStates
  BY <1>2 DEF Kept
<1>9. (first = s \/ first \in Landings) /\ (t = first \/ t \in Landings)
  BY <1>8, RedirectLands
<1> QED
  BY <1>5, <1>6, <1>7, <1>9 DEF Moves

LEMMA GotoReloadingMoves ==
  ASSUME AppInv, Framed, NEW m, NEW s \in Kept, NEW n \in 0..MaxTries, GotoReloading(m, s, n)
  PROVE  Moves(s)
<1> DEFINE st == IF focus = m /\ Real /\ res # "noBalance" THEN "loading" ELSE res
<1>1. st \in Statuses /\ st \in {"loading", res}
  BY DEF AppInv, ScreenOK, Statuses
<1>2. GotoWith(s, st, n)
  BY DEF GotoReloading
<1> QED
  BY <1>1, <1>2, GotoWithMoves

LEMMA StayMoves ==
  ASSUME AppInv, Framed, Unmoved
  PROVE  Moves(screen)
<1>1. Redirect(screen, res, TRUE)' = Redirect(screen, res, TRUE)
  BY RedirectOfFocus DEF Framed, Unmoved
<1>2. AtRest'
  BY <1>1, FrameStays DEF AppInv, ScreenOK, AtRest, Unmoved
<1>3. ScreenOK'
  BY <1>2, FrameStays DEF AppInv, ScreenOK, Unmoved
<1> QED
  BY <1>3 DEF Moves, Unmoved

-----------------------------------------------------------------------------
(* Forms.                                                                  *)

\* No form but that of the transfer's effect touches what Draft speaks of.
LEMMA DraftEdited ==
  ASSUME NEW f, Draft(f), NEW k, k \notin {"consent", "live", "seen"}, NEW v,
         k = "cashDraft" => v \in CashDrafts, k = "budgetDraft" => v \in BudgetDrafts
  PROVE  Draft([f EXCEPT ![k] = v])
<1> DEFINE g == [f EXCEPT ![k] = v]
<1>1. DOMAIN g = DOMAIN f
  OBVIOUS
<1>2. g["consent"] = f["consent"] /\ g["live"] = f["live"] /\ g["seen"] = f["seen"]
  BY DEF Draft
<1>3. g["cashDraft"] \in CashDrafts /\ g["budgetDraft"] \in BudgetDrafts
  BY DEF Draft
<1> HIDE DEF g
<1> QED
  BY <1>1, <1>2, <1>3 DEF Draft

-----------------------------------------------------------------------------
(* Steps that answer nothing.                                              *)

LEMMA FlightStays ==
  ASSUME RestOK, Framed, NEW f, InFlight(f)
  PROVE  InFlight(f)'
BY FrameStays DEF InFlight, Framed

\* A step that shows a screen that a button or an effect may lead to.
LEMMA CalmKeeps ==
  ASSUME ScreenOK', RestOK', Real => screen' = screen \/ screen' \notin Success,
         flight \subseteq flight'
  PROVE  Keeps
<1>1. Ended = {}
  BY DEF Ended
<1> QED
  BY <1>1 DEF Keeps, AppInv, LateStep, EarnedStep, TrueStep

LEMMA QuietKeeps ==
  ASSUME NEW s \in Kept, Moves(s), Real => s = screen \/ s \notin Success,
         RestOK', flight \subseteq flight'
  PROVE  Keeps
BY CalmKeeps, LandingsAreCalm DEF Moves

LEMMA StillRest ==
  ASSUME AppInv, Still, Draft(form)'
  PROVE  RestOK' /\ Framed /\ flight' = flight
<1>1. Framed /\ flight' = flight
  BY DEF Still, Framed
<1>2. \A f \in flight : InFlight(f)'
  BY <1>1, FlightStays DEF AppInv, RestOK
<1> QED
  BY <1>1, <1>2, FrameStays DEF AppInv, RestOK, Still

LEMMA NavWithKeeps ==
  ASSUME AppInv, NEW s, Good(s), NEW f, Draft(f), NavWith(s, f)
  PROVE  Keeps
<1>1. Goto(s) /\ Still /\ form' = f
  BY DEF NavWith
<1>2. Draft(form)'
  BY <1>1 DEF Draft
<1>3. RestOK' /\ Framed /\ flight' = flight
  BY <1>1, <1>2, StillRest
<1>4. Moves(s)
  BY <1>1, <1>3, GotoMoves DEF Good
<1> QED
  BY <1>3, <1>4, QuietKeeps DEF Good

LEMMA NavKeeps ==
  ASSUME AppInv, NEW s, Good(s), Nav(s)
  PROVE  Keeps
<1>1. NavWith(s, form)
  BY DEF Nav, NavWith
<1> QED
  BY <1>1, NavWithKeeps DEF AppInv, RestOK

LEMMA TapKeeps ==
  ASSUME AppInv, NEW s, NEW targets, \A t \in targets : Good(t), Tap(s, targets)
  PROVE  Keeps
<1>1. PICK t \in targets : Nav(t)
  BY DEF Tap
<1> QED
  BY <1>1, NavKeeps

\* Draft(form), when the form stays.
LEMMA FormStays ==
  ASSUME AppInv, UNCHANGED form
  PROVE  Draft(form)'
BY DEF AppInv, RestOK, Draft

LEMMA ReloadKeeps ==
  ASSUME AppInv, NEW m, NEW s, Good(s), NEW n \in 0..MaxTries, GotoReloading(m, s, n),
         Still, UNCHANGED form
  PROVE  Keeps
<1>1. RestOK' /\ Framed /\ flight' = flight
  BY FormStays, StillRest
<1>2. Moves(s)
  BY <1>1, GotoReloadingMoves DEF Good
<1> QED
  BY <1>1, <1>2, QuietKeeps DEF Good

LEMMA NavReloadingKeeps ==
  ASSUME AppInv, NEW s, Good(s), NavReloading(s)
  PROVE  Keeps
<1>1. tries \in 0..MaxTries
  BY DEF AppInv, ScreenOK
<1> QED
  BY <1>1, ReloadKeeps DEF NavReloading

\* useRetryLimiter counts up to its limit, and starts anew.
LEMMA AttemptKeeps ==
  ASSUME AppInv, NEW m, NEW s, Good(s), attempt(m, s)
  PROVE  Keeps
<1>1. Still /\ UNCHANGED form /\ tries \in 0..MaxTries /\ MaxTries = 3
  BY DEF attempt, AppInv, ScreenOK, MaxTries
<1>2. CASE tries < MaxTries /\ GotoReloading(m, s, tries + 1)
  <2>1. tries + 1 \in 0..MaxTries
    BY <1>1, <1>2
  <2> QED
    BY <1>1, <1>2, <2>1, ReloadKeeps
<1>3. CASE GotoWith(Wallet(1), res, 0)
  <2>1. RestOK' /\ Framed /\ flight' = flight
    BY <1>1, FormStays, StillRest
  <2>2. Good(Wallet(1)) /\ res \in Statuses /\ 0 \in 0..MaxTries
    BY <1>1, GoodScreens DEF AppInv, ScreenOK
  <2>3. Moves(Wallet(1))
    BY <1>3, <2>1, <2>2, GotoWithMoves DEF Good
  <2> QED
    BY <2>1, <2>2, <2>3, QuietKeeps DEF Good
<1> QED
  BY <1>2, <1>3 DEF attempt

LEMMA EditKeeps ==
  ASSUME AppInv, NEW f, Draft(f), Edit(f)
  PROVE  Keeps
<1>1. Still /\ Unmoved /\ form' = f
  BY DEF Edit
<1>2. Draft(form)'
  BY <1>1 DEF Draft
<1>3. RestOK' /\ Framed /\ flight' = flight
  BY <1>1, <1>2, StillRest
<1> QED
  BY <1>1, <1>3, StayMoves, QuietKeeps DEF AppInv, ScreenOK

\* A handler that starts a write stays where it is.
LEMMA SubmitKeeps ==
  ASSUME AppInv, NEW op, NEW busy, NEW f, Draft(f), Submit(op, busy, f),
         op = "transfer" => focus = "Transfers" /\ screen = Transfers(3)
  PROVE  Keeps
<1> DEFINE new == [op |-> op, from |-> screen, by |-> actor]
<1>1. /\ realReady /\ sends < MaxSends[build] /\ sends' = sends + 1
      /\ flight' = flight \cup {new}
      /\ form' = f /\ truth' = "none"
      /\ UNCHANGED <<mode, focus, screen, history, gate, actor, res, tries, upsets>>
  BY DEF Submit, Start
<1>2. Framed /\ Unmoved /\ Draft(form)'
  BY <1>1 DEF Framed, Unmoved, Draft
<1>3. InFlight(new)
  BY <1>1 DEF InFlight, AppInv, ScreenOK, RestOK, Kept, realReady
<1>4. \A g \in flight' : InFlight(g)'
  BY <1>1, <1>2, <1>3, FlightStays DEF AppInv, RestOK
<1>5. sends' \in 0..MaxSends[build]
  BY <1>1, BuildsAssumption DEF AppInv, RestOK
<1>6. RestOK'
  BY <1>1, <1>2, <1>4, <1>5, FrameStays DEF AppInv, RestOK
<1> QED
  BY <1>1, <1>2, <1>6, StayMoves, QuietKeeps DEF AppInv, ScreenOK

-----------------------------------------------------------------------------
(* The screens of each module, one step per screen.                        *)

LEMMA BottomTabsAreGood == \A t \in BottomTabs : Good(t)
BY GoodScreens DEF BottomTabs

LEMMA MovementsKeep ==
  ASSUME AppInv, MovementsSection
  PROVE  Keeps
<1> USE GoodScreens, BottomTabsAreGood
<1>1. CASE Movements01Screen
  BY <1>1, TapKeeps, NavReloadingKeeps DEF Movements01Screen
<1>2. CASE Movements02Screen
  BY <1>2, TapKeeps DEF Movements02Screen
<1>3. CASE Movements03Screen
  BY <1>3, TapKeeps DEF Movements03Screen
<1>4. CASE Movements04Screen
  BY <1>4, TapKeeps DEF Movements04Screen
<1>5. CASE Movements05Screen
  BY <1>5, TapKeeps DEF Movements05Screen
<1>6. CASE Movements06Screen
  BY <1>6, TapKeeps DEF Movements06Screen
<1>7. CASE Movements07Screen
  BY <1>7, TapKeeps DEF Movements07Screen
<1>8. CASE Movements08Screen
  BY <1>8, TapKeeps, AttemptKeeps DEF Movements08Screen
<1> QED
  BY <1>1, <1>2, <1>3, <1>4, <1>5, <1>6, <1>7, <1>8 DEF MovementsSection

LEMMA RechargesKeep ==
  ASSUME AppInv, RechargesSection
  PROVE  Keeps
<1> USE GoodScreens
<1>1. Draft([form EXCEPT !.rechargeResult = FALSE]) /\ Draft(form)
  BY DraftEdited DEF AppInv, RestOK
<1>2. ASSUME startNewRecharge
      PROVE  Keeps
  BY <1>1, <1>2, NavWithKeeps DEF startNewRecharge
<1>3. ASSUME handleRecharge
      PROVE  Keeps
  <2>1. CASE ~Real /\ NavWith(Recharges(2), [form EXCEPT !.rechargeResult = FALSE])
    BY <1>1, <2>1, NavWithKeeps, SuccessKept DEF Good
  <2>2. CASE Submit("recharge", RechargeOps, form)
    BY <1>1, <2>2, SubmitKeeps
  <2> QED
    BY <1>3, <2>1, <2>2 DEF handleRecharge
<1>4. CASE Recharges01Screen
  BY <1>3, <1>4, TapKeeps DEF Recharges01Screen
<1>5. CASE Recharges02Screen
  BY <1>2, <1>5, TapKeeps DEF Recharges02Screen
<1>6. CASE Recharges03Screen
  BY <1>6, TapKeeps DEF Recharges03Screen
<1>7. CASE Recharges04Screen
  BY <1>7, TapKeeps DEF Recharges04Screen
<1>8. CASE Recharges05Screen
  BY <1>8, TapKeeps DEF Recharges05Screen
<1>9. CASE Recharges06Screen
  BY <1>9, TapKeeps DEF Recharges06Screen
<1>10. CASE Recharges07Screen
  BY <1>10, TapKeeps DEF Recharges07Screen
<1>11. CASE Recharges08Screen
  BY <1>2, <1>11, TapKeeps DEF Recharges08Screen
<1>12. CASE Recharges09Screen \/ Recharges10Screen
  BY <1>12, TapKeeps DEF Recharges09Screen, Recharges10Screen, RechargeEmptyView
<1> QED
  BY <1>4, <1>5, <1>6, <1>7, <1>8, <1>9, <1>10, <1>11, <1>12 DEF RechargesSection

LEMMA BeneficiariesKeep ==
  ASSUME AppInv, BeneficiariesSection
  PROVE  Keeps
<1> USE GoodScreens
<1>1. /\ Draft([form EXCEPT !.transferDraft = @ \cup {"recipient"}])
      /\ Draft([form EXCEPT !.beneficiary = TRUE])
      /\ Draft([form EXCEPT !.beneficiary = FALSE])
      /\ Draft(form)
  BY DraftEdited DEF AppInv, RestOK
<1>2. ASSUME startTransferToBeneficiary
      PROVE  Keeps
  BY <1>1, <1>2, NavWithKeeps DEF startTransferToBeneficiary
<1>3. ASSUME handleCreateBeneficiary
      PROVE  Keeps
  <2>1. CASE ~Real /\ Nav(Beneficiaries(5))
    BY <2>1, NavKeeps, SuccessKept DEF Good
  <2>2. CASE Submit("beneficiaries.create", {"beneficiaries.create"}, form)
    BY <1>1, <2>2, SubmitKeeps
  <2> QED
    BY <1>3, <2>1, <2>2 DEF handleCreateBeneficiary
<1>4. ASSUME handleDeleteBeneficiary
      PROVE  Keeps
  <2>1. CASE Nav(Beneficiaries(1))
    BY <2>1, NavKeeps
  <2>2. CASE ~Real /\ NavWith(Beneficiaries(10), [form EXCEPT !.beneficiary = FALSE])
    BY <1>1, <2>2, NavWithKeeps, SuccessKept DEF Good
  <2>3. CASE Submit("beneficiaries.remove", {"beneficiaries.remove"}, form)
    BY <1>1, <2>3, SubmitKeeps
  <2> QED
    BY <1>4, <2>1, <2>2, <2>3 DEF handleDeleteBeneficiary
<1>5. CASE Beneficiaries01Screen
  <2>1. CASE NavWith(Beneficiaries(14), [form EXCEPT !.beneficiary = TRUE])
    BY <1>1, <2>1, NavWithKeeps
  <2> QED
    BY <1>2, <1>5, <2>1, TapKeeps DEF Beneficiaries01Screen
<1>6. CASE Beneficiaries02Screen
  BY <1>6, TapKeeps DEF Beneficiaries02Screen
<1>7. CASE Beneficiaries03Screen
  BY <1>7, TapKeeps DEF Beneficiaries03Screen
<1>8. CASE Beneficiaries04Screen
  BY <1>3, <1>8, TapKeeps DEF Beneficiaries04Screen
<1>9. CASE Beneficiaries05Screen
  BY <1>2, <1>9, TapKeeps DEF Beneficiaries05Screen
<1>10. CASE Beneficiaries06Screen
  BY <1>3, <1>10, TapKeeps DEF Beneficiaries06Screen
<1>11. CASE Beneficiaries07Screen
  BY <1>11, TapKeeps DEF Beneficiaries07Screen
<1>12. CASE Beneficiaries08Screen
  BY <1>12, TapKeeps DEF Beneficiaries08Screen
<1>13. CASE Beneficiaries09Screen
  BY <1>13, TapKeeps DEF Beneficiaries09Screen
<1>14. CASE Beneficiaries10Screen
  BY <1>14, TapKeeps DEF Beneficiaries10Screen
<1>15. CASE Beneficiaries11Screen
  BY <1>15, TapKeeps DEF Beneficiaries11Screen
<1>16. CASE Beneficiaries12Screen
  BY <1>16, TapKeeps DEF Beneficiaries12Screen
<1>17. CASE Beneficiaries13Screen
  BY <1>17, TapKeeps, NavReloadingKeeps DEF Beneficiaries13Screen
<1>18. CASE Beneficiaries14Screen
  BY <1>4, <1>18, NavKeeps DEF Beneficiaries14Screen
<1> QED
  BY <1>5, <1>6, <1>7, <1>8, <1>9, <1>10, <1>11, <1>12, <1>13, <1>14, <1>15, <1>16, <1>17,
     <1>18 DEF BeneficiariesSection

LEMMA CategoriesKeep ==
  ASSUME AppInv, CategoriesSection
  PROVE  Keeps
<1> USE GoodScreens
<1>1. /\ \A v \in BOOLEAN : Draft([form EXCEPT !.systemCategory = v])
      /\ Draft(form)
  BY DraftEdited DEF AppInv, RestOK
<1>2. ASSUME handleCategorySubmit
      PROVE  Keeps
  <2>1. CASE ~Real /\ Nav(Categories(IF Op = "categories.update" THEN 1 ELSE 5))
    BY <2>1, NavKeeps, SuccessKept DEF Good
  <2>2. CASE Submit(Op, {"categories.create", "categories.update"}, form)
    <3>1. Op # "transfer"
      BY DEF Op
    <3> QED
      BY <1>1, <2>2, <3>1, SubmitKeeps
  <2> QED
    BY <1>2, <2>1, <2>2 DEF handleCategorySubmit
<1>3. ASSUME handleCategoryDelete
      PROVE  Keeps
  <2>1. CASE Nav(Categories(1))
    BY <2>1, NavKeeps
  <2>2. CASE Submit("categories.deactivate", {"categories.deactivate"}, form)
    BY <1>1, <2>2, SubmitKeeps
  <2> QED
    BY <1>3, <2>1, <2>2 DEF handleCategoryDelete
<1>4. CASE Categories01Screen
  <2>1. CASE \E system \in BOOLEAN :
               NavWith(Categories(4), [form EXCEPT !.systemCategory = system])
    BY <1>1, <2>1, NavWithKeeps
  <2> QED
    BY <1>4, <2>1, TapKeeps, NavReloadingKeeps DEF Categories01Screen
<1>5. CASE Categories02Screen
  BY <1>5, TapKeeps DEF Categories02Screen
<1>6. CASE Categories03Screen
  BY <1>2, <1>6, TapKeeps DEF Categories03Screen
<1>7. CASE Categories04Screen
  BY <1>2, <1>7, TapKeeps DEF Categories04Screen
<1>8. CASE Categories05Screen
  BY <1>8, TapKeeps DEF Categories05Screen
<1>9. CASE Categories06Screen
  BY <1>2, <1>9, TapKeeps DEF Categories06Screen
<1>10. CASE Categories07Screen
  BY <1>2, <1>10, TapKeeps DEF Categories07Screen
<1>11. CASE Categories08Screen
  BY <1>3, <1>11, NavKeeps DEF Categories08Screen
<1> QED
  BY <1>4, <1>5, <1>6, <1>7, <1>8, <1>9, <1>10, <1>11 DEF CategoriesSection

LEMMA CashKeeps ==
  ASSUME AppInv, CashSection
  PROVE  Keeps
<1> USE GoodScreens
<1>1. ASSUME NEW direction \in {"income", "expense"}, submitCash(direction)
      PROVE  Keeps
  <2> DEFINE once == [form EXCEPT !.cashDraft = direction]
             drafted == [form EXCEPT !.cashDraft = direction, !.cashResult = FALSE]
  <2>1. Draft(drafted)
    <3>1. Draft(once)
      BY DraftEdited DEF AppInv, RestOK, CashDrafts
    <3>2. drafted = [once EXCEPT !.cashResult = FALSE]
      OBVIOUS
    <3> HIDE DEF once, drafted
    <3> QED
      BY <3>1, <3>2, DraftEdited
  <2>2. CASE ~Real /\ NavWith(Cash(IF direction = "income" THEN 4 ELSE 5), drafted)
    BY <2>1, <2>2, NavWithKeeps, SuccessKept DEF Good
  <2>3. CASE Edit(drafted)
    BY <2>1, <2>3, EditKeeps
  <2>4. CASE focus = "Cash" /\ Submit(CashOp[direction], CashOps, drafted)
    <3>1. CashOp[direction] # "transfer"
      BY DEF CashOp
    <3> QED
      BY <2>1, <2>4, <3>1, SubmitKeeps
  <2> QED
    BY <1>1, <2>2, <2>3, <2>4 DEF submitCash
<1>2. CASE Cash01Screen
  BY <1>2, TapKeeps, NavReloadingKeeps DEF Cash01Screen
<1>3. CASE Cash02Screen
  BY <1>1, <1>3, TapKeeps DEF Cash02Screen, handleCashSubmit
<1>4. CASE Cash03Screen
  BY <1>1, <1>4, TapKeeps DEF Cash03Screen, handleCashSubmit
<1>5. CASE Cash04Screen \/ Cash05Screen
  BY <1>5, TapKeeps DEF Cash04Screen, Cash05Screen
<1>6. CASE Cash06Screen \/ Cash07Screen
  BY <1>6, TapKeeps DEF Cash06Screen, Cash07Screen
<1>7. CASE Cash08Screen \/ Cash09Screen
  BY <1>7, TapKeeps DEF Cash08Screen, Cash09Screen
<1>8. CASE Cash10Screen \/ Cash12Screen
  BY <1>8, TapKeeps DEF Cash10Screen, Cash12Screen
<1>9. CASE Cash11Screen
  <2>1. form.cashDraft \in CashDrafts
    BY DEF AppInv, RestOK, Draft
  <2> QED
    BY <1>1, <1>9, <2>1, TapKeeps, NavKeeps DEF Cash11Screen, retryCash, CashDrafts
<1> QED
  BY <1>2, <1>3, <1>4, <1>5, <1>6, <1>7, <1>8, <1>9 DEF CashSection

LEMMA BudgetsKeep ==
  ASSUME AppInv, BudgetsSection
  PROVE  Keeps
<1> USE GoodScreens
<1>1. ASSUME NEW draft \in {"create", "update"}, submitBudget(draft)
      PROVE  Keeps
  <2> DEFINE drafted == [form EXCEPT !.budgetDraft = draft]
  <2>1. Draft(drafted)
    BY DraftEdited DEF AppInv, RestOK, BudgetDrafts
  <2>2. CASE ~Real /\ NavWith(Budgets(IF draft = "create" THEN 9 ELSE 1), drafted)
    BY <2>1, <2>2, NavWithKeeps, SuccessKept DEF Good
  <2>3. CASE NavWith(Budgets(1), drafted)
    BY <2>1, <2>3, NavWithKeeps
  <2>4. CASE Edit(drafted)
    BY <2>1, <2>4, EditKeeps
  <2>5. CASE Submit(BudgetOp[draft], BudgetOps, drafted)
    <3>1. BudgetOp[draft] # "transfer"
      BY DEF BudgetOp
    <3> QED
      BY <2>1, <2>5, <3>1, SubmitKeeps
  <2> QED
    BY <1>1, <2>2, <2>3, <2>4, <2>5 DEF submitBudget
<1>2. /\ Draft([form EXCEPT !.budget = TRUE]) /\ Draft(form)
      /\ form.budgetDraft \in BudgetDrafts
  BY DraftEdited DEF AppInv, RestOK, Draft
<1>3. ASSUME NEW s, Good(s), BudgetsError(s)
      PROVE  Keeps
  BY <1>3, NavKeeps, NavReloadingKeeps DEF BudgetsError
<1>4. CASE Budgets01Screen
  <2>1. CASE NavWith(Budgets(5), [form EXCEPT !.budget = TRUE])
    BY <1>2, <2>1, NavWithKeeps
  <2> QED
    BY <1>3, <1>4, <2>1, TapKeeps DEF Budgets01Screen
<1>5. CASE Budgets02Screen
  BY <1>5, TapKeeps DEF Budgets02Screen
<1>6. CASE Budgets03Screen
  BY <1>3, <1>6, TapKeeps DEF Budgets03Screen
<1>7. CASE Budgets04Screen
  BY <1>1, <1>7, TapKeeps DEF Budgets04Screen, handleCreateBudget
<1>8. CASE Budgets05Screen
  BY <1>1, <1>8, TapKeeps, NavKeeps DEF Budgets05Screen, handleUpdateBudget
<1>9. CASE Budgets06Screen
  BY <1>9, TapKeeps DEF Budgets06Screen
<1>10. CASE Budgets07Screen
  BY <1>10, TapKeeps DEF Budgets07Screen
<1>11. CASE Budgets08Screen
  BY <1>11, TapKeeps DEF Budgets08Screen
<1>12. CASE Budgets09Screen
  BY <1>12, TapKeeps DEF Budgets09Screen
<1>13. CASE Budgets10Screen
  <2>1. CASE NavWith(Budgets(5), [form EXCEPT !.budget = TRUE])
    BY <1>2, <2>1, NavWithKeeps
  <2> QED
    BY <1>13, <2>1, TapKeeps, NavReloadingKeeps DEF Budgets10Screen, editBudgetFromConflict
<1>14. CASE Budgets11Screen
  BY <1>14, TapKeeps DEF Budgets11Screen
<1>15. CASE Budgets12Screen
  BY <1>1, <1>2, <1>15, TapKeeps, NavKeeps DEF Budgets12Screen, retryBudget, BudgetDrafts
<1>16. CASE Budgets13Screen
  BY <1>16, TapKeeps DEF Budgets13Screen
<1> QED
  BY <1>4, <1>5, <1>6, <1>7, <1>8, <1>9, <1>10, <1>11, <1>12, <1>13, <1>14, <1>15, <1>16
  DEF BudgetsSection

LEMMA GoalsKeep ==
  ASSUME AppInv, GoalsSection
  PROVE  Keeps
<1> USE GoodScreens
<1>1. ASSUME NEW draft \in {"create", "update"}, submitGoal(draft)
      PROVE  Keeps
  <2> DEFINE drafted == [form EXCEPT !.goalDraft = draft]
  <2>1. Draft(drafted)
    BY DraftEdited DEF AppInv, RestOK
  <2>2. CASE ~Real /\ NavWith(Goals(IF draft = "create" THEN 4 ELSE 9), drafted)
    BY <2>1, <2>2, NavWithKeeps, SuccessKept DEF Good
  <2>3. CASE NavWith(Goals(1), drafted)
    BY <2>1, <2>3, NavWithKeeps
  <2>4. CASE Edit(drafted)
    BY <2>1, <2>4, EditKeeps
  <2>5. CASE Submit(GoalOp[draft], GoalOps, drafted)
    <3>1. GoalOp[draft] # "transfer"
      BY DEF GoalOp
    <3> QED
      BY <2>1, <2>5, <3>1, SubmitKeeps
  <2> QED
    BY <1>1, <2>2, <2>3, <2>4, <2>5 DEF submitGoal
<1>2. ASSUME NEW n, BackToGoals(n)
      PROVE  Keeps
  BY <1>2, NavReloadingKeeps DEF BackToGoals
<1>3. CASE Goals01Screen
  <2> DEFINE once == [form EXCEPT !.goal = TRUE]
             chosen == [form EXCEPT !.goal = TRUE, !.goalDraft = "none"]
  <2>1. Draft(chosen)
    <3>1. Draft(once)
      BY DraftEdited DEF AppInv, RestOK
    <3>2. chosen = [once EXCEPT !.goalDraft = "none"]
      OBVIOUS
    <3> HIDE DEF once, chosen
    <3> QED
      BY <3>1, <3>2, DraftEdited
  <2>2. CASE NavWith(Goals(10), chosen)
    BY <2>1, <2>2, NavWithKeeps
  <2> QED
    BY <1>3, <2>2, TapKeeps DEF Goals01Screen
<1>4. CASE Goals02Screen
  BY <1>4, TapKeeps DEF Goals02Screen
<1>5. CASE Goals03Screen \/ Goals04Screen \/ Goals09Screen
  BY <1>2, <1>5 DEF Goals03Screen, Goals04Screen, Goals09Screen
<1>6. CASE Goals05Screen
  BY <1>1, <1>6, TapKeeps DEF Goals05Screen, handleCreateGoal
<1>7. CASE Goals06Screen
  BY <1>7, TapKeeps DEF Goals06Screen
<1>8. CASE Goals07Screen
  BY <1>8, TapKeeps DEF Goals07Screen
<1>9. CASE Goals08Screen
  BY <1>1, <1>9, NavKeeps DEF Goals08Screen, retryCreateGoal
<1>10. CASE Goals10Screen
  BY <1>1, <1>10, TapKeeps, NavKeeps DEF Goals10Screen, handleUpdateGoal
<1>11. CASE Goals11Screen
  BY <1>11, TapKeeps DEF Goals11Screen
<1>12. CASE Goals12Screen
  BY <1>2, <1>12, TapKeeps DEF Goals12Screen
<1>13. CASE Goals13Screen
  BY <1>1, <1>13, NavKeeps DEF Goals13Screen, retryUpdateGoal
<1> QED
  BY <1>3, <1>4, <1>5, <1>6, <1>7, <1>8, <1>9, <1>10, <1>11, <1>12, <1>13 DEF GoalsSection

\* No button leads a real build there, and none of it is shown.
LEMMA AnalyticsKeep ==
  ASSUME AppInv, AnalyticsSection
  PROVE  Keeps
<1>1. ASSUME NEW n \in 1..10, screen = Analytics(n)
      PROVE  ~Real
  <2>1. screen \in DemoOnly
    BY <1>1, Counts, ScreensOfModules DEF DemoOnly, Analytics
  <2> QED
    BY <2>1 DEF AppInv, ScreenOK, Kept
<1>2. ASSUME ~Real
      PROVE  \A k \in 1..10 : Good(Analytics(k))
  BY <1>2, DemoScreens, Counts, ScreensOfModules DEF Analytics
<1>3. Good(Movements(1))
  BY GoodScreens
<1>4. ASSUME NEW n \in 1..10, NEW targets \in SUBSET (1..10), TapOrHome(n, targets)
      PROVE  Keeps
  <2> DEFINE to == {Movements(1)} \cup {Analytics(k) : k \in targets}
  <2>1. Tap(Analytics(n), to)
    BY <1>4 DEF TapOrHome
  <2>2. screen = Analytics(n)
    BY <2>1 DEF Tap, At
  <2>3. \A t \in to : Good(t)
    BY <1>1, <1>2, <1>3, <2>2
  <2> HIDE DEF to
  <2> QED
    BY <2>1, <2>3, TapKeeps
<1>5. ASSUME NEW n \in 1..10, NEW t \in 1..10, RetryTo(n, t)
      PROVE  Keeps
  BY <1>1, <1>2, <1>5, NavReloadingKeeps DEF RetryTo, At
<1>6. CASE Analytics01Screen \/ Analytics02Screen \/ Analytics03Screen
  BY <1>4, <1>6 DEF Analytics01Screen, Analytics02Screen, Analytics03Screen
<1>7. CASE Analytics04Screen \/ Analytics05Screen \/ Analytics06Screen
  BY <1>4, <1>5, <1>7 DEF Analytics04Screen, Analytics05Screen, Analytics06Screen
<1>8. CASE Analytics07Screen \/ Analytics08Screen
  BY <1>4, <1>5, <1>8 DEF Analytics07Screen, Analytics08Screen
<1>9. CASE Analytics09Screen \/ Analytics10Screen
  BY <1>4, <1>5, <1>9 DEF Analytics09Screen, Analytics10Screen
<1> QED
  BY <1>6, <1>7, <1>8, <1>9 DEF AnalyticsSection

\* A step that leaves the screen, the list and the writes as they are.
LEMMA FrameKeeps ==
  ASSUME AppInv, Framed, Unmoved, UNCHANGED <<form, flight, sends>>,
         actor' \in Actors, truth' \in {"none", "done", "notDone"},
         upsets' \in 0..MaxUpsets[build]
  PROVE  Keeps
<1>1. \A f \in flight' : InFlight(f)'
  BY FlightStays DEF AppInv, RestOK
<1>2. RestOK'
  BY <1>1, FormStays, FrameStays DEF AppInv, RestOK, Framed
<1> QED
  BY <1>2, StayMoves, QuietKeeps DEF AppInv, ScreenOK

LEMMA UpsetCounts ==
  ASSUME AppInv, Upset
  PROVE  upsets' \in 0..MaxUpsets[build]
BY BuildsAssumption DEF AppInv, RestOK, Upset

\* The drafts of the transfer's buttons.
LEMMA TransferDrafts ==
  ASSUME AppInv
  PROVE  /\ Draft(form) /\ Draft(NotRequested)
         /\ \A v : /\ Draft([form EXCEPT !.transferDraft = v])
                   /\ Draft([NotRequested EXCEPT !.transferDraft = v])
                   /\ \A w : Draft([[form EXCEPT !.transferDraft = v] EXCEPT !.requested = w])
<1>1. Draft(form)
  BY DEF AppInv, RestOK
<1>2. Draft(NotRequested)
  BY <1>1, DraftEdited DEF NotRequested
<1>3. \A v : /\ Draft([form EXCEPT !.transferDraft = v])
             /\ Draft([NotRequested EXCEPT !.transferDraft = v])
  BY <1>1, <1>2, DraftEdited
<1>4. ASSUME NEW v, NEW w
      PROVE  Draft([[form EXCEPT !.transferDraft = v] EXCEPT !.requested = w])
  BY <1>3, DraftEdited
<1> QED
  BY <1>1, <1>2, <1>3, <1>4

LEMMA LeaveKeeps ==
  ASSUME AppInv, NEW n, NEW targets, \A t \in targets : Good(t), Leave(n, targets)
  PROVE  Keeps
BY TransferDrafts, NavWithKeeps DEF Leave

LEMMA CompletionKeeps ==
  ASSUME AppInv, NEW s, Good(s), leaveAcademicTransferCompletion(s)
  PROVE  Keeps
BY TransferDrafts, NavWithKeeps DEF leaveAcademicTransferCompletion

LEMMA TransfersKeep ==
  ASSUME AppInv, TransfersSection
  PROVE  Keeps
<1> USE GoodScreens
<1>1. CASE Transfers01Screen
  <2>1. CASE Edit([form EXCEPT !.transferDraft = SymDiff(@, {"amount"})])
    BY <2>1, TransferDrafts, EditKeeps
  <2> QED
    BY <1>1, <2>1, TapKeeps, LeaveKeeps DEF Transfers01Screen
<1>2. CASE Transfers02Screen
  <2> DEFINE chosen == [form EXCEPT !.transferDraft = @ \cup {"recipient"}]
  <2>1. Draft(chosen) /\ Draft([chosen EXCEPT !.requested = FALSE])
    BY TransferDrafts
  <2>2. CASE Edit(chosen)
    BY <2>1, <2>2, EditKeeps
  <2>3. CASE NavWith(Transfers(3), [chosen EXCEPT !.requested = FALSE])
    BY <2>1, <2>3, NavWithKeeps
  <2> QED
    BY <1>2, <2>2, <2>3, TapKeeps DEF Transfers02Screen
<1>3. CASE Transfers03Screen
  <2>1. CASE Edit([form EXCEPT !.requested = TRUE, !.consent = {actor}])
    <3> DEFINE asked == [form EXCEPT !.requested = TRUE]
               agreed == [form EXCEPT !.requested = TRUE, !.consent = {actor}]
    <3>1. Draft(asked)
      BY TransferDrafts, DraftEdited
    <3>2. agreed = [asked EXCEPT !.consent = {actor}]
      OBVIOUS
    <3> HIDE DEF asked, agreed
    <3>3. /\ DOMAIN agreed = DOMAIN asked /\ agreed["consent"] = {actor}
          /\ agreed["live"] = asked["live"] /\ agreed["seen"] = asked["seen"]
          /\ agreed["cashDraft"] = asked["cashDraft"]
          /\ agreed["budgetDraft"] = asked["budgetDraft"]
      BY <3>1, <3>2 DEF Draft
    <3>4. Draft(agreed)
      BY <3>1, <3>3 DEF Draft, AppInv, RestOK
    <3> QED
      BY <2>1, <3>4, EditKeeps DEF agreed
  <2>2. CASE ~Real /\ handleTransferSimulatedSuccess
    BY <2>2, NavKeeps, SuccessKept DEF handleTransferSimulatedSuccess, Good
  <2> QED
    BY <1>3, <2>1, <2>2, LeaveKeeps DEF Transfers03Screen
<1>4. CASE Transfers04Screen
  BY <1>4, TapKeeps, CompletionKeeps DEF Transfers04Screen
<1>5. CASE Transfers05Screen \/ Transfers06Screen \/ Transfers07Screen
  BY <1>5, TapKeeps, LeaveKeeps
  DEF Transfers05Screen, Transfers06Screen, Transfers07Screen
<1>6. CASE Transfers08Screen \/ Transfers09Screen \/ Transfers10Screen
  BY <1>6, TapKeeps, LeaveKeeps
  DEF Transfers08Screen, Transfers09Screen, Transfers10Screen
<1>7. CASE Transfers11Screen \/ Transfers12Screen
  BY <1>7, LeaveKeeps DEF Transfers11Screen, Transfers12Screen
<1>8. CASE Transfers13Screen \/ Transfers14Screen
  BY <1>8, TapKeeps, LeaveKeeps DEF Transfers13Screen, Transfers14Screen
<1>9. CASE Transfers15Screen \/ Transfers16Screen \/ Transfers17Screen
  BY <1>9, TapKeeps DEF Transfers15Screen, Transfers16Screen, Transfers17Screen
<1>10. CASE Transfers18Screen
  BY <1>10, NavKeeps, AttemptKeeps DEF Transfers18Screen
<1>11. CASE Transfers19Screen \/ Transfers20Screen \/ Transfers21Screen
  BY <1>11, TapKeeps DEF Transfers19Screen, Transfers20Screen, Transfers21Screen
<1>12. CASE Transfers22Screen
  BY <1>12, NavKeeps, CompletionKeeps DEF Transfers22Screen
<1>13. CASE BackFromReceipt
  BY <1>13, CompletionKeeps DEF BackFromReceipt
<1> QED
  BY <1>1, <1>2, <1>3, <1>4, <1>5, <1>6, <1>7, <1>8, <1>9, <1>10, <1>11, <1>12, <1>13
  DEF TransfersSection

LEMMA Module1Keeps ==
  ASSUME AppInv, Module1Section
  PROVE  Keeps
<1> USE GoodScreens, BottomTabsAreGood
<1>1. screen \in AppStates
  BY DEF AppInv, ScreenOK, Kept
<1>2. CASE \E s \in BottomTabs : Nav(s)
  BY <1>2, NavKeeps
<1>3. CASE ~Real /\ DemoControls
  <2>1. ASSUME NEW s \in AppStates, Nav(s)
        PROVE  Keeps
    BY <1>3, <2>1, DemoScreens, NavKeeps
  <2>2. CASE submit
    <3>1. Projection(2) \in AppStates
      BY Counts, ScreensOfModules DEF Projection
    <3>2. Next1(screen) \in AppStates
      <4>1. screen[1] \in DOMAIN Count /\ screen[2] \in 1..Count[screen[1]]
        BY <1>1, AppStatesArePairs
      <4>2. Count[screen[1]] \in Nat \ {0}
        BY <4>1, Counts
      <4> DEFINE n == IF screen[2] >= Count[screen[1]] THEN 1 ELSE screen[2] + 1
      <4>3. n \in 1..Count[screen[1]]
        BY <4>1, <4>2
      <4> HIDE DEF n
      <4>4. <<screen[1], n>> \in AppStates
        BY <4>1, <4>3, ScreensOfModules
      <4> QED
        BY <4>4 DEF Next1, n
    <3> QED
      BY <2>1, <2>2, <3>1, <3>2 DEF submit
  <2>3. CASE \E n \in 1..Count[screen[1]] : Nav(<<screen[1], n>>)
    BY <1>1, <2>1, <2>3, AppStatesArePairs, ScreensOfModules
  <2> QED
    BY <1>3, <2>2, <2>3 DEF DemoControls
<1>4. CASE WalletCard
  <2>1. CASE openTransferFlow
    <3> DEFINE f == IF Real THEN [NotRequested EXCEPT !.transferDraft = {}] ELSE NotRequested
    <3>1. Draft(f)
      <4>1. Draft([NotRequested EXCEPT !.transferDraft = {}]) /\ Draft(NotRequested)
        BY TransferDrafts
      <4>2. CASE Real
        BY <4>1, <4>2
      <4>3. CASE ~Real
        BY <4>1, <4>3
      <4> QED
        BY <4>2, <4>3
    <3>2. NavWith(Transfers(1), f)
      BY <2>1 DEF openTransferFlow
    <3> HIDE DEF f
    <3> QED
      BY <3>1, <3>2, NavWithKeeps
  <2> QED
    BY <1>4, <2>1, NavKeeps DEF WalletCard
<1>5. CASE signOut
  BY <1>5, UpsetCounts, FrameKeeps
  DEF signOut, Framed, Unmoved, NoRender, GateFrame, Actors
<1> QED
  BY <1>2, <1>3, <1>4, <1>5 DEF Module1Section

LEMMA SectionsKeep ==
  ASSUME AppInv, Sections
  PROVE  Keeps
BY MovementsKeep, BeneficiariesKeep, CategoriesKeep, TransfersKeep, RechargesKeep, CashKeeps,
   BudgetsKeep, GoalsKeep, AnalyticsKeep, Module1Keeps DEF Sections

-----------------------------------------------------------------------------
(* Back, the gate and the list.                                            *)

\* Android's Back: a screen of success is shown again only by leaving one.
LEMMA BackKeeps ==
  ASSUME AppInv, Back
  PROVE  Keeps
<1> DEFINE previous == Last(history)
           t == Redirect(previous, res, realReady)
           path == Render(<<previous>>, t)
<1>1. /\ screen \in Kept /\ history \in Seq(Kept) /\ Len(history) <= MaxBack[build]
      /\ res \in Statuses /\ tries \in 0..MaxTries
  BY DEF AppInv, ScreenOK
<1>2. /\ Visit(Front(history), path) /\ Tries(tries, previous, res) /\ history # <<>>
      /\ Upset /\ truth' = "none"
      /\ UNCHANGED <<mode, focus, gate, actor, res, form, flight, sends>>
  BY DEF Back
<1>3. Len(history) \in Nat \ {0} /\ previous = history[Len(history)] /\ previous \in Kept
  BY <1>1, <1>2 DEF Last
<1>4. Front(history) \in Seq(Kept) /\ Len(Front(history)) = Len(history) - 1
  BY <1>1, <1>2, FrontIsShorter
<1>5. t \in Kept /\ previous \in AppStates
  BY <1>3, RedirectKeeps DEF Kept
<1> HIDE DEF previous
<1>6. path \in Seq(Kept) /\ path # <<>> /\ Last(path) = t
  BY <1>3, <1>5, RenderTwo
<1>7. Framed
  BY <1>2 DEF Framed
<1>8. tries' \in 0..MaxTries
  BY <1>1, <1>2 DEF Tries, MaxTries
<1>9. ScreenOK'
  <2> HIDE DEF path
  <2> QED
    BY <1>1, <1>2, <1>3, <1>4, <1>6, <1>7, <1>8, ShowKeeps, FrameStays, ReadyOrNot
    DEF AppInv, Framed
<1>10. RestOK'
  <2>1. \A f \in flight' : InFlight(f)'
    BY <1>2, <1>7, FlightStays DEF AppInv, RestOK
  <2> QED
    BY <1>2, <1>7, <2>1, UpsetCounts, FormStays, FrameStays DEF AppInv, RestOK
<1>11. EarnedStep
  <2>1. screen' = t
    BY <1>2, <1>6 DEF Visit
  <2>2. ASSUME screen' \in Success
        PROVE  WentBack
    <3>1. t = previous
      BY <1>5, <2>1, <2>2, RedirectLands, LandingsAreCalm
    <3>2. path = <<previous>>
      BY <3>1 DEF Render, Last
    <3>3. Front(path) = <<>>
      <4>1. path \in Seq(Kept) /\ Len(path) = 1 /\ path # <<>>
        BY <1>6, <3>2
      <4>2. Front(path) \in Seq(Kept) /\ Len(Front(path)) = 0
        BY <4>1, FrontIsShorter
      <4> QED
        BY <4>2
    <3>4. Front(history) \o Front(path) = Front(history)
      BY <1>4, <3>3
    <3>5. MaxBack[build] \in Nat
      BY BuildsAssumption DEF AppInv, RestOK
    <3>6. history' = Front(history)
      BY <1>1, <1>2, <1>3, <1>4, <3>4, <3>5 DEF Visit, Remember
    <3> QED
      BY <1>3, <1>4, <3>6 DEF WentBack
  <2> QED
    BY <2>2 DEF EarnedStep
<1>12. Ended = {}
  BY <1>2 DEF Ended
<1> QED
  BY <1>9, <1>10, <1>11, <1>12 DEF Keeps, AppInv, LateStep, TrueStep

\* DEMO's bar.
LEMMA JumpKeeps ==
  ASSUME AppInv, Jump
  PROVE  Keeps
<1>1. PICK s \in AppStates : Goto(s)
  BY DEF Jump
<1>2. /\ ~Real /\ Upset /\ truth' = "none"
      /\ UNCHANGED <<mode, focus, gate, actor, form, flight, sends>>
  BY DEF Jump, Real
<1>3. Framed /\ s \in Kept
  BY <1>2 DEF Framed, Kept
<1>4. Moves(s)
  BY <1>1, <1>3, GotoMoves
<1>5. RestOK'
  <2>1. \A f \in flight' : InFlight(f)'
    BY <1>2, <1>3, FlightStays DEF AppInv, RestOK
  <2> QED
    BY <1>2, <1>3, <2>1, UpsetCounts, FormStays, FrameStays DEF AppInv, RestOK
<1> QED
  BY <1>2, <1>3, <1>4, <1>5, QuietKeeps

\* What the gate leaves as it is.
LEMMA GateRest ==
  ASSUME AppInv, GateFrame, actor' \in Actors, upsets' \in 0..MaxUpsets[build],
         gate' \in {"loading", "ready", "signed-out", "unavailable", "configuration"}
  PROVE  RestOK'
<1>1. UNCHANGED <<mode, focus, form, flight, sends>> /\ truth' = "none"
  BY DEF GateFrame
<1>2. \A f \in flight' : InFlight(f)'
  BY <1>1, KeptStays DEF AppInv, RestOK, InFlight
<1> QED
  BY <1>1, <1>2, FormStays, KeptStays DEF AppInv, RestOK

LEMMA ReenterKeeps ==
  ASSUME AppInv, Reenter, GateFrame, actor' \in Actors, UNCHANGED upsets
  PROVE  Keeps
<1> DEFINE t == Redirect(screen, "loading", TRUE)
           path == Render(<<screen>>, t)
<1>1. screen \in Kept /\ history \in Seq(Kept) /\ tries \in 0..MaxTries /\ RestOK
  BY DEF AppInv, ScreenOK
<1>2. /\ gate' = "ready" /\ res' = "loading" /\ tries' = tries /\ Visit(history, path)
      /\ UNCHANGED <<mode, focus, flight>>
  BY DEF Reenter, GateFrame
<1>3. t \in Kept
  BY <1>1, RedirectKeeps
<1>4. path \in Seq(Kept) /\ path # <<>> /\ Last(path) = t
  BY <1>1, <1>3, RenderTwo
<1>5. RestOK'
  BY <1>2, GateRest DEF AppInv, RestOK
<1>6. screen' = t
  BY <1>2, <1>4 DEF Visit
<1>7. ScreenOK'
  <2>1. /\ screen' \in Kept /\ history' \in Seq(Kept) /\ Len(history') <= MaxBack[build]
    <3> HIDE DEF path
    <3> QED
      BY <1>1, <1>2, <1>4, VisitKeeps
  <2>2. Redirect(screen, res, TRUE)' = Redirect(screen', res', TRUE)
    BY <1>2, RedirectOfFocus
  <2>3. Redirect(screen', res', TRUE) = screen'
    BY <1>1, <1>2, <1>6, RedirectRests DEF Kept
  <2> QED
    BY <1>1, <1>2, <2>1, <2>2, <2>3, KeptStays DEF ScreenOK, AtRest, Statuses
<1>8. screen' = screen \/ screen' \notin Success
  BY <1>1, <1>6, RedirectLands, LandingsAreCalm DEF Kept
<1> QED
  BY <1>2, <1>5, <1>7, <1>8, CalmKeeps

\* The gate is closed, or stays so.
LEMMA ClosedKeeps ==
  ASSUME AppInv, GateFrame, NoRender, actor' \in Actors, upsets' \in 0..MaxUpsets[build],
         gate' \in {"loading", "signed-out", "unavailable", "configuration"},
         res' \in Statuses
  PROVE  Keeps
<1>1. UNCHANGED <<mode, focus, flight, screen, history, tries>>
  BY DEF GateFrame, NoRender
<1>2. RestOK'
  BY GateRest
<1>3. ScreenOK'
  BY <1>1, KeptStays DEF AppInv, ScreenOK, AtRest, realReady
<1> QED
  BY <1>1, <1>2, <1>3, CalmKeeps

LEMMA SessionKeeps ==
  ASSUME AppInv, Session
  PROVE  Keeps
<1>1. /\ actor \in Actors /\ Nobody \in Actors /\ \A u \in Users : u \in Actors
      /\ res \in Statuses /\ "loading" \in Statuses
      /\ upsets \in 0..MaxUpsets[build]
  BY DEF AppInv, ScreenOK, RestOK, Actors, Statuses
<1>2. CASE Restored
  BY <1>1, <1>2, ReenterKeeps, ClosedKeeps DEF Restored
<1>3. CASE RetrySession
  BY <1>1, <1>3, UpsetCounts, ClosedKeeps DEF RetrySession
<1>4. CASE SignIn
  BY <1>1, <1>4, ReenterKeeps DEF SignIn
<1>5. CASE LoseSession
  BY <1>1, <1>5, UpsetCounts, FrameKeeps
  DEF LoseSession, Framed, Unmoved, NoRender, GateFrame
<1>6. CASE GateCloses
  BY <1>1, <1>6, ClosedKeeps DEF GateCloses
<1> QED
  BY <1>2, <1>3, <1>4, <1>5, <1>6 DEF Session

LEMMA ListLoadsKeeps ==
  ASSUME AppInv, ListLoads
  PROVE  Keeps
<1> DEFINE t == Redirect(screen, res', TRUE)
           path == Render(<<screen>>, t)
<1>1. /\ screen \in Kept /\ history \in Seq(Kept) /\ tries \in 0..MaxTries /\ RestOK
      /\ actor \in Actors /\ upsets \in 0..MaxUpsets[build]
  BY DEF AppInv, ScreenOK, RestOK
<1>2. /\ realReady /\ Visit(history, path) /\ Tries(tries, screen, res') /\ truth' = "none"
      /\ UNCHANGED <<mode, focus, gate, form, flight, sends>>
  BY DEF ListLoads
<1>3. res' \in Statuses /\ actor' \in Actors /\ upsets' \in 0..MaxUpsets[build]
  BY <1>1, UpsetCounts DEF ListLoads, Statuses, Actors
<1>4. t \in Kept
  BY <1>1, RedirectKeeps
<1>5. path \in Seq(Kept) /\ path # <<>> /\ Last(path) = t
  BY <1>1, <1>4, RenderTwo
<1>6. Framed /\ tries' \in 0..MaxTries
  BY <1>1, <1>2 DEF Framed, Tries, MaxTries
<1>7. ScreenOK'
  <2>1. realReady' = TRUE
    BY <1>2, <1>6, FrameStays, ReadyOrNot
  <2> HIDE DEF path
  <2> QED
    BY <1>1, <1>2, <1>3, <1>5, <1>6, <2>1, ShowKeeps DEF Framed
<1>8. RestOK'
  <2>1. \A f \in flight' : InFlight(f)'
    BY <1>2, <1>6, FlightStays DEF AppInv, RestOK
  <2> QED
    BY <1>1, <1>2, <1>3, <1>6, <2>1, FormStays, FrameStays DEF RestOK
<1>9. screen' = t
  BY <1>2, <1>5 DEF Visit
<1>10. screen' = screen \/ screen' \notin Success
  BY <1>1, <1>9, RedirectLands, LandingsAreCalm DEF Kept
<1> QED
  BY <1>2, <1>7, <1>8, <1>10, CalmKeeps

-----------------------------------------------------------------------------
(* Answers.                                                                *)

\* What the app takes for a refusal, the server has refused, but for a conflict of a write
\* sent with a key.
LEMMA RefusedIsNotDone ==
  ASSUME NEW e \in Ends, NEW op,
         Failure(e) \in {"session", "forbidden", "not_found", "conflict", "rate_limited",
                         "validation", "insufficient_funds", "limit_exceeded"},
         Failure(e) = "conflict" => op \notin Keyed
  PROVE  Truth(op, e) = {"notDone"}
<1>1. AsApiError(e) = IF e = "ok" THEN "unexpected" ELSE Kind[e]
  BY DEF AsApiError, Kind
<1>2. CASE e \in {"ok", "garbled"}
  <2>1. AsApiError(e) = "unexpected"
    BY <1>1, <1>2 DEF Kind, Ends
  <2> QED
    BY <1>2, <2>1 DEF Failure
<1>3. CASE e \in {"500", "503", "network", "timeout"}
  <2>1. AsApiError(e) \in {"server_error", "unavailable", "network", "timeout"}
    BY <1>1, <1>3 DEF Kind, Ends
  <2> QED
    BY <1>3, <2>1 DEF Failure
<1>4. CASE e = "409"
  <2>1. AsApiError(e) = "conflict"
    BY <1>1, <1>4 DEF Kind, Ends
  <2>2. Failure(e) = "conflict"
    BY <1>4, <2>1 DEF Failure
  <2> QED
    BY <1>4, <2>2 DEF Truth
<1>5. CASE e \notin {"ok", "garbled", "500", "503", "network", "timeout", "409"}
  BY <1>5 DEF Truth
<1> QED
  BY <1>2, <1>3, <1>4, <1>5

LEMMA TruthIsKnown ==
  ASSUME NEW op, NEW e
  PROVE  Truth(op, e) \subseteq {"done", "notDone"} /\ Truth(op, "ok") = {"done"}
BY DEF Truth

LEMMA CommonEnds == Common \cup {"locked", "short", "noMethod", "noCategory", "self", "twice",
                                 "badDate"} \subseteq Ends
BY DEF Common, Ends

\* An answer that moves the user, if it does, to s.
LEMMA AnswerKeeps ==
  ASSUME AppInv, NEW f \in flight, NEW e, NEW next, Close(f, e, next),
         \A g \in next : InFlight(g),
         NEW s \in Kept, Moves(s), Draft(form)', truth' \in {"done", "notDone"},
         s # screen => screen = f.from /\ actor' = f.by,
         Real /\ s # screen /\ s \in Success => truth' = "done" /\ next = {},
         s # screen /\ s \in Refusals => truth' = "notDone"
  PROVE  Keeps
<1>1. /\ flight' = (flight \ {f}) \cup next
      /\ UNCHANGED <<mode, focus, gate, sends, upsets>>
      /\ actor' \in Actors
  BY DEF Close, AppInv, RestOK, Actors
<1>2. Framed
  BY <1>1 DEF Framed
<1>3. Ended \subseteq {f} /\ (next = {} => Ended = {f})
  BY <1>1 DEF Ended
<1>4. RestOK'
  <2>1. \A g \in flight' : InFlight(g)'
    BY <1>1, <1>2, FlightStays DEF AppInv, RestOK
  <2> QED
    BY <1>1, <1>2, <2>1, FrameStays DEF AppInv, RestOK
<1>5. screen' = s \/ screen' \notin Success \cup Refusals
  BY LandingsAreCalm DEF Moves
<1>6. LateStep
  <2>1. CASE s = screen
    BY <2>1 DEF Moves, LateStep
  <2>2. CASE s # screen
    BY <1>3, <2>2 DEF LateStep
  <2> QED
    BY <2>1, <2>2
<1>7. EarnedStep
  BY <1>3, <1>5 DEF EarnedStep
<1>8. TrueStep
  BY <1>5 DEF TrueStep
<1> QED
  BY <1>4, <1>6, <1>7, <1>8 DEF Keeps, AppInv, Moves

\* A late answer.
LEMMA DropKeeps ==
  ASSUME AppInv, NEW f \in flight, NEW e, Close(f, e, {}), truth' \in {"done", "notDone"},
         Unmoved, Draft(form)'
  PROVE  Keeps
<1>1. Framed
  BY DEF Close, Framed
<1>2. Moves(screen) /\ screen \in Kept
  BY <1>1, StayMoves DEF AppInv, ScreenOK
<1> QED
  BY <1>2, AnswerKeeps

LEMMA EndCloses ==
  ASSUME NEW f, NEW e, End(f, e)
  PROVE  /\ Close(f, e, {}) /\ Framed
         /\ truth' \in Truth(f.op, e) /\ truth' \in {"done", "notDone"}
BY TruthIsKnown DEF End, Close, Framed

-----------------------------------------------------------------------------
(* The transfer's effect and its answer.                                   *)

\* What the effect, or the answer, makes of a form.
LEMMA ListenerGone ==
  ASSUME NEW g, Draft(g)
  PROVE  /\ Draft([g EXCEPT !.live = FALSE])
         /\ \A v : Draft([[g EXCEPT !.seen = v] EXCEPT !.live = FALSE])
<1>1. Draft([g EXCEPT !.live = FALSE])
  BY DEF Draft
<1>2. ASSUME NEW v
      PROVE  Draft([[g EXCEPT !.seen = v] EXCEPT !.live = FALSE])
  BY DEF Draft
<1> QED
  BY <1>1, <1>2

LEMMA SeenDraft ==
  ASSUME AppInv
  PROVE  Draft(Seen)
<1>1. Seen = [[form EXCEPT !.seen = TransferDeps] EXCEPT !.live = FALSE]
  BY DEF Seen
<1> QED
  BY <1>1, ListenerGone DEF AppInv, RestOK

LEMMA TransferSentKeeps ==
  ASSUME AppInv, TransferSent
  PROVE  Keeps
<1> DEFINE asked == actor \in form.consent
           a == [Seen EXCEPT !.attempt = TRUE]
           b == [a EXCEPT !.live = TRUE]
           c == [b EXCEPT !.asked = asked]
           d == [c EXCEPT !.consent = {}]
<1>1. Submit("transfer", {}, d) /\ screen = Transfers(3) /\ focus = "Transfers"
  BY DEF TransferSent, Settled, Due
<1>2. Draft(a)
  BY SeenDraft, DraftEdited
<1>3. a["seen"][1] = screen
  <2>1. Seen["seen"] = TransferDeps
    BY DEF Seen, AppInv, RestOK, Draft
  <2>2. "seen" \in DOMAIN Seen
    BY SeenDraft DEF Draft
  <2> QED
    BY <2>1, <2>2 DEF TransferDeps
<1>4. Draft(b)
  <2> HIDE DEF a
  <2> QED
    BY <1>1, <1>2, <1>3 DEF Draft
<1>5. Draft(c)
  <2> HIDE DEF b
  <2> QED
    BY <1>4, DraftEdited
<1>6. Draft(d)
  <2> HIDE DEF c
  <2> QED
    BY <1>5 DEF Draft
<1> HIDE DEF d
<1> QED
  BY <1>1, <1>6, SubmitKeeps

LEMMA TransferAnsweredKeeps ==
  ASSUME AppInv, TransferAnswered
  PROVE  Keeps
<1> USE GoodScreens
<1>1. PICK f \in flight, e \in Common \cup {"short", "locked"} :
        LET ended  == [form EXCEPT !.attempt = FALSE, !.live = FALSE]
            closed == [ended EXCEPT !.requested = FALSE]
            why    == Failure(e)
        IN /\ f.op = "transfer" /\ End(f, e)
           /\ \/ ~(form.live /\ SameActor(f)) /\ form' = ended /\ Unmoved
              \/ /\ form.live /\ SameActor(f) /\ e = "ok"
                 /\ \/ form' = closed /\ Goto(Transfers(13))
                    \/ /\ form' = [closed EXCEPT !.uncertain = FALSE]
                       /\ GotoWith(Transfers(4), "loading", tries)
              \/ /\ form.live /\ SameActor(f) /\ e # "ok" /\ why \in DOMAIN FailureScreen
                 /\ form' = closed
                 /\ GotoWith(Transfers(FailureScreen[why]),
                             IF why = "insufficient_funds" /\ res = "noBalance" THEN "loading"
                             ELSE res, tries)
              \/ /\ form.live /\ SameActor(f) /\ e # "ok" /\ why \notin DOMAIN FailureScreen
                 /\ form' = [closed EXCEPT !.uncertain = (why = "uncertain")]
                 /\ GotoWith(Transfers(13), IF why = "uncertain" THEN "loading" ELSE res, tries)
  BY DEF TransferAnswered
<1> DEFINE ended  == [form EXCEPT !.attempt = FALSE, !.live = FALSE]
           closed == [ended EXCEPT !.requested = FALSE]
           why    == Failure(e)
<1>2. /\ Close(f, e, {}) /\ Framed /\ truth' \in Truth(f.op, e)
      /\ truth' \in {"done", "notDone"} /\ Settled
  BY <1>1, EndCloses DEF Close
<1>3. Draft(ended) /\ Draft(closed) /\ \A v : Draft([closed EXCEPT !.uncertain = v])
  <2> DEFINE once == [form EXCEPT !.attempt = FALSE]
  <2>1. Draft(once)
    BY DraftEdited DEF AppInv, RestOK
  <2>2. ended = [once EXCEPT !.live = FALSE]
    OBVIOUS
  <2> HIDE DEF once, ended
  <2>3. Draft(ended)
    BY <2>1, <2>2, ListenerGone
  <2>4. Draft(closed)
    BY <2>3, DraftEdited
  <2> HIDE DEF closed
  <2> QED
    BY <2>3, <2>4, DraftEdited
<1>4. Draft(form)'
  <2>1. \/ form' = ended \/ form' = closed
        \/ \E v : form' = [closed EXCEPT !.uncertain = v]
    BY <1>1
  <2> HIDE DEF ended, closed
  <2> QED
    BY <1>3, <2>1 DEF Draft
<1>5. ASSUME form.live
      PROVE  screen = Transfers(3) /\ f.from = Transfers(3)
  <2>1. f.from = Transfers(3) /\ focus = "Transfers" /\ Real
    BY <1>1 DEF AppInv, RestOK, InFlight
  <2>2. form.seen = TransferDeps
    BY <1>2, <2>1 DEF Settled
  <2>3. form.seen[1] = Transfers(3)
    BY <1>5 DEF AppInv, RestOK, Draft
  <2> QED
    BY <2>1, <2>2, <2>3 DEF TransferDeps
<1>6. /\ tries \in 0..MaxTries /\ res \in Statuses /\ "loading" \in Statuses
      /\ screen \in Kept
  BY DEF AppInv, ScreenOK, Statuses
<1>7. SameActor(f) => actor' = f.by
  BY DEF SameActor
<1> HIDE DEF ended, closed
<1>8. CASE ~(form.live /\ SameActor(f)) /\ Unmoved
  BY <1>2, <1>4, <1>8, DropKeeps
<1>9. CASE form.live /\ SameActor(f) /\ e = "ok" /\ Goto(Transfers(13))
  <2>1. Transfers(13) \in Kept /\ Transfers(13) \notin Success \cup Refusals
    BY DEF Good, Success, Refusals, Transfers, Recharges, Cash, Budgets, Goals, Beneficiaries,
           Categories
  <2>2. Moves(Transfers(13))
    BY <1>2, <1>9, <2>1, GotoMoves
  <2> QED
    BY <1>2, <1>4, <1>5, <1>7, <1>9, <2>1, <2>2, AnswerKeeps
<1>10. CASE form.live /\ SameActor(f) /\ e = "ok" /\ GotoWith(Transfers(4), "loading", tries)
  <2>1. Transfers(4) \in Kept /\ Transfers(4) \notin Refusals
    BY SuccessKept DEF Refusals, Transfers, Recharges, Cash, Budgets, Goals, Beneficiaries,
                       Categories
  <2>2. Moves(Transfers(4))
    BY <1>2, <1>6, <1>10, <2>1, GotoWithMoves
  <2>3. truth' = "done"
    BY <1>2, <1>10, TruthIsKnown
  <2> QED
    BY <1>2, <1>4, <1>5, <1>7, <1>10, <2>1, <2>2, <2>3, AnswerKeeps
<1>11. CASE /\ form.live /\ SameActor(f) /\ why \in DOMAIN FailureScreen
            /\ GotoWith(Transfers(FailureScreen[why]),
                        IF why = "insufficient_funds" /\ res = "noBalance" THEN "loading"
                        ELSE res, tries)
  <2> DEFINE s == Transfers(FailureScreen[why])
             st == IF why = "insufficient_funds" /\ res = "noBalance" THEN "loading" ELSE res
  <2>1. FailureScreen[why] \in {5, 6, 7, 8, 9, 11, 12, 14}
    BY <1>11 DEF FailureScreen
  <2>2. s \in Kept /\ s \notin Success
    <3>1. Good(s)
      BY <2>1
    <3>2. s \notin Success
      BY <2>1 DEF Success, Transfers, Recharges, Cash, Budgets, Goals, Beneficiaries,
                  Categories
    <3> QED
      BY <3>1, <3>2 DEF Good
  <2>3. st \in Statuses /\ st \in {"loading", res}
    BY <1>6
  <2>4. s \in Refusals => truth' = "notDone"
    <3>1. CASE why \in {"unavailable", "conflict"}
      BY <3>1 DEF FailureScreen, Refusals, Transfers, Recharges, Cash, Budgets, Goals,
                  Beneficiaries, Categories
    <3>2. CASE why \notin {"unavailable", "conflict"}
      <4>1. why \in {"session", "not_found", "insufficient_funds", "limit_exceeded",
                     "rate_limited", "validation"}
        BY <1>11, <3>2 DEF FailureScreen
      <4>2. e \in Ends
        BY CommonEnds
      <4>3. Truth(f.op, e) = {"notDone"}
        BY <4>1, <4>2, RefusedIsNotDone
      <4> QED
        BY <1>2, <4>3
    <3> QED
      BY <3>1, <3>2
  <2> HIDE DEF s, st
  <2>5. Moves(s)
    BY <1>2, <1>6, <1>11, <2>2, <2>3, GotoWithMoves DEF s, st
  <2> QED
    BY <1>2, <1>4, <1>5, <1>7, <1>11, <2>2, <2>4, <2>5, AnswerKeeps
<1>12. CASE /\ form.live /\ SameActor(f)
            /\ GotoWith(Transfers(13), IF why = "uncertain" THEN "loading" ELSE res, tries)
  <2> DEFINE st == IF why = "uncertain" THEN "loading" ELSE res
  <2>1. Transfers(13) \in Kept /\ Transfers(13) \notin Success \cup Refusals
    BY DEF Good, Success, Refusals, Transfers, Recharges, Cash, Budgets, Goals, Beneficiaries,
           Categories
  <2>2. st \in Statuses /\ st \in {"loading", res}
    BY <1>6
  <2> HIDE DEF st
  <2>3. Moves(Transfers(13))
    BY <1>2, <1>6, <1>12, <2>1, <2>2, GotoWithMoves DEF st
  <2> QED
    BY <1>2, <1>4, <1>5, <1>7, <1>12, <2>1, <2>3, AnswerKeeps
<1> QED
  BY <1>1, <1>8, <1>9, <1>10, <1>11, <1>12

LEMMA TransferFlowKeeps ==
  ASSUME AppInv, TransferFlow
  PROVE  Keeps
<1>1. CASE TransferSettles
  BY <1>1, SeenDraft, EditKeeps DEF TransferSettles
<1>2. CASE TransferRefused
  <2>1. Draft([Seen EXCEPT !.requested = FALSE])
    BY SeenDraft, DraftEdited
  <2>2. NavWith(Transfers(5), [Seen EXCEPT !.requested = FALSE])
    BY <1>2 DEF TransferRefused
  <2> QED
    BY <2>1, <2>2, GoodScreens, NavWithKeeps
<1> QED
  BY <1>1, <1>2, TransferSentKeeps, TransferAnsweredKeeps DEF TransferFlow

-----------------------------------------------------------------------------
(* The answers of the other modules.                                       *)

LEMMA SuccessOfModules ==
  \A n : /\ Recharges(n) \in Success <=> n = 2
         /\ Cash(n) \in Success <=> n \in {4, 5}
         /\ Budgets(n) \in Success <=> n = 9
         /\ Goals(n) \in Success <=> n \in {4, 9}
         /\ Beneficiaries(n) \in Success <=> n \in {5, 10}
         /\ Categories(n) \in Success <=> n = 5
BY DEF Success, Transfers, Recharges, Cash, Budgets, Goals, Beneficiaries, Categories

LEMMA RefusalsOfModules ==
  \A n : /\ Recharges(n) \in Refusals <=> n \in {3, 5, 6}
         /\ Cash(n) \in Refusals <=> n \in {7, 9}
         /\ Budgets(n) \in Refusals <=> n = 10
         /\ Goals(n) \in Refusals <=> n \in {7, 12}
         /\ Beneficiaries(n) \in Refusals <=> n \in {6, 7, 8, 9}
         /\ Categories(n) \in Refusals <=> n \in {6, 7}
BY DEF Refusals, Transfers, Recharges, Cash, Budgets, Goals, Beneficiaries, Categories

\* An answer whose user still sees the screen it was asked for on.
LEMMA AppliedKeeps ==
  ASSUME AppInv, NEW f \in flight, NEW e, End(f, e), Applies(f),
         NEW s \in Kept, Moves(s), Draft(form)',
         s \in Success => e = "ok", s \in Refusals => Truth(f.op, e) = {"notDone"}
  PROVE  Keeps
<1>1. /\ Close(f, e, {}) /\ truth' \in Truth(f.op, e) /\ truth' \in {"done", "notDone"}
  BY EndCloses
<1>2. screen = f.from /\ actor' = f.by
  BY DEF Applies, SameActor
<1>3. e = "ok" => truth' = "done"
  BY <1>1, TruthIsKnown
<1> QED
  BY <1>1, <1>2, <1>3, AnswerKeeps

\* One that only reloads the list, or nothing.
LEMMA LateKeeps ==
  ASSUME AppInv, NEW f \in flight, NEW e, End(f, e), Moves(screen), Draft(form)'
  PROVE  Keeps
<1>1. /\ Close(f, e, {}) /\ truth' \in {"done", "notDone"}
  BY EndCloses
<1> QED
  BY <1>1, AnswerKeeps DEF AppInv, ScreenOK

LEMMA ReloadedKeeps ==
  ASSUME AppInv, NEW f \in flight, NEW e, End(f, e), NEW m,
         GotoReloading(m, screen, tries), Draft(form)'
  PROVE  Keeps
<1>1. screen \in Kept /\ tries \in 0..MaxTries /\ Framed
  BY EndCloses DEF AppInv, ScreenOK
<1>2. Moves(screen)
  BY <1>1, GotoReloadingMoves
<1> QED
  BY <1>2, LateKeeps

LEMMA UnmovedKeeps ==
  ASSUME AppInv, NEW f \in flight, NEW e, End(f, e), Unmoved, Draft(form)'
  PROVE  Keeps
BY EndCloses, StayMoves, LateKeeps

LEMMA DroppedKeeps ==
  ASSUME AppInv, NEW f \in flight, NEW e, End(f, e), Drop
  PROVE  Keeps
BY UnmovedKeeps, FormStays DEF Drop

\* The same for the moves that an answer makes.
LEMMA AppliedGoto ==
  ASSUME AppInv, NEW f \in flight, NEW e, End(f, e), Applies(f),
         NEW s \in Kept, Goto(s), Draft(form)',
         s \in Success => e = "ok", s \in Refusals => Truth(f.op, e) = {"notDone"}
  PROVE  Keeps
BY EndCloses, GotoMoves, AppliedKeeps

LEMMA AppliedReloading ==
  ASSUME AppInv, NEW f \in flight, NEW e, End(f, e), Applies(f),
         NEW m, NEW s \in Kept, GotoReloading(m, s, tries), Draft(form)',
         s \in Success => e = "ok", s \in Refusals => Truth(f.op, e) = {"notDone"}
  PROVE  Keeps
<1>1. tries \in 0..MaxTries /\ Framed
  BY EndCloses DEF AppInv, ScreenOK
<1> QED
  BY <1>1, GotoReloadingMoves, AppliedKeeps

LEMMA BeneficiaryAddedKeeps ==
  ASSUME AppInv, BeneficiaryAdded
  PROVE  Keeps
<1>1. PICK f \in flight, e \in Common \cup {"self", "twice"} :
        /\ f.op = "beneficiaries.create" /\ End(f, e)
        /\ \/ /\ e = "ok" /\ Applies(f)
              /\ form' = [form EXCEPT !.beneficiaryAdded = TRUE]
              /\ GotoReloading("Beneficiaries", Beneficiaries(5), tries)
           \/ /\ e = "ok" /\ ~Applies(f)
              /\ GotoReloading("Beneficiaries", screen, tries) /\ UNCHANGED form
           \/ /\ e # "ok" /\ Applies(f) /\ AddFailureScreen(e) # 0
              /\ Goto(Beneficiaries(AddFailureScreen(e))) /\ UNCHANGED form
           \/ e # "ok" /\ (Applies(f) => AddFailureScreen(e) = 0) /\ Drop
  BY DEF BeneficiaryAdded
<1>2. CASE /\ e = "ok" /\ Applies(f)
           /\ form' = [form EXCEPT !.beneficiaryAdded = TRUE]
           /\ GotoReloading("Beneficiaries", Beneficiaries(5), tries)
  <2>1. Draft([form EXCEPT !.beneficiaryAdded = TRUE])
    BY DraftEdited DEF AppInv, RestOK
  <2>2. Draft(form)'
    BY <1>2, <2>1 DEF Draft
  <2>3. Beneficiaries(5) \in Kept /\ Beneficiaries(5) \notin Refusals
    BY SuccessKept, RefusalsOfModules
  <2> QED
    BY <1>1, <1>2, <2>2, <2>3, AppliedReloading
<1>3. CASE GotoReloading("Beneficiaries", screen, tries) /\ UNCHANGED form
  BY <1>1, <1>3, FormStays, ReloadedKeeps
<1>4. CASE /\ e # "ok" /\ Applies(f) /\ AddFailureScreen(e) # 0
           /\ Goto(Beneficiaries(AddFailureScreen(e))) /\ UNCHANGED form
  <2> DEFINE n == AddFailureScreen(e)
  <2>1. /\ n \in {6, 7, 8, 9, 12}
        /\ Failure(e) \in {"session", "conflict", "not_found", "validation"}
    BY <1>4 DEF AddFailureScreen
  <2>2. Truth(f.op, e) = {"notDone"}
    BY <1>1, <2>1, CommonEnds, RefusedIsNotDone DEF Keyed
  <2>3. n \in 1..14 /\ n \notin {5, 10}
    BY <2>1
  <2> HIDE DEF n
  <2>4. Beneficiaries(n) \in Kept /\ Beneficiaries(n) \notin Success
    BY <2>3, GoodScreens, SuccessOfModules DEF Good
  <2> QED
    BY <1>1, <1>4, <2>2, <2>4, FormStays, AppliedGoto DEF n
<1> QED
  BY <1>1, <1>2, <1>3, <1>4, DroppedKeeps

LEMMA BeneficiaryDeletedKeeps ==
  ASSUME AppInv, BeneficiaryDeleted
  PROVE  Keeps
<1> USE GoodScreens DEF Good
<1>1. PICK f \in flight, e \in Common :
        LET gone == e = "ok" \/ Failure(e) = "not_found"
        IN /\ f.op = "beneficiaries.remove" /\ End(f, e)
           /\ \/ /\ gone /\ Applies(f)
                 /\ form' = [form EXCEPT !.beneficiary = FALSE]
                 /\ GotoReloading("Beneficiaries", Beneficiaries(IF e = "ok" THEN 10 ELSE 1),
                                  tries)
              \/ /\ e = "ok" /\ ~Applies(f)
                 /\ GotoReloading("Beneficiaries", screen, tries) /\ UNCHANGED form
              \/ /\ Applies(f) /\ Failure(e) = "session"
                 /\ Goto(Beneficiaries(11)) /\ UNCHANGED form
              \/ e # "ok" /\ (Applies(f) => Failure(e) \notin {"session", "not_found"}) /\ Drop
  BY DEF BeneficiaryDeleted
<1>2. CASE /\ Applies(f) /\ form' = [form EXCEPT !.beneficiary = FALSE]
           /\ GotoReloading("Beneficiaries", Beneficiaries(IF e = "ok" THEN 10 ELSE 1), tries)
  <2>1. Draft([form EXCEPT !.beneficiary = FALSE])
    BY DraftEdited DEF AppInv, RestOK
  <2>2. Draft(form)'
    BY <1>2, <2>1 DEF Draft
  <2> DEFINE n == IF e = "ok" THEN 10 ELSE 1
  <2>3. Beneficiaries(n) \in Kept /\ Beneficiaries(n) \notin Refusals
    BY SuccessKept, RefusalsOfModules
  <2>4. Beneficiaries(n) \in Success => e = "ok"
    BY SuccessOfModules
  <2> HIDE DEF n
  <2> QED
    BY <1>1, <1>2, <2>2, <2>3, <2>4, AppliedReloading DEF n
<1>3. CASE GotoReloading("Beneficiaries", screen, tries) /\ UNCHANGED form
  BY <1>1, <1>3, FormStays, ReloadedKeeps
<1>4. CASE Applies(f) /\ Goto(Beneficiaries(11)) /\ UNCHANGED form
  <2>1. Beneficiaries(11) \in Kept /\ Beneficiaries(11) \notin Success \cup Refusals
    BY SuccessOfModules, RefusalsOfModules
  <2> QED
    BY <1>1, <1>4, <2>1, FormStays, AppliedGoto
<1> QED
  BY <1>1, <1>2, <1>3, <1>4, DroppedKeeps

LEMMA RechargeFlowKeeps ==
  ASSUME AppInv, RechargeFlow
  PROVE  Keeps
<1> USE GoodScreens DEF Good
<1>1. CASE RechargeAnswered
  <2>1. PICK f \in flight, e \in Common \cup {"locked", "noMethod"} :
          /\ f.op = "recharge" /\ truth' \in Truth(f.op, e)
          /\ Close(f, e, IF e = "ok" /\ Applies(f) THEN {[f EXCEPT !.op = "recharge.balance"]}
                         ELSE {})
          /\ LET why == Failure(e)
             IN \/ (Applies(f) => e \in {"ok", "noMethod"}) /\ Drop
                \/ /\ Applies(f) /\ e \notin {"ok", "noMethod"} /\ UNCHANGED form
                   /\ IF why = "uncertain" THEN GotoReloading("Recharges", Recharges(7), tries)
                      ELSE Goto(Recharges(IF why \in DOMAIN RechargeFailureScreen
                                          THEN RechargeFailureScreen[why] ELSE 7))
    BY <1>1 DEF RechargeAnswered
  <2> DEFINE next == IF e = "ok" /\ Applies(f) THEN {[f EXCEPT !.op = "recharge.balance"]}
                     ELSE {}
             why == Failure(e)
             n == IF why \in DOMAIN RechargeFailureScreen THEN RechargeFailureScreen[why] ELSE 7
  <2>2. Close(f, e, next) /\ truth' \in {"done", "notDone"} /\ Framed
    BY <2>1, TruthIsKnown DEF Close, Framed
  <2>3. \A g \in next : InFlight(g)
    <3>1. InFlight(f)
      BY DEF AppInv, RestOK
    <3> DEFINE g == [f EXCEPT !.op = "recharge.balance"]
    <3>2. g = [op |-> "recharge.balance", from |-> f.from, by |-> f.by]
      BY <3>1 DEF InFlight
    <3>3. InFlight(g)
      BY <3>1, <3>2 DEF InFlight
    <3> QED
      BY <3>3
  <2>4. screen \in Kept /\ tries \in 0..MaxTries
    BY DEF AppInv, ScreenOK
  <2>5. CASE Drop
    <3>1. Moves(screen) /\ Draft(form)'
      BY <2>2, <2>5, StayMoves, FormStays DEF Drop
    <3> HIDE DEF next
    <3> QED
      BY <2>2, <2>3, <2>4, <3>1, AnswerKeeps
  <2>6. CASE /\ Applies(f) /\ e \notin {"ok", "noMethod"} /\ UNCHANGED form
             /\ IF why = "uncertain" THEN GotoReloading("Recharges", Recharges(7), tries)
                ELSE Goto(Recharges(n))
    <3>1. End(f, e) /\ Draft(form)'
      BY <2>1, <2>6, FormStays DEF End
    <3>2. CASE GotoReloading("Recharges", Recharges(7), tries)
      <4>1. Recharges(7) \in Kept /\ Recharges(7) \notin Success \cup Refusals
        BY SuccessOfModules, RefusalsOfModules
      <4> QED
        BY <2>6, <3>1, <3>2, <4>1, AppliedReloading
    <3>3. CASE Goto(Recharges(n))
      <4>1. /\ n \in {3, 4, 5, 6, 7}
            /\ n # 7 => why \in {"session", "validation", "limit_exceeded", "rate_limited"}
        BY DEF RechargeFailureScreen
      <4>2. n \in 1..10 /\ n # 2
        BY <4>1
      <4>3. n # 7 => Truth(f.op, e) = {"notDone"}
        BY <4>1, CommonEnds, RefusedIsNotDone
      <4> HIDE DEF n
      <4>4. /\ Recharges(n) \in Kept /\ Recharges(n) \notin Success
            /\ Recharges(n) \in Refusals => n # 7
        BY <4>2, SuccessOfModules, RefusalsOfModules
      <4> QED
        BY <2>6, <3>1, <3>3, <4>3, <4>4, AppliedGoto
    <3> QED
      BY <2>6, <3>2, <3>3
  <2> QED
    BY <2>1, <2>5, <2>6
<1>2. CASE RechargeBalanceAnswered
  <2>1. PICK f \in flight, e \in {"ok", "401", "500"} :
          /\ f.op = "recharge.balance" /\ Close(f, e, {}) /\ truth' = "done"
          /\ \/ ~Applies(f) /\ Drop
             \/ /\ Applies(f)
                /\ form' = [form EXCEPT !.rechargeResult = TRUE]
                /\ GotoReloading("Recharges", Recharges(2), tries)
    BY <1>2 DEF RechargeBalanceAnswered
  <2>2. CASE Drop
    BY <2>1, <2>2, FormStays, DropKeeps DEF Drop
  <2>3. CASE /\ Applies(f)
             /\ form' = [form EXCEPT !.rechargeResult = TRUE]
             /\ GotoReloading("Recharges", Recharges(2), tries)
    <3>1. Draft([form EXCEPT !.rechargeResult = TRUE])
      BY DraftEdited DEF AppInv, RestOK
    <3>2. Draft(form)'
      BY <2>3, <3>1 DEF Draft
    <3>3. Recharges(2) \in Kept /\ Recharges(2) \notin Refusals
      BY SuccessKept, RefusalsOfModules
    <3>4. Framed /\ tries \in 0..MaxTries
      BY <2>1 DEF Close, Framed, AppInv, ScreenOK
    <3>5. Moves(Recharges(2))
      BY <2>3, <3>3, <3>4, GotoReloadingMoves
    <3>6. screen = f.from /\ actor' = f.by
      BY <2>3 DEF Applies, SameActor
    <3> QED
      BY <2>1, <3>2, <3>3, <3>5, <3>6, AnswerKeeps
  <2> QED
    BY <2>1, <2>2, <2>3
<1> QED
  BY <1>1, <1>2 DEF RechargeFlow

LEMMA CategorySavedKeeps ==
  ASSUME AppInv, CategorySaved
  PROVE  Keeps
<1> USE GoodScreens DEF Good
<1>1. PICK f \in flight, e \in Common :
        LET route == CategoryRoute(Failure(e), f.op = "categories.create")
        IN /\ f.op \in {"categories.create", "categories.update"} /\ End(f, e)
           /\ \/ /\ e = "ok" /\ Applies(f)
                 /\ form' = [form EXCEPT !.systemCategory = FALSE]
                 /\ GotoReloading("Categories",
                                  Categories(IF f.op = "categories.update" THEN 1 ELSE 5), tries)
              \/ /\ e = "ok" /\ ~Applies(f)
                 /\ GotoReloading("Categories", screen, tries) /\ UNCHANGED form
              \/ /\ e # "ok" /\ Applies(f) /\ UNCHANGED form
                 /\ \/ route = "conflict" /\ Goto(Categories(6))
                    \/ route = "validation" /\ Goto(Categories(7))
                    \/ route = "reload" /\ GotoReloading("Categories", Categories(1), tries)
                    \/ route \in {"session", "stay"} /\ Unmoved
              \/ e # "ok" /\ ~Applies(f) /\ Drop
  BY DEF CategorySaved
<1> DEFINE route == CategoryRoute(Failure(e), f.op = "categories.create")
<1>2. CASE /\ e = "ok" /\ Applies(f)
           /\ form' = [form EXCEPT !.systemCategory = FALSE]
           /\ GotoReloading("Categories",
                            Categories(IF f.op = "categories.update" THEN 1 ELSE 5), tries)
  <2>1. Draft([form EXCEPT !.systemCategory = FALSE])
    BY DraftEdited DEF AppInv, RestOK
  <2>2. Draft(form)'
    BY <1>2, <2>1 DEF Draft
  <2> DEFINE n == IF f.op = "categories.update" THEN 1 ELSE 5
  <2>3. Categories(n) \in Kept /\ Categories(n) \notin Refusals
    BY SuccessKept, RefusalsOfModules
  <2> HIDE DEF n
  <2> QED
    BY <1>1, <1>2, <2>2, <2>3, AppliedReloading DEF n
<1>3. CASE GotoReloading("Categories", screen, tries) /\ UNCHANGED form
  BY <1>1, <1>3, FormStays, ReloadedKeeps
<1>4. CASE /\ Applies(f) /\ UNCHANGED form
           /\ \/ route = "conflict" /\ Goto(Categories(6))
              \/ route = "validation" /\ Goto(Categories(7))
  <2>1. Failure(e) \in {"conflict", "validation"}
    BY <1>4 DEF CategoryRoute
  <2>2. Truth(f.op, e) = {"notDone"}
    BY <1>1, <2>1, CommonEnds, RefusedIsNotDone DEF Keyed
  <2>3. /\ Categories(6) \in Kept /\ Categories(6) \notin Success
        /\ Categories(7) \in Kept /\ Categories(7) \notin Success
    BY SuccessOfModules
  <2> QED
    BY <1>1, <1>4, <2>2, <2>3, FormStays, AppliedGoto
<1>5. CASE /\ Applies(f) /\ UNCHANGED form
           /\ GotoReloading("Categories", Categories(1), tries)
  <2>1. Categories(1) \in Kept /\ Categories(1) \notin Success \cup Refusals
    BY SuccessOfModules, RefusalsOfModules
  <2> QED
    BY <1>1, <1>5, <2>1, FormStays, AppliedReloading
<1>6. CASE UNCHANGED form /\ Unmoved
  BY <1>1, <1>6, FormStays, UnmovedKeeps
<1> QED
  BY <1>1, <1>2, <1>3, <1>4, <1>5, <1>6, DroppedKeeps

LEMMA CategoryDeactivatedKeeps ==
  ASSUME AppInv, CategoryDeactivated
  PROVE  Keeps
<1>1. PICK f \in flight, e \in Common :
        /\ f.op = "categories.deactivate" /\ End(f, e) /\ UNCHANGED form
        /\ \/ e = "ok" /\ GotoReloading("Categories",
                                        IF Applies(f) THEN Categories(1) ELSE screen, tries)
           \/ /\ e # "ok" /\ Applies(f) /\ CategoryRoute(Failure(e), FALSE) = "reload"
              /\ GotoReloading("Categories", Categories(1), tries)
           \/ /\ e # "ok" /\ (Applies(f) => CategoryRoute(Failure(e), FALSE) # "reload")
              /\ Unmoved
  BY DEF CategoryDeactivated
<1>2. Categories(1) \in Kept /\ Categories(1) \notin Success \cup Refusals
  BY GoodScreens, SuccessOfModules, RefusalsOfModules DEF Good
<1>3. CASE Applies(f) /\ GotoReloading("Categories", Categories(1), tries)
  BY <1>1, <1>2, <1>3, FormStays, AppliedReloading
<1>4. CASE GotoReloading("Categories", screen, tries)
  BY <1>1, <1>4, FormStays, ReloadedKeeps
<1>5. CASE Unmoved
  BY <1>1, <1>5, FormStays, UnmovedKeeps
<1> QED
  BY <1>1, <1>3, <1>4, <1>5

LEMMA CashAnsweredKeeps ==
  ASSUME AppInv, CashAnswered
  PROVE  Keeps
<1> USE GoodScreens DEF Good
<1>1. PICK f \in flight, e \in Common \cup {"short", "noCategory"} :
        LET to == IF e = "ok" THEN Cash(IF f.op = "cash.income" THEN 4 ELSE 5)
                  ELSE IF CashFailureScreen(e) = 0 THEN screen ELSE Cash(CashFailureScreen(e))
            shown == IF Applies(f) THEN to ELSE screen
        IN /\ f.op \in CashOps /\ (e = "short" => f.op = "cash.expense") /\ End(f, e)
           /\ \/ /\ e = "ok"
                 /\ form' = [form EXCEPT !.cashResult = TRUE, !.cashDraft = "none"]
                 /\ GotoReloading("Cash", shown, tries)
              \/ /\ e = "short" /\ UNCHANGED form
                 /\ GotoReloading("Cash", shown, tries)
              \/ /\ e \notin {"ok", "short"} /\ UNCHANGED form
                 /\ Goto(shown)
  BY DEF CashAnswered
<1> DEFINE paid == Cash(IF f.op = "cash.income" THEN 4 ELSE 5)
           n == CashFailureScreen(e)
           to == IF e = "ok" THEN paid ELSE IF n = 0 THEN screen ELSE Cash(n)
           shown == IF Applies(f) THEN to ELSE screen
<1>2. Draft(form)'
  <2> DEFINE once == [form EXCEPT !.cashResult = TRUE]
             done == [form EXCEPT !.cashResult = TRUE, !.cashDraft = "none"]
  <2>1. Draft(once)
    BY DraftEdited DEF AppInv, RestOK
  <2>2. done = [once EXCEPT !.cashDraft = "none"]
    OBVIOUS
  <2>3. form' = done \/ UNCHANGED form
    BY <1>1
  <2> HIDE DEF once, done
  <2>4. Draft(done)
    BY <2>1, <2>2, DraftEdited DEF CashDrafts
  <2> QED
    BY <2>3, <2>4, FormStays DEF Draft
<1>3. End(f, e) /\ (GotoReloading("Cash", shown, tries) \/ Goto(shown))
  BY <1>1
<1>4. paid \in Kept /\ paid \notin Refusals
  BY SuccessKept, RefusalsOfModules
<1>5. ASSUME e # "ok", n # 0
      PROVE  /\ Cash(n) \in Kept /\ Cash(n) \notin Success
             /\ Cash(n) \in Refusals => Truth(f.op, e) = {"notDone"}
  <2>1. /\ n \in {7, 8, 9, 10, 11}
        /\ n = 7 => Failure(e) = "insufficient_funds"
        /\ n = 9 => e = "noCategory"
    BY <1>5 DEF CashFailureScreen
  <2>2. n \in 1..12 /\ n \notin {4, 5}
    BY <2>1
  <2>3. n = 7 => Truth(f.op, e) = {"notDone"}
    BY <2>1, CommonEnds, RefusedIsNotDone
  <2>4. n = 9 => Truth(f.op, e) = {"notDone"}
    BY <2>1 DEF Truth
  <2> HIDE DEF n
  <2> QED
    BY <2>2, <2>3, <2>4, SuccessOfModules, RefusalsOfModules
<1> HIDE DEF paid, n
<1>6. screen \in Kept /\ tries \in 0..MaxTries /\ Framed
  BY <1>3, EndCloses DEF AppInv, ScreenOK
<1>7. shown \in Kept
  BY <1>4, <1>5, <1>6
<1> HIDE DEF shown
<1>8. Moves(shown)
  BY <1>3, <1>6, <1>7, GotoMoves, GotoReloadingMoves
<1>9. CASE shown = screen
  BY <1>2, <1>3, <1>8, <1>9, LateKeeps
<1>10. CASE shown # screen
  <2>1. Applies(f) /\ shown = to
    BY <1>10 DEF shown
  <2>2. shown \in Success => e = "ok"
    BY <1>5, <1>10, <2>1
  <2>3. shown \in Refusals => Truth(f.op, e) = {"notDone"}
    BY <1>4, <1>5, <1>10, <2>1
  <2> QED
    BY <1>2, <1>3, <1>7, <1>8, <2>1, <2>2, <2>3, AppliedKeeps
<1> QED
  BY <1>9, <1>10

LEMMA BudgetAnsweredKeeps ==
  ASSUME AppInv, BudgetAnswered
  PROVE  Keeps
<1> USE GoodScreens DEF Good
<1>1. PICK f \in flight, e \in Common :
        LET why == Failure(e)
        IN /\ f.op \in BudgetOps /\ End(f, e)
           /\ \/ /\ e = "ok" /\ Applies(f)
                 /\ form' = [form EXCEPT !.budgetDraft = "none",
                                         !.budget = @ \/ f.op = "budgets.update"]
                 /\ GotoReloading("Budgets",
                                  Budgets(IF f.op = "budgets.create" THEN 9 ELSE 1), tries)
              \/ /\ e = "ok" /\ ~Applies(f) /\ UNCHANGED form
                 /\ GotoReloading("Budgets", screen, tries)
              \/ e # "ok" /\ ~Applies(f) /\ Drop
              \/ /\ e # "ok" /\ Applies(f) /\ why = "not_found"
                 /\ form' = [form EXCEPT !.budget = FALSE]
                 /\ GotoReloading("Budgets", Budgets(1), tries)
              \/ e # "ok" /\ Applies(f) /\ why \in {"validation", "forbidden"} /\ Drop
              \/ /\ e # "ok" /\ Applies(f) /\ why \notin {"not_found", "validation", "forbidden"}
                 /\ Goto(Budgets(CASE why = "session" -> 13 [] why = "conflict" -> 10
                                   [] OTHER -> 12))
                 /\ UNCHANGED form
  BY DEF BudgetAnswered
<1> DEFINE why == Failure(e)
<1>2. CASE /\ e = "ok" /\ Applies(f)
           /\ form' = [form EXCEPT !.budgetDraft = "none",
                                   !.budget = @ \/ f.op = "budgets.update"]
           /\ GotoReloading("Budgets", Budgets(IF f.op = "budgets.create" THEN 9 ELSE 1), tries)
  <2> DEFINE once == [form EXCEPT !.budgetDraft = "none"]
             done == [form EXCEPT !.budgetDraft = "none",
                                  !.budget = @ \/ f.op = "budgets.update"]
             known == once.budget \/ f.op = "budgets.update"
  <2>1. Draft(once)
    BY DraftEdited DEF AppInv, RestOK, BudgetDrafts
  <2>2. done = [once EXCEPT !.budget = known]
    OBVIOUS
  <2> HIDE DEF once, known
  <2>3. Draft([once EXCEPT !.budget = known])
    BY <2>1, DraftEdited
  <2>4. Draft(form)'
    BY <1>2, <2>2, <2>3 DEF Draft
  <2> DEFINE n == IF f.op = "budgets.create" THEN 9 ELSE 1
  <2>5. Budgets(n) \in Kept /\ Budgets(n) \notin Refusals
    BY SuccessKept, RefusalsOfModules
  <2> HIDE DEF n
  <2> QED
    BY <1>1, <1>2, <2>4, <2>5, AppliedReloading DEF n
<1>3. CASE GotoReloading("Budgets", screen, tries) /\ UNCHANGED form
  BY <1>1, <1>3, FormStays, ReloadedKeeps
<1>4. CASE /\ Applies(f) /\ form' = [form EXCEPT !.budget = FALSE]
           /\ GotoReloading("Budgets", Budgets(1), tries)
  <2>1. Draft([form EXCEPT !.budget = FALSE])
    BY DraftEdited DEF AppInv, RestOK
  <2>2. Draft(form)'
    BY <1>4, <2>1 DEF Draft
  <2>3. Budgets(1) \in Kept /\ Budgets(1) \notin Success \cup Refusals
    BY SuccessOfModules, RefusalsOfModules
  <2> QED
    BY <1>1, <1>4, <2>2, <2>3, AppliedReloading
<1>5. CASE /\ Applies(f) /\ UNCHANGED form
           /\ Goto(Budgets(CASE why = "session" -> 13 [] why = "conflict" -> 10 [] OTHER -> 12))
  <2> DEFINE n == CASE why = "session" -> 13 [] why = "conflict" -> 10 [] OTHER -> 12
  <2>1. n \in {10, 12, 13} /\ (n = 10 => why = "conflict")
    OBVIOUS
  <2>2. n = 10 => Truth(f.op, e) = {"notDone"}
    BY <1>1, <2>1, CommonEnds, RefusedIsNotDone DEF BudgetOps, Keyed
  <2> HIDE DEF n
  <2>3. n \in 1..13 /\ n # 9
    BY <2>1
  <2>4. Budgets(n) \in Kept /\ Budgets(n) \notin Success /\ (Budgets(n) \in Refusals => n = 10)
    BY <2>3, SuccessOfModules, RefusalsOfModules
  <2> QED
    BY <1>1, <1>5, <2>2, <2>4, FormStays, AppliedGoto DEF n
<1> QED
  BY <1>1, <1>2, <1>3, <1>4, <1>5, DroppedKeeps

LEMMA GoalAnsweredKeeps ==
  ASSUME AppInv, GoalAnswered
  PROVE  Keeps
<1> USE GoodScreens DEF Good
<1>1. PICK f \in flight, e \in Common \cup {"badDate"} :
        LET creating == f.op = "goals.create"
            to == GoalFailureScreen(creating, e)
        IN /\ f.op \in GoalOps /\ End(f, e)
           /\ \/ /\ e = "ok" /\ Applies(f)
                 /\ form' = [form EXCEPT !.goalDraft = "none", !.goal = @ \/ ~creating]
                 /\ GotoReloading("Goals", Goals(IF creating THEN 4 ELSE 9), tries)
              \/ /\ e = "ok" /\ ~Applies(f) /\ UNCHANGED form
                 /\ GotoReloading("Goals", screen, tries)
              \/ e # "ok" /\ (Applies(f) => to = 0) /\ Drop
              \/ /\ e # "ok" /\ Applies(f) /\ Failure(e) = "not_found"
                 /\ form' = [form EXCEPT !.goal = @ /\ creating]
                 /\ GotoReloading("Goals", Goals(to), tries)
              \/ /\ e # "ok" /\ Applies(f) /\ to # 0 /\ Failure(e) # "not_found"
                 /\ Goto(Goals(to)) /\ UNCHANGED form
  BY DEF GoalAnswered
<1> DEFINE creating == f.op = "goals.create"
           to == GoalFailureScreen(creating, e)
<1>2. CASE /\ e = "ok" /\ Applies(f)
           /\ form' = [form EXCEPT !.goalDraft = "none", !.goal = @ \/ ~creating]
           /\ GotoReloading("Goals", Goals(IF creating THEN 4 ELSE 9), tries)
  <2> DEFINE once == [form EXCEPT !.goalDraft = "none"]
             done == [form EXCEPT !.goalDraft = "none", !.goal = @ \/ ~creating]
             known == once.goal \/ ~creating
  <2>1. Draft(once)
    BY DraftEdited DEF AppInv, RestOK
  <2>2. done = [once EXCEPT !.goal = known]
    OBVIOUS
  <2> HIDE DEF once, known
  <2>3. Draft([once EXCEPT !.goal = known])
    BY <2>1, DraftEdited
  <2>4. Draft(form)'
    BY <1>2, <2>2, <2>3 DEF Draft
  <2> DEFINE n == IF creating THEN 4 ELSE 9
  <2>5. Goals(n) \in Kept /\ Goals(n) \notin Refusals
    BY SuccessKept, RefusalsOfModules
  <2> HIDE DEF n
  <2> QED
    BY <1>1, <1>2, <2>4, <2>5, AppliedReloading DEF n
<1>3. CASE GotoReloading("Goals", screen, tries) /\ UNCHANGED form
  BY <1>1, <1>3, FormStays, ReloadedKeeps
<1>4. ASSUME to # 0, e # "ok"
      PROVE  /\ Goals(to) \in Kept /\ Goals(to) \notin Success
             /\ Goals(to) \in Refusals => Truth(f.op, e) = {"notDone"}
  <2>1. /\ to \in {1, 5, 6, 7, 8, 11, 12, 13}
        /\ to = 7 => Failure(e) = "validation"
        /\ to = 12 => Failure(e) = "not_found"
    BY <1>4 DEF GoalFailureScreen
  <2>2. to \in {7, 12} => Truth(f.op, e) = {"notDone"}
    BY <2>1, CommonEnds, RefusedIsNotDone
  <2>3. to \in 1..13 /\ to \notin {4, 9}
    BY <2>1
  <2> HIDE DEF to
  <2> QED
    BY <2>2, <2>3, SuccessOfModules, RefusalsOfModules
<1>5. CASE /\ e # "ok" /\ Applies(f) /\ Failure(e) = "not_found"
           /\ form' = [form EXCEPT !.goal = @ /\ creating]
           /\ GotoReloading("Goals", Goals(to), tries)
  <2> DEFINE known == form.goal /\ creating
  <2>1. form' = [form EXCEPT !.goal = known]
    BY <1>5
  <2>2. Draft([form EXCEPT !.goal = known])
    <3> HIDE DEF known
    <3> QED
      BY DraftEdited DEF AppInv, RestOK
  <2>3. Draft(form)'
    BY <2>1, <2>2 DEF Draft
  <2>4. to # 0
    BY <1>5 DEF GoalFailureScreen
  <2> HIDE DEF to
  <2> QED
    BY <1>1, <1>4, <1>5, <2>3, <2>4, AppliedReloading
<1>6. CASE /\ e # "ok" /\ Applies(f) /\ to # 0
           /\ Goto(Goals(to)) /\ UNCHANGED form
  <2> HIDE DEF to
  <2> QED
    BY <1>1, <1>4, <1>6, FormStays, AppliedGoto
<1> QED
  BY <1>1, <1>2, <1>3, <1>5, <1>6, DroppedKeeps

-----------------------------------------------------------------------------
(* The invariant.                                                          *)

LEMMA InitAppInv == Init => AppInv
<1> SUFFICES ASSUME Init
             PROVE  AppInv
  OBVIOUS
<1>1. PICK b \in Builds : mode = b[1] /\ focus = b[2]
  BY DEF Init
<1>2. build = b /\ build \in Builds
  <2>1. b \in {"demo", "real", "academic"} \X (DOMAIN Count \cup {"Module1"})
    BY BuildsAssumption
  <2> QED
    BY <1>1, <2>1 DEF build
<1>3. /\ MaxBack[build] \in Nat /\ MaxSends[build] \in Nat /\ MaxUpsets[build] \in Nat
  BY <1>2, BuildsAssumption
<1>4. /\ history = <<>> /\ actor = Nobody /\ res = "loading" /\ tries = 0
      /\ flight = {} /\ truth = "none" /\ sends = 0 /\ upsets = 0
      /\ gate \in IF mode = "demo" THEN {"ready"} ELSE {"loading", "configuration"}
      /\ screen = IF mode = "demo" THEN Access(1) ELSE Movements(1)
  BY DEF Init
<1>5. screen \in Kept
  <2>1. Access(1) \in AppStates /\ Good(Movements(1))
    BY Counts, ScreensOfModules, GoodScreens DEF Access
  <2> QED
    BY <1>4, <2>1 DEF Kept, Good, Real
<1>6. ScreenOK
  <2>1. AtRest
    BY <1>4 DEF AtRest, realReady, Real
  <2>2. history \in Seq(Kept) /\ Len(history) <= MaxBack[build]
    BY <1>3, <1>4
  <2>3. res \in Statuses /\ tries \in 0..MaxTries
    BY <1>4 DEF Statuses, MaxTries
  <2> QED
    BY <1>5, <2>1, <2>2, <2>3 DEF ScreenOK
<1>7. Draft(form)
  BY DEF Init, Draft, CashDrafts, BudgetDrafts
<1>8. RestOK
  BY <1>2, <1>3, <1>4, <1>7 DEF RestOK, Actors
<1> QED
  BY <1>6, <1>8 DEF AppInv

LEMMA StepKeeps ==
  ASSUME AppInv, Next
  PROVE  Keeps
<1>1. CASE Answers
  BY <1>1, BeneficiaryAddedKeeps, BeneficiaryDeletedKeeps, CategorySavedKeeps,
     CategoryDeactivatedKeeps, RechargeFlowKeeps, CashAnsweredKeeps, BudgetAnsweredKeeps,
     GoalAnsweredKeeps DEF Answers, BeneficiariesFlow, CategoriesFlow
<1> QED
  BY <1>1, SectionsKeep, TransferFlowKeeps, ListLoadsKeeps, SessionKeeps, BackKeeps, JumpKeeps
  DEF Next

LEMMA StutterKeeps ==
  ASSUME AppInv, UNCHANGED vars
  PROVE  Keeps
<1>1. /\ Framed /\ Unmoved /\ UNCHANGED <<form, flight, sends, actor, truth, upsets>>
  BY DEF vars, Framed, Unmoved
<1> QED
  BY <1>1, FrameKeeps DEF AppInv, RestOK

LEMMA InvariantHolds == Spec => []AppInv
<1>1. AppInv /\ [Next]_vars => AppInv'
  BY StepKeeps, StutterKeeps DEF Keeps
<1> QED
  BY <1>1, InitAppInv, PTL DEF Spec

-----------------------------------------------------------------------------
(* Theorems.                                                               *)

\* Whatever the user taps and the server answers, the app shows a screen that
\* exists, its retries stay below their limit, and nobody but a user or nobody is
\* the author of a write.
THEOREM AppTypes == Spec => []TypeOK
<1>1. AppInv => TypeOK
  <2> SUFFICES ASSUME AppInv
               PROVE  TypeOK
    OBVIOUS
  <2>1. history \in Seq(AppStates) /\ Len(history) <= MaxBack[build]
    BY DEF AppInv, ScreenOK, Kept
  <2>2. \A f \in flight : f.from \in AppStates /\ f.by \in Users \cup {Nobody}
    BY DEF AppInv, RestOK, InFlight, Actors
  <2> QED
    BY <2>1, <2>2 DEF TypeOK, AppInv, ScreenOK, RestOK, Draft, Kept, Statuses, Actors
<1> QED
  BY <1>1, InvariantHolds, PTL

\* A real build neither shows a screen of DEMO nor keeps one for Back: no button,
\* effect, answer or Back of the app leads there (the DEV bar, which leads anywhere,
\* is drawn in DEMO only, App.tsx:2146-2151).
THEOREM DemoStaysInDemo == Spec => []NoDemoScreens
<1>1. AppInv => NoDemoScreens
  <2> SUFFICES ASSUME AppInv, Real
               PROVE  ({screen} \cup Range(history)) \cap DemoOnly = {}
    BY DEF NoDemoScreens
  <2>1. screen \in Kept /\ \A i \in DOMAIN history : history[i] \in Kept
    BY DEF AppInv, ScreenOK
  <2> QED
    BY <2>1 DEF Kept, Range
<1> QED
  BY <1>1, InvariantHolds, PTL

\* An answer moves the user only on the screen, and in the session, in which it was
\* asked for; a late one at most shows that the list loads again.
THEOREM LateAnswersAreHarmless == Spec => LateAnswersMoveNobody
<1>1. AppInv /\ [Next]_vars =>
        [\A f \in Ended : screen' \in {screen, Redirect(screen, "loading", TRUE)}
                          \/ (screen = f.from /\ actor' = f.by)]_vars
  BY StepKeeps DEF Keeps, LateStep
<1> QED
  BY <1>1, InvariantHolds, PTL DEF Spec, LateAnswersMoveNobody

\* Outside DEMO a screen of success is entered with the answer of a write that was
\* done, by the user who asked for it, or with Back.
THEOREM SuccessHasItsAnswer == Spec => SuccessIsEarned
<1>1. AppInv /\ [Next]_vars =>
        [Real /\ screen' # screen /\ screen' \in Success =>
           WentBack \/ (truth' = "done" /\ \E f \in Ended : f.by = actor')]_vars
  BY StepKeeps DEF Keeps, EarnedStep
<1> QED
  BY <1>1, InvariantHolds, PTL DEF Spec, SuccessIsEarned

\* A screen of refusal is entered only with the answer of a write that was not done.
THEOREM RefusalsTellTheTruth == Spec => RefusalsAreTrue
<1>1. AppInv /\ [Next]_vars =>
        [\A f \in Ended : screen' # screen /\ screen' \in Refusals => truth' = "notDone"]_vars
  BY StepKeeps DEF Keeps, TrueStep
<1> QED
  BY <1>1, InvariantHolds, PTL DEF Spec, RefusalsAreTrue
=============================================================================
