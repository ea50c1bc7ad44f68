---------------------------- MODULE GoalsScreens ----------------------------
(***************************************************************************)
(* The savings goals of App.tsx: the screens Goals_01 to Goals_13, and the *)
(* handlers that create a goal and change one.                             *)
(***************************************************************************)
EXTENDS AppShell

GoalOp == [create |-> "goals.create", update |-> "goals.update"]
GoalOps == {"goals.create", "goals.update"}

\* The draft is kept before anything is checked.  One at a time, of either kind.
submitGoal(draft) ==
  LET drafted == [form EXCEPT !.goalDraft = draft]
  IN \/ ~Real /\ NavWith(Goals(IF draft = "create" THEN 4 ELSE 9), drafted)
     \/ Real /\ draft = "update" /\ ~form.goal /\ NavWith(Goals(1), drafted)
     \/ /\ Real /\ (draft = "update" => form.goal)
        /\ \/ Submitting(GoalOps) /\ Edit(drafted)
           \/ focus = "Goals" /\ Submit(GoalOp[draft], GoalOps, drafted)

handleCreateGoal == submitGoal("create")

handleUpdateGoal ==
  \/ ~form.goal /\ Nav(Goals(1))
  \/ form.goal /\ submitGoal("update")

\* Whichever of the two the draft was of.
retryCreateGoal ==
  \/ form.goalDraft = "none" /\ Nav(Goals(5))
  \/ form.goalDraft # "none" /\ submitGoal("create")

retryUpdateGoal ==
  \/ form.goalDraft = "none" /\ Nav(Goals(1))
  \/ form.goalDraft # "none" /\ submitGoal("update")

-----------------------------------------------------------------------------
(* Screens.                                                                *)

\* A message while loading; selecting a goal forgets the draft of another.
Goals01Screen ==
  /\ Status("Goals") # "loading"
  /\ \/ Tap(Goals(1), {Movements(1), Goals(5)})
     \/ /\ At(Goals(1)) /\ Status("Goals") = "entries"
        /\ NavWith(Goals(10), [form EXCEPT !.goal = TRUE, !.goalDraft = "none"])

BackToGoals(n) == At(Goals(n)) /\ NavReloading(Goals(1))

Goals02Screen == Tap(Goals(2), {Movements(1)})
Goals03Screen == BackToGoals(3)
Goals04Screen == BackToGoals(4)

Goals05Screen ==
  \/ Tap(Goals(5), {Goals(1)})
  \/ At(Goals(5)) /\ ~Submitting(GoalOps) /\ handleCreateGoal

Goals06Screen == Tap(Goals(6), {Movements(1)})
Goals07Screen == Tap(Goals(7), {Goals(IF form.goalDraft = "update" THEN 10 ELSE 5)})
Goals08Screen == At(Goals(8)) /\ retryCreateGoal
Goals09Screen == BackToGoals(9)

Goals10Screen ==
  \/ Tap(Goals(10), {Goals(1)})
  \/ At(Goals(10)) /\ ~Submitting(GoalOps) /\ handleUpdateGoal

Goals11Screen == Tap(Goals(11), {Movements(1)})
Goals12Screen == BackToGoals(12) \/ Tap(Goals(12), {Movements(1)})
Goals13Screen == At(Goals(13)) /\ retryUpdateGoal

GoalsSection ==
  \/ Goals01Screen \/ Goals02Screen \/ Goals03Screen \/ Goals04Screen \/ Goals05Screen
  \/ Goals06Screen \/ Goals07Screen \/ Goals08Screen \/ Goals09Screen \/ Goals10Screen
  \/ Goals11Screen \/ Goals12Screen \/ Goals13Screen

-----------------------------------------------------------------------------
(* Answers.                                                                *)

\* A name that is taken and a form that is refused leave the user at the form.
GoalFailureScreen(creating, e) ==
  LET why == Failure(e)
  IN CASE why = "session" -> IF creating THEN 6 ELSE 11
       [] why = "not_found" -> IF creating THEN 1 ELSE 12
       [] why = "validation" -> IF e = "badDate" THEN 7 ELSE 0
       [] why \in {"conflict", "forbidden"} -> 0
       [] OTHER -> IF creating THEN 8 ELSE 13

\* What was done reloads the list, whoever is signed in by then.
GoalAnswered ==
  \E f \in flight, e \in Common \cup {"badDate"} :
    LET creating == f.op = "goals.create"
        to == GoalFailureScreen(creating, e)
    IN /\ f.op \in GoalOps /\ End(f, e)
       /\ \/ /\ e = "ok" /\ Applies(f)
             /\ form' = [form EXCEPT !.goalDraft = "none", !.goal = @ \/ ~creating]
             /\ GotoReloading("Goals", Goals(IF creating THEN 4 ELSE 9), tries)
          \/ /\ e = "ok" /\ ~Applies(f) /\ UNCHANGED form
             /\ GotoReloading("Goals", screen, tries)
          \/ e # "ok" /\ (Applies(f) => to = 0) /\ Drop
          \/ /\ e # "ok" /\ Applies(f) /\ Failure(e) = "not_found"
             /\ form' = [form EXCEPT !.goal = @ /\ creating]
             /\ GotoReloading("Goals", Goals(to), tries)
          \/ /\ e # "ok" /\ Applies(f) /\ to # 0 /\ Failure(e) # "not_found"
             /\ Goto(Goals(to)) /\ UNCHANGED form
=============================================================================
