------------------------- MODULE CategoriesScreens -------------------------
(***************************************************************************)
(* The categories of App.tsx: the screens Categories_01 to Categories_08,  *)
(* and the handlers that create, rename and deactivate one.                *)
(***************************************************************************)
EXTENDS AppShell

\* From Categories_04 an update; from every other form a creation.
Op == IF screen = Categories(4) THEN "categories.update" ELSE "categories.create"

handleCategorySubmit ==
  \/ ~Real /\ Nav(Categories(IF Op = "categories.update" THEN 1 ELSE 5))
  \/ Real /\ focus = "Categories"
     /\ Submit(Op, {"categories.create", "categories.update"}, form)

handleCategoryDelete ==
  \/ ~Real /\ Nav(Categories(1))
  \/ Real /\ focus = "Categories"
     /\ Submit("categories.deactivate", {"categories.deactivate"}, form)

Writing == Submitting({"categories.create", "categories.update"})

-----------------------------------------------------------------------------
(* Screens.                                                                *)

\* A message while loading; its error has a retry that stays here.
Categories01Screen ==
  \/ Status("Categories") \in {"failed", "unauthorized"}
     /\ \/ Tap(Categories(1), {Movements(1)})
        \/ At(Categories(1)) /\ NavReloading(Categories(1))
  \/ Status("Categories") \in {"entries", "empty"}
     /\ \/ Tap(Categories(1), {Movements(1), Categories(3)})
        \/ /\ At(Categories(1))
           /\ \E system \in BOOLEAN :
                NavWith(Categories(4), [form EXCEPT !.systemCategory = system])

Categories02Screen == Tap(Categories(2), {Movements(1), Categories(3)})

Categories03Screen ==
  \/ Tap(Categories(3), {Categories(1)})
  \/ At(Categories(3)) /\ handleCategorySubmit

\* A category of the system can neither be renamed nor deleted.
Categories04Screen ==
  \/ Tap(Categories(4), {Categories(1)})
  \/ ~form.systemCategory /\ Tap(Categories(4), {Categories(8)})
  \/ ~form.systemCategory /\ At(Categories(4)) /\ handleCategorySubmit

Categories05Screen == Tap(Categories(5), {Budgets(4), Categories(1)})

Categories06Screen ==
  \/ Tap(Categories(6), {Categories(3), Categories(1)})
  \/ At(Categories(6)) /\ handleCategorySubmit

Categories07Screen ==
  \/ Tap(Categories(7), {Categories(3), Categories(1)})
  \/ At(Categories(7)) /\ handleCategorySubmit

Categories08Screen ==
  /\ At(Categories(8)) /\ ~Submitting({"categories.deactivate"})
  /\ handleCategoryDelete \/ Nav(Categories(4))

CategoriesSection ==
  \/ Categories01Screen \/ Categories02Screen \/ Categories03Screen \/ Categories04Screen
  \/ Categories05Screen \/ Categories06Screen \/ Categories07Screen \/ Categories08Screen

-----------------------------------------------------------------------------
(* Answers.  What was done reloads the list, whoever is signed in by then. *)

CategorySaved ==
  \E f \in flight, e \in Common :
    LET route == CategoryRoute(Failure(e), f.op = "categories.create")
    IN /\ f.op \in {"categories.create", "categories.update"} /\ End(f, e)
       /\ \/ /\ e = "ok" /\ Applies(f)
             /\ form' = [form EXCEPT !.systemCategory = FALSE]
             /\ GotoReloading("Categories",
                              Categories(IF f.op = "categories.update" THEN 1 ELSE 5), tries)
          \/ /\ e = "ok" /\ ~Applies(f)
             /\ GotoReloading("Categories", screen, tries) /\ UNCHANGED form
          \/ /\ e # "ok" /\ Applies(f) /\ UNCHANGED form
             /\ \/ route = "conflict" /\ Goto(Categories(6))
                \/ route = "validation" /\ Goto(Categories(7))
                \/ route = "reload" /\ GotoReloading("Categories", Categories(1), tries)
                \/ route \in {"session", "stay"} /\ Unmoved
          \/ e # "ok" /\ ~Applies(f) /\ Drop

CategoryDeactivated ==
  \E f \in flight, e \in Common :
    /\ f.op = "categories.deactivate" /\ End(f, e) /\ UNCHANGED form
    /\ \/ e = "ok" /\ GotoReloading("Categories", IF Applies(f) THEN Categories(1) ELSE screen,
                                    tries)
       \/ /\ e # "ok" /\ Applies(f) /\ CategoryRoute(Failure(e), FALSE) = "reload"
          /\ GotoReloading("Categories", Categories(1), tries)
       \/ /\ e # "ok" /\ (Applies(f) => CategoryRoute(Failure(e), FALSE) # "reload")
          /\ Unmoved

CategoriesFlow == CategorySaved \/ CategoryDeactivated
=============================================================================
