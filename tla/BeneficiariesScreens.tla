------------------------ MODULE BeneficiariesScreens ------------------------
(***************************************************************************)
(* The beneficiaries of App.tsx: the screens Beneficiaries_01 to           *)
(* Beneficiaries_14, and the handlers that add and delete one.             *)
(***************************************************************************)
EXTENDS AppShell

\* The recipient is filled in; a transfer requested before is left as it is.
startTransferToBeneficiary ==
  NavWith(Transfers(1), [form EXCEPT !.transferDraft = @ \cup {"recipient"}])

handleCreateBeneficiary ==
  \/ ~Real /\ Nav(Beneficiaries(5))
  \/ Real /\ focus = "Beneficiaries"
     /\ Submit("beneficiaries.create", {"beneficiaries.create"}, form)

handleDeleteBeneficiary ==
  \/ ~form.beneficiary /\ Nav(Beneficiaries(1))
  \/ ~Real /\ form.beneficiary
     /\ NavWith(Beneficiaries(10), [form EXCEPT !.beneficiary = FALSE])
  \/ Real /\ form.beneficiary /\ focus = "Beneficiaries"
     /\ Submit("beneficiaries.remove", {"beneficiaries.remove"}, form)

-----------------------------------------------------------------------------
(* Screens.                                                                *)

\* The list, with rows only once it has loaded; a long press selects one.
Beneficiaries01Screen ==
  \/ Tap(Beneficiaries(1), {Movements(1), Beneficiaries(4)})
  \/ /\ At(Beneficiaries(1)) /\ Status("Beneficiaries") = "entries"
     /\ \/ startTransferToBeneficiary
        \/ NavWith(Beneficiaries(14), [form EXCEPT !.beneficiary = TRUE])

Beneficiaries02Screen == Tap(Beneficiaries(2), {Movements(1), Beneficiaries(4)})
Beneficiaries03Screen == Tap(Beneficiaries(3), {Movements(1)})

\* The code is long enough and none is being added.
Beneficiaries04Screen ==
  \/ Tap(Beneficiaries(4), {Beneficiaries(1)})
  \/ At(Beneficiaries(4)) /\ handleCreateBeneficiary

Beneficiaries05Screen ==
  \/ Tap(Beneficiaries(5), {Beneficiaries(1)})
  \/ At(Beneficiaries(5)) /\ form.beneficiaryAdded /\ startTransferToBeneficiary
  \/ ~form.beneficiaryAdded /\ Tap(Beneficiaries(5), {Transfers(1)})

Beneficiaries06Screen ==
  \/ Tap(Beneficiaries(6), {Beneficiaries(4)})
  \/ At(Beneficiaries(6)) /\ handleCreateBeneficiary

Beneficiaries07Screen == Tap(Beneficiaries(7), {Beneficiaries(1), Beneficiaries(4)})
Beneficiaries08Screen == Tap(Beneficiaries(8), {Beneficiaries(4), Beneficiaries(1)})
Beneficiaries09Screen == Tap(Beneficiaries(9), {Beneficiaries(1), Beneficiaries(4)})
Beneficiaries10Screen == Tap(Beneficiaries(10), {Beneficiaries(1), Beneficiaries(4)})
Beneficiaries11Screen == Tap(Beneficiaries(11), {Movements(1)})
Beneficiaries12Screen == Tap(Beneficiaries(12), {Movements(1), Beneficiaries(4)})

Beneficiaries13Screen ==
  \/ Tap(Beneficiaries(13), {Movements(1)})
  \/ At(Beneficiaries(13)) /\ NavReloading(Beneficiaries(1))

\* Both buttons are off while it is being deleted.
Beneficiaries14Screen ==
  /\ At(Beneficiaries(14))
  /\ \/ handleDeleteBeneficiary
     \/ ~Submitting({"beneficiaries.remove"}) /\ Nav(Beneficiaries(1))

BeneficiariesSection ==
  \/ Beneficiaries01Screen \/ Beneficiaries02Screen \/ Beneficiaries03Screen
  \/ Beneficiaries04Screen \/ Beneficiaries05Screen \/ Beneficiaries06Screen
  \/ Beneficiaries07Screen \/ Beneficiaries08Screen \/ Beneficiaries09Screen
  \/ Beneficiaries10Screen \/ Beneficiaries11Screen \/ Beneficiaries12Screen
  \/ Beneficiaries13Screen \/ Beneficiaries14Screen

-----------------------------------------------------------------------------
(* Answers.  What was done reloads the list, whoever is signed in by then. *)

AddFailureScreen(e) ==
  LET why == Failure(e)
  IN CASE why = "session" -> 12
       [] why = "conflict" -> 8
       [] why = "not_found" -> 7
       [] why = "validation" -> IF e = "self" THEN 9 ELSE 6
       [] OTHER -> 0

BeneficiaryAdded ==
  \E f \in flight, e \in Common \cup {"self", "twice"} :
    /\ f.op = "beneficiaries.create" /\ End(f, e)
    /\ \/ /\ e = "ok" /\ Applies(f)
          /\ form' = [form EXCEPT !.beneficiaryAdded = TRUE]
          /\ GotoReloading("Beneficiaries", Beneficiaries(5), tries)
       \/ /\ e = "ok" /\ ~Applies(f)
          /\ GotoReloading("Beneficiaries", screen, tries) /\ UNCHANGED form
       \/ /\ e # "ok" /\ Applies(f) /\ AddFailureScreen(e) # 0
          /\ Goto(Beneficiaries(AddFailureScreen(e))) /\ UNCHANGED form
       \/ e # "ok" /\ (Applies(f) => AddFailureScreen(e) = 0) /\ Drop

\* A beneficiary that is gone already is not selected any more either.
BeneficiaryDeleted ==
  \E f \in flight, e \in Common :
    LET gone == e = "ok" \/ Failure(e) = "not_found"
    IN /\ f.op = "beneficiaries.remove" /\ End(f, e)
       /\ \/ /\ gone /\ Applies(f)
             /\ form' = [form EXCEPT !.beneficiary = FALSE]
             /\ GotoReloading("Beneficiaries", Beneficiaries(IF e = "ok" THEN 10 ELSE 1), tries)
          \/ /\ e = "ok" /\ ~Applies(f)
             /\ GotoReloading("Beneficiaries", screen, tries) /\ UNCHANGED form
          \/ /\ Applies(f) /\ Failure(e) = "session"
             /\ Goto(Beneficiaries(11)) /\ UNCHANGED form
          \/ e # "ok" /\ (Applies(f) => Failure(e) \notin {"session", "not_found"}) /\ Drop

BeneficiariesFlow == BeneficiaryAdded \/ BeneficiaryDeleted
=============================================================================
