------------------------------- MODULE MCApp -------------------------------
(* Small instances of App for TLC.                                             *)
EXTENDS App

Modules == {"Movements", "Beneficiaries", "Categories", "Transfers", "Recharges", "Cash",
            "Budgets", "Goals", "Analytics", "Module1"}

\* The academic build differs from the real one in its transfers.
Academic == <<"academic", "Transfers">>
SmallBuilds == ({"demo", "real"} \X Modules) \cup {Academic}

\* A transfer without its amount takes two Backs; a retry is a second write.
SmallBack == [b \in SmallBuilds |-> IF b = Academic THEN 2 ELSE 1]
SmallSends == [b \in SmallBuilds |-> IF b = Academic THEN 1 ELSE 2]

\* One lost session between two transfers.
ResendBuilds == {<<"real", "Transfers">>}

Symmetry == Permutations(Users)
=============================================================================
