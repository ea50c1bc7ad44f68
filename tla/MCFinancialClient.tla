------------------------- MODULE MCFinancialClient -------------------------
(* Small instances of FinancialClient for TLC.                                 *)
EXTENDS FinancialClient, TLC

Symmetry == Permutations(Requests) \cup Permutations(Bodies) \cup Permutations(Keys)
=============================================================================
