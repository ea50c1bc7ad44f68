------------------------------ MODULE MCLedger ------------------------------
(* A small instance of Ledger for TLC.  Two clients so that money can go and   *)
(* come back; the first is seeded with more than it may send in a day, the     *)
(* second with nothing, so that what it received may be spent before it is     *)
(* reversed.                                                                   *)
EXTENDS Ledger, TLC

CONSTANTS alice, bob

MCInitialBalance == (alice :> 4) @@ (bob :> 0) @@ (SystemFunding :> 1)

\* 0 and -1 are refused, 3 is above every limit on a single operation.
MCAmounts == -1..3

Symmetry == Permutations(OpIds)
=============================================================================
