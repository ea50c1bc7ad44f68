-------------------------- MODULE MCNamedDocuments --------------------------
(* Small instances of NamedDocuments for TLC.                                  *)
EXTENDS NamedDocuments, TLC

Symmetry == Permutations(Requests) \cup Permutations(Names)
=============================================================================
