----------------------- MODULE MCOutboxReconciliation -----------------------
(* Small instances of OutboxReconciliation for TLC.                            *)
EXTENDS OutboxReconciliation
=============================================================================
