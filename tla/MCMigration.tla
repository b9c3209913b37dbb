---------------------------- MODULE MCMigration ----------------------------
(* The databases of every earlier version, with two ledger rows.            *)
EXTENDS Migration

CONSTANTS p1, rel1, rel2
=============================================================================
