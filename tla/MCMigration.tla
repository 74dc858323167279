----------------------------- MODULE MCMigration -----------------------------
(* Instances of Migration: the processes and the triples are model values. *)
EXTENDS Migration
==============================================================================
