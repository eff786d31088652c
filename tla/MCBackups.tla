------------------------------- MODULE MCBackups -------------------------------
(* Model-checking instance of Backups. *)
EXTENDS Backups, TLC
=============================================================================
