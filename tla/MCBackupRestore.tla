---------------------------- MODULE MCBackupRestore ----------------------------
(* A small instance of BackupRestore. *)
EXTENDS BackupRestore, TLC

Symmetry == Permutations(Restores)
================================================================================
