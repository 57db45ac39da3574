-------------------------------- MODULE MCBackup --------------------------------
(* Backup with two runs at a time, a database, a plain service and one     *)
(* without state.                                                          *)
EXTENDS Backup, TLC

AnySymmetry == Permutations(Runners)
=============================================================================
