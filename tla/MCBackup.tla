------------------------------ MODULE MCBackup ------------------------------
(* TLC instance of Backup.                                                 *)
EXTENDS Backup, TLC

Symmetry == Permutations(Runs) \cup Permutations(Restores)
=============================================================================
