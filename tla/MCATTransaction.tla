-------------------------- MODULE MCATTransaction --------------------------
(* TLC instances of ATTransaction.                                         *)
EXTENDS ATTransaction, TLC

Symmetry == Permutations(SMSClients) \cup Permutations(ATClients)
=============================================================================
