---------------------------- MODULE MCKeepalive ----------------------------
(* TLC instances of Keepalive.                                             *)
EXTENDS Keepalive, TLC

\* Months of three days.
MonthOfDay == [d \in Days |-> d \div 3]

Symmetry == Permutations(RunAlls)
=============================================================================
