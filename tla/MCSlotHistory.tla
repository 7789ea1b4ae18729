--------------------------- MODULE MCSlotHistory ---------------------------
(* TLC instances of SlotHistory.                                           *)
EXTENDS SlotHistory, TLC

Symmetry == Permutations(ICCIDs) \cup Permutations(IMEIs)
=============================================================================
