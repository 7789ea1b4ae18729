--------------------------- MODULE MCCallGateway ---------------------------
(* TLC instance of CallGateway: two things started, of any kind, one after *)
(* the other or at the same time, with everything the network may add.     *)
EXTENDS CallGateway, TLC

Symmetry == Permutations(Invites)
=============================================================================
