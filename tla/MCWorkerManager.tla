-------------------------- MODULE MCWorkerManager --------------------------
(* TLC instances of WorkerManager.                                         *)
EXTENDS WorkerManager, TLC

\* Ports, SIMs and worker objects are interchangeable.
Symmetry == Permutations(Ports) \cup Permutations(ICCIDs)
            \cup Permutations(Workers)
=============================================================================
