--------------------------- MODULE MCWorkerQueue ---------------------------
(* Instances of WorkerQueue for TLC.  Calls are interchangeable, so the
   safety runs use their permutations as a symmetry set.                   *)
EXTENDS WorkerQueue, TLC

CallSymmetry == Permutations(Calls)
=============================================================================
