--------------------------- MODULE MCEventServer ---------------------------
(* TLC instances of EventServer. *)
EXTENDS EventServer, TLC

Symmetry == Permutations(Threads)
=============================================================================
