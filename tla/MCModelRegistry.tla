--------------------------- MODULE MCModelRegistry ---------------------------
(* The registry for TLC: jobs, models and requests are interchangeable. *)
EXTENDS ModelRegistry, TLC

Symmetry == Permutations(Jobs) \cup Permutations(Models) \cup Permutations(Requests)
=============================================================================
