----------------------------- MODULE MCPipeline -----------------------------
(* The pipeline on small sets; threads and sessions are interchangeable. *)
EXTENDS Pipeline, TLC

Symmetry == Permutations(Threads) \cup Permutations(Sessions)
=============================================================================
