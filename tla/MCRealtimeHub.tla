--------------------------- MODULE MCRealtimeHub ---------------------------
(* RealtimeHub on small instances: model values for connections and jobs.  *)
EXTENDS RealtimeHub, TLC

CONSTANTS c1, c2, j1, j2

Symmetry == Permutations(Clients) \cup Permutations(Jobs)

=============================================================================
