---------------------------- MODULE MCPooledSearch ----------------------------
(* Kernels for the runs of PooledSearch: the bootstrap, a faster and a slower one. *)
EXTENDS PooledSearch

CONSTANTS k0, k1, k2

Kernels == {k0, k1, k2}
Latencies == [k \in Kernels |-> IF k = k1 THEN 1 ELSE IF k = k0 THEN 2 ELSE 3]
=============================================================================
