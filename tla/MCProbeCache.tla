---------------------------- MODULE MCProbeCache ----------------------------
(* Two goroutines, three Alertmanagers and a cap of one: the cache can be over *)
(* the cap by one. URLs and goroutines are interchangeable.                    *)
EXTENDS ProbeCache, TLC

Symmetry == Permutations(URLs) \cup Permutations(Callers)
=============================================================================
