----------------------------- MODULE MCConfigSync -----------------------------
(* Two pods and one write; liveness is checked, so without symmetry. *)
EXTENDS ConfigSync
=============================================================================
