--------------------------- MODULE MCBulkRotation ---------------------------
(* Administrators on two pods; liveness is checked, so without symmetry. *)
EXTENDS BulkRotation
=============================================================================
