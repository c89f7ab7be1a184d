--------------------------- MODULE MCPluginSettings ---------------------------
(* Two calls that may overlap and one administrator; liveness, so no symmetry. *)
EXTENDS PluginSettings
=============================================================================
