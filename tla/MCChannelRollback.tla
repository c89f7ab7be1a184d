-------------------------- MODULE MCChannelRollback ---------------------------
(* Two commands, two slugs, a few channels; all are alike. *)
EXTENDS ChannelRollback, TLC
Symmetry == Permutations(Workers) \cup Permutations(Slugs) \cup Permutations(Ids)
=============================================================================
