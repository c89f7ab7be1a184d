----------------------------- MODULE MCYamlJanitor ----------------------------
(* Pages of two keys; posts on either side of one other key of the plugin. *)
EXTENDS YamlJanitor
=============================================================================
