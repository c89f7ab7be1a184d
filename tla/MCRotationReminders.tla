------------------------- MODULE MCRotationReminders --------------------------
(* Two receivers in channels of their own: all commands work on a; b is there  *)
(* from the start or not at all, so that a pass may have two messages to send. *)
EXTENDS RotationReminders, TLC

CONSTANTS a, b

Apart == a :> "here" @@ b :> "there"
=============================================================================
