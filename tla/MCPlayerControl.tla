-------------------------- MODULE MCPlayerControl --------------------------
(* Small instances of PlayerControl.                                       *)
EXTENDS PlayerControl
=============================================================================
