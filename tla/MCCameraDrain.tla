---------------------------- MODULE MCCameraDrain ----------------------------
(* Instances of CameraDrain for TLC.                                       *)
EXTENDS CameraDrain
=============================================================================
