---------------------------- MODULE MCVirtualCamera ----------------------------
(* The instance of VirtualCamera that is checked.                          *)
EXTENDS VirtualCamera
=============================================================================
