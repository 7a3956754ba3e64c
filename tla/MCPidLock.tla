------------------------------ MODULE MCPidLock ------------------------------
(* Instances of PidLock for TLC.                                           *)
EXTENDS PidLock
=============================================================================
