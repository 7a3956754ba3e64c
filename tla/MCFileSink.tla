------------------------------ MODULE MCFileSink ------------------------------
(* Instances of FileSink for TLC.                                          *)
EXTENDS FileSink
=============================================================================
