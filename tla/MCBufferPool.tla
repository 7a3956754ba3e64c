----------------------------- MODULE MCBufferPool -----------------------------
(* Instance of BufferPool for TLC.                                         *)
EXTENDS BufferPool
=============================================================================
