------------------------------- MODULE MCDaemon -------------------------------
(* Daemon with two clients and three requests.                              *)
EXTENDS Daemon

SmallRequests == {"a1", "a2", "b1"}
SmallSender == [r \in SmallRequests |-> IF r = "b1" THEN "b" ELSE "a"]
SmallMethod == [r \in SmallRequests |->
                   CASE r = "a1" -> "recording.start" [] r = "a2" -> "rtsp.start"
                     [] r = "b1" -> "rtsp.stop"]

=============================================================================
