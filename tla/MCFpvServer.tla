----------------------------- MODULE MCFpvServer -----------------------------
(* FpvServer and RtpSink with small constants, and the cutting into NAL     *)
(* units over all short sequences of octets.                                *)
EXTENDS FpvServer

\* Nothing; data without a start code; one unit; two units.
SmallContents == {<<>>, <<2>>, <<0, 0, 0, 1, 2>>, <<0, 0, 0, 1, 2, 0, 0, 0, 1, 2>>}

=============================================================================
