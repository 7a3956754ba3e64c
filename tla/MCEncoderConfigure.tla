------------------------- MODULE MCEncoderConfigure -------------------------
(* The configurations of the sessions, and one per other branch.           *)
EXTENDS EncoderConfigure

Base == [codec |-> "avc", idr |-> FALSE, marker |-> "none", extradata |-> FALSE, ltr |-> FALSE,
         refresh |-> TRUE, in |-> 3, out |-> 3]

SmallConfigs ==
    {Base,
     [Base EXCEPT !.idr = TRUE, !.marker = "bits", !.in = 1, !.out = 1],
     [Base EXCEPT !.ltr = TRUE, !.extradata = TRUE, !.marker = "gob", !.refresh = FALSE],
     [Base EXCEPT !.codec = "mpeg4", !.idr = TRUE, !.marker = "mb", !.out = 1],
     [Base EXCEPT !.codec = "h263", !.marker = "gob", !.ltr = TRUE, !.in = 1]}

Def(m, a) == [min |-> m, actual |-> a]
SmallPortDefs == {Def(2, 2), Def(2, 4), Def(4, 4)}

=============================================================================
