--------------------------- MODULE MCSeqStatistics ---------------------------
(* Small sets of pictures for SeqStatistics. *)
EXTENDS SeqStatistics

Val(i, s) == [f \in Fields |-> IF f = "PredFrm_Intra" THEN i ELSE IF f = "SKIP_mb_ratio" THEN s ELSE 1]

Picture(p, k, s) == [pict |-> p, key |-> k, same |-> s, val |-> Val(p, 0)]

\* H.264 and HEVC: every type, and a picture of another size.  VP9: a key
\* frame, an intra-only frame and an inter frame.
Pictures(c) ==
  IF c = "VP9" THEN {Picture(1, TRUE, TRUE), Picture(1, FALSE, TRUE), Picture(2, FALSE, TRUE)}
  ELSE {Picture(p, p = 1, TRUE) : p \in 1 .. 3} \cup {Picture(2, FALSE, FALSE)}

\* Pictures whose ratios of intra and of skipped blocks differ.
RatioPictures(c) ==
  {[pict |-> p, key |-> p = 1, same |-> TRUE, val |-> Val(i, s)] : p \in 1 .. 2, i \in 0 .. 1, s \in 0 .. 1}
=============================================================================
