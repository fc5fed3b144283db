--------------------------- MODULE MCBlackBorder264 ---------------------------
(* Small pictures for BlackBorder264. *)
EXTENDS BlackBorder264

\* No wider than a counter counts (odd and even rows), and so wide that a
\* dark row needs more than it counts.
SmallSizes ==
  {[mb_width |-> w, mb_height |-> h] : w \in {2, 3}, h \in {4, 5}}
    \cup {[mb_width |-> 5, mb_height |-> 4]}
=============================================================================
