----------------------------- MODULE MCHevcFrames -----------------------------
(* Streams for HevcFrames: several structures of groups of pictures. *)
EXTENDS HevcFrames

Picture(type, poc) ==
  [type |-> type, poc |-> poc, start |-> FALSE, noPrior |-> FALSE,
   skipped |-> FALSE, shown |-> TRUE, slices |-> 1]

I(poc) == Picture("I", poc)
P(poc) == Picture("P", poc)
B(poc) == Picture("B", poc)

Idr        == [I(0) EXCEPT !.start = TRUE]
IdrAlone   == [Idr EXCEPT !.noPrior = TRUE]
Skipped(p) == [p EXCEPT !.skipped = TRUE]
Hidden(p)  == [p EXCEPT !.shown = FALSE]

\* Sequences behind an IDR picture, by the number of pictures held back.
Tails(reorder) ==
  CASE reorder = 0 -> {<<>>, <<P(1), Hidden(P(2)), P(3)>>}
    [] reorder = 1 -> {<<>>, <<P(2), B(1), P(4), B(3)>>, <<P(1), Hidden(P(3)), B(2), I(4)>>}
    [] reorder = 2 -> {<<P(4), B(2), B(1), B(3)>>, <<P(3), Hidden(B(2)), B(1)>>}

\* What a stream may open with: a random access point, or no intra picture.
Openings == {<<I(2), Skipped(B(1)), P(4)>>, <<P(4), P(5), I(6), P(7)>>}

Structures(reorder) ==
  {first \o <<idr>> \o second :
     first \in Openings \cup {<<Idr>> \o t : t \in Tails(reorder)},
     idr \in {Idr, IdrAlone}, second \in Tails(reorder)}

\* With pictures of one and two slice segments in turn, and both kinds of windows.
SmallStreams ==
  UNION {{[reorder |-> reorder, offset |-> offset,
           pics |-> [i \in DOMAIN pics |-> [pics[i] EXCEPT !.slices = 1 + ((i + first) % 2)]]] :
          offset \in BOOLEAN, first \in 0 .. 1, pics \in Structures(reorder)} : reorder \in 0 .. 2}
=============================================================================
