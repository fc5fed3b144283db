-------------------------- MODULE MCPictureHistory ---------------------------
(* Videos of four pictures for PictureHistory. *)
EXTENDS PictureHistory

\* Display times in decoding order: no reordering, one and two B pictures,
\* and pictures that are displayed before the first one.
Orders == {<<0, 1, 2, 3>>, <<0, 1, 3, 2>>, <<0, 3, 1, 2>>, <<1, 3, 0, 2>>}

Types == {<<"I", "P", "P", "P">>, <<"P", "I", "P", "P">>, <<"I", "P", "I", "B">>, <<"I", "B", "P", "I">>}

\* An intra picture restarts the POC if no picture is reordered across it.
Restarts(t, o, k) ==
  k = 1 \/ (t[k] = "I" /\ \A i \in 1 .. 4 : (i < k => o[i] < o[k]) /\ (i > k => o[i] > o[k]))

Base(t, o, i) == CHOOSE k \in 1 .. i : Restarts(t, o, k) /\ \A j \in k + 1 .. i : ~Restarts(t, o, j)

\* Constant frame rate: display times are the multiples of the duration.
Video(t, o, size, step, dur, still) ==
  [size |-> size, step |-> step, dur |-> dur,
   pics |-> [i \in 1 .. 4 |-> [type |-> t[i], poc |-> step * (o[i] - o[Base(t, o, i)]), pts |-> o[i],
                              moved |-> i # still, border |-> IF t[i] = "I" THEN i * step ELSE 0]]]

FewVideos ==
  {Video(t, o, 1, step, TRUE, 3) : t \in Types, o \in Orders, step \in 1 .. 2}
  \cup {Video(t, o, size, 2, FALSE, 0) : t \in Types, o \in Orders, size \in 1 .. 2}
=============================================================================
