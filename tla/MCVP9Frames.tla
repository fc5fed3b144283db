---------------------------- MODULE MCVP9Frames -----------------------------
(* Instances of VP9Frames: two reference slots, which are interchangeable. *)
EXTENDS VP9Frames, TLC

CONSTANTS s1, s2
TwoSlots == {s1, s2}
Symmetry == Permutations(TwoSlots)
=============================================================================
