---------------------------- MODULE MCMbStat264 -----------------------------
(* The macroblocks of H.264 (h264data.c) in small sets for MbStat264. *)
EXTENDS MbStat264

Mb(type, sub, cbp) == [type |-> type, sub |-> sub, cbp |-> cbp]
NoSub     == [q \in Quarters |-> {}]
Whole(t)  == Mb(t, NoSub, {})

L0 == {"16x16", "P0L0"}
L1 == {"16x16", "P0L1"}
Split(s, f) == {s} \cup f

IntraMbs == {Mb({"INTRA4x4"}, NoSub, {0, 3}), Mb({"INTRA4x4", "8x8DCT"}, NoSub, {1}),
             Mb({"INTRA16x16"}, NoSub, Quarters)}
PCM      == Whole({"INTRA_PCM"})

PSkip == Whole({"16x16", "P0L0", "P1L0", "SKIP"})
PMbs  == {PSkip, Mb({"16x16", "P0L0"}, NoSub, {2}), Mb({"8x16", "P0L0", "P1L0", "8x8DCT"}, NoSub, {0, 1}),
          Mb({"8x8", "P0L0", "P1L0"},
             <<{"8x16", "P0L0"}, {"8x8", "P0L0"}, {"16x16", "P0L0"}>> @@ (0 :> {"16x8", "P0L0"}), {})}

BothLists == {"P0L0", "P0L1", "P1L0", "P1L1"}
DirectSub == {"16x16", "P0L0", "P0L1", "DIRECT2"}
BDirect == Mb({"8x8", "DIRECT2"} \cup BothLists, [q \in Quarters |-> DirectSub], {})
BSkip   == Whole({"16x16", "P0L0", "DIRECT2", "SKIP"})
B16x8   == Whole({"16x8", "P0L0", "P1L1"})
B8x16   == Mb({"8x16", "P0L0", "P0L1", "P1L1"}, NoSub, {3})
B8x8    == Mb({"8x8"} \cup BothLists, [q \in Quarters |-> IF q = 3 THEN L1 ELSE L0], {1})
BSplit  == Mb({"8x8"} \cup BothLists,
              [q \in Quarters |-> IF q < 2 THEN {"8x8", "P0L0", "P1L0"} ELSE DirectSub], {})
BMbs    == {BSkip, BDirect, B16x8, B8x16, B8x8, BSplit}

\* Every kind of macroblock that a slice of a type may hold.
AllMacroblocks(t) ==
  IF t = "I" THEN IntraMbs \cup {PCM}
  ELSE IF t = "P" THEN PMbs \cup {Whole({"INTRA16x16"}), PCM}
  ELSE BMbs \cup {Whole({"INTRA4x4"})}

\* Without INTRA_PCM.
UsualMacroblocks(t) == AllMacroblocks(t) \ {PCM}
=============================================================================
