------------------------------ MODULE MCVP9Blocks ------------------------------
(* Small streams for VP9Blocks. *)
EXTENDS VP9Blocks

UnitOf(skip, intra, comp, size, dark) ==
  [skip |-> skip, intra |-> intra, comp |-> comp, tx |-> size, dark |-> dark]

Intra == UnitOf(FALSE, TRUE, FALSE, 3, FALSE)
Dark  == UnitOf(FALSE, TRUE, FALSE, 3, TRUE)
Flat  == UnitOf(TRUE, TRUE, FALSE, 1, TRUE)
Inter == UnitOf(FALSE, FALSE, FALSE, 0, FALSE)
Both  == UnitOf(FALSE, FALSE, TRUE, 2, FALSE)
Skip  == UnitOf(TRUE, FALSE, FALSE, 1, TRUE)

Stream(w, h, seg, f, p, u) ==
  [width |-> w, height |-> h, segmentation |-> seg, frames |-> f, partitions |-> p, units |-> u]

All  == 0 .. 3
Deep == {PARTITION_SPLIT}

\* Every edge and every block size below 64x64, in a frame of 3x3 blocks.
Edges == Stream(24, 20, FALSE, <<"inter">>, <<All, All, {1, 3}, {0, 2, 3}>>, {Intra, Both, Skip})

\* As wide as a superblock, but not as high.
Wide == Stream(64, 24, FALSE, <<"inter">>, <<All, {0, 1, 3}, {0, 3}, {1}>>, {Intra, Inter})

\* Borders, of a frame with segments.
Letterbox == Stream(64, 40, TRUE, <<"key", "inter">>, <<{3}, {0, 1}, {0}, {0}>>, {Intra, Dark, Skip})

\* The last of four rows of blocks is cut.
Cut == Stream(64, 28, TRUE, <<"key", "key">>, <<{3}, {1}, {0}, {0}>>, {Flat, Dark, Intra})

\* Blocks of less than 8x8, nothing below the frame.
Small == Stream(64, 64, FALSE, <<"inter">>, <<Deep, {0, 3}, Deep, {2, 3}>>, {Inter})

\* Two superblocks, the second with a single column.
Strip == Stream(72, 16, FALSE, <<"inter">>, <<All, All, {0, 3}, {0}>>, {Intra, Both})

Portrait == Stream(24, 64, FALSE, <<"key">>, <<All, {0}, {0}, {0}>>, {Intra, Dark})

SmallStreams == {Edges, Wide, Letterbox, Cut, Small, Strip, Portrait}
=============================================================================
