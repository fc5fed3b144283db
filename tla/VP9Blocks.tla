------------------------------- MODULE VP9Blocks -------------------------------
(***************************************************************************)
(* The block statistics of VP9 frames: decode_sb walks the partition tree  *)
(* of a superblock and decode_b the blocks, both add to BlkCnt4x4, and     *)
(* ModeStatistics counts the block with it; FrameStatistics takes the      *)
(* black border of a key frame, FrameQPStatsVP9 counts the QPs at output.  *)
(*                                                                         *)
(* Rows and columns are in blocks of 8x8, areas in blocks of 4x4.  What of *)
(* a block reaches the statistics is whether it is skipped, intra or of    *)
(* compound prediction, its largest transform, and whether the             *)
(* coefficients of its transforms add up to 0 ("dark"; all of them, or     *)
(* none).  BlkShapes, TrShapes and MbQPs get the same count as MbTypes and *)
(* are left out, and so are frames of less than 100 bytes and hidden ones: *)
(* see VP9Frames.                                                          *)
(***************************************************************************)
EXTENDS Integers, Sequences, FiniteSets, FiniteSetsExt, BlackBorder

CONSTANTS
  Streams  \* size, segmentation, frames, partitions and blocks that occur

Unit == [skip : BOOLEAN, intra : BOOLEAN, comp : BOOLEAN, tx : 0 .. 3, dark : BOOLEAN]

(* A frame has at least one pixel; at each of the four levels of the tree  *)
(* some of the four partitions occur.                                      *)
ASSUME BlocksAssumption ==
  Streams \subseteq [width : Nat \ {0}, height : Nat \ {0}, segmentation : BOOLEAN,
                     frames : Seq({"key", "inter"}),
                     partitions : [1 .. 4 -> SUBSET (0 .. 3)], units : SUBSET Unit]

VARIABLES
  stream,          \* the stream that is decoded
  number, sb,      \* the frame, and the superblock of it
  todo,            \* nodes and blocks still to be decoded, the next one first
  S,               \* FrmStat->S, MbTypes and QP counts of the frame
  BlackLine,       \* its dark 4x4 blocks by row
  CurrBlackBorder, \* the border of the latest key frame
  halved,          \* blocks of 8x4 or 4x8 in this frame (history)
  tiny,            \* inter blocks of less than 8x8 in this frame (history)
  pc               \* "decode", "decoded", "shown", "misused"

blockVars == <<stream, number, sb, todo, S, BlackLine, CurrBlackBorder, halved, tiny, pc>>

cols    == (stream.width + 7) \div 8
rows    == (stream.height + 7) \div 8
sb_cols == (cols + 7) \div 8
sb_rows == (rows + 7) \div 8
KeyFrame == stream.frames[number] = "key"

\* Types of blocks, and partitions.
SKIPPED == 0
FORWARD == 1
BIDIRECT == 3
INTRA_PLN == 6
MbTypeIdx == {SKIPPED, FORWARD, BIDIRECT, INTRA_PLN}

PARTITION_NONE  == 0
PARTITION_H     == 1
PARTITION_V     == 2
PARTITION_SPLIT == 3
Undecided == -1

FRAME_SUMS ==
  [BlkCnt4x4 |-> 0, MbCnt |-> 0, MbTypes |-> [t \in MbTypeIdx |-> 0],
   NumBlksSkip |-> 0, NumBlksMv |-> 0, NumBlksIntra |-> 0, QpCnt |-> 0, QpCntBB |-> 0]

(* No row of blocks lies below the last superblock. *)
NoLines == [i \in 0 .. 16 * sb_rows - 1 |-> 0]

BlocksInit ==
  /\ stream \in Streams
  /\ number = 0 /\ sb = 0 /\ todo = <<>>
  /\ S = FRAME_SUMS /\ BlackLine = NoLines /\ CurrBlackBorder = 0
  /\ halved = 0 /\ tiny = 0
  /\ pc = "shown"

-----------------------------------------------------------------------------
(* The partition tree.                                                     *)

Root(n) == [row |-> 8 * (n \div sb_cols), col |-> 8 * (n % sb_cols), bl |-> 0, bp |-> Undecided]

(* InitFrameStatisticsVP9. *)
StartFrame ==
  /\ pc = "shown" /\ number < Len(stream.frames)
  /\ number' = number + 1
  /\ sb' = 0 /\ todo' = <<Root(0)>>
  /\ S' = FRAME_SUMS /\ BlackLine' = NoLines
  /\ halved' = 0 /\ tiny' = 0
  /\ pc' = "decode"
  /\ UNCHANGED <<stream, CurrBlackBorder>>

hbs(bl) == 4 \div 2^bl

(* Whether the second half of a node begins within the frame. *)
HasRight(b) == b.col + hbs(b.bl) < cols
HasLower(b) == b.row + hbs(b.bl) < rows

(* At the edges one bit or none is read for the partition; the smallest    *)
(* nodes never are at an edge.                                             *)
Partitions(b) ==
  IF b.bl = 3 \/ (HasRight(b) /\ HasLower(b)) THEN stream.partitions[b.bl + 1]
  ELSE IF HasRight(b) THEN {PARTITION_SPLIT, PARTITION_H}
  ELSE IF HasLower(b) THEN {PARTITION_SPLIT, PARTITION_V}
  ELSE {PARTITION_SPLIT}

InFrame(b) == b.row < rows /\ b.col < cols

Inside(b) == IF InFrame(b) THEN <<b>> ELSE <<>>

(* A part of a node: a block, or a node of the next level. *)
Block(b, bp, dr, dc) == [row |-> b.row + dr, col |-> b.col + dc, bl |-> b.bl, bp |-> bp]
Node(b, dr, dc) == [row |-> b.row + dr, col |-> b.col + dc, bl |-> b.bl + 1, bp |-> Undecided]

(* What decode_sb calls, in this order; nothing for what is outside. *)
Parts(b, bp) ==
  LET h == hbs(b.bl)
      B(dr, dc) == Inside(Block(b, bp, dr, dc))
      N(dr, dc) == Inside(Node(b, dr, dc))
  IN CASE b.bl = 3 \/ bp = PARTITION_NONE -> B(0, 0)
       [] b.bl < 3 /\ bp = PARTITION_H -> B(0, 0) \o B(h, 0)
       [] b.bl < 3 /\ bp = PARTITION_V -> B(0, 0) \o B(0, h)
       [] b.bl < 3 /\ bp = PARTITION_SPLIT -> N(0, 0) \o N(0, h) \o N(h, 0) \o N(h, h)

\* Variant with a defect: the part below the frame is not counted.
NothingBelow(b) == 0

(* The half below the frame is counted with the block that comes next, but *)
(* not so in the corner.                                                   *)
Below(b) ==
  IF b.bl < 3 /\ HasRight(b) /\ ~HasLower(b) THEN 4^(4 - b.bl) \div 2 ELSE 0

DecodeSb(bp) ==
  LET b == Head(todo) IN
  /\ pc = "decode" /\ todo # <<>> /\ b.bp = Undecided
  /\ bp \in Partitions(b)
  /\ S' = [S EXCEPT !.BlkCnt4x4 = @ + Below(b)]
  /\ todo' = Parts(b, bp) \o Tail(todo)
  /\ UNCHANGED <<stream, number, sb, BlackLine, CurrBlackBorder, halved, tiny, pc>>

-----------------------------------------------------------------------------
(* Blocks.                                                                 *)

SmallerThan8x8(b) == b.bl = 3 /\ b.bp # PARTITION_NONE
Halved(b)         == b.bl = 3 /\ b.bp \in {PARTITION_H, PARTITION_V}

(* The area decode_b adds for a block: for the two blocks of 8x4 or 4x8 it *)
(* handles at once, that of one of them.                                   *)
Area(b) == (256 \div 4^b.bl) \div (IF b.bp \in {PARTITION_H, PARTITION_V} THEN 2 ELSE 1)

(* bwh_tab, doubled. *)
w4(b) == IF b.bl = 3 THEN 2 ELSE (16 \div 2^b.bl) \div (IF b.bp = PARTITION_V THEN 2 ELSE 1)
h4(b) == IF b.bl = 3 THEN 2 ELSE (16 \div 2^b.bl) \div (IF b.bp = PARTITION_H THEN 2 ELSE 1)

(* log2 of the transform's size, relative to 4x4. *)
tx(b, unit) ==
  LET min(x, y) == IF x < y THEN x ELSE y
      max_tx == IF b.bl = 3 THEN IF b.bp = PARTITION_NONE THEN 1 ELSE 0
                ELSE min(3, 4 - b.bl - (IF b.bp = PARTITION_NONE THEN 0 ELSE 1))
  IN min(max_tx, unit.tx)

GetMbTypeIdxVP9(unit) ==
  CASE unit.skip -> SKIPPED
    [] ~unit.skip /\ unit.intra -> INTRA_PLN
    [] ~unit.skip /\ ~unit.intra -> IF unit.comp THEN BIDIRECT ELSE FORWARD

(* The vectors of an inter block smaller than 8x8, counted one by one. *)
Vectors(b) == IF b.bp = PARTITION_SPLIT THEN 4 ELSE 2

\* Variant with a defect: each of the vectors gets the whole count.
BlockMVStatsAll(b, unit, count) ==
  LET n == IF SmallerThan8x8(b) /\ ~unit.intra THEN Vectors(b) * count ELSE count
  IN CASE unit.skip -> [skip |-> n, mv |-> 0, intra |-> 0]
       [] ~unit.skip /\ unit.intra -> [skip |-> 0, mv |-> 0, intra |-> n]
       [] ~unit.skip /\ ~unit.intra -> [skip |-> 0, mv |-> n, intra |-> 0]

(* BlockMVStatsVP9, ProcessMV: what is added to the three counts. *)
BlockMVStatsVP9(b, unit, count) ==
  LET n == IF SmallerThan8x8(b) /\ ~unit.intra THEN Vectors(b) ELSE count
  IN CASE unit.skip -> [skip |-> n, mv |-> 0, intra |-> 0]
       [] ~unit.skip /\ unit.intra -> [skip |-> 0, mv |-> 0, intra |-> n]
       [] ~unit.skip /\ ~unit.intra -> [skip |-> 0, mv |-> n, intra |-> 0]

(* The transforms of a block that begin within the frame: their area, in   *)
(* columns and rows.                                                       *)
Extent(b, unit) ==
  LET step    == 2^tx(b, unit)
      Up(n)   == step * ((n + step - 1) \div step)
      Least(x, y) == IF x < y THEN x ELSE y
  IN [x |-> Up(Least(2 * (cols - b.col), w4(b))), y |-> Up(Least(2 * (rows - b.row), h4(b)))]

(* BlockCoefStatsVP9: the rows of BlackLine it adds to. *)
DarkRows(b, unit) ==
  IF unit.dark THEN 2 * b.row .. 2 * b.row + Extent(b, unit).y - 1 ELSE {}

(* BlackLine has a counter for every 4 pixels of the frame's width. *)
Counters == stream.width \div 4

(* decode_b, ModeStatistics.  A skipped block has no coefficients. *)
DecodeB(unit) ==
  LET b     == Head(todo)
      count == S.BlkCnt4x4 + Area(b)
      n     == BlockMVStatsVP9(b, unit, count)
  IN
  /\ pc = "decode" /\ todo # <<>> /\ b.bp # Undecided
  /\ KeyFrame => unit.intra
  /\ S' = [S EXCEPT !.MbCnt = @ + count, !.MbTypes[GetMbTypeIdxVP9(unit)] = @ + count,
                    !.NumBlksSkip = @ + n.skip, !.NumBlksMv = @ + n.mv,
                    !.NumBlksIntra = @ + n.intra,
                    !.BlkCnt4x4 = 0]
  /\ IF DarkRows(b, unit) \subseteq 0 .. Counters - 1
     THEN /\ BlackLine' = [i \in DOMAIN BlackLine |->
               BlackLine[i] + (IF i \in DarkRows(b, unit) THEN Extent(b, unit).x ELSE 0)]
          /\ pc' = pc
     ELSE pc' = "misused" /\ UNCHANGED BlackLine
  /\ halved' = halved + (IF Halved(b) THEN 1 ELSE 0)
  /\ tiny' = tiny + (IF SmallerThan8x8(b) /\ ~unit.intra THEN 1 ELSE 0)
  /\ todo' = Tail(todo)
  /\ UNCHANGED <<stream, number, sb, CurrBlackBorder>>

-----------------------------------------------------------------------------
(* Frames.                                                                 *)

LastSb == sb + 1 = sb_cols * sb_rows

NextSb ==
  /\ pc = "decode" /\ todo = <<>> /\ ~LastSb
  /\ sb' = sb + 1 /\ todo' = <<Root(sb + 1)>>
  /\ UNCHANGED <<stream, number, S, BlackLine, CurrBlackBorder, halved, tiny, pc>>

(* FrameStatistics: a key frame is searched for a border.  A row is dark   *)
(* from six of ten blocks on.                                              *)
EndFrame ==
  /\ pc = "decode" /\ todo = <<>> /\ LastSb
  /\ IF KeyFrame /\ 2 * rows > Counters
     THEN pc' = "misused" /\ UNCHANGED CurrBlackBorder
     ELSE /\ CurrBlackBorder' = IF KeyFrame
               THEN BlackborderDetect(BlackLine, 2 * rows, (12 * cols) \div 10, 4)
               ELSE CurrBlackBorder
          /\ pc' = "decoded"
  /\ UNCHANGED <<stream, number, sb, todo, S, BlackLine, halved, tiny>>

\* Variant with a defect: the first row below the upper border is missed.
NoBorderAbove(row) == 8 * row > CurrBlackBorder /\ 8 * row < stream.height - CurrBlackBorder

NoBorder(row) == 8 * row >= CurrBlackBorder /\ 8 * row < stream.height - CurrBlackBorder

(* GetVideoStatisticsVP9: FrameQPStatsVP9 counts the QP of every 8x8 block *)
(* if there are segments, and of the frame otherwise.                      *)
GetVideoStatisticsVP9 ==
  /\ pc = "decoded"
  /\ S' = IF stream.segmentation
          THEN [S EXCEPT !.QpCnt   = @ + rows * cols,
                         !.QpCntBB = @ + cols * Cardinality({row \in 0 .. rows - 1 : NoBorder(row)})]
          ELSE [S EXCEPT !.QpCnt = @ + 1, !.QpCntBB = @ + 1]
  /\ pc' = "shown"
  /\ UNCHANGED <<stream, number, sb, todo, BlackLine, CurrBlackBorder, halved, tiny>>

BlocksFinished ==
  /\ pc = "misused" \/ (pc = "shown" /\ number = Len(stream.frames))
  /\ UNCHANGED blockVars

BlocksNext ==
  \/ StartFrame
  \/ \E bp \in PARTITION_NONE .. PARTITION_SPLIT : DecodeSb(bp)
  \/ \E unit \in stream.units : DecodeB(unit)
  \/ NextSb \/ EndFrame
  \/ GetVideoStatisticsVP9
  \/ BlocksFinished

BlocksSpec == BlocksInit /\ [][BlocksNext]_blockVars

-----------------------------------------------------------------------------
(* Properties.                                                             *)

(* Every variable stays in its type; a border leaves some of the picture,  *)
(* and a row has no more dark blocks than its superblocks have columns.    *)
BlocksTypeOK ==
  /\ stream \in Streams
  /\ number \in 0 .. Len(stream.frames) /\ sb \in 0 .. sb_cols * sb_rows - 1
  /\ \A i \in DOMAIN todo : /\ InFrame(todo[i])
                            /\ todo[i].bl \in 0 .. 3 /\ todo[i].bp \in Undecided .. PARTITION_SPLIT
  /\ S \in [BlkCnt4x4 : Nat, MbCnt : Nat, MbTypes : [MbTypeIdx -> Nat], NumBlksSkip : Nat,
            NumBlksMv : Nat, NumBlksIntra : Nat, QpCnt : Nat, QpCntBB : Nat]
  /\ BlackLine \in [0 .. 16 * sb_rows - 1 -> 0 .. 16 * sb_cols]
  /\ CurrBlackBorder >= 0 /\ 2 * CurrBlackBorder < stream.height
  /\ halved \in Nat /\ tiny \in Nat
  /\ pc \in {"decode", "decoded", "shown", "misused"}

Shown   == pc = "shown" /\ number > 0
Decoded == pc \in {"decoded", "shown"} /\ number > 0

(* ModeStatistics: "All block statistics scaled to 4x4px blocksize-        *)
(* equivalent".  If the frame is as wide as its superblocks, the blocks    *)
(* counted are those of all superblocks, those below the frame included,   *)
(* and two less for each of 8x4 or 4x8, however the frame is partitioned.  *)
(* If not, it depends on the partitions how many, but they are never less  *)
(* than the frame's nor more than the superblocks'.                        *)
AreaCounted ==
  Decoded =>
    LET counted == S.MbCnt + 2 * halved
        all     == 256 * sb_cols * sb_rows
    IN /\ cols % 8 = 0 => counted = all
       /\ counted \in 4 * rows * cols .. all
       /\ S.BlkCnt4x4 = 0

(* A block is skipped, moved or intra.  The three counts are those of all  *)
(* blocks, except that what lies below the frame is lost if it would be    *)
(* counted with an inter block smaller than 8x8; intra blocks are those of *)
(* the intra type.                                                         *)
ClassifiedOnce ==
  LET counted == S.NumBlksSkip + S.NumBlksMv + S.NumBlksIntra IN
  Decoded =>
    /\ counted <= S.MbCnt
    /\ tiny = 0 \/ rows % 8 = 0 => counted = S.MbCnt
    /\ S.MbTypes[INTRA_PLN] = S.NumBlksIntra

(* Av_QPBB is defined: there is a row of blocks outside of the border, but *)
(* not always if the last of an even number of rows is cut to its upper    *)
(* half.  BlackLine has counters enough for a picture that is as wide as   *)
(* its superblocks are high.                                               *)
BorderUsable ==
  /\ (rows % 2 = 1 \/ stream.height % 8 \notin 1 .. 4) /\ Shown => S.QpCntBB > 0
  /\ pc = "misused" => stream.width < 64 * sb_rows
=============================================================================
