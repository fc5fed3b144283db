------------------------------ MODULE HevcBlocks ------------------------------
(***************************************************************************)
(* The block statistics of HEVC pictures: InitStatisticsHEVC at the start  *)
(* of a slice segment, the counts taken while the decoder walks the coding *)
(* quadtree (PU_Stat, TrShapes, MbStatistcsHEVC), the black border at the  *)
(* end of the slice segment, GetVideoStatisticsHEVC at the output.         *)
(*                                                                         *)
(* A coding block is a position, a size and a coding unit; what of it      *)
(* reaches the statistics is the prediction mode, the partition, the lists *)
(* each half is predicted from, whether the intra mode is planar or DC,    *)
(* and the shape of its residual:                                          *)
(*   "none"       no transform tree (skipped, or no residual)              *)
(*   "pcm"        samples                                                  *)
(*   "coded", "dark"   one transform, with or without luma coefficients    *)
(*   "split"      four, the first with luma coefficients                   *)
(*   "swallowed"  four, the first fails: "ret = ... < 0" loses the error   *)
(*   "fails"      one, and it fails: the rest of the slice is lost         *)
(* QPs are counted, not summed.                                            *)
(***************************************************************************)
EXTENDS Integers, Sequences, FiniteSets, FiniteSetsExt, BlackBorder

CONSTANTS
  CodedStreams  \* sps, the slice types of each picture, the coding units that occur

(* log2 of the smallest coding blocks, the coding tree blocks and the      *)
(* smallest transforms; the size of the pictures.                          *)
Sizes == [cb : 3 .. 6, ctb : 4 .. 6, tb : 2 .. 5, width : Nat \ {0}, height : Nat \ {0}]

CodingUnits ==
  [mode : {"SKIP", "INTER", "INTRA"}, part : 0 .. 7, pred_flag : [1 .. 2 -> 1 .. 3], planar : BOOLEAN,
   residual : {"none", "pcm", "coded", "dark", "split", "swallowed", "fails"}]

(* What ff_hevc_decode_nal_sps accepts, and a picture has a slice segment. *)
ASSUME BlocksAssumption ==
  /\ CodedStreams \subseteq [sps : Sizes, pictures : Seq(Seq({"I", "P", "B"}) \ {<<>>}),
                            units : SUBSET CodingUnits]
  /\ \A s \in CodedStreams :
       /\ s.sps.tb < s.sps.cb /\ s.sps.cb <= s.sps.ctb
       /\ s.sps.width % 2^s.sps.cb = 0 /\ s.sps.height % 2^s.sps.cb = 0

VARIABLES
  coded,             \* the stream that is decoded
  pic, segment, ctb, \* the picture, slice segment and coding tree block
  todo,              \* quadtree nodes still to be visited, the next one first
  stat,              \* the statistics in the AVFrame
  cbf_luma,          \* transform blocks with luma coefficients
  CurrBlackBorder,   \* the border of the latest I picture
  BlkShapes,         \* what ShapeStatisticsHEVC made of PU_Stat
  blocks,            \* the coding blocks of this picture (history)
  excluded,          \* the border left out of this slice segment's QPs (history)
  stage              \* "slice", "between", "lost", "decoded", "shown", "misused"

blockVars == <<coded, pic, segment, ctb, todo, stat, cbf_luma, CurrBlackBorder,
               BlkShapes, blocks, excluded, stage>>

sps      == coded.sps
SliceSeq == coded.pictures[pic]
(* A picture has the type of its first slice. *)
pict_type == SliceSeq[1]

\* Prediction modes and types of blocks.
SKIPPED == 0
DIRECT  == 4
INTRA_BLK == 5
INTRA_PLN == 6

MbTypeIdx == 0 .. 6
PUSizes   == 3 .. 6
TrIdx     == {0} \cup 2 .. 5

Cleared(border) ==
  [PU_Stat |-> [log \in PUSizes |-> [part \in 0 .. 5 |-> 0]],
   TrShapes |-> [t \in TrIdx |-> 0], MbTypes |-> [t \in MbTypeIdx |-> 0],
   MbCnt |-> 0, QpCnt |-> 0, QpCntBB |-> 0,
   NumBlksMv |-> 0, NumBlksSkip |-> 0, NumBlksIntra |-> 0, BlackBorder |-> border]

NoShapes == [i \in 0 .. 8 |-> 0]

BlocksInit ==
  /\ coded \in CodedStreams
  /\ pic = 0 /\ segment = 0 /\ ctb = 0 /\ todo = <<>>
  /\ stat = Cleared(0) /\ cbf_luma = {} /\ CurrBlackBorder = 0
  /\ BlkShapes = NoShapes /\ blocks = {} /\ excluded = 0
  /\ stage = "shown"

-----------------------------------------------------------------------------
(* The quadtree.                                                           *)

CtbCols == (sps.width + 2^sps.ctb - 1) \div 2^sps.ctb
CtbRows == (sps.height + 2^sps.ctb - 1) \div 2^sps.ctb
Root(n) == [x |-> (n % CtbCols) * 2^sps.ctb, y |-> (n \div CtbCols) * 2^sps.ctb, log |-> sps.ctb]

InPicture(b)  == b.x < sps.width /\ b.y < sps.height
FitsIn(b)     == b.x + 2^b.log <= sps.width /\ b.y + 2^b.log <= sps.height

Quarter(b, i, j) ==
  [x |-> b.x + i * 2^(b.log - 1), y |-> b.y + j * 2^(b.log - 1), log |-> b.log - 1]

Inside(b) == IF InPicture(b) THEN <<b>> ELSE <<>>

(* The quarters of a node, those outside of the picture left out. *)
Quarters(b) ==
  Inside(Quarter(b, 0, 0)) \o Inside(Quarter(b, 1, 0)) \o Inside(Quarter(b, 0, 1)) \o Inside(Quarter(b, 1, 1))

(* The coding units the syntax admits. *)
Parts(mode, log) ==
  CASE mode = "SKIP"  -> {0}
    [] mode = "INTRA" -> IF log = sps.cb THEN {0, 3} ELSE {0}
    [] mode = "INTER" -> {0, 1, 2} \cup (IF log > sps.cb THEN 4 .. 7
                                         ELSE IF log > 3 THEN {3} ELSE {})

Residuals(cu, log) ==
  LET one  == IF log < 6 /\ ~(cu.mode = "INTRA" /\ cu.part = 3) THEN {"coded", "dark", "fails"} ELSE {}
      four == IF log > sps.tb THEN {"split", "swallowed"} ELSE {}
  IN CASE cu.mode = "SKIP"  -> {"none"}
       [] cu.mode = "INTER" -> {"none"} \cup one \cup four
       [] cu.mode = "INTRA" -> one \cup four \cup (IF cu.part = 0 THEN {"pcm"} ELSE {})

Modes(type) == IF type = "I" THEN {"INTRA"} ELSE {"SKIP", "INTER", "INTRA"}
Lists(type) == IF type = "B" THEN {1, 2, 3} ELSE {1}

Admitted(cu, b) ==
  /\ cu.mode \in Modes(SliceSeq[segment])
  /\ cu.part \in Parts(cu.mode, b.log)
  /\ cu.residual \in Residuals(cu, b.log)
  /\ \A half \in 1 .. 2 : cu.pred_flag[half] \in Lists(SliceSeq[segment])

-----------------------------------------------------------------------------
(* Transforms.                                                             *)

Area(log) == 4^(log - 2)   \* in blocks of 4x4

SumOf(f) == MapThenSumSet(LAMBDA i : f[i], DOMAIN f)

(* The transform blocks of a coding block the decoder visits. *)
Transforms(b, cu) ==
  CASE cu.residual \in {"none", "pcm"} -> {}
    [] cu.residual \in {"coded", "dark", "fails"} -> {b}
    [] cu.residual = "swallowed" -> {Quarter(b, 0, 0)}
    [] cu.residual = "split" -> {Quarter(b, i, j) : i, j \in 0 .. 1}

HasLuma(t, b, cu) == cu.residual # "dark" /\ t.x = b.x /\ t.y = b.y

\* Variant with a defect: only transforms with coefficients count.
TransformsOnly(S, b, cu) ==
  [n \in TrIdx |-> S[n] + Cardinality({t \in Transforms(b, cu) : t.log = n /\ HasLuma(t, b, cu)})]

(* TrShapes after the block: TransfStatHEVC of every transform, or the     *)
(* area of the block if it has no transform tree (not so for PCM).         *)
TrShapes(S, b, cu) ==
  LET ts == Transforms(b, cu)
      uncoded == IF cu.residual = "none" THEN Area(b.log)
                 ELSE SumOf([t \in {u \in ts : ~HasLuma(u, b, cu)} |-> Area(t.log)])
  IN [n \in TrIdx |->
       S[n] + (IF n = 0 THEN uncoded ELSE Cardinality({t \in ts : t.log = n /\ HasLuma(t, b, cu)}))]

(* The luma transform blocks of smallest size with coefficients.  A failed *)
(* transform does not get there.                                           *)
CodedBlocks(b, cu) ==
  IF cu.residual \in {"swallowed", "fails"} THEN {}
  ELSE UNION {{<<(t.x \div 2^sps.tb) + i, (t.y \div 2^sps.tb) + j>> :
                 i, j \in 0 .. 2^(t.log - sps.tb) - 1} :
              t \in {u \in Transforms(b, cu) : HasLuma(u, b, cu)}}

-----------------------------------------------------------------------------
(* Coding blocks.                                                          *)

(* PU_Stat[log2_cb_size][part_mode]++ on an array of seven rows of six:    *)
(* partitions 6 and 7 (nLx2N, nRx2N) land in the row of the next size, and *)
(* those of 64x64 blocks behind the array.                                 *)
CountPU(PU_Stat, log, part) ==
  IF part <= 5 THEN [PU_Stat EXCEPT ![log][part] = @ + 1]
  ELSE IF log < 6 THEN [PU_Stat EXCEPT ![log + 1][part - 6] = @ + 1]
  ELSE PU_Stat

(* Whether the 4x4 (or smallest) block at distance dx, dy of a coding      *)
(* block n of them wide belongs to its first prediction unit.              *)
InFirstPU(part, dx, dy, n) ==
  CASE part = 0 -> TRUE
    [] part = 1 -> 2 * dy < n
    [] part = 2 -> 2 * dx < n
    [] part = 3 -> 2 * dx < n /\ 2 * dy < n
    [] part = 4 -> 4 * dy < n
    [] part = 5 -> 4 * dy < 3 * n
    [] part = 6 -> 4 * dx < n
    [] part = 7 -> 4 * dx < 3 * n

GetCodingTypeHEVC(cu, flag) ==
  CASE cu.mode = "INTRA" -> IF cu.planar THEN INTRA_PLN ELSE INTRA_BLK
    [] cu.mode = "SKIP"  -> IF pict_type = "B" THEN DIRECT ELSE SKIPPED
    [] cu.mode = "INTER" -> flag

\* Variant with a defect: the QP of the last row above the border is missed.
NoBorderAbove(b) == b.y > stat.BlackBorder /\ sps.height - b.y > stat.BlackBorder

NoBorder(b) == b.y >= stat.BlackBorder /\ sps.height - b.y > stat.BlackBorder

Units(b) == 2^(b.log - sps.cb)       \* qp_length
PUSize   == 2^(sps.cb - 1)           \* log2_min_pu_size is log2_min_cb_size - 1
MBs      == 2

(* Where MbStatistcsHEVC reads the motion: once per smallest coding block, *)
(* but only one prediction unit apart, so within the block's upper left    *)
(* quarter.                                                                *)
Samples(b) == (0 .. Units(b) - 1) \X (0 .. Units(b) - 1)

\* Variant with a defect: a block counts once, whatever its size.
MbStatistcsHEVCOnce(S, b, cu) ==
  LET type == GetCodingTypeHEVC(cu, cu.pred_flag[1]) IN
  [S EXCEPT !.MbTypes[type] = @ + 1, !.MbCnt = @ + 1,
            !.NumBlksMv = IF pict_type # "I" /\ type \in 1 .. 4 THEN @ + 4 ELSE @]

(* The type found at a sample, and how many have one of some types. *)
TypeAt(b, cu, s) ==
  GetCodingTypeHEVC(cu, cu.pred_flag[IF InFirstPU(cu.part, s[1], s[2], Units(b) * MBs) THEN 1 ELSE 2])
Number(b, cu, types) == Cardinality({s \in Samples(b) : TypeAt(b, cu, s) \in types})

(* MbStatistcsHEVC: every sample counts as a smallest coding block of the  *)
(* type found there.  Skipped blocks have no QP of their own, except in    *)
(* the corner.                                                             *)
MbStatistcsHEVC(S, b, cu) ==
  LET qps   == IF b.x = 0 /\ b.y = 0 THEN Units(b)^2 ELSE Number(b, cu, MbTypeIdx \ {SKIPPED, DIRECT})
      inter == IF pict_type = "I" THEN 0 ELSE MBs * MBs
  IN [S EXCEPT
       !.MbTypes = [t \in MbTypeIdx |-> @[t] + Number(b, cu, {t})],
       !.MbCnt   = @ + 1,
       !.QpCnt   = @ + qps,
       !.QpCntBB = IF NoBorder(b) THEN @ + qps ELSE @,
       !.NumBlksMv    = @ + inter * Number(b, cu, 1 .. 4),
       !.NumBlksSkip  = @ + inter * Number(b, cu, {SKIPPED}),
       !.NumBlksIntra = @ + inter * Number(b, cu, {INTRA_BLK, INTRA_PLN})]

-----------------------------------------------------------------------------
(* Slice segments and pictures.                                            *)

InitStatistics(n) ==
  /\ stat' = Cleared(CurrBlackBorder)
  /\ excluded' = CurrBlackBorder
  /\ ctb' = n /\ todo' = <<Root(n)>>
  /\ stage' = "slice"

(* hevc_frame_start, and the first slice segment. *)
StartPicture ==
  /\ stage = "shown" /\ pic < Len(coded.pictures)
  /\ pic' = pic + 1 /\ segment' = 1
  /\ cbf_luma' = {} /\ blocks' = {}
  /\ InitStatistics(0)
  /\ UNCHANGED <<coded, CurrBlackBorder, BlkShapes>>

(* The next slice segment of the picture goes on where the last one ended, *)
(* or somewhere behind the block where it was lost.                        *)
StartSlice ==
  /\ segment' = segment + 1
  /\ \/ stage = "between" /\ InitStatistics(ctb + 1)
     \/ /\ stage = "lost" /\ segment < Len(SliceSeq)
        /\ \E n \in ctb + 1 .. CtbCols * CtbRows - 1 : InitStatistics(n)
  /\ UNCHANGED <<coded, pic, cbf_luma, CurrBlackBorder, BlkShapes, blocks>>

(* hls_coding_quadtree: a node of smallest size is not split, one that     *)
(* sticks out of the picture is.                                           *)
SplitNode ==
  /\ stage = "slice" /\ todo # <<>>
  /\ Head(todo).log > sps.cb
  /\ todo' = Quarters(Head(todo)) \o Tail(todo)
  /\ UNCHANGED <<coded, pic, segment, ctb, stat, cbf_luma, CurrBlackBorder,
                 BlkShapes, blocks, excluded, stage>>

(* hls_coding_unit, and the count of its partition behind it.  An error    *)
(* leaves hls_decode_entry before the border; decode_nal_unit reports      *)
(* success all the same.                                                   *)
CodingUnit(cu) ==
  LET b == Head(todo) fails == cu.residual = "fails" IN
  /\ stage = "slice" /\ todo # <<>>
  /\ b.log > sps.cb => FitsIn(b)
  /\ Admitted(cu, b)
  /\ todo' = IF fails THEN <<>> ELSE Tail(todo)
  /\ LET S == [stat EXCEPT !.PU_Stat = CountPU(@, b.log, cu.part), !.TrShapes = TrShapes(@, b, cu)]
     IN stat' = IF fails THEN S ELSE MbStatistcsHEVC(S, b, cu)
  /\ stage' = IF fails THEN "lost" ELSE stage
  /\ cbf_luma' = cbf_luma \cup CodedBlocks(b, cu)
  /\ blocks' = blocks \cup {[b |-> b, cu |-> cu, slice |-> segment]}
  /\ UNCHANGED <<coded, pic, segment, ctb, CurrBlackBorder, BlkShapes, excluded>>

LastCtb == ctb + 1 = CtbCols * CtbRows

NextCtb ==
  /\ stage = "slice" /\ todo = <<>> /\ ~LastCtb
  /\ ctb' = ctb + 1 /\ todo' = <<Root(ctb + 1)>>
  /\ UNCHANGED <<coded, pic, segment, stat, cbf_luma, CurrBlackBorder, BlkShapes,
                 blocks, excluded, stage>>

TbCols == sps.width \div 2^sps.tb
TbRows == sps.height \div 2^sps.tb

(* BlackLine: transform blocks without coefficients by row, the corner not *)
(* counted.  What was not decoded yet counts.                              *)
BlackLine ==
  [row \in 0 .. TbRows - 1 |->
    Cardinality({col \in 0 .. TbCols - 1 : col + row > 0 /\ <<col, row>> \notin cbf_luma})]

\* Variant with a defect: every picture has a border of its own.
BorderOfAny(type) == BlackborderDetect(BlackLine, TbRows, (72 * TbCols) \div 100, 2^sps.tb)

BlackBorderEstimationHEVC(type) ==
  IF type = "I"
  THEN BlackborderDetect(BlackLine, TbRows, (72 * TbCols) \div 100, 2^sps.tb)
  ELSE CurrBlackBorder

(* BlackLine has as many counters as the picture has columns of transform  *)
(* blocks, and is indexed by rows.                                         *)
BlackLineOverrun == TbRows > TbCols

EndSlice ==
  /\ stage = "slice" /\ todo = <<>>
  /\ segment = Len(SliceSeq) => LastCtb
  /\ IF pict_type = "I" /\ BlackLineOverrun
     THEN stage' = "misused" /\ UNCHANGED <<stat, CurrBlackBorder>>
     ELSE LET border == BlackBorderEstimationHEVC(pict_type) IN
          /\ CurrBlackBorder' = border
          /\ stat' = [stat EXCEPT !.BlackBorder = border]
          /\ stage' = IF LastCtb THEN "decoded" ELSE "between"
  /\ UNCHANGED <<coded, pic, segment, ctb, todo, cbf_luma, BlkShapes, blocks, excluded>>

\* Variant with a defect: the four parts of NxN count as two.
SHAPE_FACTORTwo == <<1, 2, 2, 2, 2, 2>>

SHAPE_FACTOR == <<1, 2, 2, 4, 2, 2>>

(* ShapeStatisticsHEVC: square blocks at even places, halves of the next   *)
(* size at odd ones; quarters join the squares of their size.              *)
ShapeStatisticsHEVC(PU_Stat) ==
  LET Count(log, part) ==
        IF log \in PUSizes THEN PU_Stat[log][part] * SHAPE_FACTOR[part + 1] ELSE 0
  IN [i \in 0 .. 8 |->
       IF i % 2 = 0 THEN Count(i \div 2 + 2, 0) + Count(i \div 2 + 3, 3)
       ELSE LET log == (i + 1) \div 2 + 2
            IN Count(log, 1) + Count(log, 2) + Count(log, 4) + Count(log, 5)]

(* At the output: of a picture that has lost its last slice segments, too. *)
GetVideoStatisticsHEVC ==
  /\ stage \in {"decoded", "lost"}
  /\ BlkShapes' = ShapeStatisticsHEVC(stat.PU_Stat)
  /\ stage' = "shown"
  /\ UNCHANGED <<coded, pic, segment, ctb, todo, stat, cbf_luma, CurrBlackBorder, blocks, excluded>>

BlocksFinished ==
  /\ stage = "misused" \/ (stage = "shown" /\ pic = Len(coded.pictures))
  /\ UNCHANGED blockVars

BlocksNext ==
  \/ StartPicture \/ StartSlice
  \/ SplitNode
  \/ \E cu \in coded.units : CodingUnit(cu)
  \/ NextCtb \/ EndSlice
  \/ GetVideoStatisticsHEVC
  \/ BlocksFinished

BlocksSpec == BlocksInit /\ [][BlocksNext]_blockVars

-----------------------------------------------------------------------------
(* Properties.                                                             *)

(* Every variable stays in its type; blocks lie in the picture.            *)
BlocksTypeOK ==
  /\ coded \in CodedStreams
  /\ pic \in 0 .. Len(coded.pictures) /\ segment \in Nat /\ ctb \in Nat
  /\ \A i \in DOMAIN todo : InPicture(todo[i]) /\ todo[i].log \in sps.cb .. sps.ctb
  /\ stat \in [PU_Stat : [PUSizes -> [0 .. 5 -> Nat]], TrShapes : [TrIdx -> Nat],
               MbTypes : [MbTypeIdx -> Nat], MbCnt : Nat, QpCnt : Nat, QpCntBB : Nat,
               NumBlksMv : Nat, NumBlksSkip : Nat, NumBlksIntra : Nat, BlackBorder : Nat]
  /\ cbf_luma \subseteq (0 .. TbCols - 1) \X (0 .. TbRows - 1)
  /\ 2 * CurrBlackBorder < sps.height /\ CurrBlackBorder >= 0
  /\ BlkShapes \in [0 .. 8 -> Nat]
  /\ \A c \in blocks : FitsIn(c.b)
  /\ excluded \in Nat
  /\ stage \in {"slice", "between", "lost", "decoded", "shown", "misused"}

Shown == stage = "shown" /\ pic > 0

(* The statistics are those of the last slice segment, up to the error if  *)
(* it had one.                                                             *)
LastBlocks     == {c \in blocks : c.slice = segment}
Lost           == \E c \in LastBlocks : c.cu.residual = "fails"
TypedBlocks    == {c \in LastBlocks : c.cu.residual # "fails"}
AreaOf(bs)     == SumOf([c \in bs |-> Area(c.b.log)])
CbAreaOf(bs)   == SumOf([c \in bs |-> Units(c.b)^2])
OfMode(bs, ms) == {c \in bs : c.cu.mode \in ms}

(* The first two assertions at the end of GetVideoStatisticsHEVC, which    *)
(* are commented out there.  The shapes add up to the area of the blocks   *)
(* counted, if none is split vertically at a quarter; those blocks are the *)
(* picture, if it has one slice, whole.  So do the transforms, if no block *)
(* is PCM and none swallowed an error.                                     *)
BlocksCoverSlice ==
  Shown =>
    /\ (\A c \in LastBlocks : c.cu.part < 6) =>
         SumOf([i \in 0 .. 8 |-> BlkShapes[i] * 2^i]) = AreaOf(LastBlocks)
    /\ segment = 1 /\ ~Lost => 16 * AreaOf(LastBlocks) = sps.width * sps.height
    /\ (\A c \in LastBlocks : c.cu.residual \notin {"pcm", "swallowed"}) =>
         stat.TrShapes[0] + SumOf([log \in 2 .. 5 |-> stat.TrShapes[log] * Area(log)])
           = AreaOf(LastBlocks)

(* The third one: so do the types, in smallest coding blocks, type by type *)
(* of prediction; the moved, skipped and intra blocks of a P or B picture  *)
(* are all its 4x4 blocks, an I picture has none.  The block that failed   *)
(* has a shape and no type.                                                *)
TypesCoverSlice ==
  LET inter == IF pict_type = "I" THEN 0 ELSE MBs * MBs
      skips == CbAreaOf(OfMode(TypedBlocks, {"SKIP"}))
      intra == CbAreaOf(OfMode(TypedBlocks, {"INTRA"}))
      moved == CbAreaOf(OfMode(TypedBlocks, {"INTER"}))
  IN Shown =>
       /\ stat.MbTypes[INTRA_BLK] + stat.MbTypes[INTRA_PLN] = intra
       /\ stat.MbTypes[SKIPPED] + stat.MbTypes[DIRECT] = skips
       /\ SumOf([t \in 1 .. 3 |-> stat.MbTypes[t]]) = moved
       /\ stat.NumBlksIntra = inter * intra
       /\ stat.NumBlksMv + stat.NumBlksSkip = inter * (moved + skips)

(* The border that goes with a picture is that of the latest I picture,    *)
(* whole and centered; one whose last slice segment failed keeps the       *)
(* border of the segment before.  The overrun takes place only in a        *)
(* picture that is higher than wide.                                       *)
BorderOfIntra ==
  /\ Shown => /\ stat.BlackBorder = CurrBlackBorder
              /\ IF pict_type = "I" /\ ~Lost
                 THEN IsBorder(BlackLine, TbRows, (72 * TbCols) \div 100, 2^sps.tb, CurrBlackBorder)
                 ELSE CurrBlackBorder = excluded
  /\ stage = "misused" => sps.height > sps.width

(* Av_QPBB is defined for an I picture of one slice if no block of it is   *)
(* higher than what the border leaves.                                     *)
AverageDefined ==
  Shown /\ pict_type = "I" /\ segment = 1 /\ ~Lost =>
    /\ (\A c \in blocks : 2^c.b.log <= sps.height - 2 * excluded) => stat.QpCntBB > 0
    /\ stat.QpCntBB <= stat.QpCnt
=============================================================================
