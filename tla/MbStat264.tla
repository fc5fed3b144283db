------------------------------ MODULE MbStat264 ------------------------------
(***************************************************************************)
(* The macroblock statistics of one H.264 picture: InitFrameStatistics264  *)
(* at the start of every slice, MbStatistics264 after every macroblock,    *)
(* GetVideoStatisticsH264 when the picture is output.  The statistics live *)
(* in the decoder's AVFrame, so they are shared by the slices.             *)
(*                                                                         *)
(* A macroblock is what the decoder leaves in mb_type, sub_mb_type and     *)
(* cbp: a set of flags (MB_TYPE_...), one set for each of its four 8x8     *)
(* quarters, and the quarters with coefficients.  Coefficients, lengths of *)
(* vectors and the black border are left out; of the motion, the number of *)
(* quarters measured in each direction is kept.                            *)
(***************************************************************************)
EXTENDS Integers, Sequences, FiniteSets, SequencesExt

CONSTANTS
  NumMb,          \* macroblocks of a picture
  MaxSlices,      \* bound: slices of a picture
  QPs,            \* values of qscale
  SliceTypes,     \* the slice types that occur: a subset of {"I", "P", "B"}
  Macroblocks(_)  \* the macroblocks the decoder produces in a slice of a type

Quarters == 0 .. 3
ASSUME NumMbAssumption     == NumMb \in Nat \ {0}
ASSUME MaxSlicesAssumption == MaxSlices \in Nat \ {0}
ASSUME QPAssumption        == QPs \subseteq Nat \ {0} /\ QPs # {}

SKIPPED   == 0
FORWARD   == 1
BACKWARD  == 2
BIDIRECT  == 3
DIRECT    == 4
INTRA_BLK == 5
INTRA_PLN == 6

MbTypeIdx == 0 .. 6
(* MbQPs[-1], the member in front of the array, is InitialQP. *)
MbQPIdx   == -1 .. 6
Shapes    == 0 .. 4     \* 4x4, 8x4, 8x8, 16x8, 16x16
TrSizes   == {0, 2, 3}  \* no transform, 4x4, 8x8

VARIABLES
  slices,     \* the slices so far: initial QP, macroblocks and their QPs (history)
  pict_type,  \* the picture's type, that of its first slice
  slice_type, \* the current slice's type
  FrmStat,    \* the statistics in the AVFrame
  output      \* GetVideoStatisticsH264 was called

vars == <<slices, pict_type, slice_type, FrmStat, output>>

Cleared(qscale) ==
  [MbCnt |-> 0, MbTypes |-> [t \in MbTypeIdx |-> 0], BlkShapes |-> [s \in Shapes |-> 0],
   TrShapes |-> [s \in TrSizes |-> 0],
   MbQPs |-> [t \in MbQPIdx |-> IF t = -1 THEN qscale ELSE 0],
   min_QP |-> 100, max_QP |-> 0, QpSum |-> 0,
   NumBlksIntra |-> 0, NumBlksSkip |-> 0, NumBlksMv |-> 0,
   FwdQuarters |-> 0, BwdQuarters |-> 0]

Init ==
  /\ slices = <<>>
  /\ pict_type = "none" /\ slice_type = "none"
  /\ FrmStat = Cleared(0)
  /\ output = FALSE

NumDecoded == FoldLeft(LAMBDA n, s : Len(s.mbs) + n, 0, slices)

-----------------------------------------------------------------------------
(* The type of a macroblock and of its quarters.                           *)

(* The flag that says partition p is predicted from list l. *)
Pred(p, l) == (<<<<"P0L0", "P0L1">>, <<"P1L0", "P1L1">>>>)[p + 1][l + 1]

ListUse(flags, l) == flags \cap {Pred(0, l), Pred(1, l)} # {}
IsIntra(mb) == mb.type \cap {"INTRA4x4", "INTRA16x16", "INTRA_PCM"} # {}

Partitionings == {"16x16", "16x8", "8x16", "8x8"}

(* Of one partitioning, with lists or vectors to be predicted from. *)
IsPredicted(flags) ==
  /\ \E s \in Partitionings : flags \cap Partitionings = {s}
  /\ "DIRECT2" \in flags \/ ListUse(flags, 0) \/ ListUse(flags, 1)

(* The macroblocks of the tables of types, and those that a direct one     *)
(* becomes; only 16x16 leaves the types of the quarters unused.  Outside   *)
(* of B slices the quarters use the lists of their macroblock.             *)
IsMacroblock(type, mb) ==
  /\ mb.cbp \subseteq Quarters
  /\ \/ \E intra \in {"INTRA4x4", "INTRA16x16", "INTRA_PCM"} : mb.type \ {"8x8DCT"} = {intra}
     \/ /\ ~IsIntra(mb) /\ IsPredicted(mb.type)
        /\ "16x16" \notin mb.type /\ mb.type \cap {"DIRECT2", "8x8"} # {} =>
             \A q \in Quarters : IsPredicted(mb.sub[q])
        /\ type # "B" /\ "8x8" \in mb.type =>
             \A q \in Quarters, l \in 0 .. 1 : ListUse(mb.type, l) <=> Pred(0, l) \in mb.sub[q]

ASSUME MacroblocksAssumption ==
  \A type \in SliceTypes : \A mb \in Macroblocks(type) : IsMacroblock(type, mb)

(* -1 for a type that is none of the seven. *)
CountMbType(flags) ==
  IF "DIRECT2" \in flags THEN DIRECT
  ELSE IF "SKIP" \in flags THEN SKIPPED
  ELSE IF ListUse(flags, 0) /\ ListUse(flags, 1) THEN BIDIRECT
  ELSE IF ListUse(flags, 0) THEN FORWARD
  ELSE IF ListUse(flags, 1) THEN BACKWARD
  ELSE IF "INTRA4x4" \in flags THEN INTRA_BLK
  ELSE IF "INTRA16x16" \in flags THEN INTRA_PLN
  ELSE -1

(* The type of a half of a 16x8 or 8x16 macroblock. *)
PartitionType(flags, p) ==
  IF {Pred(p, 0), Pred(p, 1)} \subseteq flags THEN BIDIRECT
  ELSE IF Pred(p, 1) \in flags THEN BACKWARD ELSE FORWARD

\* Variant with a defect: the second half of 16x8 and 8x16 is not counted.
GetMbTypeIdx264OneHalf(mb) ==
  [q \in Quarters |->
    IF "16x16" \in mb.type THEN CountMbType(mb.type)
    ELSE IF mb.type \cap {"DIRECT2", "8x8"} # {} THEN CountMbType(mb.sub[q])
    ELSE IF mb.type \cap {"16x8", "8x16"} # {} THEN (IF q < 2 THEN PartitionType(mb.type, 0) ELSE -1)
    ELSE CountMbType(mb.type)]

(* The types the quarters are counted with, in the order of counting; the  *)
(* last one is the macroblock's.                                           *)
GetMbTypeIdx264(mb) ==
  [q \in Quarters |->
    IF "16x16" \in mb.type THEN CountMbType(mb.type)
    ELSE IF mb.type \cap {"DIRECT2", "8x8"} # {} THEN CountMbType(mb.sub[q])
    ELSE IF mb.type \cap {"16x8", "8x16"} # {} THEN PartitionType(mb.type, q \div 2)
    ELSE CountMbType(mb.type)]

NumQuarters(P(_)) == Cardinality({q \in Quarters : P(q)})

(* The number of blocks of each shape; flags of a quarter mean half sizes. *)
GetShapeIdx264(mb) ==
  IF mb.type \cap {"16x16", "INTRA16x16"} # {} THEN [s \in Shapes |-> IF s = 4 THEN 1 ELSE 0]
  ELSE IF mb.type \cap {"16x8", "8x16"} # {} THEN [s \in Shapes |-> IF s = 3 THEN 2 ELSE 0]
  ELSE IF "8x8" \in mb.type THEN
    [s \in Shapes |->
      CASE s = 2 -> NumQuarters(LAMBDA q : "16x16" \in mb.sub[q])
        [] s = 1 -> 2 * NumQuarters(LAMBDA q : mb.sub[q] \cap {"16x8", "8x16"} # {})
        [] s = 0 -> 4 * NumQuarters(LAMBDA q : "8x8" \in mb.sub[q])
        [] OTHER -> 0]
  ELSE [s \in Shapes |-> IF s = 0 /\ "INTRA4x4" \in mb.type THEN 16 ELSE 0]

(* A quarter with coefficients has four 4x4 transforms or one of 8x8. *)
TransformShapes(mb) ==
  LET dct8x8 == "8x8DCT" \in mb.type
      coded  == Cardinality(mb.cbp)
  IN [s \in TrSizes |->
       CASE s = 0 -> 4 * (4 - coded)
         [] s = 2 -> IF dct8x8 THEN 0 ELSE 4 * coded
         [] s = 3 -> IF dct8x8 THEN coded ELSE 0]

-----------------------------------------------------------------------------
(* The directions a quarter's motion is measured in.                       *)

\* Variant with a defect: both halves are measured as the first one.
UsesFirstPart(flags, q, l) ==
  \/ flags \cap {"16x16", "16x8", "8x16"} # {} /\ Pred(0, l) \in flags
  \/ "8x8" \in flags /\ ListUse(flags, l)

(* isFWD and isBWD, for list 0 and 1. *)
Uses(flags, q, l) ==
  \/ "16x16" \in flags /\ Pred(0, l) \in flags
  \/ "8x8" \in flags /\ ListUse(flags, l)
  \/ "16x8" \in flags /\ Pred(q \div 2, l) \in flags
  \/ "8x16" \in flags /\ Pred(q % 2, l) \in flags

(* CurrType in the pass of each quarter.  In a B picture the type of an    *)
(* 8x8 macroblock is replaced by the first quarter's, and only if that is  *)
(* split into 4x4 ("8x8" again) by the second's; the index then leaves the *)
(* array (stride SubStride): the last two types are whatever is there.     *)
CurrTypes(mb, b) ==
  IF ~(b /\ "8x8" \in mb.type) THEN {[q \in Quarters |-> mb.type]}
  ELSE IF "8x8" \notin mb.sub[0] THEN {[q \in Quarters |-> mb.sub[0]]}
  ELSE IF "8x8" \notin mb.sub[1] THEN {[q \in Quarters |-> IF q = 0 THEN mb.sub[0] ELSE mb.sub[1]]}
  ELSE {[q \in Quarters |-> IF q < 2 THEN mb.sub[q] ELSE beyond[q]] :
          beyond \in [2 .. 3 -> {{}} \cup {mb.sub[q] : q \in Quarters}]}

-----------------------------------------------------------------------------
(* The handlers.                                                           *)

\* Variants with a defect: the maximum starts too low, and the counters
\* survive the start of a slice.
MaxQPBelowZero(qscale) == [Cleared(qscale) EXCEPT !.max_QP = -1]
ClearedOnce(qscale) ==
  IF Len(slices) = 0 THEN Cleared(qscale) ELSE [FrmStat EXCEPT !.MbQPs[-1] = qscale]

(* InitFrameStatistics264: every slice starts with cleared statistics. *)
InitFrameStatistics264(qscale) == Cleared(qscale)

StartSlice(type, qscale) ==
  /\ ~output /\ NumDecoded < NumMb /\ Len(slices) < MaxSlices
  /\ slices # <<>> => Last(slices).mbs # <<>>
  /\ FrmStat' = InitFrameStatistics264(qscale)
  /\ slices' = Append(slices, [QP |-> qscale, mbs |-> <<>>])
  /\ slice_type' = type
  /\ pict_type' = IF slices = <<>> THEN type ELSE pict_type
  /\ UNCHANGED output

(* Blocks are intra unless the picture and the macroblock are both inter. *)
IsInter(mb) == pict_type # "I" /\ ~IsIntra(mb)

(* MbStatistics264. *)
Counted(S, mb, qscale, curr) ==
  LET types  == GetMbTypeIdx264(mb)
      shapes == GetShapeIdx264(mb)
      trs    == TransformShapes(mb)
      moves  == IsInter(mb) /\ "SKIP" \notin mb.type
      Measured(l) == IF moves THEN NumQuarters(LAMBDA q : Uses(curr[q], q, l)) ELSE 0
  IN [S EXCEPT
       !.MbCnt     = @ + 1,
       !.MbTypes   = [t \in MbTypeIdx |-> @[t] + NumQuarters(LAMBDA q : types[q] = t)],
       !.BlkShapes = [s \in Shapes |-> @[s] + shapes[s]],
       !.TrShapes  = [s \in TrSizes |-> @[s] + trs[s]],
       !.MbQPs[types[3]] = @ + qscale,
       !.min_QP = IF qscale < @ THEN qscale ELSE @,
       !.max_QP = IF qscale > @ THEN qscale ELSE @,
       !.QpSum  = @ + qscale,
       !.NumBlksIntra = IF IsInter(mb) THEN @ ELSE @ + 16,
       !.NumBlksSkip  = IF IsInter(mb) /\ "SKIP" \in mb.type THEN @ + 4 ELSE @,
       !.NumBlksMv    = IF moves THEN @ + 16 ELSE @,
       !.FwdQuarters  = @ + Measured(0),
       !.BwdQuarters  = @ + Measured(1)]

MbStatistics264(mb, qscale) ==
  /\ ~output /\ slices # <<>> /\ NumDecoded < NumMb
  /\ \E curr \in CurrTypes(mb, pict_type = "B") : FrmStat' = Counted(FrmStat, mb, qscale, curr)
  /\ slices' = [slices EXCEPT ![Len(slices)].mbs = Append(@, [mb |-> mb, QP |-> qscale])]
  /\ UNCHANGED <<pict_type, slice_type, output>>

(* GetVideoStatisticsH264, with the averages of FinishStatistics left as   *)
(* the sums they are computed from.                                        *)
GetVideoStatisticsH264 ==
  /\ ~output /\ NumDecoded = NumMb
  /\ output' = TRUE
  /\ UNCHANGED <<slices, pict_type, slice_type, FrmStat>>

(* The frame returns to the pool and is used for another picture. *)
NextPicture ==
  /\ output
  /\ slices' = <<>> /\ pict_type' = "none" /\ slice_type' = "none"
  /\ output' = FALSE
  /\ UNCHANGED FrmStat

Next ==
  \/ \E type \in SliceTypes, qscale \in QPs : StartSlice(type, qscale)
  \/ \E mb \in Macroblocks(slice_type), qscale \in QPs : MbStatistics264(mb, qscale)
  \/ GetVideoStatisticsH264
  \/ NextPicture

Spec == Init /\ [][Next]_vars
-----------------------------------------------------------------------------
(* Properties.                                                             *)

Counters == [MbCnt : Nat, MbTypes : [MbTypeIdx -> Nat], BlkShapes : [Shapes -> Nat],
             TrShapes : [TrSizes -> Nat], MbQPs : [MbQPIdx -> Nat],
             min_QP : Nat, max_QP : Nat, QpSum : Nat, NumBlksIntra : Nat,
             NumBlksSkip : Nat, NumBlksMv : Nat, FwdQuarters : Nat, BwdQuarters : Nat]

(* Every variable stays in its type, and no slice or macroblock is counted *)
(* beyond the picture.                                                     *)
TypeOK ==
  /\ Len(slices) \in 0 .. MaxSlices
  /\ NumDecoded \in 0 .. NumMb
  /\ pict_type \in SliceTypes \cup {"none"}
  /\ slice_type \in SliceTypes \cup {"none"}
  /\ FrmStat \in Counters
  /\ output \in BOOLEAN

SumOf(f) == FoldFunction(+, 0, f)

(* The three assertions at the end of GetVideoStatisticsH264. *)
Asserts ==
  LET n == FrmStat.MbCnt IN
  /\ FrmStat.TrShapes[0] + FrmStat.TrShapes[2] + 4 * FrmStat.TrShapes[3] = 16 * n
  /\ SumOf(FrmStat.MbTypes) = 4 * n
  /\ SumOf([s \in Shapes |-> 2^s * FrmStat.BlkShapes[s]]) = 16 * n

LastMbs == IF slices = <<>> THEN <<>> ELSE Last(slices).mbs
NumMbs(P(_)) == Cardinality({i \in DOMAIN LastMbs : P(LastMbs[i].mb)})

HasPCM == NumMbs(LAMBDA mb : "INTRA_PCM" \in mb.type) > 0

(* The assertions hold for every picture without INTRA_PCM macroblocks:    *)
(* the three ways of counting a macroblock (transforms, types, shapes)     *)
(* agree, whatever its partition.                                          *)
AssertsWithoutPCM == output /\ ~HasPCM => Asserts

(* The statistics are those of the last slice alone, and every one of its  *)
(* macroblocks is intra, skipped (in units of 8x8) or moved (of 4x4).      *)
LastSliceCounted ==
  /\ FrmStat.MbCnt = Len(LastMbs) \/ slices = <<>>
  /\ FrmStat.NumBlksIntra + 4 * FrmStat.NumBlksSkip + FrmStat.NumBlksMv = 16 * FrmStat.MbCnt

(* The QP of every macroblock is added to the sum of one type, and the     *)
(* memory in front of the sums still holds the QP the slice started with.  *)
TypeQPsConserved ==
  slices # <<>> /\ ~HasPCM =>
    /\ FrmStat.MbQPs[-1] = Last(slices).QP
    /\ SumOf([t \in MbTypeIdx |-> FrmStat.MbQPs[t]]) = FrmStat.QpSum

(* Whether quarter q of a macroblock is predicted from list l. *)
PredictedFrom(mb, q, l) ==
  LET part == CASE "16x8" \in mb.type -> q \div 2 [] "8x16" \in mb.type -> q % 2 [] OTHER -> 0
  IN Pred(part, l) \in (IF "8x8" \in mb.type THEN mb.sub[q] ELSE mb.type)

Moved(mb) == IsInter(mb) /\ "SKIP" \notin mb.type

PredictedQuarters(l) ==
  Cardinality({p \in (DOMAIN LastMbs) \X Quarters :
                 Moved(LastMbs[p[1]].mb) /\ PredictedFrom(LastMbs[p[1]].mb, p[2], l)})

EveryQuarterMeasured ==
  /\ FrmStat.FwdQuarters = PredictedQuarters(0) \/ slices = <<>>
  /\ FrmStat.BwdQuarters = PredictedQuarters(1) \/ slices = <<>>

(* Motion is measured for the quarters and in the directions they are      *)
(* predicted in, unless an 8x8 macroblock meets a B picture or B slice.    *)
MotionMeasured ==
  ("B" \in {pict_type, slice_type} => NumMbs(LAMBDA mb : "8x8" \in mb.type) = 0) => EveryQuarterMeasured

(* What the source says of a picture, and what it does not do.             *)

(* The assertions hold for every picture that is output. *)
Asserts264 == output => Asserts

(* MbQPs[t] is the average QP of the blocks of type t: it lies between the *)
(* picture's lowest and highest QP.                                        *)
TypeQPIsAverage ==
  output => \A t \in MbTypeIdx : FrmStat.MbTypes[t] > 0 =>
              /\ FrmStat.min_QP * FrmStat.MbTypes[t] <= 4 * FrmStat.MbQPs[t]
              /\ 4 * FrmStat.MbQPs[t] <= FrmStat.max_QP * FrmStat.MbTypes[t]

(* AnalyzedMBs is the number of macroblocks of the frame. *)
AllMbsAnalyzed == output => FrmStat.MbCnt = NumMb

(* SKIP_mb_ratio, computed as NumBlksSkip / (16 * NumMb), is the number of *)
(* skipped macroblocks divided by AnalyzedMBs.                             *)
SkipRatioDocumented ==
  output /\ pict_type # "I" =>
    FrmStat.NumBlksSkip * FrmStat.MbCnt = 16 * NumMb * NumMbs(LAMBDA mb : "SKIP" \in mb.type)

(* Av_Motion is taken over the motion field: every quarter's vectors are   *)
(* measured in every direction they exist in.                              *)
WholeFieldMeasured == output => EveryQuarterMeasured
=============================================================================
