---------------------------- MODULE BlackBorder264 ----------------------------
(***************************************************************************)
(* The black border of H.264 pictures: InitFrameStatistics264 allocates    *)
(* the row counters at the start of a slice, MbStatistics264 counts the    *)
(* macroblocks of I pictures that have no coefficients and leaves the      *)
(* border of the picture before out of the QP sums, and the end of the     *)
(* slice computes the new border.                                          *)
(***************************************************************************)
EXTENDS BlackBorder

CONSTANTS
  Sizes,      \* picture sizes in macroblocks: records of mb_width, mb_height
  Cap,        \* where a row counter saturates: 255 in the code
  MaxSlices   \* bound: slices of a picture

ASSUME SizesAssumption ==
  Sizes \subseteq [mb_width : Nat \ {0}, mb_height : Nat \ {0}]
ASSUME CapAssumption == Cap \in Nat \ {0}
ASSUME MaxSlicesAssumption == MaxSlices \in Nat \ {0}

VARIABLES
  size,             \* of the pictures of this stream
  pict_type,        \* the current picture's type, that of its first slice
  slices,           \* slices of it so far
  decoding,         \* a slice is being decoded
  mb_x, mb_y,       \* the next macroblock
  BlackLine,        \* H264Context::BlackLine
  CurrBlackBorder,  \* the border of the latest I picture
  FrmStat,          \* the statistics in the AVFrame
  excluded,         \* the border left out of the slice's QPs (history)
  dark              \* intra macroblocks without coefficients, by row (history)

vars == <<size, pict_type, slices, decoding, mb_x, mb_y, BlackLine,
          CurrBlackBorder, FrmStat, excluded, dark>>

Rows      == 0 .. size.mb_height - 1
NoneDark  == [row \in Rows |-> 0]
Threshold == (8 * size.mb_width) \div 10
Complete  == ~decoding /\ slices > 0 /\ mb_y = size.mb_height

Init ==
  /\ size \in Sizes
  /\ pict_type = "I" /\ slices = 0 /\ decoding = FALSE
  /\ mb_x = 0 /\ mb_y = 0
  /\ BlackLine = NoneDark /\ dark = NoneDark
  /\ CurrBlackBorder = 0 /\ excluded = 0
  /\ FrmStat = [BlackBorder |-> 0, QpCnt |-> 0, QpCntBB |-> 0]

(* InitFrameStatistics264, once per slice: the row counters are allocated  *)
(* anew (and the old ones forgotten), the statistics are cleared.          *)
InitFrameStatistics264 ==
  /\ BlackLine' = NoneDark
  /\ FrmStat' = [BlackBorder |-> CurrBlackBorder, QpCnt |-> 0, QpCntBB |-> 0]
  /\ excluded' = CurrBlackBorder
  /\ decoding' = TRUE
  /\ UNCHANGED <<size, CurrBlackBorder>>

(* The first slice of a picture. *)
StartPicture(type) ==
  /\ Complete \/ slices = 0
  /\ InitFrameStatistics264
  /\ pict_type' = type
  /\ slices' = 1
  /\ mb_x' = 0 /\ mb_y' = 0
  /\ dark' = NoneDark

(* A further one. *)
StartSlice ==
  /\ ~decoding /\ slices > 0 /\ ~Complete
  /\ InitFrameStatistics264
  /\ slices' = slices + 1
  /\ UNCHANGED <<pict_type, mb_x, mb_y, dark>>

-----------------------------------------------------------------------------
\* Variant with a defect: the counter does not saturate.
EstimateBlackBorder264Uncapped(uncoded) ==
  IF uncoded /\ <<mb_x, mb_y>> # <<0, 0>> THEN [BlackLine EXCEPT ![mb_y] = @ + 1] ELSE BlackLine

(* EstimateBlackBorder264 of an intra macroblock.  The one in the corner   *)
(* has the first QP of the picture to code.                                *)
EstimateBlackBorder264(uncoded) ==
  IF uncoded /\ <<mb_x, mb_y>> # <<0, 0>>
  THEN [BlackLine EXCEPT ![mb_y] = IF @ + 1 > Cap THEN Cap ELSE @ + 1] ELSE BlackLine

\* Variant with a defect: the last row above the lower border is left out.
NoBorderInside ==
  /\ 16 * mb_y >= FrmStat.BlackBorder
  /\ 16 * mb_y + 16 < 16 * size.mb_height - FrmStat.BlackBorder

(* The macroblock lies outside of the border. *)
NoBorder ==
  /\ 16 * mb_y >= FrmStat.BlackBorder
  /\ 16 * mb_y < 16 * size.mb_height - FrmStat.BlackBorder

(* MbStatistics264, as far as the border goes. *)
MbStatistics264(uncoded) ==
  /\ decoding /\ mb_y < size.mb_height
  /\ uncoded => pict_type = "I"
  /\ BlackLine' = EstimateBlackBorder264(uncoded)
  /\ dark' = IF uncoded /\ <<mb_x, mb_y>> # <<0, 0>> THEN [dark EXCEPT ![mb_y] = @ + 1] ELSE dark
  /\ FrmStat' = [FrmStat EXCEPT !.QpCnt = @ + 1,
                                !.QpCntBB = IF NoBorder THEN @ + 1 ELSE @]
  /\ mb_x' = IF mb_x + 1 = size.mb_width THEN 0 ELSE mb_x + 1
  /\ mb_y' = IF mb_x + 1 = size.mb_width THEN mb_y + 1 ELSE mb_y
  /\ UNCHANGED <<size, pict_type, slices, decoding, CurrBlackBorder, excluded>>

(* The border at the end of a slice; other pictures keep the one there is. *)
(* The counters, now folded, are not read again.                           *)
BorderOfSlice ==
  IF pict_type = "I"
  THEN BlackborderDetect(BlackLine, size.mb_height, Threshold, 16) ELSE CurrBlackBorder

EndSlice ==
  /\ decoding /\ FrmStat.QpCnt > 0
  /\ mb_y < size.mb_height => slices < MaxSlices
  /\ decoding' = FALSE
  /\ CurrBlackBorder' = BorderOfSlice
  /\ FrmStat' = [FrmStat EXCEPT !.BlackBorder = BorderOfSlice]
  /\ UNCHANGED <<size, pict_type, slices, mb_x, mb_y, BlackLine, excluded, dark>>

Next ==
  \/ \E type \in {"I", "P"} : StartPicture(type)
  \/ StartSlice
  \/ \E uncoded \in BOOLEAN : MbStatistics264(uncoded)
  \/ EndSlice

Spec == Init /\ [][Next]_vars

-----------------------------------------------------------------------------
(* Properties.                                                             *)

(* Every variable stays in its type; the macroblocks stay in the picture.  *)
TypeOK ==
  /\ size \in Sizes
  /\ pict_type \in {"I", "P"} /\ slices \in Nat /\ decoding \in BOOLEAN
  /\ mb_x \in 0 .. size.mb_width - 1 /\ mb_y \in 0 .. size.mb_height
  /\ BlackLine \in [Rows -> 0 .. Cap] /\ dark \in [Rows -> 0 .. size.mb_width]
  /\ CurrBlackBorder \in Nat /\ excluded \in Nat
  /\ FrmStat \in [BlackBorder : Nat, QpCnt : Nat, QpCntBB : Nat]

Whole == Complete /\ slices = 1

(* The border found in an I picture of one slice is the number of rows     *)
(* that are dark together with their mirrors, if the picture is no wider   *)
(* than a counter counts; in a picture so wide that a dark row needs more, *)
(* no border is ever found.                                                *)
BorderOfPicture ==
  Whole /\ pict_type = "I" =>
    /\ size.mb_width <= Cap =>
         IsBorder(dark, size.mb_height, Threshold, 16, CurrBlackBorder)
    /\ Threshold > Cap => CurrBlackBorder = 0

(* The QPs of a picture of one slice are counted for the macroblocks       *)
(* between the borders of the I picture before, and there always are some: *)
(* Av_QPBB never is 0 / 0.                                                 *)
QPsOutsideBorder ==
  Whole =>
    /\ 16 * FrmStat.QpCntBB = size.mb_width * (16 * size.mb_height - 2 * excluded)
    /\ FrmStat.QpCntBB > 0
=============================================================================
