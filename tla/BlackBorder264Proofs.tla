------------------------- MODULE BlackBorder264Proofs -------------------------
(***************************************************************************)
(* Proofs about BlackBorder264, for every picture size, saturation limit   *)
(* and number of slices.                                                   *)
(***************************************************************************)
EXTENDS BlackBorder264, OperatorProofs

W == size.mb_width
H == size.mb_height

(* A border that leaves rows of macroblocks in the middle. *)
LeavesRows(border) == \E k \in Nat : border = 16 * k /\ 2 * k < H

(* Where the macroblocks of the picture stand. *)
Position ==
  /\ mb_y = H => mb_x = 0
  /\ slices = 0 => ~decoding

(* The dark macroblocks of a row are some of those decoded.                *)
DarkSoFar ==
  \A row \in Rows : dark[row] <= (IF row < mb_y THEN W ELSE IF row = mb_y THEN mb_x ELSE 0)

(* The counters agree with them while the picture has one slice.           *)
CountersAgree == slices = 1 /\ W <= Cap => BlackLine = dark

(* Macroblocks between the borders, of those decoded.                      *)
OutsideSoFar(k) ==
  IF mb_y < k THEN 0 ELSE IF mb_y < H - k THEN W * (mb_y - k) + mb_x ELSE W * (H - 2 * k)

Outside ==
  \E k \in Nat : /\ excluded = 16 * k /\ 2 * k < H
                 /\ slices = 1 => FrmStat.QpCntBB = OutsideSoFar(k)

Borders ==
  /\ LeavesRows(CurrBlackBorder)
  /\ decoding => FrmStat.BlackBorder = excluded

IInv == TypeOK /\ Position /\ DarkSoFar /\ CountersAgree /\ Outside /\ Borders /\ BorderOfPicture

LEMMA SizeType ==
  ASSUME TypeOK
  PROVE  W \in Nat \ {0} /\ H \in Nat \ {0} /\ Rows = 0 .. H - 1
         /\ Cap \in Nat \ {0} /\ Threshold \in Nat
  BY SizesAssumption, CapAssumption DEF TypeOK, W, H, Rows, Threshold

(* Whatever the counts, the border found leaves rows in the middle. *)
LEMMA BorderLeavesRows ==
  ASSUME H \in Nat \ {0}, NEW line
  PROVE  LeavesRows(BlackborderDetect(line, H, Threshold, 16))
<1> DEFINE b == BlackborderDetect(line, H, Threshold, 16)
<1>1. IsBorder(line, H, Threshold, 16, b)
  BY DetectsBorder
<1>2. PICK n \in 0 .. H \div 2 : b = IF n < H \div 2 THEN n * 16 ELSE 0
  BY <1>1 DEF IsBorder
<1> HIDE DEF b
<1>3. CASE n < H \div 2
  <2>1. n \in Nat /\ b = 16 * n /\ 2 * n < H
    BY <1>2, <1>3
  <2>2. QED
    BY <2>1 DEF LeavesRows, b
<1>4. CASE ~ (n < H \div 2)
  <2>1. b = 16 * 0 /\ 2 * 0 < H
    BY <1>2, <1>4
  <2>2. QED
    BY <2>1 DEF LeavesRows, b
<1>5. QED
  BY <1>3, <1>4

(* Rows that cannot count up to the threshold have no border. *)
LEMMA NoBorderInWidePicture ==
  ASSUME H \in Nat \ {0}, Threshold \in Nat, Cap \in Nat, Threshold > Cap,
         NEW line \in [0 .. H - 1 -> 0 .. Cap]
  PROVE  BlackborderDetect(line, H, Threshold, 16) = 0
<1> DEFINE b == BlackborderDetect(line, H, Threshold, 16)
           half == H \div 2
<1>1. IsBorder(line, H, Threshold, 16, b)
  BY DetectsBorder
<1>2. PICK n \in 0 .. half : /\ \A i \in 0 .. n - 1 : DarkRow(line, H, Threshold, i)
                             /\ b = IF n < half THEN n * 16 ELSE 0
  BY <1>1 DEF IsBorder
<1>3. ASSUME n > 0 PROVE FALSE
  <2>1. 0 \in 0 .. n - 1 /\ 0 \in 0 .. H - 1 /\ H - 1 - 0 \in 0 .. H - 1
    BY <1>3
  <2>2. line[0] \in 0 .. Cap /\ line[H - 1 - 0] \in 0 .. Cap
    BY <2>1
  <2>3. line[0] + line[H - 1 - 0] >= 2 * Threshold
    BY <1>2, <2>1 DEF DarkRow
  <2>4. QED
    BY <2>2, <2>3
<1>4. n = 0
  BY <1>3
<1>5. QED
  BY <1>2, <1>4

LEMMA InitIInv == Init => IInv
<1> SUFFICES ASSUME Init PROVE IInv
  OBVIOUS
<1>1. size \in Sizes /\ W \in Nat \ {0} /\ H \in Nat \ {0} /\ Rows = 0 .. H - 1
      /\ Cap \in Nat \ {0}
  BY SizesAssumption, CapAssumption DEF Init, W, H, Rows
<1>2. TypeOK
  <2>1. pict_type \in {"I", "P"} /\ slices \in Nat /\ decoding \in BOOLEAN
        /\ CurrBlackBorder \in Nat /\ excluded \in Nat
        /\ FrmStat \in [BlackBorder : Nat, QpCnt : Nat, QpCntBB : Nat]
    BY DEF Init
  <2>2. mb_x \in 0 .. W - 1 /\ mb_y \in 0 .. H
    BY <1>1 DEF Init
  <2>3. BlackLine \in [Rows -> 0 .. Cap] /\ dark \in [Rows -> 0 .. W]
    BY <1>1 DEF Init, NoneDark
  <2>4. QED
    BY <1>1, <2>1, <2>2, <2>3 DEF TypeOK, W, H
<1>3. Position /\ DarkSoFar /\ CountersAgree
  BY <1>1 DEF Init, Position, DarkSoFar, CountersAgree, NoneDark
<1>4. Outside /\ Borders
  <2>1. 0 \in Nat /\ 0 = 16 * 0 /\ 2 * 0 < H
    BY <1>1
  <2>2. QED
    BY <2>1 DEF Init, Outside, Borders, LeavesRows
<1>5. BorderOfPicture
  BY DEF Init, BorderOfPicture, Whole
<1>6. QED
  BY <1>2, <1>3, <1>4, <1>5 DEF IInv

(* What InitFrameStatistics264 establishes, for a new picture or not. *)
LEMMA InitFrameFacts ==
  ASSUME IInv, InitFrameStatistics264
  PROVE  /\ size' = size /\ W' = W /\ H' = H /\ Rows' = Rows
         /\ BlackLine' \in [Rows -> 0 .. Cap] /\ BlackLine' = NoneDark
         /\ CurrBlackBorder' \in Nat /\ excluded' \in Nat /\ excluded' = CurrBlackBorder
         /\ FrmStat' \in [BlackBorder : Nat, QpCnt : Nat, QpCntBB : Nat]
         /\ FrmStat'.BlackBorder = CurrBlackBorder /\ FrmStat'.QpCntBB = 0
         /\ decoding' = TRUE
         /\ Borders' /\ BorderOfPicture'
<1>1. W \in Nat \ {0} /\ H \in Nat \ {0} /\ Rows = 0 .. H - 1 /\ Cap \in Nat \ {0}
  BY SizeType DEF IInv
<1>2. size' = size /\ W' = W /\ H' = H /\ Rows' = Rows /\ CurrBlackBorder' = CurrBlackBorder
  BY DEF InitFrameStatistics264, W, H, Rows
<1>3. BlackLine' \in [Rows -> 0 .. Cap] /\ BlackLine' = NoneDark
  BY <1>1, <1>2 DEF InitFrameStatistics264, NoneDark
<1>4. CurrBlackBorder \in Nat
  BY DEF IInv, TypeOK
<1>5. Borders'
  BY <1>2 DEF IInv, Borders, LeavesRows, InitFrameStatistics264
<1>6. BorderOfPicture'
  BY DEF InitFrameStatistics264, BorderOfPicture, Whole, Complete
<1>7. QED
  BY <1>2, <1>3, <1>4, <1>5, <1>6 DEF InitFrameStatistics264

LEMMA StartPictureIInv ==
  ASSUME IInv, NEW type \in {"I", "P"}, StartPicture(type)
  PROVE  IInv'
<1>1. W \in Nat \ {0} /\ H \in Nat \ {0} /\ Rows = 0 .. H - 1 /\ Cap \in Nat \ {0} /\ size \in Sizes
  BY SizeType DEF IInv, TypeOK
<1>2. InitFrameStatistics264 /\ pict_type' = type /\ slices' = 1
      /\ mb_x' = 0 /\ mb_y' = 0 /\ dark' = NoneDark
  BY DEF StartPicture
<1>3. /\ size' = size /\ W' = W /\ H' = H /\ Rows' = Rows
      /\ BlackLine' \in [Rows -> 0 .. Cap] /\ BlackLine' = NoneDark
      /\ CurrBlackBorder' \in Nat /\ excluded' \in Nat /\ excluded' = CurrBlackBorder
      /\ FrmStat' \in [BlackBorder : Nat, QpCnt : Nat, QpCntBB : Nat]
      /\ FrmStat'.QpCntBB = 0 /\ decoding' = TRUE
      /\ Borders' /\ BorderOfPicture'
  BY <1>2, InitFrameFacts
<1>4. TypeOK'
  BY <1>1, <1>2, <1>3 DEF TypeOK, NoneDark, W, H
<1>5. Position' /\ DarkSoFar' /\ CountersAgree'
  BY <1>1, <1>2, <1>3 DEF Position, DarkSoFar, CountersAgree, NoneDark
<1>6. Outside'
  <2>1. PICK k \in Nat : CurrBlackBorder = 16 * k /\ 2 * k < H
    BY DEF IInv, Borders, LeavesRows
  <2>2. 0 = OutsideSoFar(k)'
    BY <1>1, <1>2, <1>3, <2>1 DEF OutsideSoFar
  <2>3. QED
    BY <1>3, <2>1, <2>2 DEF Outside
<1>7. QED
  BY <1>3, <1>4, <1>5, <1>6 DEF IInv

LEMMA StartSliceIInv ==
  ASSUME IInv, StartSlice
  PROVE  IInv'
<1>1. W \in Nat \ {0} /\ H \in Nat \ {0} /\ Rows = 0 .. H - 1 /\ Cap \in Nat \ {0}
  BY SizeType DEF IInv
<1>2. InitFrameStatistics264 /\ slices > 0 /\ slices \in Nat /\ slices' = slices + 1
      /\ UNCHANGED <<pict_type, mb_x, mb_y, dark>>
  BY DEF StartSlice, IInv, TypeOK
<1>3. /\ size' = size /\ W' = W /\ H' = H /\ Rows' = Rows
      /\ BlackLine' \in [Rows -> 0 .. Cap]
      /\ CurrBlackBorder' \in Nat /\ excluded' \in Nat /\ excluded' = CurrBlackBorder
      /\ FrmStat' \in [BlackBorder : Nat, QpCnt : Nat, QpCntBB : Nat]
      /\ decoding' = TRUE
      /\ Borders' /\ BorderOfPicture'
  BY <1>2, InitFrameFacts
<1>4. slices' \in Nat /\ slices' # 1 /\ slices' # 0
  BY <1>2
<1>5. TypeOK'
  BY <1>1, <1>2, <1>3, <1>4 DEF IInv, TypeOK
<1>6. Position' /\ DarkSoFar' /\ CountersAgree'
  BY <1>1, <1>2, <1>3, <1>4 DEF IInv, Position, DarkSoFar, CountersAgree
<1>7. Outside'
  BY <1>3, <1>4 DEF IInv, Outside, Borders, LeavesRows
<1>8. QED
  BY <1>3, <1>5, <1>6, <1>7 DEF IInv

(* One more macroblock between the borders, or not. *)
LEMMA OutsideStep ==
  ASSUME NEW w \in Nat \ {0}, NEW h \in Nat \ {0}, NEW k \in Nat, 2 * k < h,
         NEW x \in 0 .. w - 1, NEW y \in 0 .. h - 1,
         NEW x2, x2 = IF x + 1 = w THEN 0 ELSE x + 1,
         NEW y2, y2 = IF x + 1 = w THEN y + 1 ELSE y,
         NEW c, c = IF y < k THEN 0 ELSE IF y < h - k THEN w * (y - k) + x ELSE w * (h - 2 * k)
  PROVE  (IF 16 * y >= 16 * k /\ 16 * y < 16 * h - 16 * k THEN c + 1 ELSE c)
           = IF y2 < k THEN 0 ELSE IF y2 < h - k THEN w * (y2 - k) + x2 ELSE w * (h - 2 * k)
<1>1. CASE x + 1 < w
  <2>1. x2 = x + 1 /\ y2 = y
    BY <1>1
  <2>2. QED
    BY <2>1
<1>2. CASE x + 1 = w
  <2>1. x2 = 0 /\ y2 = y + 1
    BY <1>2
  <2>2. w * (y + 1 - k) = w * (y - k) + w
    OBVIOUS
  <2>3. CASE y + 1 < k
    BY <2>1, <2>3
  <2>4. CASE y + 1 = k
    <3>1. y2 - k = 0 /\ y2 < h - k
      BY <2>1, <2>4
    <3>2. QED
      BY <2>1, <2>4, <3>1
  <2>5. CASE y >= k /\ y + 1 < h - k
    BY <1>2, <2>1, <2>2, <2>5
  <2>6. CASE y >= k /\ y + 1 = h - k
    <3>1. y2 - k = h - 2 * k
      BY <2>1, <2>6
    <3>2. w * (h - 2 * k) = w * (y - k) + w
      BY <2>1, <2>2, <3>1
    <3>3. QED
      BY <1>2, <2>1, <2>6, <3>2
  <2>7. CASE y >= h - k
    BY <2>1, <2>7
  <2>8. QED
    BY <2>3, <2>4, <2>5, <2>6, <2>7
<1>3. QED
  BY <1>1, <1>2

(* A QP joins the sums. *)
LEMMA CountQP ==
  ASSUME NEW S \in [BlackBorder : Nat, QpCnt : Nat, QpCntBB : Nat], NEW n \in Nat,
         NEW T, T = [S EXCEPT !.QpCnt = @ + 1, !.QpCntBB = n]
  PROVE  /\ T \in [BlackBorder : Nat, QpCnt : Nat, QpCntBB : Nat]
         /\ T.BlackBorder = S.BlackBorder /\ T.QpCntBB = n
<1>1. /\ S.BlackBorder \in Nat /\ S.QpCnt \in Nat /\ S.QpCntBB \in Nat
      /\ S = [BlackBorder |-> S.BlackBorder, QpCnt |-> S.QpCnt, QpCntBB |-> S.QpCntBB]
  OBVIOUS
<1>2. T = [BlackBorder |-> S.BlackBorder, QpCnt |-> S.QpCnt + 1, QpCntBB |-> n]
  BY <1>1
<1>3. S.QpCnt + 1 \in Nat
  BY <1>1
<1>4. QED
  BY <1>1, <1>2, <1>3

LEMMA MbStatisticsIInv ==
  ASSUME IInv, NEW uncoded \in BOOLEAN, MbStatistics264(uncoded)
  PROVE  IInv'
<1>1. W \in Nat \ {0} /\ H \in Nat \ {0} /\ Rows = 0 .. H - 1 /\ Cap \in Nat \ {0}
  BY SizeType DEF IInv
<1>2. /\ decoding /\ mb_y < H
      /\ mb_x' = (IF mb_x + 1 = W THEN 0 ELSE mb_x + 1)
      /\ mb_y' = (IF mb_x + 1 = W THEN mb_y + 1 ELSE mb_y)
      /\ UNCHANGED <<size, pict_type, slices, decoding, CurrBlackBorder, excluded>>
  BY DEF MbStatistics264, W, H
<1> DEFINE counts == uncoded /\ <<mb_x, mb_y>> # <<0, 0>>
<1>20. /\ BlackLine' = EstimateBlackBorder264(uncoded)
       /\ dark' = IF counts THEN [dark EXCEPT ![mb_y] = @ + 1] ELSE dark
  BY DEF MbStatistics264
<1>21. FrmStat' = [FrmStat EXCEPT !.QpCnt = @ + 1, !.QpCntBB = IF NoBorder THEN @ + 1 ELSE @]
  BY DEF MbStatistics264
<1>30. TypeOK
  BY DEF IInv
<1>31. mb_x \in 0 .. W - 1 /\ mb_y \in 0 .. H /\ W \in Nat \ {0} /\ H \in Nat \ {0}
  BY <1>1, <1>30 DEF TypeOK, W, H
<1>32. mb_y \in 0 .. H - 1
  BY <1>2, <1>31
<1>33. FrmStat \in [BlackBorder : Nat, QpCnt : Nat, QpCntBB : Nat]
  BY <1>30 DEF TypeOK
<1>34. BlackLine \in [Rows -> 0 .. Cap] /\ dark \in [Rows -> 0 .. W]
  BY <1>30 DEF TypeOK, W
<1>3. /\ mb_x \in 0 .. W - 1 /\ mb_y \in 0 .. H - 1 /\ mb_y \in Rows
      /\ BlackLine \in [Rows -> 0 .. Cap] /\ dark \in [Rows -> 0 .. W]
  BY <1>1, <1>31, <1>32, <1>34
<1> HIDE DEF counts
<1>4. W' = W /\ H' = H /\ Rows' = Rows
  BY <1>2 DEF W, H, Rows
<1>5. mb_x' \in 0 .. W - 1 /\ mb_y' \in 0 .. H /\ (mb_y' = H => mb_x' = 0)
  <2>1. CASE mb_x + 1 = W
    <3>1. mb_x' = 0 /\ mb_y' = mb_y + 1
      BY <1>2, <2>1
    <3>2. QED
      BY <1>31, <1>32, <3>1
  <2>2. CASE mb_x + 1 # W
    <3>1. mb_x' = mb_x + 1 /\ mb_y' = mb_y
      BY <1>2, <2>2
    <3>2. QED
      BY <1>31, <1>32, <2>2, <3>1
  <2>3. QED
    BY <2>1, <2>2
<1>6. ASSUME NEW row \in Rows
      PROVE  /\ dark[row] \in Nat
             /\ dark[row] <= (IF row < mb_y THEN W ELSE IF row = mb_y THEN mb_x ELSE 0)
  BY <1>3 DEF IInv, DarkSoFar
<1>7. DOMAIN dark' = Rows /\ dark' = [row \in Rows |-> dark'[row]]
      /\ \A row \in Rows : dark'[row] =
           IF counts /\ row = mb_y THEN dark[row] + 1 ELSE dark[row]
  BY <1>20, <1>3
<1>8. ASSUME NEW row \in Rows
      PROVE  /\ dark'[row] \in 0 .. W
             /\ dark'[row] <= (IF row < mb_y' THEN W ELSE IF row = mb_y' THEN mb_x' ELSE 0)
  <2>1. dark'[row] \in Nat
    BY <1>6, <1>7
  <2>2. row \in Nat /\ mb_x \in Nat /\ mb_y \in Nat /\ mb_x + 1 <= W
    BY <1>1, <1>3
  <2>3. CASE row = mb_y
    <3>1. dark'[row] <= mb_x + 1
      BY <1>6, <1>7, <2>2, <2>3
    <3>2. QED
      BY <1>1, <1>2, <2>1, <2>2, <2>3, <3>1
  <2>4. CASE row < mb_y
    BY <1>1, <1>2, <1>6, <1>7, <2>1, <2>2, <2>4
  <2>5. CASE row > mb_y
    BY <1>1, <1>2, <1>6, <1>7, <2>1, <2>2, <2>5
  <2>6. QED
    BY <2>2, <2>3, <2>4, <2>5
<1>9. dark' \in [Rows -> 0 .. W]
  BY <1>7, <1>8
<1>10. BlackLine' \in [Rows -> 0 .. Cap]
  <2>1. BlackLine[mb_y] \in 0 .. Cap
    BY <1>3
  <2>2. (IF BlackLine[mb_y] + 1 > Cap THEN Cap ELSE BlackLine[mb_y] + 1) \in 0 .. Cap
    BY <1>1, <2>1
  <2>3. QED
    BY <1>20, <1>3, <2>2 DEF EstimateBlackBorder264
<1>11. /\ FrmStat' \in [BlackBorder : Nat, QpCnt : Nat, QpCntBB : Nat]
       /\ FrmStat'.BlackBorder = FrmStat.BlackBorder
       /\ FrmStat'.QpCntBB = IF NoBorder THEN FrmStat.QpCntBB + 1 ELSE FrmStat.QpCntBB
  <2>1. FrmStat.QpCntBB \in Nat /\ FrmStat.QpCntBB + 1 \in Nat
    BY <1>33
  <2>2. CASE NoBorder
    <3>1. FrmStat' = [FrmStat EXCEPT !.QpCnt = @ + 1, !.QpCntBB = FrmStat.QpCntBB + 1]
      BY <1>21, <2>2, Zenon
    <3>2. /\ FrmStat' \in [BlackBorder : Nat, QpCnt : Nat, QpCntBB : Nat]
          /\ FrmStat'.BlackBorder = FrmStat.BlackBorder
          /\ FrmStat'.QpCntBB = FrmStat.QpCntBB + 1
      BY <1>33, <2>1, <3>1, CountQP
    <3>3. QED
      BY <2>2, <3>2, Zenon
  <2>3. CASE ~NoBorder
    <3>1. FrmStat' = [FrmStat EXCEPT !.QpCnt = @ + 1, !.QpCntBB = FrmStat.QpCntBB]
      BY <1>21, <2>3, Zenon
    <3>2. /\ FrmStat' \in [BlackBorder : Nat, QpCnt : Nat, QpCntBB : Nat]
          /\ FrmStat'.BlackBorder = FrmStat.BlackBorder
          /\ FrmStat'.QpCntBB = FrmStat.QpCntBB
      BY <1>33, <2>1, <3>1, CountQP
    <3>3. QED
      BY <2>3, <3>2, Zenon
  <2>4. QED
    BY <2>2, <2>3
<1>12. TypeOK'
  BY <1>2, <1>4, <1>5, <1>9, <1>10, <1>11 DEF IInv, TypeOK, W, H
<1>13. Position' /\ DarkSoFar'
  BY <1>2, <1>4, <1>5, <1>8 DEF IInv, Position, DarkSoFar
<1>14. CountersAgree'
  <2>1. SUFFICES ASSUME slices = 1, W <= Cap PROVE BlackLine' = dark'
    BY <1>2, <1>4 DEF CountersAgree
  <2>2. BlackLine = dark
    BY <2>1 DEF IInv, CountersAgree
  <2>3. dark[mb_y] + 1 <= Cap /\ dark[mb_y] \in Nat
    BY <1>1, <1>3, <1>6, <2>1
  <2>4. CASE counts
    <3>1. BlackLine' = [dark EXCEPT ![mb_y] = IF @ + 1 > Cap THEN Cap ELSE @ + 1]
      BY <1>20, <2>2, <2>4 DEF EstimateBlackBorder264, counts
    <3>2. (IF dark[mb_y] + 1 > Cap THEN Cap ELSE dark[mb_y] + 1) = dark[mb_y] + 1
      BY <1>1, <2>3
    <3>3. QED
      BY <1>20, <2>4, <3>1, <3>2
  <2>5. CASE ~counts
    <3>1. BlackLine' = BlackLine
      BY <1>20, <2>5 DEF EstimateBlackBorder264, counts
    <3>2. QED
      BY <1>20, <2>2, <2>5, <3>1
  <2>6. QED
    BY <2>4, <2>5
<1>15. Outside'
  <2>1. PICK k \in Nat : /\ excluded = 16 * k /\ 2 * k < H
                         /\ slices = 1 => FrmStat.QpCntBB = OutsideSoFar(k)
    BY DEF IInv, Outside
  <2>2. NoBorder <=> 16 * mb_y >= 16 * k /\ 16 * mb_y < 16 * H - 16 * k
    BY <1>2, <2>1 DEF IInv, Borders, NoBorder, H
  <2>3. ASSUME slices = 1 PROVE FrmStat'.QpCntBB = OutsideSoFar(k)'
    <3>1. FrmStat.QpCntBB =
            IF mb_y < k THEN 0 ELSE IF mb_y < H - k THEN W * (mb_y - k) + mb_x ELSE W * (H - 2 * k)
      BY <2>1, <2>3 DEF OutsideSoFar
    <3>2. OutsideSoFar(k)' =
            IF mb_y' < k THEN 0 ELSE IF mb_y' < H - k THEN W * (mb_y' - k) + mb_x' ELSE W * (H - 2 * k)
      BY <1>4 DEF OutsideSoFar
    <3>3. (IF 16 * mb_y >= 16 * k /\ 16 * mb_y < 16 * H - 16 * k
             THEN FrmStat.QpCntBB + 1 ELSE FrmStat.QpCntBB) = OutsideSoFar(k)'
      <4>1. 2 * k < H /\ k \in Nat
        BY <2>1
      <4>2. QED
        BY <1>2, <1>31, <1>32, <3>1, <3>2, <4>1, OutsideStep
    <3>4. QED
      BY <1>11, <2>2, <3>3
  <2>4. QED
    BY <1>2, <1>4, <2>1, <2>3 DEF Outside
<1>16. Borders'
  BY <1>2, <1>4, <1>11 DEF IInv, Borders, LeavesRows
<1>17. BorderOfPicture'
  BY <1>2 DEF BorderOfPicture, Whole, Complete
<1>18. QED
  BY <1>12, <1>13, <1>14, <1>15, <1>16, <1>17 DEF IInv

LEMMA EndSliceIInv ==
  ASSUME IInv, EndSlice
  PROVE  IInv'
<1>1. W \in Nat \ {0} /\ H \in Nat \ {0} /\ Rows = 0 .. H - 1 /\ Cap \in Nat \ {0} /\ Threshold \in Nat
  BY SizeType DEF IInv
<1>2. /\ decoding' = FALSE /\ CurrBlackBorder' = BorderOfSlice
      /\ FrmStat' = [FrmStat EXCEPT !.BlackBorder = BorderOfSlice]
      /\ UNCHANGED <<size, pict_type, slices, mb_x, mb_y, BlackLine, excluded, dark>>
  BY DEF EndSlice
<1>3. W' = W /\ H' = H /\ Rows' = Rows /\ Threshold' = Threshold
  BY <1>2 DEF W, H, Rows, Threshold
<1>4. LeavesRows(BorderOfSlice)
  <2>1. CASE pict_type = "I"
    <3>1. BorderOfSlice = BlackborderDetect(BlackLine, H, Threshold, 16)
      BY <2>1 DEF BorderOfSlice, H
    <3>2. QED
      BY <1>1, <3>1, BorderLeavesRows
  <2>2. CASE pict_type # "I"
    BY <2>2 DEF BorderOfSlice, IInv, Borders
  <2>3. QED
    BY <2>1, <2>2
<1>5. BorderOfSlice \in Nat
  BY <1>1, <1>4 DEF LeavesRows
<1>6. /\ FrmStat' \in [BlackBorder : Nat, QpCnt : Nat, QpCntBB : Nat]
      /\ FrmStat'.QpCntBB = FrmStat.QpCntBB
  BY <1>2, <1>5 DEF IInv, TypeOK
<1>7. TypeOK'
  BY <1>2, <1>3, <1>5, <1>6 DEF IInv, TypeOK
<1>8. Position' /\ DarkSoFar' /\ CountersAgree'
  BY <1>2, <1>3 DEF IInv, Position, DarkSoFar, CountersAgree
<1>9. Outside'
  BY <1>2, <1>3, <1>6 DEF IInv, Outside, OutsideSoFar
<1>10. Borders'
  BY <1>2, <1>3, <1>4 DEF Borders, LeavesRows
<1>11. BorderOfPicture'
  <2>1. SUFFICES ASSUME slices = 1, pict_type = "I"
                 PROVE  /\ W <= Cap => IsBorder(dark, H, Threshold, 16, BorderOfSlice)
                        /\ Threshold > Cap => BorderOfSlice = 0
    BY <1>2, <1>3 DEF BorderOfPicture, Whole, W, H
  <2>2. BorderOfSlice = BlackborderDetect(BlackLine, H, Threshold, 16)
    BY <2>1 DEF BorderOfSlice, H
  <2>3. ASSUME W <= Cap PROVE IsBorder(dark, H, Threshold, 16, BorderOfSlice)
    <3>1. BlackLine = dark
      BY <2>1, <2>3 DEF IInv, CountersAgree
    <3>2. QED
      BY <1>1, <2>2, <3>1, DetectsBorder
  <2>4. ASSUME Threshold > Cap PROVE BorderOfSlice = 0
    <3>1. BlackLine \in [0 .. H - 1 -> 0 .. Cap]
      BY <1>1 DEF IInv, TypeOK
    <3>2. QED
      BY <1>1, <2>2, <2>4, <3>1, NoBorderInWidePicture
  <2>5. QED
    BY <2>3, <2>4
<1>12. QED
  BY <1>7, <1>8, <1>9, <1>10, <1>11 DEF IInv

LEMMA StutterIInv ==
  ASSUME IInv, UNCHANGED vars
  PROVE  IInv'
<1>1. UNCHANGED <<size, pict_type, slices, decoding, mb_x, mb_y, BlackLine,
                  CurrBlackBorder, FrmStat, excluded, dark>>
  BY DEF vars
<1>2. W' = W /\ H' = H /\ Rows' = Rows /\ Threshold' = Threshold
  BY <1>1 DEF W, H, Rows, Threshold
<1>3. TypeOK' /\ Position' /\ DarkSoFar' /\ CountersAgree'
  BY <1>1, <1>2 DEF IInv, TypeOK, Position, DarkSoFar, CountersAgree
<1>4. Outside' /\ Borders'
  BY <1>1, <1>2 DEF IInv, Outside, OutsideSoFar, Borders, LeavesRows
<1>5. BorderOfPicture'
  BY <1>1, <1>2 DEF IInv, BorderOfPicture, Whole, Complete
<1>6. QED
  BY <1>3, <1>4, <1>5 DEF IInv

(* The inductive invariant: the counters of a picture of one slice are the *)
(* dark macroblocks seen so far, the QPs counted are those between the     *)
(* borders, and no border reaches the middle of the picture.               *)
THEOREM BorderInvariance == Spec => []IInv
<1>1. Init => IInv
  BY InitIInv
<1>2. IInv /\ [Next]_vars => IInv'
  BY StartPictureIInv, StartSliceIInv, MbStatisticsIInv, EndSliceIInv, StutterIInv DEF Next
<1>3. QED
  BY <1>1, <1>2, PTL DEF Spec

(* The counters and the border keep their types for every picture size. *)
THEOREM BorderTypeCorrectness == Spec => []TypeOK
<1>1. IInv => TypeOK
  BY DEF IInv
<1>2. QED
  BY <1>1, BorderInvariance, PTL

(* The border of an I picture of one slice is the largest one, unless the  *)
(* picture is too wide for the counters; then there is none.               *)
THEOREM BorderIsLargest == Spec => []BorderOfPicture
<1>1. IInv => BorderOfPicture
  BY DEF IInv
<1>2. QED
  BY <1>1, BorderInvariance, PTL

(* A picture of one slice has QPs outside of the border: Av_QPBB is        *)
(* defined, and no macroblock of the border is in it.                      *)
THEOREM AverageOutsideBorder == Spec => []QPsOutsideBorder
<1>1. IInv => QPsOutsideBorder
  <2>1. SUFFICES ASSUME IInv, Whole
                 PROVE  /\ 16 * FrmStat.QpCntBB = W * (16 * H - 2 * excluded)
                        /\ FrmStat.QpCntBB > 0
    BY DEF QPsOutsideBorder, W, H
  <2>2. W \in Nat \ {0} /\ H \in Nat \ {0}
    BY <2>1, SizeType DEF IInv
  <2>3. slices = 1 /\ mb_y = H
    BY <2>1 DEF Whole, Complete, H
  <2>4. PICK k \in Nat : excluded = 16 * k /\ 2 * k < H /\ FrmStat.QpCntBB = OutsideSoFar(k)
    BY <2>1, <2>3 DEF IInv, Outside
  <2>5. FrmStat.QpCntBB = W * (H - 2 * k)
    BY <2>2, <2>3, <2>4 DEF OutsideSoFar
  <2>6. H - 2 * k \in Nat \ {0} /\ 16 * H - 2 * excluded = 16 * (H - 2 * k)
    BY <2>2, <2>4
  <2>7. \A a, b \in Nat \ {0} : a * b > 0 /\ 16 * (a * b) = a * (16 * b)
    OBVIOUS
  <2>8. QED
    BY <2>2, <2>5, <2>6, <2>7
<1>2. QED
  BY <1>1, BorderInvariance, PTL
=============================================================================
