----------------------------- MODULE BlackBorder ------------------------------
(***************************************************************************)
(* BlackborderDetect: how high the dark bars at the top and at the bottom  *)
(* of a picture are.  The three codecs count for every row of blocks those *)
(* without coefficients (BlackLine) and give it the number of rows, the    *)
(* count from which a row is dark, and the height of a block.              *)
(***************************************************************************)
EXTENDS Integers

\* Variant with a defect: a row and its mirror need one dark row's count.
FoldedAlone(line, rows, threshold) ==
  [i \in 0 .. rows - 1 |->
    IF i = rows - 1 - i THEN line[i]
    ELSE IF line[i] + line[rows - 1 - i] >= threshold THEN 1 ELSE 0]

(* The lower half is folded onto the upper one, in place: a row and its    *)
(* mirror both become 1 if together they are dark.  The middle one of an   *)
(* odd number of rows keeps its count.                                     *)
Folded(line, rows, threshold) ==
  [i \in 0 .. rows - 1 |->
    IF i = rows - 1 - i THEN line[i]
    ELSE IF line[i] + line[rows - 1 - i] >= 2 * threshold THEN 1 ELSE 0]

(* The rows before the first zero. *)
BlackLines(line, rows) ==
  CHOOSE n \in 0 .. rows : /\ \A i \in 0 .. n - 1 : line[i] # 0
                           /\ n < rows => line[n] = 0

\* Variant with a defect: a picture that is dark all over has a border.
BlackborderOfAny(line, rows, threshold, height) ==
  BlackLines(Folded(line, rows, threshold), rows) * height

(* The height of the border in pixels. *)
BlackborderDetect(line, rows, threshold, height) ==
  LET n == BlackLines(Folded(line, rows, threshold), rows)
  IN  IF n >= rows \div 2 THEN 0 ELSE n * height

-----------------------------------------------------------------------------
(* What it promises.  The border is the largest number of rows such that   *)
(* every one of them is dark together with its mirror; if that is half of  *)
(* the picture, there is none.                                             *)
DarkRow(line, rows, threshold, i) == line[i] + line[rows - 1 - i] >= 2 * threshold

IsBorder(line, rows, threshold, height, border) ==
  \E n \in 0 .. rows \div 2 :
    /\ \A i \in 0 .. n - 1 : DarkRow(line, rows, threshold, i)
    /\ n < rows \div 2 => ~DarkRow(line, rows, threshold, n)
    /\ border = IF n < rows \div 2 THEN n * height ELSE 0
=============================================================================
