--------------------------- MODULE SeqStatistics ----------------------------
(***************************************************************************)
(* What happens to the pictures once they are decoded: AnalysePacket       *)
(* numbers and classifies them, GetFrameStatistics sums them into the      *)
(* table SeqStat with one row per group of pictures (GOB) and one column   *)
(* per frame type, and GetSeqStatistic closes and averages the rows.  The  *)
(* client is TestMain, which averages every row once after the last frame. *)
(*                                                                         *)
(* The expressions a[i++].x = a[i].y of this code have no defined order of *)
(* evaluation (it is built as C++98): the right side is read with the old  *)
(* or with the incremented index, and both are modelled.                   *)
(***************************************************************************)
EXTENDS Integers, Sequences, FiniteSets, Folds

CONSTANTS
  LastRow,      \* highest GOB row, 7 in the code
  Codecs,       \* the codecs of the streams: of "H264", "HEVC", "VP9", "other"
  Decoded(_),   \* the pictures the decoder of a codec may output
  MaxFrames     \* bound: pictures per session

FrameTypes == 0 .. 3
Rows       == 0 .. LastRow

(* Of the averaged fields, those that are treated differently. *)
Fields == {"PredFrm_Intra", "SKIP_mb_ratio", "Blockiness"}

(* pict is the decoder's pict_type (1 I, 2 P, 3 B), key its keyframe flag, *)
(* same says whether the size and pixel format are still the initial ones, *)
(* val is what the picture's statistics are for each field.                *)
ASSUME DecodedAssumption ==
  \A c \in Codecs :
    Decoded(c) \subseteq [pict : 1 .. 3, key : BOOLEAN, same : BOOLEAN, val : [Fields -> Nat]]

ASSUME BoundAssumption ==
  /\ LastRow \in Nat \ {0}
  /\ MaxFrames \in Nat
  /\ Codecs \subseteq {"H264", "HEVC", "VP9", "other"}

VARIABLES
  Codec,      \* the codec of the stream
  Started,    \* the codec modules' global: an intra picture was seen
  PicCnt,     \* CVideoParser::PicCnt
  GOB_Cnt,    \* CVideoParser::GOB_Cnt
  FrameStat,  \* CVideoParser::FrameStat
  SeqStat,    \* the client's table; row -1 is the memory in front of it
  CurrGOB,    \* what the last GetFrameStatistics returned
  nextRow,    \* the row GetSeqStatistic is called for next
  handed,     \* the frames the client got, with their counting (history)
  pc          \* "read", "got" or "end"

vars == <<Codec, Started, PicCnt, GOB_Cnt, FrameStat, SeqStat, CurrGOB, nextRow, handed, pc>>

ZeroVal   == [f \in Fields |-> 0]
ZeroFrame == [FrameType |-> 0, val |-> ZeroVal]

ZeroEntry == [FirstFrame |-> 0, NumFrames |-> 0, FrameCnt |-> 0,
              sum |-> ZeroVal, den |-> [f \in Fields |-> 1]]

(* The row behind the last one exists in TestMain's table and stays zero;  *)
(* reading the entry after the last of a row reads the next row's first.   *)
FirstFrameAt(S, g, t) ==
  IF t \in FrameTypes THEN S[g][t].FirstFrame
  ELSE IF g + 1 \in DOMAIN S THEN S[g + 1][0].FirstFrame ELSE 0

Init ==
  /\ Codec \in Codecs
  /\ Started = FALSE
  /\ PicCnt = 0
  /\ GOB_Cnt = -1
  /\ FrameStat = ZeroFrame
  /\ SeqStat = [g \in -1 .. LastRow |-> [t \in FrameTypes |-> ZeroEntry]]
  /\ CurrGOB = -1
  /\ nextRow = 0
  /\ handed = <<>>
  /\ pc = "read"

-----------------------------------------------------------------------------
(* AnalysePacket and the codecs' GetVideoStatistics functions.             *)

(* VP9 types a picture by the keyframe flag alone. *)
TypeOf(p) == IF Codec = "VP9" THEN (IF p.key THEN 1 ELSE 2) ELSE p.pict

Skipped(p) == ~Started /\ p.pict # 1

(* A picture of another size is neither numbered nor analysed. *)
Numbers(p) == p.same

(* Otherwise it is numbered; statistics exist for three codecs and from    *)
(* the first intra picture on.  In every other case FrameStat stays zero.  *)
Analysed(p) == p.same /\ Codec # "other" /\ ~Skipped(p)

(* ReadNextFrame ignores the result of AnalysePacket and returns 1. *)
AnalysePacket(p) ==
  /\ pc = "read" /\ Len(handed) < MaxFrames
  /\ PicCnt' = IF Numbers(p) THEN PicCnt + 1 ELSE PicCnt
  /\ Started' = (Started \/ Analysed(p))
  /\ FrameStat' = IF Analysed(p) THEN [FrameType |-> TypeOf(p), val |-> p.val] ELSE FrameStat
  /\ handed' = Append(handed, [type |-> FrameStat'.FrameType, numbered |-> p.same,
                               no |-> PicCnt', val |-> FrameStat'.val])
  /\ pc' = "got"
  /\ UNCHANGED <<Codec, GOB_Cnt, SeqStat, CurrGOB, nextRow>>

-----------------------------------------------------------------------------
(* GetFrameStatistics.                                                     *)

(* The entries of ForcedGOB are all 0: an intra frame opens a GOB, and so  *)
(* does every frame that comes before the first numbered picture.          *)
OpensGOB == FrameStat.FrameType = 1 \/ PicCnt = 0

\* Variants with a defect: the counter never moves, is not capped, or wraps.
RowUncounted == GOB_Cnt
RowUncapped  == IF OpensGOB THEN GOB_Cnt + 1 ELSE GOB_Cnt
RowWrapped   == IF OpensGOB THEN (GOB_Cnt + 1) % (LastRow + 1) ELSE GOB_Cnt

RowOfFrame == IF ~OpensGOB THEN GOB_Cnt
              ELSE IF GOB_Cnt + 1 < LastRow THEN GOB_Cnt + 1 ELSE LastRow

\* Variant with a defect: the picture that opens the next GOB is included.
RowLengthInclusive(S, g, t, late) ==
  PicCnt - FirstFrameAt(S, g, IF late THEN t + 1 ELSE t) + 1

(* The number of frames of a row, as closing computes it in column t. *)
RowLength(S, g, t, late) == PicCnt - FirstFrameAt(S, g, IF late THEN t + 1 ELSE t)

Closed(S, g, late) ==
  [S EXCEPT ![g] = [t \in FrameTypes |->
    [S[g][t] EXCEPT !.NumFrames = RowLength(S, g, t, late)]]]

Opened(S, g) ==
  [S EXCEPT ![g] = [t \in FrameTypes |-> [S[g][t] EXCEPT !.FirstFrame = PicCnt]]]

(* SumUp_FrameStat adds PredFrm_Intra to SKIP_mb_ratio, and Blockiness     *)
(* once in each of the four passes of the loop it stands in.               *)
Summand(val, f) ==
  CASE f = "SKIP_mb_ratio" -> val["PredFrm_Intra"]
    [] f = "Blockiness"    -> 4 * val[f]
    [] OTHER               -> val[f]

SumUp_FrameStat(entry) ==
  [entry EXCEPT !.sum = [f \in Fields |-> @[f] + Summand(FrameStat.val, f)],
                !.FrameCnt = @ + 1]

GetFrameStatistics ==
  /\ pc = "got"
  /\ \E late \in BOOLEAN :
       LET S1 == IF OpensGOB /\ GOB_Cnt >= 0 THEN Closed(SeqStat, GOB_Cnt, late) ELSE SeqStat
           S2 == IF OpensGOB THEN Opened(S1, RowOfFrame) ELSE S1
       IN SeqStat' = [S2 EXCEPT ![RowOfFrame][FrameStat.FrameType] = SumUp_FrameStat(@)]
  /\ GOB_Cnt' = RowOfFrame
  /\ CurrGOB' = GOB_Cnt'
  /\ FrameStat' = ZeroFrame
  /\ pc' = "read"
  /\ UNCHANGED <<Codec, Started, PicCnt, nextRow, handed>>

-----------------------------------------------------------------------------
(* GetSeqStatistic, called for the rows 0 .. CurrGOB after the last frame. *)

EndOfStream ==
  /\ pc = "read"
  /\ pc' = "end"
  /\ UNCHANGED <<Codec, Started, PicCnt, GOB_Cnt, FrameStat, SeqStat, CurrGOB, nextRow, handed>>

\* Variant with a defect: the sums are left undivided.
DivisorOne(f, n) == 1

(* Blockiness is divided in each of four passes, too. *)
Divisor(f, n) == IF f = "Blockiness" THEN n * n * n * n ELSE n

Averaged(entry) ==
  IF entry.FrameCnt = 0 THEN entry
  ELSE [entry EXCEPT !.den = [f \in Fields |-> @[f] * Divisor(f, entry.FrameCnt)]]

GetSeqStatistic ==
  /\ pc = "end" /\ nextRow <= CurrGOB
  /\ \E late \in BOOLEAN :
       LET S == IF SeqStat[nextRow][1].NumFrames = 0
                THEN Closed(SeqStat, nextRow, late) ELSE SeqStat
       IN SeqStat' = [S EXCEPT ![nextRow] =
                        [t \in FrameTypes |-> IF t = 0 THEN @[t] ELSE Averaged(@[t])]]
  /\ nextRow' = nextRow + 1
  /\ UNCHANGED <<Codec, Started, PicCnt, GOB_Cnt, FrameStat, CurrGOB, handed, pc>>

Finished == pc = "end" /\ nextRow > CurrGOB /\ UNCHANGED vars

Next ==
  \/ \E p \in Decoded(Codec) : AnalysePacket(p)
  \/ GetFrameStatistics
  \/ EndOfStream
  \/ GetSeqStatistic
  \/ Finished

Spec == Init /\ [][Next]_vars

-----------------------------------------------------------------------------
(* Properties.                                                             *)

Entry == [FirstFrame : Nat, NumFrames : Int, FrameCnt : Nat,
          sum : [Fields -> Nat], den : [Fields -> Nat \ {0}]]

(* Every variable stays in its type. *)
TypeOK ==
  /\ Codec \in Codecs
  /\ Started \in BOOLEAN
  /\ PicCnt \in Nat
  /\ GOB_Cnt \in -1 .. LastRow
  /\ FrameStat \in [FrameType : FrameTypes, val : [Fields -> Nat]]
  /\ SeqStat \in [-1 .. LastRow -> [FrameTypes -> Entry]]
  /\ CurrGOB \in -1 .. LastRow
  /\ nextRow \in 0 .. LastRow + 1
  /\ handed \in Seq([type : FrameTypes, numbered : BOOLEAN, no : Nat, val : [Fields -> Nat]])
  /\ pc \in {"read", "got", "end"}

(* The frames GetFrameStatistics was called for. *)
Summed == IF pc = "got" THEN DOMAIN handed \ {Len(handed)} ELSE DOMAIN handed

(* The GOB a frame belongs to, told from the intra frames up to it (and    *)
(* the frames before the first numbered picture, see OpensGOB).            *)
GobOf(i) ==
  LET n == Cardinality({j \in 1 .. i : handed[j].type = 1 \/ handed[j].no = 0}) - 1
  IN IF n < LastRow THEN n ELSE LastRow

FramesOf(g, t) == {i \in Summed : GobOf(i) = g /\ handed[i].type = t}
NumberedOf(g)  == {i \in Summed : GobOf(i) = g /\ handed[i].numbered}

SumOver(I, F(_)) == MapThenFoldSet(LAMBDA x, y : x + y, 0, F, LAMBDA S : CHOOSE x \in S : TRUE, I)

(* Every frame is summed once, into the row of its group of pictures and   *)
(* the column of its type: the counter that GetFrameStatistics moves, caps *)
(* at the last row and reads again for the next frame agrees with counting *)
(* intra frames.  Nothing is written in front of the table if an intra     *)
(* frame came first (a session that does not start with one does).         *)
TableMatchesFrames ==
  /\ \A g \in -1 .. LastRow : \A t \in FrameTypes :
       SeqStat[g][t].FrameCnt = Cardinality(FramesOf(g, t))
  /\ (handed # <<>> /\ handed[1].type = 1) =>
       \A t \in FrameTypes : SeqStat[-1][t] = ZeroEntry

(* A row that was closed by the next intra frame states the number of      *)
(* pictures of its group, whatever the types were and although pictures    *)
(* without statistics lie between: NumFrames, computed from two picture    *)
(* numbers, agrees with the frames.  In the last column the number may be  *)
(* taken from the row after it, and the last row holds several groups.     *)
(* Rows opened before any picture was numbered are one off, and excepted.  *)
ClosedRowLength ==
  \A g \in 0 .. GOB_Cnt - 1 : \A t \in FrameTypes \ {3} :
    SeqStat[g][t].FirstFrame > 0 =>
      SeqStat[g][t].NumFrames = Cardinality(NumberedOf(g))

(* The value a client reads from an averaged field. *)
IsAverage(f) ==
  \A g \in 0 .. nextRow - 1 : \A t \in 1 .. 3 :
    LET e == SeqStat[g][t] IN
    e.sum[f] * e.FrameCnt = e.den[f] * SumOver(FramesOf(g, t), LAMBDA i : handed[i].val[f])

(* After GetSeqStatistic a field is the average of the frames of its row   *)
(* and column, divided once and by the number of frames that were summed.  *)
IntraRatioIsAverage == IsAverage("PredFrm_Intra")

(* The same for the ratio of skipped blocks.  SumUp_FrameStat adds the     *)
(* intra ratio instead.                                                    *)
SkipRatioIsAverage == IsAverage("SKIP_mb_ratio")

(* A client never gets a frame of another type than the ones VIDEO_STAT    *)
(* documents.  Pictures without statistics come with type 0.               *)
DocumentedFrameType == pc = "got" => FrameStat.FrameType \in 1 .. 3

(* Averaging is the last thing that happens to a row: as long as frames    *)
(* arrive, rows of earlier groups do not change any more.                  *)
EarlierRowsFixed ==
  [][pc # "end" => \A g \in 0 .. GOB_Cnt - 1 : SeqStat'[g] = SeqStat[g]]_vars
=============================================================================
