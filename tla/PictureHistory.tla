--------------------------- MODULE PictureHistory ----------------------------
(***************************************************************************)
(* What the H.264 statistics of a picture take from other pictures.        *)
(* Pictures are decoded in one order (InitFrameStatistics264) and output   *)
(* in another (GetVideoStatisticsH264); between them live process-wide     *)
(* variables that no session resets: the two luma buffers of               *)
(* GroundTruth_P910, PrevStat of FinishStatistics, PrevPOC, PrevPTS and    *)
(* POC_Dif of InitFrameStatistics264, and CurrBlackBorder.  A process      *)
(* parses several videos one after the other, each to its end or not.      *)
(*                                                                         *)
(* Before a session decodes anything, avformat_find_stream_info decodes    *)
(* the first pictures of the video to learn its parameters, with a decoder *)
(* of its own but through the same InitFrameStatistics264: it moves the    *)
(* decoding side's variables, and the session then meets these pictures a  *)
(* second time.  How many they are depends on the stream and on ffmpeg's   *)
(* limits.  A video is a file with one video stream, and its times and     *)
(* durations are the same on both occasions.                               *)
(*                                                                         *)
(* HEVC keeps the same variables and uses them in the same way, except     *)
(* that it has no GroundTruthTI264.                                        *)
(***************************************************************************)
EXTENDS Integers, Sequences, FiniteSets

CONSTANTS
  Videos,      \* the videos a process may parse
  MaxSessions  \* bound: videos per process

(* A picture, in decoding order: its POC, its presentation time in units   *)
(* of pkt_duration, whether it has motion vectors (NumMotion > 0), and the *)
(* border that BlackborderDetect finds if it is intra.  step is the        *)
(* distance of two neighbouring pictures' POCs; dur says whether the       *)
(* demuxer states durations.  A picture of another size is dropped before  *)
(* it is analysed (SeqStatistics) and is left out.                         *)
PictureSet == [type : {"I", "P", "B"}, poc : Int, pts : Nat, moved : BOOLEAN, border : Nat]

ASSUME VideosAssumption ==
  \A v \in Videos :
    /\ v.size \in Nat \ {0} /\ v.step \in Nat \ {0} /\ v.dur \in BOOLEAN
    /\ v.pics \in Seq(PictureSet)
    /\ \A i, j \in DOMAIN v.pics : v.pics[i].pts = v.pics[j].pts => i = j

ASSUME SessionsAssumption == MaxSessions \in Nat

VARIABLES
  session,          \* number of the current session
  video,            \* its video
  probed,           \* pictures decoded when it was opened
  decoded,          \* pictures decoded in this session
  FrmStat,          \* the statistics in their AVFrames
  dpb,              \* pictures the decoder has not output
  pc,               \* "probe", "read", "decoded" or "crashed"
  Started, PicCnt,  \* reset by OpenVideo
  PrevPOC, PrevPTS, POC_Dif,
  CurrBlackBorder,
  DstData,          \* for each buffer, the size it was allocated for, 0 for NULL,
  luma,             \* and the picture in it
  Curr,             \* the buffer the next picture is copied to
  PrevStat,         \* the two pictures the temporal complexity is filtered with
  analysed,         \* the pictures analysed by the process (history)
  report            \* the last picture's statistics

decoderVars == <<session, video, probed, decoded, FrmStat, dpb, PrevPOC, PrevPTS, POC_Dif, CurrBlackBorder>>
outputVars  == <<Started, PicCnt, DstData, luma, Curr, PrevStat, analysed, report>>
vars        == <<decoderVars, outputVars, pc>>

None     == <<0, 0>>             \* no picture
NoWindow == [b \in 0 .. 1 |-> None]
NoVideo  == [size |-> 1, step |-> 1, dur |-> FALSE, pics |-> <<>>]
NoReport == [pic |-> None, tiPrev |-> None, motionOf |-> None, window |-> NoWindow,
             POC_DIF |-> 0, BlackBorder |-> 0, qpBorder |-> 0]

Init ==
  /\ session = 0 /\ video = NoVideo
  /\ probed = 0 /\ decoded = 0 /\ FrmStat = <<>> /\ dpb = {}
  /\ pc = "read"
  /\ Started = FALSE /\ PicCnt = 0
  /\ PrevPOC = 0 /\ PrevPTS = 0 /\ POC_Dif = 8
  /\ CurrBlackBorder = 0
  /\ DstData = [b \in 0 .. 1 |-> 0] /\ luma = [b \in 0 .. 1 |-> None] /\ Curr = 0
  /\ PrevStat = NoWindow
  /\ analysed = <<>>
  /\ report = NoReport

Pic(i)    == video.pics[i]
Intra(i)  == Pic(i).type = "I"
Abs(x)    == IF x < 0 THEN -x ELSE x
MinOf(x, y) == IF x < y THEN x ELSE y
MaxOf(x, y) == IF x > y THEN x ELSE y

-----------------------------------------------------------------------------
(* What a decoded picture leaves in the process, whoever decodes it.       *)

\* Variant with a defect: the time is counted from the start.
PocDistanceFromStart(p, dPOC) ==
  IF dPOC = 0 THEN POC_Dif
  ELSE IF p.pts = 0 \/ ~video.dur THEN MinOf(POC_Dif, dPOC)
  ELSE dPOC \div MaxOf(1, p.pts)

\* Variant with a defect: without a time, the last difference is taken.
PocDistanceLast(p, dPOC) ==
  IF dPOC = 0 THEN POC_Dif
  ELSE IF p.pts = 0 \/ ~video.dur THEN dPOC
  ELSE dPOC \div MaxOf(1, Abs(p.pts - PrevPTS))

(* POC_Dif after a picture.  A time of 0 is taken for a missing one. *)
PocDistance(p, dPOC) ==
  IF dPOC = 0 THEN POC_Dif
  ELSE IF p.pts = 0 \/ ~video.dur THEN MinOf(POC_Dif, dPOC)
  ELSE dPOC \div MaxOf(1, Abs(p.pts - PrevPTS))

\* Variant with a defect: inter pictures take their own estimate for a border.
BorderOfAny(p) == p.border

(* The border is estimated behind the last macroblock of an intra picture. *)
BorderAfter(p) == IF p.type = "I" THEN p.border ELSE CurrBlackBorder

DecodeStatics(p) ==
  /\ POC_Dif' = PocDistance(p, Abs(p.poc - PrevPOC))
  /\ PrevPOC' = p.poc /\ PrevPTS' = p.pts
  /\ CurrBlackBorder' = BorderAfter(p)

-----------------------------------------------------------------------------
(* A new session; the client may leave the one before at any point.  What  *)
(* OpenVideo resets behind avformat_find_stream_info, which does not use   *)
(* it, is reset at once.                                                   *)
OpenVideo ==
  /\ pc = "read" /\ session < MaxSessions
  /\ \E v \in Videos : video' = v
  /\ session' = session + 1
  /\ probed' = 0 /\ decoded' = 0 /\ FrmStat' = <<>> /\ dpb' = {}
  /\ Started' = FALSE /\ PicCnt' = 0
  /\ report' = NoReport
  /\ pc' = "probe"
  /\ UNCHANGED <<PrevPOC, PrevPTS, POC_Dif, CurrBlackBorder, DstData, luma, Curr, PrevStat, analysed>>

(* try_decode_frame: the next packet is decoded, and the picture dropped. *)
ProbePicture ==
  /\ pc = "probe" /\ probed < Len(video.pics)
  /\ probed' = probed + 1
  /\ DecodeStatics(Pic(probed + 1))
  /\ UNCHANGED <<session, video, decoded, FrmStat, dpb, pc, outputVars>>

(* The parameters and the reorder depth are known, or a limit is reached. *)
EndProbe ==
  /\ pc = "probe"
  /\ pc' = "read"
  /\ UNCHANGED <<decoderVars, outputVars>>

-----------------------------------------------------------------------------
(* One call of the decoder: it decodes the next picture and may output one;*)
(* behind the last packet it only outputs.                                 *)

(* InitFrameStatistics264, the macroblocks, whose QPs are split at the     *)
(* border that is known when the picture starts, and the estimation.       *)
DecodePicture ==
  /\ pc = "read" /\ decoded < Len(video.pics)
  /\ decoded' = decoded + 1
  /\ DecodeStatics(Pic(decoded + 1))
  /\ FrmStat' = Append(FrmStat, [POC_DIF |-> POC_Dif', qpBorder |-> CurrBlackBorder,
                                 BlackBorder |-> CurrBlackBorder'])
  /\ dpb' = dpb \cup {decoded + 1}
  /\ pc' = "decoded"
  /\ UNCHANGED <<session, video, probed, outputVars>>

(* No picture is output before all earlier ones are. *)
NextOut(i) ==
  /\ i \in dpb
  /\ pc = "decoded" \/ (pc = "read" /\ decoded = Len(video.pics))
  /\ \A j \in DOMAIN video.pics : Pic(j).pts < Pic(i).pts => j <= decoded /\ j \notin dpb

NoPicture ==
  /\ pc = "decoded"
  /\ pc' = "read"
  /\ UNCHANGED <<decoderVars, outputVars>>

\* Variant with a defect: pictures are numbered from the first intra one on.
NumberIfStarted == IF Started THEN PicCnt + 1 ELSE PicCnt

(* AnalysePacket numbers every picture, also those it does not analyse. *)
NextNumber == PicCnt + 1

(* Before the first intra picture pictures are numbered only. *)
SkipPicture ==
  /\ \E i \in dpb :
       /\ NextOut(i)
       /\ ~Started /\ ~Intra(i)
       /\ dpb' = dpb \ {i}
  /\ PicCnt' = NextNumber
  /\ report' = NoReport
  /\ pc' = "read"
  /\ UNCHANGED <<session, video, probed, decoded, FrmStat, PrevPOC, PrevPTS, POC_Dif, CurrBlackBorder,
                 Started, DstData, luma, Curr, PrevStat, analysed>>

-----------------------------------------------------------------------------
(* GetVideoStatisticsH264.                                                 *)

(* The buffer the picture is copied to is allocated by the first picture   *)
(* that uses it.                                                           *)
Allocated == IF DstData[Curr] = 0 THEN [DstData EXCEPT ![Curr] = video.size] ELSE DstData

\* Variant with a defect: the other buffer is read for the first picture, too.
ReadsPreviousAlways(idx) == idx > 0

ReadsPrevious(idx) == idx > 1

(* GroundTruth_P910 uses both buffers with the size of this picture. *)
Misfit(idx) ==
  \/ Allocated[Curr] # video.size
  \/ ReadsPrevious(idx) /\ DstData[1 - Curr] # video.size

\* Variant with a defect: the buffers are swapped before the comparison.
ComparedWithItself == luma'[Curr]

(* The picture whose luma TI_910 is measured against. *)
ComparedWith == luma[1 - Curr]

\* Variant with a defect: the motion is always that of the decoder's current picture.
MotionOfCurrent(i, idx) == IF idx > 1 THEN decoded ELSE 0

(* TI_Mot: GroundTruthTI264 takes the decoder's current picture; for an    *)
(* inter picture GroundTruthTI overwrites it with the output picture's.    *)
MotionOf(i, idx) == IF idx > 1 THEN (IF Intra(i) THEN decoded ELSE i) ELSE 0

Id(i) == IF i = 0 THEN None ELSE <<session, i>>

\* Variant with a defect: the newer entry is overwritten before it is moved.
ShiftedTooLate(id) == [b \in 0 .. 1 |-> id]

(* FinishStatistics: PrevStat[1] takes PrevStat[0], PrevStat[0] the picture. *)
Shifted(id) == [b \in 0 .. 1 |-> IF b = 0 THEN id ELSE PrevStat[0]]

Moves(i) == ~Intra(i) /\ Pic(i).moved

AnalysePicture ==
  /\ \E i \in dpb :
       LET idx == NextNumber IN
       /\ NextOut(i)
       /\ Started \/ Intra(i)
       /\ ~Misfit(idx)
       /\ dpb' = dpb \ {i}
       /\ luma' = [luma EXCEPT ![Curr] = Id(i)]
       /\ PrevStat' = IF Moves(i) THEN Shifted(Id(i)) ELSE PrevStat
       /\ analysed' = Append(analysed, [id |-> Id(i), moves |-> Moves(i), size |-> video.size])
       /\ report' = [pic         |-> Id(i),
                     tiPrev      |-> IF ReadsPrevious(idx) /\ ~Intra(i) THEN ComparedWith ELSE None,
                     motionOf    |-> Id(MotionOf(i, idx)),
                     window      |-> IF Moves(i) THEN PrevStat ELSE NoWindow,
                     POC_DIF     |-> FrmStat[i].POC_DIF,
                     BlackBorder |-> FrmStat[i].BlackBorder,
                     qpBorder    |-> FrmStat[i].qpBorder]
  /\ DstData' = Allocated
  /\ Curr' = 1 - Curr
  /\ Started' = TRUE /\ PicCnt' = NextNumber
  /\ pc' = "read"
  /\ UNCHANGED <<session, video, probed, decoded, FrmStat, PrevPOC, PrevPTS, POC_Dif, CurrBlackBorder>>

(* A null buffer is read, or one that was allocated for another size is    *)
(* used: what follows is undefined, and the model stops.                   *)
MisusesBuffer ==
  /\ \E i \in dpb : NextOut(i) /\ (Started \/ Intra(i))
  /\ Misfit(NextNumber)
  /\ pc' = "crashed"
  /\ UNCHANGED <<decoderVars, outputVars>>

Finished ==
  /\ pc = "crashed" \/ (session = MaxSessions /\ decoded = Len(video.pics) /\ dpb = {} /\ pc = "read")
  /\ UNCHANGED vars

Next ==
  \/ OpenVideo \/ ProbePicture \/ EndProbe
  \/ DecodePicture \/ NoPicture
  \/ SkipPicture \/ AnalysePicture \/ MisusesBuffer
  \/ Finished

Spec == Init /\ [][Next]_vars

-----------------------------------------------------------------------------
(* Properties.                                                             *)

Ids     == (0 .. MaxSessions) \X Nat
FrmInfo == [POC_DIF : Nat, qpBorder : Nat, BlackBorder : Nat]

(* Every variable stays in its type. *)
TypeOK ==
  /\ session \in 0 .. MaxSessions /\ video \in Videos \cup {NoVideo}
  /\ probed \in 0 .. Len(video.pics) /\ (pc = "probe" => decoded = 0)
  /\ decoded \in 0 .. Len(video.pics) /\ dpb \subseteq 1 .. decoded
  /\ FrmStat \in Seq(FrmInfo) /\ Len(FrmStat) = decoded
  /\ pc \in {"probe", "read", "decoded", "crashed"}
  /\ Started \in BOOLEAN /\ PicCnt \in Nat /\ PicCnt + Cardinality(dpb) = decoded
  /\ PrevPOC \in Int /\ PrevPTS \in Nat /\ POC_Dif \in Nat /\ CurrBlackBorder \in Nat
  /\ DstData \in [0 .. 1 -> Nat] /\ luma \in [0 .. 1 -> Ids] /\ Curr \in 0 .. 1
  /\ PrevStat \in [0 .. 1 -> Ids]
  /\ analysed \in Seq([id : Ids, moves : BOOLEAN, size : Nat])
  /\ report \in [pic : Ids, tiPrev : Ids, motionOf : Ids, window : [0 .. 1 -> Ids],
                 POC_DIF : Nat, BlackBorder : Nat, qpBorder : Nat]

Reported == report.pic # None
Inter    == Reported /\ ~Intra(report.pic[2])

(* TI_910 of an inter picture is the difference to the picture that was    *)
(* analysed just before it, in output order and in the same video, however *)
(* the two buffers, the skipped pictures and the sessions before line up.  *)
PreviousLuma ==
  Inter => /\ Len(analysed) > 1
           /\ report.tiPrev = analysed[Len(analysed) - 1].id
           /\ report.tiPrev[1] = session

(* The luma buffers are misused in two cases only: the first picture the   *)
(* process analyses is not the first of its video, or videos of different  *)
(* sizes are parsed by one process.                                        *)
BuffersFit ==
  pc = "crashed" =>
    \/ analysed = <<>> /\ PicCnt > 0
    \/ \E k \in DOMAIN analysed : analysed[k].size # video.size

(* The motion of an inter picture is its own, although pictures are        *)
(* analysed while the decoder works on later ones.                         *)
MotionOfPicture == Inter => report.motionOf = report.pic

(* The position k of the last moving picture analysed before the m-th one, *)
(* 0 if there is none, and the picture at a position.                      *)
LastMoving(k, m) ==
  /\ k > 0 => k \in DOMAIN analysed /\ k < m /\ analysed[k].moves
  /\ \A j \in DOMAIN analysed : j < m /\ analysed[j].moves => j <= k

IdAt(k) == IF k = 0 THEN None ELSE analysed[k].id

(* The temporal complexity is filtered over the picture and the two moving *)
(* pictures output before it, whatever still and intra pictures lie        *)
(* between; in the first two moving pictures of a video they are those of  *)
(* the video the process parsed before.                                    *)
FilterWindow ==
  Inter /\ Pic(report.pic[2]).moved =>
    \E k, j \in 0 .. Len(analysed) :
      /\ LastMoving(k, Len(analysed)) /\ LastMoving(j, k)
      /\ report.window[0] = IdAt(k) /\ report.window[1] = IdAt(j)

(* A video of constant frame rate: POCs are multiples of the distance of   *)
(* neighbours, and an inter picture's POC is counted from the same picture *)
(* as that of the picture decoded before it, so that the two are as far    *)
(* apart in POC as in time.  8 is the initial value of POC_Dif.            *)
ConstantRate(v) ==
  /\ v.step < 8
  /\ \A i \in DOMAIN v.pics : v.pics[i].poc % v.step = 0
  /\ \A i \in DOMAIN v.pics : i > 1 /\ v.pics[i].type # "I" =>
       Abs(v.pics[i].poc - v.pics[i - 1].poc) = v.step * Abs(v.pics[i].pts - v.pics[i - 1].pts)

(* Among the first i pictures of the session, two neighbours were decoded  *)
(* one after the other.                                                    *)
NeighboursMet(i) == \E j \in 2 .. i : Abs(Pic(j).poc - Pic(j - 1).poc) = video.step

(* POC_DIF, by which motion is scaled, is the POC distance of neighbouring *)
(* pictures, computed from whatever pictures follow each other in decoding *)
(* order, if the video has a constant frame rate and durations.  (The      *)
(* picture with time 0 is taken for one without, and the first one is      *)
(* compared with whatever was decoded before the session.)  Without        *)
(* durations, in the first video of the process, it is never smaller, and  *)
(* it is that distance at the latest from the picture on by which two      *)
(* neighbours were decoded one after the other, although the video's first *)
(* pictures are decoded once before the session and then compared again.   *)
MotionScale ==
  LET i == report.pic[2] IN
  Inter /\ ConstantRate(video) =>
    /\ video.dur /\ i > 1 /\ Pic(i).pts > 0 => report.POC_DIF = video.step
    /\ ~video.dur /\ session = 1 =>
         /\ report.POC_DIF >= video.step
         /\ NeighboursMet(i) => report.POC_DIF = video.step

(* A picture comes with the border of the last intra picture decoded       *)
(* before it in its video, although others have been decoded until it is   *)
(* output; the QPs of inter pictures are averaged without that border.     *)
BorderOfLastIntra ==
  Reported =>
    LET i     == report.pic[2]
        intra == {j \in 1 .. i : Intra(j)}
        last  == CHOOSE j \in intra : \A k \in intra : k <= j
    IN intra # {} => /\ report.BlackBorder = Pic(last).border
                     /\ ~Intra(i) => report.qpBorder = report.BlackBorder

(* How buffers and counters line up: what makes PreviousLuma, BuffersFit   *)
(* and MotionOfPicture inductive.  The other buffer holds the picture      *)
(* analysed last, and both were allocated for pictures that were analysed. *)
LinedUp ==
  /\ \A b \in 0 .. 1 : DstData[b] = 0 \/ \E k \in DOMAIN analysed : DstData[b] = analysed[k].size
  /\ analysed # <<>> => /\ DstData[1 - Curr] # 0
                        /\ luma[1 - Curr] = analysed[Len(analysed)].id
  /\ Started => /\ analysed # <<>> /\ PicCnt > 0
                /\ analysed[Len(analysed)].id[1] = session

(* The same for BorderOfLastIntra: every decoded picture has the border of *)
(* the last intra picture up to it, and a report is a picture's.           *)
LastIntra(j, i) == j \in 1 .. i /\ Intra(j) /\ \A k \in 1 .. i : Intra(k) => k <= j

BordersKept ==
  /\ \A i \in 1 .. decoded :
       /\ (\E j \in 1 .. i : Intra(j)) =>
            \E j \in 1 .. i : LastIntra(j, i) /\ FrmStat[i].BlackBorder = Pic(j).border
       /\ ~Intra(i) => FrmStat[i].qpBorder = FrmStat[i].BlackBorder
  /\ decoded > 0 => CurrBlackBorder = FrmStat[decoded].BlackBorder
  /\ Reported => /\ report.pic[2] \in 1 .. decoded
                 /\ report.BlackBorder = FrmStat[report.pic[2]].BlackBorder
                 /\ report.qpBorder = FrmStat[report.pic[2]].qpBorder

(* The same for FilterWindow: PrevStat holds the last two moving pictures. *)
WindowKept ==
  \E k, j \in 0 .. Len(analysed) :
    /\ LastMoving(k, Len(analysed) + 1) /\ LastMoving(j, k)
    /\ PrevStat[0] = IdAt(k) /\ PrevStat[1] = IdAt(j)

(* The same for MotionScale: what the decoded pictures were given, and     *)
(* what the next one will be compared with, which before the session's     *)
(* first picture is what the probe of the video has left.                  *)
ScaleOf(i) ==
  /\ video.dur /\ i > 1 /\ ~Intra(i) /\ Pic(i).pts > 0 => FrmStat[i].POC_DIF = video.step
  /\ ~video.dur /\ session = 1 =>
       /\ FrmStat[i].POC_DIF >= video.step
       /\ NeighboursMet(i) => FrmStat[i].POC_DIF = video.step

ScaleKept ==
  /\ ConstantRate(video) => \A i \in 1 .. decoded : ScaleOf(i)
  /\ decoded > 0 => /\ POC_Dif = FrmStat[decoded].POC_DIF
                    /\ PrevPOC = Pic(decoded).poc /\ PrevPTS = Pic(decoded).pts
  /\ session = 0 => video = NoVideo /\ POC_Dif = 8 /\ PrevPOC = 0
  /\ session = 1 /\ ~video.dur /\ ConstantRate(video) =>
       POC_Dif >= video.step /\ PrevPOC % video.step = 0
  /\ Reported => report.POC_DIF = FrmStat[report.pic[2]].POC_DIF

(* What the source says of Av_QPBB: the average QP without the black       *)
(* regions of the picture.                                                 *)
BorderExcluded == Reported => report.qpBorder = report.BlackBorder
=============================================================================
