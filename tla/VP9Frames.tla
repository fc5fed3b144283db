------------------------------ MODULE VP9Frames ------------------------------
(***************************************************************************)
(* The statistics of VP9 frames and the memory they own.  A VIDEO_STAT is  *)
(* copied bytewise with the AVFrame it is part of, and with it the pointer *)
(* to the motion field (NormalizedField) that InitFrameStatisticsVP9       *)
(* allocates; the client's GetFrameStatistics frees the field of the frame *)
(* it is given.  The copies are the reference slots, which are filled      *)
(* before the blocks are decoded, VP9Hidden_FrmStat, which keeps a hidden  *)
(* frame's statistics for the short frame that shows it, and FrameStat.    *)
(*                                                                         *)
(* The sums of the motion vectors are kept as what they were divided by.   *)
(***************************************************************************)
EXTENDS Integers, Sequences, FiniteSets

CONSTANTS
  Slots,          \* reference slots, eight in the code
  MaxFrames,      \* bound: frames decoded
  ShowsExisting,  \* the stream has show_existing_frame packets
  MaxRepeats,     \* bound: those that show a picture displayed before
  SmallInter      \* the stream has inter frames of less than 100 bytes

ASSUME StreamAssumption ==
  /\ IsFiniteSet(Slots)
  /\ {MaxFrames, MaxRepeats} \subseteq Nat
  /\ {ShowsExisting, SmallInter} \subseteq BOOLEAN

VARIABLES
  n,        \* frames decoded; frame number n owns motion field n
  hidden,   \* the stream's last hidden frame, 0 before the first one
  refs,     \* s.refs: for each slot the picture and the copy of its statistics
  VP9Hidden_FrmStat,
  keyframe, \* s.h.keyframe, of the last header that was read in full
  frame,    \* the output AVFrame, with the number of the picture it displays
  Started,
  FrameIdx, \* CVideoParser::PicCnt
  live,     \* motion fields that are allocated
  misused,  \* motion fields that were read or freed when they were not (history)
  displayed, \* pictures that were handed out (history)
  report    \* what the client got last: the picture, its statistics and the
            \* number of frames decoded by then (history)

vars == <<n, hidden, refs, VP9Hidden_FrmStat, keyframe, frame, Started, FrameIdx, live, misused, displayed, report>>

(* field: the motion field it points to, 0 for none.  of: the frame whose  *)
(* blocks it counts (AnalyzedMBs, QPs, motion), 0 for none.  divisor: what *)
(* FrameStatistics divided its motion sums by.                             *)
ZeroStat == [field |-> 0, of |-> 0, divisor |-> 1, FrameDistance |-> 0,
             IsShrtFrame |-> FALSE, IsHidden |-> FALSE]
NoFrame  == [picture |-> 0, intra |-> FALSE, FrmStat |-> ZeroStat]
NoReport == [picture |-> 0, analysed |-> FALSE, FrmStat |-> ZeroStat, at |-> 0]

Init ==
  /\ n = 0 /\ hidden = 0
  /\ refs = [i \in Slots |-> NoFrame]
  /\ VP9Hidden_FrmStat = ZeroStat
  /\ keyframe = FALSE
  /\ frame = NoFrame
  /\ Started = FALSE
  /\ FrameIdx = 0
  /\ live = {} /\ misused = {} /\ displayed = {}
  /\ report = NoReport

-----------------------------------------------------------------------------
(* vp9_decode_frame with the hooks of the statistics.                      *)

\* Variant with a defect: the frame gets the field of the one after it.
InitWithNextField(f, short, invisible) ==
  [ZeroStat EXCEPT !.field = f + 1, !.FrameDistance = VP9Hidden_FrmStat.FrameDistance,
                   !.IsShrtFrame = short, !.IsHidden = invisible]

(* InitFrameStatisticsVP9: FrmStat was cleared when the frame buffer was   *)
(* released, so that its SAFE_FREEs have nothing to free.                  *)
InitFrameStatisticsVP9(f, short, invisible) ==
  [ZeroStat EXCEPT !.field = f, !.FrameDistance = VP9Hidden_FrmStat.FrameDistance,
                   !.IsShrtFrame = short, !.IsHidden = invisible]

(* ModeStatistics, for all blocks. *)
ModeStatistics(stat, f) == [stat EXCEPT !.of = f]

\* Variant with a defect: the sums are divided by the distance as it is.
DividedByAll ==
  LET d == IF VP9Hidden_FrmStat.FrameDistance > 1 THEN VP9Hidden_FrmStat.FrameDistance ELSE 1
  IN  [VP9Hidden_FrmStat EXCEPT !.IsShrtFrame = TRUE, !.FrameDistance = d, !.divisor = @ * d]

(* The hidden frame's statistics when a short frame comes: its motion sums *)
(* are divided, whichever frame the short one displays.                    *)
Divided ==
  LET d == IF VP9Hidden_FrmStat.FrameDistance > 3 THEN VP9Hidden_FrmStat.FrameDistance - 2 ELSE 1
  IN  [VP9Hidden_FrmStat EXCEPT !.IsShrtFrame = TRUE, !.FrameDistance = d, !.divisor = @ * d]

\* Variant with a defect: a short frame keeps its own statistics.
FrameStatisticsOwn(stat, short) == stat

(* FrameStatistics: a short frame takes over those of the hidden frame,    *)
(* together with its motion field.                                         *)
FrameStatistics(stat, short) == IF short THEN Divided ELSE stat

\* Variant with a defect: frames that are not hidden are kept, too.
HiddenAlways(stat, short, invisible) ==
  IF short THEN Divided ELSE [stat EXCEPT !.IsHidden = TRUE, !.FrameDistance = 0]

(* The statistics that wait for a short frame.  The frames displayed since *)
(* are counted, those shown from a reference slot are not.                 *)
HiddenAfter(stat, short, invisible) ==
  IF short THEN Divided
  ELSE IF invisible THEN [stat EXCEPT !.IsHidden = TRUE, !.FrameDistance = 0]
  ELSE [VP9Hidden_FrmStat EXCEPT !.FrameDistance = @ + 1]

(* A frame of less than 100 bytes is short.  The picture it displays is    *)
(* the last hidden frame, or its own.                                      *)
DecodeFrame(key, intraonly, invisible, short, own, refresh) ==
  LET f     == n + 1
      pic   == IF short /\ ~own THEN hidden ELSE f
      start == InitFrameStatisticsVP9(f, short, invisible)
      stat  == FrameStatistics(ModeStatistics(start, f), short)
  IN
  /\ frame = NoFrame
  /\ n' = f
  /\ hidden' = IF invisible THEN f ELSE hidden
  /\ keyframe' = key
  /\ live' = live \cup {f}
  /\ refs' = [i \in Slots |->
                IF i \in refresh
                THEN [picture |-> pic, intra |-> key \/ intraonly, FrmStat |-> start]
                ELSE refs[i]]
  /\ VP9Hidden_FrmStat' = HiddenAfter(ModeStatistics(start, f), short, invisible)
  /\ frame' = IF invisible THEN NoFrame
              ELSE [picture |-> pic, intra |-> key \/ intraonly, FrmStat |-> stat]
  /\ UNCHANGED <<Started, FrameIdx, misused, displayed, report>>

(* The header says only which slot to show; nothing is decoded. *)
ShowExisting(i) ==
  /\ frame = NoFrame
  /\ refs[i] # NoFrame
  /\ frame' = refs[i]
  /\ UNCHANGED <<n, hidden, refs, VP9Hidden_FrmStat, keyframe, Started, FrameIdx, live, misused, displayed, report>>

-----------------------------------------------------------------------------
(* The frame is analysed and fetched by the client.                        *)

Analysed == Started \/ frame.intra

(* GroundTruthTI runs for inter frames from the second picture on. *)
ReadsField == FrameIdx > 0 /\ ~keyframe /\ ~frame.FrmStat.IsShrtFrame

(* GetVideoStatisticsVP9, then GetFrameStatistics, which frees the field.  *)
(* A frame that is not analysed leaves FrameStat cleared.                  *)
HandOut ==
  LET stat == IF Analysed THEN frame.FrmStat ELSE ZeroStat
      used == (IF Analysed /\ ReadsField THEN {stat.field} ELSE {})
              \cup ({stat.field} \ {0})
  IN
  /\ frame # NoFrame
  /\ Started' = (Started \/ frame.intra)
  /\ FrameIdx' = FrameIdx + 1
  /\ misused' = misused \cup (used \ live)
  /\ live' = live \ {stat.field}
  /\ displayed' = displayed \cup {frame.picture}
  /\ report' = [picture |-> frame.picture, analysed |-> Analysed, FrmStat |-> stat, at |-> n]
  /\ frame' = NoFrame
  /\ UNCHANGED <<n, hidden, refs, VP9Hidden_FrmStat, keyframe>>

Finished == n = MaxFrames /\ frame = NoFrame /\ UNCHANGED vars

-----------------------------------------------------------------------------
(* The stream: its first frame is a key frame, hidden frames and key       *)
(* frames are not short.                                                   *)

MayDecode(key, invisible, short, own) ==
  /\ n < MaxFrames
  /\ n = 0 => key
  /\ short => ~invisible /\ ~key
  /\ short /\ own => SmallInter
  /\ IF short /\ ~own THEN hidden \notin {0} \cup displayed ELSE TRUE
  /\ ~short => own

MayShow(i) ==
  /\ ShowsExisting
  /\ refs[i].picture \in displayed => FrameIdx < Cardinality(displayed) + MaxRepeats

Next ==
  \/ \E key, intraonly, invisible, short, own \in BOOLEAN, refresh \in SUBSET Slots :
       /\ MayDecode(key, invisible, short, own)
       /\ ~(key /\ intraonly) /\ (key => refresh = Slots)
       /\ DecodeFrame(key, intraonly, invisible, short, own, refresh)
  \/ \E i \in Slots : MayShow(i) /\ ShowExisting(i)
  \/ HandOut
  \/ Finished

Spec == Init /\ [][Next]_vars

-----------------------------------------------------------------------------
(* Properties.                                                             *)

Stat  == [field : 0 .. n, of : 0 .. n, divisor : Nat \ {0}, FrameDistance : 0 .. n,
          IsShrtFrame : BOOLEAN, IsHidden : BOOLEAN]
Frame == [picture : 0 .. n, intra : BOOLEAN, FrmStat : Stat]

(* Every variable stays in its type. *)
TypeOK ==
  /\ n \in Nat /\ hidden \in 0 .. n /\ FrameIdx \in Nat
  /\ refs \in [Slots -> Frame] /\ frame \in Frame
  /\ VP9Hidden_FrmStat \in Stat
  /\ keyframe \in BOOLEAN /\ Started \in BOOLEAN
  /\ live \subseteq 1 .. n /\ misused \subseteq 0 .. n /\ displayed \subseteq 1 .. n
  /\ report \in [picture : 0 .. n, analysed : BOOLEAN, FrmStat : Stat, at : 0 .. n]

(* No motion field is read or freed after it was freed: although three     *)
(* kinds of copies hold the same pointer, a stream that displays every     *)
(* picture once hands out every field once.                                *)
FieldsSafe == misused = {}

(* The motion sums of a hidden frame are divided once, by the number of    *)
(* frames decoded between it and the short frame that displays it, less 2; *)
(* those of every other frame never.                                       *)
MotionDividedOnce ==
  LET between == report.at - report.picture - 1
  IN  report.FrmStat.divisor =
        IF report.FrmStat.IsShrtFrame /\ report.FrmStat.of # 0 /\ between > 3
        THEN between - 2 ELSE 1

(* The statistics that come with a picture are that picture's, or, for a   *)
(* reference slot that is shown, count nothing.  A short frame's are those *)
(* of the hidden frame it displays, with the sums divided once.  In        *)
(* whichever copy they come, the picture's motion field is released.       *)
StatisticsOfPicture ==
  /\ report.FrmStat.of \in {0, report.picture}
  /\ MotionDividedOnce
  /\ report.analysed => report.picture \notin live

(* AnalyzedMBs counts the blocks of the frame: it is not 0. *)
BlocksCounted == report.analysed => report.FrmStat.of # 0
=============================================================================
