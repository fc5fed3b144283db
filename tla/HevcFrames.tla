------------------------------ MODULE HevcFrames ------------------------------
(***************************************************************************)
(* How the statistics of a HEVC picture get from the decoder to the client.*)
(* The decoder chooses the picture to be output when it starts the next    *)
(* one (hevc_frame_start), before the blocks of that one are counted, and  *)
(* av_frame_ref copies its VIDEO_STAT bytewise.  If it is the picture just *)
(* started, the copy is empty; hevc_decode_frame copies the statistics     *)
(* again behind the last slice segment, if the two frames start at the     *)
(* same address.  A conformance window with an offset at the left or at    *)
(* the top moves that address.                                             *)
(*                                                                         *)
(* Left out are packets for which hevc_decode_frame returns an error (a    *)
(* slice header that cannot be read, say), and with them the picture it    *)
(* had chosen: it is not handed out, and hevc_frame_start drops it.        *)
(*                                                                         *)
(* The statistics are those of one slice segment: a VIDEO_STAT is the      *)
(* picture and the slice segment whose counts it holds, which also name    *)
(* the motion field that InitStatisticsHEVC allocated for it.              *)
(***************************************************************************)
EXTENDS Integers, Sequences, FiniteSets

CONSTANTS
  Streams  \* pictures in decoding order, reorder, whether the window has an offset

(* type; poc within its sequence; start: an IDR or BLA picture; noPrior:   *)
(* its no_output_of_prior_pics_flag; skipped: a leading picture whose      *)
(* references are missing; shown: pic_output_flag; slices: how many.       *)
PictureSet == [type : {"I", "P", "B"}, poc : Nat, start : BOOLEAN, noPrior : BOOLEAN,
               skipped : BOOLEAN, shown : BOOLEAN, slices : Nat \ {0}]

ASSUME StreamsAssumption ==
  \A s \in Streams :
    /\ s.pics \in Seq(PictureSet) /\ s.reorder \in Nat /\ s.offset \in BOOLEAN
    /\ \A i \in DOMAIN s.pics : s.pics[i].noPrior => s.pics[i].start

(* seq_decode when picture i of pics is decoded. *)
SequenceIn(pics, i) == Cardinality({j \in 1 .. i : pics[j].start})

Displayable(pic) == pic.shown /\ ~pic.skipped

(* What sps_max_num_reorder_pics promises: of the pictures decoded before  *)
(* one of the same sequence, at most so many are displayed after it.       *)
ASSUME ReorderAssumption ==
  \A s \in Streams : \A i \in DOMAIN s.pics :
    LET before == {j \in 1 .. i - 1 : /\ Displayable(s.pics[j])
                                      /\ SequenceIn(s.pics, j) = SequenceIn(s.pics, i)}
    IN Displayable(s.pics[i]) =>
         /\ \A j \in before : s.pics[j].poc # s.pics[i].poc
         /\ Cardinality({j \in before : s.pics[j].poc > s.pics[i].poc}) <= s.reorder

VARIABLES
  stream,
  n,            \* packets read: the number of the current picture
  slice,        \* slice segments of it that are decoded
  FrmStat,      \* the statistics of each picture, in the decoder's frame
  waiting,      \* the pictures flagged HEVC_FRAME_FLAG_OUTPUT
  seq_output,   \* the sequence that is output
  output_frame, \* the picture to be output, its copy of the statistics,
                \* and whether it was output when it was started
  pc,           \* "read", "slices", "output", "crashed"
  Started,
  FrameIdx,     \* CVideoParser::PicCnt
  live,         \* motion fields that are allocated
  misused,      \* those freed when they were not (history)
  handed        \* what the client got so far (history)

vars == <<stream, n, slice, FrmStat, waiting, seq_output, output_frame, pc,
          Started, FrameIdx, live, misused, handed>>

NoStat  == <<0, 0>>
NoFrame == [picture |-> 0, stat |-> NoStat, own |-> FALSE]

Pic(i) == stream.pics[i]

SequenceOf(i) == SequenceIn(stream.pics, i)

Init ==
  /\ stream \in Streams
  /\ n = 0 /\ slice = 0
  /\ FrmStat = <<>> /\ waiting = {} /\ seq_output = 0 /\ output_frame = NoFrame
  /\ pc = "read"
  /\ Started = FALSE /\ FrameIdx = 0
  /\ live = {} /\ misused = {} /\ handed = <<>>

-----------------------------------------------------------------------------
(* ff_hevc_output_frame, when picture i is the latest one.                 *)

(* Those of a set of pictures that a picture with noPrior leaves. *)
Kept(W, i) ==
  IF Pic(i).noPrior
  THEN {j \in W : SequenceOf(j) < seq_output \/ Pic(j).poc = Pic(i).poc}
  ELSE W

OfSequence(W, q) == {j \in W : SequenceOf(j) = q}

\* Variant with a defect: a picture is output one picture too early.
WaitsLonger(W, q, i) == q = SequenceOf(i) /\ Cardinality(OfSequence(W, q)) < stream.reorder

(* The current sequence waits for more pictures, earlier ones do not. *)
Waits(W, q, i) == q = SequenceOf(i) /\ Cardinality(OfSequence(W, q)) <= stream.reorder

(* Output the picture of the lowest POC of the first sequence that has     *)
(* any.  Only pictures of sequences that are passed are discarded.         *)
ff_hevc_output_frame(W, stats, i, flush) ==
  LET kept   == Kept(W, i)
      q      == CHOOSE s \in seq_output .. SequenceOf(i) :
                  /\ OfSequence(kept, s) # {} \/ s = SequenceOf(i)
                  /\ \A r \in seq_output .. s - 1 : OfSequence(kept, r) = {}
      lowest == CHOOSE j \in OfSequence(kept, q) : \A k \in OfSequence(kept, q) : Pic(j).poc <= Pic(k).poc
      passed == {j \in W \ kept : SequenceOf(j) <= q}
      out    == OfSequence(kept, q) # {} /\ (flush \/ ~Waits(kept, q, i))
  IN /\ seq_output' = q
     /\ waiting' = (W \ passed) \ (IF out THEN {lowest} ELSE {})
     /\ output_frame' = IF out THEN [picture |-> lowest, stat |-> stats[lowest],
                                     own |-> ~flush /\ lowest = i]
                        ELSE NoFrame

-----------------------------------------------------------------------------
(* hevc_decode_frame.                                                      *)

(* A packet with a leading picture that cannot be decoded yields nothing. *)
SkipPacket ==
  /\ pc = "read" /\ n < Len(stream.pics) /\ Pic(n + 1).skipped
  /\ n' = n + 1
  /\ FrmStat' = Append(FrmStat, NoStat)
  /\ UNCHANGED <<stream, slice, waiting, seq_output, output_frame, pc, Started, FrameIdx,
                 live, misused, handed>>

hevc_frame_start ==
  /\ pc = "read" /\ n < Len(stream.pics) /\ ~Pic(n + 1).skipped
  /\ n' = n + 1 /\ slice' = 0
  /\ FrmStat' = Append(FrmStat, NoStat)
  /\ ff_hevc_output_frame(waiting \cup (IF Pic(n + 1).shown THEN {n + 1} ELSE {}), FrmStat', n + 1, FALSE)
  /\ pc' = "slices"
  /\ UNCHANGED <<stream, Started, FrameIdx, live, misused, handed>>

\* Variant with a defect: the statistics are cleared once for a picture.
InitOfFirst(k) == IF k = 1 THEN <<n, k>> ELSE FrmStat[n]

\* Variant with a defect: the slice segment is counted from 0.
InitFromZero(k) == <<n, k - 1>>

(* InitStatisticsHEVC, and the counts of the k-th slice segment. *)
InitStatisticsHEVC(k) == <<n, k>>

(* The motion field of the segment before is freed. *)
DecodeSlice ==
  /\ pc = "slices" /\ slice < Pic(n).slices
  /\ slice' = slice + 1
  /\ FrmStat' = [FrmStat EXCEPT ![n] = InitStatisticsHEVC(slice + 1)]
  /\ misused' = misused \cup ({FrmStat[n]} \ (live \cup {NoStat}))
  /\ live' = (live \ {FrmStat[n]}) \cup {FrmStat'[n]}
  /\ UNCHANGED <<stream, n, waiting, seq_output, output_frame, pc, Started, FrameIdx, handed>>

\* Variant with a defect: whatever is output gets the latest statistics.
CopiesAny == output_frame # NoFrame

\* Variant with a defect: the statistics are not copied again.
CopiesNone == FALSE

(* s->frame->data[0] == s->output_frame->data[0]. *)
CopiesAgain == output_frame.picture = n /\ ~stream.offset

EndPacket ==
  /\ pc = "slices" /\ slice = Pic(n).slices
  /\ output_frame' = IF CopiesAgain THEN [output_frame EXCEPT !.stat = FrmStat[n]] ELSE output_frame
  /\ pc' = IF output_frame = NoFrame THEN "read" ELSE "output"
  /\ UNCHANGED <<stream, n, slice, FrmStat, waiting, seq_output, Started, FrameIdx,
                 live, misused, handed>>

(* An empty packet, behind the last one. *)
Flush ==
  /\ pc = "read" /\ n = Len(stream.pics) /\ waiting # {}
  /\ ff_hevc_output_frame(waiting, FrmStat, n, TRUE)
  /\ pc' = IF output_frame' = NoFrame THEN "read" ELSE "output"
  /\ UNCHANGED <<stream, n, slice, FrmStat, Started, FrameIdx, live, misused, handed>>

-----------------------------------------------------------------------------
(* GetVideoStatisticsHEVC, and GetFrameStatistics, which frees the motion  *)
(* field.  A picture that is not analysed leaves FrameStat cleared.        *)

Intra    == Pic(output_frame.picture).type = "I"
Analysed == Started \/ Intra

(* GroundTruthTI reads the motion field of inter pictures but the first. *)
ReadsField == Analysed /\ ~Intra /\ FrameIdx > 0

HandOut ==
  LET stat == IF Analysed THEN output_frame.stat ELSE NoStat IN
  /\ pc = "output"
  /\ IF ReadsField /\ stat = NoStat
     THEN pc' = "crashed" /\ UNCHANGED <<Started, FrameIdx, live, misused, handed, output_frame>>
     ELSE /\ pc' = "read"
          /\ Started' = Analysed /\ FrameIdx' = FrameIdx + 1
          /\ misused' = misused \cup ({stat} \ (live \cup {NoStat}))
          /\ live' = live \ {stat}
          /\ handed' = Append(handed, [picture |-> output_frame.picture, stat |-> stat,
                                       own |-> output_frame.own, analysed |-> Analysed])
          /\ output_frame' = NoFrame
  /\ UNCHANGED <<stream, n, slice, FrmStat, waiting, seq_output>>

Finished ==
  /\ pc = "crashed" \/ (pc = "read" /\ n = Len(stream.pics) /\ waiting = {})
  /\ UNCHANGED vars

Next == SkipPacket \/ hevc_frame_start \/ DecodeSlice \/ EndPacket \/ Flush \/ HandOut \/ Finished

Spec == Init /\ [][Next]_vars

-----------------------------------------------------------------------------
(* Properties.                                                             *)

Fields == UNION {{i} \X (1 .. Pic(i).slices) : i \in DOMAIN stream.pics}
Stats  == Fields \cup {NoStat}

(* Every variable stays in its type. *)
TypeOK ==
  /\ stream \in Streams
  /\ n \in 0 .. Len(stream.pics) /\ slice \in Nat
  /\ FrmStat \in [1 .. n -> Stats]
  /\ waiting \subseteq 1 .. n /\ seq_output \in 0 .. SequenceOf(n)
  /\ output_frame \in [picture : 0 .. n, stat : Stats, own : BOOLEAN]
  /\ pc \in {"read", "slices", "output", "crashed"}
  /\ Started \in BOOLEAN /\ FrameIdx \in Nat
  /\ live \subseteq Fields /\ misused \subseteq Fields
  /\ handed \in Seq([picture : 1 .. n, stat : Stats, own : BOOLEAN, analysed : BOOLEAN])

(* The statistics of every picture that is analysed count its last slice   *)
(* segment, whether the picture was output at once or later; they are      *)
(* empty for a picture output at once under a window with an offset.       *)
StatisticsOfPicture ==
  \A i \in DOMAIN handed :
    LET h == handed[i] IN
    h.analysed => h.stat = IF h.own /\ stream.offset THEN NoStat
                           ELSE <<h.picture, Pic(h.picture).slices>>

(* No motion field is freed twice; that of a picture that was handed out   *)
(* is freed, whichever of the copies that point to it comes to the client; *)
(* and only such an empty copy is read without one.                        *)
FieldsSafe ==
  /\ misused = {}
  /\ \A i \in DOMAIN handed : handed[i].stat \notin live
  /\ pc = "crashed" => stream.offset /\ output_frame.own

(* Pictures are handed out once, by sequence and POC, and all of them      *)
(* unless they are not to be shown, or were waiting for a picture that     *)
(* discards them.                                                          *)
Discards(i) == \E j \in i + 1 .. Len(stream.pics) : Pic(j).noPrior
OutputOrder ==
  /\ \A i, j \in DOMAIN handed :
       LET a == handed[i].picture b == handed[j].picture IN
       i < j => \/ SequenceOf(a) < SequenceOf(b)
                \/ SequenceOf(a) = SequenceOf(b) /\ Pic(a).poc < Pic(b).poc
  /\ n = Len(stream.pics) /\ waiting = {} /\ pc = "read" =>
       \A i \in DOMAIN stream.pics :
         \/ \E k \in DOMAIN handed : handed[k].picture = i
         \/ ~Pic(i).shown \/ Pic(i).skipped \/ Discards(i)

(* What the client relies on. *)
PicturesHandedOut == StatisticsOfPicture /\ FieldsSafe /\ OutputOrder
=============================================================================
