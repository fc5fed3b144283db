------------------------ MODULE PictureHistoryProofs -------------------------
(***************************************************************************)
(* Proofs about PictureHistory, for all videos, any number of sessions and *)
(* whatever order the decoder outputs its pictures in.                     *)
(***************************************************************************)
EXTENDS PictureHistory, FiniteSetTheorems, TLAPS

IInv == TypeOK /\ LinedUp /\ BordersKept /\ PreviousLuma /\ BuffersFit /\ MotionOfPicture

-----------------------------------------------------------------------------
(* The data.                                                               *)

LEMMA VideoShape ==
  ASSUME NEW v \in Videos \cup {NoVideo}
  PROVE  /\ v.size \in Nat \ {0} /\ v.step \in Nat \ {0} /\ v.dur \in BOOLEAN
         /\ v.pics \in Seq(PictureSet)
         /\ Len(v.pics) \in Nat
         /\ \A i \in 1 .. Len(v.pics) :
              /\ v.pics[i] \in PictureSet
              /\ v.pics[i].poc \in Int /\ v.pics[i].pts \in Nat /\ v.pics[i].border \in Nat
              /\ v.pics[i].moved \in BOOLEAN
<1>1. /\ NoVideo.size \in Nat \ {0} /\ NoVideo.step \in Nat \ {0} /\ NoVideo.dur \in BOOLEAN
      /\ NoVideo.pics \in Seq(PictureSet)
  BY DEF NoVideo
<1>2. /\ v.size \in Nat \ {0} /\ v.step \in Nat \ {0} /\ v.dur \in BOOLEAN
      /\ v.pics \in Seq(PictureSet)
  <2>1. CASE v = NoVideo
    BY <1>1, <2>1
  <2>2. CASE v \in Videos
    BY <2>2, VideosAssumption
  <2>3. QED
    BY <2>1, <2>2
<1>3. \A i \in 1 .. Len(v.pics) : v.pics[i] \in PictureSet
  BY <1>2
<1>4. \A p \in PictureSet : p.poc \in Int /\ p.pts \in Nat /\ p.border \in Nat /\ p.moved \in BOOLEAN
  BY DEF PictureSet
<1>5. QED
  BY <1>2, <1>3, <1>4

(* The POC distance is a natural number. *)
LEMMA AbsType == \A x \in Int : Abs(x) \in Nat
  BY DEF Abs

LEMMA QuotientType == ASSUME NEW a \in Nat, NEW b \in Nat \ {0} PROVE a \div b \in Nat
  OBVIOUS

LEMMA PocDistanceType ==
  ASSUME POC_Dif \in Nat, PrevPTS \in Nat, NEW p, p.pts \in Nat, NEW d \in Nat
  PROVE  PocDistance(p, d) \in Nat
<1>1. MinOf(POC_Dif, d) \in Nat
  BY DEF MinOf
<1>2. Abs(p.pts - PrevPTS) \in Nat
  BY AbsType
<1>3. MaxOf(1, Abs(p.pts - PrevPTS)) \in Nat \ {0}
  BY <1>2 DEF MaxOf
<1>4. d \div MaxOf(1, Abs(p.pts - PrevPTS)) \in Nat
  BY <1>3, QuotientType
<1>5. QED
  BY <1>1, <1>4 DEF PocDistance

LEMMA IdType ==
  ASSUME TypeOK, NEW i \in Nat
  PROVE  Id(i) \in Ids /\ None \in Ids /\ (i > 0 => Id(i) = <<session, i>> /\ Id(i) # None)
<1>1. session \in 0 .. MaxSessions /\ MaxSessions \in Nat
  BY SessionsAssumption DEF TypeOK
<1>2. QED
  BY <1>1 DEF Id, Ids, None

(* The pictures the decoder holds are finitely many. *)
LEMMA HeldFinite ==
  ASSUME TypeOK
  PROVE  IsFiniteSet(dpb) /\ Cardinality(dpb) \in Nat /\ dpb \subseteq Nat \ {0} /\ decoded \in Nat
<1>1. decoded \in Nat /\ dpb \subseteq 1 .. decoded
  BY VideoShape DEF TypeOK
<1>2. IsFiniteSet(1 .. decoded)
  BY <1>1, FS_Interval
<1>3. IsFiniteSet(dpb)
  BY <1>1, <1>2, FS_Subset
<1>4. Cardinality(dpb) \in Nat
  BY <1>3, FS_CardinalityType
<1>5. QED
  BY <1>1, <1>3, <1>4

(* Every picture numbered is one the decoder held no longer. *)
LEMMA OutputCounts ==
  ASSUME TypeOK, NEW i \in dpb
  PROVE  /\ PicCnt \in Nat
         /\ PicCnt + 1 + Cardinality(dpb \ {i}) = decoded
<1>1. IsFiniteSet(dpb) /\ Cardinality(dpb) \in Nat /\ decoded \in Nat
  BY HeldFinite
<1>2. Cardinality(dpb \ {i}) = Cardinality(dpb) - 1
  BY <1>1, FS_RemoveElement
<1>3. PicCnt + Cardinality(dpb) = decoded
  BY DEF TypeOK
<1>4. QED
  BY <1>1, <1>2, <1>3 DEF TypeOK

-----------------------------------------------------------------------------
(* The inductive step, one lemma per action.                               *)

LEMMA NoReportShape ==
  /\ NoReport.pic = None
  /\ NoReport \in [pic : Ids, tiPrev : Ids, motionOf : Ids, window : [0 .. 1 -> Ids],
                   POC_DIF : Nat, BlackBorder : Nat, qpBorder : Nat]
<1>1. None \in Ids
  BY SessionsAssumption DEF None, Ids
<1>2. QED
  BY <1>1 DEF NoReport, NoWindow

LEMMA InitIInv == Init => IInv
<1>1. ASSUME Init PROVE TypeOK
  <2>1. None \in Ids
    BY SessionsAssumption DEF None, Ids
  <2>2. session \in 0 .. MaxSessions /\ video \in Videos \cup {NoVideo}
    BY <1>1, SessionsAssumption DEF Init
  <2>3. Len(video.pics) = 0 /\ Cardinality(dpb) = 0
    BY <1>1, FS_EmptySet DEF Init, NoVideo
  <2>4. /\ probed \in 0 .. Len(video.pics) /\ decoded = 0
        /\ decoded \in 0 .. Len(video.pics) /\ dpb \subseteq 1 .. decoded /\ PicCnt + Cardinality(dpb) = decoded
    BY <1>1, <2>3 DEF Init
  <2>5. FrmStat \in Seq(FrmInfo) /\ Len(FrmStat) = decoded
        /\ analysed \in Seq([id : Ids, moves : BOOLEAN, size : Nat])
    BY <1>1 DEF Init
  <2>6. /\ DstData \in [0 .. 1 -> Nat] /\ luma \in [0 .. 1 -> Ids] /\ Curr \in 0 .. 1
        /\ PrevStat \in [0 .. 1 -> Ids]
    BY <1>1, <2>1 DEF Init, NoWindow
  <2>7. /\ pc \in {"probe", "read", "decoded", "crashed"} /\ Started \in BOOLEAN /\ PicCnt \in Nat
        /\ PrevPOC \in Int /\ PrevPTS \in Nat /\ POC_Dif \in Nat /\ CurrBlackBorder \in Nat
    BY <1>1, SMTT(30) DEF Init
  <2>8. report \in [pic : Ids, tiPrev : Ids, motionOf : Ids, window : [0 .. 1 -> Ids],
                    POC_DIF : Nat, BlackBorder : Nat, qpBorder : Nat]
    BY <1>1, NoReportShape DEF Init
  <2>9. QED
    BY <2>2, <2>4, <2>5, <2>6, <2>7, <2>8 DEF TypeOK
<1>2. ASSUME Init PROVE LinedUp
  BY <1>2 DEF Init, LinedUp
<1>3. ASSUME Init PROVE ~Reported
  BY <1>3, NoReportShape DEF Init, Reported
<1>4. ASSUME Init PROVE BordersKept
  <2>1. ~Reported /\ decoded = 0
    BY <1>3, <1>4 DEF Init
  <2>2. QED
    BY <2>1 DEF BordersKept
<1>5. ASSUME Init PROVE PreviousLuma /\ MotionOfPicture
  BY <1>3, <1>5 DEF PreviousLuma, MotionOfPicture, Inter
<1>6. ASSUME Init PROVE BuffersFit
  <2>1. pc = "read"
    BY <1>6 DEF Init
  <2>2. QED
    BY <2>1 DEF BuffersFit
<1>7. QED
  BY <1>1, <1>2, <1>4, <1>5, <1>6 DEF IInv

LEMMA OpenVideoIInv == IInv /\ OpenVideo => IInv'
<1> SUFFICES ASSUME IInv, OpenVideo PROVE IInv'
  OBVIOUS
<1> USE DEF IInv
<1>1. ~Reported'
  BY NoReportShape DEF OpenVideo, Reported, None
<1>2. TypeOK'
  <2>1. session' \in 0 .. MaxSessions
    BY SessionsAssumption DEF TypeOK, OpenVideo
  <2>2. video' \in Videos \cup {NoVideo}
    BY DEF OpenVideo
  <2>3. Len(video'.pics) \in Nat
    BY <2>2, VideoShape
  <2>4. /\ probed' \in 0 .. Len(video'.pics) /\ decoded' = 0 /\ pc' = "probe"
        /\ decoded' \in 0 .. Len(video'.pics) /\ dpb' \subseteq 1 .. decoded'
    BY <2>3 DEF OpenVideo
  <2>5. FrmStat' \in Seq(FrmInfo) /\ Len(FrmStat') = decoded'
    BY DEF OpenVideo
  <2>6. PicCnt' \in Nat /\ PicCnt' + Cardinality(dpb') = decoded'
    BY FS_EmptySet DEF OpenVideo
  <2>7. QED
    BY <2>1, <2>2, <2>4, <2>5, <2>6, NoReportShape DEF OpenVideo, TypeOK
<1>3. LinedUp'
  BY DEF OpenVideo, LinedUp
<1>4. BordersKept' /\ PreviousLuma' /\ MotionOfPicture'
  BY <1>1 DEF OpenVideo, BordersKept, PreviousLuma, MotionOfPicture, Inter
<1>5. BuffersFit'
  BY DEF OpenVideo, BuffersFit
<1>6. QED
  BY <1>2, <1>3, <1>4, <1>5

(* Nothing but pc changes, and the process does not stop. *)
LEMMA OnlyPc ==
  IInv /\ UNCHANGED <<decoderVars, outputVars>> /\ pc' \in {"read", "decoded"} => IInv'
<1> SUFFICES ASSUME IInv, UNCHANGED <<decoderVars, outputVars>>, pc' \in {"read", "decoded"} PROVE IInv'
  OBVIOUS
<1> USE DEF IInv, decoderVars, outputVars
<1>1. TypeOK' /\ LinedUp'
  BY DEF TypeOK, LinedUp
<1>2. BordersKept' /\ PreviousLuma' /\ MotionOfPicture'
  BY DEF BordersKept, LastIntra, Pic, Intra, PreviousLuma, MotionOfPicture, Inter, Reported
<1>3. BuffersFit'
  BY DEF BuffersFit
<1>4. QED
  BY <1>1, <1>2, <1>3

LEMMA StutterIInv == IInv /\ UNCHANGED vars => IInv'
<1> SUFFICES ASSUME IInv, UNCHANGED vars PROVE IInv'
  OBVIOUS
<1> USE DEF IInv, vars, decoderVars, outputVars
<1>1. TypeOK' /\ LinedUp'
  BY DEF TypeOK, LinedUp
<1>2. BordersKept' /\ PreviousLuma' /\ MotionOfPicture'
  BY DEF BordersKept, LastIntra, Pic, Intra, PreviousLuma, MotionOfPicture, Inter, Reported
<1>3. BuffersFit'
  BY DEF BuffersFit
<1>4. QED
  BY <1>1, <1>2, <1>3

(* What a decoded picture leaves keeps its type. *)
LEMMA StaticsType ==
  ASSUME TypeOK, NEW k \in 1 .. Len(video.pics), DecodeStatics(Pic(k))
  PROVE  PrevPOC' \in Int /\ PrevPTS' \in Nat /\ POC_Dif' \in Nat /\ CurrBlackBorder' \in Nat
<1> DEFINE p == Pic(k)
           d == Abs(p.poc - PrevPOC)
<1>1. p.poc \in Int /\ p.pts \in Nat /\ p.border \in Nat
  BY VideoShape DEF TypeOK, Pic
<1>2. /\ POC_Dif' = PocDistance(p, d) /\ PrevPOC' = p.poc /\ PrevPTS' = p.pts
      /\ CurrBlackBorder' = BorderAfter(p)
  BY DEF DecodeStatics
<1>3. PrevPOC \in Int /\ PrevPTS \in Nat /\ POC_Dif \in Nat /\ CurrBlackBorder \in Nat
  BY DEF TypeOK
<1>4. BorderAfter(p) \in Nat
  BY <1>1, <1>3 DEF BorderAfter
<1> HIDE DEF p
<1>5. d \in Nat
  <2>1. p.poc - PrevPOC \in Int
    BY <1>1, <1>3
  <2>2. QED
    BY <2>1, AbsType
<1> HIDE DEF d
<1>6. PocDistance(p, d) \in Nat
  BY <1>1, <1>3, <1>5, PocDistanceType
<1>7. QED
  BY <1>1, <1>2, <1>4, <1>6

(* Opening a video moves the decoding side's variables, and nothing that   *)
(* IInv relates.                                                           *)
LEMMA ProbePictureIInv == IInv /\ ProbePicture => IInv'
<1> SUFFICES ASSUME IInv, ProbePicture PROVE IInv'
  OBVIOUS
<1>1. UNCHANGED <<session, video, decoded, FrmStat, dpb, pc, outputVars>> /\ pc = "probe"
  BY DEF ProbePicture
<1>2. decoded = 0
  BY <1>1 DEF IInv, TypeOK
<1>3. probed + 1 \in 1 .. Len(video.pics) /\ probed' \in 0 .. Len(video.pics)
  <2>1. Len(video.pics) \in Nat /\ probed \in 0 .. Len(video.pics)
    BY VideoShape DEF IInv, TypeOK
  <2>2. QED
    BY <2>1 DEF ProbePicture
<1>4. PrevPOC' \in Int /\ PrevPTS' \in Nat /\ POC_Dif' \in Nat /\ CurrBlackBorder' \in Nat
  BY <1>3, StaticsType DEF IInv, ProbePicture
<1>5. TypeOK'
  BY <1>1, <1>3, <1>4 DEF IInv, TypeOK, outputVars
<1>6. LinedUp'
  BY <1>1 DEF IInv, LinedUp, outputVars
<1>7. BordersKept'
  BY <1>1, <1>2 DEF IInv, BordersKept, LastIntra, Pic, Intra, Reported, outputVars
<1>8. PreviousLuma' /\ MotionOfPicture'
  BY <1>1 DEF IInv, PreviousLuma, MotionOfPicture, Inter, Reported, Intra, Pic, outputVars
<1>9. BuffersFit'
  BY <1>1 DEF BuffersFit
<1>10. QED
  BY <1>5, <1>6, <1>7, <1>8, <1>9 DEF IInv

(* The borders of the pictures decoded so far are those of their last      *)
(* intra pictures; the new picture's is its own or the one before it has.  *)
LEMMA DecodeBorders == IInv /\ DecodePicture => BordersKept'
<1> SUFFICES ASSUME IInv, DecodePicture PROVE BordersKept'
  OBVIOUS
<1> DEFINE k == decoded + 1
           p == Pic(k)
           s == [POC_DIF |-> POC_Dif', qpBorder |-> CurrBlackBorder, BlackBorder |-> CurrBlackBorder']
<1>1. /\ decoded \in Nat /\ k \in Nat /\ decoded' = k /\ video' = video /\ report' = report
      /\ FrmStat \in Seq(FrmInfo) /\ Len(FrmStat) = decoded
  BY HeldFinite DEF IInv, DecodePicture, TypeOK, outputVars
<1>2. FrmStat' = Append(FrmStat, s) /\ CurrBlackBorder' = BorderAfter(p)
  BY DEF DecodePicture, DecodeStatics
<1>3. FrmStat'[k] = s /\ \A i \in 1 .. decoded : FrmStat'[i] = FrmStat[i]
  <2>1. FrmStat' = Append(FrmStat, s)
    BY <1>2
  <2> HIDE DEF s
  <2>2. QED
    BY <1>1, <2>1
<1>3a. FrmStat'[k].BlackBorder = CurrBlackBorder' /\ FrmStat'[k].qpBorder = CurrBlackBorder
  BY <1>3
<1>3b. CurrBlackBorder' = IF Intra(k) THEN Pic(k).border ELSE CurrBlackBorder
  BY <1>2 DEF BorderAfter, Intra
<1>4. \A i : Pic(i)' = Pic(i) /\ (Intra(i)' <=> Intra(i))
  BY <1>1 DEF Pic, Intra
<1>5. ASSUME NEW i \in 1 .. decoded
      PROVE  /\ (\E j \in 1 .. i : Intra(j)) =>
                  \E j \in 1 .. i : LastIntra(j, i) /\ FrmStat'[i].BlackBorder = Pic(j).border
             /\ ~Intra(i) => FrmStat'[i].qpBorder = FrmStat'[i].BlackBorder
  BY <1>3, <1>5 DEF IInv, BordersKept
<1>6. ASSUME \E j \in 1 .. k : Intra(j)
      PROVE  \E j \in 1 .. k : LastIntra(j, k) /\ FrmStat'[k].BlackBorder = Pic(j).border
  <2>1. CASE Intra(k)
    <3>1. LastIntra(k, k)
      BY <1>1, <2>1 DEF LastIntra
    <3>2. FrmStat'[k].BlackBorder = Pic(k).border
      BY <1>3a, <1>3b, <2>1
    <3>3. QED
      BY <1>1, <3>1, <3>2
  <2>2. CASE ~Intra(k)
    <3>1. PICK j0 \in 1 .. decoded : Intra(j0)
      BY <1>1, <1>6, <2>2
    <3>2. decoded > 0 /\ decoded \in 1 .. decoded
      BY <1>1, <3>1
    <3>3. PICK j \in 1 .. decoded : LastIntra(j, decoded) /\ FrmStat[decoded].BlackBorder = Pic(j).border
      BY <3>1, <3>2 DEF IInv, BordersKept
    <3>4. j \in 1 .. k /\ LastIntra(j, k)
      BY <1>1, <2>2, <3>3 DEF LastIntra
    <3>5. FrmStat'[k].BlackBorder = CurrBlackBorder
      BY <1>3a, <1>3b, <2>2
    <3>6. QED
      BY <3>2, <3>3, <3>4, <3>5 DEF IInv, BordersKept
  <2>3. QED
    BY <2>1, <2>2
<1>7. ~Intra(k) => FrmStat'[k].qpBorder = FrmStat'[k].BlackBorder
  BY <1>3a, <1>3b
<1>8. CurrBlackBorder' = FrmStat'[k].BlackBorder
  BY <1>3a
<1>9. Reported' =>
        /\ report'.pic[2] \in 1 .. k
        /\ report'.BlackBorder = FrmStat'[report'.pic[2]].BlackBorder
        /\ report'.qpBorder = FrmStat'[report'.pic[2]].qpBorder
  BY <1>1, <1>3 DEF IInv, BordersKept, Reported
<1>10. \A i \in 1 .. k :
         /\ (\E j \in 1 .. i : Intra(j)) =>
              \E j \in 1 .. i : LastIntra(j, i) /\ FrmStat'[i].BlackBorder = Pic(j).border
         /\ ~Intra(i) => FrmStat'[i].qpBorder = FrmStat'[i].BlackBorder
  <2>1. \A i \in 1 .. k : i \in 1 .. decoded \/ i = k
    BY <1>1
  <2> HIDE DEF k
  <2>2. QED
    BY <1>5, <1>6, <1>7, <2>1
<1>11. QED
  <2>1. \A i, j : LastIntra(j, i)' <=> LastIntra(j, i)
    BY <1>4 DEF LastIntra
  <2> HIDE DEF k
  <2>2. QED
    BY <1>1, <1>4, <1>8, <1>9, <1>10, <2>1 DEF BordersKept

LEMMA DecodeType == IInv /\ DecodePicture => TypeOK'
<1> SUFFICES ASSUME IInv, DecodePicture PROVE TypeOK'
  OBVIOUS
<1> DEFINE k == decoded + 1
           s == [POC_DIF |-> POC_Dif', qpBorder |-> CurrBlackBorder, BlackBorder |-> CurrBlackBorder']
<1> USE DEF IInv
<1>1. decoded \in Nat /\ dpb \subseteq 1 .. decoded /\ IsFiniteSet(dpb) /\ Cardinality(dpb) \in Nat
  BY HeldFinite DEF TypeOK
<1>2. k \in 1 .. Len(video.pics) /\ Len(video.pics) \in Nat
  BY <1>1, VideoShape, SMTT(30) DEF DecodePicture, TypeOK
<1>5. PrevPOC' \in Int /\ PrevPTS' \in Nat /\ POC_Dif' \in Nat /\ CurrBlackBorder' \in Nat
  BY <1>2, StaticsType DEF DecodePicture
<1>7. s \in FrmInfo
  <2>1. CurrBlackBorder \in Nat
    BY DEF TypeOK
  <2>2. QED
    BY <1>5, <2>1 DEF FrmInfo
<1>8. FrmStat' \in Seq(FrmInfo) /\ Len(FrmStat') = k
  <2>1. FrmStat' = Append(FrmStat, s)
    BY DEF DecodePicture
  <2>2. FrmStat \in Seq(FrmInfo) /\ Len(FrmStat) = decoded
    BY DEF TypeOK
  <2> HIDE DEF s
  <2>3. QED
    BY <1>7, <2>1, <2>2
<1>9. decoded' = k /\ dpb' = dpb \cup {k} /\ k \notin dpb
  BY <1>1 DEF DecodePicture
<1>10. PicCnt' \in Nat /\ PicCnt' + Cardinality(dpb') = decoded'
  <2>1. Cardinality(dpb') = Cardinality(dpb) + 1
    BY <1>1, <1>9, FS_AddElement
  <2>2. PicCnt' = PicCnt /\ PicCnt \in Nat /\ PicCnt + Cardinality(dpb) = decoded
    BY DEF DecodePicture, outputVars, TypeOK
  <2>3. QED
    BY <1>1, <1>9, <2>1, <2>2
<1>11. decoded' \in 0 .. Len(video'.pics) /\ dpb' \subseteq 1 .. decoded'
  BY <1>1, <1>2, <1>9 DEF DecodePicture
<1>12. pc' = "decoded" /\ session' = session /\ video' = video
  BY DEF DecodePicture
<1>13. QED
  BY <1>5, <1>8, <1>9, <1>10, <1>11, <1>12 DEF TypeOK, DecodePicture, outputVars

LEMMA DecodePictureIInv == IInv /\ DecodePicture => IInv'
<1> SUFFICES ASSUME IInv, DecodePicture PROVE IInv'
  OBVIOUS
<1>1. TypeOK' /\ BordersKept'
  BY DecodeType, DecodeBorders
<1>2. LinedUp'
  BY DEF IInv, LinedUp, DecodePicture, outputVars
<1>3. PreviousLuma' /\ MotionOfPicture'
  BY DEF IInv, PreviousLuma, MotionOfPicture, Inter, Reported, Intra, Pic, DecodePicture, outputVars
<1>4. BuffersFit'
  BY DEF BuffersFit, DecodePicture
<1>5. QED
  BY <1>1, <1>2, <1>3, <1>4 DEF IInv

(* A picture that is output leaves the decoder. *)
LEMMA Leaves ==
  ASSUME IInv, NEW i \in dpb, dpb' = dpb \ {i}, PicCnt' = NextNumber, decoded' = decoded
  PROVE  /\ PicCnt' \in Nat /\ PicCnt' > 0 /\ PicCnt' + Cardinality(dpb') = decoded'
         /\ i \in 1 .. decoded /\ i \in Nat \ {0} /\ dpb' \subseteq 1 .. decoded'
<1>1. PicCnt \in Nat /\ PicCnt + 1 + Cardinality(dpb \ {i}) = decoded
  BY OutputCounts DEF IInv
<1>2. dpb \subseteq 1 .. decoded /\ decoded \in Nat
  BY HeldFinite DEF IInv, TypeOK
<1>3. QED
  BY <1>1, <1>2 DEF NextNumber

LEMMA SkipPictureIInv == IInv /\ SkipPicture => IInv'
<1> SUFFICES ASSUME IInv, SkipPicture PROVE IInv'
  OBVIOUS
<1>1. PICK i \in dpb : ~Started /\ dpb' = dpb \ {i}
  BY DEF SkipPicture
<1>2. ~Reported'
  BY NoReportShape DEF SkipPicture, Reported, None
<1>3. PicCnt' = NextNumber /\ decoded' = decoded
  BY DEF SkipPicture
<1>4. PicCnt' \in Nat /\ PicCnt' + Cardinality(dpb') = decoded' /\ dpb' \subseteq 1 .. decoded'
  BY <1>1, <1>3, Leaves
<1>5. TypeOK'
  BY <1>4, NoReportShape DEF IInv, TypeOK, SkipPicture
<1>6. LinedUp'
  BY <1>1 DEF IInv, LinedUp, SkipPicture
<1>7. PreviousLuma' /\ MotionOfPicture'
  BY <1>2 DEF PreviousLuma, MotionOfPicture, Inter
<1>8. BordersKept'
  BY <1>2 DEF IInv, BordersKept, LastIntra, Intra, Pic, SkipPicture
<1>9. BuffersFit'
  BY DEF BuffersFit, SkipPicture
<1>10. QED
  BY <1>5, <1>6, <1>7, <1>8, <1>9 DEF IInv

(* The report of a picture, and what the buffers and the history become.   *)
LEMMA AnalyseStep ==
  ASSUME IInv, AnalysePicture
  PROVE  \E i \in dpb :
    /\ i \in 1 .. decoded /\ i \in Nat \ {0}
    /\ Started \/ Intra(i)
    /\ ~Misfit(PicCnt + 1)
    /\ dpb' \subseteq 1 .. decoded /\ PicCnt' \in Nat /\ PicCnt' > 0
    /\ PicCnt' = PicCnt + 1 /\ PicCnt' + Cardinality(dpb') = decoded
    /\ luma' = [luma EXCEPT ![Curr] = <<session, i>>]
    /\ PrevStat' = PrevStat \/ PrevStat' = Shifted(<<session, i>>)
    /\ \E moves \in BOOLEAN :
         analysed' = Append(analysed, [id |-> <<session, i>>, moves |-> moves, size |-> video.size])
    /\ report'.pic = <<session, i>>
    /\ ~Intra(i) => /\ report'.tiPrev = luma[1 - Curr]
                    /\ report'.motionOf = <<session, i>>
    /\ report'.BlackBorder = FrmStat[i].BlackBorder
    /\ report'.qpBorder = FrmStat[i].qpBorder
    /\ report' \in [pic : Ids, tiPrev : Ids, motionOf : Ids, window : [0 .. 1 -> Ids],
                    POC_DIF : Nat, BlackBorder : Nat, qpBorder : Nat]
<1>1. PICK i \in dpb :
        /\ Started \/ Intra(i)
        /\ ~Misfit(NextNumber)
        /\ dpb' = dpb \ {i}
        /\ luma' = [luma EXCEPT ![Curr] = Id(i)]
        /\ PrevStat' = IF Moves(i) THEN Shifted(Id(i)) ELSE PrevStat
        /\ analysed' = Append(analysed, [id |-> Id(i), moves |-> Moves(i), size |-> video.size])
        /\ report' = [pic         |-> Id(i),
                      tiPrev      |-> IF ReadsPrevious(NextNumber) /\ ~Intra(i) THEN ComparedWith ELSE None,
                      motionOf    |-> Id(MotionOf(i, NextNumber)),
                      window      |-> IF Moves(i) THEN PrevStat ELSE NoWindow,
                      POC_DIF     |-> FrmStat[i].POC_DIF,
                      BlackBorder |-> FrmStat[i].BlackBorder,
                      qpBorder    |-> FrmStat[i].qpBorder]
  BY DEF AnalysePicture
<1>2. PicCnt' = NextNumber /\ decoded' = decoded
  BY DEF AnalysePicture
<1>3. /\ PicCnt' \in Nat /\ PicCnt' > 0 /\ PicCnt' + Cardinality(dpb') = decoded
      /\ i \in 1 .. decoded /\ i \in Nat \ {0} /\ dpb' \subseteq 1 .. decoded
  BY <1>1, <1>2, Leaves
<1>4. Id(i) = <<session, i>> /\ Id(i) \in Ids /\ None \in Ids
  BY <1>3, IdType DEF IInv
<1>5. decoded \in Nat /\ PicCnt \in Nat
  BY HeldFinite DEF IInv, TypeOK
<1>6. Moves(i) \in BOOLEAN
  <2>1. i \in 1 .. Len(video.pics)
    BY <1>3, <1>5, VideoShape DEF IInv, TypeOK
  <2>2. video.pics[i].moved \in BOOLEAN
    BY <2>1, VideoShape DEF IInv, TypeOK
  <2>3. QED
    BY <2>2 DEF Moves, Pic
<1>7. ~Intra(i) => ReadsPrevious(NextNumber)
  <2>1. Started => PicCnt > 0
    BY DEF IInv, LinedUp
  <2>2. QED
    BY <1>1, <1>5, <2>1 DEF ReadsPrevious, NextNumber
<1>8. Id(MotionOf(i, NextNumber)) \in Ids /\ (~Intra(i) => MotionOf(i, NextNumber) = i)
  <2>1. MotionOf(i, NextNumber) \in Nat
    BY <1>3, <1>5 DEF MotionOf
  <2>2. Id(MotionOf(i, NextNumber)) \in Ids
    BY <2>1, IdType DEF IInv
  <2>3. ~Intra(i) => MotionOf(i, NextNumber) = i
    BY <1>7 DEF MotionOf, ReadsPrevious
  <2>4. QED
    BY <2>2, <2>3
<1>9. luma[1 - Curr] \in Ids /\ PrevStat \in [0 .. 1 -> Ids] /\ NoWindow \in [0 .. 1 -> Ids]
  <2>1. luma \in [0 .. 1 -> Ids] /\ Curr \in 0 .. 1 /\ PrevStat \in [0 .. 1 -> Ids]
    BY DEF IInv, TypeOK
  <2>2. QED
    BY <1>4, <2>1 DEF NoWindow
<1>10. FrmStat[i] \in FrmInfo
  BY <1>3, <1>5 DEF IInv, TypeOK
<1>11. report' \in [pic : Ids, tiPrev : Ids, motionOf : Ids, window : [0 .. 1 -> Ids],
                    POC_DIF : Nat, BlackBorder : Nat, qpBorder : Nat]
  <2>1. FrmStat[i].POC_DIF \in Nat /\ FrmStat[i].BlackBorder \in Nat /\ FrmStat[i].qpBorder \in Nat
    BY <1>10 DEF FrmInfo
  <2>2. (IF ReadsPrevious(NextNumber) /\ ~Intra(i) THEN ComparedWith ELSE None) \in Ids
    BY <1>4, <1>9 DEF ComparedWith
  <2>3. (IF Moves(i) THEN PrevStat ELSE NoWindow) \in [0 .. 1 -> Ids]
    BY <1>9
  <2>4. QED
    BY <1>1, <1>4, <1>8, <2>1, <2>2, <2>3
<1>12. /\ report'.pic = <<session, i>>
       /\ report'.BlackBorder = FrmStat[i].BlackBorder /\ report'.qpBorder = FrmStat[i].qpBorder
       /\ ~Intra(i) => report'.tiPrev = luma[1 - Curr] /\ report'.motionOf = <<session, i>>
  BY <1>1, <1>4, <1>7, <1>8 DEF ComparedWith
<1>13. PicCnt' = PicCnt + 1 /\ ~Misfit(PicCnt + 1)
  BY <1>1, <1>2 DEF NextNumber
<1>14. PrevStat' = PrevStat \/ PrevStat' = Shifted(<<session, i>>)
  BY <1>1, <1>4
<1>15. luma' = [luma EXCEPT ![Curr] = <<session, i>>]
  BY <1>1, <1>4
<1>16. \E moves \in BOOLEAN :
         analysed' = Append(analysed, [id |-> <<session, i>>, moves |-> moves, size |-> video.size])
  BY <1>1, <1>4, <1>6
<1>17. QED
  BY <1>1, <1>3, <1>11, <1>12, <1>13, <1>14, <1>15, <1>16

LEMMA AppendLast ==
  ASSUME NEW S, NEW q \in Seq(S), NEW e \in S
  PROVE  /\ Append(q, e) \in Seq(S) /\ Len(q) \in Nat
         /\ Len(Append(q, e)) = Len(q) + 1 /\ Append(q, e) # <<>>
         /\ DOMAIN q = 1 .. Len(q) /\ DOMAIN Append(q, e) = 1 .. Len(q) + 1
         /\ Append(q, e)[Len(q) + 1] = e
         /\ \A k \in 1 .. Len(q) : Append(q, e)[k] = q[k]
         /\ q # <<>> => Len(q) > 0
<1>1. /\ Append(q, e) \in Seq(S) /\ Len(q) \in Nat /\ Len(Append(q, e)) = Len(q) + 1
      /\ Append(q, e)[Len(q) + 1] = e /\ \A k \in 1 .. Len(q) : Append(q, e)[k] = q[k]
  OBVIOUS
<1>2. DOMAIN q = 1 .. Len(q) /\ DOMAIN Append(q, e) = 1 .. Len(q) + 1
  BY <1>1
<1>3. Append(q, e) # <<>>
  BY <1>1
<1>4. q # <<>> => Len(q) > 0
  OBVIOUS
<1>5. QED
  BY <1>1, <1>2, <1>3, <1>4

LEMMA AnalysePictureIInv == IInv /\ AnalysePicture => IInv'
<1> SUFFICES ASSUME IInv, AnalysePicture PROVE IInv'
  OBVIOUS
<1> DEFINE Entry == [id : Ids, moves : BOOLEAN, size : Nat]
           n == Len(analysed)
<1>1. PICK i \in dpb :
        /\ i \in 1 .. decoded /\ i \in Nat \ {0}
        /\ Started \/ Intra(i)
        /\ ~Misfit(PicCnt + 1)
        /\ dpb' \subseteq 1 .. decoded /\ PicCnt' \in Nat /\ PicCnt' > 0
        /\ PicCnt' = PicCnt + 1 /\ PicCnt' + Cardinality(dpb') = decoded
        /\ luma' = [luma EXCEPT ![Curr] = <<session, i>>]
        /\ PrevStat' = PrevStat \/ PrevStat' = Shifted(<<session, i>>)
        /\ \E moves \in BOOLEAN :
             analysed' = Append(analysed, [id |-> <<session, i>>, moves |-> moves, size |-> video.size])
        /\ report'.pic = <<session, i>>
        /\ ~Intra(i) => /\ report'.tiPrev = luma[1 - Curr]
                        /\ report'.motionOf = <<session, i>>
        /\ report'.BlackBorder = FrmStat[i].BlackBorder
        /\ report'.qpBorder = FrmStat[i].qpBorder
        /\ report' \in [pic : Ids, tiPrev : Ids, motionOf : Ids, window : [0 .. 1 -> Ids],
                        POC_DIF : Nat, BlackBorder : Nat, qpBorder : Nat]
  BY AnalyseStep
<1>2. /\ DstData' = Allocated /\ Curr' = 1 - Curr /\ Started' = TRUE /\ pc' = "read"
      /\ UNCHANGED <<session, video, probed, decoded, FrmStat, PrevPOC, PrevPTS, POC_Dif, CurrBlackBorder>>
  BY DEF AnalysePicture
<1>3. <<session, i>> \in Ids
  BY <1>1, IdType DEF IInv
<1>4. video.size \in Nat \ {0}
  BY VideoShape DEF IInv, TypeOK
<1>5. /\ DstData \in [0 .. 1 -> Nat] /\ luma \in [0 .. 1 -> Ids] /\ Curr \in 0 .. 1
      /\ PrevStat \in [0 .. 1 -> Ids] /\ analysed \in Seq(Entry)
  BY DEF IInv, TypeOK
<1>6. PICK e \in Entry :
        analysed' = Append(analysed, e) /\ e.id = <<session, i>> /\ e.size = video.size
  <2>1. PICK moves \in BOOLEAN :
          analysed' = Append(analysed, [id |-> <<session, i>>, moves |-> moves, size |-> video.size])
    BY <1>1
  <2>2. [id |-> <<session, i>>, moves |-> moves, size |-> video.size] \in Entry
    BY <1>3, <1>4
  <2>3. QED
    BY <2>1, <2>2
<1>7. /\ analysed' \in Seq(Entry) /\ n \in Nat /\ Len(analysed') = n + 1 /\ analysed' # <<>>
      /\ DOMAIN analysed = 1 .. n /\ DOMAIN analysed' = 1 .. n + 1
      /\ analysed'[n + 1] = e /\ \A k \in 1 .. n : analysed'[k] = analysed[k]
      /\ analysed # <<>> => n > 0
  <2> HIDE DEF Entry
  <2>1. QED
    BY <1>5, <1>6, AppendLast
<1>8. /\ Allocated \in [0 .. 1 -> Nat] /\ Allocated[Curr] = video.size
      /\ Allocated[1 - Curr] = DstData[1 - Curr]
  <2>1. Allocated[Curr] = video.size
    BY <1>1 DEF Misfit
  <2>2. Allocated \in [0 .. 1 -> Nat] /\ Allocated[1 - Curr] = DstData[1 - Curr]
    BY <1>4, <1>5 DEF Allocated
  <2>3. QED
    BY <2>1, <2>2
<1>9. luma' \in [0 .. 1 -> Ids] /\ luma'[Curr] = <<session, i>>
  BY <1>1, <1>3, <1>5
<1>10. TypeOK'
  <2>1. PrevStat' \in [0 .. 1 -> Ids]
    <3>1. Shifted(<<session, i>>) \in [0 .. 1 -> Ids]
      BY <1>3, <1>5 DEF Shifted
    <3>2. QED
      BY <1>1, <1>5, <3>1
  <2>2. Curr' \in 0 .. 1 /\ DstData' \in [0 .. 1 -> Nat] /\ pc' \in {"read", "decoded", "crashed"}
    BY <1>2, <1>5, <1>8
  <2>3. dpb' \subseteq 1 .. decoded' /\ PicCnt' \in Nat /\ PicCnt' + Cardinality(dpb') = decoded'
    BY <1>1, <1>2
  <2>4. report' \in [pic : Ids, tiPrev : Ids, motionOf : Ids, window : [0 .. 1 -> Ids],
                     POC_DIF : Nat, BlackBorder : Nat, qpBorder : Nat]
    BY <1>1
  <2>5. QED
    BY <1>2, <1>7, <1>9, <2>1, <2>2, <2>3, <2>4 DEF IInv, TypeOK
<1>11. LinedUp'
  <2>1. ASSUME NEW b \in 0 .. 1
        PROVE  DstData'[b] = 0 \/ \E k \in DOMAIN analysed' : DstData'[b] = analysed'[k].size
    <3>1. CASE b = Curr
      <4>1. DstData'[b] = video.size
        BY <1>2, <1>8, <3>1
      <4>2. n + 1 \in DOMAIN analysed' /\ analysed'[n + 1].size = video.size
        BY <1>6, <1>7
      <4>3. QED
        BY <4>1, <4>2
    <3>2. CASE b = 1 - Curr
      <4>1. DstData[b] = 0 \/ \E k \in DOMAIN analysed : DstData[b] = analysed[k].size
        BY DEF IInv, LinedUp
      <4>2. QED
        BY <1>2, <1>7, <1>8, <3>2, <4>1
    <3>3. QED
      BY <1>5, <3>1, <3>2
  <2>2. 1 - Curr' = Curr
    BY <1>2, <1>5
  <2>3. DstData'[1 - Curr'] # 0 /\ luma'[1 - Curr'] = analysed'[Len(analysed')].id
    BY <1>2, <1>4, <1>6, <1>7, <1>8, <1>9, <2>2
  <2>4. analysed'[Len(analysed')].id[1] = session'
    BY <1>2, <1>6, <1>7
  <2>5. QED
    BY <1>1, <1>7, <2>1, <2>3, <2>4 DEF LinedUp
<1>12. report'.pic[1] = session /\ report'.pic[2] = i /\ (Intra(i)' <=> Intra(i))
  BY <1>1, <1>2 DEF Intra, Pic
<1>13. PreviousLuma'
  <2>1. SUFFICES ASSUME ~Intra(i)
                 PROVE  /\ Len(analysed') > 1
                        /\ report'.tiPrev = analysed'[Len(analysed') - 1].id
                        /\ report'.tiPrev[1] = session'
    BY <1>12 DEF PreviousLuma, Inter, Intra, Pic
  <2>2. analysed # <<>> /\ analysed[n].id[1] = session
    BY <1>1, <2>1 DEF IInv, LinedUp
  <2>3. luma[1 - Curr] = analysed[n].id
    BY <2>2 DEF IInv, LinedUp
  <2>4. Len(analysed') > 1 /\ Len(analysed') - 1 = n /\ analysed'[n] = analysed[n]
    BY <1>7, <2>2
  <2>5. QED
    BY <1>1, <1>2, <2>1, <2>2, <2>3, <2>4
<1>14. MotionOfPicture'
  BY <1>1, <1>12 DEF MotionOfPicture, Inter, Intra, Pic
<1>15. BuffersFit'
  BY <1>2 DEF BuffersFit
<1>16. BordersKept'
  <2>1. /\ \A j : Pic(j)' = Pic(j) /\ (Intra(j)' <=> Intra(j))
        /\ \A j, k : LastIntra(j, k)' <=> LastIntra(j, k)
    BY <1>2 DEF LastIntra, Intra, Pic
  <2>2. /\ report'.pic[2] \in 1 .. decoded
        /\ report'.BlackBorder = FrmStat[report'.pic[2]].BlackBorder
        /\ report'.qpBorder = FrmStat[report'.pic[2]].qpBorder
    BY <1>1, <1>12
  <2>3. BordersKept
    BY DEF IInv
  <2>4. QED
    BY <1>2, <2>1, <2>2, <2>3 DEF BordersKept
<1>17. QED
  BY <1>10, <1>11, <1>13, <1>14, <1>15, <1>16 DEF IInv

(* The process stops over a buffer only where BuffersFit says. *)
LEMMA MisusesBufferIInv == IInv /\ MisusesBuffer => IInv'
<1> SUFFICES ASSUME IInv, MisusesBuffer PROVE IInv'
  OBVIOUS
<1>1. UNCHANGED <<decoderVars, outputVars>> /\ pc' = "crashed" /\ Misfit(PicCnt + 1)
  BY DEF MisusesBuffer, NextNumber
<1>2. Curr \in 0 .. 1 /\ DstData \in [0 .. 1 -> Nat] /\ PicCnt \in Nat
  BY DEF IInv, TypeOK
<1>3. (analysed = <<>> /\ PicCnt > 0) \/ \E k \in DOMAIN analysed : analysed[k].size # video.size
  <2>1. CASE Allocated[Curr] # video.size
    <3>1. DstData[Curr] # 0 /\ DstData[Curr] # video.size
      BY <1>2, <2>1 DEF Allocated
    <3>2. \E k \in DOMAIN analysed : DstData[Curr] = analysed[k].size
      BY <1>2, <3>1 DEF IInv, LinedUp
    <3>3. QED
      BY <3>1, <3>2
  <2>2. CASE ReadsPrevious(PicCnt + 1) /\ DstData[1 - Curr] # video.size
    <3>1. PicCnt > 0
      BY <1>2, <2>2 DEF ReadsPrevious
    <3>2. CASE analysed # <<>>
      <4>1. DstData[1 - Curr] # 0
        BY <3>2 DEF IInv, LinedUp
      <4>2. \E k \in DOMAIN analysed : DstData[1 - Curr] = analysed[k].size
        BY <1>2, <4>1 DEF IInv, LinedUp
      <4>3. QED
        BY <2>2, <4>2
    <3>3. QED
      BY <3>1, <3>2
  <2>3. QED
    BY <1>1, <2>1, <2>2 DEF Misfit
<1>4. BuffersFit'
  BY <1>1, <1>3 DEF BuffersFit, decoderVars, outputVars
<1>5. TypeOK' /\ LinedUp'
  BY <1>1 DEF IInv, TypeOK, LinedUp, decoderVars, outputVars
<1>6. BordersKept' /\ PreviousLuma' /\ MotionOfPicture'
  BY <1>1 DEF IInv, BordersKept, LastIntra, Pic, Intra, PreviousLuma, MotionOfPicture, Inter,
              Reported, decoderVars, outputVars
<1>7. QED
  BY <1>4, <1>5, <1>6 DEF IInv

-----------------------------------------------------------------------------
(* The window of the temporal filter and the scale of motion.              *)

Kept == WindowKept /\ FilterWindow /\ ScaleKept

(* Two multiples of a distance that are neither equal nor neighbours are   *)
(* further apart.                                                          *)
LEMMA MultiplesApart ==
  ASSUME NEW s \in Nat \ {0}, NEW a \in Int, NEW b \in Int, a % s = 0, b % s = 0,
         Abs(a - b) # 0, Abs(a - b) # s
  PROVE  Abs(a - b) > s
<1>1. \A x \in Int : x % s = 0 => \E k \in Int : x = s * k
  <2> SUFFICES ASSUME NEW x \in Int, x % s = 0 PROVE \E k \in Int : x = s * k
    OBVIOUS
  <2>1. x \div s \in Int /\ x = s * (x \div s) + (x % s)
    OBVIOUS
  <2>2. QED
    BY <2>1
<1>2. PICK k \in Int, l \in Int : a = s * k /\ b = s * l
  BY <1>1
<1>3. a - b = s * (k - l)
  BY <1>2
<1>4. k - l # 0 /\ k - l # 1 /\ k - l # -1
  BY <1>3 DEF Abs
<1>5. k - l >= 2 \/ k - l <= -2
  BY <1>4
<1>6. CASE k - l >= 2
  <2>1. s * (k - l) >= s * 2
    BY <1>6
  <2>2. QED
    BY <1>3, <2>1 DEF Abs
<1>7. CASE k - l <= -2
  <2>1. s * (k - l) <= s * (-2)
    BY <1>7
  <2>2. QED
    BY <1>3, <2>1 DEF Abs
<1>8. QED
  BY <1>5, <1>6, <1>7

LEMMA ExactQuotient ==
  ASSUME NEW s \in Nat, NEW n \in Nat \ {0}
  PROVE  (s * n) \div n = s
  OBVIOUS
(* What Kept is about does not depend on pc.                               *)
LEMMA SameKept == Kept /\ UNCHANGED <<decoderVars, outputVars>> => Kept'
<1> SUFFICES ASSUME Kept, UNCHANGED <<decoderVars, outputVars>> PROVE Kept'
  OBVIOUS
<1> USE DEF Kept, decoderVars, outputVars
<1>1. WindowKept'
  BY DEF WindowKept, LastMoving, IdAt
<1>2. FilterWindow'
  BY DEF FilterWindow, LastMoving, IdAt, Inter, Reported, Intra, Pic
<1>3. ScaleKept'
  BY DEF ScaleKept, ScaleOf, NeighboursMet, ConstantRate, Reported, Intra, Pic
<1>4. QED
  BY <1>1, <1>2, <1>3

LEMMA InitKept == Init => Kept
<1> SUFFICES ASSUME Init PROVE Kept
  OBVIOUS
<1>1. ~Reported
  BY NoReportShape DEF Init, Reported
<1>2. WindowKept
  <2>1. Len(analysed) = 0 /\ DOMAIN analysed = {}
    BY DEF Init
  <2>2. LastMoving(0, Len(analysed) + 1) /\ LastMoving(0, 0)
    BY <2>1 DEF LastMoving
  <2>3. PrevStat[0] = IdAt(0) /\ PrevStat[1] = IdAt(0)
    BY DEF Init, NoWindow, IdAt
  <2>4. QED
    BY <2>1, <2>2, <2>3 DEF WindowKept
<1>3. FilterWindow
  BY <1>1 DEF FilterWindow, Inter
<1>4. ScaleKept
  BY <1>1 DEF ScaleKept, Init
<1>5. QED
  BY <1>2, <1>3, <1>4 DEF Kept

LEMMA OpenVideoKept == IInv /\ Kept /\ OpenVideo => Kept'
<1> SUFFICES ASSUME IInv, Kept, OpenVideo PROVE Kept'
  OBVIOUS
<1>1. ~Reported'
  BY NoReportShape DEF OpenVideo, Reported, None
<1>2. WindowKept'
  BY DEF Kept, WindowKept, LastMoving, IdAt, OpenVideo
<1>3. FilterWindow'
  BY <1>1 DEF FilterWindow, Inter
<1>4. session \in Nat /\ session' = session + 1 /\ decoded' = 0 /\ video' \in Videos
      /\ UNCHANGED <<PrevPOC, POC_Dif>>
  BY SessionsAssumption DEF IInv, TypeOK, OpenVideo
<1>5. ASSUME session' = 1, ConstantRate(video)'
      PROVE  POC_Dif' >= video'.step /\ PrevPOC' % video'.step = 0
  <2>1. POC_Dif = 8 /\ PrevPOC = 0
    BY <1>4, <1>5 DEF Kept, ScaleKept
  <2>2. video'.step \in Nat \ {0} /\ video'.step < 8
    BY <1>4, <1>5, VideoShape DEF ConstantRate
  <2>3. QED
    BY <1>4, <2>1, <2>2
<1>6. ScaleKept'
  BY <1>1, <1>4, <1>5 DEF ScaleKept
<1>7. QED
  BY <1>2, <1>3, <1>6 DEF Kept

(* In the first video of the process, if it has no durations, POC_Dif is   *)
(* only lowered, to the distance of neighbours at most: POCs are multiples *)
(* of it, also those met while the video is probed.                        *)
LEMMA LoweredToStep ==
  ASSUME IInv, ConstantRate(video), ~video.dur, POC_Dif >= video.step, PrevPOC % video.step = 0,
         NEW k \in 1 .. Len(video.pics), DecodeStatics(Pic(k))
  PROVE  /\ POC_Dif' >= video.step /\ PrevPOC' % video.step = 0
         /\ POC_Dif = video.step => POC_Dif' = video.step
         /\ Abs(Pic(k).poc - PrevPOC) = video.step => POC_Dif' = video.step
<1> DEFINE p == Pic(k)
           d == Abs(p.poc - PrevPOC)
<1>1. /\ video.step \in Nat \ {0} /\ p.poc \in Int
      /\ PrevPOC \in Int /\ POC_Dif \in Nat
  BY VideoShape DEF IInv, TypeOK, Pic
<1>2. p.poc % video.step = 0
  <2>1. k \in DOMAIN video.pics
    BY VideoShape DEF IInv, TypeOK
  <2>2. QED
    BY <2>1 DEF ConstantRate, Pic
<1>3. PrevPOC' = p.poc /\ POC_Dif' = IF d = 0 THEN POC_Dif ELSE MinOf(POC_Dif, d)
  BY DEF DecodeStatics, PocDistance
<1> HIDE DEF p
<1>4. d = 0 \/ d = video.step \/ d > video.step
  BY <1>1, <1>2, MultiplesApart
<1>5. d \in Nat
  <2>1. p.poc - PrevPOC \in Int
    BY <1>1
  <2>2. QED
    BY <2>1, AbsType
<1>6. PrevPOC' % video.step = 0
  BY <1>2, <1>3
<1> HIDE DEF d
<1>7. /\ POC_Dif' >= video.step
      /\ POC_Dif = video.step => POC_Dif' = video.step
      /\ d = video.step => POC_Dif' = video.step
  BY <1>1, <1>3, <1>4, <1>5 DEF MinOf
<1>8. QED
  BY <1>6, <1>7 DEF d, p

LEMMA ProbePictureKept == IInv /\ Kept /\ ProbePicture => Kept'
<1> SUFFICES ASSUME IInv, Kept, ProbePicture PROVE Kept'
  OBVIOUS
<1>1. UNCHANGED <<session, video, decoded, FrmStat, dpb, pc, outputVars>> /\ decoded = 0
  BY DEF ProbePicture, IInv, TypeOK
<1>2. probed + 1 \in 1 .. Len(video.pics)
  <2>1. Len(video.pics) \in Nat /\ probed \in 0 .. Len(video.pics)
    BY VideoShape DEF IInv, TypeOK
  <2>2. QED
    BY <2>1 DEF ProbePicture
<1>3. WindowKept'
  BY <1>1 DEF Kept, WindowKept, LastMoving, IdAt, outputVars
<1>4. FilterWindow'
  BY <1>1 DEF Kept, FilterWindow, LastMoving, IdAt, Inter, Reported, Intra, Pic, outputVars
<1>5. ASSUME session = 1, ~video.dur, ConstantRate(video)
      PROVE  POC_Dif' >= video.step /\ PrevPOC' % video.step = 0
  BY <1>2, <1>5, LoweredToStep DEF Kept, ScaleKept, ProbePicture
<1>6. session # 0
  <2>1. ASSUME session = 0 PROVE Len(video.pics) = 0
    BY <2>1 DEF Kept, ScaleKept, NoVideo
  <2>2. QED
    BY <1>2, <2>1
<1>7. ~Reported'
  BY <1>1 DEF IInv, BordersKept, Reported, outputVars
<1>8. ConstantRate(video)' <=> ConstantRate(video)
  BY <1>1 DEF ConstantRate
<1>9. ScaleKept'
  BY <1>1, <1>5, <1>6, <1>7, <1>8 DEF ScaleKept
<1>10. QED
  BY <1>3, <1>4, <1>9 DEF Kept

(* The POC distance a picture is given, from the one before it.            *)
LEMMA DecodeScale ==
  ASSUME IInv, Kept, DecodePicture, ConstantRate(video)
  PROVE  LET k == decoded + 1 IN
         /\ video.dur /\ k > 1 /\ ~Intra(k) /\ Pic(k).pts > 0 => POC_Dif' = video.step
         /\ ~video.dur /\ session = 1 =>
              /\ POC_Dif' >= video.step /\ PrevPOC' % video.step = 0
              /\ NeighboursMet(k) => POC_Dif' = video.step
<1> DEFINE k == decoded + 1
           p == Pic(k)
           d == Abs(p.poc - PrevPOC)
<1>1. /\ decoded \in Nat /\ k \in 1 .. Len(video.pics) /\ Len(video.pics) \in Nat
      /\ DOMAIN video.pics = 1 .. Len(video.pics)
  <2>1. decoded \in Nat
    BY HeldFinite DEF IInv
  <2>2. Len(video.pics) \in Nat /\ video.pics \in Seq(PictureSet)
    BY VideoShape DEF IInv, TypeOK
  <2>3. QED
    BY <2>1, <2>2 DEF DecodePicture
<1>2. /\ video.step \in Nat \ {0} /\ video.dur \in BOOLEAN
      /\ \A i \in 1 .. k : Pic(i).poc \in Int /\ Pic(i).pts \in Nat /\ Pic(i).poc % video.step = 0
  <2>1. /\ video.step \in Nat \ {0} /\ video.dur \in BOOLEAN
        /\ \A i \in 1 .. Len(video.pics) : video.pics[i].poc \in Int /\ video.pics[i].pts \in Nat
    BY VideoShape DEF IInv, TypeOK
  <2>2. \A i \in DOMAIN video.pics : video.pics[i].poc % video.step = 0
    BY DEF ConstantRate
  <2>3. \A i \in 1 .. k : i \in 1 .. Len(video.pics) /\ i \in DOMAIN video.pics
    BY <1>1
  <2> HIDE DEF k
  <2>4. QED
    BY <2>1, <2>2, <2>3 DEF Pic
<1>3. p.poc \in Int /\ p.pts \in Nat /\ p.poc % video.step = 0
  BY <1>1, <1>2
<1>4. PrevPOC \in Int /\ PrevPTS \in Nat /\ POC_Dif \in Nat /\ d \in Nat
  <2>1. PrevPOC \in Int /\ PrevPTS \in Nat /\ POC_Dif \in Nat
    BY DEF IInv, TypeOK
  <2>2. p.poc - PrevPOC \in Int
    BY <1>3, <2>1
  <2> HIDE DEF p
  <2>3. QED
    BY <2>1, <2>2, AbsType
<1>5. DecodeStatics(p) /\ POC_Dif' = PocDistance(p, d)
  BY DEF DecodePicture, DecodeStatics
<1>6. decoded > 0 => PrevPOC = Pic(k - 1).poc /\ PrevPTS = Pic(k - 1).pts
  BY <1>1 DEF Kept, ScaleKept
<1>7. ASSUME video.dur, k > 1, ~Intra(k), p.pts > 0 PROVE POC_Dif' = video.step
  <2> DEFINE n == Abs(p.pts - PrevPTS)
  <2>1. k - 1 \in 1 .. k /\ k - 1 \in DOMAIN video.pics /\ PrevPOC = Pic(k - 1).poc /\ PrevPTS = Pic(k - 1).pts
    BY <1>1, <1>6, <1>7
  <2>2. d = video.step * n
    <3>1. \A i \in DOMAIN video.pics : i > 1 /\ video.pics[i].type # "I" =>
            Abs(video.pics[i].poc - video.pics[i - 1].poc)
              = video.step * Abs(video.pics[i].pts - video.pics[i - 1].pts)
      BY DEF ConstantRate
    <3>2. QED
      BY <1>1, <1>7, <2>1, <3>1 DEF Pic, Intra
  <2>3. p.pts # PrevPTS
    <3>1. video \in Videos
      BY <1>1 DEF IInv, TypeOK, NoVideo
    <3>2. QED
      BY <1>1, <2>1, <3>1, VideosAssumption DEF Pic
  <2>4. n \in Nat \ {0}
    BY <1>3, <1>4, <2>3 DEF Abs
  <2> HIDE DEF n, p, d
  <2>5. MaxOf(1, n) = n
    BY <2>4 DEF MaxOf
  <2>6. d # 0
    BY <1>2, <2>2, <2>4
  <2>7. d \div n = video.step
    BY <1>2, <2>2, <2>4, ExactQuotient
  <2>8. PocDistance(p, d) = d \div n
    BY <1>7, <1>3, <2>5, <2>6 DEF PocDistance, n
  <2>9. QED
    BY <1>5, <2>7, <2>8
<1>8. ASSUME ~video.dur, session = 1
      PROVE  /\ POC_Dif' >= video.step /\ PrevPOC' % video.step = 0
             /\ NeighboursMet(k) => POC_Dif' = video.step
  <2>1. POC_Dif >= video.step /\ PrevPOC % video.step = 0
    BY <1>8 DEF Kept, ScaleKept
  <2> HIDE DEF p, d
  <2>2. /\ POC_Dif' >= video.step /\ PrevPOC' % video.step = 0
        /\ POC_Dif = video.step => POC_Dif' = video.step
        /\ d = video.step => POC_Dif' = video.step
    BY <1>1, <1>5, <1>8, <2>1, LoweredToStep DEF p, d
  <2>3. ASSUME NeighboursMet(k) PROVE POC_Dif = video.step \/ d = video.step
    <3>1. PICK j \in 2 .. k : Abs(Pic(j).poc - Pic(j - 1).poc) = video.step
      BY <2>3 DEF NeighboursMet
    <3>2. CASE j = k
      <4>1. decoded > 0
        BY <1>1, <3>1, <3>2
      <4>2. QED
        BY <1>6, <3>1, <3>2, <4>1 DEF p, d
    <3>3. CASE j # k
      <4>1. j \in 2 .. decoded /\ decoded > 0 /\ decoded \in 1 .. decoded
        BY <1>1, <3>1, <3>3
      <4>2. NeighboursMet(decoded)
        BY <3>1, <4>1 DEF NeighboursMet
      <4>3. ScaleOf(decoded) /\ POC_Dif = FrmStat[decoded].POC_DIF
        BY <4>1 DEF Kept, ScaleKept
      <4>4. QED
        BY <1>8, <4>2, <4>3 DEF ScaleOf
    <3>4. QED
      BY <3>2, <3>3
  <2>4. QED
    BY <2>2, <2>3
<1>9. QED
  BY <1>7, <1>8

LEMMA DecodeKept == IInv /\ Kept /\ DecodePicture => Kept'
<1> SUFFICES ASSUME IInv, Kept, DecodePicture PROVE Kept'
  OBVIOUS
<1> DEFINE s == [POC_DIF |-> POC_Dif', qpBorder |-> CurrBlackBorder, BlackBorder |-> CurrBlackBorder']
<1>0. decoded \in Nat
  BY HeldFinite DEF IInv
<1> PICK k \in Nat : k = decoded + 1
  BY <1>0
<1>1. /\ decoded \in Nat /\ k = decoded + 1 /\ decoded' = k
      /\ video' = video /\ session' = session /\ UNCHANGED outputVars
  BY <1>0 DEF DecodePicture
<1>2. FrmStat'[k].POC_DIF = POC_Dif' /\ \A i \in 1 .. decoded : FrmStat'[i] = FrmStat[i]
  <2>1. FrmStat' = Append(FrmStat, s)
    BY DEF DecodePicture
  <2>2. FrmStat \in Seq(FrmInfo) /\ Len(FrmStat) = decoded
    BY DEF IInv, TypeOK
  <2>3. s.POC_DIF = POC_Dif'
    OBVIOUS
  <2> HIDE DEF s
  <2>4. QED
    BY <1>1, <2>1, <2>2, <2>3
<1>3. WindowKept'
  BY <1>1 DEF Kept, WindowKept, LastMoving, IdAt, outputVars
<1>4. FilterWindow'
  BY <1>1 DEF Kept, FilterWindow, LastMoving, IdAt, Inter, Reported, Intra, Pic, outputVars
<1>5. ScaleKept'
  <2>1. ASSUME ConstantRate(video)', NEW i \in 1 .. k PROVE ScaleOf(i)'
    <3>1. ConstantRate(video)
      BY <1>1, <2>1
    <3>2. (Intra(i)' <=> Intra(i)) /\ Pic(i)' = Pic(i) /\ (NeighboursMet(i)' <=> NeighboursMet(i))
      BY <1>1 DEF Intra, Pic, NeighboursMet
    <3>3. CASE i \in 1 .. decoded
      <4>1. ScaleOf(i) /\ FrmStat'[i] = FrmStat[i]
        BY <1>2, <3>1, <3>3 DEF Kept, ScaleKept
      <4>2. QED
        BY <1>1, <3>2, <4>1 DEF ScaleOf
    <3>4. CASE i = k
      <4>1. FrmStat'[i].POC_DIF = POC_Dif'
        BY <1>2, <3>4
      <4>2. /\ video.dur /\ i > 1 /\ ~Intra(i) /\ Pic(i).pts > 0 => POC_Dif' = video.step
            /\ ~video.dur /\ session = 1 =>
                 POC_Dif' >= video.step /\ (NeighboursMet(i) => POC_Dif' = video.step)
        BY <1>1, <3>1, <3>4, DecodeScale
      <4>3. QED
        BY <1>1, <3>2, <4>1, <4>2 DEF ScaleOf
    <3>5. QED
      BY <1>1, <3>3, <3>4
  <2>2. POC_Dif' = FrmStat'[k].POC_DIF /\ PrevPOC' = Pic(k)'.poc /\ PrevPTS' = Pic(k)'.pts
    BY <1>1, <1>2 DEF DecodePicture, DecodeStatics, Pic
  <2>3. session' # 0
    <3>1. ASSUME session = 0 PROVE Len(video.pics) = 0
      BY <3>1 DEF Kept, ScaleKept, NoVideo
    <3>2. QED
      BY <1>1, <3>1 DEF DecodePicture
  <2>4. Reported' => report'.POC_DIF = FrmStat'[report'.pic[2]].POC_DIF
    BY <1>1, <1>2 DEF IInv, BordersKept, Kept, ScaleKept, Reported, outputVars
  <2>5. ASSUME session' = 1, ~video'.dur, ConstantRate(video)'
        PROVE  POC_Dif' >= video'.step /\ PrevPOC' % video'.step = 0
    <3>1. ConstantRate(video)
      BY <1>1, <2>5
    <3>2. QED
      BY <1>1, <2>5, <3>1, DecodeScale
  <2>6. QED
    BY <1>1, <2>1, <2>2, <2>3, <2>4, <2>5 DEF ScaleKept
<1>6. QED
  BY <1>3, <1>4, <1>5 DEF Kept

LEMMA SkipPictureKept == Kept /\ SkipPicture => Kept'
<1> SUFFICES ASSUME Kept, SkipPicture PROVE Kept'
  OBVIOUS
<1>1. ~Reported'
  BY NoReportShape DEF SkipPicture, Reported, None
<1>2. WindowKept'
  BY DEF Kept, WindowKept, LastMoving, IdAt, SkipPicture
<1>3. FilterWindow'
  BY <1>1 DEF FilterWindow, Inter
<1>4. ScaleKept'
  BY <1>1 DEF Kept, ScaleKept, ScaleOf, NeighboursMet, ConstantRate, Intra, Pic, SkipPicture
<1>5. QED
  BY <1>2, <1>3, <1>4 DEF Kept

(* A moving picture takes the window and becomes its newest entry.         *)
LEMMA AnalyseKept == IInv /\ Kept /\ AnalysePicture => Kept'
<1> SUFFICES ASSUME IInv, Kept, AnalysePicture PROVE Kept'
  OBVIOUS
<1> DEFINE Entry == [id : Ids, moves : BOOLEAN, size : Nat]
<1>0. Len(analysed) \in Nat
  BY DEF IInv, TypeOK
<1> PICK n \in Nat : n = Len(analysed)
  BY <1>0
<1>1. PICK i \in dpb :
        /\ PrevStat' = IF Moves(i) THEN Shifted(Id(i)) ELSE PrevStat
        /\ analysed' = Append(analysed, [id |-> Id(i), moves |-> Moves(i), size |-> video.size])
        /\ report'.pic = Id(i)
        /\ report'.window = IF Moves(i) THEN PrevStat ELSE NoWindow
        /\ report'.POC_DIF = FrmStat[i].POC_DIF
  BY DEF AnalysePicture
<1>2. UNCHANGED <<session, video, decoded, FrmStat, PrevPOC, PrevPTS, POC_Dif, CurrBlackBorder>>
  BY DEF AnalysePicture
<1>3. i \in 1 .. decoded /\ i \in Nat \ {0} /\ decoded \in Nat
  <2>1. dpb \subseteq Nat \ {0} /\ decoded \in Nat /\ dpb \subseteq 1 .. decoded
    BY HeldFinite DEF IInv, TypeOK
  <2>2. QED
    BY <2>1
<1>4. Id(i) = <<session, i>> /\ Id(i) \in Ids
  BY <1>3, IdType DEF IInv
<1>5. Moves(i) \in BOOLEAN /\ video.size \in Nat
  <2>1. i \in 1 .. Len(video.pics)
    BY <1>3, VideoShape, SMTT(30) DEF IInv, TypeOK
  <2>2. video.pics[i].moved \in BOOLEAN /\ video.size \in Nat
    BY <2>1, VideoShape DEF IInv, TypeOK
  <2>3. QED
    BY <2>2 DEF Moves, Pic
<1>6. PICK e \in Entry : analysed' = Append(analysed, e) /\ e.id = Id(i) /\ e.moves = Moves(i)
  <2>1. [id |-> Id(i), moves |-> Moves(i), size |-> video.size] \in Entry
    BY <1>4, <1>5
  <2>2. QED
    BY <1>1, <2>1
<1>7. /\ n \in Nat /\ Len(analysed') = n + 1
      /\ DOMAIN analysed = 1 .. n /\ DOMAIN analysed' = 1 .. n + 1
      /\ analysed'[n + 1] = e /\ \A k \in 1 .. n : analysed'[k] = analysed[k]
  <2>1. analysed \in Seq(Entry)
    BY DEF IInv, TypeOK
  <2> HIDE DEF Entry
  <2>2. QED
    BY <1>6, <2>1, AppendLast
<1>8. PICK k \in 0 .. n, j \in 0 .. n :
        /\ LastMoving(k, n + 1) /\ LastMoving(j, k)
        /\ PrevStat[0] = IdAt(k) /\ PrevStat[1] = IdAt(j)
  BY DEF Kept, WindowKept
<1>9. \A l, m \in 0 .. n + 1 : LastMoving(l, m) => LastMoving(l, m)'
  <2> SUFFICES ASSUME NEW l \in 0 .. n + 1, NEW m \in 0 .. n + 1, LastMoving(l, m)
               PROVE  LastMoving(l, m)'
    OBVIOUS
  <2>1. l > 0 => l \in DOMAIN analysed' /\ l < m /\ analysed'[l].moves
    BY <1>7 DEF LastMoving
  <2>2. \A q \in DOMAIN analysed' : q < m /\ analysed'[q].moves => q <= l
    BY <1>7 DEF LastMoving
  <2>3. QED
    BY <2>1, <2>2 DEF LastMoving
<1>10. IdAt(k)' = IdAt(k) /\ IdAt(j)' = IdAt(j)
  <2>1. \A l \in 0 .. n : IdAt(l)' = IdAt(l)
    BY <1>7 DEF IdAt
  <2>2. QED
    BY <2>1
<1>11. LastMoving(k, n + 1)' /\ LastMoving(j, k)'
  BY <1>7, <1>8, <1>9
<1>12. WindowKept'
  <2>1. CASE Moves(i)
    <3>1. PrevStat'[0] = Id(i) /\ PrevStat'[1] = PrevStat[0]
      BY <1>1, <2>1 DEF Shifted
    <3>2. IdAt(n + 1)' = Id(i)
      BY <1>6, <1>7 DEF IdAt
    <3>3. LastMoving(n + 1, n + 2)'
      <4>1. e.moves
        BY <1>6, <2>1
      <4>2. n + 1 \in DOMAIN analysed' /\ analysed'[n + 1].moves
        BY <1>7, <4>1
      <4>3. \A q \in DOMAIN analysed' : q <= n + 1
        BY <1>7
      <4>4. QED
        BY <4>2, <4>3 DEF LastMoving
    <3>4. n + 1 \in 0 .. Len(analysed)' /\ k \in 0 .. Len(analysed)' /\ Len(analysed)' + 1 = n + 2
      BY <1>7
    <3>5. QED
      BY <1>8, <1>10, <1>11, <3>1, <3>2, <3>3, <3>4 DEF WindowKept
  <2>2. CASE ~Moves(i)
    <3>1. PrevStat' = PrevStat
      BY <1>1, <2>2
    <3>2. LastMoving(k, n + 2)'
      <4>1. k > 0 => k \in DOMAIN analysed' /\ k < n + 2 /\ analysed'[k].moves
        BY <1>7, <1>11 DEF LastMoving
      <4>2. \A q \in DOMAIN analysed' : q < n + 2 /\ analysed'[q].moves => q <= k
        <5> TAKE q \in DOMAIN analysed'
        <5>1. CASE q = n + 1
          BY <1>6, <1>7, <2>2, <5>1
        <5>2. CASE q # n + 1
          <6>1. q < n + 1
            BY <1>7, <5>2
          <6>2. QED
            BY <1>11, <6>1 DEF LastMoving
        <5>3. QED
          BY <5>1, <5>2
      <4>3. QED
        BY <4>1, <4>2 DEF LastMoving
    <3>3. k \in 0 .. Len(analysed)' /\ j \in 0 .. Len(analysed)' /\ Len(analysed)' + 1 = n + 2
      BY <1>7
    <3>4. QED
      BY <1>8, <1>10, <1>11, <3>1, <3>2, <3>3 DEF WindowKept
  <2>3. QED
    BY <2>1, <2>2
<1>13. FilterWindow'
  <2> SUFFICES ASSUME Inter', Pic(report.pic[2])'.moved
               PROVE  \E a, b \in 0 .. Len(analysed)' :
                        /\ LastMoving(a, Len(analysed))' /\ LastMoving(b, a)'
                        /\ report'.window[0] = IdAt(a)' /\ report'.window[1] = IdAt(b)'
    BY DEF FilterWindow
  <2>1. report'.pic[2] = i
    BY <1>1, <1>4
  <2>2. Moves(i)
    BY <1>2, <2>1 DEF Moves, Inter, Intra, Pic
  <2>3. report'.window = PrevStat
    BY <1>1, <2>2
  <2>4. k \in 0 .. Len(analysed)' /\ j \in 0 .. Len(analysed)' /\ Len(analysed)' = n + 1
    BY <1>7
  <2>5. QED
    BY <1>8, <1>10, <1>11, <2>3, <2>4
<1>14. ScaleKept'
  <2>1. report'.pic[2] = i
    BY <1>1, <1>4
  <2>2. report'.POC_DIF = FrmStat'[report'.pic[2]].POC_DIF
    BY <1>1, <1>2, <2>1
  <2>3. QED
    BY <1>2, <2>2 DEF Kept, ScaleKept, ScaleOf, NeighboursMet, ConstantRate, Intra, Pic
<1>15. QED
  BY <1>12, <1>13, <1>14 DEF Kept

-----------------------------------------------------------------------------
(* The theorems.                                                           *)

(* The strengthening is an invariant. *)
THEOREM HistoryInvariance == Spec => []IInv
<1>1. IInv /\ [Next]_vars => IInv'
  <2> SUFFICES ASSUME IInv, [Next]_vars PROVE IInv'
    OBVIOUS
  <2>1. CASE OpenVideo
    BY <2>1, OpenVideoIInv
  <2>2. CASE DecodePicture
    BY <2>2, DecodePictureIInv
  <2>3. CASE NoPicture \/ EndProbe
    BY <2>3, OnlyPc DEF NoPicture, EndProbe
  <2>4. CASE SkipPicture
    BY <2>4, SkipPictureIInv
  <2>5. CASE AnalysePicture
    BY <2>5, AnalysePictureIInv
  <2>6. CASE MisusesBuffer
    BY <2>6, MisusesBufferIInv
  <2>7. CASE Finished \/ UNCHANGED vars
    BY <2>7, StutterIInv DEF Finished
  <2>8. CASE ProbePicture
    BY <2>8, ProbePictureIInv
  <2>9. QED
    BY <2>1, <2>2, <2>3, <2>4, <2>5, <2>6, <2>7, <2>8 DEF Next
<1>2. QED
  BY InitIInv, <1>1, PTL DEF Spec

(* Every variable keeps its type, and every picture decoded in a session   *)
(* is numbered or still held by the decoder.                               *)
THEOREM HistoryTypes == Spec => []TypeOK
<1>1. IInv => TypeOK
  BY DEF IInv
<1>2. QED
  BY HistoryInvariance, <1>1, PTL

(* TI_910 of an inter picture (GroundTruth_P910) compares it with the      *)
(* picture analysed just before it, which is one of the same video.        *)
THEOREM LumaOfPrevious == Spec => []PreviousLuma
<1>1. IInv => PreviousLuma
  BY DEF IInv
<1>2. QED
  BY HistoryInvariance, <1>1, PTL

(* GroundTruth_P910 misuses its buffers only if the first picture that is  *)
(* analysed is not number one, or if the size changes between videos.      *)
THEOREM BuffersMisusedOnlyThen == Spec => []BuffersFit
<1>1. IInv => BuffersFit
  BY DEF IInv
<1>2. QED
  BY HistoryInvariance, <1>1, PTL

(* TI_Mot of an inter picture is measured on that picture's motion field.  *)
THEOREM MotionIsOwn == Spec => []MotionOfPicture
<1>1. IInv => MotionOfPicture
  BY DEF IInv
<1>2. QED
  BY HistoryInvariance, <1>1, PTL

(* A picture is handed out with the border of the last intra picture       *)
(* decoded before it.                                                      *)
THEOREM BorderIsLastIntra == Spec => []BorderOfLastIntra
<1>1. IInv => BorderOfLastIntra
  <2> SUFFICES ASSUME IInv, Reported,
                      {j \in 1 .. report.pic[2] : Intra(j)} # {}
               PROVE  LET i     == report.pic[2]
                          intra == {j \in 1 .. i : Intra(j)}
                          last  == CHOOSE j \in intra : \A k \in intra : k <= j
                      IN /\ report.BlackBorder = Pic(last).border
                         /\ ~Intra(i) => report.qpBorder = report.BlackBorder
    BY DEF BorderOfLastIntra
  <2> DEFINE i == report.pic[2]
             intra == {j \in 1 .. i : Intra(j)}
             last == CHOOSE j \in intra : \A k \in intra : k <= j
  <2>1. /\ i \in 1 .. decoded /\ decoded \in Nat
        /\ report.BlackBorder = FrmStat[i].BlackBorder /\ report.qpBorder = FrmStat[i].qpBorder
    BY HeldFinite DEF IInv, BordersKept
  <2>2. PICK j \in 1 .. i : LastIntra(j, i) /\ FrmStat[i].BlackBorder = Pic(j).border
    BY <2>1 DEF IInv, BordersKept
  <2>3. j \in intra /\ \A k \in intra : k <= j
    BY <2>2 DEF LastIntra
  <2>4. last \in intra /\ \A k \in intra : k <= last
    BY <2>3
  <2>5. last = j
    <3> HIDE DEF last
    <3>1. last \in Int /\ j \in Int /\ last <= j /\ j <= last
      BY <2>1, <2>3, <2>4
    <3>2. QED
      BY <3>1
  <2>6. ~Intra(i) => report.qpBorder = report.BlackBorder
    BY <2>1 DEF IInv, BordersKept
  <2>7. QED
    BY <2>1, <2>2, <2>5, <2>6
<1>2. QED
  BY HistoryInvariance, <1>1, PTL

(* The second strengthening is an invariant, too.                          *)
THEOREM KeptInvariance == Spec => []Kept
<1>1. IInv /\ Kept /\ [Next]_vars => Kept'
  <2> SUFFICES ASSUME IInv, Kept, [Next]_vars PROVE Kept'
    OBVIOUS
  <2>1. CASE OpenVideo
    BY <2>1, OpenVideoKept
  <2>2. CASE DecodePicture
    BY <2>2, DecodeKept
  <2>3. CASE NoPicture \/ EndProbe \/ MisusesBuffer \/ Finished \/ UNCHANGED vars
    BY <2>3, SameKept DEF NoPicture, EndProbe, MisusesBuffer, Finished, vars
  <2>4. CASE SkipPicture
    BY <2>4, SkipPictureKept
  <2>5. CASE AnalysePicture
    BY <2>5, AnalyseKept
  <2>6. CASE ProbePicture
    BY <2>6, ProbePictureKept
  <2>7. QED
    BY <2>1, <2>2, <2>3, <2>4, <2>5, <2>6 DEF Next
<1>2. QED
  BY InitKept, HistoryInvariance, <1>1, PTL DEF Spec

(* The temporal complexity (FinishStatistics) is filtered over the picture *)
(* and the two moving pictures output before it.                           *)
THEOREM WindowIsLastMoving == Spec => []FilterWindow
<1>1. Kept => FilterWindow
  BY DEF Kept
<1>2. QED
  BY KeptInvariance, <1>1, PTL

(* In a video of constant frame rate, motion is scaled by the POC distance *)
(* of neighbouring pictures: always with durations; without them, in the   *)
(* first video of the process, from the picture on by which two neighbours *)
(* were met, and never by less, however much of the video the opening of   *)
(* it has decoded.                                                         *)
THEOREM MotionScaledByNeighbours == Spec => []MotionScale
<1>1. IInv /\ Kept => MotionScale
  <2> SUFFICES ASSUME IInv, Kept, Inter, ConstantRate(video)
               PROVE  LET i == report.pic[2] IN
                      /\ video.dur /\ i > 1 /\ Pic(i).pts > 0 => report.POC_DIF = video.step
                      /\ ~video.dur /\ session = 1 =>
                           /\ report.POC_DIF >= video.step
                           /\ NeighboursMet(i) => report.POC_DIF = video.step
    BY DEF MotionScale
  <2> DEFINE i == report.pic[2]
  <2>1. Reported /\ ~Intra(i)
    BY DEF Inter
  <2>2. i \in 1 .. decoded /\ report.POC_DIF = FrmStat[i].POC_DIF
    BY <2>1 DEF IInv, BordersKept, Kept, ScaleKept
  <2>3. ScaleOf(i)
    BY <2>2 DEF Kept, ScaleKept
  <2>4. QED
    BY <2>1, <2>2, <2>3 DEF ScaleOf
<1>2. QED
  BY HistoryInvariance, KeptInvariance, <1>1, PTL
=============================================================================
