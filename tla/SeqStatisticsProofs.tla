------------------------- MODULE SeqStatisticsProofs --------------------------
(***************************************************************************)
(* Proofs about SeqStatistics, for every number of rows, every stream and  *)
(* every picture that a decoder may output.                                *)
(***************************************************************************)
EXTENDS SeqStatistics, OperatorProofs

TableRows == -1 .. LastRow
Intra     == "PredFrm_Intra"
Frame     == [type : FrameTypes, numbered : BOOLEAN, no : Nat, val : [Fields -> Nat]]

(* The frame that was summed last, 0 if none was. *)
LastSummed == IF pc = "got" THEN Len(handed) - 1 ELSE Len(handed)

(* The number of a frame's picture, or of the last picture before it. *)
NoOf(i) == IF i = 0 THEN 0 ELSE handed[i].no

Openers(i) == {j \in 1 .. i : handed[j].type = 1 \/ handed[j].no = 0}

(* What GetFrameStatistics finds in FrameStat is the last frame handed     *)
(* out; afterwards the statistics are zero again.                          *)
Handover ==
  /\ PicCnt = NoOf(Len(handed))
  /\ pc = "got" => /\ handed # <<>>
                   /\ FrameStat.FrameType = handed[Len(handed)].type
                   /\ FrameStat.val = handed[Len(handed)].val
  /\ pc # "got" => FrameStat = ZeroFrame
  /\ CurrGOB = GOB_Cnt

(* Intra frames are numbered, and numbers count the numbered pictures. *)
Numbering ==
  \A i \in DOMAIN handed :
    /\ handed[i].type = 1 => handed[i].numbered
    /\ handed[i].no = NoOf(i - 1) + (IF handed[i].numbered THEN 1 ELSE 0)

(* GOB_Cnt is the group of the last frame that was summed. *)
CounterAgrees == GOB_Cnt = GobOf(LastSummed)

(* All columns of an open or closed row start with the same picture. *)
RowStarts ==
  \A g \in 0 .. GOB_Cnt : \A t \in FrameTypes :
    /\ SeqStat[g][t].FirstFrame = SeqStat[g][0].FirstFrame
    /\ SeqStat[g][t].FirstFrame <= NoOf(LastSummed)

(* The numbers of the pictures of the current group are consecutive. *)
CurrentRowLength ==
  (GOB_Cnt \in 0 .. LastRow - 1 /\ SeqStat[GOB_Cnt][0].FirstFrame > 0) =>
    Cardinality(NumberedOf(GOB_Cnt)) = NoOf(LastSummed) - SeqStat[GOB_Cnt][0].FirstFrame + 1

(* So a closed row has at least one, and is not closed again. *)
ClosedOnce ==
  \A g \in 0 .. GOB_Cnt - 1 : \A t \in FrameTypes \ {3} :
    SeqStat[g][t].FirstFrame > 0 => SeqStat[g][t].NumFrames > 0

(* Before the first frame is summed the table is as it was. *)
NothingInFront == LastSummed = 0 => \A t \in FrameTypes : SeqStat[-1][t] = ZeroEntry

IInv == TypeOK /\ Handover /\ Numbering /\ CounterAgrees /\ TableMatchesFrames
        /\ RowStarts /\ CurrentRowLength /\ ClosedRowLength /\ ClosedOnce
        /\ NothingInFront

-----------------------------------------------------------------------------
(* Frames and groups.                                                      *)

LEMMA FrameShape ==
  ASSUME TypeOK, NEW i \in DOMAIN handed
  PROVE  /\ handed[i] \in Frame
         /\ handed[i].type \in FrameTypes /\ handed[i].numbered \in BOOLEAN
         /\ handed[i].no \in Nat /\ handed[i].val \in [Fields -> Nat]
<1>1. handed \in Seq(Frame)
  BY DEF TypeOK, Frame
<1>2. handed[i] \in Frame
  BY <1>1
<1>3. QED
  BY <1>2 DEF Frame

LEMMA HandedLength ==
  ASSUME TypeOK
  PROVE  Len(handed) \in Nat /\ DOMAIN handed = 1 .. Len(handed)
  BY DEF TypeOK

LEMMA SeqLength ==
  ASSUME NEW S, NEW s \in Seq(S)
  PROVE  Len(s) \in Nat /\ DOMAIN s = 1 .. Len(s) /\ (s # <<>> <=> Len(s) > 0)
  OBVIOUS

LEMMA OpenersFinite ==
  ASSUME NEW i \in Nat
  PROVE  IsFiniteSet(Openers(i)) /\ Cardinality(Openers(i)) \in Nat
<1>1. IsFiniteSet(1 .. i)
  BY FS_Interval
<1>2. Openers(i) \in SUBSET (1 .. i)
  BY DEF Openers
<1>3. QED
  BY <1>1, <1>2, FS_Subset, FS_CardinalityType

LEMMA GobIsCount ==
  ASSUME NEW i \in Nat
  PROVE  GobOf(i) = IF Cardinality(Openers(i)) - 1 < LastRow
                    THEN Cardinality(Openers(i)) - 1 ELSE LastRow
  BY DEF GobOf, Openers

LEMMA GobZero == GobOf(0) = -1
<1>1. Openers(0) = {}
  BY DEF Openers
<1>2. Cardinality(Openers(0)) = 0
  BY <1>1, FS_EmptySet
<1>3. QED
  BY <1>2, GobIsCount, BoundAssumption

(* A frame moves the counter on if it opens a group, up to the last row. *)
LEMMA GobNext ==
  ASSUME NEW i \in Nat \ {0}
  PROVE  /\ GobOf(i - 1) \in TableRows
         /\ GobOf(i) = IF ~(handed[i].type = 1 \/ handed[i].no = 0) THEN GobOf(i - 1)
                       ELSE IF GobOf(i - 1) + 1 < LastRow THEN GobOf(i - 1) + 1 ELSE LastRow
<1> DEFINE opens == handed[i].type = 1 \/ handed[i].no = 0
           before == Openers(i - 1)
<1>1. IsFiniteSet(before) /\ Cardinality(before) \in Nat
  BY OpenersFinite
<1>2. i \notin before
  BY DEF Openers
<1>3. CASE opens
  <2>1. Openers(i) = before \cup {i}
    BY <1>3 DEF Openers
  <2>2. Cardinality(Openers(i)) = Cardinality(before) + 1
    BY <1>1, <1>2, <2>1, FS_AddElement
  <2>3. QED
    BY <1>1, <1>3, <2>2, GobIsCount, BoundAssumption DEF TableRows
<1>4. CASE ~opens
  <2>1. Openers(i) = before
    BY <1>4 DEF Openers
  <2>2. QED
    BY <1>1, <1>4, <2>1, GobIsCount, BoundAssumption DEF TableRows
<1>5. QED
  BY <1>3, <1>4

LEMMA GobMonotone ==
  ASSUME NEW i \in Nat, NEW j \in Nat, i <= j
  PROVE  GobOf(i) <= GobOf(j) /\ GobOf(i) \in TableRows /\ GobOf(j) \in TableRows
<1>1. /\ IsFiniteSet(Openers(j)) /\ Cardinality(Openers(j)) \in Nat
      /\ Cardinality(Openers(i)) \in Nat
  BY OpenersFinite
<1>2. Openers(i) \in SUBSET Openers(j)
  BY DEF Openers
<1>3. Cardinality(Openers(i)) <= Cardinality(Openers(j))
  BY <1>1, <1>2, FS_Subset
<1>4. QED
  BY <1>1, <1>3, GobIsCount, BoundAssumption DEF TableRows

LEMMA SummedShape ==
  ASSUME TypeOK, Handover
  PROVE  /\ LastSummed \in Nat /\ Summed = 1 .. LastSummed
         /\ Summed \subseteq DOMAIN handed
<1>1. Len(handed) \in Nat /\ DOMAIN handed = 1 .. Len(handed)
  BY HandedLength
<1>2. pc = "got" => Len(handed) > 0
  BY SeqLength DEF Handover, TypeOK
<1>3. CASE pc = "got"
  <2>1. Len(handed) > 0
    BY <1>2, <1>3
  <2>2. \A n \in Nat : n > 0 => (1 .. n) \ {n} = 1 .. n - 1
    OBVIOUS
  <2>3. QED
    BY <1>1, <1>3, <2>1, <2>2 DEF LastSummed, Summed
<1>4. CASE pc # "got"
  BY <1>1, <1>4 DEF LastSummed, Summed
<1>5. QED
  BY <1>3, <1>4

LEMMA GroupsFinite ==
  ASSUME TypeOK, Handover, NEW g, NEW t
  PROVE  /\ IsFiniteSet(FramesOf(g, t)) /\ Cardinality(FramesOf(g, t)) \in Nat
         /\ IsFiniteSet(NumberedOf(g)) /\ Cardinality(NumberedOf(g)) \in Nat
<1>1. IsFiniteSet(Summed)
  BY SummedShape, FS_Interval
<1>2. FramesOf(g, t) \in SUBSET Summed /\ NumberedOf(g) \in SUBSET Summed
  BY DEF FramesOf, NumberedOf
<1>3. QED
  BY <1>1, <1>2, FS_Subset, FS_CardinalityType

-----------------------------------------------------------------------------
(* The functions that change the table.                                    *)

LEMMA CellShape ==
  ASSUME NEW S \in [TableRows -> [FrameTypes -> Entry]], NEW g \in TableRows, NEW t \in FrameTypes
  PROVE  /\ S[g] \in [FrameTypes -> Entry] /\ S[g][t] \in Entry
         /\ S[g][t].FirstFrame \in Nat /\ S[g][t].NumFrames \in Int /\ S[g][t].FrameCnt \in Nat
         /\ S[g][t].sum \in [Fields -> Nat] /\ S[g][t].den \in [Fields -> Nat \ {0}]
<1>1. S[g] \in [FrameTypes -> Entry]
  OBVIOUS
<1>2. S[g][t] \in Entry
  BY <1>1
<1>3. QED
  BY <1>1, <1>2 DEF Entry

(* The sum of the intra ratios of an entry and its divisor are the same. *)
SameFigures(d, e) == d.sum[Intra] = e.sum[Intra] /\ d.den[Intra] = e.den[Intra]

LEMMA ClosedTable ==
  ASSUME NEW S \in [TableRows -> [FrameTypes -> Entry]], NEW g \in TableRows, NEW late \in BOOLEAN,
         TypeOK
  PROVE  /\ Closed(S, g, late) \in [TableRows -> [FrameTypes -> Entry]]
         /\ \A h \in TableRows \ {g} : Closed(S, g, late)[h] = S[h]
         /\ \A t \in FrameTypes :
              /\ Closed(S, g, late)[g][t].FirstFrame = S[g][t].FirstFrame
              /\ Closed(S, g, late)[g][t].FrameCnt = S[g][t].FrameCnt
              /\ SameFigures(Closed(S, g, late)[g][t], S[g][t])
              /\ Closed(S, g, late)[g][t].NumFrames = RowLength(S, g, t, late)
<1> DEFINE cell(t) == [S[g][t] EXCEPT !.NumFrames = RowLength(S, g, t, late)]
<1>1. ASSUME NEW t \in FrameTypes
      PROVE  RowLength(S, g, t, late) \in Int
  <2>1. FirstFrameAt(S, g, IF late THEN t + 1 ELSE t) \in Int
    <3>1. DOMAIN S = TableRows /\ 0 \in FrameTypes
      BY DEF FrameTypes
    <3>2. g + 1 \in DOMAIN S => S[g + 1][0].FirstFrame \in Nat
      BY <3>1, CellShape
    <3>3. \A u \in FrameTypes : S[g][u].FirstFrame \in Nat
      BY CellShape
    <3>4. QED
      BY <3>2, <3>3 DEF FirstFrameAt
  <2>2. PicCnt \in Nat
    BY DEF TypeOK
  <2>3. QED
    BY <2>1, <2>2 DEF RowLength
<1>2. ASSUME NEW t \in FrameTypes
      PROVE  /\ cell(t) \in Entry
             /\ cell(t).FirstFrame = S[g][t].FirstFrame
             /\ cell(t).FrameCnt = S[g][t].FrameCnt
             /\ SameFigures(cell(t), S[g][t])
             /\ cell(t).NumFrames = RowLength(S, g, t, late)
  <2>1. S[g][t] \in Entry
    BY CellShape
  <2>2. QED
    BY <1>1, <2>1 DEF Entry, SameFigures
<1> HIDE DEF cell
<1>3. Closed(S, g, late) = [S EXCEPT ![g] = [t \in FrameTypes |-> cell(t)]]
  BY DEF Closed, cell
<1>4. [t \in FrameTypes |-> cell(t)] \in [FrameTypes -> Entry]
  BY <1>2
<1>5. QED
  BY <1>2, <1>3, <1>4

LEMMA OpenedTable ==
  ASSUME NEW S \in [TableRows -> [FrameTypes -> Entry]], NEW g \in TableRows, TypeOK
  PROVE  /\ Opened(S, g) \in [TableRows -> [FrameTypes -> Entry]]
         /\ \A h \in TableRows \ {g} : Opened(S, g)[h] = S[h]
         /\ \A t \in FrameTypes :
              /\ Opened(S, g)[g][t].FirstFrame = PicCnt
              /\ Opened(S, g)[g][t].FrameCnt = S[g][t].FrameCnt
              /\ SameFigures(Opened(S, g)[g][t], S[g][t])
              /\ Opened(S, g)[g][t].NumFrames = S[g][t].NumFrames
<1> DEFINE cell(t) == [S[g][t] EXCEPT !.FirstFrame = PicCnt]
<1>1. PicCnt \in Nat
  BY DEF TypeOK
<1>2. ASSUME NEW t \in FrameTypes
      PROVE  /\ cell(t) \in Entry
             /\ cell(t).FirstFrame = PicCnt
             /\ cell(t).FrameCnt = S[g][t].FrameCnt
             /\ SameFigures(cell(t), S[g][t])
             /\ cell(t).NumFrames = S[g][t].NumFrames
  <2>1. S[g][t] \in Entry
    BY CellShape
  <2>2. QED
    BY <1>1, <2>1 DEF Entry, SameFigures
<1> HIDE DEF cell
<1>3. Opened(S, g) = [S EXCEPT ![g] = [t \in FrameTypes |-> cell(t)]]
  BY DEF Opened, cell
<1>4. [t \in FrameTypes |-> cell(t)] \in [FrameTypes -> Entry]
  BY <1>2
<1>5. QED
  BY <1>2, <1>3, <1>4

LEMMA SummedEntry ==
  ASSUME TypeOK, NEW e \in Entry
  PROVE  /\ SumUp_FrameStat(e) \in Entry
         /\ SumUp_FrameStat(e).FirstFrame = e.FirstFrame
         /\ SumUp_FrameStat(e).NumFrames = e.NumFrames
         /\ SumUp_FrameStat(e).FrameCnt = e.FrameCnt + 1
         /\ SumUp_FrameStat(e).sum[Intra] = e.sum[Intra] + FrameStat.val[Intra]
         /\ SumUp_FrameStat(e).den = e.den
<1> DEFINE s == [f \in Fields |-> e.sum[f] + Summand(FrameStat.val, f)]
<1>1. FrameStat.val \in [Fields -> Nat]
  BY DEF TypeOK
<1>2. \A f \in Fields : Summand(FrameStat.val, f) \in Nat
  BY <1>1 DEF Summand, Fields
<1>3. e.sum \in [Fields -> Nat] /\ e.FrameCnt \in Nat
  BY DEF Entry
<1>4. s \in [Fields -> Nat] /\ s[Intra] = e.sum[Intra] + FrameStat.val[Intra]
  <2>1. Intra \in Fields /\ Summand(FrameStat.val, Intra) = FrameStat.val[Intra]
    BY DEF Summand, Intra, Fields
  <2>2. s[Intra] = e.sum[Intra] + FrameStat.val[Intra]
    BY <2>1
  <2>3. s \in [Fields -> Nat]
    BY <1>2, <1>3
  <2>4. QED
    BY <2>2, <2>3
<1> HIDE DEF s
<1>5. ASSUME NEW n \in Nat
      PROVE  LET d == [e EXCEPT !.sum = s, !.FrameCnt = n]
             IN /\ d \in Entry /\ d.FirstFrame = e.FirstFrame
                /\ d.NumFrames = e.NumFrames /\ d.FrameCnt = n
                /\ d.sum = s /\ d.den = e.den
  BY <1>4 DEF Entry
<1>6. SumUp_FrameStat(e) = [e EXCEPT !.sum = s, !.FrameCnt = e.FrameCnt + 1]
  BY DEF SumUp_FrameStat, s
<1>7. PICK n \in Nat : n = e.FrameCnt + 1
  BY <1>3
<1>8. SumUp_FrameStat(e) = [e EXCEPT !.sum = s, !.FrameCnt = n]
  BY <1>6, <1>7
<1>9. QED
  BY <1>4, <1>5, <1>7, <1>8, ZenonT(60)

LEMMA AveragedEntry ==
  ASSUME NEW e \in Entry
  PROVE  /\ Averaged(e) \in Entry
         /\ Averaged(e).FirstFrame = e.FirstFrame
         /\ Averaged(e).NumFrames = e.NumFrames
         /\ Averaged(e).FrameCnt = e.FrameCnt
         /\ Averaged(e).sum = e.sum
         /\ Averaged(e).den[Intra] = IF e.FrameCnt = 0 THEN e.den[Intra] ELSE e.den[Intra] * e.FrameCnt
<1>1. CASE e.FrameCnt = 0
  BY <1>1 DEF Averaged
<1>2. CASE e.FrameCnt # 0
  <2> DEFINE d == [f \in Fields |-> e.den[f] * Divisor(f, e.FrameCnt)]
  <2>1. e.FrameCnt \in Nat \ {0} /\ e.den \in [Fields -> Nat \ {0}]
    BY <1>2 DEF Entry
  <2>2. \A m, n \in Nat \ {0} : m * n \in Nat \ {0}
    OBVIOUS
  <2>3. ASSUME NEW n \in Nat \ {0} PROVE n * n * n * n \in Nat \ {0}
    <3>1. n * n \in Nat \ {0}
      BY <2>2
    <3>2. n * n * n \in Nat \ {0}
      BY <2>2, <3>1
    <3>3. QED
      BY <2>2, <3>2
  <2>4. \A f \in Fields : Divisor(f, e.FrameCnt) \in Nat \ {0}
    BY <2>1, <2>3 DEF Divisor
  <2>5. d \in [Fields -> Nat \ {0}]
    BY <2>1, <2>2, <2>4
  <2>6. d[Intra] = e.den[Intra] * e.FrameCnt
    BY DEF Divisor, Intra, Fields
  <2> HIDE DEF d
  <2>7. Averaged(e) = [e EXCEPT !.den = d]
    BY <1>2 DEF Averaged, d
  <2>8. /\ Averaged(e) \in Entry /\ Averaged(e).FirstFrame = e.FirstFrame
        /\ Averaged(e).NumFrames = e.NumFrames /\ Averaged(e).FrameCnt = e.FrameCnt
        /\ Averaged(e).sum = e.sum /\ Averaged(e).den = d
    BY <2>5, <2>7 DEF Entry
  <2>9. QED
    BY <1>2, <2>6, <2>8
<1>3. QED
  BY <1>1, <1>2

-----------------------------------------------------------------------------
(* The initial states.                                                     *)

LEMMA ZeroEntryShape ==
  /\ ZeroEntry \in Entry /\ ZeroEntry.FrameCnt = 0 /\ ZeroEntry.FirstFrame = 0
  /\ ZeroFrame \in [FrameType : FrameTypes, val : [Fields -> Nat]]
  /\ ZeroFrame.FrameType = 0
  BY DEF ZeroEntry, Entry, ZeroVal, ZeroFrame, FrameTypes

LEMMA InitIInv == Init => IInv
<1> SUFFICES ASSUME Init PROVE IInv
  OBVIOUS
<1>1. Len(handed) = 0 /\ DOMAIN handed = {} /\ handed = <<>>
  BY DEF Init
<1>2. TypeOK
  <2>1. SeqStat \in [-1 .. LastRow -> [FrameTypes -> Entry]]
    BY ZeroEntryShape DEF Init
  <2>2. GOB_Cnt \in -1 .. LastRow /\ CurrGOB \in -1 .. LastRow /\ nextRow \in 0 .. LastRow + 1
    BY BoundAssumption DEF Init
  <2>3. handed \in Seq([type : FrameTypes, numbered : BOOLEAN, no : Nat, val : [Fields -> Nat]])
    BY DEF Init
  <2>4. QED
    BY <2>1, <2>2, <2>3, ZeroEntryShape DEF Init, TypeOK
<1>3. Handover
  BY <1>1 DEF Init, Handover, NoOf
<1>4. Numbering
  BY <1>1 DEF Numbering
<1>5. LastSummed = 0 /\ Summed = {} /\ GOB_Cnt = -1
  BY <1>1 DEF Init, LastSummed, Summed
<1>6. CounterAgrees
  BY <1>5, GobZero DEF CounterAgrees
<1>7. TableMatchesFrames
  <2>1. \A g \in -1 .. LastRow : \A t \in FrameTypes : SeqStat[g][t] = ZeroEntry
    BY DEF Init
  <2>2. \A g, t : Cardinality(FramesOf(g, t)) = 0
    <3>1. \A g, t : FramesOf(g, t) = {}
      BY <1>5 DEF FramesOf
    <3>2. QED
      BY <3>1, FS_EmptySet
  <2>3. QED
    BY <1>1, <2>1, <2>2, ZeroEntryShape DEF TableMatchesFrames
<1>8. RowStarts /\ CurrentRowLength /\ ClosedRowLength /\ ClosedOnce
  BY <1>5 DEF RowStarts, CurrentRowLength, ClosedRowLength, ClosedOnce
<1>9. NothingInFront
  BY BoundAssumption DEF Init, NothingInFront
<1>10. QED
  BY <1>2, <1>3, <1>4, <1>6, <1>7, <1>8, <1>9 DEF IInv

-----------------------------------------------------------------------------
(* Numbering a picture leaves the table and the frames summed as they are. *)

LEMMA AppendedFrames ==
  ASSUME TypeOK, NEW x \in Frame, handed' = Append(handed, x)
  PROVE  /\ handed' \in Seq(Frame) /\ Len(handed') = Len(handed) + 1
         /\ handed'[Len(handed) + 1] = x
         /\ \A i \in 1 .. Len(handed) : handed'[i] = handed[i]
  BY DEF TypeOK, Frame

LEMMA AnalysePacketIInv ==
  ASSUME IInv, NEW p \in Decoded(Codec), AnalysePacket(p)
  PROVE  /\ IInv'
         /\ \A g, t : FramesOf(g, t)' = FramesOf(g, t)
         /\ \A i \in DOMAIN handed : i \in DOMAIN handed' /\ handed'[i] = handed[i]
<1> DEFINE n == Len(handed)
           x == [type |-> FrameStat'.FrameType, numbered |-> p.same,
                 no |-> PicCnt', val |-> FrameStat'.val]
<1>1. TypeOK /\ Handover /\ Numbering
  BY DEF IInv
<1>2. /\ pc = "read" /\ pc' = "got" /\ handed' = Append(handed, x)
      /\ UNCHANGED <<Codec, GOB_Cnt, SeqStat, CurrGOB, nextRow>>
  BY DEF AnalysePacket
<1>3. /\ p.pict \in 1 .. 3 /\ p.key \in BOOLEAN /\ p.same \in BOOLEAN
      /\ p.val \in [Fields -> Nat]
  <2>1. Codec \in Codecs
    BY <1>1 DEF TypeOK
  <2>2. p \in [pict : 1 .. 3, key : BOOLEAN, same : BOOLEAN, val : [Fields -> Nat]]
    BY <2>1, DecodedAssumption
  <2>3. QED
    BY <2>2
<1>4. PicCnt' \in Nat /\ PicCnt' = PicCnt + (IF p.same THEN 1 ELSE 0)
  BY <1>1 DEF AnalysePacket, Numbers, TypeOK
<1>5. /\ FrameStat' \in [FrameType : FrameTypes, val : [Fields -> Nat]]
      /\ FrameStat'.FrameType = 1 => p.same
  <2>1. CASE Analysed(p)
    <3>1. TypeOf(p) \in FrameTypes
      BY <1>3 DEF TypeOf, FrameTypes
    <3>2. QED
      BY <1>3, <2>1, <3>1 DEF AnalysePacket, Analysed
  <2>2. CASE ~Analysed(p)
    <3>1. FrameStat' = ZeroFrame
      BY <1>1, <1>2, <2>2 DEF AnalysePacket, Handover
    <3>2. QED
      BY <3>1, ZeroEntryShape
  <2>3. QED
    BY <2>1, <2>2
<1>6. /\ x \in Frame /\ x.type = FrameStat'.FrameType /\ x.numbered = p.same
      /\ x.no = PicCnt' /\ x.val = FrameStat'.val
  BY <1>3, <1>4, <1>5 DEF Frame
<1> HIDE DEF x
<1>7. /\ handed' \in Seq(Frame) /\ Len(handed') = n + 1 /\ handed'[n + 1] = x
      /\ \A i \in 1 .. n : handed'[i] = handed[i]
      /\ n \in Nat /\ DOMAIN handed = 1 .. n /\ DOMAIN handed' = 1 .. n + 1
      /\ handed # <<>> <=> n > 0
      /\ handed' # <<>>
  <2>1. handed \in Seq(Frame)
    BY <1>1 DEF TypeOK, Frame
  <2>2. /\ handed' \in Seq(Frame) /\ Len(handed') = n + 1 /\ handed'[n + 1] = x
        /\ \A i \in 1 .. n : handed'[i] = handed[i]
    BY <1>1, <1>2, <1>6, AppendedFrames
  <2>3. QED
    BY <2>1, <2>2, SeqLength
<1> HIDE DEF n
<1>8. TypeOK'
  <2>1. handed' \in Seq([type : FrameTypes, numbered : BOOLEAN, no : Nat, val : [Fields -> Nat]])
    BY <1>7 DEF Frame
  <2>2. Started' \in BOOLEAN
    BY DEF AnalysePacket
  <2>3. QED
    BY <1>1, <1>2, <1>4, <1>5, <2>1, <2>2 DEF TypeOK
<1>9. Handover'
  <2>1. CurrGOB' = GOB_Cnt'
    BY <1>1, <1>2 DEF Handover
  <2>2. NoOf(Len(handed))' = PicCnt'
    BY <1>6, <1>7 DEF NoOf
  <2>3. QED
    BY <1>2, <1>6, <1>7, <2>1, <2>2 DEF Handover
<1>10. \A i \in 0 .. n : NoOf(i)' = NoOf(i)
  BY <1>7 DEF NoOf
<1>11. Numbering'
  <2> SUFFICES ASSUME NEW i \in 1 .. n + 1
               PROVE  /\ handed'[i].type = 1 => handed'[i].numbered
                      /\ handed'[i].no = NoOf(i - 1)' + (IF handed'[i].numbered THEN 1 ELSE 0)
    BY <1>7 DEF Numbering
  <2>1. NoOf(i - 1)' = NoOf(i - 1)
    BY <1>7, <1>10
  <2>2. CASE i \in 1 .. n
    BY <1>1, <1>7, <2>1, <2>2 DEF Numbering
  <2>3. CASE i = n + 1
    <3>1. NoOf(n) = PicCnt
      BY <1>1 DEF Handover, n
    <3>2. NoOf(i - 1) = PicCnt
      BY <1>7, <2>3, <3>1
    <3>3. QED
      BY <1>4, <1>5, <1>6, <1>7, <2>1, <2>3, <3>2
  <2>4. QED
    BY <1>7, <2>2, <2>3
<1>12. LastSummed = n /\ LastSummed' = n /\ Summed = 1 .. n /\ Summed' = 1 .. n
  BY <1>2, <1>7 DEF LastSummed, Summed, n
<1>13. ASSUME NEW i \in 0 .. n
       PROVE  GobOf(i)' = GobOf(i)
  <2>1. 1 .. i \subseteq 1 .. n
    BY <1>7
  <2>2. {j \in 1 .. i : handed'[j].type = 1 \/ handed'[j].no = 0}
          = {j \in 1 .. i : handed[j].type = 1 \/ handed[j].no = 0}
    BY <1>7, <2>1
  <2>3. QED
    BY <2>2, Zenon DEF GobOf
<1>14. /\ \A g, t : FramesOf(g, t)' = FramesOf(g, t)
       /\ \A g : NumberedOf(g)' = NumberedOf(g)
  <2>1. \A i \in 1 .. n : i \in 0 .. n
    BY <1>7
  <2>2. QED
    BY <1>7, <1>12, <1>13, <2>1 DEF FramesOf, NumberedOf
<1>15. CounterAgrees'
  <2>1. n \in 0 .. n
    BY <1>7
  <2>2. QED
    BY <1>2, <1>12, <1>13, <2>1 DEF IInv, CounterAgrees
<1>16. TableMatchesFrames'
  <2>1. ASSUME handed' # <<>>, handed'[1].type = 1
        PROVE  \A t \in FrameTypes : SeqStat'[-1][t] = ZeroEntry
    <3>1. CASE n > 0
      BY <1>2, <1>7, <2>1, <3>1 DEF IInv, TableMatchesFrames
    <3>2. CASE n = 0
      BY <1>2, <1>12, <3>2 DEF IInv, NothingInFront
    <3>3. QED
      BY <1>7, <3>1, <3>2
  <2>2. QED
    BY <1>2, <1>14, <2>1 DEF IInv, TableMatchesFrames
<1>17. RowStarts' /\ CurrentRowLength' /\ ClosedRowLength' /\ ClosedOnce'
  <2>1. NoOf(LastSummed)' = NoOf(LastSummed)
    <3>1. LastSummed \in 0 .. n
      BY <1>7, <1>12
    <3>2. QED
      BY <1>7, <1>10, <1>12, <3>1 DEF NoOf
  <2>2. QED
    BY <1>2, <1>14, <2>1 DEF IInv, RowStarts, CurrentRowLength, ClosedRowLength, ClosedOnce
<1>18. NothingInFront'
  BY <1>2, <1>12 DEF IInv, NothingInFront
<1>19. IInv'
  BY <1>8, <1>9, <1>11, <1>15, <1>16, <1>17, <1>18 DEF IInv
<1>20. \A i \in DOMAIN handed : i \in DOMAIN handed' /\ handed'[i] = handed[i]
  BY <1>7
<1>21. QED
  BY <1>14, <1>19, <1>20

-----------------------------------------------------------------------------
(* Summing a frame into the table.                                         *)

(* What one call changes: the row it goes to and, if it opens another row, *)
(* the number of frames of the row before.                                 *)
LEMMA SummingStep ==
  ASSUME TypeOK, GetFrameStatistics
  PROVE  /\ RowOfFrame \in TableRows /\ RowOfFrame >= GOB_Cnt
         /\ SeqStat' \in [TableRows -> [FrameTypes -> Entry]]
         /\ \A g \in TableRows \ {RowOfFrame, GOB_Cnt} : SeqStat'[g] = SeqStat[g]
         /\ RowOfFrame # -1 => SeqStat'[-1] = SeqStat[-1]
         /\ \A g \in TableRows, t \in FrameTypes :
              /\ SeqStat'[g][t].FrameCnt = SeqStat[g][t].FrameCnt
                   + (IF g = RowOfFrame /\ t = FrameStat.FrameType THEN 1 ELSE 0)
              /\ SeqStat'[g][t].FirstFrame =
                   IF OpensGOB /\ g = RowOfFrame THEN PicCnt ELSE SeqStat[g][t].FirstFrame
              /\ SeqStat'[g][t].sum[Intra] = SeqStat[g][t].sum[Intra]
                   + (IF g = RowOfFrame /\ t = FrameStat.FrameType THEN FrameStat.val[Intra] ELSE 0)
              /\ SeqStat'[g][t].den[Intra] = SeqStat[g][t].den[Intra]
         /\ \A t \in FrameTypes \ {3} :
              OpensGOB /\ GOB_Cnt >= 0 =>
                \E u \in FrameTypes :
                  SeqStat'[GOB_Cnt][t].NumFrames = PicCnt - SeqStat[GOB_Cnt][u].FirstFrame
<1> DEFINE r == RowOfFrame
           c == FrameStat.FrameType
<1>1. /\ SeqStat \in [TableRows -> [FrameTypes -> Entry]]
      /\ GOB_Cnt \in TableRows /\ c \in FrameTypes /\ PicCnt \in Nat
  BY DEF TypeOK, TableRows
<1>2. r \in TableRows /\ r >= GOB_Cnt
  BY <1>1, BoundAssumption DEF RowOfFrame, TableRows
<1>3. PICK late \in BOOLEAN :
        LET S1 == IF OpensGOB /\ GOB_Cnt >= 0 THEN Closed(SeqStat, GOB_Cnt, late) ELSE SeqStat
            S2 == IF OpensGOB THEN Opened(S1, r) ELSE S1
        IN SeqStat' = [S2 EXCEPT ![r][c] = SumUp_FrameStat(@)]
  BY DEF GetFrameStatistics
<1> DEFINE closes == OpensGOB /\ GOB_Cnt >= 0
           S1 == IF closes THEN Closed(SeqStat, GOB_Cnt, late) ELSE SeqStat
           S2 == IF OpensGOB THEN Opened(S1, r) ELSE S1
<1>4. SeqStat' = [S2 EXCEPT ![r][c] = SumUp_FrameStat(S2[r][c])]
  BY <1>3
<1>5. /\ S1 \in [TableRows -> [FrameTypes -> Entry]]
      /\ \A g \in TableRows \ {GOB_Cnt} : S1[g] = SeqStat[g]
      /\ ~closes => S1 = SeqStat
      /\ \A g \in TableRows, t \in FrameTypes :
           /\ S1[g][t].FirstFrame = SeqStat[g][t].FirstFrame
           /\ S1[g][t].FrameCnt = SeqStat[g][t].FrameCnt
           /\ SameFigures(S1[g][t], SeqStat[g][t])
      /\ \A t \in FrameTypes \ {3} : closes =>
           \E u \in FrameTypes : S1[GOB_Cnt][t].NumFrames = PicCnt - SeqStat[GOB_Cnt][u].FirstFrame
  <2>1. CASE closes
    <3>1. /\ Closed(SeqStat, GOB_Cnt, late) \in [TableRows -> [FrameTypes -> Entry]]
          /\ \A h \in TableRows \ {GOB_Cnt} : Closed(SeqStat, GOB_Cnt, late)[h] = SeqStat[h]
          /\ \A t \in FrameTypes :
               /\ Closed(SeqStat, GOB_Cnt, late)[GOB_Cnt][t].FirstFrame = SeqStat[GOB_Cnt][t].FirstFrame
               /\ Closed(SeqStat, GOB_Cnt, late)[GOB_Cnt][t].FrameCnt = SeqStat[GOB_Cnt][t].FrameCnt
               /\ SameFigures(Closed(SeqStat, GOB_Cnt, late)[GOB_Cnt][t], SeqStat[GOB_Cnt][t])
               /\ Closed(SeqStat, GOB_Cnt, late)[GOB_Cnt][t].NumFrames = RowLength(SeqStat, GOB_Cnt, t, late)
      BY <1>1, ClosedTable
    <3>2. ASSUME NEW t \in FrameTypes \ {3}
          PROVE  \E u \in FrameTypes :
                   RowLength(SeqStat, GOB_Cnt, t, late) = PicCnt - SeqStat[GOB_Cnt][u].FirstFrame
      <4>1. t \in FrameTypes /\ t + 1 \in FrameTypes
        BY DEF FrameTypes
      <4>2. QED
        BY <4>1 DEF RowLength, FirstFrameAt
    <3>3. S1 = Closed(SeqStat, GOB_Cnt, late)
      BY <2>1
    <3> HIDE DEF S1, closes
    <3>4. \A g \in TableRows, t \in FrameTypes :
            /\ S1[g][t].FirstFrame = SeqStat[g][t].FirstFrame
            /\ S1[g][t].FrameCnt = SeqStat[g][t].FrameCnt
            /\ SameFigures(S1[g][t], SeqStat[g][t])
      BY <3>1, <3>3 DEF SameFigures
    <3>5. QED
      BY <2>1, <3>1, <3>2, <3>3, <3>4
  <2>2. CASE ~closes
    BY <1>1, <2>2 DEF SameFigures
  <2>3. QED
    BY <2>1, <2>2
<1> HIDE DEF S1, closes
<1>6. /\ S2 \in [TableRows -> [FrameTypes -> Entry]]
      /\ \A g \in TableRows \ {r} : S2[g] = S1[g]
      /\ ~OpensGOB => S2 = S1
      /\ \A g \in TableRows, t \in FrameTypes :
           /\ S2[g][t].FirstFrame = IF OpensGOB /\ g = r THEN PicCnt ELSE S1[g][t].FirstFrame
           /\ S2[g][t].FrameCnt = S1[g][t].FrameCnt
           /\ SameFigures(S2[g][t], S1[g][t])
           /\ S2[g][t].NumFrames = S1[g][t].NumFrames
  <2>1. CASE OpensGOB
    <3>1. S2 = Opened(S1, r)
      BY <2>1
    <3>2. /\ Opened(S1, r) \in [TableRows -> [FrameTypes -> Entry]]
          /\ \A h \in TableRows \ {r} : Opened(S1, r)[h] = S1[h]
          /\ \A t \in FrameTypes :
               /\ Opened(S1, r)[r][t].FirstFrame = PicCnt
               /\ Opened(S1, r)[r][t].FrameCnt = S1[r][t].FrameCnt
               /\ SameFigures(Opened(S1, r)[r][t], S1[r][t])
               /\ Opened(S1, r)[r][t].NumFrames = S1[r][t].NumFrames
      BY <1>2, <1>5, OpenedTable
    <3> HIDE DEF S2
    <3>3. QED
      BY <2>1, <3>1, <3>2 DEF SameFigures
  <2>2. CASE ~OpensGOB
    BY <1>5, <2>2 DEF SameFigures
  <2>3. QED
    BY <2>1, <2>2
<1> HIDE DEF S2
<1> DEFINE e == SumUp_FrameStat(S2[r][c])
<1>7. /\ e \in Entry /\ e.FirstFrame = S2[r][c].FirstFrame
      /\ e.NumFrames = S2[r][c].NumFrames /\ e.FrameCnt = S2[r][c].FrameCnt + 1
      /\ e.sum[Intra] = S2[r][c].sum[Intra] + FrameStat.val[Intra] /\ e.den = S2[r][c].den
  <2>1. S2[r][c] \in Entry
    BY <1>1, <1>2, <1>6, CellShape
  <2>2. QED
    BY <2>1, SummedEntry
<1> HIDE DEF e
<1>8. SeqStat' = [S2 EXCEPT ![r][c] = e]
  BY <1>4 DEF e
<1>9. /\ SeqStat' \in [TableRows -> [FrameTypes -> Entry]]
      /\ \A g \in TableRows \ {r} : SeqStat'[g] = S2[g]
      /\ \A t \in FrameTypes : SeqStat'[r][t] = IF t = c THEN e ELSE S2[r][t]
  BY <1>1, <1>2, <1>6, <1>7, <1>8
<1>10. \A g \in TableRows, t \in FrameTypes :
         /\ SeqStat'[g][t].FirstFrame = S2[g][t].FirstFrame
         /\ SeqStat'[g][t].NumFrames = S2[g][t].NumFrames
         /\ SeqStat'[g][t].FrameCnt = S2[g][t].FrameCnt + (IF g = r /\ t = c THEN 1 ELSE 0)
         /\ SeqStat'[g][t].sum[Intra] = S2[g][t].sum[Intra]
              + (IF g = r /\ t = c THEN FrameStat.val[Intra] ELSE 0)
         /\ SeqStat'[g][t].den[Intra] = S2[g][t].den[Intra]
  <2> SUFFICES ASSUME NEW g \in TableRows, NEW t \in FrameTypes
               PROVE  /\ SeqStat'[g][t].FirstFrame = S2[g][t].FirstFrame
                      /\ SeqStat'[g][t].NumFrames = S2[g][t].NumFrames
                      /\ SeqStat'[g][t].FrameCnt = S2[g][t].FrameCnt + (IF g = r /\ t = c THEN 1 ELSE 0)
                      /\ SeqStat'[g][t].sum[Intra] = S2[g][t].sum[Intra]
                           + (IF g = r /\ t = c THEN FrameStat.val[Intra] ELSE 0)
                      /\ SeqStat'[g][t].den[Intra] = S2[g][t].den[Intra]
    OBVIOUS
  <2>1. S2[g][t].FrameCnt \in Nat /\ S2[g][t].sum[Intra] \in Nat
    BY <1>6, CellShape DEF Intra, Fields
  <2>2. CASE g = r /\ t = c
    BY <1>7, <1>9, <2>2
  <2>3. CASE ~(g = r /\ t = c)
    BY <1>9, <2>1, <2>3
  <2>4. QED
    BY <2>2, <2>3
<1> HIDE DEF r, c
<1>11. \A g \in TableRows \ {r, GOB_Cnt} : SeqStat'[g] = SeqStat[g]
  BY <1>5, <1>6, <1>9
<1>12. r # -1 => SeqStat'[-1] = SeqStat[-1]
  <2> SUFFICES ASSUME r # -1 PROVE SeqStat'[-1] = SeqStat[-1]
    OBVIOUS
  <2>1. -1 \in TableRows
    BY BoundAssumption DEF TableRows
  <2>2. SeqStat'[-1] = S1[-1]
    BY <1>6, <1>9, <2>1
  <2>3. S1[-1] = SeqStat[-1]
    <3>1. CASE GOB_Cnt = -1
      <4>1. ~closes
        BY <3>1 DEF closes
      <4>2. QED
        BY <1>5, <4>1
    <3>2. CASE GOB_Cnt # -1
      BY <1>5, <2>1, <3>2
    <3>3. QED
      BY <3>1, <3>2
  <2>4. QED
    BY <2>2, <2>3
<1>13. \A g \in TableRows, t \in FrameTypes :
         /\ SeqStat'[g][t].FrameCnt = SeqStat[g][t].FrameCnt + (IF g = r /\ t = c THEN 1 ELSE 0)
         /\ SeqStat'[g][t].FirstFrame =
              IF OpensGOB /\ g = r THEN PicCnt ELSE SeqStat[g][t].FirstFrame
         /\ SeqStat'[g][t].sum[Intra] = SeqStat[g][t].sum[Intra]
              + (IF g = r /\ t = c THEN FrameStat.val[Intra] ELSE 0)
         /\ SeqStat'[g][t].den[Intra] = SeqStat[g][t].den[Intra]
  BY <1>5, <1>6, <1>10 DEF SameFigures
<1>14. \A t \in FrameTypes \ {3} : OpensGOB /\ GOB_Cnt >= 0 =>
         \E u \in FrameTypes :
           SeqStat'[GOB_Cnt][t].NumFrames = PicCnt - SeqStat[GOB_Cnt][u].FirstFrame
  <2> SUFFICES ASSUME NEW t \in FrameTypes \ {3}, OpensGOB, GOB_Cnt >= 0
               PROVE  \E u \in FrameTypes :
                        SeqStat'[GOB_Cnt][t].NumFrames = PicCnt - SeqStat[GOB_Cnt][u].FirstFrame
    OBVIOUS
  <2>1. closes
    BY DEF closes
  <2>2. SeqStat'[GOB_Cnt][t].NumFrames = S1[GOB_Cnt][t].NumFrames
    BY <1>1, <1>6, <1>10
  <2>3. QED
    BY <1>5, <2>1, <2>2
<1>15. QED
  BY <1>2, <1>9, <1>11, <1>12, <1>13, <1>14 DEF r, c

(* The frame summed joins the frames of its row, and no other. *)
LEMMA SummingFrames ==
  ASSUME IInv, GetFrameStatistics
  PROVE  LET n == Len(handed) IN
         /\ n \in Nat \ {0} /\ n \in DOMAIN handed
         /\ handed' = handed /\ PicCnt' = PicCnt /\ PicCnt = handed[n].no
         /\ FrameStat.FrameType = handed[n].type
         /\ LastSummed = n - 1 /\ LastSummed' = n
         /\ Summed = 1 .. n - 1 /\ Summed' = 1 .. n
         /\ OpensGOB <=> (handed[n].type = 1 \/ handed[n].no = 0)
         /\ RowOfFrame = GobOf(n)
         /\ \A g, t : FramesOf(g, t)' =
              IF g = RowOfFrame /\ t = handed[n].type THEN FramesOf(g, t) \cup {n} ELSE FramesOf(g, t)
         /\ \A g : NumberedOf(g)' =
              IF g = RowOfFrame /\ handed[n].numbered THEN NumberedOf(g) \cup {n} ELSE NumberedOf(g)
         /\ \A g, t : n \notin FramesOf(g, t) /\ n \notin NumberedOf(g)
<1> DEFINE n == Len(handed)
<1>1. TypeOK /\ Handover /\ CounterAgrees
  BY DEF IInv
<1>2. /\ pc = "got" /\ pc' = "read" /\ handed' = handed /\ PicCnt' = PicCnt
  BY DEF GetFrameStatistics
<1>3. n \in Nat \ {0} /\ n \in DOMAIN handed /\ DOMAIN handed = 1 .. n
  <2>1. handed \in Seq(Frame) /\ handed # <<>>
    BY <1>1, <1>2 DEF TypeOK, Frame, Handover
  <2>2. QED
    BY <2>1, SeqLength
<1>4. PicCnt = handed[n].no /\ FrameStat.FrameType = handed[n].type
  BY <1>1, <1>2, <1>3 DEF Handover, NoOf
<1> HIDE DEF n
<1>5. LastSummed = n - 1 /\ LastSummed' = n /\ Summed = 1 .. n - 1 /\ Summed' = 1 .. n
  BY <1>2, <1>3 DEF LastSummed, Summed, n
<1>6. OpensGOB <=> (handed[n].type = 1 \/ handed[n].no = 0)
  BY <1>4 DEF OpensGOB
<1>7. RowOfFrame = GobOf(n)
  <2>1. GOB_Cnt = GobOf(n - 1)
    BY <1>1, <1>5 DEF CounterAgrees
  <2>2. QED
    BY <1>3, <1>6, <2>1, GobNext DEF RowOfFrame
<1>8. \A i : GobOf(i)' = GobOf(i)
  BY <1>2, Zenon DEF GobOf
<1>9. \A g, t : FramesOf(g, t)' =
        IF g = RowOfFrame /\ t = handed[n].type THEN FramesOf(g, t) \cup {n} ELSE FramesOf(g, t)
  <2> SUFFICES ASSUME NEW g, NEW t
               PROVE  FramesOf(g, t)' = IF g = RowOfFrame /\ t = handed[n].type
                                        THEN FramesOf(g, t) \cup {n} ELSE FramesOf(g, t)
    OBVIOUS
  <2>1. FramesOf(g, t)' = {i \in 1 .. n : GobOf(i) = g /\ handed[i].type = t}
    BY <1>2, <1>5, <1>8 DEF FramesOf
  <2>2. FramesOf(g, t) = {i \in 1 .. n - 1 : GobOf(i) = g /\ handed[i].type = t}
    BY <1>5 DEF FramesOf
  <2>3. 1 .. n = (1 .. n - 1) \cup {n}
    BY <1>3
  <2>4. QED
    BY <1>7, <2>1, <2>2, <2>3
<1>10. \A g : NumberedOf(g)' =
         IF g = RowOfFrame /\ handed[n].numbered THEN NumberedOf(g) \cup {n} ELSE NumberedOf(g)
  <2> SUFFICES ASSUME NEW g
               PROVE  NumberedOf(g)' = IF g = RowOfFrame /\ handed[n].numbered
                                       THEN NumberedOf(g) \cup {n} ELSE NumberedOf(g)
    OBVIOUS
  <2>1. NumberedOf(g)' = {i \in 1 .. n : GobOf(i) = g /\ handed[i].numbered}
    BY <1>2, <1>5, <1>8 DEF NumberedOf
  <2>2. NumberedOf(g) = {i \in 1 .. n - 1 : GobOf(i) = g /\ handed[i].numbered}
    BY <1>5 DEF NumberedOf
  <2>3. 1 .. n = (1 .. n - 1) \cup {n}
    BY <1>3
  <2>4. QED
    BY <1>7, <2>1, <2>2, <2>3
<1>11. \A g, t : n \notin FramesOf(g, t) /\ n \notin NumberedOf(g)
  <2>1. n \notin 1 .. n - 1
    BY <1>3
  <2>2. QED
    BY <1>5, <2>1 DEF FramesOf, NumberedOf
<1>12. QED
  BY <1>2, <1>3, <1>4, <1>5, <1>6, <1>7, <1>9, <1>10, <1>11 DEF n

LEMMA GetFrameStatisticsType ==
  ASSUME IInv, GetFrameStatistics
  PROVE  TypeOK' /\ Handover' /\ Numbering' /\ CounterAgrees' /\ NothingInFront'
<1> DEFINE n == Len(handed)
<1>1. TypeOK /\ Handover /\ Numbering
  BY DEF IInv
<1>2. /\ pc' = "read" /\ handed' = handed /\ PicCnt' = PicCnt
      /\ GOB_Cnt' = RowOfFrame /\ CurrGOB' = GOB_Cnt' /\ FrameStat' = ZeroFrame
      /\ UNCHANGED <<Codec, Started, nextRow>>
  BY DEF GetFrameStatistics
<1>3. /\ SeqStat' \in [TableRows -> [FrameTypes -> Entry]] /\ RowOfFrame \in TableRows
  BY <1>1, SummingStep
<1>4. TypeOK'
  BY <1>1, <1>2, <1>3, ZeroEntryShape DEF TypeOK, TableRows
<1>5. \A i : NoOf(i)' = NoOf(i)
  BY <1>2 DEF NoOf
<1>6. Handover'
  BY <1>1, <1>2, <1>5 DEF Handover
<1>7. Numbering'
  BY <1>1, <1>2, <1>5 DEF Numbering
<1>8. n \in Nat \ {0} /\ LastSummed' = n /\ RowOfFrame = GobOf(n)
  BY SummingFrames
<1> HIDE DEF n
<1>9. CounterAgrees'
  <2>1. \A i : GobOf(i)' = GobOf(i)
    BY <1>2, Zenon DEF GobOf
  <2>2. QED
    BY <1>2, <1>8, <2>1 DEF CounterAgrees
<1>10. NothingInFront'
  BY <1>8 DEF NothingInFront
<1>11. QED
  BY <1>4, <1>6, <1>7, <1>9, <1>10

LEMMA GetFrameStatisticsTable ==
  ASSUME IInv, GetFrameStatistics
  PROVE  TableMatchesFrames'
<1> DEFINE n == Len(handed)
<1>1. TypeOK /\ Handover /\ TableMatchesFrames
  BY DEF IInv
<1>2. /\ n \in Nat \ {0} /\ n \in DOMAIN handed /\ handed' = handed
      /\ FrameStat.FrameType = handed[n].type /\ RowOfFrame = GobOf(n)
      /\ \A g, t : FramesOf(g, t)' =
           IF g = RowOfFrame /\ t = handed[n].type THEN FramesOf(g, t) \cup {n} ELSE FramesOf(g, t)
      /\ \A g, t : n \notin FramesOf(g, t)
  BY SummingFrames
<1> HIDE DEF n
<1>3. ASSUME NEW g \in TableRows, NEW t \in FrameTypes
      PROVE  SeqStat'[g][t].FrameCnt = Cardinality(FramesOf(g, t)')
  <2>1. SeqStat'[g][t].FrameCnt = SeqStat[g][t].FrameCnt
          + (IF g = RowOfFrame /\ t = FrameStat.FrameType THEN 1 ELSE 0)
    BY <1>1, SummingStep
  <2>2. SeqStat[g][t].FrameCnt = Cardinality(FramesOf(g, t))
    BY <1>1 DEF TableMatchesFrames, TableRows
  <2>3. IsFiniteSet(FramesOf(g, t)) /\ Cardinality(FramesOf(g, t)) \in Nat
    BY <1>1, GroupsFinite
  <2>4. CASE g = RowOfFrame /\ t = FrameStat.FrameType
    <3>1. FramesOf(g, t)' = FramesOf(g, t) \cup {n} /\ n \notin FramesOf(g, t)
      BY <1>2, <2>4
    <3>2. Cardinality(FramesOf(g, t) \cup {n}) = Cardinality(FramesOf(g, t)) + 1
      BY <2>3, <3>1, FS_AddElement
    <3>3. QED
      BY <2>1, <2>2, <2>4, <3>1, <3>2
  <2>5. CASE ~(g = RowOfFrame /\ t = FrameStat.FrameType)
    <3>1. FramesOf(g, t)' = FramesOf(g, t)
      BY <1>2, <2>5
    <3>2. QED
      BY <2>1, <2>2, <2>3, <2>5, <3>1
  <2>6. QED
    BY <2>4, <2>5
<1>4. ASSUME handed # <<>>, handed[1].type = 1
      PROVE  \A t \in FrameTypes : SeqStat'[-1][t] = ZeroEntry
  <2>1. \A t \in FrameTypes : SeqStat[-1][t] = ZeroEntry
    BY <1>1, <1>4 DEF TableMatchesFrames
  <2>2. RowOfFrame # -1
    <3>1. 0 <= GobOf(1)
      <4>1. GobOf(0) = -1 /\ GobOf(1) = IF GobOf(0) + 1 < LastRow THEN GobOf(0) + 1 ELSE LastRow
        BY <1>4, GobZero, GobNext
      <4>2. QED
        BY <4>1, BoundAssumption
    <3>2. GobOf(1) <= GobOf(n) /\ GobOf(1) \in TableRows /\ GobOf(n) \in TableRows
      <4>1. 1 \in Nat /\ n \in Nat /\ 1 <= n
        BY <1>2
      <4>2. QED
        BY <4>1, GobMonotone
    <3>3. QED
      BY <1>2, <3>1, <3>2, BoundAssumption DEF TableRows
  <2>3. SeqStat'[-1] = SeqStat[-1]
    BY <1>1, <2>2, SummingStep
  <2>4. QED
    BY <2>1, <2>3
<1>5. QED
  BY <1>2, <1>3, <1>4 DEF TableMatchesFrames, TableRows

(* The rows up to GOB_Cnt and the row of the frame that is summed. *)
LEMMA RowsInTable ==
  ASSUME TypeOK
  PROVE  /\ \A g \in 0 .. GOB_Cnt : g \in TableRows /\ g \in Nat
         /\ 0 \in FrameTypes /\ 1 \in FrameTypes \ {3}
         /\ GOB_Cnt \in TableRows
         /\ RowOfFrame \in {GOB_Cnt, GOB_Cnt + 1}
         /\ ~OpensGOB => RowOfFrame = GOB_Cnt
         /\ OpensGOB => RowOfFrame = GOB_Cnt + 1 \/ GOB_Cnt = LastRow
  BY BoundAssumption DEF TypeOK, TableRows, FrameTypes, RowOfFrame

LEMMA NumbersShape ==
  ASSUME IInv
  PROVE  /\ \A i \in 0 .. Len(handed) : NoOf(i) \in Nat
         /\ NoOf(LastSummed) \in Nat
<1>1. TypeOK /\ Handover
  BY DEF IInv
<1>2. Len(handed) \in Nat /\ DOMAIN handed = 1 .. Len(handed)
  BY <1>1, HandedLength
<1>3. \A i \in DOMAIN handed : handed[i].no \in Nat
  BY <1>1, FrameShape
<1>4. \A i \in 0 .. Len(handed) : NoOf(i) \in Nat
  BY <1>2, <1>3 DEF NoOf
<1>5. LastSummed \in 0 .. Len(handed)
  <2>1. LastSummed \in Nat
    BY <1>1, SummedShape
  <2>2. QED
    BY <1>2, <2>1 DEF LastSummed
<1>6. QED
  BY <1>4, <1>5

(* Numbers of the frame being summed and of the one before it. *)
LEMMA SummingNumbers ==
  ASSUME IInv, GetFrameStatistics
  PROVE  LET n == Len(handed) IN
         /\ NoOf(LastSummed) \in Nat
         /\ NoOf(LastSummed)' = PicCnt /\ PicCnt \in Nat
         /\ PicCnt = NoOf(LastSummed) + (IF handed[n].numbered THEN 1 ELSE 0)
         /\ OpensGOB /\ PicCnt > 0 => handed[n].numbered
<1> DEFINE n == Len(handed)
<1>1. /\ n \in Nat \ {0} /\ n \in DOMAIN handed /\ handed' = handed /\ PicCnt = handed[n].no
      /\ LastSummed = n - 1 /\ LastSummed' = n
      /\ OpensGOB <=> (handed[n].type = 1 \/ handed[n].no = 0)
  BY SummingFrames
<1> HIDE DEF n
<1>2. /\ handed[n].type = 1 => handed[n].numbered
      /\ handed[n].no = NoOf(n - 1) + (IF handed[n].numbered THEN 1 ELSE 0)
  BY <1>1 DEF IInv, Numbering
<1>3. NoOf(LastSummed)' = PicCnt
  BY <1>1 DEF NoOf
<1>4. QED
  BY <1>1, <1>2, <1>3, NumbersShape DEF n, IInv, TypeOK

LEMMA GetFrameStatisticsStarts ==
  ASSUME IInv, GetFrameStatistics
  PROVE  RowStarts'
<1>1. TypeOK /\ RowStarts /\ GOB_Cnt' = RowOfFrame
  BY DEF IInv, GetFrameStatistics
<1>2. /\ NoOf(LastSummed) \in Nat /\ NoOf(LastSummed)' = PicCnt /\ PicCnt \in Nat
      /\ PicCnt >= NoOf(LastSummed)
  BY SummingNumbers
<1> SUFFICES ASSUME NEW g \in 0 .. RowOfFrame, NEW t \in FrameTypes
             PROVE  /\ SeqStat'[g][t].FirstFrame = SeqStat'[g][0].FirstFrame
                    /\ SeqStat'[g][t].FirstFrame <= PicCnt
  BY <1>1, <1>2 DEF RowStarts
<1>3. g \in TableRows /\ 0 \in FrameTypes /\ RowOfFrame \in TableRows
  <2>1. RowOfFrame \in TableRows /\ 0 \in FrameTypes
    BY <1>1, SummingStep, RowsInTable
  <2>2. QED
    BY <2>1, BoundAssumption DEF TableRows
<1>4. \A u \in FrameTypes : SeqStat'[g][u].FirstFrame =
        IF OpensGOB /\ g = RowOfFrame THEN PicCnt ELSE SeqStat[g][u].FirstFrame
  BY <1>1, <1>3, SummingStep
<1>5. CASE OpensGOB /\ g = RowOfFrame
  BY <1>2, <1>3, <1>4, <1>5
<1>6. CASE ~(OpensGOB /\ g = RowOfFrame)
  <2>1. g \in 0 .. GOB_Cnt
    BY <1>1, <1>6, RowsInTable DEF TypeOK
  <2>2. /\ SeqStat[g][t].FirstFrame = SeqStat[g][0].FirstFrame
        /\ SeqStat[g][t].FirstFrame <= NoOf(LastSummed)
    BY <1>1, <2>1 DEF RowStarts
  <2>3. SeqStat[g][t].FirstFrame \in Nat
    BY <1>1, <1>3, CellShape DEF TypeOK, TableRows
  <2>4. QED
    BY <1>2, <1>3, <1>4, <1>6, <2>2, <2>3
<1>7. QED
  BY <1>5, <1>6

LEMMA GetFrameStatisticsCurrent ==
  ASSUME IInv, GetFrameStatistics
  PROVE  CurrentRowLength'
<1> DEFINE n == Len(handed)
<1> PICK r : r = RowOfFrame
  OBVIOUS
<1>1. TypeOK /\ Handover /\ CurrentRowLength /\ CounterAgrees /\ GOB_Cnt' = r
  BY DEF IInv, GetFrameStatistics
<1>2. /\ n \in Nat \ {0} /\ r = GobOf(n) /\ LastSummed = n - 1 /\ Summed = 1 .. n - 1
      /\ \A g : NumberedOf(g)' =
           IF g = r /\ handed[n].numbered THEN NumberedOf(g) \cup {n} ELSE NumberedOf(g)
      /\ \A g : n \notin NumberedOf(g)
  BY SummingFrames
<1>3. /\ NoOf(LastSummed) \in Nat /\ NoOf(LastSummed)' = PicCnt /\ PicCnt \in Nat
      /\ PicCnt = NoOf(LastSummed) + (IF handed[n].numbered THEN 1 ELSE 0)
      /\ OpensGOB /\ PicCnt > 0 => handed[n].numbered
  BY SummingNumbers
<1>4. 0 \in FrameTypes /\ r \in {GOB_Cnt, GOB_Cnt + 1} /\ GOB_Cnt \in TableRows
      /\ (~OpensGOB => r = GOB_Cnt) /\ (OpensGOB => r = GOB_Cnt + 1 \/ GOB_Cnt = LastRow)
      /\ r \in TableRows
  BY <1>1, RowsInTable, SummingStep
<1>5. /\ IsFiniteSet(NumberedOf(r)) /\ Cardinality(NumberedOf(r)) \in Nat
  BY <1>1, GroupsFinite
<1>6. SeqStat'[r][0].FirstFrame = IF OpensGOB THEN PicCnt ELSE SeqStat[r][0].FirstFrame
  BY <1>1, <1>4, SummingStep
<1>7. SeqStat[r][0].FirstFrame \in Nat
  BY <1>1, <1>4, CellShape DEF TypeOK, TableRows
<1> SUFFICES ASSUME r \in 0 .. LastRow - 1, SeqStat'[r][0].FirstFrame > 0
             PROVE  Cardinality(NumberedOf(r)') = PicCnt - SeqStat'[r][0].FirstFrame + 1
  <2>1. NumberedOf(GOB_Cnt)' = NumberedOf(r)'
    BY <1>1
  <2>2. QED
    BY <1>1, <1>3, <2>1 DEF CurrentRowLength
<1> HIDE DEF n
<1>8. CASE OpensGOB
  <2>1. PicCnt > 0 /\ handed[n].numbered
    BY <1>3, <1>6, <1>8
  <2>2. r = GOB_Cnt + 1
    BY <1>4, <1>8, BoundAssumption DEF TableRows
  <2>3. NumberedOf(r) = {}
    <3>1. ASSUME NEW i \in 1 .. n - 1 PROVE GobOf(i) # r
      <4>1. i \in Nat /\ n - 1 \in Nat /\ i <= n - 1
        BY <1>2
      <4>2. GobOf(i) <= GobOf(n - 1) /\ GobOf(i) \in TableRows
        BY <4>1, GobMonotone
      <4>3. GobOf(n - 1) = GOB_Cnt
        BY <1>1, <1>2 DEF CounterAgrees
      <4>4. QED
        BY <1>4, <2>2, <4>2, <4>3 DEF TableRows
    <3>2. QED
      BY <1>2, <3>1 DEF NumberedOf
  <2>4. NumberedOf(r)' = {n}
    BY <1>2, <2>1, <2>3
  <2>5. Cardinality(NumberedOf(r)') = 1
    BY <2>4, FS_Singleton
  <2>6. QED
    BY <1>3, <1>6, <1>8, <2>5
<1>9. CASE ~OpensGOB
  <2>1. r = GOB_Cnt /\ GOB_Cnt \in 0 .. LastRow - 1 /\ SeqStat[r][0].FirstFrame > 0
        /\ SeqStat'[r][0].FirstFrame = SeqStat[r][0].FirstFrame
    BY <1>4, <1>6, <1>9
  <2>2. Cardinality(NumberedOf(r)) = NoOf(LastSummed) - SeqStat[r][0].FirstFrame + 1
    BY <1>1, <2>1 DEF CurrentRowLength
  <2>3. CASE handed[n].numbered
    <3>1. NumberedOf(r)' = NumberedOf(r) \cup {n} /\ n \notin NumberedOf(r)
      BY <1>2, <2>3
    <3>2. Cardinality(NumberedOf(r) \cup {n}) = Cardinality(NumberedOf(r)) + 1
      BY <1>5, <3>1, FS_AddElement
    <3>3. QED
      BY <1>3, <1>5, <1>7, <2>1, <2>2, <2>3, <3>1, <3>2
  <2>4. CASE ~handed[n].numbered
    <3>1. NumberedOf(r)' = NumberedOf(r)
      BY <1>2, <2>4
    <3>2. QED
      BY <1>3, <2>1, <2>2, <2>4, <3>1
  <2>5. QED
    BY <2>3, <2>4
<1>10. QED
  BY <1>8, <1>9

LEMMA GetFrameStatisticsClosed ==
  ASSUME IInv, GetFrameStatistics
  PROVE  ClosedRowLength' /\ ClosedOnce'
<1> DEFINE n == Len(handed)
<1> PICK r : r = RowOfFrame
  OBVIOUS
<1>1. /\ TypeOK /\ RowStarts /\ CurrentRowLength /\ ClosedRowLength /\ ClosedOnce
      /\ GOB_Cnt' = r
  BY DEF IInv, GetFrameStatistics
<1>2. \A g : NumberedOf(g)' =
           IF g = r /\ handed[n].numbered THEN NumberedOf(g) \cup {n} ELSE NumberedOf(g)
  BY SummingFrames
<1>3. /\ NoOf(LastSummed) \in Nat /\ PicCnt \in Nat
      /\ PicCnt = NoOf(LastSummed) + (IF handed[n].numbered THEN 1 ELSE 0)
      /\ OpensGOB /\ PicCnt > 0 => handed[n].numbered
  BY SummingNumbers
<1>4. r \in {GOB_Cnt, GOB_Cnt + 1} /\ GOB_Cnt \in TableRows /\ 0 \in FrameTypes
      /\ (~OpensGOB => r = GOB_Cnt) /\ r \in TableRows
  BY <1>1, RowsInTable, SummingStep
<1> SUFFICES ASSUME NEW g \in 0 .. r - 1, NEW t \in FrameTypes \ {3},
                    SeqStat'[g][t].FirstFrame > 0
             PROVE  /\ SeqStat'[g][t].NumFrames = Cardinality(NumberedOf(g)')
                    /\ SeqStat'[g][t].NumFrames > 0
  BY <1>1 DEF ClosedRowLength, ClosedOnce
<1> HIDE DEF n
<1>5. g # r /\ g \in 0 .. GOB_Cnt /\ g \in TableRows /\ t \in FrameTypes
  BY <1>4, BoundAssumption DEF TableRows, FrameTypes
<1>6. NumberedOf(g)' = NumberedOf(g)
  BY <1>2, <1>5
<1>7. SeqStat'[g][t].FirstFrame = SeqStat[g][t].FirstFrame
  BY <1>1, <1>5, SummingStep
<1>8. CASE g = GOB_Cnt
  <2>1. OpensGOB /\ GOB_Cnt >= 0 /\ GOB_Cnt \in 0 .. LastRow - 1
    BY <1>4, <1>5, <1>8, BoundAssumption DEF TableRows
  <2>2. PICK u \in FrameTypes :
          SeqStat'[GOB_Cnt][t].NumFrames = PicCnt - SeqStat[GOB_Cnt][u].FirstFrame
    BY <1>1, <2>1, SummingStep
  <2>3. /\ SeqStat[g][u].FirstFrame = SeqStat[g][0].FirstFrame
        /\ SeqStat[g][t].FirstFrame = SeqStat[g][0].FirstFrame
        /\ SeqStat[g][0].FirstFrame <= NoOf(LastSummed)
    BY <1>1, <1>4, <1>5 DEF RowStarts
  <2>4. SeqStat[g][0].FirstFrame \in Nat
    BY <1>1, <1>4, <1>5, CellShape DEF TypeOK, TableRows
  <2>5. Cardinality(NumberedOf(g)) = NoOf(LastSummed) - SeqStat[g][0].FirstFrame + 1
    BY <1>1, <1>7, <1>8, <2>1, <2>3 DEF CurrentRowLength
  <2>6. PicCnt = NoOf(LastSummed) + 1
    BY <1>3, <1>7, <2>1, <2>3, <2>4
  <2>7. QED
    BY <1>3, <1>6, <1>8, <2>2, <2>3, <2>4, <2>5, <2>6
<1>9. CASE g # GOB_Cnt
  <2>1. g \in 0 .. GOB_Cnt - 1
    BY <1>4, <1>5, <1>9 DEF TableRows
  <2>2. SeqStat'[g] = SeqStat[g]
    BY <1>1, <1>5, <1>9, SummingStep
  <2>3. QED
    BY <1>1, <1>6, <2>1, <2>2 DEF ClosedRowLength, ClosedOnce
<1>10. QED
  BY <1>8, <1>9

-----------------------------------------------------------------------------
(* The other actions.                                                      *)

(* Apart from the table, the invariant is about these. *)
LEMMA SameFrames ==
  ASSUME IInv, UNCHANGED <<Codec, Started, PicCnt, GOB_Cnt, FrameStat, CurrGOB, handed>>,
         pc # "got", pc' \in {"read", "end"}
  PROVE  /\ LastSummed' = LastSummed
         /\ NoOf(LastSummed)' = NoOf(LastSummed)
         /\ \A g, t : FramesOf(g, t)' = FramesOf(g, t)
         /\ \A g : NumberedOf(g)' = NumberedOf(g)
         /\ Handover' /\ Numbering' /\ CounterAgrees'
<1>1. LastSummed' = LastSummed /\ Summed' = Summed
  BY DEF LastSummed, Summed
<1>2. \A i : NoOf(i)' = NoOf(i)
  BY DEF NoOf
<1>3. \A i : GobOf(i)' = GobOf(i)
  BY Zenon DEF GobOf
<1>4. NoOf(LastSummed)' = NoOf(LastSummed)
  BY <1>1 DEF NoOf
<1>5. /\ \A g, t : FramesOf(g, t)' = FramesOf(g, t)
      /\ \A g : NumberedOf(g)' = NumberedOf(g)
  BY <1>1, <1>3 DEF FramesOf, NumberedOf
<1>6. Handover'
  BY <1>2 DEF IInv, Handover
<1>7. Numbering'
  BY <1>2 DEF IInv, Numbering
<1>8. CounterAgrees'
  BY <1>1, <1>3 DEF IInv, CounterAgrees
<1>9. QED
  BY <1>1, <1>4, <1>5, <1>6, <1>7, <1>8

LEMMA EndOfStreamIInv == IInv /\ EndOfStream => IInv'
<1> SUFFICES ASSUME IInv, EndOfStream PROVE IInv'
  OBVIOUS
<1>1. /\ UNCHANGED <<Codec, Started, PicCnt, GOB_Cnt, FrameStat, CurrGOB, handed>>
      /\ UNCHANGED <<SeqStat, nextRow>>
      /\ pc # "got" /\ pc' = "end"
  BY DEF EndOfStream
<1>2. /\ LastSummed' = LastSummed /\ NoOf(LastSummed)' = NoOf(LastSummed)
      /\ \A g, t : FramesOf(g, t)' = FramesOf(g, t)
      /\ \A g : NumberedOf(g)' = NumberedOf(g)
      /\ Handover' /\ Numbering' /\ CounterAgrees'
  BY <1>1, SameFrames
<1>3. TypeOK'
  BY <1>1 DEF IInv, TypeOK
<1>4. TableMatchesFrames'
  BY <1>1, <1>2 DEF IInv, TableMatchesFrames
<1>5. RowStarts' /\ CurrentRowLength' /\ ClosedRowLength' /\ ClosedOnce' /\ NothingInFront'
  BY <1>1, <1>2
     DEF IInv, RowStarts, CurrentRowLength, ClosedRowLength, ClosedOnce, NothingInFront
<1>6. QED
  BY <1>2, <1>3, <1>4, <1>5 DEF IInv

(* Averaging closes the row that is still open and leaves the counts.      *)
LEMMA AveragingStep ==
  ASSUME TypeOK, CurrGOB = GOB_Cnt, GetSeqStatistic
  PROVE  /\ nextRow \in 0 .. GOB_Cnt /\ nextRow \in TableRows /\ nextRow # -1
         /\ SeqStat' \in [TableRows -> [FrameTypes -> Entry]]
         /\ \A g \in TableRows \ {nextRow} : SeqStat'[g] = SeqStat[g]
         /\ \A g \in TableRows, t \in FrameTypes :
              /\ SeqStat'[g][t].FrameCnt = SeqStat[g][t].FrameCnt
              /\ SeqStat'[g][t].FirstFrame = SeqStat[g][t].FirstFrame
              /\ SeqStat'[g][t].sum[Intra] = SeqStat[g][t].sum[Intra]
         /\ \A t \in 1 .. 3 :
              SeqStat'[nextRow][t].den[Intra] =
                IF SeqStat[nextRow][t].FrameCnt = 0 THEN SeqStat[nextRow][t].den[Intra]
                ELSE SeqStat[nextRow][t].den[Intra] * SeqStat[nextRow][t].FrameCnt
         /\ SeqStat[nextRow][1].NumFrames # 0 =>
              \A t \in FrameTypes : SeqStat'[nextRow][t].NumFrames = SeqStat[nextRow][t].NumFrames
<1>1. /\ SeqStat \in [TableRows -> [FrameTypes -> Entry]]
      /\ nextRow \in 0 .. GOB_Cnt /\ nextRow \in TableRows /\ nextRow # -1
  BY BoundAssumption DEF TypeOK, TableRows, GetSeqStatistic
<1>2. PICK late \in BOOLEAN :
        LET S == IF SeqStat[nextRow][1].NumFrames = 0
                 THEN Closed(SeqStat, nextRow, late) ELSE SeqStat
        IN SeqStat' = [S EXCEPT ![nextRow] =
                         [t \in FrameTypes |-> IF t = 0 THEN @[t] ELSE Averaged(@[t])]]
  BY DEF GetSeqStatistic
<1> DEFINE open == SeqStat[nextRow][1].NumFrames = 0
           S == IF open THEN Closed(SeqStat, nextRow, late) ELSE SeqStat
           cell(t) == IF t = 0 THEN S[nextRow][t] ELSE Averaged(S[nextRow][t])
<1>3. SeqStat' = [S EXCEPT ![nextRow] = [t \in FrameTypes |-> cell(t)]]
  BY <1>2
<1>4. /\ S \in [TableRows -> [FrameTypes -> Entry]]
      /\ \A h \in TableRows \ {nextRow} : S[h] = SeqStat[h]
      /\ \A t \in FrameTypes :
           /\ S[nextRow][t].FirstFrame = SeqStat[nextRow][t].FirstFrame
           /\ S[nextRow][t].FrameCnt = SeqStat[nextRow][t].FrameCnt
           /\ SameFigures(S[nextRow][t], SeqStat[nextRow][t])
           /\ ~open => S[nextRow][t].NumFrames = SeqStat[nextRow][t].NumFrames
  <2>1. CASE open
    <3>1. S = Closed(SeqStat, nextRow, late)
      BY <2>1
    <3> HIDE DEF S
    <3>2. QED
      BY <1>1, <2>1, <3>1, ClosedTable
  <2>2. CASE ~open
    BY <1>1, <2>2 DEF SameFigures
  <2>3. QED
    BY <2>1, <2>2
<1> HIDE DEF S, open
<1>5. ASSUME NEW t \in FrameTypes
      PROVE  /\ cell(t) \in Entry
             /\ cell(t).FirstFrame = S[nextRow][t].FirstFrame
             /\ cell(t).NumFrames = S[nextRow][t].NumFrames
             /\ cell(t).FrameCnt = S[nextRow][t].FrameCnt
             /\ cell(t).sum = S[nextRow][t].sum
             /\ t # 0 => cell(t).den[Intra] =
                  IF S[nextRow][t].FrameCnt = 0 THEN S[nextRow][t].den[Intra]
                  ELSE S[nextRow][t].den[Intra] * S[nextRow][t].FrameCnt
  <2>1. S[nextRow][t] \in Entry
    BY <1>1, <1>4, CellShape
  <2>2. QED
    BY <2>1, AveragedEntry
<1> HIDE DEF cell
<1>6. /\ SeqStat' \in [TableRows -> [FrameTypes -> Entry]]
      /\ \A g \in TableRows \ {nextRow} : SeqStat'[g] = S[g]
      /\ \A t \in FrameTypes : SeqStat'[nextRow][t] = cell(t)
  <2>1. [t \in FrameTypes |-> cell(t)] \in [FrameTypes -> Entry]
    BY <1>5
  <2>2. QED
    BY <1>1, <1>3, <1>4, <2>1
<1>7. \A g \in TableRows, t \in FrameTypes :
        /\ SeqStat'[g][t].FrameCnt = SeqStat[g][t].FrameCnt
        /\ SeqStat'[g][t].FirstFrame = SeqStat[g][t].FirstFrame
        /\ SeqStat'[g][t].sum[Intra] = SeqStat[g][t].sum[Intra]
  BY <1>4, <1>5, <1>6 DEF SameFigures
<1>8. SeqStat[nextRow][1].NumFrames # 0 =>
        \A t \in FrameTypes : SeqStat'[nextRow][t].NumFrames = SeqStat[nextRow][t].NumFrames
  BY <1>4, <1>5, <1>6 DEF open
<1>9. \A t \in 1 .. 3 :
        SeqStat'[nextRow][t].den[Intra] =
          IF SeqStat[nextRow][t].FrameCnt = 0 THEN SeqStat[nextRow][t].den[Intra]
          ELSE SeqStat[nextRow][t].den[Intra] * SeqStat[nextRow][t].FrameCnt
  <2>1. \A t \in 1 .. 3 : t \in FrameTypes /\ t # 0
    BY DEF FrameTypes
  <2>2. QED
    BY <1>4, <1>5, <1>6, <2>1 DEF SameFigures
<1>10. QED
  BY <1>1, <1>4, <1>6, <1>7, <1>8, <1>9

LEMMA GetSeqStatisticIInv == IInv /\ GetSeqStatistic => IInv'
<1> SUFFICES ASSUME IInv, GetSeqStatistic PROVE IInv'
  OBVIOUS
<1>1. /\ UNCHANGED <<Codec, Started, PicCnt, GOB_Cnt, FrameStat, CurrGOB, handed, pc>>
      /\ pc = "end" /\ nextRow' = nextRow + 1
  BY DEF GetSeqStatistic
<1>2. /\ LastSummed' = LastSummed /\ NoOf(LastSummed)' = NoOf(LastSummed)
      /\ \A g, t : FramesOf(g, t)' = FramesOf(g, t)
      /\ \A g : NumberedOf(g)' = NumberedOf(g)
      /\ Handover' /\ Numbering' /\ CounterAgrees'
  BY <1>1, SameFrames
<1>3. TypeOK /\ CurrGOB = GOB_Cnt
  BY DEF IInv, Handover
<1>4. /\ nextRow \in 0 .. GOB_Cnt /\ nextRow \in TableRows /\ nextRow # -1
      /\ SeqStat' \in [TableRows -> [FrameTypes -> Entry]]
      /\ \A g \in TableRows \ {nextRow} : SeqStat'[g] = SeqStat[g]
      /\ \A g \in TableRows, t \in FrameTypes :
           /\ SeqStat'[g][t].FrameCnt = SeqStat[g][t].FrameCnt
           /\ SeqStat'[g][t].FirstFrame = SeqStat[g][t].FirstFrame
      /\ SeqStat[nextRow][1].NumFrames # 0 =>
           \A t \in FrameTypes : SeqStat'[nextRow][t].NumFrames = SeqStat[nextRow][t].NumFrames
  BY <1>3, AveragingStep
<1>5. /\ \A g \in 0 .. GOB_Cnt : g \in TableRows
      /\ 0 \in FrameTypes /\ 1 \in FrameTypes \ {3}
      /\ GOB_Cnt \in TableRows /\ -1 \in TableRows
  BY <1>3, RowsInTable, BoundAssumption DEF TableRows
<1>6. TypeOK'
  <2>1. nextRow' \in 0 .. LastRow + 1
    BY <1>1, <1>4, BoundAssumption DEF TableRows
  <2>2. QED
    BY <1>1, <1>3, <1>4, <2>1 DEF TypeOK, TableRows
<1>7. TableMatchesFrames'
  <2>1. \A g \in TableRows : \A t \in FrameTypes :
          SeqStat'[g][t].FrameCnt = Cardinality(FramesOf(g, t)')
    BY <1>2, <1>4 DEF IInv, TableMatchesFrames, TableRows
  <2>2. SeqStat'[-1] = SeqStat[-1]
    BY <1>4, <1>5
  <2>3. QED
    BY <1>1, <2>1, <2>2 DEF IInv, TableMatchesFrames, TableRows
<1>8. RowStarts'
  <2> SUFFICES ASSUME NEW g \in 0 .. GOB_Cnt, NEW t \in FrameTypes
               PROVE  /\ SeqStat'[g][t].FirstFrame = SeqStat'[g][0].FirstFrame
                      /\ SeqStat'[g][t].FirstFrame <= NoOf(LastSummed)
    BY <1>1, <1>2 DEF RowStarts
  <2>1. /\ SeqStat[g][t].FirstFrame = SeqStat[g][0].FirstFrame
        /\ SeqStat[g][t].FirstFrame <= NoOf(LastSummed)
    BY DEF IInv, RowStarts
  <2>2. QED
    BY <1>4, <1>5, <2>1
<1>9. CurrentRowLength'
  <2>1. NumberedOf(GOB_Cnt)' = NumberedOf(GOB_Cnt)
    BY <1>1, <1>2
  <2>2. SeqStat'[GOB_Cnt][0].FirstFrame = SeqStat[GOB_Cnt][0].FirstFrame
    BY <1>4, <1>5
  <2>3. QED
    BY <1>1, <1>2, <2>1, <2>2 DEF IInv, CurrentRowLength
<1>10. ASSUME NEW g \in 0 .. GOB_Cnt - 1, NEW t \in FrameTypes \ {3},
              SeqStat'[g][t].FirstFrame > 0
       PROVE  SeqStat'[g][t].NumFrames = SeqStat[g][t].NumFrames
              /\ SeqStat[g][t].FirstFrame > 0
  <2>1. g \in 0 .. GOB_Cnt /\ g \in TableRows /\ t \in FrameTypes
    BY <1>5 DEF TableRows
  <2>2. SeqStat'[g][t].FirstFrame = SeqStat[g][t].FirstFrame
    BY <1>4, <2>1
  <2>3. CASE g = nextRow
    <3>1. SeqStat[g][1].FirstFrame = SeqStat[g][t].FirstFrame
      BY <1>5, <2>1 DEF IInv, RowStarts
    <3>2. SeqStat[g][1].NumFrames > 0
      BY <1>5, <1>10, <2>2, <3>1 DEF IInv, ClosedOnce
    <3>3. QED
      BY <1>4, <1>10, <2>1, <2>2, <2>3, <3>2
  <2>4. CASE g # nextRow
    BY <1>4, <1>10, <2>1, <2>2, <2>4
  <2>5. QED
    BY <2>3, <2>4
<1>11. ClosedRowLength' /\ ClosedOnce'
  BY <1>1, <1>2, <1>10 DEF IInv, ClosedRowLength, ClosedOnce
<1>12. NothingInFront'
  <2>1. SeqStat'[-1] = SeqStat[-1]
    BY <1>4, <1>5
  <2>2. QED
    BY <1>2, <2>1 DEF IInv, NothingInFront
<1>13. QED
  BY <1>2, <1>6, <1>7, <1>8, <1>9, <1>11, <1>12 DEF IInv

LEMMA StutterIInv == IInv /\ UNCHANGED vars => IInv'
<1> SUFFICES ASSUME IInv, UNCHANGED vars PROVE IInv'
  OBVIOUS
<1>1. UNCHANGED <<Codec, Started, PicCnt, GOB_Cnt, FrameStat, SeqStat, CurrGOB, nextRow, handed, pc>>
  BY DEF vars
<1>2. LastSummed' = LastSummed /\ Summed' = Summed
  BY <1>1 DEF LastSummed, Summed
<1>3. /\ \A i : NoOf(i)' = NoOf(i)
      /\ \A i : GobOf(i)' = GobOf(i)
  BY <1>1, Zenon DEF GobOf, NoOf
<1>4. /\ \A g, t : FramesOf(g, t)' = FramesOf(g, t)
      /\ \A g : NumberedOf(g)' = NumberedOf(g)
      /\ NoOf(LastSummed)' = NoOf(LastSummed)
  BY <1>1, <1>2, <1>3 DEF FramesOf, NumberedOf, NoOf
<1>5. TypeOK'
  BY <1>1 DEF IInv, TypeOK
<1>6. Handover' /\ Numbering' /\ CounterAgrees'
  BY <1>1, <1>2, <1>3 DEF IInv, Handover, Numbering, CounterAgrees
<1>7. TableMatchesFrames'
  BY <1>1, <1>4 DEF IInv, TableMatchesFrames
<1>8. RowStarts' /\ CurrentRowLength' /\ ClosedRowLength' /\ ClosedOnce' /\ NothingInFront'
  BY <1>1, <1>2, <1>4
     DEF IInv, RowStarts, CurrentRowLength, ClosedRowLength, ClosedOnce, NothingInFront
<1>9. QED
  BY <1>5, <1>6, <1>7, <1>8 DEF IInv

-----------------------------------------------------------------------------
(* The invariant holds in every reachable state. *)
THEOREM TableInvariance == Spec => []IInv
<1>1. Init => IInv
  BY InitIInv
<1>2. IInv /\ [Next]_vars => IInv'
  <2> SUFFICES ASSUME IInv, [Next]_vars PROVE IInv'
    OBVIOUS
  <2>1. CASE \E p \in Decoded(Codec) : AnalysePacket(p)
    BY <2>1, AnalysePacketIInv
  <2>2. CASE GetFrameStatistics
    BY <2>2, GetFrameStatisticsType, GetFrameStatisticsTable, GetFrameStatisticsStarts,
       GetFrameStatisticsCurrent, GetFrameStatisticsClosed DEF IInv
  <2>3. CASE EndOfStream
    BY <2>3, EndOfStreamIInv
  <2>4. CASE GetSeqStatistic
    BY <2>4, GetSeqStatisticIInv
  <2>5. CASE UNCHANGED vars
    BY <2>5, StutterIInv
  <2>6. QED
    BY <2>1, <2>2, <2>3, <2>4, <2>5 DEF Next, Finished
<1>3. QED
  BY <1>1, <1>2, PTL DEF Spec

(* Every variable stays in its type: no row outside the table is ever      *)
(* opened, however many groups of pictures a stream has.                   *)
THEOREM TableTypeCorrectness == Spec => []TypeOK
<1>1. IInv => TypeOK
  BY DEF IInv
<1>2. QED
  BY <1>1, TableInvariance, PTL

(* GetFrameStatistics counts every frame once, in the row of its group and *)
(* the column of its type, and writes nothing in front of the table if the *)
(* session starts with an intra frame.                                     *)
THEOREM EveryFrameInItsRow == Spec => []TableMatchesFrames
<1>1. IInv => TableMatchesFrames
  BY DEF IInv
<1>2. QED
  BY <1>1, TableInvariance, PTL

(* A closed row states the number of pictures of its group.                *)
THEOREM ClosedRowsCountPictures == Spec => []ClosedRowLength
<1>1. IInv => ClosedRowLength
  BY DEF IInv
<1>2. QED
  BY <1>1, TableInvariance, PTL

(* As long as frames arrive, GetFrameStatistics changes the row of the     *)
(* current group and the row it opens, never an earlier one.               *)
THEOREM EarlierRowsStay == Spec => EarlierRowsFixed
<1> DEFINE A == pc # "end" => \A g \in 0 .. GOB_Cnt - 1 : SeqStat'[g] = SeqStat[g]
<1>1. IInv /\ [Next]_vars => [A]_vars
  <2> SUFFICES ASSUME IInv, Next, pc # "end", NEW g \in 0 .. GOB_Cnt - 1
               PROVE  SeqStat'[g] = SeqStat[g]
    OBVIOUS
  <2>1. CASE \E p \in Decoded(Codec) : AnalysePacket(p)
    BY <2>1 DEF AnalysePacket
  <2>2. CASE GetFrameStatistics
    <3>1. TypeOK
      BY DEF IInv
    <3>2. g \in TableRows /\ g # GOB_Cnt /\ g # RowOfFrame
      <4>1. g \in 0 .. GOB_Cnt /\ GOB_Cnt \in TableRows /\ RowOfFrame \in TableRows
            /\ RowOfFrame >= GOB_Cnt
        BY <2>2, <3>1, SummingStep DEF TypeOK, TableRows
      <4>2. QED
        BY <4>1, BoundAssumption DEF TableRows
    <3>3. QED
      BY <2>2, <3>1, <3>2, SummingStep
  <2>3. CASE EndOfStream
    BY <2>3 DEF EndOfStream
  <2>4. CASE GetSeqStatistic
    BY <2>4 DEF GetSeqStatistic
  <2>5. CASE Finished
    BY <2>5 DEF Finished, vars
  <2>6. QED
    BY <2>1, <2>2, <2>3, <2>4, <2>5 DEF Next
<1>2. QED
  BY <1>1, TableInvariance, PTL DEF Spec, EarlierRowsFixed

-----------------------------------------------------------------------------
(* The averages.                                                           *)

ValueOf == [i \in DOMAIN handed |-> handed[i].val[Intra]]

(* Every entry sums the frames of its row and column. *)
Sums ==
  \A g \in TableRows : \A t \in FrameTypes :
    SeqStat[g][t].sum[Intra] = Total(ValueOf, FramesOf(g, t))

(* A sum is divided when its row is averaged, and only then. *)
Divisors ==
  /\ pc # "end" => nextRow = 0
  /\ \A g \in Rows : \A t \in 1 .. 3 :
       SeqStat[g][t].den[Intra] = IF g < nextRow /\ SeqStat[g][t].FrameCnt > 0
                                  THEN SeqStat[g][t].FrameCnt ELSE 1

AInv == Sums /\ Divisors

(* The fold that the average is stated with is the total. *)
LEMMA IntraSum ==
  ASSUME NEW I \in SUBSET DOMAIN handed, IsFiniteSet(I), Integral(ValueOf, I)
  PROVE  SumOver(I, LAMBDA i : handed[i].val["PredFrm_Intra"]) = Total(ValueOf, I)
<1> DEFINE P(it) == it = [s \in SUBSET I |->
                           IF s = {} THEN 0
                           ELSE handed[CHOOSE x \in s : TRUE].val["PredFrm_Intra"]
                                  + it[s \ {CHOOSE x \in s : TRUE}]]
           fold == CHOOSE it : P(it)
<1>1. SumOver(I, LAMBDA i : handed[i].val["PredFrm_Intra"]) = fold[I]
  BY DEF SumOver, MapThenFoldSet
<1>2. PICK c : Chooses(c, I) /\ \A s \in SUBSET I : c[s] = CHOOSE x \in s : TRUE
  <2> DEFINE d == [s \in SUBSET I |-> CHOOSE x \in s : TRUE]
  <2>1. Chooses(d, I) /\ \A s \in SUBSET I : d[s] = CHOOSE x \in s : TRUE
    BY DEF Chooses
  <2> HIDE DEF d
  <2>2. QED
    BY <2>1
<1>3. ASSUME NEW g PROVE IsFold(g, ValueOf, c, I) <=> P(g)
  <2>1. ASSUME NEW s \in SUBSET I
        PROVE  FoldStep(ValueOf, c, g, s) =
                 IF s = {} THEN 0
                 ELSE handed[CHOOSE x \in s : TRUE].val["PredFrm_Intra"]
                        + g[s \ {CHOOSE x \in s : TRUE}]
    <3>1. c[s] = CHOOSE x \in s : TRUE
      BY <1>2
    <3>2. s # {} => ValueOf[c[s]] = handed[c[s]].val["PredFrm_Intra"]
      BY <1>2 DEF ValueOf, Intra, Chooses
    <3>3. QED
      BY <3>1, <3>2 DEF FoldStep
  <2>2. QED
    BY <2>1 DEF IsFold
<1> HIDE DEF P
<1>4. P(fold)
  <2>1. \E g : P(g)
    BY <1>2, <1>3, FoldExists
  <2>2. QED
    BY <2>1
<1> HIDE DEF fold
<1>5. IsFold(fold, ValueOf, c, I)
  BY <1>3, <1>4
<1>6. fold[I] = Total(ValueOf, I)
  BY <1>2, <1>5, FoldIsTotal
<1>7. QED
  BY <1>1, <1>6

LEMMA ValuesIntegral ==
  ASSUME TypeOK
  PROVE  \A i \in DOMAIN handed : ValueOf[i] \in Int /\ ValueOf[i] = handed[i].val[Intra]
<1> SUFFICES ASSUME NEW i \in DOMAIN handed
             PROVE  ValueOf[i] \in Int /\ ValueOf[i] = handed[i].val[Intra]
  OBVIOUS
<1>1. handed[i].val \in [Fields -> Nat]
  BY FrameShape
<1>2. Intra \in Fields
  BY DEF Intra, Fields
<1>3. handed[i].val[Intra] \in Nat
  BY <1>1, <1>2
<1>4. QED
  BY <1>3 DEF ValueOf

LEMMA GroupValues ==
  ASSUME TypeOK, Handover, NEW g, NEW t
  PROVE  /\ IsFiniteSet(FramesOf(g, t)) /\ FramesOf(g, t) \in SUBSET DOMAIN handed
         /\ Integral(ValueOf, FramesOf(g, t))
<1>1. FramesOf(g, t) \in SUBSET DOMAIN handed
  BY SummedShape DEF FramesOf
<1>2. QED
  BY <1>1, GroupsFinite, ValuesIntegral DEF Integral

LEMMA InitAInv == Init => AInv
<1> SUFFICES ASSUME Init PROVE AInv
  OBVIOUS
<1>1. \A g \in TableRows, t \in FrameTypes : SeqStat[g][t] = ZeroEntry
  BY DEF Init, TableRows
<1>2. ZeroEntry.sum[Intra] = 0 /\ ZeroEntry.den[Intra] = 1 /\ ZeroEntry.FrameCnt = 0
  BY DEF ZeroEntry, ZeroVal, Intra, Fields
<1>3. \A g, t : FramesOf(g, t) = {}
  BY DEF Init, FramesOf, Summed
<1>4. Sums
  BY <1>1, <1>2, <1>3, TotalEmpty DEF Sums
<1>5. Divisors
  <2>1. \A g \in Rows, t \in 1 .. 3 : g \in TableRows /\ t \in FrameTypes /\ g \in Nat
    BY BoundAssumption DEF Rows, TableRows, FrameTypes
  <2>2. pc # "end" /\ nextRow = 0
    BY DEF Init
  <2>3. QED
    BY <1>1, <1>2, <2>1, <2>2 DEF Divisors
<1>6. QED
  BY <1>4, <1>5 DEF AInv

(* Numbering a picture changes no sum: its frame is not summed yet. *)
LEMMA AnalysePacketAInv ==
  ASSUME IInv, IInv', AInv, NEW p \in Decoded(Codec), AnalysePacket(p)
  PROVE  AInv'
<1>1. /\ TypeOK /\ Handover /\ TypeOK' /\ Handover'
      /\ pc = "read" /\ pc' = "got" /\ SeqStat' = SeqStat /\ nextRow' = nextRow
  BY DEF IInv, AnalysePacket
<1>2. /\ \A g, t : FramesOf(g, t)' = FramesOf(g, t)
      /\ \A i \in DOMAIN handed : i \in DOMAIN handed' /\ handed'[i] = handed[i]
  BY AnalysePacketIInv
<1>3. ASSUME NEW g, NEW t
      PROVE  Total(ValueOf, FramesOf(g, t))' = Total(ValueOf, FramesOf(g, t))
  <2> DEFINE I == FramesOf(g, t)
  <2>1. IsFiniteSet(I) /\ I \in SUBSET DOMAIN handed /\ Integral(ValueOf, I)
    BY <1>1, GroupValues
  <2>2. \A i \in I : ValueOf'[i] = ValueOf[i]
    BY <1>1, <1>2, <2>1, ValuesIntegral DEF ValueOf
  <2> HIDE DEF I
  <2>3. Total(ValueOf', I) = Total(ValueOf, I)
    BY <2>1, <2>2, TotalSame
  <2>4. Total(ValueOf, FramesOf(g, t))' = Total(ValueOf', FramesOf(g, t)')
    BY DEF Total
  <2>5. QED
    BY <1>2, <2>3, <2>4 DEF I
<1>4. Sums'
  BY <1>1, <1>3 DEF AInv, Sums
<1>5. QED
  BY <1>1, <1>4 DEF AInv, Divisors

(* The summed frame joins the frames of its entry. *)
LEMMA GetFrameStatisticsAInv ==
  ASSUME IInv, AInv, GetFrameStatistics
  PROVE  AInv'
<1> DEFINE n == Len(handed)
<1>1. /\ TypeOK /\ Handover /\ TableMatchesFrames
      /\ pc = "got" /\ pc' = "read" /\ handed' = handed /\ nextRow' = nextRow
  BY DEF IInv, GetFrameStatistics
<1>2. /\ n \in DOMAIN handed
      /\ FrameStat.FrameType = handed[n].type /\ FrameStat.val = handed[n].val
      /\ \A g, t : FramesOf(g, t)' =
           IF g = RowOfFrame /\ t = handed[n].type THEN FramesOf(g, t) \cup {n} ELSE FramesOf(g, t)
      /\ \A g, t : n \notin FramesOf(g, t)
  BY <1>1, SummingFrames DEF Handover
<1> HIDE DEF n
<1>3. /\ SeqStat \in [TableRows -> [FrameTypes -> Entry]] /\ ValueOf' = ValueOf
      /\ ValueOf[n] \in Int /\ ValueOf[n] = FrameStat.val[Intra]
  BY <1>1, <1>2, ValuesIntegral DEF TypeOK, TableRows, ValueOf
<1>4. Sums'
  <2> SUFFICES ASSUME NEW g \in TableRows, NEW t \in FrameTypes
               PROVE  SeqStat'[g][t].sum[Intra] = Total(ValueOf, FramesOf(g, t)')
    BY <1>3 DEF Sums, Total
  <2> DEFINE I == FramesOf(g, t)
             own == g = RowOfFrame /\ t = FrameStat.FrameType
  <2>1. SeqStat'[g][t].sum[Intra] = SeqStat[g][t].sum[Intra] + (IF own THEN FrameStat.val[Intra] ELSE 0)
    BY <1>1, SummingStep
  <2>2. SeqStat[g][t].sum[Intra] = Total(ValueOf, I) /\ SeqStat[g][t].sum[Intra] \in Nat
    BY <1>3, CellShape DEF AInv, Sums, Intra, Fields
  <2>3. FramesOf(g, t)' = IF own THEN I \cup {n} ELSE I
    BY <1>2
  <2>4. IsFiniteSet(I) /\ I \in SUBSET DOMAIN handed /\ Integral(ValueOf, I) /\ n \notin I
    BY <1>1, <1>2, GroupValues
  <2> HIDE DEF I, own
  <2>5. Integral(ValueOf, I \cup {n})
    BY <1>3, <2>4 DEF Integral
  <2>6. Total(ValueOf, I \cup {n}) = ValueOf[n] + Total(ValueOf, I)
    BY <2>4, <2>5, TotalAdd
  <2>7. QED
    BY <1>3, <2>1, <2>2, <2>3, <2>6
<1>5. Divisors'
  <2> SUFFICES ASSUME NEW g \in Rows, NEW t \in 1 .. 3
               PROVE  SeqStat'[g][t].den[Intra] = 1
    BY <1>1, BoundAssumption DEF AInv, Divisors, Rows
  <2>1. g \in TableRows /\ t \in FrameTypes /\ g \in Nat
    BY BoundAssumption DEF Rows, TableRows, FrameTypes
  <2>2. SeqStat'[g][t].den[Intra] = SeqStat[g][t].den[Intra]
    BY <1>1, <2>1, SummingStep
  <2>3. QED
    BY <1>1, <2>1, <2>2 DEF AInv, Divisors
<1>6. QED
  BY <1>4, <1>5 DEF AInv

LEMMA SameSums ==
  ASSUME IInv, AInv, handed' = handed, \A g, t : FramesOf(g, t)' = FramesOf(g, t),
         \A g \in TableRows, t \in FrameTypes :
           SeqStat'[g][t].sum[Intra] = SeqStat[g][t].sum[Intra]
  PROVE  Sums'
<1>1. ValueOf' = ValueOf
  BY DEF ValueOf
<1>2. \A g, t : Total(ValueOf, FramesOf(g, t))' = Total(ValueOf, FramesOf(g, t))
  BY <1>1 DEF Total
<1>3. QED
  BY <1>2 DEF AInv, Sums

(* Averaging divides the sums of its row, which had no divisor before. *)
LEMMA GetSeqStatisticAInv ==
  ASSUME IInv, AInv, GetSeqStatistic
  PROVE  AInv'
<1>1. /\ TypeOK /\ CurrGOB = GOB_Cnt
      /\ pc = "end" /\ pc' = "end" /\ nextRow' = nextRow + 1 /\ handed' = handed
      /\ UNCHANGED <<Codec, Started, PicCnt, GOB_Cnt, FrameStat, CurrGOB>>
  BY DEF IInv, Handover, GetSeqStatistic
<1>2. /\ nextRow \in 0 .. GOB_Cnt /\ nextRow \in TableRows
      /\ \A g \in TableRows \ {nextRow} : SeqStat'[g] = SeqStat[g]
      /\ \A g \in TableRows, t \in FrameTypes :
           /\ SeqStat'[g][t].FrameCnt = SeqStat[g][t].FrameCnt
           /\ SeqStat'[g][t].sum[Intra] = SeqStat[g][t].sum[Intra]
      /\ \A t \in 1 .. 3 :
           SeqStat'[nextRow][t].den[Intra] =
             IF SeqStat[nextRow][t].FrameCnt = 0 THEN SeqStat[nextRow][t].den[Intra]
             ELSE SeqStat[nextRow][t].den[Intra] * SeqStat[nextRow][t].FrameCnt
  BY <1>1, AveragingStep
<1>3. Sums'
  BY <1>1, <1>2, SameFrames, SameSums
<1>4. ASSUME NEW g \in Rows, NEW t \in 1 .. 3
      PROVE  SeqStat'[g][t].den[Intra] = IF g < nextRow + 1 /\ SeqStat'[g][t].FrameCnt > 0
                                         THEN SeqStat'[g][t].FrameCnt ELSE 1
  <2>1. g \in TableRows /\ t \in FrameTypes /\ g \in Int /\ nextRow \in Int
    BY <1>2, BoundAssumption DEF Rows, TableRows, FrameTypes
  <2>2. SeqStat[g][t].FrameCnt \in Nat /\ SeqStat'[g][t].FrameCnt = SeqStat[g][t].FrameCnt
    BY <1>1, <1>2, <2>1, CellShape DEF TypeOK, TableRows
  <2>3. SeqStat[g][t].den[Intra] = IF g < nextRow /\ SeqStat[g][t].FrameCnt > 0
                                   THEN SeqStat[g][t].FrameCnt ELSE 1
    BY DEF AInv, Divisors
  <2>4. CASE g = nextRow
    BY <1>2, <2>1, <2>2, <2>3, <2>4
  <2>5. CASE g # nextRow
    <3>1. SeqStat'[g] = SeqStat[g] /\ (g < nextRow + 1 <=> g < nextRow)
      BY <1>2, <2>1, <2>5
    <3>2. QED
      BY <2>3, <3>1
  <2>6. QED
    BY <2>4, <2>5
<1>5. Divisors'
  BY <1>1, <1>4 DEF Divisors
<1>6. QED
  BY <1>3, <1>5 DEF AInv

LEMMA AInvMeansAverage == IInv /\ AInv => IntraRatioIsAverage
<1> SUFFICES ASSUME IInv, AInv, NEW g \in 0 .. nextRow - 1, NEW t \in 1 .. 3
             PROVE  SeqStat[g][t].sum["PredFrm_Intra"] * SeqStat[g][t].FrameCnt =
                      SeqStat[g][t].den["PredFrm_Intra"]
                        * SumOver(FramesOf(g, t), LAMBDA i : handed[i].val["PredFrm_Intra"])
  BY DEF IntraRatioIsAverage, IsAverage
<1> DEFINE e == SeqStat[g][t]
           I == FramesOf(g, t)
<1>1. TypeOK /\ Handover /\ TableMatchesFrames
  BY DEF IInv
<1>2. g \in Rows /\ g \in TableRows /\ t \in FrameTypes /\ g < nextRow
  BY <1>1, BoundAssumption DEF TypeOK, Rows, TableRows, FrameTypes
<1>3. e.FrameCnt \in Nat /\ e.FrameCnt = Cardinality(I)
  BY <1>1, <1>2, CellShape DEF TypeOK, TableRows, TableMatchesFrames
<1>4. IsFiniteSet(I) /\ I \in SUBSET DOMAIN handed /\ Integral(ValueOf, I)
  BY <1>1, GroupValues
<1>5. e.sum[Intra] = Total(ValueOf, I) /\ e.sum[Intra] \in Nat
  <2>1. Intra \in Fields /\ e.sum \in [Fields -> Nat]
    BY <1>1, <1>2, CellShape DEF TypeOK, TableRows, Intra, Fields
  <2>2. QED
    BY <1>2, <2>1 DEF AInv, Sums
<1>6. e.den[Intra] = IF e.FrameCnt > 0 THEN e.FrameCnt ELSE 1
  BY <1>2 DEF AInv, Divisors
<1>7. SumOver(I, LAMBDA i : handed[i].val["PredFrm_Intra"]) = Total(ValueOf, I)
  BY <1>4, IntraSum
<1>8. e.FrameCnt = 0 => Total(ValueOf, I) = 0
  <2>1. e.FrameCnt = 0 => I = {}
    BY <1>3, <1>4, FS_EmptySet
  <2>2. QED
    BY <2>1, TotalEmpty
<1> HIDE DEF e, I
<1>9. e.sum[Intra] * e.FrameCnt = e.den[Intra] * Total(ValueOf, I)
  <2>1. CASE e.FrameCnt = 0
    BY <1>5, <1>6, <1>8, <2>1
  <2>2. CASE e.FrameCnt > 0
    <3>1. \A a, b \in Nat : a * b = b * a
      OBVIOUS
    <3>2. QED
      BY <1>3, <1>5, <1>6, <2>2, <3>1
  <2>3. QED
    BY <1>3, <2>1, <2>2
<1>10. QED
  BY <1>7, <1>9 DEF Intra, e, I

(* After GetSeqStatistic the intra ratio of every entry is the average of  *)
(* the frames of its row and column: the sum of exactly those frames,      *)
(* divided once, by their number.                                          *)
THEOREM RatiosAreAverages == Spec => []IntraRatioIsAverage
<1>1. Init => AInv
  BY InitAInv
<1>2. IInv /\ IInv' /\ AInv /\ [Next]_vars => AInv'
  <2> SUFFICES ASSUME IInv, IInv', AInv, [Next]_vars PROVE AInv'
    OBVIOUS
  <2>1. CASE \E p \in Decoded(Codec) : AnalysePacket(p)
    BY <2>1, AnalysePacketAInv
  <2>2. CASE GetFrameStatistics
    BY <2>2, GetFrameStatisticsAInv
  <2>3. CASE EndOfStream
    <3>1. /\ UNCHANGED <<Codec, Started, PicCnt, GOB_Cnt, FrameStat, CurrGOB, handed, SeqStat, nextRow>>
          /\ pc # "got" /\ pc' = "end"
      BY <2>3 DEF EndOfStream
    <3>2. Sums'
      BY <3>1, SameFrames, SameSums
    <3>3. QED
      BY <3>1, <3>2 DEF AInv, Divisors
  <2>4. CASE GetSeqStatistic
    BY <2>4, GetSeqStatisticAInv
  <2>5. CASE UNCHANGED vars
    <3>1. UNCHANGED <<pc, SeqStat, nextRow, handed>>
      BY <2>5 DEF vars
    <3>2. \A g, t : FramesOf(g, t)' = FramesOf(g, t)
      <4>1. Summed' = Summed
        BY <3>1 DEF Summed
      <4>2. \A i : GobOf(i)' = GobOf(i)
        BY <3>1, Zenon DEF GobOf
      <4>3. QED
        BY <3>1, <4>1, <4>2 DEF FramesOf
    <3>3. Sums'
      BY <3>1, <3>2, SameSums
    <3>4. QED
      BY <3>1, <3>3 DEF AInv, Divisors
  <2>6. QED
    BY <2>1, <2>2, <2>3, <2>4, <2>5 DEF Next, Finished
<1>3. QED
  BY <1>1, <1>2, TableInvariance, AInvMeansAverage, PTL DEF Spec
===============================================================================
