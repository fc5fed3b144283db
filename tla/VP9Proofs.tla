------------------------------- MODULE VP9Proofs ------------------------------
(***************************************************************************)
(* Proofs about VP9Frames and VP9Blocks.  Of the frames: their types for   *)
(* every stream, and the motion fields and statistics for the streams that *)
(* show every picture once and have no small inter frames, with any number *)
(* of slots and frames.  Of the blocks, for every size of the frames,      *)
(* every partition and every mix of blocks: the area that is counted, the  *)
(* types of blocks, and the border.                                        *)
(***************************************************************************)
EXTENDS VP9Frames, VP9Blocks, OperatorProofs

-----------------------------------------------------------------------------
(* Frames.                                                                 *)

(* The streams that show every picture once, and whose inter frames of     *)
(* less than 100 bytes only show the hidden frame.                         *)
PicturesShownOnce == MaxRepeats = 0 /\ SmallInter = FALSE

(* A frame that is there shows a picture. *)
PicturesReal ==
  /\ frame # NoFrame => frame.picture # 0
  /\ \A i \in Slots : refs[i] # NoFrame => refs[i].picture # 0

Typed == TypeOK /\ PicturesReal

(* Not more pictures than frames were displayed. *)
Counted == IsFiniteSet(displayed) /\ Cardinality(displayed) <= FrameIdx

(* The statistics that wait are those of the hidden frame.  As long as no  *)
(* frame shows it, they count the frames since and are not divided.        *)
HiddenKept ==
  /\ VP9Hidden_FrmStat.field = hidden /\ VP9Hidden_FrmStat.of = hidden
  /\ hidden \notin {0} \cup displayed \cup {frame.picture} =>
       VP9Hidden_FrmStat.FrameDistance = n - hidden /\ VP9Hidden_FrmStat.divisor = 1

(* A slot was filled before the blocks were counted.  Its picture has its  *)
(* own motion field, unless a short frame filled it: but then the picture  *)
(* is displayed before the slot is.                                        *)
SlotsKept ==
  \A i \in Slots :
    /\ refs[i].FrmStat.of = 0 /\ refs[i].FrmStat.divisor = 1
    /\ refs[i].picture \notin {0} \cup displayed \cup {frame.picture} =>
         refs[i].FrmStat.field = refs[i].picture

(* The frame to be handed out shows a new picture, with its field. *)
FrameKept ==
  frame # NoFrame =>
    LET between == n - frame.picture - 1
        stat    == frame.FrmStat
    IN  /\ frame.picture \notin displayed
        /\ stat.field = frame.picture /\ stat.of \in {0, frame.picture}
        /\ stat.divisor = IF stat.IsShrtFrame /\ stat.of # 0 /\ between > 3
                          THEN between - 2 ELSE 1

(* Every field is allocated until its picture is displayed. *)
FieldsLive == \A p \in 1 .. n : p \notin displayed => p \in live

IInv == Typed /\ Counted /\ HiddenKept /\ SlotsKept /\ FrameKept /\ FieldsLive
        /\ FieldsSafe /\ StatisticsOfPicture

-----------------------------------------------------------------------------
(* Types.                                                                  *)

LEMMA ZeroShape ==
  ASSUME n \in Nat
  PROVE  /\ ZeroStat \in Stat /\ NoFrame \in Frame
         /\ ZeroStat.field = 0 /\ ZeroStat.of = 0 /\ ZeroStat.divisor = 1
         /\ NoFrame.picture = 0 /\ NoFrame.FrmStat = ZeroStat
  BY DEF ZeroStat, NoFrame, Stat, Frame

LEMMA StatFields ==
  ASSUME n \in Nat, NEW s \in Stat
  PROVE  /\ s.field \in 0 .. n /\ s.of \in 0 .. n /\ s.divisor \in Nat \ {0}
         /\ s.FrameDistance \in 0 .. n /\ s.IsShrtFrame \in BOOLEAN /\ s.IsHidden \in BOOLEAN
  BY DEF Stat

LEMMA FrameFields ==
  ASSUME NEW g \in Frame
  PROVE  g.picture \in 0 .. n /\ g.intra \in BOOLEAN /\ g.FrmStat \in Stat
  BY DEF Frame

(* One more frame extends the types. *)
LEMMA TypesGrow ==
  ASSUME n \in Nat, n' = n + 1
  PROVE  /\ \A s \in Stat : s \in Stat'
         /\ \A g \in Frame : g \in Frame'
<1>1. 0 .. n \subseteq 0 .. n'
  OBVIOUS
<1>2. ASSUME NEW s \in Stat PROVE s \in Stat'
  BY <1>1 DEF Stat
<1>3. ASSUME NEW g \in Frame PROVE g \in Frame'
  BY <1>1, <1>2 DEF Frame
<1>4. QED
  BY <1>2, <1>3

(* The statistics a frame starts with, and those it has at its end. *)
LEMMA StartShape ==
  ASSUME TypeOK, n' = n + 1, NEW short \in BOOLEAN, NEW invisible \in BOOLEAN
  PROVE  LET f     == n + 1
             start == InitFrameStatisticsVP9(f, short, invisible)
             stat  == ModeStatistics(start, f)
             after == [stat EXCEPT !.IsHidden = TRUE, !.FrameDistance = 0]
             later == [VP9Hidden_FrmStat EXCEPT !.FrameDistance = @ + 1]
         IN  /\ start \in Stat' /\ start.field = f /\ start.of = 0 /\ start.divisor = 1
             /\ stat \in Stat' /\ stat.field = f /\ stat.of = f /\ stat.divisor = 1
             /\ stat.IsShrtFrame = short
             /\ after \in Stat' /\ after.field = f /\ after.of = f /\ after.divisor = 1
             /\ after.FrameDistance = 0
             /\ later \in Stat' /\ later.field = VP9Hidden_FrmStat.field
             /\ later.of = VP9Hidden_FrmStat.of /\ later.divisor = VP9Hidden_FrmStat.divisor
             /\ later.FrameDistance = VP9Hidden_FrmStat.FrameDistance + 1
<1> DEFINE f     == n + 1
           H     == VP9Hidden_FrmStat
           start == InitFrameStatisticsVP9(f, short, invisible)
           stat  == ModeStatistics(start, f)
<1>1. n \in Nat /\ H \in Stat /\ H.FrameDistance \in 0 .. n /\ f \in 0 .. n'
  BY DEF TypeOK, Stat
<1>2. /\ start \in Stat' /\ start.field = f /\ start.of = 0 /\ start.divisor = 1
      /\ start.IsShrtFrame = short
  <2>1. /\ ZeroStat \in Stat' /\ ZeroStat.of = 0 /\ ZeroStat.divisor = 1
        /\ 0 \in 0 .. n' /\ H.FrameDistance \in 0 .. n'
    BY <1>1 DEF ZeroStat, Stat
  <2>2. start = [ZeroStat EXCEPT !.field = f, !.FrameDistance = H.FrameDistance,
                                 !.IsShrtFrame = short, !.IsHidden = invisible]
    BY DEF InitFrameStatisticsVP9
  <2> HIDE DEF start, H, f
  <2>3. QED
    BY <1>1, <2>1, <2>2 DEF Stat
<1>3. stat = [start EXCEPT !.of = f]
  BY DEF ModeStatistics
<1> HIDE DEF start, stat, f
<1>4. /\ stat \in Stat' /\ stat.field = f /\ stat.of = f /\ stat.divisor = 1
      /\ stat.IsShrtFrame = short
  BY <1>1, <1>2, <1>3 DEF Stat
<1>5. LET after == [stat EXCEPT !.IsHidden = TRUE, !.FrameDistance = 0]
      IN  /\ after \in Stat' /\ after.field = f /\ after.of = f /\ after.divisor = 1
          /\ after.FrameDistance = 0
  <2>1. 0 \in 0 .. n'
    BY <1>1
  <2> HIDE DEF H
  <2>2. QED
    BY <1>4, <2>1 DEF Stat
<1>6. LET later == [H EXCEPT !.FrameDistance = @ + 1]
      IN  /\ later \in Stat' /\ later.field = H.field
          /\ later.of = H.of /\ later.divisor = H.divisor
          /\ later.FrameDistance = H.FrameDistance + 1
  BY <1>1 DEF Stat, f
<1>7. QED
  BY <1>2, <1>4, <1>5, <1>6, Zenon DEF start, stat, f

(* The statistics of the hidden frame when a short one comes. *)
LEMMA DividedShape ==
  ASSUME TypeOK, n' = n + 1
  PROVE  /\ Divided \in Stat' /\ Divided.IsShrtFrame = TRUE
         /\ Divided.field = VP9Hidden_FrmStat.field /\ Divided.of = VP9Hidden_FrmStat.of
         /\ Divided.divisor = VP9Hidden_FrmStat.divisor *
              (IF VP9Hidden_FrmStat.FrameDistance > 3 THEN VP9Hidden_FrmStat.FrameDistance - 2 ELSE 1)
<1> DEFINE H == VP9Hidden_FrmStat
           d == IF H.FrameDistance > 3 THEN H.FrameDistance - 2 ELSE 1
<1>1. n \in Nat /\ H \in Stat
  BY DEF TypeOK
<1>2. d \in Nat \ {0} /\ d \in 0 .. n' /\ H.divisor \in Nat \ {0}
  BY <1>1, StatFields
<1>3. Divided = [H EXCEPT !.IsShrtFrame = TRUE, !.FrameDistance = d, !.divisor = H.divisor * d]
  BY DEF Divided
<1>4. \A a, b \in Nat \ {0} : a * b \in Nat \ {0}
  OBVIOUS
<1>5. PICK e \in Nat \ {0} : e = H.divisor * d
  BY <1>2, <1>4
<1> HIDE DEF d
<1>6. /\ Divided \in Stat' /\ Divided.IsShrtFrame = TRUE /\ Divided.divisor = e
      /\ Divided.field = H.field /\ Divided.of = H.of
  <2>1. H \in Stat'
    BY <1>1, TypesGrow
  <2>2. Divided = [H EXCEPT !.IsShrtFrame = TRUE, !.FrameDistance = d, !.divisor = e]
    BY <1>3, <1>5
  <2> HIDE DEF H
  <2>3. QED
    BY <1>2, <2>1, <2>2 DEF Stat
<1>7. QED
  BY <1>5, <1>6 DEF d

(* What decoding a frame changes. *)
Decodes(key, intraonly, invisible, short, own, refresh) ==
  /\ MayDecode(key, invisible, short, own)
  /\ DecodeFrame(key, intraonly, invisible, short, own, refresh)

(* Its number f, the picture it shows, and its statistics at the start and *)
(* at the end. *)
DecodeEffect(key, intraonly, invisible, short, own, refresh, f, pic, start, stat) ==
  /\ f = n + 1 /\ n' = f /\ frame = NoFrame
  /\ pic = IF short /\ ~own THEN hidden ELSE f
  /\ pic \in 1 .. f
  /\ start \in Stat' /\ start.field = f /\ start.of = 0 /\ start.divisor = 1
  /\ stat \in Stat'
  /\ short => /\ stat.IsShrtFrame = TRUE
              /\ stat.field = VP9Hidden_FrmStat.field /\ stat.of = VP9Hidden_FrmStat.of
              /\ stat.divisor = VP9Hidden_FrmStat.divisor *
                   (IF VP9Hidden_FrmStat.FrameDistance > 3
                    THEN VP9Hidden_FrmStat.FrameDistance - 2 ELSE 1)
  /\ ~short => /\ stat.IsShrtFrame = FALSE
               /\ stat.field = f /\ stat.of = f /\ stat.divisor = 1
  /\ refs' = [i \in Slots |->
               IF i \in refresh
               THEN [picture |-> pic, intra |-> key \/ intraonly, FrmStat |-> start]
               ELSE refs[i]]
  /\ frame' = IF invisible THEN NoFrame
              ELSE [picture |-> pic, intra |-> key \/ intraonly, FrmStat |-> stat]
  /\ hidden' = IF invisible THEN f ELSE hidden
  /\ VP9Hidden_FrmStat' \in Stat'
  /\ short => /\ VP9Hidden_FrmStat'.field = VP9Hidden_FrmStat.field
              /\ VP9Hidden_FrmStat'.of = VP9Hidden_FrmStat.of
  /\ ~short /\ invisible => /\ VP9Hidden_FrmStat'.field = f
                            /\ VP9Hidden_FrmStat'.of = f
                            /\ VP9Hidden_FrmStat'.divisor = 1
                            /\ VP9Hidden_FrmStat'.FrameDistance = 0
  /\ ~short /\ ~invisible =>
       /\ VP9Hidden_FrmStat'.field = VP9Hidden_FrmStat.field
       /\ VP9Hidden_FrmStat'.of = VP9Hidden_FrmStat.of
       /\ VP9Hidden_FrmStat'.divisor = VP9Hidden_FrmStat.divisor
       /\ VP9Hidden_FrmStat'.FrameDistance = VP9Hidden_FrmStat.FrameDistance + 1
  /\ live' = live \cup {f}
  /\ UNCHANGED <<Started, FrameIdx, misused, displayed, report>>

LEMMA DecodeStep ==
  ASSUME Typed, NEW key \in BOOLEAN, NEW intraonly \in BOOLEAN, NEW invisible \in BOOLEAN,
         NEW short \in BOOLEAN, NEW own \in BOOLEAN, NEW refresh \in SUBSET Slots,
         Decodes(key, intraonly, invisible, short, own, refresh)
  PROVE  \E f, pic, start, stat :
           DecodeEffect(key, intraonly, invisible, short, own, refresh, f, pic, start, stat)
<1> DEFINE f     == n + 1
           pic   == IF short /\ ~own THEN hidden ELSE f
           start == InitFrameStatisticsVP9(f, short, invisible)
           whole == ModeStatistics(start, f)
           stat  == IF short THEN Divided ELSE whole
           after == [whole EXCEPT !.IsHidden = TRUE, !.FrameDistance = 0]
           later == [VP9Hidden_FrmStat EXCEPT !.FrameDistance = @ + 1]
<1>1. TypeOK /\ n \in Nat /\ hidden \in 0 .. n
  BY DEF Typed, TypeOK
<1>2. /\ n' = f /\ frame = NoFrame
      /\ hidden' = (IF invisible THEN f ELSE hidden)
      /\ refs' = [i \in Slots |->
                   IF i \in refresh
                   THEN [picture |-> pic, intra |-> key \/ intraonly, FrmStat |-> start]
                   ELSE refs[i]]
      /\ frame' = (IF invisible THEN NoFrame
                   ELSE [picture |-> pic, intra |-> key \/ intraonly, FrmStat |-> stat])
      /\ VP9Hidden_FrmStat' = (IF short THEN Divided ELSE IF invisible THEN after ELSE later)
      /\ live' = live \cup {f}
      /\ UNCHANGED <<Started, FrameIdx, misused, displayed, report>>
  BY DEF Decodes, DecodeFrame, FrameStatistics, HiddenAfter
<1>3. pic \in 1 .. f
  BY <1>1 DEF Decodes, MayDecode
<1>4. /\ start \in Stat' /\ start.field = f /\ start.of = 0 /\ start.divisor = 1
      /\ whole \in Stat' /\ whole.field = f /\ whole.of = f /\ whole.divisor = 1
      /\ whole.IsShrtFrame = short
      /\ after \in Stat' /\ after.field = f /\ after.of = f /\ after.divisor = 1
      /\ after.FrameDistance = 0
      /\ later \in Stat' /\ later.field = VP9Hidden_FrmStat.field
      /\ later.of = VP9Hidden_FrmStat.of /\ later.divisor = VP9Hidden_FrmStat.divisor
      /\ later.FrameDistance = VP9Hidden_FrmStat.FrameDistance + 1
  BY <1>1, <1>2, StartShape, ZenonT(60)
<1>5. /\ Divided \in Stat' /\ Divided.IsShrtFrame = TRUE
      /\ Divided.field = VP9Hidden_FrmStat.field /\ Divided.of = VP9Hidden_FrmStat.of
      /\ Divided.divisor = VP9Hidden_FrmStat.divisor *
           (IF VP9Hidden_FrmStat.FrameDistance > 3 THEN VP9Hidden_FrmStat.FrameDistance - 2 ELSE 1)
  BY <1>1, <1>2, DividedShape
<1> HIDE DEF start, whole, after, later
<1>6. /\ stat \in Stat'
      /\ short => stat = Divided
      /\ ~short => stat = whole
  BY <1>4, <1>5
<1> HIDE DEF stat
<1>7. /\ VP9Hidden_FrmStat' \in Stat'
      /\ short => VP9Hidden_FrmStat' = Divided
      /\ ~short /\ invisible => VP9Hidden_FrmStat' = after
      /\ ~short /\ ~invisible => VP9Hidden_FrmStat' = later
  BY <1>2, <1>4, <1>5
<1> HIDE DEF f, pic
<1>8. f = n + 1 /\ pic = (IF short /\ ~own THEN hidden ELSE f)
  BY DEF f, pic
<1>9. DecodeEffect(key, intraonly, invisible, short, own, refresh, f, pic, start, stat)
  BY <1>2, <1>3, <1>4, <1>5, <1>6, <1>7, <1>8 DEF DecodeEffect
<1>10. QED
  BY <1>9

LEMMA DecodeTyped ==
  ASSUME Typed, NEW key \in BOOLEAN, NEW intraonly \in BOOLEAN, NEW invisible \in BOOLEAN,
         NEW short \in BOOLEAN, NEW own \in BOOLEAN, NEW refresh \in SUBSET Slots,
         Decodes(key, intraonly, invisible, short, own, refresh)
  PROVE  Typed'
<1>0. PICK f, pic, start, stat :
        DecodeEffect(key, intraonly, invisible, short, own, refresh, f, pic, start, stat)
  BY DecodeStep
<1>1. /\ f = n + 1 /\ n' = f
      /\ pic \in 1 .. f /\ start \in Stat' /\ stat \in Stat'
      /\ refs' = [i \in Slots |->
                   IF i \in refresh
                   THEN [picture |-> pic, intra |-> key \/ intraonly, FrmStat |-> start]
                   ELSE refs[i]]
      /\ frame' = IF invisible THEN NoFrame
                  ELSE [picture |-> pic, intra |-> key \/ intraonly, FrmStat |-> stat]
      /\ hidden' = IF invisible THEN f ELSE hidden
      /\ VP9Hidden_FrmStat' \in Stat'
      /\ live' = live \cup {f}
      /\ UNCHANGED <<Started, FrameIdx, misused, displayed, report>>
  BY <1>0 DEF DecodeEffect
<1>2. /\ TypeOK /\ n \in Nat /\ n' \in Nat /\ 0 .. n \subseteq 0 .. n' /\ 1 .. n \subseteq 1 .. n'
      /\ keyframe' \in BOOLEAN
  BY <1>1 DEF Typed, TypeOK, Decodes, DecodeFrame
<1>3. ASSUME NEW st \in Stat'
      PROVE  LET g == [picture |-> pic, intra |-> key \/ intraonly, FrmStat |-> st]
             IN  g \in Frame' /\ g.picture # 0
  BY <1>1, <1>2 DEF Frame
<1>4. NoFrame \in Frame'
  BY <1>2, ZeroShape, TypesGrow, <1>1
<1>5. frame' \in Frame' /\ (frame' # NoFrame => frame'.picture # 0)
  BY <1>1, <1>3, <1>4
<1>6. ASSUME NEW i \in Slots
      PROVE  refs'[i] \in Frame' /\ (refs'[i] # NoFrame => refs'[i].picture # 0)
  <2>1. CASE i \in refresh
    BY <1>1, <1>3, <2>1
  <2>2. CASE i \notin refresh
    <3>1. refs'[i] = refs[i] /\ refs[i] \in Frame
      BY <1>1, <1>2, <2>2 DEF TypeOK
    <3>2. QED
      BY <1>1, <1>2, <3>1, TypesGrow DEF Typed, PicturesReal
  <2>3. QED
    BY <2>1, <2>2
<1>7. refs' \in [Slots -> Frame']
  BY <1>1, <1>6
<1>8. report' \in [picture : 0 .. n', analysed : BOOLEAN, FrmStat : Stat', at : 0 .. n']
  <2>1. report \in [picture : 0 .. n, analysed : BOOLEAN, FrmStat : Stat, at : 0 .. n]
    BY <1>2 DEF TypeOK
  <2>2. \A st \in Stat : st \in Stat'
    BY <1>1, <1>2, TypesGrow
  <2>3. QED
    BY <1>1, <1>2, <2>1, <2>2
<1>9. TypeOK'
  <2>1. hidden' \in 0 .. n'
    BY <1>1, <1>2 DEF TypeOK
  <2>2. live' \subseteq 1 .. n' /\ misused' \subseteq 0 .. n' /\ displayed' \subseteq 1 .. n'
    BY <1>1, <1>2 DEF TypeOK
  <2>3. QED
    BY <1>1, <1>2, <1>5, <1>7, <1>8, <2>1, <2>2 DEF TypeOK
<1>10. QED
  BY <1>5, <1>6, <1>9 DEF Typed, PicturesReal

LEMMA ShowTyped ==
  ASSUME Typed, NEW i \in Slots, ShowExisting(i)
  PROVE  Typed'
<1>1. /\ refs[i] \in Frame /\ frame' = refs[i] /\ refs[i] # NoFrame
      /\ UNCHANGED <<n, hidden, refs, VP9Hidden_FrmStat, keyframe, Started, FrameIdx, live,
                     misused, displayed, report>>
  BY DEF ShowExisting, Typed, TypeOK
<1>2. Stat' = Stat /\ Frame' = Frame
  BY <1>1 DEF Stat, Frame
<1>3. QED
  BY <1>1, <1>2 DEF Typed, TypeOK, PicturesReal

LEMMA HandOutTyped ==
  ASSUME Typed, HandOut
  PROVE  Typed'
<1> DEFINE stat == IF Analysed THEN frame.FrmStat ELSE ZeroStat
           used == (IF Analysed /\ ReadsField THEN {stat.field} ELSE {}) \cup ({stat.field} \ {0})
<1>1. /\ frame # NoFrame /\ frame' = NoFrame
      /\ Started' = (Started \/ frame.intra) /\ FrameIdx' = FrameIdx + 1
      /\ misused' = misused \cup (used \ live) /\ live' = live \ {stat.field}
      /\ displayed' = displayed \cup {frame.picture}
      /\ report' = [picture |-> frame.picture, analysed |-> Analysed, FrmStat |-> stat, at |-> n]
      /\ UNCHANGED <<n, hidden, refs, VP9Hidden_FrmStat, keyframe>>
  BY DEF HandOut
<1>2. TypeOK /\ n \in Nat /\ frame \in Frame /\ frame.picture # 0
  BY <1>1 DEF Typed, TypeOK, PicturesReal
<1>3. Stat' = Stat /\ Frame' = Frame
  BY <1>1 DEF Stat, Frame
<1>4. frame.picture \in 1 .. n /\ frame.intra \in BOOLEAN /\ frame.FrmStat \in Stat
  BY <1>2, FrameFields
<1>5. stat \in Stat /\ stat.field \in 0 .. n
  <2>1. stat \in Stat
    BY <1>2, <1>4, ZeroShape
  <2> HIDE DEF stat
  <2>2. QED
    BY <1>2, <2>1, StatFields
<1>6. used \subseteq 0 .. n
  BY <1>5
<1> HIDE DEF stat, used
<1>7. Analysed \in BOOLEAN
  BY <1>2, <1>4 DEF Analysed, TypeOK
<1>8. report' \in [picture : 0 .. n, analysed : BOOLEAN, FrmStat : Stat, at : 0 .. n]
  BY <1>1, <1>2, <1>4, <1>5, <1>7
<1>9. TypeOK'
  <2>1. NoFrame \in Frame
    BY <1>2, ZeroShape
  <2>2. misused' \subseteq 0 .. n /\ live' \subseteq 1 .. n /\ displayed' \subseteq 1 .. n
    BY <1>1, <1>2, <1>4, <1>6 DEF TypeOK
  <2>3. FrameIdx' \in Nat /\ Started' \in BOOLEAN
    BY <1>1, <1>2, <1>4 DEF TypeOK
  <2>4. QED
    BY <1>1, <1>2, <1>3, <1>8, <2>1, <2>2, <2>3 DEF TypeOK
<1>10. QED
  BY <1>1, <1>9 DEF Typed, PicturesReal

LEMMA InitTyped == Init => Typed
<1> SUFFICES ASSUME Init PROVE Typed
  OBVIOUS
<1>1. n = 0 /\ 0 \in 0 .. n /\ n \in Nat
  BY DEF Init
<1>2. NoFrame \in Frame /\ ZeroStat \in Stat
  BY <1>1, ZeroShape
<1>3. NoReport \in [picture : 0 .. n, analysed : BOOLEAN, FrmStat : Stat, at : 0 .. n]
  BY <1>1, <1>2 DEF NoReport
<1>4. TypeOK
  BY <1>1, <1>2, <1>3 DEF Init, TypeOK
<1>5. QED
  BY <1>4 DEF Init, Typed, PicturesReal

(* Which steps there are. *)
LEMMA NextCases ==
  ASSUME Next
  PROVE  \/ \E key, intraonly, invisible, short, own \in BOOLEAN, refresh \in SUBSET Slots :
              Decodes(key, intraonly, invisible, short, own, refresh)
         \/ \E i \in Slots : MayShow(i) /\ ShowExisting(i)
         \/ HandOut
         \/ UNCHANGED vars
  BY DEF Next, Decodes, Finished

LEMMA StutterTyped == Typed /\ UNCHANGED vars => Typed'
<1> SUFFICES ASSUME Typed, UNCHANGED vars PROVE Typed'
  OBVIOUS
<1>1. UNCHANGED <<n, hidden, refs, VP9Hidden_FrmStat, keyframe, frame, Started, FrameIdx,
                  live, misused, displayed, report>>
  BY DEF vars
<1>2. Stat' = Stat /\ Frame' = Frame
  BY <1>1 DEF Stat, Frame
<1>3. QED
  BY <1>1, <1>2 DEF Typed, TypeOK, PicturesReal

LEMMA TypedAlways == Spec => []Typed
<1>1. Init => Typed
  BY InitTyped
<1>2. Typed /\ [Next]_vars => Typed'
  <2> SUFFICES ASSUME Typed, [Next]_vars PROVE Typed'
    OBVIOUS
  <2>1. CASE \E key, intraonly, invisible, short, own \in BOOLEAN, refresh \in SUBSET Slots :
               Decodes(key, intraonly, invisible, short, own, refresh)
    BY <2>1, DecodeTyped
  <2>2. CASE \E i \in Slots : MayShow(i) /\ ShowExisting(i)
    BY <2>2, ShowTyped
  <2>3. CASE HandOut
    BY <2>3, HandOutTyped
  <2>4. CASE UNCHANGED vars
    BY <2>4, StutterTyped
  <2>5. QED
    BY <2>1, <2>2, <2>3, <2>4, NextCases
<1>3. QED
  BY <1>1, <1>2, PTL DEF Spec

(* Every variable stays in its type, for every stream: the statistics that *)
(* wait for a short frame never count more frames than were decoded.       *)
THEOREM VP9TypeCorrectness == Spec => []TypeOK
<1>1. Typed => TypeOK
  BY DEF Typed
<1>2. QED
  BY <1>1, TypedAlways, PTL

-----------------------------------------------------------------------------
(* Motion fields.                                                          *)

LEMMA InitIInv == Init => IInv
<1> SUFFICES ASSUME Init PROVE IInv
  OBVIOUS
<1>1. Typed
  BY InitTyped
<1>2. /\ n = 0 /\ hidden = 0 /\ refs = [i \in Slots |-> NoFrame]
      /\ VP9Hidden_FrmStat = ZeroStat /\ frame = NoFrame /\ FrameIdx = 0
      /\ live = {} /\ misused = {} /\ displayed = {} /\ report = NoReport
  BY DEF Init
<1>3. /\ ZeroStat.field = 0 /\ ZeroStat.of = 0 /\ ZeroStat.divisor = 1
      /\ NoFrame.picture = 0 /\ NoFrame.FrmStat = ZeroStat
  BY <1>2, ZeroShape
<1>4. Counted
  BY <1>2, FS_EmptySet DEF Counted
<1>5. HiddenKept /\ SlotsKept /\ FrameKept /\ FieldsLive /\ FieldsSafe
  BY <1>2, <1>3 DEF HiddenKept, SlotsKept, FrameKept, FieldsLive, FieldsSafe
<1>6. StatisticsOfPicture
  BY <1>2, <1>3 DEF StatisticsOfPicture, MotionDividedOnce, NoReport
<1>7. QED
  BY <1>1, <1>4, <1>5, <1>6 DEF IInv

(* Decoding: a short frame takes over the statistics of the hidden one,    *)
(* whose picture it displays and which were not divided yet.               *)
LEMMA DecodeIInv ==
  ASSUME IInv, PicturesShownOnce,
         NEW key \in BOOLEAN, NEW intraonly \in BOOLEAN, NEW invisible \in BOOLEAN,
         NEW short \in BOOLEAN, NEW own \in BOOLEAN, NEW refresh \in SUBSET Slots,
         Decodes(key, intraonly, invisible, short, own, refresh)
  PROVE  IInv'
<1> DEFINE H == VP9Hidden_FrmStat
<1>1. Typed' /\ Typed /\ TypeOK /\ n \in Nat /\ hidden \in 0 .. n /\ displayed \subseteq 1 .. n
      /\ H \in Stat /\ refs \in [Slots -> Frame]
  <2>1. Typed
    BY DEF IInv
  <2>2. Typed'
    BY <2>1, DecodeTyped
  <2>3. QED
    BY <2>1, <2>2 DEF Typed, TypeOK
<1>2. PICK f, pic, start, stat :
        DecodeEffect(key, intraonly, invisible, short, own, refresh, f, pic, start, stat)
  BY <1>1, DecodeStep
<1>3. /\ f = n + 1 /\ n' = f /\ frame = NoFrame
      /\ pic \in 1 .. f /\ pic = IF short /\ ~own THEN hidden ELSE f
      /\ start.field = f /\ start.of = 0 /\ start.divisor = 1
      /\ short => /\ stat.IsShrtFrame = TRUE /\ stat.field = H.field /\ stat.of = H.of
                  /\ stat.divisor = H.divisor *
                       (IF H.FrameDistance > 3 THEN H.FrameDistance - 2 ELSE 1)
      /\ ~short => /\ stat.IsShrtFrame = FALSE
                   /\ stat.field = f /\ stat.of = f /\ stat.divisor = 1
      /\ refs' = [i \in Slots |->
                   IF i \in refresh
                   THEN [picture |-> pic, intra |-> key \/ intraonly, FrmStat |-> start]
                   ELSE refs[i]]
      /\ frame' = IF invisible THEN NoFrame
                  ELSE [picture |-> pic, intra |-> key \/ intraonly, FrmStat |-> stat]
      /\ hidden' = IF invisible THEN f ELSE hidden
      /\ live' = live \cup {f}
      /\ UNCHANGED <<Started, FrameIdx, misused, displayed, report>>
  BY <1>2 DEF DecodeEffect
<1>4. /\ short => H'.field = H.field /\ H'.of = H.of
      /\ ~short /\ invisible => /\ H'.field = f /\ H'.of = f
                                /\ H'.divisor = 1 /\ H'.FrameDistance = 0
      /\ ~short /\ ~invisible => /\ H'.field = H.field /\ H'.of = H.of
                                 /\ H'.divisor = H.divisor
                                 /\ H'.FrameDistance = H.FrameDistance + 1
  BY <1>2 DEF DecodeEffect
<1>5. /\ short => ~own /\ ~invisible /\ hidden \notin {0} \cup displayed
      /\ ~short => own
  BY DEF PicturesShownOnce, Decodes, MayDecode
<1>6. NoFrame.picture = 0
  BY <1>1, ZeroShape
<1>7. f \in Nat /\ f \notin displayed /\ f # 0 /\ f # hidden
  BY <1>1, <1>3
<1> HIDE DEF H
<1>8. H.field = hidden /\ H.of = hidden
  BY DEF IInv, HiddenKept, H
<1>9. hidden \notin {0} \cup displayed => H.FrameDistance = n - hidden /\ H.divisor = 1
  <2>1. frame.picture = 0
    BY <1>3, <1>6
  <2>2. QED
    BY <2>1 DEF IInv, HiddenKept, H
<1>10. Counted'
  BY <1>3 DEF IInv, Counted
<1>11. frame'.picture = IF invisible THEN 0 ELSE pic
  BY <1>3, <1>6
<1>12. HiddenKept'
  <2>1. H'.field = hidden' /\ H'.of = hidden'
    BY <1>3, <1>4, <1>5, <1>8
  <2>2. ASSUME hidden' \notin {0} \cup displayed' \cup {frame'.picture}
        PROVE  H'.FrameDistance = n' - hidden' /\ H'.divisor = 1
    <3>1. CASE short
      BY <1>3, <1>5, <1>11, <2>2, <3>1
    <3>2. CASE ~short /\ invisible
      BY <1>3, <1>4, <1>7, <3>2
    <3>3. CASE ~short /\ ~invisible
      <4>1. hidden' = hidden /\ hidden \notin {0} \cup displayed
        BY <1>3, <2>2, <3>3
      <4>2. QED
        BY <1>1, <1>3, <1>4, <1>9, <3>3, <4>1
    <3>4. QED
      BY <3>1, <3>2, <3>3
  <2>3. QED
    BY <2>1, <2>2 DEF HiddenKept, H
<1>13. SlotsKept'
  <2> SUFFICES ASSUME NEW i \in Slots
               PROVE  /\ refs'[i].FrmStat.of = 0 /\ refs'[i].FrmStat.divisor = 1
                      /\ refs'[i].picture \notin {0} \cup displayed' \cup {frame'.picture} =>
                           refs'[i].FrmStat.field = refs'[i].picture
    BY DEF SlotsKept
  <2>1. CASE i \in refresh
    <3>1. refs'[i].picture = pic /\ refs'[i].FrmStat = start
      BY <1>3, <2>1
    <3>2. pic # frame'.picture => pic = f
      BY <1>3, <1>5, <1>11
    <3>3. QED
      BY <1>3, <3>1, <3>2
  <2>2. CASE i \notin refresh
    <3>1. refs'[i] = refs[i]
      BY <1>3, <2>2
    <3>2. frame.picture = 0
      BY <1>3, <1>6
    <3>3. QED
      BY <1>3, <3>1, <3>2 DEF IInv, SlotsKept
  <2>3. QED
    BY <2>1, <2>2
<1>14. FrameKept'
  <2> SUFFICES ASSUME frame' # NoFrame
               PROVE  LET between == n' - frame'.picture - 1
                          st      == frame'.FrmStat
                      IN  /\ frame'.picture \notin displayed'
                          /\ st.field = frame'.picture /\ st.of \in {0, frame'.picture}
                          /\ st.divisor = IF st.IsShrtFrame /\ st.of # 0 /\ between > 3
                                          THEN between - 2 ELSE 1
    BY DEF FrameKept
  <2>1. ~invisible /\ frame'.picture = pic /\ frame'.FrmStat = stat
    BY <1>3
  <2>2. CASE short
    <3>1. pic = hidden /\ pic \notin {0} \cup displayed
      BY <1>3, <1>5, <2>2
    <3>2. H.FrameDistance = n - hidden /\ H.divisor = 1
      BY <1>9, <3>1
    <3>3. stat.divisor = IF n - hidden > 3 THEN n - hidden - 2 ELSE 1
      BY <1>1, <1>3, <2>2, <3>2
    <3>4. n' - pic - 1 = n - hidden
      BY <1>1, <1>3, <3>1
    <3>5. QED
      BY <1>3, <1>8, <2>1, <2>2, <3>1, <3>3, <3>4
  <2>3. CASE ~short
    BY <1>3, <1>5, <1>7, <2>1, <2>3
  <2>4. QED
    BY <2>2, <2>3
<1>15. FieldsLive' /\ FieldsSafe'
  <2>1. \A p \in 1 .. n' : p \in 1 .. n \/ p = f
    BY <1>1, <1>3
  <2>2. QED
    BY <1>3, <2>1 DEF IInv, FieldsLive, FieldsSafe
<1>16. StatisticsOfPicture'
  <2>1. report.picture \in 0 .. n
    BY <1>1 DEF TypeOK
  <2>2. report.picture # f
    BY <1>1, <1>3, <2>1
  <2>3. QED
    BY <1>3, <2>2 DEF IInv, StatisticsOfPicture, MotionDividedOnce
<1>17. QED
  BY <1>1, <1>10, <1>12, <1>13, <1>14, <1>15, <1>16 DEF IInv

(* A slot that is shown displays its picture for the first time. *)
LEMMA ShowIInv ==
  ASSUME IInv, PicturesShownOnce, NEW i \in Slots, MayShow(i), ShowExisting(i)
  PROVE  IInv'
<1>1. /\ frame = NoFrame /\ frame' = refs[i] /\ refs[i] # NoFrame
      /\ UNCHANGED <<n, hidden, refs, VP9Hidden_FrmStat, keyframe, Started, FrameIdx, live,
                     misused, displayed, report>>
  BY DEF ShowExisting
<1>2. Typed' /\ Typed /\ n \in Nat
  BY ShowTyped DEF IInv, Typed, TypeOK
<1>3. NoFrame.picture = 0
  BY <1>2, ZeroShape
<1>4. refs[i].picture # 0
  BY <1>1, <1>2 DEF Typed, PicturesReal
<1>5. refs[i].picture \notin displayed
  <2>1. Cardinality(displayed) \in Nat /\ FrameIdx \in Nat /\ Cardinality(displayed) <= FrameIdx
    BY <1>2, FS_CardinalityType DEF IInv, Counted, Typed, TypeOK
  <2>2. QED
    BY <2>1 DEF PicturesShownOnce, MayShow
<1>6. HiddenKept' /\ SlotsKept'
  BY <1>1, <1>3 DEF IInv, HiddenKept, SlotsKept
<1>7. FrameKept'
  <2>1. /\ refs[i].FrmStat.of = 0 /\ refs[i].FrmStat.divisor = 1
        /\ refs[i].FrmStat.field = refs[i].picture
    BY <1>1, <1>3, <1>4, <1>5 DEF IInv, SlotsKept
  <2>2. QED
    BY <1>1, <1>5, <2>1 DEF FrameKept
<1>8. Counted' /\ FieldsLive' /\ FieldsSafe' /\ StatisticsOfPicture'
  BY <1>1 DEF IInv, Counted, FieldsLive, FieldsSafe, StatisticsOfPicture, MotionDividedOnce
<1>9. QED
  BY <1>2, <1>6, <1>7, <1>8 DEF IInv

(* The field that is released is the one of the picture displayed. *)
LEMMA HandOutIInv ==
  ASSUME IInv, HandOut
  PROVE  IInv'
<1> DEFINE stat == IF Analysed THEN frame.FrmStat ELSE ZeroStat
           used == (IF Analysed /\ ReadsField THEN {stat.field} ELSE {}) \cup ({stat.field} \ {0})
           p    == frame.picture
<1>1. /\ frame # NoFrame /\ frame' = NoFrame /\ FrameIdx' = FrameIdx + 1
      /\ misused' = misused \cup (used \ live) /\ live' = live \ {stat.field}
      /\ displayed' = displayed \cup {p}
      /\ report' = [picture |-> p, analysed |-> Analysed, FrmStat |-> stat, at |-> n]
      /\ UNCHANGED <<n, hidden, refs, VP9Hidden_FrmStat, keyframe>>
  BY DEF HandOut
<1>2. Typed' /\ Typed /\ TypeOK /\ n \in Nat /\ frame \in Frame /\ p \in 1 .. n
  <2>1. Typed' /\ Typed /\ TypeOK /\ n \in Nat /\ frame \in Frame /\ p # 0
    BY <1>1, HandOutTyped DEF IInv, Typed, TypeOK, PicturesReal
  <2>2. QED
    BY <2>1, FrameFields
<1>3. /\ ZeroStat.field = 0 /\ ZeroStat.of = 0 /\ ZeroStat.divisor = 1 /\ NoFrame.picture = 0
  BY <1>2, ZeroShape
<1>4. /\ p \notin displayed /\ frame.FrmStat.field = p /\ frame.FrmStat.of \in {0, p}
      /\ frame.FrmStat.divisor =
           IF frame.FrmStat.IsShrtFrame /\ frame.FrmStat.of # 0 /\ n - p - 1 > 3
           THEN n - p - 1 - 2 ELSE 1
  BY <1>1 DEF IInv, FrameKept
<1>5. p \in live
  BY <1>2, <1>4 DEF IInv, FieldsLive
<1>6. /\ Analysed => stat = frame.FrmStat
      /\ ~Analysed => stat = ZeroStat
  OBVIOUS
<1>7. used \subseteq {p} /\ stat.field \in {0, p} /\ (Analysed => stat.field = p)
  BY <1>3, <1>4, <1>6
<1> HIDE DEF stat, used
<1>8. Counted'
  <2>1. IsFiniteSet(displayed) /\ Cardinality(displayed) <= FrameIdx /\ FrameIdx \in Nat
    BY <1>2 DEF IInv, Counted, TypeOK
  <2>2. Cardinality(displayed \cup {p}) = Cardinality(displayed) + 1 /\ Cardinality(displayed) \in Nat
        /\ IsFiniteSet(displayed \cup {p})
    BY <1>4, <2>1, FS_AddElement, FS_CardinalityType
  <2>3. QED
    BY <1>1, <2>1, <2>2 DEF Counted
<1>9. HiddenKept' /\ SlotsKept'
  BY <1>1, <1>3 DEF IInv, HiddenKept, SlotsKept
<1>10. FrameKept'
  BY <1>1 DEF FrameKept
<1>11. FieldsLive'
  BY <1>1, <1>2, <1>7 DEF IInv, FieldsLive
<1>12. FieldsSafe'
  BY <1>1, <1>5, <1>7 DEF IInv, FieldsSafe
<1>13. StatisticsOfPicture'
  <2>1. /\ report'.picture = p /\ report'.analysed = Analysed /\ report'.FrmStat = stat
        /\ report'.at = n
    BY <1>1
  <2>2. stat.of \in {0, p}
    BY <1>3, <1>4, <1>6
  <2>3. stat.divisor = IF stat.IsShrtFrame /\ stat.of # 0 /\ n - p - 1 > 3 THEN n - p - 1 - 2 ELSE 1
    BY <1>3, <1>4, <1>6
  <2>4. Analysed => p \notin live'
    BY <1>1, <1>7
  <2> HIDE DEF p
  <2>5. MotionDividedOnce'
    BY <2>1, <2>3 DEF MotionDividedOnce
  <2>6. QED
    BY <2>1, <2>2, <2>4, <2>5 DEF StatisticsOfPicture
<1>14. QED
  BY <1>2, <1>8, <1>9, <1>10, <1>11, <1>12, <1>13 DEF IInv

LEMMA StutterIInv == IInv /\ UNCHANGED vars => IInv'
<1> SUFFICES ASSUME IInv, UNCHANGED vars PROVE IInv'
  OBVIOUS
<1>1. Typed'
  BY StutterTyped DEF IInv
<1>2. UNCHANGED <<n, hidden, refs, VP9Hidden_FrmStat, keyframe, frame, Started, FrameIdx,
                  live, misused, displayed, report>>
  BY DEF vars
<1>3. QED
  BY <1>1, <1>2 DEF IInv, Counted, HiddenKept, SlotsKept, FrameKept, FieldsLive, FieldsSafe,
                    StatisticsOfPicture, MotionDividedOnce

LEMMA VP9Invariance ==
  ASSUME PicturesShownOnce
  PROVE  Spec => []IInv
<1>1. Init => IInv
  BY InitIInv
<1>2. IInv /\ [Next]_vars => IInv'
  <2> SUFFICES ASSUME IInv, [Next]_vars PROVE IInv'
    OBVIOUS
  <2>1. CASE \E key, intraonly, invisible, short, own \in BOOLEAN, refresh \in SUBSET Slots :
               Decodes(key, intraonly, invisible, short, own, refresh)
    <3>1. PICK key, intraonly, invisible, short, own \in BOOLEAN, refresh \in SUBSET Slots :
            Decodes(key, intraonly, invisible, short, own, refresh)
      BY <2>1
    <3>2. QED
      BY <3>1, DecodeIInv
  <2>2. CASE \E i \in Slots : MayShow(i) /\ ShowExisting(i)
    BY <2>2, ShowIInv
  <2>3. CASE HandOut
    BY <2>3, HandOutIInv
  <2>4. CASE UNCHANGED vars
    BY <2>4, StutterIInv
  <2>5. QED
    BY <2>1, <2>2, <2>3, <2>4, NextCases
<1>3. QED
  BY <1>1, <1>2, PTL DEF Spec

(* No motion field is read or freed after it was freed: of the copies that *)
(* hold its pointer, the one that is handed out comes with the picture of  *)
(* the field, before that is displayed.                                    *)
THEOREM FieldsFreedOnce ==
  ASSUME PicturesShownOnce
  PROVE  Spec => []FieldsSafe
<1>1. IInv => FieldsSafe
  BY DEF IInv
<1>2. QED
  BY <1>1, VP9Invariance, PTL

(* The statistics that come with a picture are its own or count nothing;   *)
(* the motion sums of a hidden frame are divided once, by the number of    *)
(* frames between it and the short frame that shows it, less 2.            *)
THEOREM StatisticsBelongToPicture ==
  ASSUME PicturesShownOnce
  PROVE  Spec => []StatisticsOfPicture
<1>1. IInv => StatisticsOfPicture
  BY DEF IInv
<1>2. QED
  BY <1>1, VP9Invariance, PTL

-----------------------------------------------------------------------------
(* Blocks: shapes of nodes and blocks.                                     *)

(* What is to do: blocks, and nodes, for which bp is Undecided. *)
Element == [row : Nat, col : Nat, bl : 0 .. 3, bp : Undecided .. PARTITION_SPLIT]

(* Sides of nodes and blocks, in blocks of 8x8. *)
Side(bl) == CASE bl = 0 -> 8 [] bl = 1 -> 4 [] bl = 2 -> 2 [] bl = 3 -> 1
Broad(b) == IF b.bl < 3 /\ b.bp = PARTITION_V THEN hbs(b.bl) ELSE Side(b.bl)
High(b)  == IF b.bl < 3 /\ b.bp = PARTITION_H THEN hbs(b.bl) ELSE Side(b.bl)

(* The powers that sizes of blocks and transforms are made of. *)
LEMMA Powers ==
  /\ 2^0 = 1 /\ 2^1 = 2 /\ 2^2 = 4 /\ 2^3 = 8
  /\ 4^0 = 1 /\ 4^1 = 4 /\ 4^2 = 16 /\ 4^3 = 64 /\ 4^4 = 256
  OBVIOUS

(* The side of a node in blocks of 8x8, and half of it. *)
LEMMA Halves ==
  /\ hbs(0) = 4 /\ hbs(1) = 2 /\ hbs(2) = 1 /\ hbs(3) = 0
  /\ Side(0) = 8 /\ Side(1) = 4 /\ Side(2) = 2 /\ Side(3) = 1
  BY Powers DEF hbs, Side

(* A node of more than one block is split into halves; nothing is larger   *)
(* than a superblock.                                                      *)
LEMMA Shapes ==
  ASSUME NEW b \in Element
  PROVE  /\ b.bl < 3 => Side(b.bl) = 2 * hbs(b.bl) /\ Side(b.bl + 1) = hbs(b.bl)
         /\ hbs(b.bl) \in 0 .. 4 /\ Side(b.bl) \in 1 .. 8
         /\ b.bl < 3 => hbs(b.bl) >= 1
         /\ Broad(b) \in 1 .. 8 /\ High(b) \in 1 .. 8
<1>1. b.bl \in 0 .. 3 /\ b.bp \in -1 .. 3
  BY DEF Element, Undecided, PARTITION_SPLIT
<1>2. CASE b.bl = 0
  BY <1>2, <1>1, Halves DEF Broad, High
<1>3. CASE b.bl = 1
  BY <1>3, <1>1, Halves DEF Broad, High
<1>4. CASE b.bl = 2
  BY <1>4, <1>1, Halves DEF Broad, High
<1>5. CASE b.bl = 3
  BY <1>5, <1>1, Halves DEF Broad, High
<1> QED
  BY <1>1, <1>2, <1>3, <1>4, <1>5

(* What decode_b adds for a block is its area, two less for the blocks of  *)
(* 8x4 and 4x8, and an inter block smaller than 8x8 has as many vectors as *)
(* that.                                                                   *)
LEMMA BlockShapes ==
  ASSUME NEW b \in Element, b.bp # Undecided
  PROVE  /\ Area(b) + (IF Halved(b) THEN 2 ELSE 0) = 4 * (Broad(b) * High(b))
         /\ Area(b) \in 1 .. 256
         /\ SmallerThan8x8(b) => Vectors(b) = Area(b)
         /\ Vectors(b) \in 1 .. 4
         /\ w4(b) = 2 * Broad(b) /\ h4(b) = 2 * High(b)
<1> USE DEF PARTITION_NONE, PARTITION_H, PARTITION_V, PARTITION_SPLIT, Undecided
<1>1. b.bl \in 0 .. 3 /\ b.bp \in 0 .. 3
  BY DEF Element
<1>2. CASE b.bl = 0
  BY <1>2, <1>1, Powers, Halves DEF Broad, High, Area, Halved, SmallerThan8x8, Vectors, w4, h4
<1>3. CASE b.bl = 1
  BY <1>3, <1>1, Powers, Halves DEF Broad, High, Area, Halved, SmallerThan8x8, Vectors, w4, h4
<1>4. CASE b.bl = 2
  BY <1>4, <1>1, Powers, Halves DEF Broad, High, Area, Halved, SmallerThan8x8, Vectors, w4, h4
<1>5. CASE b.bl = 3
  BY <1>5, <1>1, Powers, Halves DEF Broad, High, Area, Halved, SmallerThan8x8, Vectors, w4, h4
<1> QED
  BY <1>1, <1>2, <1>3, <1>4, <1>5

(* What decode_sb adds for the half of a node below the frame is half of   *)
(* its area.                                                               *)
LEMMA NodeShapes ==
  ASSUME NEW b \in Element, b.bp = Undecided
  PROVE  /\ Broad(b) = Side(b.bl) /\ High(b) = Side(b.bl)
         /\ b.bl < 3 => /\ 4^(4 - b.bl) \div 2 = 8 * (hbs(b.bl) * hbs(b.bl))
                        /\ 4 * (Side(b.bl) * Side(b.bl)) = 16 * (hbs(b.bl) * hbs(b.bl))
<1>1. b.bl \in 0 .. 3
  BY DEF Element
<1>2. Broad(b) = Side(b.bl) /\ High(b) = Side(b.bl)
  BY DEF Broad, High, Undecided, PARTITION_H, PARTITION_V
<1>3. CASE b.bl = 0
  BY <1>3, <1>2, Powers, Halves
<1>4. CASE b.bl = 1
  BY <1>4, <1>2, Powers, Halves
<1>5. CASE b.bl = 2
  BY <1>5, <1>2, Powers, Halves
<1> QED
  BY <1>1, <1>2, <1>3, <1>4, <1>5

(* A frame has a row and a column, and its last row, column and superblock *)
(* begin within it.                                                        *)
LEMMA Sizes ==
  ASSUME stream \in Streams
  PROVE  /\ stream.width \in Nat \ {0} /\ stream.height \in Nat \ {0}
         /\ rows \in Nat \ {0} /\ cols \in Nat \ {0} /\ sb_rows \in Nat \ {0} /\ sb_cols \in Nat \ {0}
         /\ 8 * rows - 7 <= stream.height /\ stream.height <= 8 * rows
         /\ 8 * cols - 7 <= stream.width /\ stream.width <= 8 * cols
         /\ 8 * sb_rows - 7 <= rows /\ rows <= 8 * sb_rows
         /\ 8 * sb_cols - 7 <= cols /\ cols <= 8 * sb_cols
<1>1. stream.width \in Nat \ {0} /\ stream.height \in Nat \ {0}
  BY BlocksAssumption
<1>2. /\ rows \in Nat \ {0} /\ cols \in Nat \ {0}
      /\ 8 * rows - 7 <= stream.height /\ stream.height <= 8 * rows
      /\ 8 * cols - 7 <= stream.width /\ stream.width <= 8 * cols
  BY <1>1 DEF rows, cols
<1> QED
  BY <1>1, <1>2 DEF sb_rows, sb_cols

(* A superblock begins within the frame, in the row and column of its      *)
(* number.                                                                 *)
LEMMA RootIn ==
  ASSUME stream \in Streams, NEW m \in 0 .. sb_cols * sb_rows - 1
  PROVE  /\ Root(m) \in Element /\ InFrame(Root(m)) /\ Root(m).bp = Undecided /\ Root(m).bl = 0
         /\ \E q \in 0 .. sb_rows - 1, j \in 0 .. sb_cols - 1 :
              Root(m).row = 8 * q /\ Root(m).col = 8 * j
              /\ m = q * sb_cols + j /\ q = m \div sb_cols /\ j = m % sb_cols
<1> DEFINE q == m \div sb_cols
           j == m % sb_cols
<1>1. sb_rows \in Nat \ {0} /\ sb_cols \in Nat \ {0} /\ m \in Nat
  BY Sizes
<1>2. q \in Nat /\ j \in 0 .. sb_cols - 1 /\ m = q * sb_cols + j
  BY <1>1, Quotient
<1>3. Root(m) = [row |-> 8 * q, col |-> 8 * j, bl |-> 0, bp |-> Undecided]
  BY DEF Root
<1> HIDE DEF q, j
<1>4. q < sb_rows
  <2>1. q * sb_cols < sb_rows * sb_cols
    <3>1. q * sb_cols \in Nat /\ sb_cols * sb_rows = sb_rows * sb_cols /\ sb_cols * sb_rows \in Nat
      BY <1>1, <1>2
    <3> QED
      BY <3>1, <1>1, <1>2
  <2>2. q - sb_rows \in Int /\ (q - sb_rows) * sb_cols = q * sb_cols - sb_rows * sb_cols
    BY <1>1, <1>2
  <2>3. (q - sb_rows) * sb_cols < 0
    BY <2>1, <2>2, <1>1, <1>2
  <2>4. ~(q - sb_rows >= 1)
    BY <2>2, <2>3, <1>1, MulBound
  <2>5. q - sb_rows # 0
    BY <2>3, <1>1
  <2> QED
    BY <2>2, <2>4, <2>5, <1>1, <1>2
<1>5. 8 * q < rows /\ 8 * j < cols
  BY <1>1, <1>2, <1>4, Sizes
<1>6. Root(m) \in Element /\ InFrame(Root(m))
  BY <1>2, <1>3, <1>5 DEF Element, InFrame, Undecided, PARTITION_SPLIT
<1> QED
  BY <1>1, <1>2, <1>3, <1>4, <1>6 DEF q, j

(* The next superblock is to the right, or the first one of the next row. *)
LEMMA NextRoot ==
  ASSUME stream \in Streams, NEW m \in 0 .. sb_cols * sb_rows - 1
  PROVE  \/ /\ Root(m).col + 8 < 8 * sb_cols
            /\ Root(m + 1).row = Root(m).row /\ Root(m + 1).col = Root(m).col + 8
         \/ /\ Root(m).col + 8 = 8 * sb_cols
            /\ Root(m + 1).row = Root(m).row + 8 /\ Root(m + 1).col = 0
<1>1. sb_cols \in Nat \ {0} /\ m \in Nat
  BY Sizes
<1>2. PICK q \in 0 .. sb_rows - 1, j \in 0 .. sb_cols - 1 :
        Root(m).row = 8 * q /\ Root(m).col = 8 * j /\ q = m \div sb_cols /\ j = m % sb_cols
  BY RootIn
<1>3. Root(m + 1).row = 8 * ((m + 1) \div sb_cols) /\ Root(m + 1).col = 8 * ((m + 1) % sb_cols)
  BY DEF Root
<1>4. CASE j + 1 < sb_cols
  <2>1. (m + 1) \div sb_cols = q /\ (m + 1) % sb_cols = j + 1
    BY <1>1, <1>2, <1>4, NextQuotient
  <2> QED
    BY <2>1, <1>1, <1>2, <1>3, <1>4
<1>5. CASE j + 1 = sb_cols
  <2>1. (m + 1) \div sb_cols = q + 1 /\ (m + 1) % sb_cols = 0
    BY <1>1, <1>2, <1>5, NextQuotient
  <2> QED
    BY <2>1, <1>1, <1>2, <1>3, <1>5
<1> QED
  BY <1>1, <1>2, <1>4, <1>5

(* The last superblock is in the lower right corner. *)
LEMMA LastRoot ==
  ASSUME stream \in Streams, NEW m \in 0 .. sb_cols * sb_rows - 1, m + 1 = sb_cols * sb_rows
  PROVE  Root(m).row + 8 = 8 * sb_rows /\ Root(m).col + 8 = 8 * sb_cols
<1>1. sb_rows \in Nat \ {0} /\ sb_cols \in Nat \ {0} /\ m \in Nat
  BY Sizes
<1>2. PICK q \in 0 .. sb_rows - 1, j \in 0 .. sb_cols - 1 :
        Root(m).row = 8 * q /\ Root(m).col = 8 * j /\ m = q * sb_cols + j
  BY RootIn
<1>3. (sb_rows - 1) * sb_cols = sb_rows * sb_cols - sb_cols /\ sb_rows * sb_cols = sb_cols * sb_rows
      /\ q * sb_cols \in Int /\ sb_cols * sb_rows \in Int
  BY <1>1
<1>4. q * sb_cols + j = (sb_rows - 1) * sb_cols + (sb_cols - 1)
  BY <1>1, <1>2, <1>3
<1>5. q \in Int /\ sb_rows - 1 \in Int /\ sb_cols - 1 \in 0 .. sb_cols - 1
  BY <1>1
<1>6. q = sb_rows - 1 /\ j = sb_cols - 1
  BY <1>1, <1>4, <1>5, Unique
<1> QED
  BY <1>1, <1>2, <1>6

(* The parts of a node by partition. *)
LEMMA PartsAre ==
  ASSUME NEW b \in Element, b.bp = Undecided, NEW bp \in 0 .. 3
  PROVE  LET h == hbs(b.bl) IN
         /\ b.bl = 3 \/ bp = 0 => Parts(b, bp) = Inside(Block(b, bp, 0, 0))
         /\ b.bl < 3 /\ bp = 1 => Parts(b, bp) = Inside(Block(b, bp, 0, 0)) \o Inside(Block(b, bp, h, 0))
         /\ b.bl < 3 /\ bp = 2 => Parts(b, bp) = Inside(Block(b, bp, 0, 0)) \o Inside(Block(b, bp, 0, h))
         /\ b.bl < 3 /\ bp = 3 =>
              Parts(b, bp) = Inside(Node(b, 0, 0)) \o Inside(Node(b, 0, h))
                             \o Inside(Node(b, h, 0)) \o Inside(Node(b, h, h))
<1>1. b.bl \in 0 .. 3
  BY DEF Element
<1> QED
  BY <1>1 DEF Parts, PARTITION_NONE, PARTITION_H, PARTITION_V, PARTITION_SPLIT

(* A part that is not decoded because it is outside of the frame adds      *)
(* nothing.                                                                *)
LEMMA InsideAdds ==
  ASSUME NEW w \in [Element -> Int], NEW E \in SUBSET Element, NEW s \in Seq(E), NEW k, Adds(w, s, k),
         NEW x \in Element, InFrame(x) => x \in E, ~InFrame(x) => w[x] = 0
  PROVE  /\ Inside(x) \in Seq(E) /\ Inside(x) \o s \in Seq(E)
         /\ Adds(w, Inside(x) \o s, w[x] + k)
<1>0. s \in Seq(Element)
  OBVIOUS
<1>1. CASE InFrame(x)
  <2>1. Inside(x) = <<x>> /\ x \in E
    BY <1>1 DEF Inside
  <2>2. Adds(w, <<x>> \o s, w[x] + k)
    BY <1>0, AddsBefore
  <2> QED
    BY <2>1, <2>2
<1>2. CASE ~InFrame(x)
  <2>1. Inside(x) = <<>> /\ w[x] = 0
    BY <1>2 DEF Inside
  <2>2. k \in Int
    BY <1>0, AddsBefore
  <2>3. <<>> \o s = s /\ 0 + k = k /\ <<>> \in Seq(E)
    BY <2>2
  <2> QED
    BY <2>1, <2>3
<1> QED
  BY <1>1, <1>2

-----------------------------------------------------------------------------
(* Blocks: the parts of a node, and what they add up to.                   *)

(* What lies in superblock m and begins within the frame. *)
Around(m) ==
  {x \in Element : /\ InFrame(x)
                   /\ Root(m).row <= x.row /\ x.row + High(x) <= Root(m).row + 8
                   /\ Root(m).col <= x.col /\ x.col + Broad(x) <= Root(m).col + 8}
Placed == Around(sb)

(* What the parts of a node have of a measure. *)
Yield(w, b, bp) ==
  LET h == hbs(b.bl) IN
  CASE b.bl = 3 \/ bp = 0 -> w[Block(b, bp, 0, 0)]
    [] b.bl < 3 /\ bp = 1 -> w[Block(b, bp, 0, 0)] + w[Block(b, bp, h, 0)]
    [] b.bl < 3 /\ bp = 2 -> w[Block(b, bp, 0, 0)] + w[Block(b, bp, 0, h)]
    [] b.bl < 3 /\ bp = 3 -> w[Node(b, 0, 0)] + (w[Node(b, 0, h)] + (w[Node(b, h, 0)] + w[Node(b, h, h)]))

(* A part of a node that is a block: its place and its size. *)
LEMMA PartIsBlock ==
  ASSUME NEW b \in Element, b.bp = Undecided, NEW bp \in 0 .. 3, NEW dr \in Nat, NEW dc \in Nat,
         NEW x, x = Block(b, bp, dr, dc)
  PROVE  /\ x \in Element /\ x.row = b.row + dr /\ x.col = b.col + dc /\ x.bl = b.bl /\ x.bp = bp
         /\ b.bl = 3 \/ bp = 0 => High(x) = Side(b.bl) /\ Broad(x) = Side(b.bl)
         /\ b.bl < 3 /\ bp = 1 => High(x) = hbs(b.bl) /\ Broad(x) = Side(b.bl)
         /\ b.bl < 3 /\ bp = 2 => High(x) = Side(b.bl) /\ Broad(x) = hbs(b.bl)
<1> USE DEF PARTITION_NONE, PARTITION_H, PARTITION_V, PARTITION_SPLIT, Undecided
<1>1. b.bl \in 0 .. 3
  BY DEF Element
<1>2. x \in Element /\ x.row = b.row + dr /\ x.col = b.col + dc /\ x.bl = b.bl /\ x.bp = bp
  BY DEF Element, Block
<1> QED
  BY <1>1, <1>2 DEF High, Broad

(* A part of a node that is a node: its place and its size. *)
LEMMA PartIsNode ==
  ASSUME NEW b \in Element, b.bp = Undecided, b.bl < 3, NEW dr \in Nat, NEW dc \in Nat,
         NEW y, y = Node(b, dr, dc)
  PROVE  /\ y \in Element /\ y.row = b.row + dr /\ y.col = b.col + dc
         /\ High(y) = hbs(b.bl) /\ Broad(y) = hbs(b.bl)
<1> USE DEF PARTITION_NONE, PARTITION_H, PARTITION_V, PARTITION_SPLIT, Undecided
<1>1. b.bl \in 0 .. 2
  BY DEF Element
<1>2. /\ y \in Element /\ y.row = b.row + dr /\ y.col = b.col + dc
      /\ y.bl = b.bl + 1 /\ y.bp = -1
  BY <1>1 DEF Element, Node
<1> QED
  BY <1>1, <1>2, Shapes DEF High, Broad

(* The parts of a node lie in its superblock. *)
LEMMA PartsPlaced ==
  ASSUME stream \in Streams, sb \in 0 .. sb_cols * sb_rows - 1,
         NEW b \in Placed, b.bp = Undecided, NEW bp \in 0 .. 3
  PROVE  LET h == hbs(b.bl) IN
         /\ h \in 0 .. 4
         /\ b.bl = 3 \/ bp = 0 => Block(b, bp, 0, 0) \in Placed
         /\ b.bl < 3 => /\ bp = 1 => /\ Block(b, bp, 0, 0) \in Placed
                                     /\ InFrame(Block(b, bp, h, 0)) => Block(b, bp, h, 0) \in Placed
                        /\ bp = 2 => /\ Block(b, bp, 0, 0) \in Placed
                                     /\ InFrame(Block(b, bp, 0, h)) => Block(b, bp, 0, h) \in Placed
                        /\ \A dr, dc \in {0, h} : InFrame(Node(b, dr, dc)) => Node(b, dr, dc) \in Placed
                        /\ Node(b, 0, 0) \in Placed
<1> DEFINE h == hbs(b.bl)
<1>0. b \in Element
  BY DEF Placed, Around
<1>1. /\ b.bl \in 0 .. 3 /\ InFrame(b) /\ b.row \in Nat /\ b.col \in Nat
      /\ High(b) = Side(b.bl) /\ Broad(b) = Side(b.bl)
      /\ Root(sb).row <= b.row /\ b.row + Side(b.bl) <= Root(sb).row + 8
      /\ Root(sb).col <= b.col /\ b.col + Side(b.bl) <= Root(sb).col + 8
  BY <1>0, NodeShapes DEF Placed, Around, Element
<1>2. h \in 0 .. 4 /\ Side(b.bl) \in 1 .. 8 /\ (b.bl < 3 => Side(b.bl) = 2 * h)
  BY <1>0, <1>1, Shapes
<1>3. Root(sb).row \in Int /\ Root(sb).col \in Int
  BY RootIn
<1> HIDE DEF h
<1>4. ASSUME NEW x \in Element, InFrame(x), NEW dr \in Nat, NEW dc \in Nat, dr \in {0, h}, dc \in {0, h},
             x.row = b.row + dr, x.col = b.col + dc,
             dr + High(x) <= Side(b.bl), dc + Broad(x) <= Side(b.bl)
      PROVE  x \in Placed
  <2>1. High(x) \in Nat /\ Broad(x) \in Nat
    BY Shapes
  <2> QED
    BY <1>0, <1>1, <1>2, <1>3, <1>4, <2>1 DEF Placed, Around
<1>5. InFrame(b) => InFrame(Block(b, bp, 0, 0)) /\ InFrame(Node(b, 0, 0))
  BY <1>1 DEF InFrame, Block, Node
<1>6. ASSUME NEW dr \in Nat, NEW dc \in Nat, dr \in {0, h}, dc \in {0, h}, b.bl < 3, InFrame(Node(b, dr, dc))
      PROVE  Node(b, dr, dc) \in Placed
  <2>2. /\ Node(b, dr, dc) \in Element
        /\ Node(b, dr, dc).row = b.row + dr /\ Node(b, dr, dc).col = b.col + dc
        /\ High(Node(b, dr, dc)) = h /\ Broad(Node(b, dr, dc)) = h
    BY <1>0, <1>6, PartIsNode DEF h
  <2>3. dr + h <= Side(b.bl) /\ dc + h <= Side(b.bl)
    BY <1>2, <1>6
  <2> QED
    BY <1>4, <1>6, <2>2, <2>3
<1>7. ASSUME NEW dr \in Nat, NEW dc \in Nat, dr \in {0, h}, dc \in {0, h}, InFrame(Block(b, bp, dr, dc)),
             dr # 0 => b.bl < 3 /\ bp = 1, dc # 0 => b.bl < 3 /\ bp = 2,
             b.bl < 3 => bp # 3
      PROVE  Block(b, bp, dr, dc) \in Placed
  <2>1. PICK x : x = Block(b, bp, dr, dc)
    OBVIOUS
  <2>2. /\ x \in Element /\ x.row = b.row + dr /\ x.col = b.col + dc
        /\ b.bl = 3 \/ bp = 0 => High(x) = Side(b.bl) /\ Broad(x) = Side(b.bl)
        /\ b.bl < 3 /\ bp = 1 => High(x) = h /\ Broad(x) = Side(b.bl)
        /\ b.bl < 3 /\ bp = 2 => High(x) = Side(b.bl) /\ Broad(x) = h
    BY <1>0, <2>1, PartIsBlock DEF h
  <2>3. dr + High(x) <= Side(b.bl) /\ dc + Broad(x) <= Side(b.bl)
    BY <1>1, <1>2, <1>7, <2>2
  <2>4. InFrame(x)
    BY <1>7, <2>1
  <2>5. x \in Placed
    BY <1>4, <1>7, <2>2, <2>3, <2>4
  <2> QED
    BY <2>1, <2>5
<1> QED
  BY <1>1, <1>2, <1>5, <1>6, <1>7 DEF h

(* A number for every element, 0 for what begins outside of the frame. *)
Measure(w) == w \in [Element -> Int] /\ \A x \in Element : ~InFrame(x) => w[x] = 0

(* Parts come before what was left to do, and add what Yield says. *)
LEMMA PartsAdd ==
  ASSUME stream \in Streams, sb \in 0 .. sb_cols * sb_rows - 1,
         NEW b \in Placed, b.bp = Undecided, NEW bp \in 0 .. 3,
         NEW w, Measure(w), NEW s \in Seq(Placed), NEW k, Adds(w, s, k)
  PROVE  /\ Parts(b, bp) \o s \in Seq(Placed)
         /\ Parts(b, bp) \o s # <<>>
         /\ Adds(w, Parts(b, bp) \o s, Yield(w, b, bp) + k)
<1>h. PICK h \in Nat : h = hbs(b.bl)
  BY PartsPlaced
<1> DEFINE Good(x) == x \in Element /\ (InFrame(x) => x \in Placed)
<1>0. /\ Placed \in SUBSET Element /\ w \in [Element -> Int] /\ \A x \in Element : ~InFrame(x) => w[x] = 0
      /\ b \in Element /\ b.bl \in 0 .. 3 /\ s \in Seq(Element)
      /\ InFrame(b) /\ b.row \in Nat /\ b.col \in Nat
  <2>1. Placed \in SUBSET Element
    BY DEF Placed, Around
  <2>2. s \in Seq(Element)
    BY <2>1
  <2> QED
    BY <2>1, <2>2 DEF Measure, Placed, Around, Element
<1>k. k \in Int
  BY <1>0, AddsBefore
<1>1. ASSUME NEW x, Good(x), NEW t \in Seq(Placed), NEW j, Adds(w, t, j)
      PROVE  /\ Inside(x) \in Seq(Placed) /\ Inside(x) \o t \in Seq(Placed)
             /\ Adds(w, Inside(x) \o t, w[x] + j)
  BY <1>0, <1>1, InsideAdds
<1>2. ASSUME NEW x, Good(x)
      PROVE  w[x] \in Int /\ Inside(x) \in Seq(Placed)
  BY <1>0, <1>1, <1>2
<1>3. Inside(Block(b, bp, 0, 0)) # <<>> /\ Inside(Node(b, 0, 0)) # <<>>
  BY <1>0 DEF Inside, InFrame, Block, Node
<1>4. CASE b.bl = 3 \/ bp = 0
  <2>1. PICK x : x = Block(b, bp, 0, 0)
    OBVIOUS
  <2>2. Good(x)
    BY <1>4, <2>1, <1>0, PartsPlaced
  <2>3. Parts(b, bp) = Inside(x) /\ Yield(w, b, bp) = w[x]
    BY <1>0, <1>4, <2>1, PartsAre DEF Yield
  <2> HIDE DEF Good
  <2>4. Inside(x) \o s # <<>>
    BY <1>2, <1>3, <2>1, <2>2
  <2> QED
    BY <1>1, <2>2, <2>3, <2>4
<1>5. ASSUME NEW x, NEW y, Good(x), Good(y), Inside(x) # <<>>,
             Parts(b, bp) = Inside(x) \o Inside(y), Yield(w, b, bp) = w[x] + w[y]
      PROVE  /\ Parts(b, bp) \o s \in Seq(Placed) /\ Parts(b, bp) \o s # <<>>
             /\ Adds(w, Parts(b, bp) \o s, Yield(w, b, bp) + k)
  <2> HIDE DEF Good
  <2>1. /\ Inside(y) \o s \in Seq(Placed) /\ Adds(w, Inside(y) \o s, w[y] + k)
        /\ Inside(y) \in Seq(Placed) /\ Inside(x) \in Seq(Placed)
    BY <1>1, <1>5
  <2>2. Parts(b, bp) \o s = Inside(x) \o (Inside(y) \o s)
    BY <1>5, <2>1, ConcatAssociative
  <2>3. Inside(x) \o (Inside(y) \o s) \in Seq(Placed) /\ Adds(w, Inside(x) \o (Inside(y) \o s), w[x] + (w[y] + k))
    BY <1>1, <1>5, <2>1
  <2>4. Inside(x) \o (Inside(y) \o s) # <<>>
    BY <1>5, <2>1
  <2>5. w[x] + (w[y] + k) = (w[x] + w[y]) + k
    BY <1>2, <1>5, <1>k
  <2> QED
    BY <1>5, <2>2, <2>3, <2>4, <2>5
<1>6. CASE b.bl < 3 /\ bp = 1
  <2>1. PICK x, y : x = Block(b, bp, 0, 0) /\ y = Block(b, bp, h, 0)
    OBVIOUS
  <2>2. Good(x) /\ Good(y)
    <3>1. x \in Element /\ y \in Element
      BY <2>1, <1>0, PartIsBlock
    <3> QED
      BY <1>h, <1>6, <2>1, <3>1, PartsPlaced
  <2>3. Parts(b, bp) = Inside(x) \o Inside(y) /\ Yield(w, b, bp) = w[x] + w[y]
    <3>1. Parts(b, bp) = Inside(x) \o Inside(y)
      BY <1>0, <1>h, <1>6, <2>1, PartsAre
    <3>2. Yield(w, b, bp) = w[x] + w[y]
      BY <1>h, <1>6, <2>1 DEF Yield
    <3> QED
      BY <3>1, <3>2
  <2> HIDE DEF Good
  <2> QED
    BY <1>3, <1>5, <2>1, <2>2, <2>3
<1>7. CASE b.bl < 3 /\ bp = 2
  <2>1. PICK x, y : x = Block(b, bp, 0, 0) /\ y = Block(b, bp, 0, h)
    OBVIOUS
  <2>2. Good(x) /\ Good(y)
    <3>1. x \in Element /\ y \in Element
      BY <2>1, <1>0, PartIsBlock
    <3> QED
      BY <1>h, <1>7, <2>1, <3>1, PartsPlaced
  <2>3. Parts(b, bp) = Inside(x) \o Inside(y) /\ Yield(w, b, bp) = w[x] + w[y]
    <3>1. Parts(b, bp) = Inside(x) \o Inside(y)
      BY <1>0, <1>h, <1>7, <2>1, PartsAre
    <3>2. Yield(w, b, bp) = w[x] + w[y]
      BY <1>h, <1>7, <2>1 DEF Yield
    <3> QED
      BY <3>1, <3>2
  <2> HIDE DEF Good
  <2> QED
    BY <1>3, <1>5, <2>1, <2>2, <2>3
<1>8. CASE b.bl < 3 /\ bp = 3
  <2>1. PICK x, y, z, u : x = Node(b, 0, 0) /\ y = Node(b, 0, h) /\ z = Node(b, h, 0) /\ u = Node(b, h, h)
    OBVIOUS
  <2>2. Good(x) /\ Good(y) /\ Good(z) /\ Good(u)
    <3>1. x \in Element /\ y \in Element /\ z \in Element /\ u \in Element
      BY <1>8, <2>1, <1>0, PartIsNode
    <3> QED
      BY <1>h, <1>8, <2>1, <3>1, PartsPlaced
  <2>3. /\ Parts(b, bp) = Inside(x) \o Inside(y) \o Inside(z) \o Inside(u)
        /\ Yield(w, b, bp) = w[x] + (w[y] + (w[z] + w[u]))
    <3>1. Parts(b, bp) = Inside(x) \o Inside(y) \o Inside(z) \o Inside(u)
      BY <1>0, <1>h, <1>8, <2>1, PartsAre
    <3>2. Yield(w, b, bp) = w[x] + (w[y] + (w[z] + w[u]))
      BY <1>h, <1>8, <2>1 DEF Yield
    <3> QED
      BY <3>1, <3>2
  <2> HIDE DEF Good
  <2> DEFINE A1 == Inside(x) A2 == Inside(y) A3 == Inside(z) A4 == Inside(u)
  <2>4. A1 \in Seq(Placed) /\ A2 \in Seq(Placed) /\ A3 \in Seq(Placed) /\ A4 \in Seq(Placed) /\ A1 # <<>>
    BY <1>2, <1>3, <2>1, <2>2
  <2>5. A4 \o s \in Seq(Placed) /\ Adds(w, A4 \o s, w[u] + k)
    BY <1>1, <2>2
  <2>6. A3 \o (A4 \o s) \in Seq(Placed) /\ Adds(w, A3 \o (A4 \o s), w[z] + (w[u] + k))
    BY <1>1, <2>2, <2>5
  <2>7. A2 \o (A3 \o (A4 \o s)) \in Seq(Placed) /\ Adds(w, A2 \o (A3 \o (A4 \o s)), w[y] + (w[z] + (w[u] + k)))
    BY <1>1, <2>2, <2>6
  <2>8. /\ A1 \o (A2 \o (A3 \o (A4 \o s))) \in Seq(Placed)
        /\ Adds(w, A1 \o (A2 \o (A3 \o (A4 \o s))), w[x] + (w[y] + (w[z] + (w[u] + k))))
    BY <1>1, <2>2, <2>7
  <2> HIDE DEF A1, A2, A3, A4
  <2>9. (A1 \o A2 \o A3 \o A4) \o s = A1 \o (A2 \o (A3 \o (A4 \o s)))
    <3>1. Cat(Cat(Cat(Cat(A1, A2), A3), A4), s) = Cat(A1, Cat(A2, Cat(A3, Cat(A4, s))))
      BY <2>4, ConcatFour
    <3> QED
      BY <3>1, Zenon DEF Cat
  <2>10. A1 \o (A2 \o (A3 \o (A4 \o s))) # <<>>
    BY <2>4, <2>7
  <2>11. w[x] + (w[y] + (w[z] + (w[u] + k))) = Yield(w, b, bp) + k
    <3>1. w[x] \in Int /\ w[y] \in Int /\ w[z] \in Int /\ w[u] \in Int
      BY <1>2, <2>2
    <3> QED
      BY <3>1, <1>k, <2>3
  <2> QED
    BY <2>3, <2>8, <2>9, <2>10, <2>11 DEF A1, A2, A3, A4
<1> QED
  BY <1>0, <1>4, <1>6, <1>7, <1>8

-----------------------------------------------------------------------------
(* Blocks: what the areas are measured by.                                 *)

(* How many of the len numbers from "from" on are less than end. *)
Clip(end, from, len) == IF from >= end THEN 0 ELSE IF from + len <= end THEN len ELSE end - from

(* The three measures: the whole area, the area within the frame, and the  *)
(* columns over a row, in blocks of 4x4.                                   *)
Whole      == [x \in Element |-> IF InFrame(x) THEN 4 * (Broad(x) * High(x)) ELSE 0]
Visible    == [x \in Element |-> 4 * (Clip(rows, x.row, High(x)) * Clip(cols, x.col, Broad(x)))]
Over(line) == [x \in Element |-> IF InFrame(x) /\ 2 * x.row <= line /\ line < 2 * (x.row + High(x))
                                 THEN 2 * Broad(x) ELSE 0]

(* What lies within the frame of two parts is that of the whole. *)
LEMMA ClipSplits ==
  ASSUME NEW end \in Nat, NEW from \in Nat, NEW len \in Nat, NEW more \in Nat
  PROVE  /\ Clip(end, from, len) \in 0 .. len
         /\ Clip(end, from, len + more) = Clip(end, from, len) + Clip(end, from + len, more)
         /\ from >= end => Clip(end, from, len) = 0
         /\ from + len <= end => Clip(end, from, len) = len
  BY DEF Clip

(* The three measures: the whole area, the visible one, and the columns    *)
(* over a row of blocks of 4x4.                                            *)
LEMMA Measures ==
  ASSUME stream \in Streams
  PROVE  Measure(Whole) /\ Measure(Visible) /\ \A line \in Int : Measure(Over(line))
<1>0. rows \in Nat /\ cols \in Nat
  BY Sizes
<1>1. ASSUME NEW x \in Element
      PROVE  /\ x.row \in Nat /\ x.col \in Nat /\ Broad(x) \in Nat /\ High(x) \in Nat
             /\ Clip(rows, x.row, High(x)) \in Nat /\ Clip(cols, x.col, Broad(x)) \in Nat
             /\ ~InFrame(x) => Clip(rows, x.row, High(x)) = 0 \/ Clip(cols, x.col, Broad(x)) = 0
  <2>1. x.row \in Nat /\ x.col \in Nat /\ Broad(x) \in Nat /\ High(x) \in Nat
    BY Shapes DEF Element
  <2> QED
    BY <1>0, <2>1 DEF Clip, InFrame
<1>2. Measure(Whole)
  <2>1. ASSUME NEW x \in Element
        PROVE  4 * (Broad(x) * High(x)) \in Int
    BY <1>1
  <2> QED
    BY <2>1 DEF Measure, Whole
<1>3. Measure(Visible)
  <2>1. ASSUME NEW x \in Element
        PROVE  /\ 4 * (Clip(rows, x.row, High(x)) * Clip(cols, x.col, Broad(x))) \in Int
               /\ ~InFrame(x) => 4 * (Clip(rows, x.row, High(x)) * Clip(cols, x.col, Broad(x))) = 0
    BY <1>1
  <2> QED
    BY <2>1 DEF Measure, Visible
<1>4. ASSUME NEW line \in Int
      PROVE  Measure(Over(line))
  <2>1. ASSUME NEW x \in Element
        PROVE  2 * Broad(x) \in Int
    BY <1>1
  <2> QED
    BY <2>1 DEF Measure, Over
<1> QED
  BY <1>2, <1>3, <1>4

(* The one block of PARTITION_NONE, and of the smallest nodes. *)
LEMMA PartOfNone ==
  ASSUME NEW b \in Element, b.bp = Undecided, NEW bp \in 0 .. 3, b.bl = 3 \/ bp = 0,
         NEW x, x = Block(b, bp, 0, 0)
  PROVE  /\ x \in Element /\ x.row = b.row /\ x.col = b.col
         /\ High(x) = Side(b.bl) /\ Broad(x) = Side(b.bl)
<1>1. b.row \in Nat /\ b.col \in Nat
  BY DEF Element
<1>2. /\ x \in Element /\ x.row = b.row + 0 /\ x.col = b.col + 0
      /\ High(x) = Side(b.bl) /\ Broad(x) = Side(b.bl)
  BY PartIsBlock
<1> QED
  BY <1>1, <1>2

(* The two blocks of PARTITION_H. *)
LEMMA PartsOfH ==
  ASSUME NEW b \in Element, b.bp = Undecided, b.bl < 3, NEW h \in Nat, h = hbs(b.bl),
         NEW x, x = Block(b, 1, 0, 0), NEW y, y = Block(b, 1, h, 0)
  PROVE  /\ x \in Element /\ x.row = b.row /\ x.col = b.col
         /\ High(x) = h /\ Broad(x) = Side(b.bl)
         /\ y \in Element /\ y.row = b.row + h /\ y.col = b.col
         /\ High(y) = h /\ Broad(y) = Side(b.bl)
<1>1. b.row \in Nat /\ b.col \in Nat
  BY DEF Element
<1>2. /\ x \in Element /\ x.row = b.row + 0 /\ x.col = b.col + 0
      /\ High(x) = hbs(b.bl) /\ Broad(x) = Side(b.bl)
  BY PartIsBlock
<1>3. /\ y \in Element /\ y.row = b.row + h /\ y.col = b.col + 0
      /\ High(y) = hbs(b.bl) /\ Broad(y) = Side(b.bl)
  BY PartIsBlock
<1> QED
  BY <1>1, <1>2, <1>3

(* The two blocks of PARTITION_V. *)
LEMMA PartsOfV ==
  ASSUME NEW b \in Element, b.bp = Undecided, b.bl < 3, NEW h \in Nat, h = hbs(b.bl),
         NEW x, x = Block(b, 2, 0, 0), NEW y, y = Block(b, 2, 0, h)
  PROVE  /\ x \in Element /\ x.row = b.row /\ x.col = b.col
         /\ Broad(x) = h /\ High(x) = Side(b.bl)
         /\ y \in Element /\ y.row = b.row /\ y.col = b.col + h
         /\ Broad(y) = h /\ High(y) = Side(b.bl)
<1>1. b.row \in Nat /\ b.col \in Nat
  BY DEF Element
<1>2. /\ x \in Element /\ x.row = b.row + 0 /\ x.col = b.col + 0
      /\ High(x) = Side(b.bl) /\ Broad(x) = hbs(b.bl)
  BY PartIsBlock
<1>3. /\ y \in Element /\ y.row = b.row + 0 /\ y.col = b.col + h
      /\ High(y) = Side(b.bl) /\ Broad(y) = hbs(b.bl)
  BY PartIsBlock
<1> QED
  BY <1>1, <1>2, <1>3

(* The four nodes of PARTITION_SPLIT. *)
LEMMA PartsOfSplit ==
  ASSUME NEW b \in Element, b.bp = Undecided, b.bl < 3, NEW h \in Nat, h = hbs(b.bl),
         NEW x, x = Node(b, 0, 0), NEW y, y = Node(b, 0, h),
         NEW z, z = Node(b, h, 0), NEW u, u = Node(b, h, h)
  PROVE  /\ x \in Element /\ x.row = b.row /\ x.col = b.col /\ Broad(x) = h /\ High(x) = h
         /\ y \in Element /\ y.row = b.row /\ y.col = b.col + h /\ Broad(y) = h /\ High(y) = h
         /\ z \in Element /\ z.row = b.row + h /\ z.col = b.col /\ Broad(z) = h /\ High(z) = h
         /\ u \in Element /\ u.row = b.row + h /\ u.col = b.col + h /\ Broad(u) = h /\ High(u) = h
<1>1. b.row \in Nat /\ b.col \in Nat
  BY DEF Element
<1>2. /\ x \in Element /\ x.row = b.row + 0 /\ x.col = b.col + 0
      /\ High(x) = hbs(b.bl) /\ Broad(x) = hbs(b.bl)
  BY PartIsNode
<1>3. /\ y \in Element /\ y.row = b.row + 0 /\ y.col = b.col + h
      /\ High(y) = hbs(b.bl) /\ Broad(y) = hbs(b.bl)
  BY PartIsNode
<1>4. /\ z \in Element /\ z.row = b.row + h /\ z.col = b.col + 0
      /\ High(z) = hbs(b.bl) /\ Broad(z) = hbs(b.bl)
  BY PartIsNode
<1>5. /\ u \in Element /\ u.row = b.row + h /\ u.col = b.col + h
      /\ High(u) = hbs(b.bl) /\ Broad(u) = hbs(b.bl)
  BY PartIsNode
<1> QED
  BY <1>1, <1>2, <1>3, <1>4, <1>5

(* The parts of a node and the half below the frame have its area if       *)
(* nothing lies right of the frame, and never more.                        *)
LEMMA WholeYield ==
  ASSUME stream \in Streams, sb \in 0 .. sb_cols * sb_rows - 1,
         NEW b \in Placed, b.bp = Undecided, NEW bp \in 0 .. 3, bp \in Partitions(b)
  PROVE  /\ Below(b) \in Nat
         /\ Below(b) + Yield(Whole, b, bp) <= Whole[b]
         /\ cols % 8 = 0 => Below(b) + Yield(Whole, b, bp) = Whole[b]
         /\ rows % 8 = 0 => Below(b) = 0
<1>0. b \in Element
  BY DEF Placed, Around
<1>1. /\ b.bl \in 0 .. 3 /\ InFrame(b) /\ b.row \in Nat /\ b.col \in Nat
      /\ High(b) = Side(b.bl) /\ Broad(b) = Side(b.bl)
      /\ Root(sb).row <= b.row /\ b.row + Side(b.bl) <= Root(sb).row + 8
      /\ Root(sb).col <= b.col /\ b.col + Side(b.bl) <= Root(sb).col + 8
      /\ b.row < rows /\ b.col < cols
  BY <1>0, NodeShapes DEF Placed, Around, Element, InFrame
<1>2. PICK h \in Nat : h = hbs(b.bl)
  BY <1>0, Shapes
<1>3. /\ Side(b.bl) \in 1 .. 8 /\ (b.bl < 3 => Side(b.bl) = 2 * h /\ h >= 1)
      /\ b.bl < 3 => /\ 4^(4 - b.bl) \div 2 = 8 * (h * h)
                     /\ 4 * (Side(b.bl) * Side(b.bl)) = 16 * (h * h)
  BY <1>0, <1>2, Shapes, NodeShapes
<1>4. /\ rows \in Nat /\ cols \in Nat /\ sb_rows \in Nat /\ sb_cols \in Nat
      /\ \E q \in 0 .. sb_rows - 1, j \in 0 .. sb_cols - 1 : Root(sb).row = 8 * q /\ Root(sb).col = 8 * j
  BY Sizes, RootIn
<1>5. cols % 8 = 0 => b.col + Side(b.bl) <= cols
  BY <1>1, <1>3, <1>4
<1>6. rows % 8 = 0 => b.row + Side(b.bl) <= rows
  BY <1>1, <1>3, <1>4
<1>7. Whole[b] = 4 * (Side(b.bl) * Side(b.bl))
  BY <1>0, <1>1 DEF Whole
<1>8. h * h \in Nat /\ (b.bl < 3 => 4 * (h * Side(b.bl)) = 8 * (h * h) /\ 4 * (Side(b.bl) * h) = 8 * (h * h))
  BY <1>3, NatProduct
<1>9. /\ Below(b) = IF b.bl < 3 /\ b.col + h < cols /\ ~(b.row + h < rows) THEN 8 * (h * h) ELSE 0
  BY <1>2, <1>3 DEF Below, HasRight, HasLower
<1>m. PICK m \in Nat :
        /\ m = h * h
        /\ b.bl < 3 => /\ Whole[b] = 16 * m
                       /\ Below(b) = IF b.col + h < cols /\ ~(b.row + h < rows) THEN 8 * m ELSE 0
                       /\ cols % 8 = 0 => b.col + h < cols
                       /\ rows % 8 = 0 => b.row + h < rows
  BY <1>1, <1>3, <1>4, <1>5, <1>6, <1>7, <1>8, <1>9
<1>10. CASE b.bl = 3 \/ bp = 0
  <2>1. PICK x : x = Block(b, bp, 0, 0)
    OBVIOUS
  <2>2. /\ x \in Element /\ x.row = b.row /\ x.col = b.col
        /\ High(x) = Side(b.bl) /\ Broad(x) = Side(b.bl)
    BY <1>0, <1>10, <2>1, PartOfNone
  <2>3. Whole[x] = 4 * (Side(b.bl) * Side(b.bl))
    BY <1>1, <2>2 DEF Whole, InFrame
  <2>4. Yield(Whole, b, bp) = Whole[x]
    BY <1>10, <2>1 DEF Yield
  <2>5. Below(b) = 0
    BY <1>1, <1>2, <1>9, <1>10 DEF Partitions, HasRight, HasLower, PARTITION_SPLIT, PARTITION_H, PARTITION_V
  <2>6. Whole[b] \in Int
    BY <1>3, <1>7
  <2> QED
    BY <1>7, <2>3, <2>4, <2>5, <2>6
<1>11. CASE b.bl < 3 /\ bp = 1
  <2>1. PICK x, y : x = Block(b, bp, 0, 0) /\ y = Block(b, bp, h, 0)
    OBVIOUS
  <2>2. /\ x \in Element /\ x.row = b.row /\ x.col = b.col
        /\ High(x) = h /\ Broad(x) = Side(b.bl)
        /\ y \in Element /\ y.row = b.row + h /\ y.col = b.col
        /\ High(y) = h /\ Broad(y) = Side(b.bl)
    BY <1>0, <1>2, <1>11, <2>1, PartsOfH
  <2>3. Whole[x] = 8 * (h * h)
    BY <1>1, <1>8, <1>11, <2>2 DEF Whole, InFrame
  <2>4. Whole[y] = IF b.row + h < rows THEN 8 * (h * h) ELSE 0
    BY <1>1, <1>8, <1>11, <2>2 DEF Whole, InFrame
  <2>5. Yield(Whole, b, bp) = Whole[x] + Whole[y]
    BY <1>2, <1>11, <2>1 DEF Yield
  <2>6. b.col + h < cols
    BY <1>2, <1>11 DEF Partitions, HasRight, HasLower, PARTITION_SPLIT, PARTITION_H, PARTITION_V
  <2> QED
    BY <1>m, <1>11, <2>3, <2>4, <2>5, <2>6
<1>12. CASE b.bl < 3 /\ bp = 2
  <2>1. PICK x, y : x = Block(b, bp, 0, 0) /\ y = Block(b, bp, 0, h)
    OBVIOUS
  <2>2. /\ x \in Element /\ x.row = b.row /\ x.col = b.col
        /\ Broad(x) = h /\ High(x) = Side(b.bl)
        /\ y \in Element /\ y.row = b.row /\ y.col = b.col + h
        /\ Broad(y) = h /\ High(y) = Side(b.bl)
    BY <1>0, <1>2, <1>12, <2>1, PartsOfV
  <2>3. Whole[x] = 8 * (h * h)
    BY <1>1, <1>8, <1>12, <2>2 DEF Whole, InFrame
  <2>4. Whole[y] = IF b.col + h < cols THEN 8 * (h * h) ELSE 0
    BY <1>1, <1>8, <1>12, <2>2 DEF Whole, InFrame
  <2>5. Yield(Whole, b, bp) = Whole[x] + Whole[y]
    BY <1>2, <1>12, <2>1 DEF Yield
  <2>6. b.row + h < rows
    BY <1>2, <1>12 DEF Partitions, HasRight, HasLower, PARTITION_SPLIT, PARTITION_H, PARTITION_V
  <2> QED
    BY <1>m, <1>12, <2>3, <2>4, <2>5, <2>6
<1>13. CASE b.bl < 3 /\ bp = 3
  <2>1. PICK x, y, z, u : x = Node(b, 0, 0) /\ y = Node(b, 0, h) /\ z = Node(b, h, 0) /\ u = Node(b, h, h)
    OBVIOUS
  <2>2. /\ x \in Element /\ x.row = b.row /\ x.col = b.col /\ Broad(x) = h /\ High(x) = h
        /\ y \in Element /\ y.row = b.row /\ y.col = b.col + h /\ Broad(y) = h /\ High(y) = h
        /\ z \in Element /\ z.row = b.row + h /\ z.col = b.col /\ Broad(z) = h /\ High(z) = h
        /\ u \in Element /\ u.row = b.row + h /\ u.col = b.col + h /\ Broad(u) = h /\ High(u) = h
    BY <1>0, <1>2, <1>13, <2>1, PartsOfSplit
  <2>3. /\ Whole[x] = 4 * (h * h)
        /\ Whole[y] = IF b.col + h < cols THEN 4 * (h * h) ELSE 0
        /\ Whole[z] = IF b.row + h < rows THEN 4 * (h * h) ELSE 0
        /\ Whole[u] = IF b.row + h < rows /\ b.col + h < cols THEN 4 * (h * h) ELSE 0
    BY <1>1, <2>2 DEF Whole, InFrame
  <2>4. Yield(Whole, b, bp) = Whole[x] + (Whole[y] + (Whole[z] + Whole[u]))
    BY <1>2, <1>13, <2>1 DEF Yield
  <2>5. /\ Whole[x] = 4 * m
        /\ Whole[y] = IF b.col + h < cols THEN 4 * m ELSE 0
        /\ Whole[z] = IF b.row + h < rows THEN 4 * m ELSE 0
        /\ Whole[u] = IF b.row + h < rows /\ b.col + h < cols THEN 4 * m ELSE 0
    BY <1>m, <2>3
  <2>6. b.bl < 3 => /\ Whole[b] = 16 * m
                    /\ Below(b) = IF b.col + h < cols /\ ~(b.row + h < rows) THEN 8 * m ELSE 0
                    /\ cols % 8 = 0 => b.col + h < cols
                    /\ rows % 8 = 0 => b.row + h < rows
    BY <1>m
  <2>7. CASE b.row + h < rows
    BY <1>13, <2>4, <2>5, <2>6, <2>7
  <2>8. CASE ~(b.row + h < rows)
    BY <1>13, <2>4, <2>5, <2>6, <2>8
  <2> QED
    BY <2>7, <2>8
<1> QED
  BY <1>1, <1>10, <1>11, <1>12, <1>13

(* The parts of a node have its visible area. *)
LEMMA VisibleYield ==
  ASSUME stream \in Streams, NEW b \in Element, b.bp = Undecided, NEW bp \in 0 .. 3
  PROVE  Yield(Visible, b, bp) = Visible[b]
<1>1. /\ b.bl \in 0 .. 3 /\ b.row \in Nat /\ b.col \in Nat
      /\ High(b) = Side(b.bl) /\ Broad(b) = Side(b.bl)
  BY NodeShapes DEF Element
<1>2. PICK h \in Nat : h = hbs(b.bl)
  BY Shapes
<1>3. /\ Side(b.bl) \in Nat /\ (b.bl < 3 => Side(b.bl) = h + h)
  BY <1>2, Shapes
<1>4. rows \in Nat /\ cols \in Nat
  BY Sizes
<1>5. PICK p \in Nat, q \in Nat, r \in Nat, t \in Nat :
        /\ p = Clip(rows, b.row, h) /\ q = Clip(rows, b.row + h, h)
        /\ r = Clip(cols, b.col, h) /\ t = Clip(cols, b.col + h, h)
  <2>1. /\ Clip(rows, b.row, h) \in Nat /\ Clip(rows, b.row + h, h) \in Nat
        /\ Clip(cols, b.col, h) \in Nat /\ Clip(cols, b.col + h, h) \in Nat
    BY <1>1, <1>4 DEF Clip
  <2> QED
    BY <2>1
<1>6. b.bl < 3 => /\ Clip(rows, b.row, Side(b.bl)) = p + q
                  /\ Clip(cols, b.col, Side(b.bl)) = r + t
  <2>1. ASSUME NEW end \in Nat, NEW from \in Nat
        PROVE  Clip(end, from, h + h) = Clip(end, from, h) + Clip(end, from + h, h)
    BY ClipSplits
  <2>2. /\ Clip(rows, b.row, h + h) = Clip(rows, b.row, h) + Clip(rows, b.row + h, h)
        /\ Clip(cols, b.col, h + h) = Clip(cols, b.col, h) + Clip(cols, b.col + h, h)
    BY <1>1, <1>4, <2>1
  <2> QED
    BY <1>3, <1>5, <2>2
<1>7. Visible[b] = 4 * (Clip(rows, b.row, Side(b.bl)) * Clip(cols, b.col, Side(b.bl)))
  BY <1>1 DEF Visible
<1>8. CASE b.bl = 3 \/ bp = 0
  <2>1. PICK x : x = Block(b, bp, 0, 0)
    OBVIOUS
  <2>2. /\ x \in Element /\ x.row = b.row /\ x.col = b.col
        /\ High(x) = Side(b.bl) /\ Broad(x) = Side(b.bl)
    BY <1>8, <2>1, PartOfNone
  <2>3. Yield(Visible, b, bp) = Visible[x]
    BY <1>8, <2>1 DEF Yield
  <2>4. Visible[x] = 4 * (Clip(rows, b.row, Side(b.bl)) * Clip(cols, b.col, Side(b.bl)))
    BY <2>2 DEF Visible
  <2> QED
    BY <1>7, <2>3, <2>4
<1>9. b.bl < 3 => Visible[b] = 4 * ((p + q) * (r + t))
  BY <1>6, <1>7
<1>10. CASE b.bl < 3 /\ bp = 1
  <2>1. PICK x, y : x = Block(b, 1, 0, 0) /\ y = Block(b, 1, h, 0)
    OBVIOUS
  <2>2. /\ x \in Element /\ x.row = b.row /\ x.col = b.col
        /\ High(x) = h /\ Broad(x) = Side(b.bl)
        /\ y \in Element /\ y.row = b.row + h /\ y.col = b.col
        /\ High(y) = h /\ Broad(y) = Side(b.bl)
    BY <1>2, <1>10, <2>1, PartsOfH
  <2>3. Yield(Visible, b, bp) = Visible[x] + Visible[y]
    BY <1>2, <1>10, <2>1 DEF Yield
  <2>4. Visible[x] = 4 * (p * (r + t)) /\ Visible[y] = 4 * (q * (r + t))
    BY <1>5, <1>6, <1>10, <2>2 DEF Visible
  <2>5. (p + q) * (r + t) = p * (r + t) + q * (r + t) /\ p * (r + t) \in Int /\ q * (r + t) \in Int
    OBVIOUS
  <2> QED
    BY <1>9, <1>10, <2>3, <2>4, <2>5
<1>11. CASE b.bl < 3 /\ bp = 2
  <2>1. PICK x, y : x = Block(b, 2, 0, 0) /\ y = Block(b, 2, 0, h)
    OBVIOUS
  <2>2. /\ x \in Element /\ x.row = b.row /\ x.col = b.col
        /\ Broad(x) = h /\ High(x) = Side(b.bl)
        /\ y \in Element /\ y.row = b.row /\ y.col = b.col + h
        /\ Broad(y) = h /\ High(y) = Side(b.bl)
    BY <1>2, <1>11, <2>1, PartsOfV
  <2>3. Yield(Visible, b, bp) = Visible[x] + Visible[y]
    BY <1>2, <1>11, <2>1 DEF Yield
  <2>4. Visible[x] = 4 * ((p + q) * r) /\ Visible[y] = 4 * ((p + q) * t)
    BY <1>5, <1>6, <1>11, <2>2 DEF Visible
  <2>5. (p + q) * (r + t) = (p + q) * r + (p + q) * t /\ (p + q) * r \in Int /\ (p + q) * t \in Int
    OBVIOUS
  <2> QED
    BY <1>9, <1>11, <2>3, <2>4, <2>5
<1>12. CASE b.bl < 3 /\ bp = 3
  <2>1. PICK x, y, z, u : x = Node(b, 0, 0) /\ y = Node(b, 0, h) /\ z = Node(b, h, 0) /\ u = Node(b, h, h)
    OBVIOUS
  <2>2. /\ x \in Element /\ x.row = b.row /\ x.col = b.col /\ Broad(x) = h /\ High(x) = h
        /\ y \in Element /\ y.row = b.row /\ y.col = b.col + h /\ Broad(y) = h /\ High(y) = h
        /\ z \in Element /\ z.row = b.row + h /\ z.col = b.col /\ Broad(z) = h /\ High(z) = h
        /\ u \in Element /\ u.row = b.row + h /\ u.col = b.col + h /\ Broad(u) = h /\ High(u) = h
    BY <1>2, <1>12, <2>1, PartsOfSplit
  <2>3. Yield(Visible, b, bp) = Visible[x] + (Visible[y] + (Visible[z] + Visible[u]))
    BY <1>2, <1>12, <2>1 DEF Yield
  <2>4. /\ Visible[x] = 4 * (p * r) /\ Visible[y] = 4 * (p * t)
        /\ Visible[z] = 4 * (q * r) /\ Visible[u] = 4 * (q * t)
    BY <1>5, <2>2 DEF Visible
  <2>5. /\ (p + q) * (r + t) = p * r + (p * t + (q * r + q * t))
        /\ p * r \in Int /\ p * t \in Int /\ q * r \in Int /\ q * t \in Int
    OBVIOUS
  <2> QED
    BY <1>9, <1>12, <2>3, <2>4, <2>5
<1> QED
  BY <1>1, <1>8, <1>10, <1>11, <1>12

(* The parts of a node have no more columns over a row than the node. *)
LEMMA OverYield ==
  ASSUME stream \in Streams, sb \in 0 .. sb_cols * sb_rows - 1, NEW line \in Nat,
         NEW b \in Placed, b.bp = Undecided, NEW bp \in 0 .. 3
  PROVE  Yield(Over(line), b, bp) <= Over(line)[b]
<1>0. b \in Element
  BY DEF Placed, Around
<1>1. /\ b.bl \in 0 .. 3 /\ b.row \in Nat /\ b.col \in Nat /\ InFrame(b)
      /\ High(b) = Side(b.bl) /\ Broad(b) = Side(b.bl)
      /\ b.row < rows /\ b.col < cols
  BY <1>0, NodeShapes DEF Element, Placed, Around, InFrame
<1>2. PICK h \in Nat : h = hbs(b.bl)
  BY <1>0, Shapes
<1>3. /\ Side(b.bl) \in Nat /\ (b.bl < 3 => Side(b.bl) = 2 * h /\ h >= 1)
  BY <1>0, <1>2, Shapes
<1>4. rows \in Nat /\ cols \in Nat
  BY Sizes
<1>5. Over(line)[b] = IF 2 * b.row <= line /\ line < 2 * (b.row + Side(b.bl)) THEN 2 * Side(b.bl) ELSE 0
  BY <1>0, <1>1 DEF Over
<1>6. CASE b.bl = 3 \/ bp = 0
  <2>1. PICK x : x = Block(b, bp, 0, 0)
    OBVIOUS
  <2>2. /\ x \in Element /\ x.row = b.row /\ x.col = b.col
        /\ High(x) = Side(b.bl) /\ Broad(x) = Side(b.bl)
    BY <1>0, <1>6, <2>1, PartOfNone
  <2>3. Yield(Over(line), b, bp) = Over(line)[x]
    BY <1>6, <2>1 DEF Yield
  <2>4. Over(line)[x] = Over(line)[b]
    BY <1>1, <1>5, <2>2 DEF Over, InFrame
  <2>5. Over(line)[b] \in Int
    BY <1>3, <1>5
  <2> QED
    BY <2>3, <2>4, <2>5
<1>7. CASE b.bl < 3 /\ bp = 1
  <2>1. PICK x, y : x = Block(b, 1, 0, 0) /\ y = Block(b, 1, h, 0)
    OBVIOUS
  <2>2. /\ x \in Element /\ x.row = b.row /\ x.col = b.col
        /\ High(x) = h /\ Broad(x) = Side(b.bl)
        /\ y \in Element /\ y.row = b.row + h /\ y.col = b.col
        /\ High(y) = h /\ Broad(y) = Side(b.bl)
    BY <1>0, <1>2, <1>7, <2>1, PartsOfH
  <2>3. Yield(Over(line), b, bp) = Over(line)[x] + Over(line)[y]
    BY <1>2, <1>7, <2>1 DEF Yield
  <2>4. /\ Over(line)[x] = IF 2 * b.row <= line /\ line < 2 * (b.row + h) THEN 2 * Side(b.bl) ELSE 0
        /\ Over(line)[y] = IF b.row + h < rows /\ 2 * (b.row + h) <= line /\ line < 2 * ((b.row + h) + h)
                           THEN 2 * Side(b.bl) ELSE 0
    BY <1>1, <2>2 DEF Over, InFrame
  <2> QED
    BY <1>1, <1>3, <1>5, <1>7, <2>3, <2>4
<1>8. CASE b.bl < 3 /\ bp = 2
  <2>1. PICK x, y : x = Block(b, 2, 0, 0) /\ y = Block(b, 2, 0, h)
    OBVIOUS
  <2>2. /\ x \in Element /\ x.row = b.row /\ x.col = b.col
        /\ Broad(x) = h /\ High(x) = Side(b.bl)
        /\ y \in Element /\ y.row = b.row /\ y.col = b.col + h
        /\ Broad(y) = h /\ High(y) = Side(b.bl)
    BY <1>0, <1>2, <1>8, <2>1, PartsOfV
  <2>3. Yield(Over(line), b, bp) = Over(line)[x] + Over(line)[y]
    BY <1>2, <1>8, <2>1 DEF Yield
  <2>4. /\ Over(line)[x] = IF 2 * b.row <= line /\ line < 2 * (b.row + Side(b.bl)) THEN 2 * h ELSE 0
        /\ Over(line)[y] = IF b.col + h < cols /\ 2 * b.row <= line /\ line < 2 * (b.row + Side(b.bl))
                           THEN 2 * h ELSE 0
    BY <1>1, <2>2 DEF Over, InFrame
  <2> QED
    BY <1>1, <1>3, <1>5, <1>8, <2>3, <2>4
<1>9. CASE b.bl < 3 /\ bp = 3
  <2>1. PICK x, y, z, u : x = Node(b, 0, 0) /\ y = Node(b, 0, h) /\ z = Node(b, h, 0) /\ u = Node(b, h, h)
    OBVIOUS
  <2>2. /\ x \in Element /\ x.row = b.row /\ x.col = b.col /\ Broad(x) = h /\ High(x) = h
        /\ y \in Element /\ y.row = b.row /\ y.col = b.col + h /\ Broad(y) = h /\ High(y) = h
        /\ z \in Element /\ z.row = b.row + h /\ z.col = b.col /\ Broad(z) = h /\ High(z) = h
        /\ u \in Element /\ u.row = b.row + h /\ u.col = b.col + h /\ Broad(u) = h /\ High(u) = h
    BY <1>0, <1>2, <1>9, <2>1, PartsOfSplit
  <2>3. Yield(Over(line), b, bp) = Over(line)[x] + (Over(line)[y] + (Over(line)[z] + Over(line)[u]))
    BY <1>2, <1>9, <2>1 DEF Yield
  <2>4. /\ Over(line)[x] \in {0, 2 * h} /\ Over(line)[y] \in {0, 2 * h}
        /\ Over(line)[z] \in {0, 2 * h} /\ Over(line)[u] \in {0, 2 * h}
        /\ Over(line)[x] # 0 \/ Over(line)[y] # 0 => 2 * b.row <= line /\ line < 2 * (b.row + h)
        /\ Over(line)[z] # 0 \/ Over(line)[u] # 0 => 2 * (b.row + h) <= line /\ line < 2 * ((b.row + h) + h)
    BY <2>2 DEF Over
  <2> QED
    BY <1>1, <1>3, <1>5, <1>9, <2>3, <2>4
<1> QED
  BY <1>1, <1>6, <1>7, <1>8, <1>9

(* The measures of a block are those decode_b uses. *)
LEMMA BlockMeasures ==
  ASSUME stream \in Streams, NEW b \in Element, InFrame(b), b.bp # Undecided
  PROVE  /\ Whole[b] = Area(b) + (IF Halved(b) THEN 2 ELSE 0)
         /\ Visible[b] <= Whole[b]
         /\ \A line \in Nat : Over(line)[b] = IF 2 * b.row <= line /\ line < 2 * b.row + h4(b) THEN w4(b) ELSE 0
<1>1. /\ b.row \in Nat /\ b.col \in Nat /\ Broad(b) \in Nat /\ High(b) \in Nat
      /\ rows \in Nat /\ cols \in Nat
  BY Shapes, Sizes DEF Element
<1>2. Whole[b] = 4 * (Broad(b) * High(b)) /\ w4(b) = 2 * Broad(b) /\ h4(b) = 2 * High(b)
  BY BlockShapes DEF Whole
<1>3. Whole[b] = Area(b) + (IF Halved(b) THEN 2 ELSE 0)
  BY <1>2, BlockShapes
<1>4. Visible[b] <= Whole[b]
  <2>1. PICK p \in Nat, r \in Nat : p = Clip(rows, b.row, High(b)) /\ r = Clip(cols, b.col, Broad(b))
                                    /\ p <= High(b) /\ r <= Broad(b)
    <3>1. /\ Clip(rows, b.row, High(b)) \in 0 .. High(b)
          /\ Clip(cols, b.col, Broad(b)) \in 0 .. Broad(b)
      BY <1>1, ClipSplits
    <3> QED
      BY <1>1, <3>1
  <2>2. Visible[b] = 4 * (p * r)
    BY <2>1 DEF Visible
  <2>3. p * r <= High(b) * Broad(b)
    BY <1>1, <2>1, ProductMonotonic
  <2>4. High(b) * Broad(b) = Broad(b) * High(b) /\ Broad(b) * High(b) \in Nat /\ p * r \in Nat
    BY <1>1, NatProduct
  <2> QED
    BY <1>2, <2>2, <2>3, <2>4
<1>5. ASSUME NEW line \in Nat
      PROVE  Over(line)[b] = IF 2 * b.row <= line /\ line < 2 * b.row + h4(b) THEN w4(b) ELSE 0
  BY <1>1, <1>2 DEF Over
<1> QED
  BY <1>3, <1>4, <1>5

(* The transforms of a block fill it. *)
LEMMA Transforms ==
  ASSUME NEW b \in Element, b.bp # Undecided, NEW unit \in Unit
  PROVE  \E step \in {1, 2, 4, 8} : 2^tx(b, unit) = step /\ w4(b) % step = 0 /\ h4(b) % step = 0
<1> USE DEF PARTITION_NONE, PARTITION_H, PARTITION_V, PARTITION_SPLIT, Undecided
<1>1. b.bl \in 0 .. 3 /\ b.bp \in 0 .. 3 /\ unit.tx \in 0 .. 3
  BY DEF Element, Unit
<1>2. /\ 2^0 = 1 /\ 2^1 = 2 /\ 2^2 = 4 /\ 2^3 = 8
      /\ w4(b) = 2 * Broad(b) /\ h4(b) = 2 * High(b)
  BY Powers, BlockShapes
<1>7. ASSUME NEW t
      PROVE  /\ t = 0 => 2^t = 1
             /\ t = 1 => 2^t = 2
             /\ t = 2 => 2^t = 4
             /\ t = 3 => 2^t = 8
  BY <1>2, Zenon
<1>3. CASE b.bl = 0
  <2>1. tx(b, unit) \in 0 .. 3 /\ w4(b) \in {8, 16} /\ h4(b) \in {8, 16}
    BY <1>1, <1>2, <1>3, Halves DEF tx, Broad, High
  <2>2. PICK t : t = tx(b, unit)
    OBVIOUS
  <2> QED
    BY <1>7, <2>1, <2>2
<1>4. CASE b.bl = 1
  <2>1. \/ tx(b, unit) \in 0 .. 2 /\ w4(b) \in {4, 8} /\ h4(b) \in {4, 8}
        \/ tx(b, unit) = 3 /\ w4(b) = 8 /\ h4(b) = 8
    BY <1>1, <1>2, <1>4, Halves DEF tx, Broad, High
  <2>2. PICK t : t = tx(b, unit)
    OBVIOUS
  <2> QED
    BY <1>7, <2>1, <2>2
<1>5. CASE b.bl = 2
  <2>1. \/ tx(b, unit) \in 0 .. 1 /\ w4(b) \in {2, 4} /\ h4(b) \in {2, 4}
        \/ tx(b, unit) = 2 /\ w4(b) = 4 /\ h4(b) = 4
    BY <1>1, <1>2, <1>5, Halves DEF tx, Broad, High
  <2>2. PICK t : t = tx(b, unit)
    OBVIOUS
  <2> QED
    BY <1>7, <2>1, <2>2
<1>6. CASE b.bl = 3
  <2>1. tx(b, unit) \in 0 .. 1 /\ w4(b) = 2 /\ h4(b) = 2
    BY <1>1, <1>2, <1>6, Halves DEF tx, Broad, High
  <2>2. PICK t : t = tx(b, unit)
    OBVIOUS
  <2> QED
    BY <1>7, <2>1, <2>2
<1> QED
  BY <1>1, <1>3, <1>4, <1>5, <1>6

(* Rounding up to whole transforms stays within a block they fill. *)
LEMMA RoundedUp ==
  ASSUME NEW step \in {1, 2, 4, 8}, NEW size \in Nat, NEW m \in Nat, size <= m, m % step = 0
  PROVE  step * ((size + step - 1) \div step) \in 0 .. m
<1>1. CASE step = 1
  BY <1>1
<1>2. CASE step = 2
  BY <1>2
<1>3. CASE step = 4
  BY <1>3
<1>4. CASE step = 8
  BY <1>4
<1> QED
  BY <1>1, <1>2, <1>3, <1>4

(* The transforms that begin within the frame lie within the block. *)
LEMMA Extents ==
  ASSUME stream \in Streams, NEW b \in Element, InFrame(b), b.bp # Undecided, NEW unit \in Unit
  PROVE  Extent(b, unit).x \in 0 .. w4(b) /\ Extent(b, unit).y \in 0 .. h4(b)
<1>1. PICK step \in {1, 2, 4, 8} : 2^tx(b, unit) = step /\ w4(b) % step = 0 /\ h4(b) % step = 0
  BY Transforms
<1>2. /\ w4(b) \in Nat /\ h4(b) \in Nat /\ b.row \in Nat /\ b.col \in Nat
      /\ rows \in Nat /\ cols \in Nat /\ b.row < rows /\ b.col < cols
  BY BlockShapes, Shapes, Sizes DEF Element, InFrame
<1> DEFINE Least(x, y) == IF x < y THEN x ELSE y
           Up(size) == step * ((size + step - 1) \div step)
<1>3. /\ Extent(b, unit).x = Up(Least(2 * (cols - b.col), w4(b)))
      /\ Extent(b, unit).y = Up(Least(2 * (rows - b.row), h4(b)))
  BY <1>1 DEF Extent
<1>4. /\ Least(2 * (cols - b.col), w4(b)) \in 0 .. w4(b)
      /\ Least(2 * (rows - b.row), h4(b)) \in 0 .. h4(b)
  BY <1>2
<1> HIDE DEF Least
<1>5. Up(Least(2 * (cols - b.col), w4(b))) \in 0 .. w4(b)
  BY <1>1, <1>2, <1>4, RoundedUp
<1>6. Up(Least(2 * (rows - b.row), h4(b))) \in 0 .. h4(b)
  BY <1>1, <1>2, <1>4, RoundedUp
<1> QED
  BY <1>3, <1>5, <1>6

-----------------------------------------------------------------------------
(* Blocks: the inductive invariant.                                        *)

(* The types of the sums. *)
Sums == [BlkCnt4x4 : Nat, MbCnt : Nat, MbTypes : [MbTypeIdx -> Nat], NumBlksSkip : Nat,
         NumBlksMv : Nat, NumBlksIntra : Nat, QpCnt : Nat, QpCntBB : Nat]

(* Types; what is left to do lies in the superblock. *)
BlocksTyped ==
  /\ stream \in Streams
  /\ number \in 0 .. Len(stream.frames) /\ sb \in 0 .. sb_cols * sb_rows - 1
  /\ todo \in Seq(Placed)
  /\ S \in Sums
  /\ BlackLine \in [0 .. 16 * sb_rows - 1 -> Nat]
  /\ halved \in Nat /\ tiny \in Nat
  /\ pc \in {"decode", "decoded", "shown", "misused"}

(* A border leaves a row of blocks of 8x8 at the least. *)
BorderKept == \E k \in 0 .. rows - 1 : CurrBlackBorder = 4 * k

(* The area counted so far, with what is missing for blocks of 8x4 and     *)
(* 4x8.                                                                    *)
Seen == S.MbCnt + 2 * halved + S.BlkCnt4x4

(* The area within the frame of the superblocks up to m, in blocks of 8x8. *)
Begun(m) ==
  LET r == Root(m)
  IN cols * r.row + Clip(rows, r.row, 8) * (IF r.col + 8 < cols THEN r.col + 8 ELSE cols)

(* While a frame is decoded, what is counted and what is left to do are    *)
(* the superblocks begun: all of their area if the frame is as wide as     *)
(* they are, not more if it is not, and all of the area within the frame.  *)
(* Nothing is left over when a superblock is done.                         *)
AreaKept ==
  pc = "decode" =>
    /\ \E k : /\ Adds(Whole, todo, k) /\ Seen + k <= 256 * (sb + 1)
              /\ cols % 8 = 0 => Seen + k = 256 * (sb + 1)
    /\ \E k : Adds(Visible, todo, k) /\ Seen + k >= 4 * Begun(sb)
    /\ todo = <<>> => S.BlkCnt4x4 = 0

(* The columns over a row up to superblock m. *)
Room(m, line) ==
  LET r == Root(m)
  IN IF line < 2 * r.row THEN 16 * sb_cols
     ELSE IF line < 2 * r.row + 16 THEN 2 * (r.col + 8) ELSE 0

(* A row has no more dark columns than the superblocks begun have over it. *)
LinesKept ==
  \A line \in 0 .. 16 * sb_rows - 1 :
    /\ BlackLine[line] <= 16 * sb_cols
    /\ pc = "decode" => \E k : Adds(Over(line), todo, k) /\ BlackLine[line] + k <= Room(sb, line)

(* The three counts and the count of blocks; nothing lies below a frame as *)
(* high as its superblocks.                                                *)
ClassKept ==
  LET counted == S.NumBlksSkip + S.NumBlksMv + S.NumBlksIntra
  IN /\ counted <= S.MbCnt
     /\ tiny = 0 => counted = S.MbCnt
     /\ rows % 8 = 0 => counted = S.MbCnt /\ S.BlkCnt4x4 = 0
     /\ S.MbTypes[INTRA_PLN] = S.NumBlksIntra

(* The inductive invariant.  AreaCounted and BorderUsable speak of frames  *)
(* that are done and are part of it because the statistics are kept until  *)
(* the next one.                                                           *)
BlocksInv ==
  BlocksTyped /\ BorderKept /\ AreaKept /\ LinesKept /\ ClassKept /\ AreaCounted /\ BorderUsable

(* What depends on the stream and the superblock only. *)
LEMMA SameStream ==
  ASSUME stream' = stream
  PROVE  /\ rows' = rows /\ cols' = cols /\ sb_rows' = sb_rows /\ sb_cols' = sb_cols
         /\ Whole' = Whole /\ Visible' = Visible
         /\ \A line : Over(line)' = Over(line)
         /\ Placed' = Around(sb')
         /\ Begun(sb)' = Begun(sb') /\ (\A line : Room(sb, line)' = Room(sb', line))
<1>1. rows' = rows /\ cols' = cols /\ sb_rows' = sb_rows /\ sb_cols' = sb_cols
  BY DEF rows, cols, sb_rows, sb_cols
<1>2. Whole' = Whole
  BY <1>1 DEF Whole, InFrame
<1>3. Visible' = Visible
  BY <1>1 DEF Visible
<1>4. ASSUME NEW line
      PROVE  Over(line)' = Over(line)
  BY <1>1 DEF Over, InFrame
<1>5. Root(sb)' = Root(sb')
  BY <1>1 DEF Root
<1>6. Placed' = Around(sb')
  BY <1>1, <1>5 DEF Placed, Around, InFrame
<1>7. Begun(sb)' = Begun(sb')
  BY <1>1, <1>5 DEF Begun
<1>8. ASSUME NEW line
      PROVE  Room(sb, line)' = Room(sb', line)
  BY <1>1, <1>5 DEF Room
<1> QED
  BY <1>1, <1>2, <1>3, <1>4, <1>6, <1>7, <1>8

(* The measures of a superblock. *)
LEMMA RootAdds ==
  ASSUME stream \in Streams, NEW m \in 0 .. sb_cols * sb_rows - 1
  PROVE  /\ <<Root(m)>> \in Seq(Around(m))
         /\ \A w : Measure(w) => Adds(w, <<Root(m)>>, w[Root(m)])
         /\ Whole[Root(m)] = 256
         /\ Visible[Root(m)] = 4 * (Clip(rows, Root(m).row, 8) * Clip(cols, Root(m).col, 8))
         /\ \A line \in Nat :
              Over(line)[Root(m)] = IF 2 * Root(m).row <= line /\ line < 2 * Root(m).row + 16 THEN 16 ELSE 0
<1>1. /\ Root(m) \in Element /\ InFrame(Root(m)) /\ Root(m).bp = Undecided /\ Root(m).bl = 0
      /\ Root(m).row \in Nat /\ Root(m).col \in Nat
  BY RootIn DEF Element
<1>2. High(Root(m)) = 8 /\ Broad(Root(m)) = 8
  BY <1>1, NodeShapes, Halves
<1>3. Root(m) \in Around(m)
  BY <1>1, <1>2 DEF Around
<1>4. ASSUME NEW w, Measure(w)
      PROVE  Adds(w, <<Root(m)>>, w[Root(m)])
  <2>1. w \in [Element -> Int] /\ <<>> \in Seq(Element) /\ Adds(w, <<>>, 0)
    BY <1>4, AddsNone DEF Measure
  <2>2. Adds(w, <<Root(m)>> \o <<>>, w[Root(m)] + 0)
    BY <1>1, <2>1, AddsBefore
  <2>3. w[Root(m)] + 0 = w[Root(m)] /\ <<Root(m)>> \o <<>> = <<Root(m)>>
    BY <1>1, <2>1
  <2> QED
    BY <2>2, <2>3
<1>5. Whole[Root(m)] = 256
  BY <1>1, <1>2 DEF Whole
<1>6. Visible[Root(m)] = 4 * (Clip(rows, Root(m).row, 8) * Clip(cols, Root(m).col, 8))
  BY <1>1, <1>2 DEF Visible
<1>7. ASSUME NEW line \in Nat
      PROVE  Over(line)[Root(m)] = IF 2 * Root(m).row <= line /\ line < 2 * Root(m).row + 16 THEN 16 ELSE 0
  BY <1>1, <1>2 DEF Over
<1> QED
  BY <1>3, <1>4, <1>5, <1>6, <1>7

-----------------------------------------------------------------------------
(* Blocks: every step keeps the invariant.                                 *)

(* There is a superblock. *)
LEMMA OneSb ==
  ASSUME stream \in Streams
  PROVE  0 \in 0 .. sb_cols * sb_rows - 1
<1>1. sb_rows \in Nat /\ sb_cols \in Nat /\ 1 <= sb_rows /\ 1 <= sb_cols
  BY Sizes
<1>2. 1 * 1 <= sb_cols * sb_rows /\ sb_cols * sb_rows \in Nat
  BY <1>1, ProductMonotonic, NatProduct
<1> QED
  BY <1>2

(* The sums at the beginning of a frame. *)
LEMMA NothingCounted ==
  /\ FRAME_SUMS \in Sums
  /\ FRAME_SUMS.BlkCnt4x4 = 0 /\ FRAME_SUMS.MbCnt = 0 /\ FRAME_SUMS.MbTypes[INTRA_PLN] = 0
  /\ FRAME_SUMS.NumBlksSkip = 0 /\ FRAME_SUMS.NumBlksMv = 0 /\ FRAME_SUMS.NumBlksIntra = 0
  BY DEF FRAME_SUMS, Sums, MbTypeIdx, INTRA_PLN

(* Before the first frame nothing is counted. *)
LEMMA BlocksInitInv == BlocksInit => BlocksInv
<1> SUFFICES ASSUME BlocksInit PROVE BlocksInv
  OBVIOUS
<1>1. /\ stream \in Streams /\ number = 0 /\ sb = 0 /\ todo = <<>> /\ S = FRAME_SUMS /\ BlackLine = NoLines
      /\ CurrBlackBorder = 0 /\ halved = 0 /\ tiny = 0 /\ pc = "shown"
  BY DEF BlocksInit
<1>2. BlocksTyped
  <2>1. number \in 0 .. Len(stream.frames)
    <3>1. stream.frames \in Seq({"key", "inter"})
      BY <1>1, BlocksAssumption
    <3>2. Len(stream.frames) \in Nat
      BY <3>1
    <3> QED
      BY <1>1, <3>2
  <2>2. sb \in 0 .. sb_cols * sb_rows - 1
    BY <1>1, OneSb
  <2>3. BlackLine \in [0 .. 16 * sb_rows - 1 -> Nat]
    BY <1>1 DEF NoLines
  <2>4. todo \in Seq(Placed)
    BY <1>1
  <2> QED
    BY <1>1, <2>1, <2>2, <2>3, <2>4, NothingCounted DEF BlocksTyped
<1>3. BorderKept
  <2>1. rows \in Nat \ {0}
    BY <1>1, Sizes
  <2> QED
    BY <1>1, <2>1 DEF BorderKept
<1>4. AreaKept
  BY <1>1 DEF AreaKept
<1>5. LinesKept
  <2>1. sb_cols \in Nat
    BY <1>1, Sizes
  <2> QED
    BY <1>1, <2>1 DEF LinesKept, NoLines
<1>6. ClassKept
  BY <1>1, NothingCounted DEF ClassKept
<1>7. AreaCounted /\ BorderUsable
  BY <1>1 DEF AreaCounted, BorderUsable, Decoded, Shown
<1> QED
  BY <1>2, <1>3, <1>4, <1>5, <1>6, <1>7 DEF BlocksInv

(* InitFrameStatisticsVP9: the first superblock is to do, and nothing is   *)
(* counted.                                                                *)
LEMMA StartFrameInv ==
  ASSUME BlocksInv, StartFrame
  PROVE  BlocksInv'
<1>1. /\ number < Len(stream.frames) /\ number' = number + 1 /\ sb' = 0 /\ todo' = <<Root(0)>>
      /\ S' = FRAME_SUMS /\ BlackLine' = NoLines /\ halved' = 0 /\ tiny' = 0 /\ pc' = "decode"
      /\ stream' = stream /\ CurrBlackBorder' = CurrBlackBorder
  BY DEF StartFrame
<1>2. BlocksTyped /\ BorderKept
  BY DEF BlocksInv
<1>3. stream \in Streams /\ number \in 0 .. Len(stream.frames)
  BY <1>2 DEF BlocksTyped
<1>4. 0 \in 0 .. sb_cols * sb_rows - 1
  BY <1>3, OneSb
<1>5. /\ rows' = rows /\ cols' = cols /\ sb_rows' = sb_rows /\ sb_cols' = sb_cols
      /\ Whole' = Whole /\ Visible' = Visible
      /\ \A line : Over(line)' = Over(line)
      /\ Placed' = Around(0)
      /\ Begun(sb)' = Begun(0) /\ (\A line : Room(sb, line)' = Room(0, line))
  BY <1>1, SameStream
<1>6. /\ <<Root(0)>> \in Seq(Around(0))
      /\ \A w : Measure(w) => Adds(w, <<Root(0)>>, w[Root(0)])
      /\ Whole[Root(0)] = 256
      /\ Visible[Root(0)] = 4 * (Clip(rows, Root(0).row, 8) * Clip(cols, Root(0).col, 8))
      /\ \A line \in Nat :
           Over(line)[Root(0)] = IF 2 * Root(0).row <= line /\ line < 2 * Root(0).row + 16 THEN 16 ELSE 0
  BY <1>3, <1>4, RootAdds
<1>7. Measure(Whole) /\ Measure(Visible) /\ \A line \in Int : Measure(Over(line))
  BY <1>3, Measures
<1>8. /\ rows \in Nat \ {0} /\ cols \in Nat \ {0} /\ sb_rows \in Nat \ {0} /\ sb_cols \in Nat \ {0}
  BY <1>3, Sizes
<1>9. Root(0).row = 0 /\ Root(0).col = 0
  <2>1. 0 \div sb_cols = 0 /\ 0 % sb_cols = 0
    <3>1. /\ 0 \div sb_cols \in Nat /\ 0 % sb_cols \in 0 .. sb_cols - 1
          /\ 0 = (0 \div sb_cols) * sb_cols + (0 % sb_cols)
      BY <1>8, Quotient
    <3>2. 0 * sb_cols + 0 = (0 \div sb_cols) * sb_cols + (0 % sb_cols) /\ 0 \in 0 .. sb_cols - 1
      BY <1>8, <3>1
    <3> QED
      BY ONLY <1>8, <3>1, <3>2, Unique
  <2> QED
    BY <2>1 DEF Root
<1>10. BlocksTyped'
  <2>1. number' \in 0 .. Len(stream'.frames)
    <3>1. stream.frames \in Seq({"key", "inter"})
      BY <1>3, BlocksAssumption
    <3>2. Len(stream.frames) \in Nat
      BY <3>1
    <3> QED
      BY <1>1, <1>3, <3>2
  <2>2. sb' \in 0 .. sb_cols' * sb_rows' - 1
    BY <1>1, <1>4, <1>5
  <2>3. BlackLine' \in [0 .. 16 * sb_rows' - 1 -> Nat]
    BY <1>1, <1>5 DEF NoLines
  <2>4. todo' \in Seq(Placed')
    BY <1>1, <1>5, <1>6
  <2>5. S' \in Sums /\ stream' \in Streams
    BY <1>1, <1>3, NothingCounted
  <2> QED
    BY <1>1, <2>1, <2>2, <2>3, <2>4, <2>5 DEF BlocksTyped
<1>11. BorderKept'
  BY <1>1, <1>2, <1>5 DEF BorderKept
<1>12. AreaKept'
  <2>1. Seen' = 0
    BY <1>1, NothingCounted DEF Seen
  <2>2. Adds(Whole, todo, 256)'
    <3>1. Adds(Whole, <<Root(0)>>, 256)
      BY <1>6, <1>7
    <3> QED
      BY <1>1, <1>5, <3>1 DEF Adds
  <2>3. Adds(Visible, todo, Visible[Root(0)])'
    <3>1. Adds(Visible, <<Root(0)>>, Visible[Root(0)])
      BY <1>6, <1>7
    <3>2. Root(0)' = Root(0)
      BY <1>5 DEF Root
    <3> QED
      BY <1>1, <1>5, <3>1, <3>2 DEF Adds
  <2>4. Visible[Root(0)] = 4 * Begun(0) /\ Begun(0) \in Nat
    <3>1. PICK c \in Nat : c = Clip(rows, 0, 8)
      BY <1>8 DEF Clip
    <3>2. PICK d \in Nat : d = Clip(cols, 0, 8)
      BY <1>8 DEF Clip
    <3>3. (IF 0 + 8 < cols THEN 0 + 8 ELSE cols) = d
      BY <1>8, <3>2 DEF Clip
    <3>4. Begun(0) = cols * 0 + c * d
      BY <1>9, <3>1, <3>3 DEF Begun
    <3>5. Visible[Root(0)] = 4 * (c * d)
      BY <1>6, <1>9, <3>1, <3>2
    <3>6. cols * 0 = 0 /\ c * d \in Nat
      BY <1>8, NatProduct
    <3> QED
      BY <3>4, <3>5, <3>6
  <2>5. Visible'[Root(0)'] = Visible[Root(0)]
    BY <1>5 DEF Root
  <2>6. \E k : Adds(Whole, todo, k)' /\ Seen' + k <= 256 * (sb' + 1) /\ (cols' % 8 = 0 => Seen' + k = 256 * (sb' + 1))
    BY <1>1, <2>1, <2>2
  <2>7. \E k : Adds(Visible, todo, k)' /\ Seen' + k >= 4 * Begun(sb)'
    BY <1>5, <2>1, <2>3, <2>4, <2>5
  <2>8. S'.BlkCnt4x4 = 0
    BY <1>1, NothingCounted
  <2> QED
    BY <2>6, <2>7, <2>8 DEF AreaKept
<1>13. LinesKept'
  <2> SUFFICES ASSUME NEW line \in 0 .. 16 * sb_rows' - 1
               PROVE  /\ BlackLine'[line] <= 16 * sb_cols'
                      /\ \E k : Adds(Over(line), todo, k)' /\ BlackLine'[line] + k <= Room(sb, line)'
    BY DEF LinesKept
  <2>1. BlackLine'[line] = 0 /\ line \in Nat
    BY <1>1, <1>5, <1>8 DEF NoLines
  <2>2. PICK k : k = Over(line)[Root(0)]
    OBVIOUS
  <2>3. Adds(Over(line), todo, k)'
    <3>1. Adds(Over(line), <<Root(0)>>, k)
      BY <1>6, <1>7, <2>1, <2>2
    <3> QED
      BY <1>1, <1>5, <3>1 DEF Adds
  <2>4. k = (IF line < 16 THEN 16 ELSE 0) /\ Room(0, line) = IF line < 16 THEN 16 ELSE 0
    BY <1>6, <1>9, <2>1, <2>2 DEF Room
  <2> QED
    BY <1>5, <1>8, <2>1, <2>3, <2>4
<1>14. ClassKept'
  BY <1>1, NothingCounted DEF ClassKept
<1>15. AreaCounted' /\ BorderUsable'
  BY <1>1 DEF AreaCounted, BorderUsable, Decoded, Shown
<1> QED
  BY <1>10, <1>11, <1>12, <1>13, <1>14, <1>15 DEF BlocksInv

(* What is left to do without its first element adds up to that much less. *)
LEMMA HeadAndTail ==
  ASSUME NEW T \in SUBSET Element, NEW s \in Seq(T), s # <<>>, NEW w, Measure(w), NEW k, Adds(w, s, k)
  PROVE  k \in Int /\ w[Head(s)] \in Int /\ Adds(w, Tail(s), k - w[Head(s)])
<1>1. s \in Seq(Element) /\ w \in [Element -> Int]
  BY DEF Measure
<1>2. Head(s) \in Element /\ k \in Int /\ Adds(w, Tail(s), k - w[Head(s)])
  BY <1>1, AddsTail
<1> QED
  BY <1>1, <1>2

(* Parts yield numbers. *)
LEMMA YieldInt ==
  ASSUME NEW b \in Element, b.bp = Undecided, NEW bp \in 0 .. 3, NEW w, Measure(w)
  PROVE  Yield(w, b, bp) \in Int
<1>1. PICK h \in Nat : h = hbs(b.bl)
  BY Shapes
<1>2. w \in [Element -> Int] /\ b.bl \in 0 .. 3
  BY DEF Measure, Element
<1>3. ASSUME NEW dr \in Nat, NEW dc \in Nat
      PROVE  w[Block(b, bp, dr, dc)] \in Int /\ (b.bl < 3 => w[Node(b, dr, dc)] \in Int)
  <2>1. Block(b, bp, dr, dc) \in Element /\ (b.bl < 3 => Node(b, dr, dc) \in Element)
    BY PartIsBlock, PartIsNode
  <2> QED
    BY <1>2, <2>1
<1>4. /\ w[Block(b, bp, 0, 0)] \in Int /\ w[Block(b, bp, h, 0)] \in Int /\ w[Block(b, bp, 0, h)] \in Int
      /\ b.bl < 3 => /\ w[Node(b, 0, 0)] \in Int /\ w[Node(b, 0, h)] \in Int
                     /\ w[Node(b, h, 0)] \in Int /\ w[Node(b, h, h)] \in Int
  BY <1>3
<1>5. CASE b.bl = 3 \/ bp = 0
  BY <1>4, <1>5 DEF Yield
<1>6. CASE b.bl < 3 /\ bp = 1
  BY <1>1, <1>4, <1>6 DEF Yield
<1>7. CASE b.bl < 3 /\ bp = 2
  BY <1>1, <1>4, <1>7 DEF Yield
<1>8. CASE b.bl < 3 /\ bp = 3
  BY <1>1, <1>4, <1>8 DEF Yield
<1> QED
  BY <1>2, <1>5, <1>6, <1>7, <1>8

(* The area of the superblocks begun is a number. *)
LEMMA BegunInt ==
  ASSUME stream \in Streams, NEW m \in 0 .. sb_cols * sb_rows - 1
  PROVE  Begun(m) \in Int
<1>1. rows \in Nat /\ cols \in Nat /\ Root(m).row \in Nat /\ Root(m).col \in Nat
  BY Sizes, RootIn DEF Element
<1>2. PICK c \in Nat : c = Clip(rows, Root(m).row, 8)
  BY <1>1 DEF Clip
<1>3. PICK d \in Nat : d = (IF Root(m).col + 8 < cols THEN Root(m).col + 8 ELSE cols)
  BY <1>1
<1>4. Begun(m) = cols * Root(m).row + c * d
  BY <1>2, <1>3 DEF Begun
<1>5. cols * Root(m).row \in Nat /\ c * d \in Nat
  BY <1>1, NatProduct
<1> QED
  BY <1>4, <1>5

(* decode_sb: a node is replaced by its parts, and the half below the      *)
(* frame is counted.                                                       *)
LEMMA DecodeSbInv ==
  ASSUME BlocksInv, NEW bp \in PARTITION_NONE .. PARTITION_SPLIT, DecodeSb(bp)
  PROVE  BlocksInv'
<1>b. PICK b : b = Head(todo)
  OBVIOUS
<1>t. PICK s : s = Tail(todo)
  OBVIOUS
<1>p. PICK p : p = Parts(b, bp)
  OBVIOUS
<1>1. /\ pc = "decode" /\ todo # <<>> /\ b.bp = Undecided /\ bp \in Partitions(b)
      /\ S' = [S EXCEPT !.BlkCnt4x4 = @ + Below(b)]
      /\ todo' = p \o s
      /\ stream' = stream /\ number' = number /\ sb' = sb /\ BlackLine' = BlackLine
      /\ CurrBlackBorder' = CurrBlackBorder /\ halved' = halved /\ tiny' = tiny /\ pc' = pc
  BY <1>b, <1>t, <1>p DEF DecodeSb
<1>2. BlocksTyped /\ BorderKept /\ AreaKept /\ LinesKept /\ ClassKept
  BY DEF BlocksInv
<1>3. /\ stream \in Streams /\ sb \in 0 .. sb_cols * sb_rows - 1 /\ todo \in Seq(Placed) /\ S \in Sums
      /\ bp \in 0 .. 3
  BY <1>2 DEF BlocksTyped, PARTITION_NONE, PARTITION_SPLIT
<1>4. b \in Placed /\ s \in Seq(Placed)
  BY <1>1, <1>3, <1>b, <1>t, NotEmpty
<1>e. Placed \in SUBSET Element
  BY DEF Placed, Around
<1>5. /\ rows' = rows /\ cols' = cols /\ sb_rows' = sb_rows /\ sb_cols' = sb_cols
      /\ Whole' = Whole /\ Visible' = Visible
      /\ \A line : Over(line)' = Over(line)
      /\ Placed' = Placed
      /\ Begun(sb)' = Begun(sb) /\ (\A line : Room(sb, line)' = Room(sb, line))
  BY <1>1, SameStream DEF Placed
<1>6. Measure(Whole) /\ Measure(Visible) /\ \A line \in Int : Measure(Over(line))
  BY <1>3, Measures
<1>7. ASSUME NEW w, Measure(w), NEW k, Adds(w, todo, k)
      PROVE  /\ k \in Int /\ w[b] \in Int
             /\ Adds(w, todo', Yield(w, b, bp) + (k - w[b]))
  <2>1. k \in Int /\ w[b] \in Int /\ Adds(w, s, k - w[b])
    BY <1>1, <1>3, <1>e, <1>7, <1>b, <1>t, HeadAndTail
  <2>2. Adds(w, p \o s, Yield(w, b, bp) + (k - w[b]))
    BY <1>1, <1>3, <1>4, <1>7, <1>p, <2>1, PartsAdd
  <2> QED
    BY <1>1, <2>1, <2>2
<1>8. p \o s \in Seq(Placed) /\ p \o s # <<>>
  <2>1. \E k : Adds(Whole, todo, k)
    BY <1>1, <1>2 DEF AreaKept
  <2>2. PICK k : Adds(Whole, todo, k)
    BY <2>1
  <2>3. Adds(Whole, s, k - Whole[b])
    BY <1>1, <1>3, <1>e, <1>6, <1>b, <1>t, <2>2, HeadAndTail
  <2> QED
    BY <1>1, <1>3, <1>4, <1>6, <1>p, <2>3, PartsAdd
<1>9. /\ Below(b) \in Nat
      /\ Below(b) + Yield(Whole, b, bp) <= Whole[b]
      /\ cols % 8 = 0 => Below(b) + Yield(Whole, b, bp) = Whole[b]
      /\ rows % 8 = 0 => Below(b) = 0
  BY <1>1, <1>3, <1>4, WholeYield
<1>10. /\ S' \in Sums /\ S'.BlkCnt4x4 = S.BlkCnt4x4 + Below(b)
       /\ S'.MbCnt = S.MbCnt /\ S'.MbTypes = S.MbTypes /\ S'.NumBlksSkip = S.NumBlksSkip
       /\ S'.NumBlksMv = S.NumBlksMv /\ S'.NumBlksIntra = S.NumBlksIntra
       /\ S.BlkCnt4x4 \in Nat /\ S.MbCnt \in Nat
  <2>1. PICK d \in Nat : d = Below(b)
    BY <1>9
  <2>2. S' = [S EXCEPT !.BlkCnt4x4 = S.BlkCnt4x4 + d]
    BY <1>1, <2>1
  <2>3. S \in Sums
    BY <1>3
  <2> QED
    BY <2>1, <2>2, <2>3 DEF Sums
<1>11. /\ halved \in Nat /\ Seen \in Nat /\ Seen' = Seen + Below(b)
  <2>1. halved \in Nat
    BY <1>2 DEF BlocksTyped
  <2> QED
    BY <1>1, <1>9, <1>10, <2>1, SMTT(30) DEF Seen
<1>12. BlocksTyped'
  <2>1. todo' \in Seq(Placed')
    BY <1>1, <1>5, <1>8
  <2> QED
    BY <1>1, <1>2, <1>5, <1>10, <2>1 DEF BlocksTyped
<1>13. BorderKept'
  BY <1>1, <1>2, <1>5 DEF BorderKept
<1>14. AreaKept'
  <2>1. PICK k : /\ Adds(Whole, todo, k) /\ Seen + k <= 256 * (sb + 1)
                 /\ cols % 8 = 0 => Seen + k = 256 * (sb + 1)
    BY <1>1, <1>2 DEF AreaKept
  <2>2. PICK y : y = Yield(Whole, b, bp)
    OBVIOUS
  <2>3. PICK j : j = y + (k - Whole[b])
    OBVIOUS
  <2>4. k \in Int /\ Whole[b] \in Int /\ Adds(Whole, todo', j)
    BY <1>6, <1>7, <2>1, <2>2, <2>3
  <2>5. y \in Int
    BY <1>1, <1>3, <1>4, <1>e, <1>6, <2>2, YieldInt
  <2>6. Adds(Whole, todo, j)'
    BY <1>5, <2>4 DEF Adds
  <2>7. Seen' + j <= 256 * (sb + 1) /\ (cols % 8 = 0 => Seen' + j = 256 * (sb + 1))
    <3>1. sb \in Int
      BY <1>3
    <3>2. PICK d \in Nat, e \in Int : d = Below(b) /\ e = Whole[b]
      BY <1>9, <2>4
    <3>3. d + y <= e /\ (cols % 8 = 0 => d + y = e)
      BY <1>9, <2>2, <3>2
    <3>4. Seen' = Seen + d /\ Seen \in Nat
      BY <1>11, <3>2
    <3>5. j = y + (k - e) /\ k \in Int
      BY <2>3, <2>4, <3>2
    <3> QED
      BY <2>1, <2>5, <3>1, <3>2, <3>3, <3>4, <3>5
  <2>8. PICK v : Adds(Visible, todo, v) /\ Seen + v >= 4 * Begun(sb)
    BY <1>1, <1>2 DEF AreaKept
  <2>9. v \in Int /\ Visible[b] \in Int /\ Adds(Visible, todo', Yield(Visible, b, bp) + (v - Visible[b]))
    BY <1>6, <1>7, <2>8
  <2>10. Yield(Visible, b, bp) = Visible[b]
    BY <1>1, <1>3, <1>4, <1>e, VisibleYield
  <2>11. Adds(Visible, todo', v)
    <3>1. Yield(Visible, b, bp) + (v - Visible[b]) = v
      BY <2>9, <2>10
    <3> QED
      BY <2>9, <3>1
  <2>12. Adds(Visible, todo, v)'
    BY <1>5, <2>11 DEF Adds
  <2>13. Seen' + v >= 4 * Begun(sb)
    <3>1. Begun(sb) \in Int
      BY <1>3, BegunInt
    <3> QED
      BY <1>9, <1>11, <2>8, <2>9, <3>1
  <2>14. \E i : Adds(Whole, todo, i)' /\ Seen' + i <= 256 * (sb' + 1) /\ (cols' % 8 = 0 => Seen' + i = 256 * (sb' + 1))
    BY <1>1, <1>5, <2>6, <2>7
  <2>15. \E i : Adds(Visible, todo, i)' /\ Seen' + i >= 4 * Begun(sb)'
    BY <1>5, <2>12, <2>13
  <2>16. todo' # <<>>
    BY <1>1, <1>8
  <2> QED
    BY <2>14, <2>15, <2>16 DEF AreaKept
<1>15. LinesKept'
  <2> SUFFICES ASSUME NEW line \in 0 .. 16 * sb_rows' - 1
               PROVE  /\ BlackLine'[line] <= 16 * sb_cols'
                      /\ \E k : Adds(Over(line), todo, k)' /\ BlackLine'[line] + k <= Room(sb, line)'
    BY DEF LinesKept
  <2>1. BlackLine[line] <= 16 * sb_cols /\ \E k : Adds(Over(line), todo, k) /\ BlackLine[line] + k <= Room(sb, line)
    BY <1>1, <1>2, <1>5 DEF LinesKept
  <2>2. PICK k : Adds(Over(line), todo, k) /\ BlackLine[line] + k <= Room(sb, line)
    BY <2>1
  <2>3. line \in Nat /\ BlackLine[line] \in Nat /\ Room(sb, line) \in Int
    <3>1. sb_rows \in Nat /\ sb_cols \in Nat /\ Root(sb).row \in Int /\ Root(sb).col \in Int
      BY <1>3, Sizes, RootIn DEF Element
    <3>2. line \in 0 .. 16 * sb_rows - 1 /\ BlackLine \in [0 .. 16 * sb_rows - 1 -> Nat]
      BY <1>2, <1>5 DEF BlocksTyped
    <3> QED
      BY <3>1, <3>2 DEF Room
  <2>4. PICK y : y = Yield(Over(line), b, bp)
    OBVIOUS
  <2>5. PICK j : j = y + (k - Over(line)[b])
    OBVIOUS
  <2>6. k \in Int /\ Over(line)[b] \in Int /\ Adds(Over(line), todo', j)
    BY <1>6, <1>7, <2>2, <2>3, <2>4, <2>5
  <2>7. y \in Int
    <3>1. Measure(Over(line))
      BY <1>6, <2>3
    <3>2. PICK w : w = Over(line)
      OBVIOUS
    <3>3. Measure(w) /\ y = Yield(w, b, bp)
      BY <2>4, <3>1, <3>2
    <3> QED
      BY <1>1, <1>3, <1>4, <1>e, <3>3, YieldInt
  <2>8. y <= Over(line)[b]
    BY <1>1, <1>3, <1>4, <2>3, <2>4, OverYield
  <2>9. Adds(Over(line), todo, j)'
    BY <1>5, <2>6 DEF Adds
  <2>10. BlackLine[line] + j <= Room(sb, line)
    BY <2>2, <2>3, <2>5, <2>6, <2>7, <2>8
  <2> QED
    BY <1>1, <1>5, <2>1, <2>9, <2>10
<1>16. ClassKept'
  BY <1>1, <1>2, <1>5, <1>9, <1>10 DEF ClassKept
<1>17. AreaCounted' /\ BorderUsable'
  BY <1>1 DEF AreaCounted, BorderUsable, Decoded, Shown
<1> QED
  BY <1>12, <1>13, <1>14, <1>15, <1>16, <1>17 DEF BlocksInv

(* The next superblock adds its visible area to what is begun, and its     *)
(* columns to the room of the rows it lies in.                             *)
LEMMA NextBegun ==
  ASSUME stream \in Streams, NEW m \in 0 .. sb_cols * sb_rows - 1, NEW next \in 0 .. sb_cols * sb_rows - 1, next = m + 1
  PROVE  /\ 4 * Begun(next) = 4 * Begun(m) + Visible[Root(next)]
         /\ \A line \in Nat : Room(m, line) + Over(line)[Root(next)] <= Room(next, line)
<1>1. /\ rows \in Nat /\ cols \in Nat /\ sb_rows \in Nat \ {0} /\ sb_cols \in Nat \ {0}
      /\ 8 * sb_rows - 7 <= rows /\ rows <= 8 * sb_rows
      /\ 8 * sb_cols - 7 <= cols /\ cols <= 8 * sb_cols
  BY Sizes
<1>2. /\ Visible[Root(next)] = 4 * (Clip(rows, Root(next).row, 8) * Clip(cols, Root(next).col, 8))
      /\ \A line \in Nat :
              Over(line)[Root(next)] = IF 2 * Root(next).row <= line /\ line < 2 * Root(next).row + 16 THEN 16 ELSE 0
  BY RootAdds
<1>3. PICK q \in 0 .. sb_rows - 1, j \in 0 .. sb_cols - 1 : Root(m).row = 8 * q /\ Root(m).col = 8 * j
  BY RootIn
<1>4. PICK r \in 0 .. sb_rows - 1, i \in 0 .. sb_cols - 1 : Root(next).row = 8 * r /\ Root(next).col = 8 * i
  BY RootIn
<1>5. \/ j + 1 < sb_cols /\ r = q /\ i = j + 1
      \/ j + 1 = sb_cols /\ r = q + 1 /\ i = 0
  <2>1. \/ /\ Root(m).col + 8 < 8 * sb_cols
           /\ Root(m + 1).row = Root(m).row /\ Root(m + 1).col = Root(m).col + 8
        \/ /\ Root(m).col + 8 = 8 * sb_cols
           /\ Root(m + 1).row = Root(m).row + 8 /\ Root(m + 1).col = 0
    BY NextRoot
  <2> QED
    BY <1>1, <1>3, <1>4, <2>1
<1>6. PICK c \in Nat, d \in Nat : c = Clip(rows, 8 * q, 8) /\ d = Clip(rows, 8 * r, 8)
  <2>1. rows \in Nat /\ 8 * q \in Nat /\ 8 * r \in Nat
    BY <1>1
  <2>2. Clip(rows, 8 * q, 8) \in Nat /\ Clip(rows, 8 * r, 8) \in Nat
    <3>1. ASSUME NEW a \in Nat
          PROVE  Clip(rows, a, 8) \in Nat
      BY <2>1 DEF Clip
    <3> QED
      BY <2>1, <3>1
  <2> QED
    BY <2>2
<1>7. PICK e \in Nat, f \in Nat : e = (IF 8 * j + 8 < cols THEN 8 * j + 8 ELSE cols)
                               /\ f = (IF 8 * i + 8 < cols THEN 8 * i + 8 ELSE cols)
  BY <1>1
<1>8. /\ Begun(m) = cols * (8 * q) + c * e
      /\ Begun(next) = cols * (8 * r) + d * f
  BY <1>3, <1>4, <1>6, <1>7 DEF Begun
<1>9. PICK g \in Nat : g = Clip(cols, 8 * i, 8)
  BY <1>1 DEF Clip
<1>10. Visible[Root(next)] = 4 * (d * g)
  BY <1>2, <1>4, <1>6, <1>9
<1>11. CASE j + 1 < sb_cols /\ r = q /\ i = j + 1
  <2>1. f = e + g /\ c = d
    BY <1>1, <1>6, <1>7, <1>9, <1>11 DEF Clip
  <2>2. d * (e + g) = d * e + d * g
    OBVIOUS
  <2>3. cols * (8 * q) \in Int /\ d * e \in Int /\ d * g \in Int
    BY <1>1, NatProduct
  <2>4. 4 * Begun(next) = 4 * Begun(m) + Visible[Root(next)]
    BY <1>8, <1>10, <1>11, <2>1, <2>2, <2>3
  <2>5. ASSUME NEW line \in Nat
        PROVE  Room(m, line) + Over(line)[Root(next)] <= Room(next, line)
    <3>1. Over(line)[Root(next)] = IF 16 * q <= line /\ line < 16 * q + 16 THEN 16 ELSE 0
      BY <1>2, <1>4, <1>11
    <3>2. /\ Room(m, line) = IF line < 16 * q THEN 16 * sb_cols ELSE IF line < 16 * q + 16 THEN 2 * (8 * j + 8) ELSE 0
          /\ Room(next, line) = IF line < 16 * q THEN 16 * sb_cols ELSE IF line < 16 * q + 16 THEN 2 * (8 * (j + 1) + 8) ELSE 0
      BY <1>3, <1>4, <1>11 DEF Room
    <3> QED
      BY <1>1, <3>1, <3>2
  <2> QED
    BY <2>4, <2>5
<1>12. CASE j + 1 = sb_cols /\ r = q + 1 /\ i = 0
  <2>1. e = cols /\ c = 8 /\ f = g
    BY <1>1, <1>6, <1>7, <1>9, <1>12 DEF Clip
  <2>2. cols * (8 * r) = cols * (8 * q) + cols * 8 /\ 8 * cols = cols * 8
    BY <1>1, <1>12
  <2>3. cols * (8 * q) \in Int /\ d * g \in Int
    BY <1>1, NatProduct
  <2>4. 4 * Begun(next) = 4 * Begun(m) + Visible[Root(next)]
    BY <1>1, <1>8, <1>10, <2>1, <2>2, <2>3
  <2>5. ASSUME NEW line \in Nat
        PROVE  Room(m, line) + Over(line)[Root(next)] <= Room(next, line)
    <3>1. Over(line)[Root(next)] = IF 16 * q + 16 <= line /\ line < 16 * q + 32 THEN 16 ELSE 0
      BY <1>2, <1>4, <1>12
    <3>2. /\ Room(m, line) = IF line < 16 * q + 16 THEN 16 * sb_cols ELSE 0
          /\ Room(next, line) = IF line < 16 * q + 16 THEN 16 * sb_cols ELSE IF line < 16 * q + 32 THEN 16 ELSE 0
      BY <1>1, <1>3, <1>4, <1>12 DEF Room
    <3> QED
      BY <1>1, <3>1, <3>2
  <2> QED
    BY <2>4, <2>5
<1> QED
  BY <1>5, <1>11, <1>12

(* The next superblock: nothing of the one before is left. *)
LEMMA NextSbInv ==
  ASSUME BlocksInv, NextSb
  PROVE  BlocksInv'
<1>n. PICK next : next = sb + 1
  OBVIOUS
<1>1. /\ pc = "decode" /\ todo = <<>> /\ sb + 1 # sb_cols * sb_rows
      /\ sb' = next /\ todo' = <<Root(next)>>
      /\ stream' = stream /\ number' = number /\ S' = S /\ BlackLine' = BlackLine
      /\ CurrBlackBorder' = CurrBlackBorder /\ halved' = halved /\ tiny' = tiny /\ pc' = pc
  BY <1>n DEF NextSb, LastSb
<1>2. BlocksTyped /\ BorderKept /\ AreaKept /\ LinesKept /\ ClassKept
  BY DEF BlocksInv
<1>3. stream \in Streams /\ sb \in 0 .. sb_cols * sb_rows - 1
  BY <1>2 DEF BlocksTyped
<1>4. next \in 0 .. sb_cols * sb_rows - 1
  <2>1. sb_cols * sb_rows \in Nat
    BY <1>3, Sizes, NatProduct
  <2> QED
    BY <1>n, <1>1, <1>3, <2>1
<1>5. /\ rows' = rows /\ cols' = cols /\ sb_rows' = sb_rows /\ sb_cols' = sb_cols
      /\ Whole' = Whole /\ Visible' = Visible
      /\ \A line : Over(line)' = Over(line)
      /\ Placed' = Around(next)
      /\ Begun(sb)' = Begun(next) /\ (\A line : Room(sb, line)' = Room(next, line))
  BY <1>1, SameStream
<1>6. /\ <<Root(next)>> \in Seq(Around(next))
      /\ \A w : Measure(w) => Adds(w, <<Root(next)>>, w[Root(next)])
      /\ Whole[Root(next)] = 256
      /\ \A line \in Nat :
           Over(line)[Root(next)] = IF 2 * Root(next).row <= line /\ line < 2 * Root(next).row + 16 THEN 16 ELSE 0
  BY <1>3, <1>4, RootAdds
<1>7. Measure(Whole) /\ Measure(Visible) /\ \A line \in Int : Measure(Over(line))
  BY <1>3, Measures
<1>8. /\ 4 * Begun(next) = 4 * Begun(sb) + Visible[Root(next)]
      /\ \A line \in Nat : Room(sb, line) + Over(line)[Root(next)] <= Room(next, line)
  BY <1>n, <1>3, <1>4, NextBegun
<1>9. Begun(next) \in Int /\ Begun(sb) \in Int
  BY <1>3, <1>4, BegunInt
<1>10. Seen \in Nat /\ Seen' = Seen
  BY <1>1, <1>2, SMTT(30) DEF Seen, BlocksTyped, Sums
<1>11. BlocksTyped'
  <2>1. todo' \in Seq(Placed')
    BY <1>1, <1>5, <1>6
  <2>2. sb' \in 0 .. sb_cols' * sb_rows' - 1
    BY <1>1, <1>4, <1>5
  <2> QED
    BY <1>1, <1>2, <1>5, <2>1, <2>2 DEF BlocksTyped
<1>12. BorderKept'
  BY <1>1, <1>2, <1>5 DEF BorderKept
<1>13. AreaKept'
  <2>1. PICK k : /\ Adds(Whole, <<>>, k) /\ Seen + k <= 256 * (sb + 1)
                 /\ cols % 8 = 0 => Seen + k = 256 * (sb + 1)
    BY <1>1, <1>2 DEF AreaKept
  <2>2. PICK v : Adds(Visible, <<>>, v) /\ Seen + v >= 4 * Begun(sb)
    BY <1>1, <1>2 DEF AreaKept
  <2>3. k = 0 /\ v = 0
    BY <2>1, <2>2, AddsNone
  <2>4. Adds(Whole, todo, 256)'
    <3>1. Adds(Whole, <<Root(next)>>, 256)
      BY <1>6, <1>7
    <3> QED
      BY <1>1, <1>5, <3>1 DEF Adds
  <2>5. PICK u : u = Visible[Root(next)]
    OBVIOUS
  <2>6. Adds(Visible, todo, u)'
    <3>1. Adds(Visible, <<Root(next)>>, u)
      BY <1>6, <1>7, <2>5
    <3> QED
      BY <1>1, <1>5, <3>1 DEF Adds
  <2>7. Seen' + 256 <= 256 * (sb' + 1) /\ (cols' % 8 = 0 => Seen' + 256 = 256 * (sb' + 1))
    <3>1. sb \in Int
      BY <1>3
    <3> QED
      BY <1>n, <1>1, <1>5, <1>10, <2>1, <2>3, <3>1
  <2>8. Seen' + u >= 4 * Begun(next)
    <3>1. u \in Int
      BY <1>3, <1>4, <1>7, <2>5, RootIn DEF Measure
    <3> QED
      BY <1>8, <1>9, <1>10, <2>2, <2>3, <2>5, <3>1
  <2>9. \E i : Adds(Whole, todo, i)' /\ Seen' + i <= 256 * (sb' + 1) /\ (cols' % 8 = 0 => Seen' + i = 256 * (sb' + 1))
    BY <2>4, <2>7
  <2>10. \E i : Adds(Visible, todo, i)' /\ Seen' + i >= 4 * Begun(sb)'
    BY <1>5, <2>6, <2>8
  <2>11. todo' # <<>>
    BY <1>1
  <2> QED
    BY <2>9, <2>10, <2>11 DEF AreaKept
<1>14. LinesKept'
  <2> SUFFICES ASSUME NEW line \in 0 .. 16 * sb_rows' - 1
               PROVE  /\ BlackLine'[line] <= 16 * sb_cols'
                      /\ \E k : Adds(Over(line), todo, k)' /\ BlackLine'[line] + k <= Room(sb, line)'
    BY DEF LinesKept
  <2>1. BlackLine[line] <= 16 * sb_cols /\ \E k : Adds(Over(line), <<>>, k) /\ BlackLine[line] + k <= Room(sb, line)
    BY <1>1, <1>2, <1>5 DEF LinesKept
  <2>2. BlackLine[line] + 0 <= Room(sb, line)
    <3>1. PICK k : Adds(Over(line), <<>>, k) /\ BlackLine[line] + k <= Room(sb, line)
      BY <2>1
    <3>2. k = 0
      BY <3>1, AddsNone
    <3> QED
      BY <3>1, <3>2
  <2>3. line \in Nat /\ BlackLine[line] \in Nat /\ Room(sb, line) \in Int /\ Room(next, line) \in Int
    <3>1. /\ sb_rows \in Nat /\ sb_cols \in Nat /\ Root(sb).row \in Int /\ Root(sb).col \in Int
          /\ Root(next).row \in Int /\ Root(next).col \in Int
      BY <1>3, <1>4, Sizes, RootIn DEF Element
    <3>2. line \in 0 .. 16 * sb_rows - 1 /\ BlackLine \in [0 .. 16 * sb_rows - 1 -> Nat]
      BY <1>2, <1>5 DEF BlocksTyped
    <3> QED
      BY <3>1, <3>2, SMTT(30) DEF Room
  <2>4. PICK k : k = Over(line)[Root(next)]
    OBVIOUS
  <2>5. k \in Int
    BY <1>6, <2>3, <2>4
  <2>6. Adds(Over(line), todo, k)'
    <3>1. Measure(Over(line))
      BY <1>7, <2>3
    <3>2. Adds(Over(line), <<Root(next)>>, k)
      BY <1>6, <2>4, <3>1
    <3> QED
      BY <1>1, <1>5, <3>2 DEF Adds
  <2>7. Room(sb, line) + k <= Room(next, line)
    BY <1>8, <2>3, <2>4
  <2>8. BlackLine[line] + k <= Room(next, line)
    BY <2>2, <2>3, <2>5, <2>7
  <2> QED
    BY <1>1, <1>5, <2>1, <2>6, <2>8
<1>15. ClassKept'
  BY <1>1, <1>2, <1>5 DEF ClassKept
<1>16. AreaCounted' /\ BorderUsable'
  BY <1>1 DEF AreaCounted, BorderUsable, Decoded, Shown
<1> QED
  BY <1>11, <1>12, <1>13, <1>14, <1>15, <1>16 DEF BlocksInv

(* FrameStatistics: all superblocks are counted; the border leaves rows of *)
(* blocks, and if there are too few counters, the frame is narrow.         *)
LEMMA EndFrameInv ==
  ASSUME BlocksInv, EndFrame
  PROVE  BlocksInv'
<1>1. /\ pc = "decode" /\ todo = <<>> /\ sb + 1 = sb_cols * sb_rows
      /\ stream' = stream /\ number' = number /\ sb' = sb /\ todo' = todo /\ S' = S /\ BlackLine' = BlackLine
      /\ halved' = halved /\ tiny' = tiny
      /\ \/ /\ 2 * rows > Counters /\ pc' = "misused" /\ CurrBlackBorder' = CurrBlackBorder
         \/ /\ pc' = "decoded"
            /\ \/ CurrBlackBorder' = BlackborderDetect(BlackLine, 2 * rows, (12 * cols) \div 10, 4)
               \/ CurrBlackBorder' = CurrBlackBorder
  BY DEF EndFrame, LastSb
<1>2. BlocksTyped /\ BorderKept /\ AreaKept /\ LinesKept /\ ClassKept
  BY DEF BlocksInv
<1>3. stream \in Streams /\ sb \in 0 .. sb_cols * sb_rows - 1
  BY <1>2 DEF BlocksTyped
<1>4. /\ stream.width \in Nat \ {0}
      /\ rows \in Nat \ {0} /\ cols \in Nat \ {0} /\ sb_rows \in Nat \ {0} /\ sb_cols \in Nat \ {0}
      /\ 8 * sb_rows - 7 <= rows /\ rows <= 8 * sb_rows
      /\ 8 * sb_cols - 7 <= cols /\ cols <= 8 * sb_cols
  BY <1>3, Sizes
<1>5. /\ rows' = rows /\ cols' = cols /\ sb_rows' = sb_rows /\ sb_cols' = sb_cols /\ Placed' = Placed
  BY <1>1, <1>3, SameStream DEF Placed
<1>6. BlocksTyped'
  BY <1>1, <1>2, <1>5 DEF BlocksTyped
<1>7. BorderKept'
  <2>1. BorderKept => \E k \in 0 .. rows - 1 : CurrBlackBorder = 4 * k
    BY DEF BorderKept
  <2>2. \E k \in 0 .. rows - 1 : BlackborderDetect(BlackLine, 2 * rows, (12 * cols) \div 10, 4) = 4 * k
    <3> DEFINE b == BlackborderDetect(BlackLine, 2 * rows, (12 * cols) \div 10, 4)
               r == 2 * rows
               t == (12 * cols) \div 10
    <3>1. r \in Nat \ {0} /\ t \in Nat /\ r \div 2 = rows
      BY <1>4
    <3>2. IsBorder(BlackLine, r, t, 4, b)
      <4> HIDE DEF r, t
      <4>1. IsBorder(BlackLine, r, t, 4, BlackborderDetect(BlackLine, r, t, 4))
        BY <3>1, DetectsBorder
      <4> QED
        BY <4>1 DEF r, t
    <3> HIDE DEF b, r, t
    <3>3. PICK dark \in 0 .. r \div 2 : b = IF dark < r \div 2 THEN dark * 4 ELSE 0
      BY <3>2 DEF IsBorder
    <3>4. \E k \in 0 .. rows - 1 : b = 4 * k
      <4>1. CASE dark < rows
        BY <1>4, <3>1, <3>3, <4>1
      <4>2. CASE ~(dark < rows)
        BY <1>4, <3>1, <3>3, <4>2
      <4> QED
        BY <4>1, <4>2
    <3> QED
      BY <3>4 DEF b
  <2> QED
    BY <1>1, <1>2, <1>5, <2>1, <2>2 DEF BorderKept
<1>8. AreaKept'
  BY <1>1 DEF AreaKept
<1>9. LinesKept'
  BY <1>1, <1>2, <1>5 DEF LinesKept
<1>10. ClassKept'
  BY <1>1, <1>2, <1>5 DEF ClassKept
<1>11. AreaCounted'
  <2>1. PICK k : /\ Adds(Whole, <<>>, k) /\ Seen + k <= 256 * (sb + 1)
                 /\ cols % 8 = 0 => Seen + k = 256 * (sb + 1)
    BY <1>1, <1>2 DEF AreaKept
  <2>2. PICK v : Adds(Visible, <<>>, v) /\ Seen + v >= 4 * Begun(sb)
    BY <1>1, <1>2 DEF AreaKept
  <2>3. k = 0 /\ v = 0
    BY <2>1, <2>2, AddsNone
  <2>4. S.BlkCnt4x4 = 0
    BY <1>1, <1>2 DEF AreaKept
  <2>5. S.MbCnt \in Nat /\ halved \in Nat
    BY <1>2 DEF BlocksTyped, Sums
  <2>6. Seen = S.MbCnt + 2 * halved
    BY <2>4, <2>5 DEF Seen
  <2>7. Begun(sb) = rows * cols
    <3>1. Root(sb).row + 8 = 8 * sb_rows /\ Root(sb).col + 8 = 8 * sb_cols
      BY <1>1, <1>3, LastRoot
    <3>2. PICK r \in Nat, c \in Nat : r = Root(sb).row /\ c = Root(sb).col
      BY <1>3, RootIn DEF Element
    <3>3. PICK d \in Nat : d = Clip(rows, r, 8) /\ r + d = rows
      BY <1>4, <3>1, <3>2 DEF Clip
    <3>4. (IF c + 8 < cols THEN c + 8 ELSE cols) = cols
      BY <1>4, <3>1, <3>2
    <3>5. Begun(sb) = cols * r + d * cols
      BY <3>2, <3>3, <3>4 DEF Begun
    <3>6. cols * r + d * cols = (r + d) * cols
      BY <1>4
    <3> QED
      BY <3>3, <3>5, <3>6
  <2>8. PICK a \in Nat, m \in Nat : a = rows * cols /\ m = sb_cols * sb_rows /\ m = sb + 1
    BY <1>1, <1>4, NatProduct
  <2>9. 4 * rows * cols = 4 * a /\ 256 * sb_cols * sb_rows = 256 * m
    BY <1>4, <2>8
  <2>10. Seen \in 4 * a .. 256 * m /\ (cols % 8 = 0 => Seen = 256 * m)
    BY <2>1, <2>2, <2>3, <2>5, <2>6, <2>7, <2>8
  <2> QED
    BY <1>1, <1>5, <2>4, <2>6, <2>9, <2>10 DEF AreaCounted
<1>12. BorderUsable'
  <2>1. 2 * rows > Counters => stream.width < 64 * sb_rows
    BY <1>4 DEF Counters
  <2> QED
    BY <1>1, <1>5, <2>1 DEF BorderUsable, Shown
<1> QED
  BY <1>6, <1>7, <1>8, <1>9, <1>10, <1>11, <1>12 DEF BlocksInv

(* Some row of blocks is outside of the border, unless the last of an even *)
(* number of rows is cut to its upper half.                                *)
LEMMA RowOutside ==
  ASSUME BlocksTyped, BorderKept, rows % 2 = 1 \/ stream.height % 8 \notin 1 .. 4
  PROVE  \E row \in 0 .. rows - 1 : NoBorder(row)
<1>1. /\ stream.height \in Nat /\ rows \in Nat \ {0}
      /\ 8 * rows - 7 <= stream.height /\ stream.height <= 8 * rows
  BY Sizes DEF BlocksTyped
<1>2. PICK k \in 0 .. rows - 1 : CurrBlackBorder = 4 * k
  BY DEF BorderKept
<1>3. PICK row \in Int : row = (k + 1) \div 2
  BY <1>1, <1>2
<1>4. row \in 0 .. rows - 1
  BY <1>1, <1>2, <1>3
<1>5. 8 * row >= 4 * k /\ 8 * row < stream.height - 4 * k
  <2>1. CASE k % 2 = 0
    <3>1. 8 * row = 4 * k
      BY <1>1, <1>2, <1>3, <2>1
    <3> QED
      BY <1>1, <1>2, <3>1
  <2>2. CASE k % 2 = 1
    <3>1. 8 * row = 4 * k + 4
      BY <1>1, <1>2, <1>3, <2>2
    <3>2. CASE k < rows - 1
      BY <1>1, <1>2, <3>1, <3>2
    <3>3. CASE k = rows - 1
      <4>1. rows % 2 = 0
        BY <1>1, <1>2, <2>2, <3>3
      <4>2. stream.height > 8 * rows - 4
        BY <1>1, <4>1
      <4> QED
        BY <1>1, <1>2, <3>1, <3>3, <4>2
    <3> QED
      BY <1>1, <1>2, <3>2, <3>3
  <2> QED
    BY <1>1, <1>2, <2>1, <2>2
<1> QED
  BY <1>2, <1>4, <1>5 DEF NoBorder

(* GetVideoStatisticsVP9: QPs are counted for the rows outside of the      *)
(* border.                                                                 *)
LEMMA GetVideoStatisticsInv ==
  ASSUME BlocksInv, GetVideoStatisticsVP9
  PROVE  BlocksInv'
<1> DEFINE Rest == {row \in 0 .. rows - 1 : NoBorder(row)}
<1>1. /\ pc = "decoded" /\ pc' = "shown"
      /\ stream' = stream /\ number' = number /\ sb' = sb /\ todo' = todo /\ BlackLine' = BlackLine
      /\ CurrBlackBorder' = CurrBlackBorder /\ halved' = halved /\ tiny' = tiny
      /\ S' = IF stream.segmentation
              THEN [S EXCEPT !.QpCnt   = @ + rows * cols, !.QpCntBB = @ + cols * Cardinality(Rest)]
              ELSE [S EXCEPT !.QpCnt = @ + 1, !.QpCntBB = @ + 1]
  BY DEF GetVideoStatisticsVP9
<1>2. BlocksTyped /\ BorderKept /\ AreaKept /\ LinesKept /\ ClassKept /\ AreaCounted
  BY DEF BlocksInv
<1>3. stream \in Streams /\ S \in Sums
  BY <1>2 DEF BlocksTyped
<1>4. /\ rows \in Nat \ {0} /\ cols \in Nat \ {0}
  BY <1>3, Sizes
<1>5. /\ rows' = rows /\ cols' = cols /\ sb_rows' = sb_rows /\ sb_cols' = sb_cols /\ Placed' = Placed
  BY <1>1, <1>3, SameStream DEF Placed
<1>6. PICK a \in Nat, c \in Nat :
        /\ S'.QpCnt = S.QpCnt + a /\ S'.QpCntBB = S.QpCntBB + c
        /\ S' \in Sums /\ S'.BlkCnt4x4 = S.BlkCnt4x4
        /\ S'.MbCnt = S.MbCnt /\ S'.MbTypes = S.MbTypes /\ S'.NumBlksSkip = S.NumBlksSkip
        /\ S'.NumBlksMv = S.NumBlksMv /\ S'.NumBlksIntra = S.NumBlksIntra
        /\ rows % 2 = 1 \/ stream.height % 8 \notin 1 .. 4 => c > 0
  <2>1. Rest \subseteq 0 .. rows - 1 /\ IsFiniteSet(Rest) /\ Cardinality(Rest) \in Nat
    <3>1. IsFiniteSet(0 .. rows - 1)
      BY <1>4, FS_Interval
    <3>2. Rest \subseteq 0 .. rows - 1
      OBVIOUS
    <3>3. IsFiniteSet(Rest)
      BY <3>1, <3>2, FS_Subset
    <3> QED
      BY <3>2, <3>3, FS_CardinalityType
  <2>2. rows % 2 = 1 \/ stream.height % 8 \notin 1 .. 4 => Cardinality(Rest) > 0
    <3> SUFFICES ASSUME rows % 2 = 1 \/ stream.height % 8 \notin 1 .. 4
                 PROVE  Cardinality(Rest) > 0
      OBVIOUS
    <3>1. Rest # {}
      BY <1>2, RowOutside
    <3> HIDE DEF Rest
    <3>2. Cardinality(Rest) # 0
      BY <2>1, <3>1, FS_EmptySet
    <3> QED
      BY <2>1, <3>2
  <2> HIDE DEF Rest
  <2>3. PICK u \in Nat : u = Cardinality(Rest)
    BY <2>1
  <2>4. PICK p \in Nat, q \in Nat : p = rows * cols /\ q = cols * u /\ (u > 0 => q > 0)
    <3>1. rows * cols \in Nat /\ cols * u \in Nat
      BY <1>4, NatProduct
    <3>2. u > 0 => 1 * 1 <= cols * u
      BY <1>4, ProductMonotonic
    <3> QED
      BY <3>1, <3>2
  <2>5. PICK a \in Nat, c \in Nat :
          /\ S' = [S EXCEPT !.QpCnt = S.QpCnt + a, !.QpCntBB = S.QpCntBB + c]
          /\ rows % 2 = 1 \/ stream.height % 8 \notin 1 .. 4 => c > 0
    <3>1. CASE stream.segmentation
      <4>1. S' = [S EXCEPT !.QpCnt = S.QpCnt + p, !.QpCntBB = S.QpCntBB + q]
        BY <1>1, <2>3, <2>4, <3>1
      <4> QED
        BY <2>2, <2>3, <2>4, <4>1
    <3>2. CASE ~stream.segmentation
      <4>1. PICK o \in Nat : o = 1
        OBVIOUS
      <4>2. S' = [S EXCEPT !.QpCnt = S.QpCnt + o, !.QpCntBB = S.QpCntBB + o] /\ o > 0
        BY <1>1, <3>2, <4>1
      <4> QED
        BY <4>2
    <3> QED
      BY <3>1, <3>2
  <2>6. /\ S'.QpCnt = S.QpCnt + a /\ S'.QpCntBB = S.QpCntBB + c
        /\ S' \in Sums /\ S'.BlkCnt4x4 = S.BlkCnt4x4
        /\ S'.MbCnt = S.MbCnt /\ S'.MbTypes = S.MbTypes /\ S'.NumBlksSkip = S.NumBlksSkip
        /\ S'.NumBlksMv = S.NumBlksMv /\ S'.NumBlksIntra = S.NumBlksIntra
    <3>1. S.QpCnt + a \in Nat /\ S.QpCntBB + c \in Nat
      BY <1>3 DEF Sums
    <3>2. PICK d \in Nat, e \in Nat : d = S.QpCnt + a /\ e = S.QpCntBB + c
      BY <3>1
    <3>3. S' = [S EXCEPT !.QpCnt = d, !.QpCntBB = e]
      BY <2>5, <3>2
    <3> QED
      BY <1>3, <3>2, <3>3 DEF Sums
  <2> QED
    BY <2>5, <2>6
<1>7. BlocksTyped'
  BY <1>1, <1>2, <1>5, <1>6 DEF BlocksTyped
<1>8. BorderKept'
  BY <1>1, <1>2, <1>5 DEF BorderKept
<1>9. AreaKept'
  BY <1>1 DEF AreaKept
<1>10. LinesKept'
  BY <1>1, <1>2, <1>5 DEF LinesKept
<1>11. ClassKept'
  BY <1>1, <1>2, <1>5, <1>6 DEF ClassKept
<1>12. AreaCounted'
  BY <1>1, <1>2, <1>5, <1>6 DEF AreaCounted, Decoded
<1>13. BorderUsable'
  <2>1. S.QpCntBB \in Nat
    BY <1>3 DEF Sums
  <2> QED
    BY <1>1, <1>5, <1>6, <2>1 DEF BorderUsable
<1> QED
  BY <1>7, <1>8, <1>9, <1>10, <1>11, <1>12, <1>13 DEF BlocksInv

(* ModeStatistics, BlockMVStatsVP9: a block adds to one of the three       *)
(* counts what it adds to its type, but an inter block smaller than 8x8    *)
(* only its vectors.                                                       *)
LEMMA BlockCounts ==
  ASSUME NEW b \in Element, b.bp # Undecided, NEW unit \in Unit, NEW r \in Nat, NEW count, count = r + Area(b)
  PROVE  /\ count \in Nat /\ GetMbTypeIdxVP9(unit) \in MbTypeIdx
         /\ \E p \in Nat, q \in Nat, i \in Nat :
              /\ BlockMVStatsVP9(b, unit, count) = [skip |-> p, mv |-> q, intra |-> i]
              /\ p + q + i <= count
              /\ ~(SmallerThan8x8(b) /\ ~unit.intra) \/ r = 0 => p + q + i = count
              /\ i = IF GetMbTypeIdxVP9(unit) = INTRA_PLN THEN count ELSE 0
<1>1. /\ Area(b) \in 1 .. 256 /\ Vectors(b) \in 1 .. 4
      /\ SmallerThan8x8(b) => Vectors(b) = Area(b)
  BY BlockShapes
<1>2. unit.skip \in BOOLEAN /\ unit.intra \in BOOLEAN /\ unit.comp \in BOOLEAN
  BY DEF Unit
<1>3. count \in Nat
  BY <1>1
<1>4. PICK m \in Nat : m = IF SmallerThan8x8(b) /\ ~unit.intra THEN Vectors(b) ELSE count
  BY <1>1, <1>3
<1>5. m <= count /\ (~(SmallerThan8x8(b) /\ ~unit.intra) \/ r = 0 => m = count)
  BY <1>1, <1>3, <1>4
<1>6. unit.intra => m = count
  BY <1>4
<1>7. BlockMVStatsVP9(b, unit, count) =
        CASE unit.skip -> [skip |-> m, mv |-> 0, intra |-> 0]
          [] ~unit.skip /\ unit.intra -> [skip |-> 0, mv |-> 0, intra |-> m]
          [] ~unit.skip /\ ~unit.intra -> [skip |-> 0, mv |-> m, intra |-> 0]
  BY <1>4 DEF BlockMVStatsVP9
<1>8. GetMbTypeIdxVP9(unit) =
        CASE unit.skip -> 0
          [] ~unit.skip /\ unit.intra -> 6
          [] ~unit.skip /\ ~unit.intra -> IF unit.comp THEN 3 ELSE 1
  BY DEF GetMbTypeIdxVP9, SKIPPED, INTRA_PLN, FORWARD, BIDIRECT
<1> USE DEF MbTypeIdx, SKIPPED, INTRA_PLN, FORWARD, BIDIRECT
<1> DEFINE Is(p, q, i) ==
      /\ BlockMVStatsVP9(b, unit, count) = [skip |-> p, mv |-> q, intra |-> i]
      /\ p + q + i <= count
      /\ ~(SmallerThan8x8(b) /\ ~unit.intra) \/ r = 0 => p + q + i = count
      /\ i = IF GetMbTypeIdxVP9(unit) = INTRA_PLN THEN count ELSE 0
<1>z. 0 \in Nat /\ m + 0 + 0 = m /\ 0 + m + 0 = m /\ 0 + 0 + m = m
  OBVIOUS
<1>9. CASE unit.skip
  <2>1. BlockMVStatsVP9(b, unit, count) = [skip |-> m, mv |-> 0, intra |-> 0] /\ GetMbTypeIdxVP9(unit) = 0
    BY <1>7, <1>8, <1>9
  <2>2. Is(m, 0, 0)
    BY <1>5, <1>z, <2>1
  <2> HIDE DEF Is
  <2>3. \E p \in Nat, q \in Nat, i \in Nat : Is(p, q, i)
    BY <1>z, <2>2
  <2> QED
    BY <1>3, <2>1, <2>3 DEF Is
<1>10. CASE ~unit.skip /\ unit.intra
  <2>1. BlockMVStatsVP9(b, unit, count) = [skip |-> 0, mv |-> 0, intra |-> m] /\ GetMbTypeIdxVP9(unit) = 6
    BY <1>7, <1>8, <1>10
  <2>2. Is(0, 0, m)
    BY <1>5, <1>6, <1>10, <1>z, <2>1
  <2> HIDE DEF Is
  <2>3. \E p \in Nat, q \in Nat, i \in Nat : Is(p, q, i)
    BY <1>z, <2>2
  <2> QED
    BY <1>3, <2>1, <2>3 DEF Is
<1>11. CASE ~unit.skip /\ ~unit.intra
  <2>1. BlockMVStatsVP9(b, unit, count) = [skip |-> 0, mv |-> m, intra |-> 0] /\ GetMbTypeIdxVP9(unit) \in {1, 3}
    BY <1>7, <1>8, <1>11
  <2>2. Is(0, m, 0)
    BY <1>5, <1>z, <2>1
  <2> HIDE DEF Is
  <2>3. \E p \in Nat, q \in Nat, i \in Nat : Is(p, q, i)
    BY <1>z, <2>2
  <2> QED
    BY <1>3, <2>1, <2>3 DEF Is
<1> QED
  BY <1>2, <1>9, <1>10, <1>11

(* Columns are never less than 0. *)
LEMMA OverTyped ==
  ASSUME stream \in Streams, NEW line \in Int
  PROVE  Over(line) \in [Element -> Nat]
<1>1. ASSUME NEW x \in Element
      PROVE  2 * Broad(x) \in Nat
  BY Shapes
<1> QED
  BY <1>1 DEF Over

(* decode_b: the block is counted with what lies below the frame, and the  *)
(* dark columns of its rows are those it lies over.                        *)
LEMMA DecodeBInv ==
  ASSUME BlocksInv, NEW unit \in stream.units, DecodeB(unit)
  PROVE  BlocksInv'
<1>b. PICK b : b = Head(todo)
  OBVIOUS
<1>c. PICK count : count = S.BlkCnt4x4 + Area(b)
  OBVIOUS
<1>r. PICK rec : rec = BlockMVStatsVP9(b, unit, count)
  OBVIOUS
<1>1. /\ pc = "decode" /\ todo # <<>> /\ b.bp # Undecided
      /\ S' = [S EXCEPT !.MbCnt = @ + count, !.MbTypes[GetMbTypeIdxVP9(unit)] = @ + count,
                    !.NumBlksSkip = @ + rec.skip, !.NumBlksMv = @ + rec.mv,
                    !.NumBlksIntra = @ + rec.intra,
                    !.BlkCnt4x4 = 0]
      /\ IF DarkRows(b, unit) \subseteq 0 .. Counters - 1
         THEN /\ BlackLine' = [i \in DOMAIN BlackLine |->
                     BlackLine[i] + (IF i \in DarkRows(b, unit) THEN Extent(b, unit).x ELSE 0)]
              /\ pc' = pc
         ELSE pc' = "misused" /\ BlackLine' = BlackLine
      /\ halved' = halved + (IF Halved(b) THEN 1 ELSE 0)
      /\ tiny' = tiny + (IF SmallerThan8x8(b) /\ ~unit.intra THEN 1 ELSE 0)
      /\ todo' = Tail(todo)
      /\ stream' = stream /\ number' = number /\ sb' = sb /\ CurrBlackBorder' = CurrBlackBorder
  BY <1>b, <1>c, <1>r DEF DecodeB
<1>2. BlocksTyped /\ BorderKept /\ AreaKept /\ LinesKept /\ ClassKept
  BY DEF BlocksInv
<1>3. /\ stream \in Streams /\ sb \in 0 .. sb_cols * sb_rows - 1 /\ todo \in Seq(Placed) /\ S \in Sums
      /\ halved \in Nat /\ tiny \in Nat /\ BlackLine \in [0 .. 16 * sb_rows - 1 -> Nat]
  BY <1>2 DEF BlocksTyped
<1>u. unit \in Unit
  BY <1>3, BlocksAssumption
<1>4. b \in Placed /\ Tail(todo) \in Seq(Placed)
  BY <1>1, <1>3, <1>b, NotEmpty
<1>e. Placed \in SUBSET Element /\ b \in Element /\ InFrame(b)
  BY <1>4 DEF Placed, Around
<1>5. /\ rows' = rows /\ cols' = cols /\ sb_rows' = sb_rows /\ sb_cols' = sb_cols
      /\ Whole' = Whole /\ Visible' = Visible
      /\ \A line : Over(line)' = Over(line)
      /\ Placed' = Placed
      /\ Begun(sb)' = Begun(sb) /\ (\A line : Room(sb, line)' = Room(sb, line))
  BY <1>1, <1>3, SameStream DEF Placed
<1>6. Measure(Whole) /\ Measure(Visible) /\ \A line \in Int : Measure(Over(line))
  BY <1>3, Measures
<1>7. ASSUME NEW w, Measure(w), NEW k, Adds(w, todo, k)
      PROVE  k \in Int /\ w[b] \in Int /\ Adds(w, todo', k - w[b])
  BY <1>1, <1>3, <1>e, <1>7, <1>b, HeadAndTail
<1>8. /\ Whole[b] = Area(b) + (IF Halved(b) THEN 2 ELSE 0)
      /\ Visible[b] <= Whole[b]
      /\ \A line \in Nat : Over(line)[b] = IF 2 * b.row <= line /\ line < 2 * b.row + h4(b) THEN w4(b) ELSE 0
  BY <1>1, <1>3, <1>e, BlockMeasures
<1>9. /\ Area(b) \in 1 .. 256 /\ w4(b) \in Nat /\ h4(b) \in Nat /\ b.row \in Nat
      /\ b.row < rows /\ b.row + High(b) <= 8 * sb_rows /\ h4(b) = 2 * High(b)
      /\ S.BlkCnt4x4 \in Nat /\ S.MbCnt \in Nat
  <2>1. Area(b) \in 1 .. 256 /\ w4(b) \in Nat /\ h4(b) \in Nat /\ h4(b) = 2 * High(b) /\ High(b) \in Nat
    BY <1>1, <1>e, BlockShapes, Shapes
  <2>2. PICK q \in 0 .. sb_rows - 1 : Root(sb).row = 8 * q
    BY <1>3, RootIn
  <2>3. sb_rows \in Nat /\ rows \in Nat
    BY <1>3, Sizes
  <2>4. b.row + High(b) <= Root(sb).row + 8 /\ b.row \in Nat
    BY <1>4, <1>e DEF Placed, Around, Element
  <2>5. S.BlkCnt4x4 \in Nat /\ S.MbCnt \in Nat
    BY <1>3 DEF Sums
  <2> QED
    BY <1>e, <2>1, <2>2, <2>3, <2>4, <2>5 DEF InFrame
<1>10. /\ count \in Nat /\ GetMbTypeIdxVP9(unit) \in MbTypeIdx
       /\ \E p \in Nat, q \in Nat, i \in Nat :
              /\ rec = [skip |-> p, mv |-> q, intra |-> i]
              /\ p + q + i <= count
              /\ ~(SmallerThan8x8(b) /\ ~unit.intra) \/ S.BlkCnt4x4 = 0 => p + q + i = count
              /\ i = IF GetMbTypeIdxVP9(unit) = INTRA_PLN THEN count ELSE 0
  <2>1. PICK r \in Nat : r = S.BlkCnt4x4
    BY <1>9
  <2>2. count = r + Area(b)
    BY <1>c, <2>1
  <2>3. /\ count \in Nat /\ GetMbTypeIdxVP9(unit) \in MbTypeIdx
        /\ \E p \in Nat, q \in Nat, i \in Nat :
              /\ BlockMVStatsVP9(b, unit, count) = [skip |-> p, mv |-> q, intra |-> i]
              /\ p + q + i <= count
              /\ ~(SmallerThan8x8(b) /\ ~unit.intra) \/ r = 0 => p + q + i = count
              /\ i = IF GetMbTypeIdxVP9(unit) = INTRA_PLN THEN count ELSE 0
    BY <1>1, <1>e, <1>u, <2>2, BlockCounts, SMTT(30)
  <2> QED
    BY <1>r, <2>1, <2>3
<1>11. PICK p \in Nat, q \in Nat, i \in Nat :
              /\ rec = [skip |-> p, mv |-> q, intra |-> i]
              /\ p + q + i <= count
              /\ ~(SmallerThan8x8(b) /\ ~unit.intra) \/ S.BlkCnt4x4 = 0 => p + q + i = count
              /\ i = IF GetMbTypeIdxVP9(unit) = INTRA_PLN THEN count ELSE 0
  BY <1>10
<1>12. /\ S' \in Sums /\ S'.BlkCnt4x4 = 0 /\ S'.MbCnt = S.MbCnt + count
       /\ S'.NumBlksSkip = S.NumBlksSkip + p /\ S'.NumBlksMv = S.NumBlksMv + q
       /\ S'.NumBlksIntra = S.NumBlksIntra + i
       /\ S'.MbTypes[INTRA_PLN] = S.MbTypes[INTRA_PLN] + i
  <2>1. PICK t \in MbTypeIdx : t = GetMbTypeIdxVP9(unit)
    BY <1>10
  <2>2. PICK types : types = [S.MbTypes EXCEPT ![t] = @ + count]
    OBVIOUS
  <2>3. S.MbTypes \in [MbTypeIdx -> Nat] /\ INTRA_PLN \in MbTypeIdx
    BY <1>3 DEF Sums, MbTypeIdx
  <2>4. types \in [MbTypeIdx -> Nat] /\ types[INTRA_PLN] = S.MbTypes[INTRA_PLN] + i
    BY <1>10, <1>11, <2>1, <2>2, <2>3
  <2>5. S' = [BlkCnt4x4 |-> 0, MbCnt |-> S.MbCnt + count, MbTypes |-> types,
              NumBlksSkip |-> S.NumBlksSkip + p, NumBlksMv |-> S.NumBlksMv + q,
              NumBlksIntra |-> S.NumBlksIntra + i, QpCnt |-> S.QpCnt, QpCntBB |-> S.QpCntBB]
    <3>1. rec.skip = p /\ rec.mv = q /\ rec.intra = i
      BY <1>11
    <3> QED
      BY <1>1, <1>3, <2>1, <2>2, <3>1 DEF Sums
  <2>6. /\ S.NumBlksSkip \in Nat /\ S.NumBlksMv \in Nat /\ S.NumBlksIntra \in Nat
        /\ S.QpCnt \in Nat /\ S.QpCntBB \in Nat
    BY <1>3 DEF Sums
  <2> QED
    BY <1>9, <1>10, <2>4, <2>5, <2>6 DEF Sums
<1>13. Seen \in Nat /\ Seen' = Seen + Whole[b] /\ Whole[b] \in Nat
  <2>0. Area(b) \in Nat
    BY <1>9
  <2>1. PICK a \in Nat, r \in Nat, m \in Nat : a = Area(b) /\ r = S.BlkCnt4x4 /\ m = S.MbCnt
    BY <1>9, <2>0, Zenon
  <2>h. PICK o \in Nat : o = halved
    BY <1>3
  <2>w. Whole[b] = a + (IF Halved(b) THEN 2 ELSE 0) /\ halved' = o + (IF Halved(b) THEN 1 ELSE 0)
    BY <1>1, <1>8, <2>1, <2>h
  <2>2. Seen = m + 2 * o + r /\ Seen' = (m + (r + a)) + 2 * halved' + 0
    BY <1>12, <1>c, <2>1, <2>h DEF Seen
  <2>3. CASE Halved(b)
    BY <2>w, <2>2, <2>3
  <2>4. CASE ~Halved(b)
    BY <2>w, <2>2, <2>4
  <2> QED
    BY <2>3, <2>4
<1>14. BlackLine' \in [0 .. 16 * sb_rows - 1 -> Nat]
  <2>1. Extent(b, unit).x \in Nat
    BY <1>1, <1>3, <1>e, <1>u, <1>9, Extents, SMTT(30)
  <2> QED
    BY <1>1, <1>3, <2>1, SMTT(30)
<1>15. BlocksTyped'
  <2>1. todo' \in Seq(Placed')
    BY <1>1, <1>4, <1>5
  <2>2. halved' \in Nat /\ tiny' \in Nat
    BY <1>1, <1>3
  <2>3. pc' \in {"decode", "decoded", "shown", "misused"}
    BY <1>1
  <2> QED
    BY <1>1, <1>2, <1>5, <1>12, <1>14, <2>1, <2>2, <2>3 DEF BlocksTyped
<1>16. BorderKept'
  BY <1>1, <1>2, <1>5 DEF BorderKept
<1>17. AreaKept'
  <2>1. PICK k : /\ Adds(Whole, todo, k) /\ Seen + k <= 256 * (sb + 1)
                 /\ cols % 8 = 0 => Seen + k = 256 * (sb + 1)
    BY <1>1, <1>2 DEF AreaKept
  <2>2. PICK j : j = k - Whole[b]
    OBVIOUS
  <2>3. k \in Int /\ Adds(Whole, todo, j)'
    <3>1. k \in Int /\ Adds(Whole, todo', j)
      BY <1>6, <1>7, <2>1, <2>2
    <3> QED
      BY <1>5, <3>1 DEF Adds
  <2>4. Seen' + j <= 256 * (sb + 1) /\ (cols % 8 = 0 => Seen' + j = 256 * (sb + 1))
    <3>1. Seen' + j = Seen + k
      BY <1>13, <2>2, <2>3
    <3> QED
      BY <2>1, <3>1
  <2>5. PICK v : Adds(Visible, todo, v) /\ Seen + v >= 4 * Begun(sb)
    BY <1>1, <1>2 DEF AreaKept
  <2>6. PICK u : u = v - Visible[b]
    OBVIOUS
  <2>7. v \in Int /\ Visible[b] \in Int /\ Adds(Visible, todo, u)'
    <3>1. v \in Int /\ Visible[b] \in Int /\ Adds(Visible, todo', u)
      BY <1>6, <1>7, <2>5, <2>6
    <3> QED
      BY <1>5, <3>1 DEF Adds
  <2>8. Seen' + u >= 4 * Begun(sb)
    <3>1. Begun(sb) \in Int
      BY <1>3, BegunInt
    <3> QED
      BY <1>8, <1>13, <2>5, <2>6, <2>7, <3>1
  <2>9. \E x : Adds(Whole, todo, x)' /\ Seen' + x <= 256 * (sb' + 1) /\ (cols' % 8 = 0 => Seen' + x = 256 * (sb' + 1))
    BY <1>1, <1>5, <2>3, <2>4
  <2>10. \E x : Adds(Visible, todo, x)' /\ Seen' + x >= 4 * Begun(sb)'
    BY <1>5, <2>7, <2>8
  <2> QED
    BY <1>12, <2>9, <2>10 DEF AreaKept
<1>18. LinesKept'
  <2> SUFFICES ASSUME NEW line \in 0 .. 16 * sb_rows' - 1
               PROVE  /\ BlackLine'[line] <= 16 * sb_cols'
                      /\ pc' = "decode" => \E k : Adds(Over(line), todo, k)' /\ BlackLine'[line] + k <= Room(sb, line)'
    BY DEF LinesKept
  <2>1. BlackLine[line] <= 16 * sb_cols /\ \E k : Adds(Over(line), todo, k) /\ BlackLine[line] + k <= Room(sb, line)
    BY <1>1, <1>2, <1>5 DEF LinesKept
  <2>2. PICK k : Adds(Over(line), todo, k) /\ BlackLine[line] + k <= Room(sb, line)
    BY <2>1
  <2>3. /\ line \in Nat /\ line \in 0 .. 16 * sb_rows - 1 /\ BlackLine[line] \in Nat
        /\ Room(sb, line) \in Int /\ Room(sb, line) <= 16 * sb_cols /\ sb_cols \in Nat
    <3>1. sb_rows \in Nat /\ sb_cols \in Nat
      BY <1>3, Sizes
    <3>2. PICK m \in 0 .. sb_rows - 1, o \in 0 .. sb_cols - 1 : Root(sb).row = 8 * m /\ Root(sb).col = 8 * o
      BY <1>3, RootIn
    <3>3. line \in 0 .. 16 * sb_rows - 1
      BY <1>5
    <3>4. Room(sb, line) \in Int /\ Room(sb, line) <= 16 * sb_cols
      BY <3>1, <3>2, <3>3 DEF Room
    <3> QED
      BY <1>3, <3>1, <3>3, <3>4
  <2>4. PICK j : j = k - Over(line)[b]
    OBVIOUS
  <2>5. /\ k \in Int /\ Over(line)[b] \in Int /\ Adds(Over(line), todo', j)
    BY <1>6, <1>7, <2>2, <2>3, <2>4
  <2>6. j \in Nat
    <3>1. Over(line) \in [Element -> Nat] /\ todo' \in Seq(Element)
      <4>1. Over(line) \in [Element -> Nat]
        BY <1>3, <2>3, OverTyped
      <4> QED
        BY <1>1, <1>4, <1>e, <4>1
    <3> QED
      BY <2>5, <3>1, AddsNat
  <2>7. Adds(Over(line), todo, j)'
    BY <1>5, <2>5 DEF Adds
  <2>8. \/ BlackLine'[line] <= BlackLine[line] + Over(line)[b]
        \/ BlackLine' = BlackLine /\ pc' = "misused"
    <3>1. Extent(b, unit).x \in 0 .. w4(b) /\ Extent(b, unit).y \in 0 .. h4(b)
      BY <1>1, <1>3, <1>e, <1>u, Extents
    <3>2. line \in DarkRows(b, unit) => 2 * b.row <= line /\ line < 2 * b.row + h4(b)
      BY <1>9, <2>3, <3>1 DEF DarkRows
    <3>3. line \in DOMAIN BlackLine
      BY <1>3, <2>3
    <3>4. Over(line)[b] = IF 2 * b.row <= line /\ line < 2 * b.row + h4(b) THEN w4(b) ELSE 0
      BY <1>8, <2>3
    <3>5. PICK x \in Nat, o \in Nat : x = Extent(b, unit).x /\ x <= w4(b) /\ o = Over(line)[b]
      BY <1>9, <3>1, <3>4
    <3>6. \/ BlackLine' = BlackLine /\ pc' = "misused"
          \/ BlackLine'[line] = BlackLine[line] + (IF line \in DarkRows(b, unit) THEN x ELSE 0)
      BY <1>1, <3>3, <3>5
    <3>7. (IF line \in DarkRows(b, unit) THEN x ELSE 0) <= o
      BY <1>9, <3>2, <3>4, <3>5
    <3> QED
      BY <2>3, <3>5, <3>6, <3>7
  <2>9. BlackLine'[line] \in Nat
    BY <1>14, <2>3
  <2>10. CASE BlackLine' = BlackLine /\ pc' = "misused"
    BY <1>5, <2>1, <2>10
  <2>11. CASE BlackLine'[line] <= BlackLine[line] + Over(line)[b]
    <3>1. BlackLine'[line] + j <= Room(sb, line)
      BY <2>2, <2>3, <2>4, <2>5, <2>6, <2>9, <2>11
    <3>2. BlackLine'[line] <= 16 * sb_cols
      BY <2>3, <2>6, <2>9, <3>1
    <3> QED
      BY <1>5, <2>7, <3>1, <3>2
  <2> QED
    BY <2>8, <2>10, <2>11
<1>19. ClassKept'
  <2>1. /\ S.NumBlksSkip \in Nat /\ S.NumBlksMv \in Nat /\ S.NumBlksIntra \in Nat
        /\ S.MbTypes[INTRA_PLN] \in Nat
    BY <1>3 DEF Sums, MbTypeIdx
  <2>2. tiny' = 0 => tiny = 0 /\ ~(SmallerThan8x8(b) /\ ~unit.intra)
    BY <1>1, <1>3
  <2> QED
    <3>1. PICK t \in Nat : t = p + q + i
      OBVIOUS
    <3>2. /\ t <= count
          /\ ~(SmallerThan8x8(b) /\ ~unit.intra) \/ S.BlkCnt4x4 = 0 => t = count
      BY <1>11, <3>1
    <3>3. S'.NumBlksSkip + S'.NumBlksMv + S'.NumBlksIntra = (S.NumBlksSkip + S.NumBlksMv + S.NumBlksIntra) + t
      BY <1>12, <2>1, <3>1
    <3>4. PICK d \in Nat : d = S.NumBlksSkip + S.NumBlksMv + S.NumBlksIntra
      BY <2>1
    <3>5. /\ d <= S.MbCnt /\ (tiny = 0 => d = S.MbCnt) /\ (rows % 8 = 0 => d = S.MbCnt /\ S.BlkCnt4x4 = 0)
          /\ S.MbTypes[INTRA_PLN] = S.NumBlksIntra
      BY <1>2, <3>4 DEF ClassKept
    <3>6. PICK e \in Nat, m \in Nat : e = count /\ m = S.MbCnt
      BY <1>9, <1>10
    <3>7. d + t <= m + e /\ (tiny' = 0 => d + t = m + e)
      BY <2>2, <3>2, <3>5, <3>6
    <3>8. rows % 8 = 0 => d + t = m + e
      BY <3>2, <3>5, <3>6
    <3>9. S'.MbCnt = m + e /\ S'.NumBlksSkip + S'.NumBlksMv + S'.NumBlksIntra = d + t
      BY <1>12, <3>3, <3>4, <3>6
    <3>10. S'.MbTypes[INTRA_PLN] = S'.NumBlksIntra
      BY <1>12, <3>5
    <3> QED
      BY <1>5, <1>12, <3>7, <3>8, <3>9, <3>10 DEF ClassKept
<1>20. AreaCounted'
  BY <1>1 DEF AreaCounted, Decoded
<1>21. BorderUsable'
  <2>1. CASE pc' = "misused"
    <3>1. PICK line \in DarkRows(b, unit) : ~(line \in 0 .. Counters - 1)
      BY <1>1, <2>1
    <3>2. Extent(b, unit).y \in 0 .. h4(b)
      BY <1>1, <1>3, <1>e, <1>u, Extents
    <3>3. line \in Nat /\ line < 2 * b.row + h4(b)
      BY <1>9, <3>1, <3>2 DEF DarkRows
    <3>4. stream.width \in Nat /\ sb_rows \in Nat /\ High(b) \in Nat
      <4>1. High(b) \in Nat
        BY <1>e, Shapes
      <4> QED
        BY <1>3, <4>1, Sizes
    <3>5. line < 16 * sb_rows /\ line >= stream.width \div 4
      BY <1>9, <3>1, <3>3, <3>4 DEF Counters
    <3>6. stream.width < 64 * sb_rows
      BY <3>3, <3>4, <3>5
    <3> QED
      BY <1>1, <1>5, <2>1, <3>6 DEF BorderUsable, Shown
  <2>2. CASE pc' # "misused"
    BY <1>1, <2>2 DEF BorderUsable, Shown
  <2> QED
    BY <2>1, <2>2
<1> QED
  BY <1>15, <1>16, <1>17, <1>18, <1>19, <1>20, <1>21 DEF BlocksInv

(* Nothing happens. *)
LEMMA UnchangedInv ==
  ASSUME BlocksInv, UNCHANGED blockVars
  PROVE  BlocksInv'
<1>1. /\ stream' = stream /\ number' = number /\ sb' = sb /\ todo' = todo /\ S' = S /\ BlackLine' = BlackLine
      /\ CurrBlackBorder' = CurrBlackBorder /\ halved' = halved /\ tiny' = tiny /\ pc' = pc
  BY DEF blockVars
<1>2. /\ rows' = rows /\ cols' = cols /\ sb_rows' = sb_rows /\ sb_cols' = sb_cols /\ Placed' = Placed
      /\ Whole' = Whole /\ Visible' = Visible
      /\ \A line : Over(line)' = Over(line)
      /\ Begun(sb)' = Begun(sb) /\ (\A line : Room(sb, line)' = Room(sb, line))
  BY <1>1, SameStream DEF Placed
<1>3. BlocksTyped /\ BorderKept /\ AreaKept /\ LinesKept /\ ClassKept /\ AreaCounted /\ BorderUsable
  BY DEF BlocksInv
<1>4. BlocksTyped'
  BY <1>1, <1>2, <1>3 DEF BlocksTyped
<1>5. BorderKept'
  BY <1>1, <1>2, <1>3 DEF BorderKept
<1>6. AreaKept'
  <2>1. Seen' = Seen
    BY <1>1 DEF Seen
  <2>2. \A k : /\ Adds(Whole, todo, k)' <=> Adds(Whole, todo, k)
               /\ Adds(Visible, todo, k)' <=> Adds(Visible, todo, k)
    BY <1>1, <1>2 DEF Adds
  <2> QED
    BY <1>1, <1>2, <1>3, <2>1, <2>2 DEF AreaKept
<1>7. LinesKept'
  <2>1. \A line, k : Adds(Over(line), todo, k)' <=> Adds(Over(line), todo, k)
    BY <1>1, <1>2 DEF Adds
  <2> QED
    BY <1>1, <1>2, <1>3, <2>1 DEF LinesKept
<1>8. ClassKept'
  BY <1>1, <1>2, <1>3 DEF ClassKept
<1>9. AreaCounted'
  BY <1>1, <1>2, <1>3 DEF AreaCounted, Decoded
<1>10. BorderUsable'
  BY <1>1, <1>2, <1>3 DEF BorderUsable, Shown
<1> QED
  BY <1>4, <1>5, <1>6, <1>7, <1>8, <1>9, <1>10 DEF BlocksInv

(* The invariant contains the types. *)
LEMMA BlocksInvTypes ==
  ASSUME BlocksInv
  PROVE  BlocksTypeOK
<1>1. BlocksTyped /\ BorderKept /\ LinesKept
  BY DEF BlocksInv
<1>2. /\ stream \in Streams
      /\ number \in 0 .. Len(stream.frames) /\ sb \in 0 .. sb_cols * sb_rows - 1
      /\ todo \in Seq(Placed) /\ S \in Sums
      /\ BlackLine \in [0 .. 16 * sb_rows - 1 -> Nat]
      /\ halved \in Nat /\ tiny \in Nat
      /\ pc \in {"decode", "decoded", "shown", "misused"}
  BY <1>1 DEF BlocksTyped
<1>3. \A i \in DOMAIN todo : /\ InFrame(todo[i])
                             /\ todo[i].bl \in 0 .. 3 /\ todo[i].bp \in Undecided .. PARTITION_SPLIT
  <2>1. \A i \in DOMAIN todo : todo[i] \in Placed
    BY <1>2
  <2> QED
    BY <2>1 DEF Placed, Around, Element
<1>4. BlackLine \in [0 .. 16 * sb_rows - 1 -> 0 .. 16 * sb_cols]
  <2>1. sb_cols \in Nat
    BY <1>2, Sizes
  <2>2. \A line \in 0 .. 16 * sb_rows - 1 : BlackLine[line] <= 16 * sb_cols
    BY <1>1 DEF LinesKept
  <2> QED
    BY <1>2, <2>1, <2>2
<1>5. CurrBlackBorder >= 0 /\ 2 * CurrBlackBorder < stream.height
  <2>1. PICK k \in 0 .. rows - 1 : CurrBlackBorder = 4 * k
    BY <1>1 DEF BorderKept
  <2>2. rows \in Nat /\ stream.height \in Nat /\ 8 * rows - 7 <= stream.height
    BY <1>2, Sizes
  <2> QED
    BY <2>1, <2>2
<1> QED
  BY <1>2, <1>3, <1>4, <1>5 DEF BlocksTypeOK, Sums

(* The invariant contains the classification. *)
LEMMA BlocksInvClassifies ==
  ASSUME BlocksInv
  PROVE  ClassifiedOnce
  BY DEF BlocksInv, ClassKept, ClassifiedOnce

-----------------------------------------------------------------------------
(* Blocks: the theorems.                                                   *)

(* The invariant holds in every state: for every size of the frames, every *)
(* partition of the superblocks and every mix of blocks.                   *)
THEOREM BlocksInvariant == BlocksSpec => []BlocksInv
<1>1. BlocksInv /\ [BlocksNext]_blockVars => BlocksInv'
  <2> SUFFICES ASSUME BlocksInv, [BlocksNext]_blockVars
               PROVE  BlocksInv'
    OBVIOUS
  <2>1. CASE StartFrame
    BY <2>1, StartFrameInv
  <2>2. ASSUME NEW bp \in PARTITION_NONE .. PARTITION_SPLIT, DecodeSb(bp)
        PROVE  BlocksInv'
    BY <2>2, DecodeSbInv
  <2>3. ASSUME NEW unit \in stream.units, DecodeB(unit)
        PROVE  BlocksInv'
    BY <2>3, DecodeBInv
  <2>4. CASE NextSb
    BY <2>4, NextSbInv
  <2>5. CASE EndFrame
    BY <2>5, EndFrameInv
  <2>6. CASE GetVideoStatisticsVP9
    BY <2>6, GetVideoStatisticsInv
  <2>7. CASE BlocksFinished
    BY <2>7, UnchangedInv DEF BlocksFinished
  <2>8. CASE UNCHANGED blockVars
    BY <2>8, UnchangedInv
  <2> QED
    BY <2>1, <2>2, <2>3, <2>4, <2>5, <2>6, <2>7, <2>8 DEF BlocksNext
<1> QED
  BY <1>1, BlocksInitInv, PTL DEF BlocksSpec

(* Every variable stays in its type, the border leaves some of the         *)
(* picture, and BlackLine counts no more columns than there are.           *)
THEOREM BlocksTypeCorrect == BlocksSpec => []BlocksTypeOK
  BY BlocksInvariant, BlocksInvTypes, PTL

(* ModeStatistics counts the area of the superblocks, two less for each of *)
(* 8x4 or 4x8: exactly, if the frame is as wide as its superblocks, and    *)
(* never less than the frame has nor more than the superblocks have.       *)
THEOREM AreasAreCounted == BlocksSpec => []AreaCounted
<1>1. BlocksInv => AreaCounted
  BY DEF BlocksInv
<1> QED
  BY <1>1, BlocksInvariant, PTL

(* Every block is skipped, moved or intra, once; only what lies below the  *)
(* frame may be lost, with an inter block smaller than 8x8.                *)
THEOREM BlocksAreClassifiedOnce == BlocksSpec => []ClassifiedOnce
  BY BlocksInvariant, BlocksInvClassifies, PTL

(* FrameQPStatsVP9 averages over some block outside of the border, and     *)
(* BlackLine is only too short for frames narrower than their superblocks  *)
(* are high.                                                               *)
THEOREM BordersAreUsable == BlocksSpec => []BorderUsable
<1>1. BlocksInv => BorderUsable
  BY DEF BlocksInv
<1> QED
  BY <1>1, BlocksInvariant, PTL
=============================================================================
