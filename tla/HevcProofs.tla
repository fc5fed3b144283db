------------------------------ MODULE HevcProofs ------------------------------
(***************************************************************************)
(* Proofs about HevcFrames and HevcBlocks.  Of the frames, for every       *)
(* stream that keeps its promise about the order of output: the types, and *)
(* that every picture is handed out in order, with its own statistics and  *)
(* motion field.  Of the blocks, for every size of the pictures and of     *)
(* their blocks, every quadtree and every mix of coding units: the area    *)
(* that is counted, the types of blocks, the border and the averages.      *)
(***************************************************************************)
EXTENDS HevcFrames, HevcBlocks, SequenceTheorems, OperatorProofs

-----------------------------------------------------------------------------
(* Frames. *)

(* The statistics of picture i when all its slice segments are decoded. *)
Done(i) == <<i, Pic(i).slices>>

(* Picture a is displayed before picture b. *)
Before(a, b) ==
  \/ SequenceOf(a) < SequenceOf(b)
  \/ SequenceOf(a) = SequenceOf(b) /\ Pic(a).poc < Pic(b).poc

(* The pictures behind picture i that are displayed. *)
Following(i) == {j \in i + 1 .. Len(stream.pics) : Displayable(Pic(j))}

(* The pictures that may still be output. *)
ToCome == waiting \cup Following(n)

(* The slice segments are those of a picture that is not skipped. *)
SlicesOf ==
  pc = "slices" =>
    /\ n >= 1 /\ ~Pic(n).skipped /\ slice \in 0 .. Pic(n).slices
    /\ \A k \in DOMAIN handed : handed[k].picture # n

(* The decoder's frames hold what was counted of each picture. *)
StatsOf ==
  \A i \in 1 .. n :
    ~Pic(i).skipped =>
      FrmStat[i] = IF pc = "slices" /\ i = n
                   THEN IF slice = 0 THEN NoStat ELSE <<n, slice>>
                   ELSE Done(i)

(* Pictures wait of the sequence that is output, and of later ones. *)
WaitingOf ==
  \A w \in waiting : Displayable(Pic(w)) /\ SequenceOf(w) >= seq_output

(* What the copy of the picture to be output holds: the statistics of the  *)
(* whole picture, but nothing when it was output at its start and not yet  *)
(* copied again, or never because of the offset.                           *)
OutputOf ==
  /\ pc = "read" => output_frame = NoFrame
  /\ pc = "output" => output_frame # NoFrame
  /\ output_frame # NoFrame =>
       LET p == output_frame.picture IN
       /\ p \in 1 .. n /\ Displayable(Pic(p)) /\ p \notin waiting
       /\ output_frame.own => p = n
       /\ pc = "slices" /\ p = n => output_frame.own
       /\ output_frame.stat = IF output_frame.own /\ (pc = "slices" \/ stream.offset)
                              THEN NoStat ELSE Done(p)

(* The motion fields that will still be read or freed are allocated. *)
FieldsLive ==
  /\ \A w \in waiting : ~(pc = "slices" /\ w = n) => Done(w) \in live
  /\ pc = "slices" /\ slice > 0 => <<n, slice>> \in live
  /\ output_frame.stat # NoStat => output_frame.stat \in live

(* A picture that is not analysed comes without statistics. *)
HandedOf == \A k \in DOMAIN handed : ~handed[k].analysed => handed[k].stat = NoStat

(* The pictures handed out, the one to be output, and those to come are    *)
(* in the order of display.                                                *)
InOrder ==
  /\ \A k, l \in DOMAIN handed : k < l => Before(handed[k].picture, handed[l].picture)
  /\ \A k \in DOMAIN handed : \A b \in ToCome : Before(handed[k].picture, b)
  /\ output_frame # NoFrame =>
       /\ \A k \in DOMAIN handed : Before(handed[k].picture, output_frame.picture)
       /\ \A b \in ToCome : Before(output_frame.picture, b)

(* No picture that is displayed gets lost, unless one behind it discards   *)
(* those that wait.                                                        *)
Complete ==
  \A i \in 1 .. n :
    Displayable(Pic(i)) =>
      \/ i \in waiting \/ i = output_frame.picture \/ Discards(i)
      \/ \E k \in DOMAIN handed : handed[k].picture = i

IInv == TypeOK /\ SlicesOf /\ StatsOf /\ WaitingOf /\ OutputOf /\ FieldsLive /\ HandedOf
        /\ InOrder /\ Complete /\ StatisticsOfPicture /\ FieldsSafe

-----------------------------------------------------------------------------
(* Streams and sequences.                                                  *)

LEMMA StreamTypes ==
  ASSUME stream \in Streams
  PROVE  /\ stream.pics \in Seq(PictureSet) /\ Len(stream.pics) \in Nat
         /\ DOMAIN stream.pics = 1 .. Len(stream.pics)
         /\ stream.reorder \in Nat /\ stream.offset \in BOOLEAN
         /\ \A i \in 1 .. Len(stream.pics) :
              /\ Pic(i) \in PictureSet /\ Pic(i).poc \in Nat /\ Pic(i).slices \in Nat \ {0}
              /\ Pic(i).noPrior \in BOOLEAN /\ Pic(i).shown \in BOOLEAN
              /\ Pic(i).skipped \in BOOLEAN
<1>1. /\ stream.pics \in Seq(PictureSet)
      /\ stream.reorder \in Nat /\ stream.offset \in BOOLEAN
  BY StreamsAssumption
<1>2. Len(stream.pics) \in Nat /\ DOMAIN stream.pics = 1 .. Len(stream.pics)
      /\ \A i \in 1 .. Len(stream.pics) : stream.pics[i] \in PictureSet
  BY <1>1
<1>3. \A q \in PictureSet : /\ q.poc \in Nat /\ q.slices \in Nat \ {0}
                            /\ q.noPrior \in BOOLEAN /\ q.shown \in BOOLEAN
                            /\ q.skipped \in BOOLEAN
  BY DEF PictureSet
<1>4. QED
  BY <1>1, <1>2, <1>3 DEF Pic

(* The number of the sequence does not fall from a picture to a later one. *)
LEMMA SequenceGrows ==
  ASSUME stream \in Streams
  PROVE  \A i, j \in Nat : i <= j => /\ SequenceOf(i) \in Nat /\ SequenceOf(j) \in Nat
                                     /\ SequenceOf(i) <= SequenceOf(j)
<1> SUFFICES ASSUME NEW i \in Nat, NEW j \in Nat, i <= j
             PROVE  /\ SequenceOf(i) \in Nat /\ SequenceOf(j) \in Nat
                    /\ SequenceOf(i) <= SequenceOf(j)
  OBVIOUS
<1> DEFINE Starts(k) == {l \in 1 .. k : stream.pics[l].start}
<1>1. IsFiniteSet(1 .. j)
  BY FS_Interval
<1>2. Starts(i) \subseteq Starts(j) /\ Starts(j) \subseteq 1 .. j
  OBVIOUS
<1>3. IsFiniteSet(Starts(j)) /\ IsFiniteSet(Starts(i))
  BY <1>1, <1>2, FS_Subset
<1>4. Cardinality(Starts(i)) \in Nat /\ Cardinality(Starts(j)) \in Nat
      /\ Cardinality(Starts(i)) <= Cardinality(Starts(j))
  BY <1>2, <1>3, FS_Subset, FS_CardinalityType
<1>5. QED
  BY <1>4 DEF SequenceOf, SequenceIn

(* The motion fields of a stream. *)
LEMMA FieldOf ==
  ASSUME stream \in Streams
  PROVE  /\ \A i \in 1 .. Len(stream.pics) : \A k \in 1 .. Pic(i).slices : <<i, k>> \in Fields
         /\ NoStat \notin Fields
         /\ \A i \in 1 .. Len(stream.pics) : Done(i) \in Fields /\ Done(i) # NoStat
<1>1. DOMAIN stream.pics = 1 .. Len(stream.pics)
  BY StreamTypes
<1>2. ASSUME NEW i \in 1 .. Len(stream.pics), NEW k \in 1 .. Pic(i).slices
      PROVE  <<i, k>> \in Fields
  BY <1>1 DEF Fields
<1>3. NoStat \notin Fields
  <2> SUFFICES ASSUME NEW i \in 1 .. Len(stream.pics), NoStat \in {i} \X (1 .. Pic(i).slices)
               PROVE  FALSE
    BY <1>1 DEF Fields
  <2>1. i = 0
    BY DEF NoStat
  <2>2. QED
    BY <2>1
<1>4. ASSUME NEW i \in 1 .. Len(stream.pics)
      PROVE  Done(i) \in Fields
  <2>1. Pic(i).slices \in 1 .. Pic(i).slices
    BY StreamTypes
  <2>2. QED
    BY <1>2, <2>1 DEF Done
<1>5. QED
  BY <1>2, <1>3, <1>4

(* Of two pictures of a sequence, a later one and one decoded before it,   *)
(* the order of display is strict; and when more than stream.reorder       *)
(* pictures that were decoded before it have at least the POC of one of    *)
(* them, that one is displayed first.                                      *)
LEMMA ReorderFacts ==
  ASSUME stream \in Streams, NEW b \in 1 .. Len(stream.pics), Displayable(Pic(b)),
         NEW W \in SUBSET (1 .. b - 1),
         \A j \in W : Displayable(Pic(j)) /\ SequenceOf(j) = SequenceOf(b)
  PROVE  /\ \A j \in W : Pic(j).poc # Pic(b).poc
         /\ \A a \in W : /\ Cardinality(W) > stream.reorder
                         /\ \A k \in W : Pic(a).poc <= Pic(k).poc
                         => Pic(a).poc < Pic(b).poc
<1> DEFINE before == {j \in 1 .. b - 1 : /\ Displayable(stream.pics[j])
                                         /\ SequenceIn(stream.pics, j) = SequenceIn(stream.pics, b)}
           above  == {j \in before : stream.pics[j].poc > stream.pics[b].poc}
<1>1. b \in DOMAIN stream.pics
  BY StreamTypes
<1>2. /\ \A j \in before : stream.pics[j].poc # stream.pics[b].poc
      /\ Cardinality(above) <= stream.reorder
  BY <1>1, ReorderAssumption DEF Pic
<1>3. W \subseteq before
  BY DEF Pic, SequenceOf
<1>4. \A j \in W : Pic(j).poc # Pic(b).poc
  BY <1>2, <1>3 DEF Pic
<1>5. ASSUME NEW a \in W, Cardinality(W) > stream.reorder,
             \A k \in W : Pic(a).poc <= Pic(k).poc, ~(Pic(a).poc < Pic(b).poc)
      PROVE  FALSE
  <2>1. \A k \in 1 .. Len(stream.pics) : Pic(k).poc \in Nat
    BY StreamTypes
  <2>2. \A k \in W : k \in 1 .. Len(stream.pics)
    BY StreamTypes
  <2>3. \A k \in W : Pic(k).poc > Pic(b).poc
    BY <1>4, <1>5, <2>1, <2>2
  <2>4. W \subseteq above
    BY <1>3, <2>3 DEF Pic
  <2>5. IsFiniteSet(above)
    <3>1. IsFiniteSet(1 .. b - 1) /\ above \subseteq 1 .. b - 1
      BY FS_Interval
    <3>2. QED
      BY <3>1, FS_Subset
  <2>6. Cardinality(W) <= Cardinality(above) /\ Cardinality(W) \in Nat /\ Cardinality(above) \in Nat
    BY <2>4, <2>5, FS_Subset, FS_CardinalityType
  <2>7. stream.reorder \in Nat
    BY StreamTypes
  <2> HIDE DEF above
  <2>8. QED
    BY <1>2, <1>5, <2>6, <2>7
<1>6. QED
  BY <1>4, <1>5

-----------------------------------------------------------------------------
(* What ff_hevc_output_frame outputs.                                      *)

(* Pictures of W wait when picture i is the latest one. *)
Waiting(W, i, flush) ==
  /\ stream \in Streams /\ seq_output \in Nat
  /\ i \in 1 .. Len(stream.pics) /\ seq_output <= SequenceOf(i)
  /\ flush => i = Len(stream.pics)
  /\ W \subseteq 1 .. i
  /\ \A w \in W : Displayable(Pic(w)) /\ SequenceOf(w) >= seq_output

(* Picture p is output: before those that wait on, and those behind i. *)
Outputs(W, stats, i, flush, p) ==
  /\ p \in W \ waiting'
  /\ output_frame' = [picture |-> p, stat |-> stats[p], own |-> ~flush /\ p = i]
  /\ \A b \in waiting' \cup Following(i) : Before(p, b)

OutputEffect(W, stats, i, flush) ==
  /\ seq_output' \in seq_output .. SequenceOf(i)
  /\ waiting' \subseteq W
  /\ \A w \in waiting' : SequenceOf(w) >= seq_output'
  /\ \A w \in W \ waiting' : Discards(w) \/ w = output_frame'.picture
  /\ output_frame' = NoFrame \/ \E p \in W : Outputs(W, stats, i, flush, p)

(* The first sequence of which a picture waits, or that of picture i. *)
IsFirst(W, i, q) ==
  /\ q \in seq_output .. SequenceOf(i)
  /\ OfSequence(W, q) # {} \/ q = SequenceOf(i)
  /\ \A r \in seq_output .. q - 1 : OfSequence(W, r) = {}

LEMMA FirstSequence ==
  ASSUME NEW W, NEW i, stream \in Streams, seq_output \in Nat, i \in Nat,
         seq_output <= SequenceOf(i)
  PROVE  \E q : IsFirst(W, i, q)
<1> DEFINE T == {s \in seq_output .. SequenceOf(i) : OfSequence(W, s) # {} \/ s = SequenceOf(i)}
<1>1. SequenceOf(i) \in Nat
  BY SequenceGrows
<1>2. T \in SUBSET Nat /\ SequenceOf(i) \in T
  BY <1>1
<1>3. PICK q \in T : \A r \in T : q <= r
  BY <1>2, LeastElement
<1>4. ASSUME NEW r \in seq_output .. q - 1, OfSequence(W, r) # {}
      PROVE  FALSE
  <2>1. r \in seq_output .. SequenceOf(i) /\ r < q
    BY <1>1, <1>2, <1>3
  <2>2. r \in T
    BY <1>4, <2>1
  <2>3. QED
    BY <1>2, <1>3, <2>1, <2>2
<1>5. QED
  BY <1>3, <1>4 DEF IsFirst

(* The picture of the lowest POC. *)
IsLowest(W, p) == p \in W /\ \A k \in W : Pic(p).poc <= Pic(k).poc

LEMMA LowestPicture ==
  ASSUME stream \in Streams, NEW W \in SUBSET (1 .. Len(stream.pics)), W # {}
  PROVE  \E p \in W : IsLowest(W, p)
<1> DEFINE T == {Pic(k).poc : k \in W}
<1>1. T \in SUBSET Nat /\ T # {}
  BY StreamTypes
<1>2. PICK x \in T : \A y \in T : x <= y
  BY <1>1, LeastElement
<1>3. PICK p \in W : x = Pic(p).poc
  OBVIOUS
<1>4. QED
  BY <1>2, <1>3 DEF IsLowest

LEMMA OutputFacts ==
  ASSUME NEW W, NEW stats, NEW i, NEW flush \in BOOLEAN, Waiting(W, i, flush),
         ff_hevc_output_frame(W, stats, i, flush)
  PROVE  OutputEffect(W, stats, i, flush)
<1> DEFINE kept   == Kept(W, i)
           q      == CHOOSE s \in seq_output .. SequenceOf(i) :
                       /\ OfSequence(kept, s) # {} \/ s = SequenceOf(i)
                       /\ \A r \in seq_output .. s - 1 : OfSequence(kept, r) = {}
           of     == OfSequence(kept, q)
           lowest == CHOOSE j \in OfSequence(kept, q) :
                       \A k \in OfSequence(kept, q) : Pic(j).poc <= Pic(k).poc
           passed == {j \in W \ kept : SequenceOf(j) <= q}
           out    == OfSequence(kept, q) # {} /\ (flush \/ ~Waits(kept, q, i))
<1>1. /\ seq_output' = q
      /\ waiting' = (W \ passed) \ (IF out THEN {lowest} ELSE {})
      /\ output_frame' = IF out THEN [picture |-> lowest, stat |-> stats[lowest],
                                      own |-> ~flush /\ lowest = i]
                         ELSE NoFrame
  BY Zenon DEF ff_hevc_output_frame
<1>2. /\ stream \in Streams /\ seq_output \in Nat
      /\ i \in 1 .. Len(stream.pics) /\ seq_output <= SequenceOf(i)
      /\ flush => i = Len(stream.pics)
      /\ W \subseteq 1 .. i
      /\ \A w \in W : Displayable(Pic(w)) /\ SequenceOf(w) >= seq_output
  BY DEF Waiting
<1>3. /\ i \in Nat /\ W \subseteq 1 .. Len(stream.pics) /\ W \subseteq Nat
      /\ \A w \in W : w \in 1 .. i /\ SequenceOf(w) \in Nat /\ SequenceOf(w) <= SequenceOf(i)
      /\ SequenceOf(i) \in Nat
  <2>1. i \in Nat /\ i <= Len(stream.pics) /\ Len(stream.pics) \in Nat
    BY <1>2, StreamTypes
  <2>2. W \subseteq 1 .. Len(stream.pics) /\ \A w \in W : w \in 1 .. i /\ w \in Nat /\ w <= i
    BY <1>2, <2>1
  <2>3. QED
    BY <1>2, <2>1, <2>2, SequenceGrows
<1>4. /\ kept \subseteq W
      /\ \A w \in W \ kept : Pic(i).noPrior /\ Pic(w).poc # Pic(i).poc
  BY DEF Kept
<1>5. IsFirst(kept, i, q)
  <2>1. \E s : IsFirst(kept, i, s)
    BY <1>2, <1>3, FirstSequence
  <2> HIDE DEF kept
  <2>2. QED
    BY <2>1, Zenon DEF IsFirst
<1>6. /\ q \in seq_output .. SequenceOf(i) /\ q \in Nat
      /\ \A r \in seq_output .. q - 1 : OfSequence(kept, r) = {}
  BY <1>2, <1>3, <1>5, SMTT(30) DEF IsFirst
<1>7. of \subseteq kept /\ \A j \in of : SequenceOf(j) = q
  BY DEF OfSequence
<1>8. of # {} => IsLowest(of, lowest)
  <2>1. of # {} => \E p \in of : IsLowest(of, p)
    BY <1>2, <1>3, <1>4, <1>7, LowestPicture
  <2> HIDE DEF kept, q
  <2>2. QED
    BY <2>1, Zenon DEF IsLowest
<1>9. \A w \in W : SequenceOf(w) < q => w \notin kept
  <2> SUFFICES ASSUME NEW w \in W, SequenceOf(w) < q, w \in kept PROVE FALSE
    OBVIOUS
  <2>1. SequenceOf(w) \in seq_output .. q - 1
    BY <1>2, <1>3, <1>6
  <2>2. w \in OfSequence(kept, SequenceOf(w))
    BY DEF OfSequence
  <2>3. QED
    BY <1>6, <2>1, <2>2
<1> HIDE DEF kept, q, lowest
<1>10. waiting' \subseteq W /\ \A w \in waiting' : SequenceOf(w) >= q
  BY <1>1, <1>3, <1>6, <1>9
<1>11. ASSUME NEW w \in W \ waiting'
       PROVE  Discards(w) \/ w = output_frame'.picture
  <2>1. CASE w \in passed
    <3>1. Pic(i).noPrior /\ Pic(w).poc # Pic(i).poc
      BY <1>4, <2>1
    <3>2. w \in 1 .. i /\ w # i
      BY <1>3, <3>1
    <3>3. i \in w + 1 .. Len(stream.pics)
      BY <1>2, <3>2, StreamTypes
    <3>4. QED
      BY <3>1, <3>3 DEF Discards
  <2>2. CASE w \notin passed
    <3>1. out /\ w = lowest
      BY <1>1, <2>2
    <3>2. QED
      BY <1>1, <3>1
  <2>3. QED
    BY <2>1, <2>2
<1>12. ASSUME out
       PROVE  Outputs(W, stats, i, flush, lowest)
  <2>1. IsLowest(of, lowest)
    BY <1>8, <1>12
  <2>2. lowest \in of /\ (\A k \in of : Pic(lowest).poc <= Pic(k).poc)
    BY <2>1 DEF IsLowest
  <2>3. lowest \in W /\ SequenceOf(lowest) = q /\ lowest \in kept
    BY <1>4, <1>7, <2>2
  <2>4. lowest \in W \ waiting'
    BY <1>1, <1>12, <2>3
  <2>5. output_frame' = [picture |-> lowest, stat |-> stats[lowest], own |-> ~flush /\ lowest = i]
    BY <1>1, <1>12
  <2>6. ASSUME NEW b \in waiting'
        PROVE  Before(lowest, b)
    <3>1. CASE SequenceOf(b) # q
      BY <1>3, <1>6, <1>10, <2>3, <3>1 DEF Before
    <3>2. CASE SequenceOf(b) = q
      <4>1. b \in kept /\ b # lowest /\ b \in W
        BY <1>1, <1>3, <1>6, <1>12, <3>2
      <4>2. b \in of
        BY <3>2, <4>1 DEF OfSequence
      <4>3. Pic(lowest).poc # Pic(b).poc
        <5>1. ASSUME NEW x \in W, NEW y \in W, x < y, SequenceOf(x) = SequenceOf(y)
              PROVE  Pic(x).poc # Pic(y).poc
          <6>1. y \in 1 .. Len(stream.pics) /\ x \in 1 .. y - 1
            BY <1>2, <1>3, <5>1
          <6>2. \A j \in {x} : Displayable(Pic(j)) /\ SequenceOf(j) = SequenceOf(y)
            BY <1>2, <5>1
          <6>3. \A j \in {x} : Pic(j).poc # Pic(y).poc
            BY <1>2, <6>1, <6>2, ReorderFacts, ZenonT(60)
          <6>4. QED
            BY <6>3
        <5>2. lowest < b \/ b < lowest
          BY <1>3, <2>3, <4>1
        <5>3. QED
          BY <2>3, <3>2, <4>1, <5>1, <5>2
      <4>4. Pic(lowest).poc \in Nat /\ Pic(b).poc \in Nat
        BY <1>2, <1>3, <2>3, <4>1, StreamTypes
      <4>5. QED
        BY <2>2, <2>3, <3>2, <4>2, <4>3, <4>4 DEF Before
    <3>3. QED
      BY <3>1, <3>2
  <2>7. ASSUME NEW b \in Following(i)
        PROVE  Before(lowest, b)
    <3>1. b \in 1 .. Len(stream.pics) /\ b > i /\ Displayable(Pic(b)) /\ b \in Nat /\ ~flush
      BY <1>2, <1>3, StreamTypes DEF Following
    <3>2. SequenceOf(b) \in Nat /\ SequenceOf(b) >= SequenceOf(i)
      BY <1>3, <1>2, <3>1, SequenceGrows
    <3>3. CASE SequenceOf(b) # q
      BY <1>3, <1>6, <2>3, <3>2, <3>3 DEF Before
    <3>4. CASE SequenceOf(b) = q
      <4>1. q = SequenceOf(i) /\ ~Waits(kept, q, i)
        BY <1>3, <1>6, <1>12, <3>1, <3>2, <3>4
      <4>2. ~(Cardinality(of) <= stream.reorder)
        BY <4>1 DEF Waits
      <4>3. of \in SUBSET (1 .. b - 1)
        <5>1. of \subseteq 1 .. i
          BY <1>2, <1>4, <1>7
        <5>2. 1 .. i \subseteq 1 .. b - 1
          BY <1>3, <3>1
        <5>3. QED
          BY <5>1, <5>2
      <4>4. IsFiniteSet(of) /\ Cardinality(of) \in Nat
        <5>1. IsFiniteSet(1 .. b - 1)
          BY <3>1, FS_Interval
        <5> HIDE DEF of
        <5>2. QED
          BY <4>3, <5>1, FS_Subset, FS_CardinalityType
      <4>5. Cardinality(of) > stream.reorder
        BY <1>2, <4>2, <4>4, StreamTypes
      <4>6. \A j \in of : Displayable(Pic(j)) /\ SequenceOf(j) = SequenceOf(b)
        BY <1>2, <1>4, <1>7, <3>4
      <4> HIDE DEF of
      <4>7. Pic(lowest).poc < Pic(b).poc
        BY <1>2, <2>2, <3>1, <4>3, <4>5, <4>6, ReorderFacts
      <4>8. QED
        BY <2>3, <3>4, <4>7 DEF Before
    <3>5. QED
      BY <3>3, <3>4
  <2>8. QED
    BY <2>4, <2>5, <2>6, <2>7 DEF Outputs
<1>13. output_frame' = NoFrame \/ \E p \in W : Outputs(W, stats, i, flush, p)
  <2>1. CASE out
    <3>1. Outputs(W, stats, i, flush, lowest) /\ lowest \in W
      BY <1>12, <2>1 DEF Outputs
    <3>2. QED
      BY <3>1
  <2>2. CASE ~out
    BY <1>1, <2>2
  <2>3. QED
    BY <2>1, <2>2
<1>14. QED
  BY <1>1, <1>6, <1>10, <1>11, <1>13 DEF OutputEffect

-----------------------------------------------------------------------------
(* Types.                                                                  *)

(* The stream does not change, and with it what is said about it alone. *)
LEMMA SameStream ==
  ASSUME stream' = stream
  PROVE  /\ Fields' = Fields /\ Stats' = Stats
         /\ \A i : /\ Pic(i)' = Pic(i) /\ Done(i)' = Done(i) /\ SequenceOf(i)' = SequenceOf(i)
                   /\ Discards(i)' = Discards(i) /\ Following(i)' = Following(i)
         /\ \A a, b : Before(a, b)' = Before(a, b)
<1>1. \A i : /\ Pic(i)' = Pic(i) /\ Done(i)' = Done(i) /\ SequenceOf(i)' = SequenceOf(i)
             /\ Discards(i)' = Discards(i)
  BY DEF Pic, Done, SequenceOf, Discards
<1>2. \A i : Following(i)' = Following(i)
  BY DEF Following, Pic
<1>3. \A a, b : Before(a, b)' = Before(a, b)
  BY DEF Before, Pic, SequenceOf
<1>4. Fields' = Fields
  BY DEF Fields, Pic
<1>5. Stats' = Stats
  BY <1>4 DEF Stats
<1>6. QED
  BY <1>1, <1>2, <1>3, <1>4, <1>5

LEMMA InitTypes ==
  ASSUME Init
  PROVE  TypeOK
<1>1. SequenceOf(0) \in Nat /\ Len(stream.pics) \in Nat
  BY StreamTypes, SequenceGrows DEF Init
<1>2. FrmStat \in [1 .. n -> Stats]
  BY DEF Init
<1>3. output_frame \in [picture : 0 .. n, stat : Stats, own : BOOLEAN]
  BY DEF Init, NoFrame, Stats
<1>4. handed \in Seq([picture : 1 .. n, stat : Stats, own : BOOLEAN, analysed : BOOLEAN])
  BY DEF Init
<1>5. seq_output \in 0 .. SequenceOf(n) /\ n \in 0 .. Len(stream.pics)
  <2>1. n = 0 /\ seq_output = 0
    BY DEF Init
  <2>2. SequenceOf(n) = SequenceOf(0)
    BY <2>1
  <2>3. QED
    BY <1>1, <2>1, <2>2
<1>6. QED
  BY <1>2, <1>3, <1>4, <1>5 DEF Init, TypeOK

(* The types grow with the packets that are read. *)
LEMMA TypesGrow ==
  ASSUME TypeOK, n < Len(stream.pics), n' = n + 1, stream' = stream,
         FrmStat' = Append(FrmStat, NoStat)
  PROVE  /\ n' \in 1 .. Len(stream.pics) /\ n' \in Nat
         /\ FrmStat' \in [1 .. n' -> Stats] /\ FrmStat'[n'] = NoStat
         /\ \A i \in 1 .. n : FrmStat'[i] = FrmStat[i]
         /\ waiting \subseteq 1 .. n'
         /\ 0 .. n \subseteq 0 .. n'
         /\ SequenceOf(n) \in Nat /\ SequenceOf(n') \in Nat /\ SequenceOf(n) <= SequenceOf(n')
         /\ handed \in Seq([picture : 1 .. n', stat : Stats, own : BOOLEAN, analysed : BOOLEAN])
<1>1. Len(stream.pics) \in Nat /\ n \in Nat /\ n' \in 1 .. Len(stream.pics) /\ n' \in Nat /\ n <= n'
  BY StreamTypes DEF TypeOK
<1>2. FrmStat \in [1 .. n -> Stats] /\ NoStat \in Stats
  BY DEF TypeOK, Stats
<1>3. Len(FrmStat) = n /\ FrmStat \in Seq(Stats)
  BY <1>1, <1>2
<1>4. /\ FrmStat' \in [1 .. n' -> Stats] /\ FrmStat'[n'] = NoStat
      /\ \A i \in 1 .. n : FrmStat'[i] = FrmStat[i]
  <2> DEFINE F == Append(FrmStat, NoStat)
  <2>a. NoStat \in Stats
    BY <1>2
  <2> HIDE DEF NoStat, Stats
  <2>b. F \in Seq(Stats) /\ Len(F) = n + 1 /\ F[n + 1] = NoStat
    BY <1>1, <1>3, <2>a
  <2>1. FrmStat' \in Seq(Stats) /\ Len(FrmStat') = n' /\ FrmStat'[n'] = NoStat
    BY <2>b
  <2>2. \A i \in 1 .. n : FrmStat'[i] = FrmStat[i]
    BY <1>3
  <2>3. FrmStat' \in [1 .. n' -> Stats]
    BY <2>1, LenProperties
  <2>4. QED
    BY <2>1, <2>2, <2>3
<1>5. handed \in Seq([picture : 1 .. n', stat : Stats, own : BOOLEAN, analysed : BOOLEAN])
  <2> DEFINE R(m) == [picture : 1 .. m, stat : Stats, own : BOOLEAN, analysed : BOOLEAN]
  <2>1. 1 .. n \subseteq 1 .. n'
    BY <1>1
  <2>2. R(n) \subseteq R(n')
    BY <2>1
  <2>3. handed \in Seq(R(n))
    BY DEF TypeOK
  <2> HIDE DEF R
  <2>4. handed \in Seq(R(n'))
    BY <2>2, <2>3
  <2>5. QED
    BY <2>4 DEF R
<1>6. SequenceOf(n) \in Nat /\ SequenceOf(n') \in Nat /\ SequenceOf(n) <= SequenceOf(n')
  BY <1>1, SequenceGrows DEF TypeOK
<1>7. waiting \subseteq 1 .. n' /\ 0 .. n \subseteq 0 .. n'
  BY <1>1 DEF TypeOK
<1>8. QED
  BY <1>1, <1>4, <1>5, <1>6, <1>7

LEMMA SkipTypes ==
  ASSUME TypeOK, SkipPacket
  PROVE  TypeOK'
<1>1. /\ n < Len(stream.pics) /\ n' = n + 1 /\ stream' = stream
      /\ FrmStat' = Append(FrmStat, NoStat)
      /\ UNCHANGED <<slice, waiting, seq_output, output_frame, pc, Started, FrameIdx,
                     live, misused, handed>>
  BY DEF SkipPacket
<1>2. Stats' = Stats /\ Fields' = Fields /\ \A i : SequenceOf(i)' = SequenceOf(i)
  BY <1>1, SameStream
<1>3. output_frame \in [picture : 0 .. n', stat : Stats, own : BOOLEAN]
  BY <1>1, TypesGrow DEF TypeOK
<1>4. seq_output' \in 0 .. SequenceOf(n')
  BY <1>1, TypesGrow DEF TypeOK
<1>5. SequenceOf(n)' = SequenceOf(n')
  BY <1>1 DEF SequenceOf
<1>6. QED
  BY <1>1, <1>2, <1>3, <1>4, <1>5, TypesGrow DEF TypeOK

(* What ff_hevc_output_frame leaves is in its types. *)
LEMMA OutputTypes ==
  ASSUME NEW W, NEW stats, NEW i, NEW flush \in BOOLEAN, Waiting(W, i, flush),
         OutputEffect(W, stats, i, flush), stats \in [1 .. i -> Stats]
  PROVE  /\ waiting' \subseteq 1 .. i /\ seq_output' \in 0 .. SequenceOf(i)
         /\ output_frame' \in [picture : 0 .. i, stat : Stats, own : BOOLEAN]
<1>1. i \in Nat /\ W \subseteq 1 .. i /\ seq_output \in Nat /\ SequenceOf(i) \in Nat
  BY StreamTypes, SequenceGrows DEF Waiting
<1>2. seq_output' \in 0 .. SequenceOf(i) /\ waiting' \subseteq 1 .. i
  BY <1>1 DEF OutputEffect
<1>3. CASE output_frame' = NoFrame
  BY <1>1, <1>2, <1>3 DEF NoFrame, Stats
<1>4. CASE output_frame' # NoFrame
  <2>1. PICK p \in W : output_frame' = [picture |-> p, stat |-> stats[p], own |-> ~flush /\ p = i]
    BY <1>4 DEF OutputEffect, Outputs
  <2>2. p \in 0 .. i /\ stats[p] \in Stats /\ (~flush /\ p = i) \in BOOLEAN
    BY <1>1
  <2>3. QED
    BY <1>2, <2>1, <2>2
<1>5. QED
  BY <1>3, <1>4

(* What the start of a picture changes. *)
StartEffect(W, stats) ==
  /\ pc = "read" /\ n < Len(stream.pics) /\ n' = n + 1 /\ slice' = 0 /\ pc' = "slices"
  /\ ~Pic(n + 1).skipped
  /\ FrmStat' = Append(FrmStat, NoStat) /\ stats = FrmStat'
  /\ W = waiting \cup (IF Displayable(Pic(n + 1)) THEN {n + 1} ELSE {})
  /\ stream' = stream
  /\ UNCHANGED <<Started, FrameIdx, live, misused, handed>>
  /\ Waiting(W, n', FALSE) /\ OutputEffect(W, stats, n', FALSE)

LEMMA StartStep ==
  ASSUME TypeOK, WaitingOf, hevc_frame_start
  PROVE  \E W, stats : StartEffect(W, stats)
<1>1. /\ pc = "read" /\ n < Len(stream.pics) /\ n' = n + 1 /\ slice' = 0 /\ pc' = "slices"
      /\ ~Pic(n + 1).skipped
      /\ FrmStat' = Append(FrmStat, NoStat) /\ stream' = stream
      /\ UNCHANGED <<Started, FrameIdx, live, misused, handed>>
  BY DEF hevc_frame_start
<1>2. PICK W : W = waiting \cup (IF Pic(n + 1).shown THEN {n + 1} ELSE {})
  OBVIOUS
<1>3. PICK stats : stats = FrmStat'
  OBVIOUS
<1>4. PICK i : i = n + 1
  OBVIOUS
<1>5. ff_hevc_output_frame(W, stats, i, FALSE)
  BY <1>2, <1>3, <1>4 DEF hevc_frame_start
<1>6. W = waiting \cup (IF Displayable(Pic(n + 1)) THEN {n + 1} ELSE {})
  <2>1. Pic(n + 1).shown <=> Displayable(Pic(n + 1))
    BY <1>1 DEF Displayable
  <2>2. QED
    BY <1>2, <2>1
<1>7. Waiting(W, i, FALSE)
  <2>1. /\ n \in Nat /\ i \in 1 .. Len(stream.pics) /\ waiting \subseteq 1 .. i
        /\ SequenceOf(n) \in Nat /\ SequenceOf(i) \in Nat /\ SequenceOf(n) <= SequenceOf(i)
    <3>1. n \in Nat /\ i = n'
      BY <1>1, <1>4 DEF TypeOK
    <3>2. QED
      BY <1>1, <3>1, TypesGrow
  <2>2. seq_output \in Nat /\ seq_output <= SequenceOf(i) /\ stream \in Streams
    BY <2>1 DEF TypeOK
  <2>3. W \subseteq 1 .. i
    BY <1>2, <1>4, <2>1
  <2>4. \A w \in W : Displayable(Pic(w)) /\ SequenceOf(w) >= seq_output
    BY <1>4, <1>6, <2>2, <2>1 DEF WaitingOf
  <2>5. QED
    BY <2>1, <2>2, <2>3, <2>4 DEF Waiting
<1>8. OutputEffect(W, stats, i, FALSE)
  BY <1>5, <1>7, OutputFacts
<1>9. QED
  BY <1>1, <1>3, <1>4, <1>6, <1>7, <1>8 DEF StartEffect

LEMMA StartTypes ==
  ASSUME TypeOK, NEW W, NEW stats, StartEffect(W, stats)
  PROVE  TypeOK'
<1>1. /\ n < Len(stream.pics) /\ n' = n + 1 /\ stream' = stream
      /\ FrmStat' = Append(FrmStat, NoStat) /\ stats = FrmStat' /\ slice' = 0 /\ pc' = "slices"
      /\ UNCHANGED <<Started, FrameIdx, live, misused, handed>>
      /\ Waiting(W, n', FALSE) /\ OutputEffect(W, stats, n', FALSE)
  BY DEF StartEffect
<1>2. Stats' = Stats /\ Fields' = Fields
  BY <1>1, SameStream
<1>3. stats \in [1 .. n' -> Stats] /\ n' \in 1 .. Len(stream.pics)
  BY <1>1, TypesGrow
<1>4. PICK i : i = n'
  OBVIOUS
<1>5. /\ waiting' \subseteq 1 .. i /\ seq_output' \in 0 .. SequenceOf(i)
      /\ output_frame' \in [picture : 0 .. i, stat : Stats, own : BOOLEAN]
  BY <1>1, <1>3, <1>4, OutputTypes
<1>6. SequenceOf(n)' = SequenceOf(i)
  BY <1>1, <1>4 DEF SequenceOf
<1>7. QED
  BY <1>1, <1>2, <1>3, <1>4, <1>5, <1>6, TypesGrow DEF TypeOK

(* Pictures are counted from 1 when their slice segments are decoded. *)
LEMMA CurrentPicture ==
  ASSUME TypeOK, SlicesOf, pc = "slices"
  PROVE  /\ n \in Nat /\ n \in 1 .. n /\ n \in 1 .. Len(stream.pics)
         /\ slice \in Nat /\ Pic(n).slices \in Nat
         /\ 1 .. n \subseteq 1 .. Len(stream.pics)
  BY StreamTypes DEF TypeOK, SlicesOf

LEMMA DecodeTypes ==
  ASSUME TypeOK, SlicesOf, DecodeSlice
  PROVE  TypeOK'
<1>1. /\ pc = "slices" /\ slice < Pic(n).slices /\ slice' = slice + 1
      /\ FrmStat' = [FrmStat EXCEPT ![n] = <<n, slice + 1>>]
      /\ misused' = misused \cup ({FrmStat[n]} \ (live \cup {NoStat}))
      /\ live' = (live \ {FrmStat[n]}) \cup {FrmStat'[n]} /\ stream' = stream
      /\ UNCHANGED <<n, waiting, seq_output, output_frame, pc, Started, FrameIdx, handed>>
  BY DEF DecodeSlice, InitStatisticsHEVC
<1>2. Stats' = Stats /\ Fields' = Fields /\ SequenceOf(n)' = SequenceOf(n)
  BY <1>1, SameStream, Zenon DEF SequenceOf
<1>3. <<n, slice + 1>> \in Fields
  <2>1. n \in 1 .. Len(stream.pics) /\ slice + 1 \in 1 .. Pic(n).slices
    BY <1>1, CurrentPicture
  <2>2. QED
    BY <2>1, FieldOf DEF TypeOK
<1>4. n \in 1 .. n /\ FrmStat \in [1 .. n -> Stats] /\ FrmStat[n] \in Stats
  BY <1>1, CurrentPicture DEF TypeOK
<1>5. FrmStat' \in [1 .. n -> Stats] /\ FrmStat'[n] = <<n, slice + 1>>
  BY <1>1, <1>3, <1>4 DEF Stats
<1>6. live' \subseteq Fields /\ misused' \subseteq Fields
  BY <1>1, <1>3, <1>4, <1>5 DEF TypeOK, Stats
<1>7. QED
  BY <1>1, <1>2, <1>5, <1>6 DEF TypeOK

(* The copy that hevc_decode_frame makes of the statistics again. *)
LEMMA CopiedFrame ==
  ASSUME TypeOK, SlicesOf, EndPacket
  PROVE  /\ output_frame' \in [picture : 0 .. n, stat : Stats, own : BOOLEAN]
         /\ output_frame'.picture = output_frame.picture
         /\ output_frame'.own = output_frame.own
         /\ output_frame'.stat = IF CopiesAgain THEN FrmStat[n] ELSE output_frame.stat
<1>1. output_frame \in [picture : 0 .. n, stat : Stats, own : BOOLEAN]
  BY DEF TypeOK
<1>2. FrmStat[n] \in Stats
  BY CurrentPicture DEF EndPacket, TypeOK
<1>3. output_frame' = IF CopiesAgain THEN [output_frame EXCEPT !.stat = FrmStat[n]] ELSE output_frame
  BY DEF EndPacket
<1>4. QED
  BY <1>1, <1>2, <1>3

LEMMA EndTypes ==
  ASSUME TypeOK, SlicesOf, EndPacket
  PROVE  TypeOK'
<1>1. /\ stream' = stream /\ pc' \in {"read", "output"}
      /\ UNCHANGED <<n, slice, FrmStat, waiting, seq_output, Started, FrameIdx, live, misused, handed>>
  BY DEF EndPacket
<1>2. Stats' = Stats /\ Fields' = Fields /\ SequenceOf(n)' = SequenceOf(n)
  BY <1>1, SameStream, Zenon DEF SequenceOf
<1>3. output_frame' \in [picture : 0 .. n, stat : Stats, own : BOOLEAN]
  BY CopiedFrame
<1>4. QED
  BY <1>1, <1>2, <1>3 DEF TypeOK

(* What the flush changes. *)
FlushEffect(W) ==
  /\ pc = "read" /\ n = Len(stream.pics) /\ W = waiting
  /\ pc' = IF output_frame' = NoFrame THEN "read" ELSE "output"
  /\ stream' = stream
  /\ UNCHANGED <<n, slice, FrmStat, Started, FrameIdx, live, misused, handed>>
  /\ Waiting(W, n, TRUE) /\ OutputEffect(W, FrmStat, n, TRUE)

LEMMA FlushStep ==
  ASSUME TypeOK, WaitingOf, Flush
  PROVE  \E W : FlushEffect(W)
<1>1. /\ pc = "read" /\ n = Len(stream.pics) /\ waiting # {}
      /\ pc' = IF output_frame' = NoFrame THEN "read" ELSE "output"
      /\ stream' = stream
      /\ UNCHANGED <<n, slice, FrmStat, Started, FrameIdx, live, misused, handed>>
  BY DEF Flush
<1>2. PICK W : W = waiting
  OBVIOUS
<1>3. PICK i : i = n
  OBVIOUS
<1>4. PICK stats : stats = FrmStat
  OBVIOUS
<1>5. ff_hevc_output_frame(W, stats, i, TRUE)
  BY <1>2, <1>3, <1>4 DEF Flush
<1>6. Waiting(W, i, TRUE)
  <2>1. /\ stream \in Streams /\ seq_output \in 0 .. SequenceOf(n) /\ n \in Nat
        /\ waiting \subseteq 1 .. n
    BY StreamTypes DEF TypeOK
  <2>2. n \in 1 .. Len(stream.pics)
    <3>1. PICK w : w \in waiting
      BY <1>1
    <3>2. w \in 1 .. n
      BY <2>1, <3>1
    <3>3. QED
      BY <1>1, <2>1, <3>2
  <2>3. SequenceOf(n) \in Nat
    BY <2>1, SequenceGrows
  <2>4. QED
    BY <1>1, <1>2, <1>3, <2>1, <2>2, <2>3 DEF Waiting, WaitingOf
<1>7. OutputEffect(W, stats, i, TRUE)
  BY <1>5, <1>6, OutputFacts
<1>8. QED
  BY <1>1, <1>2, <1>3, <1>4, <1>6, <1>7 DEF FlushEffect

LEMMA FlushTypes ==
  ASSUME TypeOK, NEW W, FlushEffect(W)
  PROVE  TypeOK'
<1>1. /\ stream' = stream /\ pc' \in {"read", "output"}
      /\ UNCHANGED <<n, slice, FrmStat, Started, FrameIdx, live, misused, handed>>
      /\ Waiting(W, n, TRUE) /\ OutputEffect(W, FrmStat, n, TRUE)
  BY DEF FlushEffect
<1>2. Stats' = Stats /\ Fields' = Fields /\ SequenceOf(n)' = SequenceOf(n)
  BY <1>1, SameStream, Zenon DEF SequenceOf
<1>3. /\ waiting' \subseteq 1 .. n /\ seq_output' \in 0 .. SequenceOf(n)
      /\ output_frame' \in [picture : 0 .. n, stat : Stats, own : BOOLEAN]
  BY <1>1, OutputTypes DEF TypeOK
<1>4. QED
  BY <1>1, <1>2, <1>3 DEF TypeOK

(* What handing out the frame changes, when the client does not crash. *)
HandEffect(given) ==
  /\ pc = "output" /\ pc' = "read"
  /\ given = IF Analysed THEN output_frame.stat ELSE NoStat
  /\ Started' = Analysed /\ FrameIdx' = FrameIdx + 1
  /\ misused' = misused \cup ({given} \ (live \cup {NoStat}))
  /\ live' = live \ {given}
  /\ handed' = Append(handed, [picture |-> output_frame.picture, stat |-> given,
                               own |-> output_frame.own, analysed |-> Analysed])
  /\ output_frame' = NoFrame /\ stream' = stream
  /\ UNCHANGED <<n, slice, FrmStat, waiting, seq_output>>

(* And when it does. *)
CrashEffect ==
  /\ pc = "output" /\ pc' = "crashed" /\ output_frame.stat = NoStat
  /\ stream' = stream
  /\ UNCHANGED <<n, slice, FrmStat, waiting, seq_output, Started, FrameIdx, live, misused,
                 handed, output_frame>>

LEMMA HandStep ==
  ASSUME HandOut
  PROVE  CrashEffect \/ \E given : HandEffect(given)
<1>1. PICK given : given = IF Analysed THEN output_frame.stat ELSE NoStat
  OBVIOUS
<1>2. CASE ReadsField /\ given = NoStat
  <2>1. output_frame.stat = NoStat
    BY <1>1, <1>2 DEF ReadsField
  <2>2. QED
    BY <1>1, <1>2, <2>1 DEF HandOut, CrashEffect
<1>3. CASE ~(ReadsField /\ given = NoStat)
  <2>1. HandEffect(given)
    BY <1>1, <1>3 DEF HandOut, HandEffect
  <2>2. QED
    BY <2>1
<1>4. QED
  BY <1>2, <1>3

(* The record that is added to those the client got. *)
LEMMA HandedGrows ==
  ASSUME TypeOK, OutputOf, NEW given, HandEffect(given)
  PROVE  /\ handed' \in Seq([picture : 1 .. n, stat : Stats, own : BOOLEAN, analysed : BOOLEAN])
         /\ Len(handed) \in Nat /\ DOMAIN handed = 1 .. Len(handed)
         /\ DOMAIN handed' = 1 .. Len(handed) + 1
         /\ \A k \in 1 .. Len(handed) : handed'[k] = handed[k]
         /\ handed'[Len(handed) + 1] =
              [picture |-> output_frame.picture, stat |-> given,
               own |-> output_frame.own, analysed |-> Analysed]
         /\ given \in Stats /\ output_frame # NoFrame
         /\ output_frame \in [picture : 0 .. n, stat : Stats, own : BOOLEAN]
<1> DEFINE R == [picture : 1 .. n, stat : Stats, own : BOOLEAN, analysed : BOOLEAN]
           h == [picture |-> output_frame.picture, stat |-> given,
                 own |-> output_frame.own, analysed |-> Analysed]
<1>1. handed \in Seq(R) /\ output_frame \in [picture : 0 .. n, stat : Stats, own : BOOLEAN]
  BY DEF TypeOK
<1>2. output_frame # NoFrame /\ output_frame.picture \in 1 .. n
  BY DEF HandEffect, OutputOf
<1>3. given \in Stats
  BY <1>1 DEF HandEffect, Stats
<1>4. Analysed \in BOOLEAN
  BY DEF Analysed, Intra, TypeOK
<1>5. h \in R
  BY <1>1, <1>2, <1>3, <1>4
<1>6. handed' = Append(handed, h)
  BY DEF HandEffect
<1> HIDE DEF R, h
<1>7. /\ handed' \in Seq(R) /\ Len(handed') = Len(handed) + 1 /\ Len(handed) \in Nat
      /\ \A k \in 1 .. Len(handed) : handed'[k] = handed[k]
      /\ handed'[Len(handed) + 1] = h
  BY <1>1, <1>5, <1>6, AppendProperties, LenProperties
<1>8. DOMAIN handed = 1 .. Len(handed) /\ DOMAIN handed' = 1 .. Len(handed) + 1
  BY <1>1, <1>7, LenProperties
<1>9. QED
  BY <1>1, <1>2, <1>3, <1>7, <1>8 DEF R, h

LEMMA HandTypes ==
  ASSUME TypeOK, OutputOf, NEW given, HandEffect(given)
  PROVE  TypeOK'
<1>1. /\ stream' = stream /\ pc' = "read" /\ Started' = Analysed /\ FrameIdx' = FrameIdx + 1
      /\ misused' = misused \cup ({given} \ (live \cup {NoStat})) /\ live' = live \ {given}
      /\ output_frame' = NoFrame
      /\ UNCHANGED <<n, slice, FrmStat, waiting, seq_output>>
  BY DEF HandEffect
<1>2. Stats' = Stats /\ Fields' = Fields /\ SequenceOf(n)' = SequenceOf(n)
  BY <1>1, SameStream, Zenon DEF SequenceOf
<1>3. handed' \in Seq([picture : 1 .. n, stat : Stats, own : BOOLEAN, analysed : BOOLEAN])
      /\ given \in Stats
  BY HandedGrows
<1>4. Analysed \in BOOLEAN /\ FrameIdx + 1 \in Nat
  BY DEF Analysed, Intra, TypeOK
<1>5. live' \subseteq Fields /\ misused' \subseteq Fields
  BY <1>1, <1>3 DEF TypeOK, Stats
<1>6. NoFrame \in [picture : 0 .. n, stat : Stats, own : BOOLEAN]
  BY StreamTypes DEF NoFrame, Stats, TypeOK
<1>7. QED
  BY <1>1, <1>2, <1>3, <1>4, <1>5, <1>6 DEF TypeOK

LEMMA CrashTypes ==
  ASSUME TypeOK, CrashEffect
  PROVE  TypeOK'
<1>1. /\ stream' = stream /\ pc' = "crashed"
      /\ UNCHANGED <<n, slice, FrmStat, waiting, seq_output, Started, FrameIdx, live, misused,
                     handed, output_frame>>
  BY DEF CrashEffect
<1>2. Stats' = Stats /\ Fields' = Fields /\ SequenceOf(n)' = SequenceOf(n)
  BY <1>1, SameStream, Zenon DEF SequenceOf
<1>3. QED
  BY <1>1, <1>2 DEF TypeOK

-----------------------------------------------------------------------------
(* The invariant.                                                          *)

LEMMA InitInv ==
  ASSUME Init
  PROVE  IInv
<1>1. TypeOK
  BY InitTypes
<1>2. n = 0 /\ waiting = {} /\ pc = "read" /\ output_frame = NoFrame /\ live = {} /\ misused = {}
      /\ handed = <<>> /\ seq_output = 0
  BY DEF Init
<1>3. DOMAIN handed = {} /\ 1 .. n = {}
  BY <1>2
<1>4. SlicesOf /\ StatsOf /\ WaitingOf /\ HandedOf /\ Complete /\ StatisticsOfPicture
  BY <1>2, <1>3 DEF SlicesOf, StatsOf, WaitingOf, HandedOf, Complete, StatisticsOfPicture
<1>5. OutputOf /\ FieldsLive /\ InOrder /\ FieldsSafe
  <2>1. output_frame.stat = NoStat
    BY <1>2 DEF NoFrame
  <2>2. QED
    BY <1>2, <1>3, <2>1 DEF OutputOf, FieldsLive, InOrder, FieldsSafe
<1>6. QED
  BY <1>1, <1>4, <1>5 DEF IInv

LEMMA HandedPictures ==
  ASSUME TypeOK
  PROVE  \A k \in DOMAIN handed : handed[k].picture \in 1 .. n
<1> DEFINE R == [picture : 1 .. n, stat : Stats, own : BOOLEAN, analysed : BOOLEAN]
<1>1. handed \in Seq(R) /\ \A h \in R : h.picture \in 1 .. n
  BY DEF TypeOK
<1> HIDE DEF R
<1>2. \A k \in DOMAIN handed : handed[k] \in R
  BY <1>1, LenProperties, ElementOfSeq
<1>3. QED
  BY <1>1, <1>2

(* What is said of the pictures handed out does not change with the rest.  *)
LEMMA HandedKept ==
  ASSUME HandedOf, StatisticsOfPicture, stream' = stream, handed' = handed
  PROVE  HandedOf' /\ StatisticsOfPicture'
  BY DEF HandedOf, StatisticsOfPicture, Pic

(* The order is kept when nothing more is to come, and what is now output  *)
(* comes between what was handed out and what is to come.                  *)
LEMMA OrderKept ==
  ASSUME InOrder, stream' = stream, handed' = handed,
         waiting' \cup Following(n') \subseteq ToCome,
         output_frame' # NoFrame =>
           /\ \A k \in DOMAIN handed : Before(handed[k].picture, output_frame'.picture)
           /\ \A b \in waiting' \cup Following(n') : Before(output_frame'.picture, b)
  PROVE  InOrder'
<1>1. ToCome' = waiting' \cup Following(n')
  BY DEF ToCome, Following, Pic
<1>2. /\ \A k, l \in DOMAIN handed' : k < l => Before(handed'[k].picture, handed'[l].picture)
      /\ \A k \in DOMAIN handed' : \A b \in ToCome' : Before(handed'[k].picture, b)
      /\ output_frame' # NoFrame =>
           /\ \A k \in DOMAIN handed' : Before(handed'[k].picture, output_frame'.picture)
           /\ \A b \in ToCome' : Before(output_frame'.picture, b)
  BY <1>1 DEF InOrder
<1>3. NoFrame' = NoFrame
  BY DEF NoFrame, NoStat
<1>4. QED
  BY <1>2, <1>3 DEF InOrder, Before, SequenceOf, Pic

(* Only earlier pictures are followed by a picture more. *)
LEMMA FollowingShrinks ==
  ASSUME NEW i \in Int
  PROVE  /\ Following(i + 1) \subseteq Following(i) /\ i \notin Following(i)
         /\ i + 1 \notin Following(i + 1)
         /\ (i + 1 \in 1 .. Len(stream.pics) /\ Displayable(Pic(i + 1))) => i + 1 \in Following(i)
  BY DEF Following

LEMMA SkipInv ==
  ASSUME IInv, SkipPacket
  PROVE  IInv'
<1>1. /\ pc = "read" /\ n < Len(stream.pics) /\ n' = n + 1 /\ stream' = stream
      /\ Pic(n + 1).skipped /\ FrmStat' = Append(FrmStat, NoStat)
      /\ UNCHANGED <<slice, waiting, seq_output, output_frame, pc, Started, FrameIdx,
                     live, misused, handed>>
  BY DEF SkipPacket
<1>2. TypeOK /\ TypeOK'
  BY SkipTypes DEF IInv
<1>3. /\ n \in Int /\ n' \in Nat
      /\ \A i \in 1 .. n' : i = n' \/ (i \in 1 .. n /\ FrmStat'[i] = FrmStat[i])
  BY <1>1, <1>2, TypesGrow DEF TypeOK
<1>4. ~Displayable(Pic(n')) /\ Pic(n').skipped
  BY <1>1 DEF Displayable
<1>5. SlicesOf' /\ WaitingOf' /\ HandedOf' /\ StatisticsOfPicture'
  BY <1>1, HandedKept, SameStream DEF IInv, SlicesOf, WaitingOf
<1>6. StatsOf'
  <2> SUFFICES ASSUME NEW i \in 1 .. n', ~Pic(i).skipped
               PROVE  FrmStat'[i] = Done(i)
    BY <1>1, SameStream DEF StatsOf
  <2>1. i \in 1 .. n /\ FrmStat'[i] = FrmStat[i]
    BY <1>3, <1>4
  <2>2. QED
    BY <1>1, <2>1 DEF IInv, StatsOf
<1>7. OutputOf'
  BY <1>1 DEF IInv, OutputOf
<1>8. FieldsLive'
  BY <1>1, SameStream DEF IInv, FieldsLive
<1>9. InOrder'
  <2>1. output_frame' = NoFrame
    BY <1>1 DEF IInv, OutputOf
  <2>2. waiting' \cup Following(n') \subseteq ToCome
    BY <1>1, <1>3, FollowingShrinks DEF ToCome
  <2>3. QED
    BY <1>1, <2>1, <2>2, OrderKept DEF IInv
<1>10. Complete'
  <2> SUFFICES ASSUME NEW i \in 1 .. n', Displayable(Pic(i))
               PROVE  \/ i \in waiting \/ i = output_frame.picture \/ Discards(i)
                      \/ \E k \in DOMAIN handed : handed[k].picture = i
    BY <1>1, SameStream DEF Complete
  <2>1. i \in 1 .. n
    BY <1>3, <1>4
  <2>2. QED
    BY <2>1 DEF IInv, Complete
<1>11. FieldsSafe'
  BY <1>1, SameStream DEF IInv, FieldsSafe
<1>12. QED
  BY <1>2, <1>5, <1>6, <1>7, <1>8, <1>9, <1>10, <1>11 DEF IInv

LEMMA StartInv ==
  ASSUME IInv, NEW W, NEW stats, StartEffect(W, stats)
  PROVE  IInv'
<1>1. /\ pc = "read" /\ n < Len(stream.pics) /\ n' = n + 1 /\ slice' = 0 /\ pc' = "slices"
      /\ ~Pic(n + 1).skipped
      /\ FrmStat' = Append(FrmStat, NoStat) /\ stats = FrmStat'
      /\ W = waiting \cup (IF Displayable(Pic(n + 1)) THEN {n + 1} ELSE {})
      /\ stream' = stream
      /\ UNCHANGED <<Started, FrameIdx, live, misused, handed>>
      /\ Waiting(W, n', FALSE) /\ OutputEffect(W, stats, n', FALSE)
  BY DEF StartEffect
<1>2. TypeOK /\ TypeOK'
  BY StartTypes DEF IInv
<1>3. /\ n \in Int /\ n' \in Nat /\ n' \in 1 .. Len(stream.pics) /\ n' >= 1
      /\ \A i \in 1 .. n' : i = n' \/ (i \in 1 .. n /\ FrmStat'[i] = FrmStat[i])
      /\ FrmStat'[n'] = NoStat /\ n' \notin 1 .. n
  BY <1>1, <1>2, TypesGrow DEF TypeOK
<1>4. output_frame = NoFrame
  BY <1>1 DEF IInv, OutputOf
<1>5. PICK i : i = n'
  OBVIOUS
<1>6. /\ waiting' \subseteq W /\ \A w \in waiting' : SequenceOf(w) >= seq_output'
      /\ \A w \in W \ waiting' : Discards(w) \/ w = output_frame'.picture
      /\ output_frame' = NoFrame \/ \E p \in W : Outputs(W, stats, i, FALSE, p)
      /\ \A w \in W : Displayable(Pic(w)) /\ w \in 1 .. i
  BY <1>1, <1>5 DEF OutputEffect, Waiting
<1>7. W \subseteq ToCome
  <2>1. Displayable(Pic(n + 1)) => n + 1 \in Following(n)
    BY <1>1, <1>3, FollowingShrinks
  <2>2. QED
    BY <1>1, <2>1 DEF ToCome
\* What is output, if anything is.
<1>8. ASSUME output_frame' # NoFrame
      PROVE  LET p == output_frame'.picture IN
             /\ p \in W /\ p \notin waiting' /\ p \in 1 .. i
             /\ output_frame'.stat = stats[p] /\ output_frame'.own = (p = i)
             /\ \A b \in waiting' \cup Following(i) : Before(p, b)
  <2>1. PICK p \in W : Outputs(W, stats, i, FALSE, p)
    BY <1>6, <1>8
  <2>2. /\ output_frame' = [picture |-> p, stat |-> stats[p], own |-> (p = i)]
        /\ p \notin waiting' /\ \A b \in waiting' \cup Following(i) : Before(p, b)
    BY <2>1 DEF Outputs
  <2>3. QED
    BY <1>6, <2>2
<1>9. NoFrame' = NoFrame /\ NoStat' = NoStat /\ NoFrame.stat = NoStat /\ NoFrame.picture = 0
  BY DEF NoFrame, NoStat
<1>10. \A k \in DOMAIN handed : handed[k].picture \in 1 .. n
  BY <1>2, HandedPictures
<1>11. SlicesOf'
  <2>1. Pic(n)' = Pic(i) /\ ~Pic(i).skipped /\ Pic(i).slices \in Nat
    BY <1>1, <1>2, <1>3, <1>5, StreamTypes DEF Pic, TypeOK
  <2>2. \A k \in DOMAIN handed' : handed'[k].picture # n'
    BY <1>1, <1>3, <1>10
  <2>3. QED
    BY <1>1, <1>3, <1>5, <2>1, <2>2 DEF SlicesOf
<1>12. StatsOf'
  <2> SUFFICES ASSUME NEW j \in 1 .. n', ~Pic(j).skipped
               PROVE  FrmStat'[j] = IF j = n' THEN NoStat ELSE Done(j)
    BY <1>1, <1>9, SameStream DEF StatsOf
  <2>1. CASE j \in 1 .. n /\ FrmStat'[j] = FrmStat[j]
    BY <1>1, <1>3, <2>1 DEF IInv, StatsOf
  <2>2. QED
    BY <1>3, <2>1
<1>13. WaitingOf'
  BY <1>1, <1>6, SameStream DEF WaitingOf
<1>14. OutputOf'
  <2> SUFFICES ASSUME output_frame' # NoFrame
               PROVE  LET p == output_frame'.picture IN
                      /\ p \in 1 .. n' /\ Displayable(Pic(p)) /\ p \notin waiting'
                      /\ output_frame'.own => p = n'
                      /\ p = n' => output_frame'.own
                      /\ output_frame'.stat = IF output_frame'.own THEN NoStat ELSE Done(p)
    BY <1>1, <1>9, SameStream DEF OutputOf, Done, Pic
  <2>1. PICK p : p = output_frame'.picture
    OBVIOUS
  <2>2. /\ p \in W /\ p \notin waiting' /\ p \in 1 .. i
        /\ output_frame'.stat = stats[p] /\ output_frame'.own = (p = i)
    BY <1>8, <2>1
  <2>3. Displayable(Pic(p)) /\ ~Pic(p).skipped
    BY <1>6, <2>2 DEF Displayable
  <2>4. stats[p] = IF p = i THEN NoStat ELSE Done(p)
    <3>1. CASE p = i
      BY <1>1, <1>3, <1>5, <3>1
    <3>2. CASE p # i
      <4>1. p \in 1 .. n /\ FrmStat'[p] = FrmStat[p]
        BY <1>3, <1>5, <2>2, <3>2
      <4>2. QED
        BY <1>1, <2>3, <3>2, <4>1 DEF IInv, StatsOf
    <3>3. QED
      BY <3>1, <3>2
  <2>5. QED
    BY <1>5, <2>1, <2>2, <2>3, <2>4
<1>15. FieldsLive'
  <2>1. \A w \in W : w = n' \/ Done(w) \in live
    BY <1>1 DEF IInv, FieldsLive
  <2>2. output_frame'.stat = NoStat \/ output_frame'.stat \in live
    <3>1. CASE output_frame' = NoFrame
      BY <1>9, <3>1
    <3>2. CASE output_frame' # NoFrame
      <4>1. PICK p : p = output_frame'.picture
        OBVIOUS
      <4>2. p \in W /\ p \in 1 .. n' /\ ~Pic(p).skipped /\ output_frame'.stat = stats[p]
        BY <1>5, <1>6, <1>8, <3>2, <4>1 DEF Displayable
      <4>3. CASE p = n'
        BY <1>1, <1>3, <4>2, <4>3
      <4>4. CASE p # n'
        <5>1. p \in 1 .. n /\ FrmStat'[p] = FrmStat[p]
          BY <1>3, <4>2, <4>4
        <5>2. FrmStat[p] = Done(p)
          BY <1>1, <4>2, <5>1 DEF IInv, StatsOf
        <5>3. QED
          BY <1>1, <2>1, <4>2, <4>4, <5>1, <5>2
      <4>5. QED
        BY <4>3, <4>4
    <3>3. QED
      BY <3>1, <3>2
  <2>3. QED
    BY <1>1, <1>6, <1>9, <2>1, <2>2, SameStream DEF FieldsLive
<1>16. InOrder'
  <2>1. waiting' \cup Following(n') \subseteq ToCome
    <3>1. Following(n') \subseteq Following(n)
      BY <1>1, <1>3, FollowingShrinks
    <3>2. QED
      BY <1>6, <1>7, <3>1 DEF ToCome
  <2>2. ASSUME output_frame' # NoFrame
        PROVE  /\ \A k \in DOMAIN handed : Before(handed[k].picture, output_frame'.picture)
               /\ \A b \in waiting' \cup Following(n') : Before(output_frame'.picture, b)
    <3>1. output_frame'.picture \in ToCome
      BY <1>7, <1>8, <2>2
    <3>2. QED
      BY <1>5, <1>8, <2>2, <3>1 DEF IInv, InOrder
  <2>3. QED
    BY <1>1, <2>1, <2>2, OrderKept DEF IInv
<1>17. Complete'
  <2> SUFFICES ASSUME NEW j \in 1 .. n', Displayable(Pic(j))
               PROVE  \/ j \in waiting' \/ j = output_frame'.picture \/ Discards(j)
                      \/ \E k \in DOMAIN handed : handed[k].picture = j
    BY <1>1, SameStream DEF Complete
  <2>1. CASE j \in W
    BY <1>6, <2>1
  <2>2. CASE j \notin W
    <3>1. j \in 1 .. n /\ j \notin waiting
      BY <1>1, <1>3, <2>2
    <3>2. j # output_frame.picture
      BY <1>2, <1>4, <1>9, <3>1 DEF TypeOK
    <3>3. QED
      BY <3>1, <3>2 DEF IInv, Complete
  <2>3. QED
    BY <2>1, <2>2
<1>18. HandedOf' /\ StatisticsOfPicture'
  BY <1>1, HandedKept DEF IInv
<1>19. FieldsSafe'
  BY <1>1 DEF IInv, FieldsSafe
<1>20. QED
  BY <1>2, <1>11, <1>12, <1>13, <1>14, <1>15, <1>16, <1>17, <1>18, <1>19 DEF IInv

LEMMA DecodeInv ==
  ASSUME IInv, DecodeSlice
  PROVE  IInv'
<1>1. /\ pc = "slices" /\ slice < Pic(n).slices /\ slice' = slice + 1
      /\ FrmStat' = [FrmStat EXCEPT ![n] = <<n, slice + 1>>]
      /\ misused' = misused \cup ({FrmStat[n]} \ (live \cup {NoStat}))
      /\ live' = (live \ {FrmStat[n]}) \cup {FrmStat'[n]} /\ stream' = stream
      /\ UNCHANGED <<n, waiting, seq_output, output_frame, pc, Started, FrameIdx, handed>>
  BY DEF DecodeSlice, InitStatisticsHEVC
<1>2. TypeOK /\ TypeOK' /\ SlicesOf
  BY DecodeTypes DEF IInv
<1>3. /\ n \in Nat /\ n \in 1 .. n /\ n \in 1 .. Len(stream.pics)
      /\ slice \in Nat /\ Pic(n).slices \in Nat /\ ~Pic(n).skipped
  BY <1>1, <1>2, CurrentPicture DEF SlicesOf
<1>4. FrmStat[n] = IF slice = 0 THEN NoStat ELSE <<n, slice>>
  BY <1>1, <1>3 DEF IInv, StatsOf
<1>5. /\ FrmStat'[n] = <<n, slice + 1>>
      /\ \A i \in 1 .. n : i # n => FrmStat'[i] = FrmStat[i]
  BY <1>1, <1>2, <1>3 DEF TypeOK
<1>6. /\ FrmStat[n] = NoStat \/ FrmStat[n] \in live
      /\ live \subseteq Fields /\ NoStat \notin Fields /\ NoStat[1] # n
  BY <1>1, <1>2, <1>3, <1>4, FieldOf DEF IInv, FieldsLive, TypeOK, NoStat
<1>7. FrmStat[n] = NoStat \/ FrmStat[n][1] = n
  BY <1>4
<1>8. SlicesOf'
  <2>1. Pic(n)' = Pic(n)
    BY <1>1 DEF Pic
  <2>2. QED
    BY <1>1, <1>2, <1>3, <2>1 DEF SlicesOf
<1>9. StatsOf'
  <2> SUFFICES ASSUME NEW i \in 1 .. n, ~Pic(i).skipped
               PROVE  FrmStat'[i] = IF i = n THEN <<n, slice + 1>> ELSE Done(i)
    BY <1>1, <1>3, SameStream DEF StatsOf
  <2>1. QED
    BY <1>1, <1>5 DEF IInv, StatsOf
<1>10. WaitingOf'
  BY <1>1, SameStream DEF IInv, WaitingOf
<1>11. OutputOf'
  BY <1>1 DEF IInv, OutputOf, Done, Pic, NoFrame, NoStat
\* The fields of other pictures stay.
<1>12. \A i : i # n /\ Done(i) \in live => Done(i) \in live'
  <2> SUFFICES ASSUME NEW i, i # n, Done(i) \in live PROVE Done(i) # FrmStat[n]
    BY <1>1
  <2>1. Done(i)[1] = i
    BY DEF Done
  <2>2. Done(i) # NoStat
    BY <1>6
  <2>3. QED
    BY <1>7, <2>1, <2>2
<1>13. FieldsLive'
  <2>1. \A w \in waiting : w # n => Done(w) \in live'
    BY <1>1, <1>12 DEF IInv, FieldsLive
  <2>2. <<n, slice + 1>> \in live'
    BY <1>1, <1>5
  <2>3. output_frame.stat = NoStat \/ output_frame.stat \in live'
    <3>1. CASE output_frame = NoFrame
      BY <3>1 DEF NoFrame
    <3>2. CASE output_frame # NoFrame /\ output_frame.stat # NoStat
      <4>1. PICK p : p = output_frame.picture
        OBVIOUS
      <4>2. output_frame.stat = Done(p) /\ p # n
        BY <1>1, <3>2, <4>1 DEF IInv, OutputOf
      <4>3. output_frame.stat \in live
        BY <3>2 DEF IInv, FieldsLive
      <4>4. QED
        BY <1>12, <4>2, <4>3
    <3>3. QED
      BY <3>1, <3>2
  <2>4. QED
    BY <1>1, <2>1, <2>2, <2>3, SameStream DEF FieldsLive, NoStat
<1>14. InOrder'
  <2>1. waiting' \cup Following(n') \subseteq ToCome
    BY <1>1 DEF ToCome
  <2>2. QED
    BY <1>1, <2>1, OrderKept DEF IInv, InOrder, ToCome
<1>15. Complete'
  BY <1>1, SameStream DEF IInv, Complete
<1>16. HandedOf' /\ StatisticsOfPicture'
  BY <1>1, HandedKept DEF IInv
<1>17. FieldsSafe'
  <2>1. misused' = {}
    BY <1>1, <1>6 DEF IInv, FieldsSafe
  <2>2. ASSUME NEW k \in DOMAIN handed
        PROVE  handed[k].stat \notin live'
    <3>1. handed[k].stat \notin live /\ handed[k].picture # n
      BY <1>1, <1>2 DEF IInv, FieldsSafe, SlicesOf
    <3>2. handed[k].stat # <<n, slice + 1>>
      <4>1. handed[k].stat = NoStat \/ handed[k].stat = <<handed[k].picture, Pic(handed[k].picture).slices>>
        BY DEF IInv, HandedOf, StatisticsOfPicture
      <4>2. NoStat # <<n, slice + 1>>
        BY <1>3 DEF NoStat
      <4>3. QED
        BY <3>1, <4>1, <4>2
    <3>3. QED
      BY <1>1, <1>5, <3>1, <3>2
  <2>3. QED
    BY <1>1, <2>1, <2>2 DEF FieldsSafe
<1>18. QED
  BY <1>2, <1>8, <1>9, <1>10, <1>11, <1>13, <1>14, <1>15, <1>16, <1>17 DEF IInv

LEMMA EndInv ==
  ASSUME IInv, EndPacket
  PROVE  IInv'
<1>1. /\ pc = "slices" /\ slice = Pic(n).slices /\ stream' = stream
      /\ pc' = IF output_frame = NoFrame THEN "read" ELSE "output"
      /\ output_frame' = IF CopiesAgain THEN [output_frame EXCEPT !.stat = FrmStat[n]] ELSE output_frame
      /\ UNCHANGED <<n, slice, FrmStat, waiting, seq_output, Started, FrameIdx, live, misused, handed>>
  BY DEF EndPacket
<1>2. TypeOK /\ TypeOK' /\ SlicesOf
  BY EndTypes DEF IInv
<1>3. /\ output_frame'.picture = output_frame.picture /\ output_frame'.own = output_frame.own
      /\ output_frame'.stat = IF CopiesAgain THEN FrmStat[n] ELSE output_frame.stat
  BY <1>2, CopiedFrame
<1>4. /\ n \in Nat /\ n \in 1 .. n /\ n \in 1 .. Len(stream.pics) /\ ~Pic(n).skipped
      /\ slice > 0 /\ FrmStat[n] = Done(n) /\ <<n, slice>> = Done(n) /\ Done(n) \in live
      /\ Done(n) # NoStat
  <2>1. /\ n \in Nat /\ n \in 1 .. n /\ n \in 1 .. Len(stream.pics) /\ ~Pic(n).skipped
        /\ slice \in Nat \ {0}
    BY <1>1, <1>2, CurrentPicture, StreamTypes DEF SlicesOf, TypeOK
  <2>2. FrmStat[n] = Done(n) /\ <<n, slice>> = Done(n)
    BY <1>1, <2>1 DEF IInv, StatsOf, Done
  <2>3. Done(n) \in live
    BY <1>1, <2>1, <2>2 DEF IInv, FieldsLive
  <2>4. Done(n) # NoStat
    BY <1>2, <2>1, FieldOf DEF TypeOK
  <2>5. QED
    BY <2>1, <2>2, <2>3, <2>4
<1>5. NoFrame' = NoFrame /\ NoStat' = NoStat /\ NoFrame.stat = NoStat /\ NoFrame.picture = 0
  BY DEF NoFrame, NoStat
<1>6. ~CopiesAgain => output_frame' = output_frame
  BY <1>1
<1>7. output_frame = NoFrame => ~CopiesAgain
  BY <1>4, <1>5 DEF CopiesAgain
<1>8. output_frame # NoFrame =>
        LET p == output_frame.picture IN
        /\ p \in 1 .. n /\ Displayable(Pic(p)) /\ p \notin waiting
        /\ output_frame.own = (p = n)
        /\ output_frame.stat = IF output_frame.own THEN NoStat ELSE Done(p)
  BY <1>1, <1>2 DEF IInv, OutputOf, TypeOK
<1>9. SlicesOf'
  BY <1>1 DEF SlicesOf
<1>10. StatsOf'
  <2> SUFFICES ASSUME NEW i \in 1 .. n, ~Pic(i).skipped
               PROVE  FrmStat[i] = Done(i)
    BY <1>1, SameStream DEF StatsOf
  <2>1. QED
    BY <1>1, <1>4 DEF IInv, StatsOf
<1>11. WaitingOf'
  BY <1>1, SameStream DEF IInv, WaitingOf
<1>12. OutputOf'
  <2>1. CASE output_frame = NoFrame
    BY <1>1, <1>5, <1>6, <1>7, <2>1 DEF OutputOf
  <2>2. CASE output_frame # NoFrame
    <3>1. output_frame' # NoFrame
      BY <1>3, <1>5, <1>8, <2>2
    <3>2. PICK p : p = output_frame.picture
      OBVIOUS
    <3>3. /\ p \in 1 .. n /\ Displayable(Pic(p)) /\ p \notin waiting
          /\ output_frame.own = (p = n)
      BY <1>8, <2>2, <3>2
    <3>4. CopiesAgain <=> p = n /\ ~stream.offset
      BY <3>2 DEF CopiesAgain
    <3>5. output_frame'.stat = IF output_frame.own /\ stream.offset THEN NoStat ELSE Done(p)
      BY <1>3, <1>4, <1>8, <2>2, <3>2, <3>3, <3>4
    <3>6. Done(p)' = Done(p) /\ Pic(p)' = Pic(p)
      BY <1>1, SameStream
    <3>7. /\ p \in 1 .. n' /\ Displayable(Pic(p)') /\ p \notin waiting'
          /\ output_frame'.own => p = n'
          /\ p = output_frame'.picture
          /\ output_frame'.stat = IF output_frame'.own /\ stream'.offset THEN NoStat ELSE Done(p)'
      BY <1>1, <1>3, <3>2, <3>3, <3>5, <3>6
    <3>8. pc' = "output"
      BY <1>1, <2>2
    <3>9. QED
      BY <1>5, <3>1, <3>7, <3>8 DEF OutputOf, Done, Pic
  <2>3. QED
    BY <2>1, <2>2
<1>13. FieldsLive'
  <2>1. \A w \in waiting : Done(w) \in live
    BY <1>1, <1>4 DEF IInv, FieldsLive
  <2>2. output_frame'.stat = NoStat \/ output_frame'.stat \in live
    BY <1>3, <1>4 DEF IInv, FieldsLive
  <2>3. QED
    BY <1>1, <1>5, <2>1, <2>2, SameStream DEF FieldsLive
<1>14. InOrder'
  <2>1. waiting' \cup Following(n') \subseteq ToCome
    BY <1>1 DEF ToCome
  <2>2. output_frame' # NoFrame => output_frame # NoFrame
    BY <1>6, <1>7
  <2>3. QED
    BY <1>1, <1>3, <2>1, <2>2, OrderKept DEF IInv, InOrder, ToCome
<1>15. Complete'
  BY <1>1, <1>3, SameStream DEF IInv, Complete
<1>16. HandedOf' /\ StatisticsOfPicture'
  BY <1>1, HandedKept DEF IInv
<1>17. FieldsSafe'
  BY <1>1 DEF IInv, FieldsSafe
<1>18. QED
  BY <1>2, <1>9, <1>10, <1>11, <1>12, <1>13, <1>14, <1>15, <1>16, <1>17 DEF IInv

LEMMA FlushInv ==
  ASSUME IInv, NEW W, FlushEffect(W)
  PROVE  IInv'
<1>1. /\ pc = "read" /\ n = Len(stream.pics) /\ W = waiting
      /\ pc' = IF output_frame' = NoFrame THEN "read" ELSE "output"
      /\ stream' = stream
      /\ UNCHANGED <<n, slice, FrmStat, Started, FrameIdx, live, misused, handed>>
      /\ Waiting(W, n, TRUE) /\ OutputEffect(W, FrmStat, n, TRUE)
  BY DEF FlushEffect
<1>2. TypeOK /\ TypeOK'
  BY FlushTypes DEF IInv
<1>3. PICK i : i = n
  OBVIOUS
<1>4. PICK stats : stats = FrmStat
  OBVIOUS
<1>5. /\ waiting' \subseteq waiting /\ \A w \in waiting' : SequenceOf(w) >= seq_output'
      /\ \A w \in waiting \ waiting' : Discards(w) \/ w = output_frame'.picture
      /\ output_frame' = NoFrame \/ \E p \in waiting : Outputs(waiting, stats, i, TRUE, p)
      /\ \A w \in waiting : Displayable(Pic(w)) /\ w \in 1 .. n
  BY <1>1, <1>3, <1>4 DEF OutputEffect, Waiting
<1>6. ASSUME output_frame' # NoFrame
      PROVE  LET p == output_frame'.picture IN
             /\ p \in waiting /\ p \notin waiting' /\ p \in 1 .. n
             /\ output_frame'.stat = Done(p) /\ output_frame'.own = FALSE
             /\ \A b \in waiting' \cup Following(n) : Before(p, b)
  <2>1. PICK p \in waiting : Outputs(waiting, stats, i, TRUE, p)
    BY <1>5, <1>6
  <2>2. /\ output_frame' = [picture |-> p, stat |-> FrmStat[p], own |-> FALSE]
        /\ p \notin waiting' /\ \A b \in waiting' \cup Following(n) : Before(p, b)
    BY <1>3, <1>4, <2>1 DEF Outputs
  <2>3. p \in 1 .. n /\ ~Pic(p).skipped
    BY <1>5 DEF Displayable
  <2>4. FrmStat[p] = Done(p)
    BY <1>1, <2>3 DEF IInv, StatsOf
  <2>5. QED
    BY <2>2, <2>3, <2>4
<1>7. NoFrame' = NoFrame /\ NoStat' = NoStat /\ NoFrame.stat = NoStat /\ NoFrame.picture = 0
  BY DEF NoFrame, NoStat
<1>8. output_frame = NoFrame /\ pc' # "slices"
  BY <1>1 DEF IInv, OutputOf
<1>9. SlicesOf' /\ StatsOf' /\ WaitingOf'
  <2>1. SlicesOf'
    BY <1>8 DEF SlicesOf
  <2>2. StatsOf'
    BY <1>1, <1>8, SameStream DEF IInv, StatsOf
  <2>3. WaitingOf'
    BY <1>1, <1>5, SameStream DEF WaitingOf
  <2>4. QED
    BY <2>1, <2>2, <2>3
<1>10. OutputOf'
  <2>1. CASE output_frame' = NoFrame
    BY <1>1, <1>7, <2>1 DEF OutputOf
  <2>2. CASE output_frame' # NoFrame
    <3>1. PICK p : p = output_frame'.picture
      OBVIOUS
    <3>2. Done(p)' = Done(p) /\ Pic(p)' = Pic(p)
      BY <1>1, SameStream
    <3>3. /\ p \in 1 .. n' /\ Displayable(Pic(p)') /\ p \notin waiting'
          /\ output_frame'.own = FALSE /\ output_frame'.stat = Done(p)'
      BY <1>1, <1>5, <1>6, <2>2, <3>1, <3>2
    <3>4. pc' = "output"
      BY <1>1, <2>2
    <3>5. QED
      BY <1>7, <2>2, <3>1, <3>3, <3>4 DEF OutputOf, Done, Pic
  <2>3. QED
    BY <2>1, <2>2
<1>11. FieldsLive'
  <2>1. \A w \in waiting : Done(w) \in live
    BY <1>1 DEF IInv, FieldsLive
  <2>2. output_frame'.stat = NoStat \/ output_frame'.stat \in live
    BY <1>6, <1>7, <2>1
  <2>3. QED
    BY <1>1, <1>5, <1>7, <1>8, <2>1, <2>2, SameStream DEF FieldsLive
<1>12. InOrder'
  <2>1. waiting' \cup Following(n') \subseteq ToCome
    BY <1>1, <1>5 DEF ToCome
  <2>2. ASSUME output_frame' # NoFrame
        PROVE  /\ \A k \in DOMAIN handed : Before(handed[k].picture, output_frame'.picture)
               /\ \A b \in waiting' \cup Following(n') : Before(output_frame'.picture, b)
    <3>1. output_frame'.picture \in ToCome
      BY <1>6, <2>2 DEF ToCome
    <3>2. QED
      BY <1>1, <1>6, <2>2, <3>1 DEF IInv, InOrder
  <2>3. QED
    BY <1>1, <2>1, <2>2, OrderKept DEF IInv
<1>13. Complete'
  <2> SUFFICES ASSUME NEW j \in 1 .. n, Displayable(Pic(j))
               PROVE  \/ j \in waiting' \/ j = output_frame'.picture \/ Discards(j)
                      \/ \E k \in DOMAIN handed : handed[k].picture = j
    BY <1>1, SameStream DEF Complete
  <2>1. j # output_frame.picture
    BY <1>2, <1>7, <1>8 DEF TypeOK
  <2>2. QED
    BY <1>5, <2>1 DEF IInv, Complete
<1>14. HandedOf' /\ StatisticsOfPicture'
  BY <1>1, HandedKept DEF IInv
<1>15. FieldsSafe'
  BY <1>1 DEF IInv, FieldsSafe
<1>16. QED
  BY <1>2, <1>9, <1>10, <1>11, <1>12, <1>13, <1>14, <1>15 DEF IInv

LEMMA HandInv ==
  ASSUME IInv, NEW given, HandEffect(given)
  PROVE  IInv'
<1>1. /\ pc = "output" /\ pc' = "read"
      /\ given = IF Analysed THEN output_frame.stat ELSE NoStat
      /\ misused' = misused \cup ({given} \ (live \cup {NoStat})) /\ live' = live \ {given}
      /\ output_frame' = NoFrame /\ stream' = stream
      /\ UNCHANGED <<n, slice, FrmStat, waiting, seq_output>>
  BY DEF HandEffect
<1>2. TypeOK /\ TypeOK' /\ OutputOf
  BY HandTypes DEF IInv
<1>3. PICK last : last = Len(handed) + 1
  OBVIOUS
<1>4. /\ DOMAIN handed = 1 .. last - 1 /\ DOMAIN handed' = 1 .. last /\ last \in Nat \ {0}
      /\ \A k \in 1 .. last - 1 : handed'[k] = handed[k]
      /\ handed'[last] = [picture |-> output_frame.picture, stat |-> given,
                          own |-> output_frame.own, analysed |-> Analysed]
      /\ output_frame # NoFrame
  BY <1>2, <1>3, HandedGrows
<1>5. PICK p : p = output_frame.picture
  OBVIOUS
<1>6. /\ p \in 1 .. n /\ p \notin waiting
      /\ output_frame.stat = IF output_frame.own /\ stream.offset THEN NoStat ELSE Done(p)
  BY <1>1, <1>2, <1>4, <1>5 DEF OutputOf
<1>7. /\ handed'[last].picture = p /\ handed'[last].stat = given
      /\ handed'[last].own = output_frame.own /\ handed'[last].analysed = Analysed
  BY <1>4, <1>5
<1>8. /\ live \subseteq Fields /\ NoStat \notin Fields /\ p \in Nat
      /\ \A i \in 1 .. n : Done(i) # NoStat
      /\ waiting \subseteq 1 .. n
  <2>1. 1 .. n \subseteq 1 .. Len(stream.pics)
    BY <1>2, StreamTypes DEF TypeOK
  <2>2. NoStat \notin Fields /\ \A i \in 1 .. n : Done(i) # NoStat
    BY <1>2, <2>1, FieldOf DEF TypeOK
  <2>3. QED
    BY <1>2, <1>6, <2>2 DEF TypeOK
<1>9. given = NoStat \/ (given \in live /\ given = Done(p))
  BY <1>1, <1>6 DEF IInv, FieldsLive
<1>10. NoFrame' = NoFrame /\ NoStat' = NoStat /\ NoFrame.stat = NoStat /\ NoFrame.picture = 0
  BY DEF NoFrame, NoStat
<1>11. SlicesOf' /\ StatsOf' /\ WaitingOf' /\ OutputOf'
  <2>1. SlicesOf'
    BY <1>1 DEF SlicesOf
  <2>2. StatsOf'
    BY <1>1, SameStream DEF IInv, StatsOf
  <2>3. WaitingOf'
    BY <1>1, SameStream DEF IInv, WaitingOf
  <2>4. OutputOf'
    BY <1>1, <1>10 DEF OutputOf
  <2>5. QED
    BY <2>1, <2>2, <2>3, <2>4
<1>12. FieldsLive'
  <2> SUFFICES ASSUME NEW w \in waiting PROVE Done(w) \in live'
    BY <1>1, <1>10, SameStream DEF FieldsLive
  <2>1. Done(w) \in live
    BY <1>1 DEF IInv, FieldsLive
  <2>2. Done(w) # Done(p)
    BY <1>6 DEF Done
  <2>3. QED
    BY <1>1, <1>8, <1>9, <2>1, <2>2
<1>13. HandedOf'
  <2> SUFFICES ASSUME NEW k \in 1 .. last, ~handed'[k].analysed
               PROVE  handed'[k].stat = NoStat
    BY <1>4, <1>10 DEF HandedOf
  <2>1. CASE k = last
    BY <1>1, <1>7, <2>1
  <2>2. CASE k \in 1 .. last - 1
    BY <1>4, <2>2 DEF IInv, HandedOf
  <2>3. QED
    BY <1>4, <2>1, <2>2
<1>14. StatisticsOfPicture'
  <2> SUFFICES ASSUME NEW k \in 1 .. last, handed'[k].analysed
               PROVE  handed'[k].stat = IF handed'[k].own /\ stream.offset THEN NoStat
                                        ELSE <<handed'[k].picture, Pic(handed'[k].picture).slices>>
    BY <1>1, <1>4, <1>10 DEF StatisticsOfPicture, Pic
  <2>1. CASE k = last
    <3>1. given = output_frame.stat
      BY <1>1, <1>7, <2>1
    <3>2. QED
      BY <1>6, <1>7, <2>1, <3>1 DEF Done
  <2>2. CASE k \in 1 .. last - 1
    BY <1>4, <2>2 DEF IInv, StatisticsOfPicture
  <2>3. QED
    BY <1>4, <2>1, <2>2
<1>15. InOrder'
  <2>1. ToCome' = ToCome
    BY <1>1 DEF ToCome, Following, Pic
  <2>2. \A k \in 1 .. last : \A b \in ToCome : Before(handed'[k].picture, b)
    <3> SUFFICES ASSUME NEW k \in 1 .. last, NEW b \in ToCome
                 PROVE  Before(handed'[k].picture, b)
      OBVIOUS
    <3>1. CASE k = last
      BY <1>4, <1>5, <1>7, <3>1 DEF IInv, InOrder
    <3>2. CASE k \in 1 .. last - 1
      BY <1>4, <3>2 DEF IInv, InOrder
    <3>3. QED
      BY <1>4, <3>1, <3>2
  <2>3. \A k, l \in 1 .. last : k < l => Before(handed'[k].picture, handed'[l].picture)
    <3> SUFFICES ASSUME NEW k \in 1 .. last, NEW l \in 1 .. last, k < l
                 PROVE  Before(handed'[k].picture, handed'[l].picture)
      OBVIOUS
    <3>1. k \in 1 .. last - 1 /\ handed'[k] = handed[k]
      BY <1>4
    <3>2. CASE l = last
      BY <1>4, <1>5, <1>7, <3>1, <3>2 DEF IInv, InOrder
    <3>3. CASE l \in 1 .. last - 1
      BY <1>4, <3>1, <3>3 DEF IInv, InOrder
    <3>4. QED
      BY <1>4, <3>2, <3>3
  <2>4. /\ \A k, l \in DOMAIN handed' : k < l => Before(handed'[k].picture, handed'[l].picture)
        /\ \A k \in DOMAIN handed' : \A b \in ToCome' : Before(handed'[k].picture, b)
    BY <1>4, <2>1, <2>2, <2>3
  <2>5. QED
    BY <1>1, <1>10, <2>4 DEF InOrder, Before, SequenceOf, Pic
<1>16. Complete'
  <2> SUFFICES ASSUME NEW j \in 1 .. n, Displayable(Pic(j))
               PROVE  \/ j \in waiting \/ Discards(j)
                      \/ \E k \in DOMAIN handed' : handed'[k].picture = j
    BY <1>1, SameStream DEF Complete
  <2>1. CASE j = p
    BY <1>4, <1>7, <2>1
  <2>2. CASE \E k \in DOMAIN handed : handed[k].picture = j
    <3>1. PICK k \in 1 .. last - 1 : handed[k].picture = j
      BY <1>4, <2>2
    <3>2. k \in DOMAIN handed' /\ handed'[k].picture = j
      BY <1>4, <3>1
    <3>3. QED
      BY <3>2
  <2>3. QED
    BY <1>5, <2>1, <2>2 DEF IInv, Complete
<1>17. FieldsSafe'
  <2>1. misused' = {}
    BY <1>1, <1>9 DEF IInv, FieldsSafe
  <2>2. ASSUME NEW k \in 1 .. last
        PROVE  handed'[k].stat \notin live'
    <3>1. CASE k = last
      BY <1>1, <1>7, <3>1
    <3>2. CASE k \in 1 .. last - 1
      BY <1>1, <1>4, <3>2 DEF IInv, FieldsSafe
    <3>3. QED
      BY <1>4, <3>1, <3>2
  <2>3. QED
    BY <1>1, <1>4, <2>1, <2>2 DEF FieldsSafe
<1>18. QED
  BY <1>2, <1>11, <1>12, <1>13, <1>14, <1>15, <1>16, <1>17 DEF IInv

LEMMA CrashInv ==
  ASSUME IInv, CrashEffect
  PROVE  IInv'
<1>1. /\ pc = "output" /\ pc' = "crashed" /\ output_frame.stat = NoStat /\ stream' = stream
      /\ UNCHANGED <<n, slice, FrmStat, waiting, seq_output, Started, FrameIdx, live, misused,
                     handed, output_frame>>
  BY DEF CrashEffect
<1>2. TypeOK /\ TypeOK'
  BY CrashTypes DEF IInv
<1>3. NoFrame' = NoFrame /\ NoStat' = NoStat
  BY DEF NoFrame, NoStat
<1>4. SlicesOf' /\ StatsOf' /\ WaitingOf' /\ HandedOf' /\ StatisticsOfPicture' /\ Complete'
  <2>1. SlicesOf'
    BY <1>1 DEF SlicesOf
  <2>2. StatsOf'
    BY <1>1, SameStream DEF IInv, StatsOf
  <2>3. WaitingOf' /\ Complete'
    BY <1>1, SameStream DEF IInv, WaitingOf, Complete
  <2>4. QED
    BY <1>1, <2>1, <2>2, <2>3, HandedKept DEF IInv
<1>5. OutputOf' /\ FieldsLive'
  <2>1. OutputOf'
    BY <1>1, <1>3 DEF IInv, OutputOf, Done, Pic
  <2>2. FieldsLive'
    BY <1>1, <1>3, SameStream DEF IInv, FieldsLive
  <2>3. QED
    BY <2>1, <2>2
<1>6. InOrder'
  <2>1. waiting' \cup Following(n') \subseteq ToCome
    BY <1>1 DEF ToCome
  <2>2. QED
    BY <1>1, <2>1, OrderKept DEF IInv, InOrder, ToCome
<1>7. stream.offset /\ output_frame.own
  <2>1. PICK p : p = output_frame.picture
    OBVIOUS
  <2>2. /\ p \in 1 .. n
        /\ output_frame.stat = IF output_frame.own /\ stream.offset THEN NoStat ELSE Done(p)
    BY <1>1, <2>1 DEF IInv, OutputOf
  <2>3. Done(p) # NoStat
    BY <1>2, <2>2, StreamTypes, FieldOf DEF TypeOK
  <2>4. QED
    BY <1>1, <2>2, <2>3
<1>8. FieldsSafe'
  BY <1>1, <1>7 DEF IInv, FieldsSafe
<1>9. QED
  BY <1>2, <1>4, <1>5, <1>6, <1>8 DEF IInv

LEMMA StutterInv ==
  ASSUME IInv, UNCHANGED vars
  PROVE  IInv'
<1>1. /\ stream' = stream /\ n' = n /\ slice' = slice /\ FrmStat' = FrmStat /\ waiting' = waiting
      /\ seq_output' = seq_output /\ output_frame' = output_frame /\ pc' = pc
      /\ Started' = Started /\ FrameIdx' = FrameIdx /\ live' = live /\ misused' = misused
      /\ handed' = handed
  BY DEF vars
<1>2. TypeOK'
  BY <1>1 DEF IInv, TypeOK, Stats, Fields, Pic, SequenceOf
<1>3. SlicesOf' /\ StatsOf' /\ WaitingOf' /\ OutputOf' /\ FieldsLive'
  BY <1>1 DEF IInv, SlicesOf, StatsOf, WaitingOf, OutputOf, FieldsLive, Done, Pic, SequenceOf
<1>4. HandedOf' /\ InOrder' /\ Complete' /\ StatisticsOfPicture' /\ FieldsSafe'
  BY <1>1 DEF IInv, HandedOf, InOrder, Complete, StatisticsOfPicture, FieldsSafe, ToCome,
              Following, Before, Discards, Pic, SequenceOf
<1>5. QED
  BY <1>2, <1>3, <1>4 DEF IInv

LEMMA NextInv ==
  ASSUME IInv, [Next]_vars
  PROVE  IInv'
<1>1. TypeOK /\ WaitingOf
  BY DEF IInv
<1>2. CASE SkipPacket
  BY <1>2, SkipInv
<1>3. CASE hevc_frame_start
  BY <1>1, <1>3, StartStep, StartInv
<1>4. CASE DecodeSlice
  BY <1>4, DecodeInv
<1>5. CASE EndPacket
  BY <1>5, EndInv
<1>6. CASE Flush
  BY <1>1, <1>6, FlushStep, FlushInv
<1>7. CASE HandOut
  BY <1>7, HandStep, HandInv, CrashInv
<1>8. CASE Finished \/ UNCHANGED vars
  BY <1>8, StutterInv DEF Finished
<1>9. QED
  BY <1>2, <1>3, <1>4, <1>5, <1>6, <1>7, <1>8 DEF Next

LEMMA Invariance == Spec => []IInv
<1>1. Init => IInv
  BY InitInv
<1>2. IInv /\ [Next]_vars => IInv'
  BY NextInv
<1>3. QED
  BY <1>1, <1>2, PTL DEF Spec

-----------------------------------------------------------------------------
(* The results.                                                            *)

(* The invariant gives the order, and at the end that all are handed out. *)
LEMMA InvariantOrders ==
  ASSUME IInv
  PROVE  PicturesHandedOut
<1>1. TypeOK
  BY DEF IInv
<1>2. \A i, j \in DOMAIN handed :
        LET a == handed[i].picture b == handed[j].picture IN
        i < j => \/ SequenceOf(a) < SequenceOf(b)
                 \/ SequenceOf(a) = SequenceOf(b) /\ Pic(a).poc < Pic(b).poc
  BY DEF IInv, InOrder, Before
<1>3. ASSUME n = Len(stream.pics), waiting = {}, pc = "read", NEW i \in DOMAIN stream.pics
      PROVE  \/ \E k \in DOMAIN handed : handed[k].picture = i
             \/ ~Pic(i).shown \/ Pic(i).skipped \/ Discards(i)
  <2>1. i \in 1 .. n
    BY <1>1, <1>3, StreamTypes DEF TypeOK
  <2>2. output_frame.picture = 0
    BY <1>3 DEF IInv, OutputOf, NoFrame
  <2>3. QED
    BY <1>3, <2>1, <2>2 DEF IInv, Complete, Displayable
<1>4. QED
  BY <1>2, <1>3 DEF IInv, PicturesHandedOut, OutputOrder

(* Every variable stays in its type, for any stream that keeps the promise *)
(* of sps_max_num_reorder_pics.                                            *)
THEOREM HevcTypeCorrectness == Spec => []TypeOK
<1>1. IInv => TypeOK
  BY DEF IInv
<1>2. QED
  BY <1>1, Invariance, PTL

(* The client gets every picture that is displayed once, in the order of   *)
(* display, with the statistics of its last slice segment (none under a    *)
(* window with an offset if it was output at its start); no motion field   *)
(* is freed twice, and only such a copy is read without one.               *)
THEOREM HevcPicturesHandedOut == Spec => []PicturesHandedOut
<1>1. IInv => PicturesHandedOut
  BY InvariantOrders
<1>2. QED
  BY <1>1, Invariance, PTL

-----------------------------------------------------------------------------
(* Blocks. *)

(* SumOf is the total of the values of a function. *)
LEMMA SumIsTotal ==
  ASSUME NEW f, IsFiniteSet(DOMAIN f), Integral(f, DOMAIN f)
  PROVE  SumOf(f) = Total(f, DOMAIN f)
<1> DEFINE I     == DOMAIN f
           P(it) == it = [s \in SUBSET I |->
                           IF s = {} THEN 0
                           ELSE f[CHOOSE x \in s : TRUE] + it[s \ {CHOOSE x \in s : TRUE}]]
           fold == CHOOSE it : P(it)
<1>1. SumOf(f) = fold[I]
  BY DEF SumOf, MapThenSumSet, MapThenFoldSet
<1>2. PICK c : Chooses(c, I) /\ \A s \in SUBSET I : c[s] = CHOOSE x \in s : TRUE
  <2> DEFINE d == [s \in SUBSET I |-> CHOOSE x \in s : TRUE]
  <2>1. Chooses(d, I) /\ \A s \in SUBSET I : d[s] = CHOOSE x \in s : TRUE
    BY DEF Chooses
  <2> HIDE DEF d
  <2>2. QED
    BY <2>1
<1>3. ASSUME NEW g PROVE IsFold(g, f, c, I) <=> P(g)
  <2>1. ASSUME NEW s \in SUBSET I
        PROVE  FoldStep(f, c, g, s) =
                 IF s = {} THEN 0
                 ELSE f[CHOOSE x \in s : TRUE] + g[s \ {CHOOSE x \in s : TRUE}]
    BY <1>2 DEF FoldStep
  <2>2. QED
    BY <2>1 DEF IsFold
<1> HIDE DEF P
<1>4. P(fold)
  <2>1. \E g : P(g)
    BY <1>2, <1>3, FoldExists
  <2>2. QED
    BY <2>1
<1> HIDE DEF fold
<1>5. IsFold(fold, f, c, I)
  BY <1>3, <1>4
<1>6. fold[I] = Total(f, I)
  BY <1>2, <1>5, FoldIsTotal
<1>7. QED
  BY <1>1, <1>6

(* The nodes of quadtrees, in the picture or not. *)
Nodes == [x : Nat, y : Nat, log : 3 .. 6]

(* The overlap of two intervals. *)
Overlap(lo, hi, from, len) ==
  LET a == IF lo < from THEN from ELSE lo
      z == IF hi < from + len THEN hi ELSE from + len
  IN IF a < z THEN z - a ELSE 0

(* The powers that occur; the provers compute them for literals only. *)
LEMMA PowersOfTwo ==
  /\ 2^0 = 1 /\ 2^1 = 2 /\ 2^2 = 4 /\ 2^3 = 8 /\ 2^4 = 16 /\ 2^5 = 32 /\ 2^6 = 64
  /\ 4^0 = 1 /\ 4^1 = 4 /\ 4^2 = 16 /\ 4^3 = 64 /\ 4^4 = 256
  /\ 1^2 = 1 /\ 8^2 = 64
  OBVIOUS

(* A power of two is twice the one before. *)
LEMMA Powers ==
  ASSUME NEW log, log \in 1 .. 6
  PROVE  /\ 2^log \in Nat \ {0} /\ 2^(log - 1) \in Nat \ {0}
         /\ 2^log = 2^(log - 1) + 2^(log - 1)
<1>1. CASE log = 1
  BY <1>1, PowersOfTwo
<1>2. CASE log = 2
  BY <1>2, PowersOfTwo
<1>3. CASE log = 3
  BY <1>3, PowersOfTwo
<1>4. CASE log = 4
  BY <1>4, PowersOfTwo
<1>5. CASE log = 5
  BY <1>5, PowersOfTwo
<1>6. CASE log = 6
  BY <1>6, PowersOfTwo
<1> QED
  BY <1>1, <1>2, <1>3, <1>4, <1>5, <1>6

(* An interval overlaps as much as its two parts do. *)
LEMMA OverlapSplits ==
  ASSUME NEW lo, NEW hi, NEW from, NEW len, NEW more,
         lo \in Nat, hi \in Nat, from \in Nat, len \in Nat, more \in Nat
  PROVE  Overlap(lo, hi, from, len + more) = Overlap(lo, hi, from, len) + Overlap(lo, hi, from + len, more)
  BY DEF Overlap

(* The same for an interval that begins at 0. *)
LEMMA OverlapFromZero ==
  ASSUME NEW lo, NEW hi, NEW len, NEW more, lo \in Nat, hi \in Nat, len \in Nat, more \in Nat
  PROVE  Overlap(lo, hi, 0, len + more) = Overlap(lo, hi, 0, len) + Overlap(lo, hi, len, more)
  BY DEF Overlap

(* What the overlap is of intervals apart, within another, or empty. *)
LEMMA OverlapIs ==
  ASSUME NEW lo, NEW hi, NEW from, NEW len,
         lo \in Nat, hi \in Nat, from \in Nat, len \in Nat
  PROVE  /\ Overlap(lo, hi, from, len) \in Nat
         /\ Overlap(lo, hi, from, len) <= len
         /\ from >= hi => Overlap(lo, hi, from, len) = 0
         /\ hi <= lo => Overlap(lo, hi, from, len) = 0
         /\ lo <= hi => Overlap(lo, hi, from, len) <= hi - lo
         /\ lo <= from /\ from + len <= hi => Overlap(lo, hi, from, len) = len
         /\ from <= lo /\ lo <= hi /\ hi <= from + len => Overlap(lo, hi, from, len) = hi - lo
         /\ Overlap(lo, hi, from, 0) = 0
  BY DEF Overlap

(* Rectangles within the picture. *)
Boxes == {q \in [left : Nat, right : Nat, top : Nat, bottom : Nat] :
            /\ q.left <= q.right /\ q.right <= sps.width
            /\ q.top <= q.bottom /\ q.bottom <= sps.height}

(* What a box shares with a node, in pixels. *)
Shared(q) ==
  [b \in Nodes |-> Overlap(q.left, q.right, b.x, 2^b.log) * Overlap(q.top, q.bottom, b.y, 2^b.log)]

(* A measure of nodes: those outside of the picture have nothing of it. *)
Measure(w) == w \in [Nodes -> Nat] /\ \A b \in Nodes : ~InPicture(b) => w[b] = 0

(* The sizes of a stream that is decoded. *)
LEMMA SpsTypes ==
  ASSUME coded \in CodedStreams
  PROVE  /\ sps.cb \in 3 .. 6 /\ sps.ctb \in 4 .. 6 /\ sps.tb \in 2 .. 5
         /\ sps.tb < sps.cb /\ sps.cb <= sps.ctb
         /\ sps.width \in Nat \ {0} /\ sps.height \in Nat \ {0}
         /\ sps.width % 2^sps.cb = 0 /\ sps.height % 2^sps.cb = 0
         /\ coded.pictures \in Seq(Seq({"I", "P", "B"}) \ {<<>>})
         /\ coded.units \subseteq CodingUnits
  BY BlocksAssumption DEF sps, Sizes

(* The share of a box is a measure. *)
LEMMA SharedIsMeasure ==
  ASSUME coded \in CodedStreams, NEW q \in Boxes
  PROVE  Measure(Shared(q))
<1>1. ASSUME NEW b \in Nodes
      PROVE  /\ Overlap(q.left, q.right, b.x, 2^b.log) * Overlap(q.top, q.bottom, b.y, 2^b.log) \in Nat
             /\ ~InPicture(b) =>
                  Overlap(q.left, q.right, b.x, 2^b.log) * Overlap(q.top, q.bottom, b.y, 2^b.log) = 0
  <2>1. PICK h \in Nat : h = 2^b.log
    BY Powers DEF Nodes
  <2>2. /\ q.left \in Nat /\ q.right \in Nat /\ q.top \in Nat /\ q.bottom \in Nat
        /\ q.right <= sps.width /\ q.bottom <= sps.height /\ b.x \in Nat /\ b.y \in Nat
        /\ sps.width \in Nat /\ sps.height \in Nat
    BY SpsTypes DEF Boxes, Nodes
  <2>3. PICK o \in Nat, p \in Nat : /\ o = Overlap(q.left, q.right, b.x, h)
                                   /\ p = Overlap(q.top, q.bottom, b.y, h)
    BY <2>1, <2>2, OverlapIs
  <2>4. ~InPicture(b) => o = 0 \/ p = 0
    <3>1. ~InPicture(b) => b.x >= q.right \/ b.y >= q.bottom
      BY <2>2 DEF InPicture
    <3>2. b.x >= q.right => o = 0
      BY <2>1, <2>2, <2>3, OverlapIs
    <3>3. b.y >= q.bottom => p = 0
      BY <2>1, <2>2, <2>3, OverlapIs
    <3> QED
      BY <3>1, <3>2, <3>3
  <2>5. o * p \in Nat /\ (o = 0 \/ p = 0 => o * p = 0)
    BY NatProduct
  <2> QED
    BY <2>1, <2>3, <2>4, <2>5
<1> QED
  BY <1>1 DEF Measure, Shared

(* Where the quarters of a node lie. *)
LEMMA QuarterIs ==
  ASSUME NEW b \in Nodes, b.log > 3, NEW h, h = 2^(b.log - 1)
  PROVE  /\ h \in Nat \ {0} /\ 2^b.log = h + h
         /\ \A i, j \in 0 .. 1 :
              /\ Quarter(b, i, j) \in Nodes /\ Quarter(b, i, j).log = b.log - 1
              /\ 2^Quarter(b, i, j).log = h
              /\ Quarter(b, i, j).x = b.x + (IF i = 0 THEN 0 ELSE h)
              /\ Quarter(b, i, j).y = b.y + (IF j = 0 THEN 0 ELSE h)
<1>1. b.log \in 4 .. 6 /\ b.x \in Nat /\ b.y \in Nat
  BY DEF Nodes
<1>2. h \in Nat \ {0} /\ 2^b.log = h + h
  BY <1>1, Powers
<1>3. ASSUME NEW i \in 0 .. 1, NEW j \in 0 .. 1
      PROVE  /\ Quarter(b, i, j) \in Nodes /\ Quarter(b, i, j).log = b.log - 1
             /\ 2^Quarter(b, i, j).log = h
             /\ Quarter(b, i, j).x = b.x + (IF i = 0 THEN 0 ELSE h)
             /\ Quarter(b, i, j).y = b.y + (IF j = 0 THEN 0 ELSE h)
  <2>1. Quarter(b, i, j) = [x |-> b.x + i * h, y |-> b.y + j * h, log |-> b.log - 1]
    BY DEF Quarter
  <2>2. ASSUME NEW k \in 0 .. 1
        PROVE  k * h = (IF k = 0 THEN 0 ELSE h)
    <3>1. k = 0 \/ k = 1
      OBVIOUS
    <3>2. 0 * h = 0 /\ 1 * h = h
      BY <1>2
    <3> QED
      BY <3>1, <3>2
  <2>3. i * h \in Nat /\ j * h \in Nat
    BY <1>2, NatProduct
  <2>4. Quarter(b, i, j) \in Nodes /\ Quarter(b, i, j).log = b.log - 1
    <3>1. PICK u \in Nat, v \in Nat : u = i * h /\ v = j * h
      BY <2>3
    <3>2. Quarter(b, i, j) = [x |-> b.x + u, y |-> b.y + v, log |-> b.log - 1]
      BY <2>1, <3>1
    <3> QED
      BY <1>1, <3>2 DEF Nodes
  <2>5. Quarter(b, i, j).x = b.x + i * h /\ Quarter(b, i, j).y = b.y + j * h
    BY <2>1
  <2> QED
    BY <2>2, <2>4, <2>5
<1> QED
  BY <1>2, <1>3

(* The quarters of a node have of a box what the node has. *)
LEMMA QuartersShare ==
  ASSUME coded \in CodedStreams, NEW q \in Boxes, NEW b \in Nodes, b.log > 3
  PROVE  Shared(q)[b] = Shared(q)[Quarter(b, 0, 0)] + (Shared(q)[Quarter(b, 1, 0)]
                          + (Shared(q)[Quarter(b, 0, 1)] + Shared(q)[Quarter(b, 1, 1)]))
<1>1. PICK h : h = 2^(b.log - 1)
  OBVIOUS
<1>2. PICK c, d, e, f : /\ c = Quarter(b, 0, 0) /\ d = Quarter(b, 1, 0)
                        /\ e = Quarter(b, 0, 1) /\ f = Quarter(b, 1, 1)
  OBVIOUS
<1>3. /\ h \in Nat \ {0} /\ 2^b.log = h + h
      /\ c \in Nodes /\ d \in Nodes /\ e \in Nodes /\ f \in Nodes
      /\ 2^c.log = h /\ 2^d.log = h /\ 2^e.log = h /\ 2^f.log = h
      /\ c.x = b.x /\ c.y = b.y /\ d.x = b.x + h /\ d.y = b.y
      /\ e.x = b.x /\ e.y = b.y + h /\ f.x = b.x + h /\ f.y = b.y + h
  <2>1. b.x + 0 = b.x /\ b.y + 0 = b.y
    BY DEF Nodes
  <2> QED
    BY <1>1, <1>2, <2>1, QuarterIs
<1>4. PICK l, r, t, m : l = q.left /\ r = q.right /\ t = q.top /\ m = q.bottom
  OBVIOUS
<1>5. l \in Nat /\ r \in Nat /\ t \in Nat /\ m \in Nat /\ b.x \in Nat /\ b.y \in Nat
  BY <1>4 DEF Boxes, Nodes
<1>6. PICK i \in Nat, j \in Nat, o \in Nat, p \in Nat :
        /\ i = Overlap(l, r, b.x, h) /\ j = Overlap(l, r, b.x + h, h)
        /\ o = Overlap(t, m, b.y, h) /\ p = Overlap(t, m, b.y + h, h)
  <2>1. /\ Overlap(l, r, b.x, h) \in Nat /\ Overlap(l, r, b.x + h, h) \in Nat
        /\ Overlap(t, m, b.y, h) \in Nat /\ Overlap(t, m, b.y + h, h) \in Nat
    BY <1>3, <1>5, OverlapIs
  <2> QED
    BY <2>1
<1>7. Overlap(l, r, b.x, h + h) = i + j /\ Overlap(t, m, b.y, h + h) = o + p
  BY <1>3, <1>5, <1>6, OverlapSplits
<1>8. /\ Shared(q)[b] = (i + j) * (o + p)
      /\ Shared(q)[c] = i * o /\ Shared(q)[d] = j * o
      /\ Shared(q)[e] = i * p /\ Shared(q)[f] = j * p
  BY <1>3, <1>4, <1>6, <1>7 DEF Shared
<1>9. (i + j) * (o + p) = i * o + (j * o + (i * p + j * p))
  OBVIOUS
<1> QED
  BY <1>2, <1>8, <1>9

(* The pixels of a box in the coding tree blocks before block m. *)
Begun(q, m) ==
  Overlap(q.left, q.right, 0, CtbCols * 2^sps.ctb) * Overlap(q.top, q.bottom, 0, (m \div CtbCols) * 2^sps.ctb)
  + Overlap(q.left, q.right, 0, (m % CtbCols) * 2^sps.ctb)
      * Overlap(q.top, q.bottom, (m \div CtbCols) * 2^sps.ctb, 2^sps.ctb)

(* The coding tree blocks of a picture. *)
Ctbs == CtbCols * CtbRows

(* They cover the picture, and none of them lies beside it. *)
LEMMA CtbSizes ==
  ASSUME coded \in CodedStreams, NEW side, side = 2^sps.ctb
  PROVE  /\ side \in Nat \ {0} /\ CtbCols \in Nat \ {0} /\ CtbRows \in Nat \ {0} /\ Ctbs \in Nat \ {0}
         /\ sps.width <= CtbCols * side /\ CtbCols * side < sps.width + side
         /\ sps.height <= CtbRows * side /\ CtbRows * side < sps.height + side
<1>1. /\ sps.width \in Nat \ {0} /\ sps.height \in Nat \ {0} /\ sps.ctb \in 4 .. 6
      /\ side \in {16, 32, 64}
  <2>1. /\ sps.width \in Nat \ {0} /\ sps.height \in Nat \ {0} /\ sps.ctb \in 4 .. 6
    BY SpsTypes
  <2>2. \A k \in 4 .. 6 : 2^k \in {16, 32, 64}
    <3> SUFFICES ASSUME NEW k, k = 4 \/ k = 5 \/ k = 6
                 PROVE  2^k \in {16, 32, 64}
      OBVIOUS
    <3>1. CASE k = 4
      BY <3>1, PowersOfTwo
    <3>2. CASE k = 5
      BY <3>2, PowersOfTwo
    <3>3. CASE k = 6
      BY <3>3, PowersOfTwo
    <3> QED
      BY <3>1, <3>2, <3>3
  <2> QED
    BY <2>1, <2>2
<1>2. CtbCols = (sps.width + side - 1) \div side /\ CtbRows = (sps.height + side - 1) \div side
  BY DEF CtbCols, CtbRows
<1>3. /\ CtbCols \in Nat \ {0} /\ CtbRows \in Nat \ {0}
      /\ sps.width <= CtbCols * side /\ CtbCols * side < sps.width + side
      /\ sps.height <= CtbRows * side /\ CtbRows * side < sps.height + side
  BY <1>1, <1>2
<1>4. CtbCols * CtbRows \in Nat \ {0}
  BY <1>3, MulBound, NatProduct
<1> QED
  BY <1>1, <1>3, <1>4 DEF Ctbs

(* A coding tree block begins within the picture. *)
LEMMA RootIs ==
  ASSUME coded \in CodedStreams, NEW m, m \in 0 .. Ctbs - 1, NEW side, side = 2^sps.ctb
  PROVE  /\ Root(m) \in Nodes /\ Root(m).log = sps.ctb /\ InPicture(Root(m))
         /\ m \div CtbCols \in 0 .. CtbRows - 1 /\ m % CtbCols \in 0 .. CtbCols - 1
         /\ Root(m).x = (m % CtbCols) * side /\ Root(m).y = (m \div CtbCols) * side
<1>1. /\ side \in Nat \ {0} /\ CtbCols \in Nat \ {0} /\ CtbRows \in Nat \ {0} /\ Ctbs \in Nat \ {0}
      /\ sps.width <= CtbCols * side /\ CtbCols * side < sps.width + side
      /\ sps.height <= CtbRows * side /\ CtbRows * side < sps.height + side
      /\ sps.width \in Nat /\ sps.height \in Nat /\ sps.ctb \in 3 .. 6
  <2>1. sps.width \in Nat /\ sps.height \in Nat /\ sps.ctb \in 4 .. 6
    BY SpsTypes
  <2> QED
    BY <2>1, CtbSizes
<1>2. PICK c \in Nat \ {0}, r \in Nat \ {0}, k \in Nat : c = CtbCols /\ r = CtbRows /\ k = m /\ k < c * r
  BY <1>1 DEF Ctbs
<1>3. PICK i \in Nat, j \in Nat : i = k % c /\ j = k \div c /\ i < c /\ k = j * c + i
  <2>1. k \div c \in Nat /\ k % c \in 0 .. c - 1 /\ k = (k \div c) * c + (k % c)
    BY Quotient
  <2> QED
    BY <2>1
<1>4. j < r
  <2>1. ASSUME j >= r PROVE FALSE
    <3>1. r * c <= j * c
      BY <2>1, ProductMonotonic
    <3>2. r * c = c * r /\ c * r \in Nat /\ j * c \in Nat
      BY NatProduct
    <3> QED
      BY <1>2, <1>3, <3>1, <3>2
  <2> QED
    BY <2>1
<1>5. PICK d \in Nat \ {0} : d = side
  BY <1>1
<1>6. /\ i * d \in Nat /\ j * d \in Nat /\ i * d < sps.width /\ j * d < sps.height
  <2>1. /\ i * d \in Nat /\ j * d \in Nat /\ (c - 1) * d = c * d - d /\ (r - 1) * d = r * d - d
        /\ c * d \in Nat /\ r * d \in Nat
    BY NatProduct
  <2>2. i * d <= (c - 1) * d /\ j * d <= (r - 1) * d
    <3>1. c - 1 \in Nat /\ r - 1 \in Nat /\ i <= c - 1 /\ j <= r - 1
      BY <1>3, <1>4
    <3> QED
      BY <3>1, ProductMonotonic
  <2> QED
    BY <1>1, <1>2, <1>5, <2>1, <2>2
<1>7. Root(m) = [x |-> i * d, y |-> j * d, log |-> sps.ctb]
  BY <1>2, <1>3, <1>5 DEF Root
<1>8. PICK u \in Nat, v \in Nat : u = i * d /\ v = j * d
  BY <1>6
<1>9. Root(m) \in Nodes /\ Root(m).log = sps.ctb /\ Root(m).x = u /\ Root(m).y = v
  BY <1>1, <1>7, <1>8 DEF Nodes
<1> QED
  BY <1>2, <1>3, <1>4, <1>5, <1>6, <1>8, <1>9 DEF InPicture

(* At first nothing of a box is begun. *)
LEMMA BegunNone ==
  ASSUME coded \in CodedStreams, NEW q \in Boxes
  PROVE  Begun(q, 0) = 0
<1>1. PICK side \in Nat, c \in Nat \ {0} : side = 2^sps.ctb /\ c = CtbCols
  BY CtbSizes
<1>2. 0 \div c = 0 /\ 0 % c = 0 /\ 0 * side = 0
  <2>1. 0 \div c \in Nat /\ 0 % c \in 0 .. c - 1 /\ 0 = (0 \div c) * c + (0 % c)
    BY Quotient
  <2>2. 0 \div c = 0 /\ 0 % c = 0
    <3>1. 0 * c + 0 = 0
      OBVIOUS
    <3> QED
      BY <2>1, <3>1, Unique
  <2> QED
    BY <2>2
<1>3. /\ q.left \in Nat /\ q.right \in Nat /\ q.top \in Nat /\ q.bottom \in Nat
  BY DEF Boxes
<1>4. PICK o \in Nat, p \in Nat : /\ o = Overlap(q.left, q.right, 0, c * side)
                                 /\ p = Overlap(q.top, q.bottom, 0, side)
  <2>1. c * side \in Nat
    BY NatProduct
  <2> QED
    BY <1>3, <2>1, OverlapIs
<1>5. Overlap(q.top, q.bottom, 0, 0) = 0 /\ Overlap(q.left, q.right, 0, 0) = 0
  BY <1>3, OverlapIs
<1>6. Begun(q, 0) = o * 0 + 0 * p
  BY <1>1, <1>2, <1>4, <1>5 DEF Begun
<1> QED
  BY <1>6

(* The next coding tree block adds its share. *)
LEMMA NextBegun ==
  ASSUME coded \in CodedStreams, NEW q \in Boxes, NEW m, m \in 0 .. Ctbs - 1
  PROVE  Begun(q, m + 1) = Begun(q, m) + Shared(q)[Root(m)]
<1>1. PICK side \in Nat \ {0}, c \in Nat \ {0}, k \in Nat : side = 2^sps.ctb /\ c = CtbCols /\ k = m
  BY CtbSizes
<1>2. PICK i \in Nat, j \in Nat : i = k % c /\ j = k \div c /\ i < c
  <2>1. k \div c \in Nat /\ k % c \in 0 .. c - 1
    BY Quotient
  <2> QED
    BY <2>1
<1>3. PICK l \in Nat, r \in Nat, t \in Nat, b \in Nat : l = q.left /\ r = q.right /\ t = q.top /\ b = q.bottom
  BY DEF Boxes
<1>4. PICK x \in Nat, y \in Nat, z \in Nat : x = i * side /\ y = j * side /\ z = c * side
  BY NatProduct
<1>5. (i + 1) * side = x + side /\ (j + 1) * side = y + side /\ 0 * side = 0
  BY <1>4
<1>6. PICK o \in Nat, p \in Nat, u \in Nat, v \in Nat, w \in Nat :
        /\ o = Overlap(l, r, 0, z) /\ p = Overlap(t, b, 0, y)
        /\ u = Overlap(l, r, 0, x) /\ v = Overlap(t, b, y, side)
        /\ w = Overlap(l, r, x, side)
  BY OverlapIs
<1>7. Begun(q, m) = o * p + u * v
  BY <1>1, <1>2, <1>3, <1>4, <1>6 DEF Begun
<1>8. Shared(q)[Root(m)] = w * v
  <2>1. Root(m) \in Nodes /\ Root(m).log = sps.ctb /\ Root(m).x = x /\ Root(m).y = y
    BY <1>1, <1>2, <1>4, RootIs
  <2> QED
    BY <1>1, <1>3, <1>6, <2>1 DEF Shared
<1>9. CASE i + 1 < c
  <2>1. (k + 1) \div c = j /\ (k + 1) % c = i + 1
    BY <1>2, <1>9, NextQuotient
  <2>2. Overlap(l, r, 0, x + side) = u + w
    <3>1. Overlap(l, r, 0, x + side) = Overlap(l, r, 0, x) + Overlap(l, r, x, side)
      BY OverlapFromZero
    <3> QED
      BY <1>6, <3>1
  <2>3. Begun(q, m + 1) = o * p + (u + w) * v
    BY <1>1, <1>3, <1>4, <1>5, <1>6, <2>1, <2>2 DEF Begun
  <2>4. o * p + (u + w) * v = (o * p + u * v) + w * v
    OBVIOUS
  <2> QED
    BY <1>7, <1>8, <2>3, <2>4
<1>10. CASE i + 1 = c
  <2>1. (k + 1) \div c = j + 1 /\ (k + 1) % c = 0
    BY <1>2, <1>10, NextQuotient
  <2>2. z = x + side /\ o = u + w
    <3>1. Overlap(l, r, 0, x + side) = Overlap(l, r, 0, x) + Overlap(l, r, x, side)
      BY OverlapFromZero
    <3>2. z = x + side
      BY <1>4, <1>5, <1>10
    <3> QED
      BY <1>6, <3>1, <3>2
  <2>3. Overlap(t, b, 0, y + side) = p + v
    <3>1. Overlap(t, b, 0, y + side) = Overlap(t, b, 0, y) + Overlap(t, b, y, side)
      BY OverlapFromZero
    <3> QED
      BY <1>6, <3>1
  <2>4. Overlap(l, r, 0, 0) = 0
    BY OverlapIs
  <2>5. PICK e \in Nat : e = Overlap(t, b, y + side, side)
    BY OverlapIs
  <2>6. Begun(q, m + 1) = o * (p + v) + 0 * e
    BY <1>1, <1>3, <1>4, <1>5, <1>6, <2>1, <2>3, <2>4, <2>5 DEF Begun
  <2>7. o * (p + v) + 0 * e = (o * p + u * v) + w * v
    <3>1. o * (p + v) = o * p + o * v
      OBVIOUS
    <3>2. o * v = u * v + w * v
      BY <2>2
    <3> QED
      BY <3>1, <3>2
  <2> QED
    BY <1>7, <1>8, <2>6, <2>7
<1> QED
  BY <1>2, <1>9, <1>10

(* All coding tree blocks have the box. *)
LEMMA AllBegun ==
  ASSUME coded \in CodedStreams, NEW q \in Boxes
  PROVE  Begun(q, Ctbs) = (q.right - q.left) * (q.bottom - q.top)
<1>1. PICK side \in Nat \ {0}, c \in Nat \ {0}, h \in Nat \ {0} :
        /\ side = 2^sps.ctb /\ c = CtbCols /\ h = CtbRows
        /\ sps.width <= c * side /\ sps.height <= h * side
  BY CtbSizes
<1>2. PICK l \in Nat, r \in Nat, t \in Nat, b \in Nat :
        /\ l = q.left /\ r = q.right /\ t = q.top /\ b = q.bottom
        /\ l <= r /\ r <= sps.width /\ t <= b /\ b <= sps.height
        /\ sps.width \in Nat /\ sps.height \in Nat
  BY SpsTypes DEF Boxes
<1>3. Ctbs \div c = h /\ Ctbs % c = 0
  <2>1. PICK k \in Nat : k = Ctbs /\ k = h * c + 0
    BY <1>1, NatProduct DEF Ctbs
  <2>2. k \div c \in Nat /\ k % c \in 0 .. c - 1 /\ k = (k \div c) * c + (k % c)
    BY Quotient
  <2>3. k \div c = h /\ k % c = 0
    BY <2>1, <2>2, Unique
  <2> QED
    BY <2>1, <2>3
<1>4. PICK x \in Nat, y \in Nat : x = c * side /\ y = h * side
  BY NatProduct
<1>5. /\ Overlap(l, r, 0, x) = r - l /\ Overlap(t, b, 0, y) = b - t /\ Overlap(l, r, 0, 0) = 0
  <2>1. r <= 0 + x /\ b <= 0 + y
    BY <1>1, <1>2, <1>4
  <2> QED
    BY <1>2, <2>1, OverlapIs
<1>6. PICK e \in Nat : e = Overlap(t, b, y, side)
  BY OverlapIs
<1>7. 0 * side = 0
  OBVIOUS
<1>8. Begun(q, Ctbs) = (r - l) * (b - t) + 0 * e
  BY <1>1, <1>2, <1>3, <1>4, <1>5, <1>6, <1>7 DEF Begun
<1>9. (r - l) * (b - t) + 0 * e = (r - l) * (b - t)
  OBVIOUS
<1> QED
  BY <1>2, <1>8, <1>9

(* Of a single pixel nothing or all of it is begun. *)
LEMMA PixelBegun ==
  ASSUME coded \in CodedStreams, NEW q \in Boxes, NEW m, m \in 0 .. Ctbs
  PROVE  /\ Begun(q, m) \in Nat
         /\ q.right = q.left + 1 /\ q.bottom = q.top + 1 => Begun(q, m) <= 1
<1>1. PICK side \in Nat \ {0}, c \in Nat \ {0}, k \in Nat : side = 2^sps.ctb /\ c = CtbCols /\ k = m
  BY CtbSizes
<1>2. PICK i \in Nat, j \in Nat : i = k % c /\ j = k \div c /\ i < c
  <2>1. k \div c \in Nat /\ k % c \in 0 .. c - 1
    BY Quotient
  <2> QED
    BY <2>1
<1>3. PICK l \in Nat, r \in Nat, t \in Nat, b \in Nat :
        l = q.left /\ r = q.right /\ t = q.top /\ b = q.bottom /\ l <= r /\ t <= b
  BY DEF Boxes
<1>4. PICK x \in Nat, y \in Nat, z \in Nat : x = i * side /\ y = j * side /\ z = c * side
  BY NatProduct
<1>5. PICK o \in Nat, p \in Nat, u \in Nat, v \in Nat :
        /\ o = Overlap(l, r, 0, z) /\ p = Overlap(t, b, 0, y)
        /\ u = Overlap(l, r, 0, x) /\ v = Overlap(t, b, y, side)
        /\ o <= r - l /\ u <= r - l /\ p + v <= b - t
  <2>1. /\ Overlap(l, r, 0, z) \in Nat /\ Overlap(t, b, 0, y) \in Nat
        /\ Overlap(l, r, 0, x) \in Nat /\ Overlap(t, b, y, side) \in Nat
        /\ Overlap(l, r, 0, z) <= r - l /\ Overlap(l, r, 0, x) <= r - l
    BY <1>3, OverlapIs
  <2>2. Overlap(t, b, 0, y + side) = Overlap(t, b, 0, y) + Overlap(t, b, y, side)
    <3>1. Overlap(t, b, 0, y + side) = Overlap(t, b, 0, y) + Overlap(t, b, y, side)
      BY OverlapFromZero
    <3> QED
      BY <3>1
  <2>3. Overlap(t, b, 0, y + side) <= b - t
    <3>1. y + side \in Nat
      OBVIOUS
    <3> QED
      BY <1>3, <3>1, OverlapIs
  <2> QED
    BY <2>1, <2>2, <2>3
<1>6. Begun(q, m) = o * p + u * v
  BY <1>1, <1>2, <1>3, <1>4, <1>5 DEF Begun
<1>7. o * p + u * v \in Nat
  BY NatProduct
<1>8. ASSUME r = l + 1, b = t + 1
      PROVE  o * p + u * v <= 1
  <2>1. o \in {0, 1} /\ u \in {0, 1} /\ p \in {0, 1} /\ v \in {0, 1} /\ (p = 0 \/ v = 0)
    BY <1>3, <1>5, <1>8
  <2> QED
    BY <2>1
<1> QED
  BY <1>3, <1>6, <1>7, <1>8

(* The statistics in the frame. *)
Statistics ==
  [PU_Stat : [PUSizes -> [0 .. 5 -> Nat]], TrShapes : [TrIdx -> Nat],
   MbTypes : [MbTypeIdx -> Nat], MbCnt : Nat, QpCnt : Nat, QpCntBB : Nat,
   NumBlksMv : Nat, NumBlksSkip : Nat, NumBlksIntra : Nat, BlackBorder : Nat]

(* A node begins at a multiple of the smallest coding block's size. *)
Aligned(b) == \E i, j \in Nat : b.x = i * 2^sps.cb /\ b.y = j * 2^sps.cb

(* The nodes the decoder visits: within the picture, aligned, and of a     *)
(* coding block's size.                                                    *)
Here == {b \in Nodes : InPicture(b) /\ b.log \in sps.cb .. sps.ctb /\ Aligned(b)}

(* The coding blocks that are decoded. *)
BlockRecords == [b : Here, cu : CodingUnits, slice : Nat]

(* The area that the partitions that were counted stand for. *)
RowSum(row) == row[0] + (row[1] + (row[2] + (row[3] + (row[4] + row[5]))))
PUArea(P) == 4 * RowSum(P[3]) + (16 * RowSum(P[4]) + (64 * RowSum(P[5]) + 256 * RowSum(P[6])))

(* The area that the transforms that were counted stand for. *)
TrArea(T) == T[0] + (T[2] + (4 * T[3] + (16 * T[4] + 64 * T[5])))

(* The areas of blocks, in blocks of 4x4. *)
LEMMA Areas ==
  Area(2) = 1 /\ Area(3) = 4 /\ Area(4) = 16 /\ Area(5) = 64 /\ Area(6) = 256
<1>1. 2 - 2 = 0 /\ 3 - 2 = 1 /\ 4 - 2 = 2 /\ 5 - 2 = 3 /\ 6 - 2 = 4
  OBVIOUS
<1> QED
  BY <1>1, PowersOfTwo DEF Area

(* Four quarters have the area of their node, and 16 pixels make a block   *)
(* of 4x4.                                                                 *)
LEMMA AreaTypes ==
  ASSUME NEW log, log \in 3 .. 6
  PROVE  /\ Area(log) \in Nat \ {0} /\ Area(log - 1) \in Nat \ {0} /\ Area(log) = 4 * Area(log - 1)
         /\ 16 * Area(log) = 2^log * 2^log
<1>1. CASE log = 3
  BY <1>1, Areas, PowersOfTwo
<1>2. CASE log = 4
  BY <1>2, Areas, PowersOfTwo
<1>3. CASE log = 5
  BY <1>3, Areas, PowersOfTwo
<1>4. CASE log = 6
  BY <1>4, Areas, PowersOfTwo
<1> QED
  BY <1>1, <1>2, <1>3, <1>4

(* One more block of a row. *)
LEMMA RowGrows ==
  ASSUME NEW row \in [0 .. 5 -> Nat], NEW part \in 0 .. 5, NEW new, new = [row EXCEPT ![part] = row[part] + 1]
  PROVE  new \in [0 .. 5 -> Nat] /\ RowSum(row) \in Nat /\ RowSum(new) = RowSum(row) + 1
<1>1. new \in [0 .. 5 -> Nat]
  OBVIOUS
<1>2. /\ row[0] \in Nat /\ row[1] \in Nat /\ row[2] \in Nat /\ row[3] \in Nat /\ row[4] \in Nat /\ row[5] \in Nat
  OBVIOUS
<1>3. \A k \in 0 .. 5 : new[k] = row[k] + (IF k = part THEN 1 ELSE 0)
  OBVIOUS
<1>4. part = 0 \/ part = 1 \/ part = 2 \/ part = 3 \/ part = 4 \/ part = 5
  OBVIOUS
<1> QED
  BY <1>1, <1>2, <1>3, <1>4 DEF RowSum

(* What is counted of the partition of a block. *)
LEMMA PUAdds ==
  ASSUME NEW P \in [PUSizes -> [0 .. 5 -> Nat]], NEW log \in 3 .. 6, NEW part \in 0 .. 7,
         NEW Q, Q = CountPU(P, log, part)
  PROVE  /\ Q \in [PUSizes -> [0 .. 5 -> Nat]]
         /\ PUArea(P) \in Nat
         /\ part < 6 => PUArea(Q) = PUArea(P) + Area(log)
<1>1. PUSizes = 3 .. 6
  BY DEF PUSizes
<1>2. ASSUME NEW l \in 3 .. 6, NEW p \in 0 .. 5, Q = [P EXCEPT ![l][p] = P[l][p] + 1]
      PROVE  /\ Q \in [PUSizes -> [0 .. 5 -> Nat]]
             /\ \A k \in 3 .. 6 : RowSum(Q[k]) = RowSum(P[k]) + (IF k = l THEN 1 ELSE 0)
  <2>1. PICK new : new = [P[l] EXCEPT ![p] = P[l][p] + 1]
    OBVIOUS
  <2>2. P[l] \in [0 .. 5 -> Nat]
    BY <1>1
  <2>3. new \in [0 .. 5 -> Nat] /\ RowSum(new) = RowSum(P[l]) + 1
    BY <2>1, <2>2, RowGrows
  <2>4. Q = [P EXCEPT ![l] = new]
    BY <1>2, <2>1
  <2>5. \A k \in 3 .. 6 : Q[k] = IF k = l THEN new ELSE P[k]
    BY <1>1, <2>4
  <2>6. Q \in [PUSizes -> [0 .. 5 -> Nat]]
    BY <2>3, <2>4
  <2>7. \A k \in 3 .. 6 : RowSum(P[k]) \in Nat
    <3> SUFFICES ASSUME NEW k \in 3 .. 6 PROVE RowSum(P[k]) \in Nat
      OBVIOUS
    <3>1. P[k] \in [0 .. 5 -> Nat]
      BY <1>1
    <3> QED
      BY <3>1 DEF RowSum
  <2> QED
    BY <2>3, <2>5, <2>6, <2>7
<1>3. /\ RowSum(P[3]) \in Nat /\ RowSum(P[4]) \in Nat /\ RowSum(P[5]) \in Nat /\ RowSum(P[6]) \in Nat
  <2>1. \A k \in 3 .. 6 : RowSum(P[k]) \in Nat
    <3> SUFFICES ASSUME NEW k \in 3 .. 6 PROVE RowSum(P[k]) \in Nat
      OBVIOUS
    <3>1. P[k] \in [0 .. 5 -> Nat]
      BY <1>1
    <3> QED
      BY <3>1 DEF RowSum
  <2> QED
    BY <2>1
<1>4. CASE part <= 5
  <2>1. Q = [P EXCEPT ![log][part] = P[log][part] + 1] /\ part \in 0 .. 5
    BY <1>4 DEF CountPU
  <2>2. /\ Q \in [PUSizes -> [0 .. 5 -> Nat]]
        /\ \A k \in 3 .. 6 : RowSum(Q[k]) = RowSum(P[k]) + (IF k = log THEN 1 ELSE 0)
    BY <1>2, <2>1
  <2>3. log = 3 \/ log = 4 \/ log = 5 \/ log = 6
    OBVIOUS
  <2>4. PUArea(Q) = PUArea(P) + Area(log)
    BY <1>3, <2>2, <2>3, Areas, SMTT(30) DEF PUArea
  <2> QED
    BY <1>3, <2>2, <2>4 DEF PUArea
<1>5. CASE part > 5 /\ log < 6
  <2>1. Q = [P EXCEPT ![log + 1][part - 6] = P[log + 1][part - 6] + 1] /\ part - 6 \in 0 .. 5 /\ log + 1 \in 3 .. 6
    BY <1>5 DEF CountPU
  <2>2. Q \in [PUSizes -> [0 .. 5 -> Nat]]
    BY <1>2, <2>1
  <2> QED
    BY <1>3, <1>5, <2>2 DEF PUArea
<1>6. CASE part > 5 /\ ~(log < 6)
  <2>1. Q = P
    BY <1>6 DEF CountPU
  <2> QED
    BY <1>3, <1>6, <2>1 DEF PUArea
<1> QED
  BY <1>4, <1>5, <1>6

(* Areas of transforms add up. *)
LEMMA TrCounted ==
  ASSUME NEW T \in [TrIdx -> Nat], NEW N \in [TrIdx -> Nat], NEW U, U = [k \in TrIdx |-> T[k] + N[k]]
  PROVE  /\ U \in [TrIdx -> Nat] /\ TrArea(T) \in Nat
         /\ TrArea(U) = TrArea(T) + TrArea(N)
<1>1. 0 \in TrIdx /\ 2 \in TrIdx /\ 3 \in TrIdx /\ 4 \in TrIdx /\ 5 \in TrIdx
  BY DEF TrIdx
<1>2. U \in [TrIdx -> Nat]
  OBVIOUS
<1>3. PICK a \in Nat, b \in Nat, c \in Nat, d \in Nat, e \in Nat :
        a = T[0] /\ b = T[2] /\ c = T[3] /\ d = T[4] /\ e = T[5]
  BY <1>1
<1>4. PICK p \in Nat, q \in Nat, r \in Nat, s \in Nat, t \in Nat :
        p = N[0] /\ q = N[2] /\ r = N[3] /\ s = N[4] /\ t = N[5]
  BY <1>1
<1>5. U[0] = a + p /\ U[2] = b + q /\ U[3] = c + r /\ U[4] = d + s /\ U[5] = e + t
  BY <1>1, <1>3, <1>4
<1>6. TrArea(T) = a + (b + (4 * c + (16 * d + 64 * e))) /\ TrArea(N) = p + (q + (4 * r + (16 * s + 64 * t)))
  BY <1>3, <1>4 DEF TrArea
<1>7. TrArea(U) = (a + p) + ((b + q) + (4 * (c + r) + (16 * (d + s) + 64 * (e + t))))
  BY <1>5 DEF TrArea
<1> QED
  BY <1>2, <1>6, <1>7

(* At most one transform is counted. *)
LEMMA TrOne ==
  ASSUME NEW N \in [TrIdx -> Nat], NEW u, u \in Nat, N[0] = u, NEW l, l \in 2 .. 5,
         \A k \in 2 .. 5 : k # l => N[k] = 0
  PROVE  /\ N[l] = 0 => TrArea(N) = u
         /\ N[l] = 1 => TrArea(N) = u + Area(l)
<1>1. l = 2 \/ l = 3 \/ l = 4 \/ l = 5
  OBVIOUS
<1>2. /\ l # 2 => N[2] = 0
      /\ l # 3 => N[3] = 0
      /\ l # 4 => N[4] = 0
      /\ l # 5 => N[5] = 0
  OBVIOUS
<1>3. PICK a \in Nat, b \in Nat, c \in Nat, d \in Nat : a = N[2] /\ b = N[3] /\ c = N[4] /\ d = N[5]
  BY DEF TrIdx
<1>4. TrArea(N) = u + (a + (4 * b + (16 * c + 64 * d)))
  BY <1>3 DEF TrArea
<1>5. CASE l = 2
  <2>1. N[l] = a /\ b = 0 /\ c = 0 /\ d = 0 /\ Area(l) = 1
    BY <1>2, <1>3, <1>5, Areas
  <2> QED
    BY <1>4, <2>1
<1>6. CASE l = 3
  <2>1. N[l] = b /\ a = 0 /\ c = 0 /\ d = 0 /\ Area(l) = 4
    BY <1>2, <1>3, <1>6, Areas
  <2> QED
    BY <1>4, <2>1
<1>7. CASE l = 4
  <2>1. N[l] = c /\ a = 0 /\ b = 0 /\ d = 0 /\ Area(l) = 16
    BY <1>2, <1>3, <1>7, Areas
  <2> QED
    BY <1>4, <2>1
<1>8. CASE l = 5
  <2>1. N[l] = d /\ a = 0 /\ b = 0 /\ c = 0 /\ Area(l) = 64
    BY <1>2, <1>3, <1>8, Areas
  <2> QED
    BY <1>4, <2>1
<1> QED
  BY <1>1, <1>5, <1>6, <1>7, <1>8

(* Sums of no value, of one value and of three. *)
LEMMA SumOfNone ==
  ASSUME NEW f, DOMAIN f = {}
  PROVE  SumOf(f) = 0
<1>1. IsFiniteSet({}) /\ Integral(f, {})
  BY FS_EmptySet DEF Integral
<1>2. SumOf(f) = Total(f, {})
  BY <1>1, SumIsTotal
<1> QED
  BY <1>2, TotalEmpty

(* Sum of one value. *)
LEMMA SumOfOne ==
  ASSUME NEW f, NEW x, DOMAIN f = {x}, f[x] \in Int
  PROVE  SumOf(f) = f[x]
<1>1. IsFiniteSet({x}) /\ Integral(f, {x})
  BY FS_Singleton DEF Integral
<1>2. SumOf(f) = Total(f, {x})
  BY <1>1, SumIsTotal
<1>3. {} \cup {x} = {x} /\ IsFiniteSet({}) /\ x \notin {}
  BY FS_EmptySet
<1>4. Total(f, {} \cup {x}) = f[x] + Total(f, {})
  BY <1>1, <1>3, TotalAdd
<1> QED
  BY <1>2, <1>3, <1>4, TotalEmpty

(* Sum of three values. *)
LEMMA SumOfThree ==
  ASSUME NEW f, NEW x, NEW y, NEW z, DOMAIN f = {x, y, z}, x # y, y # z, x # z,
         f[x] \in Int, f[y] \in Int, f[z] \in Int
  PROVE  SumOf(f) = f[x] + (f[y] + f[z])
<1>1. /\ IsFiniteSet({}) /\ IsFiniteSet({z}) /\ IsFiniteSet({y, z}) /\ IsFiniteSet({x, y, z})
      /\ Integral(f, {z}) /\ Integral(f, {y, z}) /\ Integral(f, {x, y, z})
  <2>1. IsFiniteSet({}) /\ IsFiniteSet({z})
    BY FS_EmptySet, FS_Singleton
  <2>2. {y, z} = {z} \cup {y} /\ {x, y, z} = {y, z} \cup {x}
    OBVIOUS
  <2>3. IsFiniteSet({y, z})
    BY <2>1, <2>2, FS_AddElement
  <2>4. IsFiniteSet({x, y, z})
    BY <2>2, <2>3, FS_AddElement
  <2> QED
    BY <2>1, <2>3, <2>4 DEF Integral
<1>2. SumOf(f) = Total(f, {x, y, z})
  BY <1>1, SumIsTotal
<1>3. {} \cup {z} = {z} /\ {z} \cup {y} = {y, z} /\ {y, z} \cup {x} = {x, y, z}
  OBVIOUS
<1>4. Total(f, {z}) = f[z]
  BY <1>1, <1>3, TotalAdd, TotalEmpty
<1>5. Total(f, {y, z}) = f[y] + Total(f, {z})
  BY <1>1, <1>3, TotalAdd
<1>6. Total(f, {x, y, z}) = f[x] + Total(f, {y, z})
  BY <1>1, <1>3, TotalAdd
<1> QED
  BY <1>2, <1>4, <1>5, <1>6

(* What may be counted of a block's residual. *)
LEMMA ResidualIs ==
  ASSUME coded \in CodedStreams, NEW b \in Here, NEW cu \in CodingUnits, cu.residual \in Residuals(cu, b.log)
  PROVE  /\ b.log \in 3 .. 6 /\ b \in Nodes
         /\ cu.residual \in {"coded", "dark", "fails"} => b.log < 6 /\ b.log \in TrIdx
         /\ cu.residual \in {"split", "swallowed"} => b.log > sps.tb /\ b.log - 1 \in TrIdx
         /\ cu.residual \in {"none", "pcm", "coded", "dark", "split", "swallowed", "fails"}
<1>1. b.log \in 3 .. 6 /\ b \in Nodes /\ sps.tb \in 2 .. 5
  BY SpsTypes DEF Here, Nodes
<1>2. cu.mode \in {"SKIP", "INTER", "INTRA"}
      /\ cu.residual \in {"none", "pcm", "coded", "dark", "split", "swallowed", "fails"}
  BY DEF CodingUnits
<1>3. /\ cu.residual \in {"coded", "dark", "fails"} => b.log < 6
      /\ cu.residual \in {"split", "swallowed"} => b.log > sps.tb
  BY <1>2 DEF Residuals
<1> QED
  BY <1>1, <1>2, <1>3 DEF TrIdx

(* What is counted of the transforms of a coding block is its area, unless *)
(* it is PCM or swallows an error.                                         *)
LEMMA TrAdds ==
  ASSUME coded \in CodedStreams, NEW b \in Here, NEW cu \in CodingUnits, cu.residual \in Residuals(cu, b.log),
         NEW T \in [TrIdx -> Nat], NEW U, U = TrShapes(T, b, cu)
  PROVE  /\ U \in [TrIdx -> Nat] /\ TrArea(T) \in Nat
         /\ cu.residual \notin {"pcm", "swallowed"} => TrArea(U) = TrArea(T) + Area(b.log)
<1>1. /\ b.log \in 3 .. 6 /\ b \in Nodes
      /\ cu.residual \in {"coded", "dark", "fails"} => b.log < 6 /\ b.log \in TrIdx
      /\ cu.residual \in {"split", "swallowed"} => b.log > sps.tb /\ b.log - 1 \in TrIdx
      /\ cu.residual \in {"none", "pcm", "coded", "dark", "split", "swallowed", "fails"}
  BY ResidualIs
<1>2. PICK u, ts, D : /\ ts = Transforms(b, cu) /\ D = {t \in ts : ~HasLuma(t, b, cu)}
                      /\ u = IF cu.residual = "none" THEN Area(b.log) ELSE SumOf([t \in D |-> Area(t.log)])
  OBVIOUS
<1> DEFINE Seen(k) == {t \in ts : t.log = k /\ HasLuma(t, b, cu)}
<1>3. PICK N : /\ N = [k \in TrIdx |-> IF k = 0 THEN u ELSE Cardinality(Seen(k))]
               /\ U = [k \in TrIdx |-> T[k] + N[k]]
  <2> DEFINE M == [k \in TrIdx |-> IF k = 0 THEN u ELSE Cardinality(Seen(k))]
  <2>1. U = [k \in TrIdx |-> T[k] + (IF k = 0 THEN u ELSE Cardinality(Seen(k)))]
    BY <1>2 DEF TrShapes
  <2>2. U = [k \in TrIdx |-> T[k] + M[k]]
    BY <2>1
  <2> QED
    BY <2>2
<1>4. PICK a, c : a = Area(b.log) /\ c = Area(b.log - 1)
  OBVIOUS
<1>5. a \in Nat /\ c \in Nat /\ a = 4 * c
  BY <1>1, <1>4, AreaTypes
<1> HIDE DEF Seen
<1>6. /\ Cardinality({}) = 0 /\ \A x : Cardinality({x}) = 1
      /\ N[0] = u /\ TrIdx = {0} \cup 2 .. 5
      /\ \A k \in 2 .. 5 : N[k] = Cardinality(Seen(k))
  <2>1. Cardinality({}) = 0 /\ \A x : Cardinality({x}) = 1
    BY FS_EmptySet, FS_Singleton
  <2>2. TrIdx = {0} \cup 2 .. 5 /\ 0 \in TrIdx /\ \A k \in 2 .. 5 : k \in TrIdx /\ k # 0
    BY DEF TrIdx
  <2>3. N[0] = u /\ \A k \in 2 .. 5 : N[k] = Cardinality(Seen(k))
    BY <1>3, <2>2
  <2> QED
    BY <2>1, <2>2, <2>3
<1>7. CASE cu.residual \in {"none", "pcm"}
  <2>1. ts = {} /\ D = {}
    BY <1>2, <1>7 DEF Transforms
  <2>2. \A k : Seen(k) = {}
    BY <2>1 DEF Seen
  <2>3. u = IF cu.residual = "none" THEN a ELSE 0
    <3>1. DOMAIN [t \in D |-> Area(t.log)] = {}
      BY <2>1
    <3>2. SumOf([t \in D |-> Area(t.log)]) = 0
      BY <3>1, SumOfNone
    <3> QED
      BY <1>2, <1>4, <3>2
  <2>4. u \in Nat /\ N[2] = 0 /\ \A k \in 2 .. 5 : N[k] = 0
    <3>1. u \in Nat
      BY <1>5, <2>3
    <3> QED
      BY <1>6, <2>2, <3>1
  <2>5. N \in [TrIdx -> Nat]
    BY <1>3, <1>6, <2>2, <2>4
  <2>6. TrArea(N) = u
    BY <1>6, <2>4, <2>5, TrOne
  <2>7. U \in [TrIdx -> Nat] /\ TrArea(T) \in Nat /\ TrArea(U) = TrArea(T) + TrArea(N)
    BY <1>3, <2>5, TrCounted, SMTT(30)
  <2> QED
    BY <1>4, <1>7, <2>3, <2>6, <2>7
<1>8. CASE cu.residual \in {"coded", "fails"}
  <2>1. ts = {b} /\ \A t \in ts : HasLuma(t, b, cu)
    BY <1>2, <1>8 DEF Transforms, HasLuma
  <2>2. u = 0
    <3>1. DOMAIN [t \in D |-> Area(t.log)] = {}
      BY <1>2, <2>1
    <3> QED
      BY <1>2, <1>8, <3>1, SumOfNone
  <2>3. Seen(b.log) = {b} /\ \A k : k # b.log => Seen(k) = {}
    BY <2>1 DEF Seen
  <2>4. PICK l : l = b.log /\ l \in 2 .. 5
    BY <1>1, <1>8
  <2>5. N[l] = 1 /\ \A k \in 2 .. 5 : k # l => N[k] = 0
    BY <1>6, <2>3, <2>4, ZenonT(60)
  <2>6. N \in [TrIdx -> Nat]
    <3>1. \A k \in TrIdx : N[k] \in Nat
      BY <1>6, <2>2, <2>5
    <3> QED
      BY <1>3, <3>1
  <2>7. TrArea(N) = u + Area(l)
    <3>1. u \in Nat
      BY <2>2
    <3> QED
      BY <1>6, <2>4, <2>5, <2>6, <3>1, TrOne
  <2>8. U \in [TrIdx -> Nat] /\ TrArea(T) \in Nat /\ TrArea(U) = TrArea(T) + TrArea(N)
    BY <1>3, <2>6, TrCounted, SMTT(30)
  <2>9. TrArea(U) = TrArea(T) + (0 + Area(b.log)) /\ Area(b.log) \in Nat
    BY <1>4, <1>5, <2>2, <2>4, <2>7, <2>8
  <2> QED
    BY <2>8, <2>9
<1>9. CASE cu.residual = "dark"
  <2>1. ts = {b} /\ \A t \in ts : ~HasLuma(t, b, cu)
    BY <1>2, <1>9 DEF Transforms, HasLuma
  <2>2. D = {b}
    BY <1>2, <2>1
  <2>3. u = a
    <3>1. PICK f : f = [t \in D |-> Area(t.log)]
      OBVIOUS
    <3>2. DOMAIN f = {b} /\ f[b] = a
      BY <1>4, <2>2, <3>1
    <3> QED
      BY <1>2, <1>5, <1>9, <3>1, <3>2, SumOfOne
  <2>4. \A k : Seen(k) = {}
    BY <2>1 DEF Seen
  <2>5. u \in Nat /\ N[2] = 0 /\ \A k \in 2 .. 5 : N[k] = 0
    <3>1. u \in Nat
      BY <1>5, <2>3
    <3> QED
      BY <1>6, <2>4, <3>1
  <2>6. N \in [TrIdx -> Nat]
    BY <1>3, <1>6, <2>5
  <2>7. TrArea(N) = u
    BY <1>6, <2>5, <2>6, TrOne
  <2>8. U \in [TrIdx -> Nat] /\ TrArea(T) \in Nat /\ TrArea(U) = TrArea(T) + TrArea(N)
    BY <1>3, <2>6, TrCounted, SMTT(30)
  <2> QED
    BY <1>4, <2>3, <2>7, <2>8
<1>10. CASE cu.residual \in {"swallowed", "split"}
  <2>1. PICK p, q, r, s : /\ p = Quarter(b, 0, 0) /\ q = Quarter(b, 1, 0)
                          /\ r = Quarter(b, 0, 1) /\ s = Quarter(b, 1, 1)
    OBVIOUS
  <2>2. PICK h \in Nat \ {0} : h = 2^(b.log - 1)
    BY <1>1, Powers
  <2>3. b.x \in Nat /\ b.y \in Nat
    BY <1>1 DEF Nodes
  <2>4. /\ p.x = b.x /\ p.y = b.y /\ q.x = b.x + h /\ q.y = b.y
        /\ r.x = b.x /\ r.y = b.y + h /\ s.x = b.x + h /\ s.y = b.y + h
        /\ p.log = b.log - 1 /\ q.log = b.log - 1 /\ r.log = b.log - 1 /\ s.log = b.log - 1
    BY <2>1, <2>2, <2>3 DEF Quarter
  <2>5. /\ HasLuma(p, b, cu) /\ ~HasLuma(q, b, cu) /\ ~HasLuma(r, b, cu) /\ ~HasLuma(s, b, cu)
        /\ q # r /\ r # s /\ q # s
    BY <1>10, <2>2, <2>3, <2>4 DEF HasLuma
  <2>6. ts = IF cu.residual = "swallowed" THEN {p} ELSE {p, q, r, s}
    <3>1. {Quarter(b, i, j) : i, j \in 0 .. 1} = {p, q, r, s}
      <4>1. 0 .. 1 = {0, 1}
        OBVIOUS
      <4> QED
        BY <2>1, <4>1
    <3>2. CASE cu.residual = "swallowed"
      <4>1. Transforms(b, cu) = {p}
        BY <2>1, <3>2 DEF Transforms
      <4> QED
        BY <1>2, <3>2, <4>1
    <3>3. CASE cu.residual = "split"
      <4>1. Transforms(b, cu) = {Quarter(b, i, j) : i, j \in 0 .. 1}
        BY <3>3 DEF Transforms
      <4> QED
        BY <1>2, <3>1, <3>3, <4>1
    <3> QED
      BY <1>10, <3>2, <3>3
  <2>7. D = IF cu.residual = "swallowed" THEN {} ELSE {q, r, s}
    BY <1>2, <2>5, <2>6
  <2>8. u = IF cu.residual = "swallowed" THEN 0 ELSE c + (c + c)
    <3>1. PICK f : f = [t \in D |-> Area(t.log)]
      OBVIOUS
    <3>2. cu.residual = "swallowed" => DOMAIN f = {}
      BY <2>7, <3>1
    <3>3. cu.residual # "swallowed" => DOMAIN f = {q, r, s} /\ f[q] = c /\ f[r] = c /\ f[s] = c
      BY <1>4, <2>4, <2>7, <3>1
    <3>4. u = SumOf(f)
      BY <1>2, <1>10, <3>1
    <3>5. cu.residual = "swallowed" => u = 0
      BY <3>2, <3>4, SumOfNone
    <3>6. ASSUME cu.residual # "swallowed" PROVE u = c + (c + c)
      <4>1. SumOf(f) = f[q] + (f[r] + f[s])
        BY <1>5, <2>5, <3>3, <3>6, SumOfThree
      <4> QED
        BY <3>3, <3>4, <3>6, <4>1
    <3> QED
      BY <3>5, <3>6
  <2>9. PICK l : l = b.log - 1 /\ l \in 2 .. 5
    BY <1>1, <1>10
  <2>10. Seen(l) = {p} /\ \A k : k # l => Seen(k) = {}
    BY <2>4, <2>5, <2>6, <2>9 DEF Seen
  <2>11. u \in Nat /\ N[l] = 1 /\ \A k \in 2 .. 5 : k # l => N[k] = 0
    <3>1. u \in Nat
      BY <1>5, <2>8
    <3> QED
      BY <1>6, <2>9, <2>10, <3>1, ZenonT(60)
  <2>12. N \in [TrIdx -> Nat]
    <3>1. \A k \in TrIdx : N[k] \in Nat
      BY <1>6, <2>11
    <3> QED
      BY <1>3, <3>1
  <2>13. TrArea(N) = u + Area(l)
    BY <1>6, <2>9, <2>11, <2>12, TrOne
  <2>14. U \in [TrIdx -> Nat] /\ TrArea(T) \in Nat /\ TrArea(U) = TrArea(T) + TrArea(N)
    BY <1>3, <2>12, TrCounted
  <2> QED
    BY <1>4, <1>5, <1>10, <2>8, <2>9, <2>13, <2>14
<1> QED
  BY <1>1, <1>7, <1>8, <1>9, <1>10

(* The size of a node in smaller ones. *)
LEMMA PowerIsMultiple ==
  ASSUME NEW small, small \in 2 .. 6, NEW log, log \in small .. 6
  PROVE  2^(log - small) \in Nat \ {0} /\ 2^small \in {4, 8, 16, 32, 64} /\ 2^log = 2^(log - small) * 2^small
<1>1. small = 2 \/ small = 3 \/ small = 4 \/ small = 5 \/ small = 6
  OBVIOUS
<1>2. PICK d : d = log - small
  OBVIOUS
<1>3. d = 0 \/ d = 1 \/ d = 2 \/ d = 3 \/ d = 4
  BY <1>2
<1>4. 2^small \in {4, 8, 16, 32, 64}
  <2>1. CASE small = 2
    BY <2>1, PowersOfTwo
  <2>2. CASE small = 3
    BY <2>2, PowersOfTwo
  <2>3. CASE small = 4
    BY <2>3, PowersOfTwo
  <2>4. CASE small = 5
    BY <2>4, PowersOfTwo
  <2>5. CASE small = 6
    BY <2>5, PowersOfTwo
  <2> QED
    BY <1>1, <2>1, <2>2, <2>3, <2>4, <2>5
<1>5. 2^d \in Nat \ {0}
  <2>1. CASE d = 0
    BY <2>1, PowersOfTwo
  <2>2. CASE d = 1
    BY <2>2, PowersOfTwo
  <2>3. CASE d = 2
    BY <2>3, PowersOfTwo
  <2>4. CASE d = 3
    BY <2>4, PowersOfTwo
  <2>5. CASE d = 4
    BY <2>5, PowersOfTwo
  <2> QED
    BY <1>3, <2>1, <2>2, <2>3, <2>4, <2>5
<1>6. 2^log = 2^d * 2^small
  <2>1. CASE d = 0
    <3>1. log = small + 0 /\ (small = 2 \/ small = 3 \/ small = 4 \/ small = 5 \/ small = 6)
      BY <1>1, <1>2, <2>1
    <3>2. CASE small = 2
      <4>1. log = 2
        BY <3>1, <3>2
      <4> QED
        BY <2>1, <3>2, <4>1, PowersOfTwo
    <3>3. CASE small = 3
      <4>1. log = 3
        BY <3>1, <3>3
      <4> QED
        BY <2>1, <3>3, <4>1, PowersOfTwo
    <3>4. CASE small = 4
      <4>1. log = 4
        BY <3>1, <3>4
      <4> QED
        BY <2>1, <3>4, <4>1, PowersOfTwo
    <3>5. CASE small = 5
      <4>1. log = 5
        BY <3>1, <3>5
      <4> QED
        BY <2>1, <3>5, <4>1, PowersOfTwo
    <3>6. CASE small = 6
      <4>1. log = 6
        BY <3>1, <3>6
      <4> QED
        BY <2>1, <3>6, <4>1, PowersOfTwo
    <3> QED
      BY <3>1, <3>2, <3>3, <3>4, <3>5, <3>6
  <2>2. CASE d = 1
    <3>1. log = small + 1 /\ (small = 2 \/ small = 3 \/ small = 4 \/ small = 5)
      BY <1>1, <1>2, <2>2
    <3>2. CASE small = 2
      <4>1. log = 3
        BY <3>1, <3>2
      <4> QED
        BY <2>2, <3>2, <4>1, PowersOfTwo
    <3>3. CASE small = 3
      <4>1. log = 4
        BY <3>1, <3>3
      <4> QED
        BY <2>2, <3>3, <4>1, PowersOfTwo
    <3>4. CASE small = 4
      <4>1. log = 5
        BY <3>1, <3>4
      <4> QED
        BY <2>2, <3>4, <4>1, PowersOfTwo
    <3>5. CASE small = 5
      <4>1. log = 6
        BY <3>1, <3>5
      <4> QED
        BY <2>2, <3>5, <4>1, PowersOfTwo
    <3> QED
      BY <3>1, <3>2, <3>3, <3>4, <3>5
  <2>3. CASE d = 2
    <3>1. log = small + 2 /\ (small = 2 \/ small = 3 \/ small = 4)
      BY <1>1, <1>2, <2>3
    <3>2. CASE small = 2
      <4>1. log = 4
        BY <3>1, <3>2
      <4> QED
        BY <2>3, <3>2, <4>1, PowersOfTwo
    <3>3. CASE small = 3
      <4>1. log = 5
        BY <3>1, <3>3
      <4> QED
        BY <2>3, <3>3, <4>1, PowersOfTwo
    <3>4. CASE small = 4
      <4>1. log = 6
        BY <3>1, <3>4
      <4> QED
        BY <2>3, <3>4, <4>1, PowersOfTwo
    <3> QED
      BY <3>1, <3>2, <3>3, <3>4
  <2>4. CASE d = 3
    <3>1. log = small + 3 /\ (small = 2 \/ small = 3)
      BY <1>1, <1>2, <2>4
    <3>2. CASE small = 2
      <4>1. log = 5
        BY <3>1, <3>2
      <4> QED
        BY <2>4, <3>2, <4>1, PowersOfTwo
    <3>3. CASE small = 3
      <4>1. log = 6
        BY <3>1, <3>3
      <4> QED
        BY <2>4, <3>3, <4>1, PowersOfTwo
    <3> QED
      BY <3>1, <3>2, <3>3
  <2>5. CASE d = 4
    <3>1. log = small + 4 /\ small = 2
      BY <1>1, <1>2, <2>5
    <3>2. CASE small = 2
      <4>1. log = 6
        BY <3>1, <3>2
      <4> QED
        BY <2>5, <3>2, <4>1, PowersOfTwo
    <3> QED
      BY <3>1, <3>2
  <2> QED
    BY <1>3, <2>1, <2>2, <2>3, <2>4, <2>5
<1> QED
  BY <1>2, <1>4, <1>5, <1>6

(* A position before the end of the picture has a smallest block to go. *)
LEMMA StepFits ==
  ASSUME NEW i \in Nat, NEW s \in Nat \ {0}, NEW size \in Nat, size % s = 0, i * s < size
  PROVE  i * s + s <= size
<1>1. PICK n1 \in Nat : size = n1 * s + 0
  <2>1. size \div s \in Nat /\ size = (size \div s) * s + (size % s)
    BY Quotient
  <2> QED
    BY <2>1
<1>2. i < n1
  <2>1. ASSUME n1 <= i PROVE FALSE
    <3>1. n1 * s <= i * s
      BY <2>1, ProductMonotonic
    <3>2. n1 * s \in Nat /\ i * s \in Nat
      BY NatProduct
    <3> QED
      BY <1>1, <3>1, <3>2
  <2> QED
    BY <2>1
<1>3. (i + 1) * s <= n1 * s
  BY <1>2, ProductMonotonic
<1>4. (i + 1) * s = i * s + s /\ i * s \in Nat /\ n1 * s \in Nat
  BY NatProduct
<1> QED
  BY <1>1, <1>3, <1>4

(* A node that is visited begins in the picture; one of smallest size lies *)
(* in it, whole.                                                           *)
LEMMA HereIs ==
  ASSUME coded \in CodedStreams, NEW b \in Here
  PROVE  /\ b \in Nodes /\ b.log \in 3 .. 6 /\ b.log \in sps.cb .. sps.ctb /\ b.x \in Nat /\ b.y \in Nat
         /\ b.x < sps.width /\ b.y < sps.height
         /\ b.log = sps.cb => FitsIn(b)
<1>1. /\ b \in Nodes /\ b.log \in 3 .. 6 /\ b.log \in sps.cb .. sps.ctb /\ b.x \in Nat /\ b.y \in Nat
      /\ b.x < sps.width /\ b.y < sps.height
  BY DEF Here, Nodes, InPicture
<1>2. PICK s \in Nat \ {0} : s = 2^sps.cb
  <2>1. sps.cb \in 1 .. 6
    BY SpsTypes
  <2> QED
    BY <2>1, Powers
<1>3. PICK i \in Nat, j \in Nat : b.x = i * s /\ b.y = j * s
  BY <1>2 DEF Here, Aligned
<1>4. PICK w \in Nat, h \in Nat : w = sps.width /\ h = sps.height /\ w % s = 0 /\ h % s = 0
  BY <1>2, SpsTypes
<1>5. i * s + s <= w /\ j * s + s <= h
  BY <1>1, <1>3, <1>4, StepFits
<1> QED
  BY <1>1, <1>2, <1>3, <1>4, <1>5 DEF FitsIn

(* A coding tree block is such a node. *)
LEMMA RootHere ==
  ASSUME coded \in CodedStreams, NEW m, m \in 0 .. Ctbs - 1
  PROVE  Root(m) \in Here
<1>1. PICK side, s, k \in Nat : side = 2^sps.ctb /\ s = 2^sps.cb /\ side = k * s /\ s \in Nat
  <2>1. sps.cb \in 2 .. 6 /\ sps.ctb \in sps.cb .. 6
    BY SpsTypes
  <2>2. PICK k : k = 2^(sps.ctb - sps.cb)
    OBVIOUS
  <2>3. k \in Nat /\ 2^sps.cb \in {4, 8, 16, 32, 64} /\ 2^sps.ctb = k * 2^sps.cb
    BY <2>1, <2>2, PowerIsMultiple
  <2>4. 2^sps.cb \in Nat
    BY <2>3
  <2> QED
    BY <2>3, <2>4
<1>2. PICK i \in Nat, j \in Nat : /\ Root(m) \in Nodes /\ Root(m).log = sps.ctb /\ InPicture(Root(m))
                                 /\ Root(m).x = i * side /\ Root(m).y = j * side
  <2>1. /\ Root(m) \in Nodes /\ Root(m).log = sps.ctb /\ InPicture(Root(m))
        /\ m \div CtbCols \in 0 .. CtbRows - 1 /\ m % CtbCols \in 0 .. CtbCols - 1
        /\ Root(m).x = (m % CtbCols) * side /\ Root(m).y = (m \div CtbCols) * side
    BY <1>1, RootIs
  <2>2. \A x, y : x \in 0 .. y - 1 => x \in Nat
    OBVIOUS
  <2> QED
    BY <2>1, <2>2
<1>3. i * (k * s) = (i * k) * s /\ j * (k * s) = (j * k) * s /\ i * k \in Nat /\ j * k \in Nat
  BY <1>1, NatProduct
<1>4. Aligned(Root(m))
  BY <1>1, <1>2, <1>3 DEF Aligned
<1>5. sps.ctb \in sps.cb .. sps.ctb
  BY SpsTypes
<1> QED
  BY <1>2, <1>4, <1>5 DEF Here

(* So is a quarter of one, if it begins in the picture. *)
LEMMA QuarterHere ==
  ASSUME coded \in CodedStreams, NEW b \in Here, b.log > sps.cb, NEW i \in 0 .. 1, NEW j \in 0 .. 1
  PROVE  /\ Quarter(b, i, j) \in Nodes
         /\ InPicture(Quarter(b, i, j)) => Quarter(b, i, j) \in Here
<1>1. b \in Nodes /\ b.log \in 3 .. 6 /\ b.log \in sps.cb .. sps.ctb /\ sps.cb \in 3 .. 6 /\ sps.ctb \in 3 .. 6
  BY HereIs, SpsTypes
<1>2. b.log > 3 /\ b.log - 1 \in sps.cb .. sps.ctb
  BY <1>1
<1>3. PICK h : h = 2^(b.log - 1)
  OBVIOUS
<1>4. PICK s, k \in Nat : s = 2^sps.cb /\ h = k * s /\ s \in Nat
  <2>1. sps.cb \in 2 .. 6 /\ b.log - 1 \in sps.cb .. 6
    BY <1>1, <1>2
  <2>2. PICK k : k = 2^((b.log - 1) - sps.cb)
    OBVIOUS
  <2>3. k \in Nat /\ 2^sps.cb \in {4, 8, 16, 32, 64} /\ h = k * 2^sps.cb
    BY <1>3, <2>1, <2>2, PowerIsMultiple
  <2>4. 2^sps.cb \in Nat
    BY <2>3
  <2> QED
    BY <2>3, <2>4
<1>5. PICK c : c = Quarter(b, i, j)
  OBVIOUS
<1>6. /\ c \in Nodes /\ c.log = b.log - 1
      /\ c.x = b.x + (IF i = 0 THEN 0 ELSE h) /\ c.y = b.y + (IF j = 0 THEN 0 ELSE h)
  BY <1>1, <1>2, <1>3, <1>5, QuarterIs
<1>7. PICK p \in Nat, q \in Nat : b.x = p * s /\ b.y = q * s
  BY <1>4 DEF Here, Aligned
<1>8. (p + k) * s = p * s + k * s /\ (q + k) * s = q * s + k * s /\ p * s + 0 = p * s /\ q * s + 0 = q * s
  BY <1>4
<1>9. Aligned(c)
  <2>1. \E u \in Nat : c.x = u * s
    <3>1. CASE i = 0
      <4>1. c.x = p * s + 0
        BY <1>6, <1>7, <3>1
      <4> QED
        BY <1>8, <4>1
    <3>2. CASE i # 0
      <4>1. c.x = p * s + k * s /\ p + k \in Nat
        BY <1>4, <1>6, <1>7, <3>2
      <4> QED
        BY <1>8, <4>1
    <3> QED
      BY <3>1, <3>2
  <2>2. \E u \in Nat : c.y = u * s
    <3>1. CASE j = 0
      <4>1. c.y = q * s + 0
        BY <1>6, <1>7, <3>1
      <4> QED
        BY <1>8, <4>1
    <3>2. CASE j # 0
      <4>1. c.y = q * s + k * s /\ q + k \in Nat
        BY <1>4, <1>6, <1>7, <3>2
      <4> QED
        BY <1>8, <4>1
    <3> QED
      BY <3>1, <3>2
  <2> QED
    BY <1>4, <2>1, <2>2 DEF Aligned
<1> QED
  BY <1>2, <1>5, <1>6, <1>9 DEF Here

(* The blocks of a transform lie where the picture has blocks. *)
LEMMA CellFits ==
  ASSUME NEW x \in Nat, NEW size \in Nat, NEW d \in Nat, NEW s \in {4, 8, 16, 32}, x + d * s <= size,
         NEW i \in 0 .. d - 1
  PROVE  (x \div s) + i \in 0 .. (size \div s) - 1
<1>1. CASE s = 4
  BY <1>1
<1>2. CASE s = 8
  BY <1>2
<1>3. CASE s = 16
  BY <1>3
<1>4. CASE s = 32
  BY <1>4
<1> QED
  BY <1>1, <1>2, <1>3, <1>4

(* The transform blocks marked in cbf_luma lie in the picture. *)
LEMMA CodedIn ==
  ASSUME coded \in CodedStreams, NEW b \in Here, FitsIn(b), NEW cu \in CodingUnits,
         cu.residual \in Residuals(cu, b.log)
  PROVE  CodedBlocks(b, cu) \subseteq (0 .. TbCols - 1) \X (0 .. TbRows - 1)
<1>1. /\ sps.tb \in 2 .. 5 /\ sps.cb \in 3 .. 6 /\ sps.tb < sps.cb /\ sps.width \in Nat /\ sps.height \in Nat
      /\ b.log \in 3 .. 6 /\ b.log \in sps.cb .. sps.ctb /\ b.x \in Nat /\ b.y \in Nat /\ b \in Nodes
      /\ b.x + 2^b.log <= sps.width /\ b.y + 2^b.log <= sps.height
  BY SpsTypes, HereIs DEF FitsIn
<1>2. ASSUME NEW t \in Transforms(b, cu), HasLuma(t, b, cu)
      PROVE  /\ t.x = b.x /\ t.y = b.y
             /\ t.log \in sps.tb .. 6 /\ 2^t.log \in Nat /\ 2^t.log <= 2^b.log
  <2>1. t.x = b.x /\ t.y = b.y
    BY <1>2 DEF HasLuma
  <2>2. cu.residual \in {"split", "swallowed"} => b.log > sps.tb
    BY ResidualIs
  <2>3. t.log = b.log \/ (b.log > 3 /\ t.log = b.log - 1) \/ (b.log = 3 /\ t.log = 2 /\ sps.tb = 2)
    <3>1. t = b \/ (cu.residual \in {"split", "swallowed"} /\ t.log = b.log - 1)
      <4>1. \A i, j : Quarter(b, i, j).log = b.log - 1
        BY DEF Quarter
      <4>2. CASE cu.residual \in {"none", "pcm"}
        BY <1>2, <4>2 DEF Transforms
      <4>3. CASE cu.residual \in {"coded", "dark", "fails"}
        BY <1>2, <4>3 DEF Transforms
      <4>4. CASE cu.residual = "swallowed"
        BY <1>2, <4>1, <4>4 DEF Transforms
      <4>5. CASE cu.residual = "split"
        BY <1>2, <4>1, <4>5 DEF Transforms
      <4> QED
        BY <4>2, <4>3, <4>4, <4>5, ResidualIs
    <3> QED
      BY <1>1, <2>2, <3>1
  <2>4. b.log \in 1 .. 6 /\ t.log \in sps.tb .. 6
    BY <1>1, <2>3
  <2>5. 2^b.log \in Nat /\ 2^(b.log - 1) \in Nat /\ 2^b.log = 2^(b.log - 1) + 2^(b.log - 1)
    BY <2>4, Powers
  <2>6. t.log = b.log \/ t.log = b.log - 1
    BY <1>1, <2>3
  <2>7. 2^t.log \in Nat /\ 2^t.log <= 2^b.log
    <3>1. PICK u \in Nat, v \in Nat : u = 2^b.log /\ v = 2^(b.log - 1) /\ u = v + v
      BY <2>5
    <3> QED
      BY <2>6, <3>1
  <2> QED
    BY <2>1, <2>4, <2>7
<1>3. ASSUME NEW t \in Transforms(b, cu), HasLuma(t, b, cu),
             NEW i \in 0 .. 2^(t.log - sps.tb) - 1, NEW j \in 0 .. 2^(t.log - sps.tb) - 1
      PROVE  /\ (t.x \div 2^sps.tb) + i \in 0 .. TbCols - 1
             /\ (t.y \div 2^sps.tb) + j \in 0 .. TbRows - 1
  <2>1. t.x = b.x /\ t.y = b.y /\ t.log \in sps.tb .. 6 /\ 2^t.log \in Nat /\ 2^t.log <= 2^b.log
    BY <1>2, <1>3
  <2>2. PICK d, s : d = 2^(t.log - sps.tb) /\ s = 2^sps.tb
    OBVIOUS
  <2>3. d \in Nat /\ s \in {4, 8, 16, 32} /\ 2^t.log = d * s
    <3>1. sps.tb \in 2 .. 6
      BY <1>1
    <3>2. d \in Nat /\ s \in {4, 8, 16, 32, 64} /\ 2^t.log = d * s
      BY <2>1, <2>2, <3>1, PowerIsMultiple
    <3>3. s \in {4, 8, 16, 32}
      <4>1. sps.tb = 2 \/ sps.tb = 3 \/ sps.tb = 4 \/ sps.tb = 5
        BY <1>1
      <4> QED
        BY <2>2, <4>1, PowersOfTwo, ZenonT(60)
    <3> QED
      BY <3>2, <3>3
  <2>4. PICK e \in Nat, f \in Nat, x \in Nat, y \in Nat, w \in Nat, h \in Nat :
          /\ e = d * s /\ f = 2^b.log /\ e <= f
          /\ x = b.x /\ y = b.y /\ w = sps.width /\ h = sps.height /\ x + f <= w /\ y + f <= h
    <3>1. 2^b.log \in Nat
      <4>1. b.log \in 1 .. 6
        BY <1>1
      <4> QED
        BY <4>1, Powers
    <3> QED
      BY <1>1, <2>1, <2>3, <3>1
  <2>5. x + e <= w /\ y + e <= h
    BY <2>4
  <2>6. i \in 0 .. d - 1 /\ j \in 0 .. d - 1
    BY <1>3, <2>2
  <2>7. (x \div s) + i \in 0 .. (w \div s) - 1 /\ (y \div s) + j \in 0 .. (h \div s) - 1
    BY <2>3, <2>4, <2>5, <2>6, CellFits
  <2> QED
    BY <2>1, <2>2, <2>4, <2>7 DEF TbCols, TbRows
<1> QED
  BY <1>3 DEF CodedBlocks

(* The samples of a block, and their number. *)
LEMMA SamplesAre ==
  ASSUME coded \in CodedStreams, NEW b \in Here
  PROVE  /\ IsFiniteSet(Samples(b)) /\ Cardinality(Samples(b)) = Units(b)^2
         /\ Units(b)^2 \in Nat \ {0}
<1>1. PICK d : d = b.log - sps.cb
  OBVIOUS
<1>2. d = 0 \/ d = 1 \/ d = 2 \/ d = 3
  <2>1. b.log \in 3 .. 6 /\ b.log \in sps.cb .. sps.ctb /\ sps.cb \in 3 .. 6 /\ sps.ctb \in 4 .. 6
    BY HereIs, SpsTypes
  <2> QED
    BY <1>1, <2>1
<1>3. PICK u : u = Units(b)
  OBVIOUS
<1>4. u \in Nat \ {0} /\ u^2 = u * u
  <2>1. u = 2^d
    BY <1>1, <1>3 DEF Units
  <2>2. CASE d = 0
    BY <2>1, <2>2, PowersOfTwo
  <2>3. CASE d = 1
    BY <2>1, <2>3, PowersOfTwo
  <2>4. CASE d = 2
    BY <2>1, <2>4, PowersOfTwo
  <2>5. CASE d = 3
    BY <2>1, <2>5, PowersOfTwo
  <2> QED
    BY <1>2, <2>2, <2>3, <2>4, <2>5
<1>5. IsFiniteSet(0 .. u - 1) /\ Cardinality(0 .. u - 1) = u
  <2>1. u - 1 \in Int /\ 0 \in Int /\ ~(0 > u - 1) /\ (u - 1) - 0 + 1 = u
    BY <1>4
  <2> QED
    BY <2>1, FS_Interval
<1>6. Samples(b) = (0 .. u - 1) \X (0 .. u - 1)
  BY <1>3 DEF Samples
<1>7. IsFiniteSet(Samples(b)) /\ Cardinality(Samples(b)) = u * u
  BY <1>5, <1>6, FS_Product
<1>8. u * u \in Nat \ {0}
  BY <1>4, NatProduct
<1> QED
  BY <1>3, <1>4, <1>7, <1>8

(* The types found in a block are those of its mode. *)
LEMMA TypesAre ==
  ASSUME NEW b, NEW cu \in CodingUnits, NEW s
  PROVE  /\ cu.mode = "INTRA" => TypeAt(b, cu, s) \in {INTRA_BLK, INTRA_PLN}
         /\ cu.mode = "SKIP" => TypeAt(b, cu, s) \in {SKIPPED, DIRECT}
         /\ cu.mode = "INTER" => TypeAt(b, cu, s) \in 1 .. 3
         /\ cu.mode \in {"SKIP", "INTER", "INTRA"}
<1>1. cu.mode \in {"SKIP", "INTER", "INTRA"} /\ cu.pred_flag[1] \in 1 .. 3 /\ cu.pred_flag[2] \in 1 .. 3
  BY DEF CodingUnits
<1>2. PICK flag : flag \in 1 .. 3 /\ TypeAt(b, cu, s) = GetCodingTypeHEVC(cu, flag)
  <2>1. CASE InFirstPU(cu.part, s[1], s[2], Units(b) * MBs)
    BY <1>1, <2>1 DEF TypeAt
  <2>2. CASE ~InFirstPU(cu.part, s[1], s[2], Units(b) * MBs)
    BY <1>1, <2>2 DEF TypeAt
  <2> QED
    BY <2>1, <2>2
<1>3. CASE cu.mode = "INTRA"
  BY <1>2, <1>3 DEF GetCodingTypeHEVC
<1>4. CASE cu.mode = "SKIP"
  BY <1>2, <1>4 DEF GetCodingTypeHEVC
<1>5. CASE cu.mode = "INTER"
  BY <1>2, <1>5 DEF GetCodingTypeHEVC
<1> QED
  BY <1>1, <1>3, <1>4, <1>5

(* How many samples have a type of a set. *)
LEMMA NumberIs ==
  ASSUME coded \in CodedStreams, NEW b \in Here, NEW cu \in CodingUnits, NEW types
  PROVE  /\ Number(b, cu, types) \in Nat
         /\ (\A s \in Samples(b) : TypeAt(b, cu, s) \in types) => Number(b, cu, types) = Units(b)^2
         /\ (\A s \in Samples(b) : TypeAt(b, cu, s) \notin types) => Number(b, cu, types) = 0
         /\ \A more : types \cap more = {} =>
              Number(b, cu, types \cup more) = Number(b, cu, types) + Number(b, cu, more)
<1> DEFINE Of(T) == {s \in Samples(b) : TypeAt(b, cu, s) \in T}
<1>1. IsFiniteSet(Samples(b)) /\ Cardinality(Samples(b)) = Units(b)^2
  BY SamplesAre
<1>2. \A T : Number(b, cu, T) = Cardinality(Of(T)) /\ IsFiniteSet(Of(T)) /\ Cardinality(Of(T)) \in Nat
  <2> SUFFICES ASSUME NEW T
               PROVE  Number(b, cu, T) = Cardinality(Of(T)) /\ IsFiniteSet(Of(T)) /\ Cardinality(Of(T)) \in Nat
    OBVIOUS
  <2>1. Of(T) \in SUBSET Samples(b)
    OBVIOUS
  <2>2. IsFiniteSet(Of(T))
    BY <1>1, <2>1, FS_Subset
  <2> QED
    BY <2>2, FS_CardinalityType DEF Number
<1>3. ASSUME \A s \in Samples(b) : TypeAt(b, cu, s) \in types
      PROVE  Number(b, cu, types) = Units(b)^2
  <2>1. Of(types) = Samples(b)
    BY <1>3
  <2> HIDE DEF Of
  <2> QED
    BY <1>1, <1>2, <2>1
<1>4. ASSUME \A s \in Samples(b) : TypeAt(b, cu, s) \notin types
      PROVE  Number(b, cu, types) = 0
  <2>1. Of(types) = {}
    BY <1>4
  <2> HIDE DEF Of
  <2> QED
    BY <1>2, <2>1, FS_EmptySet
<1>5. ASSUME NEW more, types \cap more = {}
      PROVE  Number(b, cu, types \cup more) = Number(b, cu, types) + Number(b, cu, more)
  <2>1. Of(types \cup more) = Of(types) \cup Of(more) /\ Of(types) \cap Of(more) = {}
    BY <1>5
  <2> HIDE DEF Of
  <2>2. Cardinality(Of(types) \cup Of(more))
          = Cardinality(Of(types)) + Cardinality(Of(more)) - Cardinality(Of(types) \cap Of(more))
    BY <1>2, FS_Union
  <2>3. PICK u \in Nat, v \in Nat : u = Cardinality(Of(types)) /\ v = Cardinality(Of(more))
    BY <1>2
  <2>4. Cardinality(Of(types) \cap Of(more)) = 0
    BY <2>1, FS_EmptySet
  <2>5. Number(b, cu, types \cup more) = Cardinality(Of(types \cup more))
    BY <1>2
  <2>6. Number(b, cu, types) = u /\ Number(b, cu, more) = v
    BY <1>2, <2>3
  <2>7. Cardinality(Of(types \cup more)) = u + v - 0
    BY <2>1, <2>2, <2>3, <2>4
  <2> QED
    BY <2>5, <2>6, <2>7
<1> QED
  BY <1>2, <1>3, <1>4, <1>5

(* The samples of a block by type, N: those of the types of its mode are   *)
(* all its u samples, the other types have none.                           *)
ByMode(b, cu, u, N) ==
  /\ u \in Nat \ {0} /\ N \in [MbTypeIdx -> Nat]
  /\ N[5] + N[6] = (IF cu.mode = "INTRA" THEN u ELSE 0)
  /\ N[0] + N[4] = (IF cu.mode = "SKIP" THEN u ELSE 0)
  /\ N[1] + (N[2] + N[3]) = (IF cu.mode = "INTER" THEN u ELSE 0)
  /\ Number(b, cu, 1 .. 4) = N[1] + (N[2] + (N[3] + N[4]))
  /\ Number(b, cu, {INTRA_BLK, INTRA_PLN}) = N[5] + N[6]
  /\ Number(b, cu, {SKIPPED}) = N[0]
  /\ Number(b, cu, MbTypeIdx \ {SKIPPED, DIRECT}) = (IF cu.mode = "SKIP" THEN 0 ELSE u)

(* What the types of a block add, by mode. *)
LEMMA NumbersAdd ==
  ASSUME coded \in CodedStreams, NEW b \in Here, NEW cu \in CodingUnits,
         NEW u, u = Units(b)^2, NEW N, N = [t \in MbTypeIdx |-> Number(b, cu, {t})]
  PROVE  ByMode(b, cu, u, N)
<1>1. u \in Nat \ {0} /\ u = Units(b)^2
  BY SamplesAre
<1>2. PICK n0 \in Nat, n1 \in Nat, n2 \in Nat, n3 \in Nat :
           /\ n0 = Number(b, cu, {0}) /\ n1 = Number(b, cu, {1}) /\ n2 = Number(b, cu, {2})
           /\ n3 = Number(b, cu, {3})
  BY NumberIs
<1>3. PICK n4 \in Nat, n5 \in Nat, n6 \in Nat :
           /\ n4 = Number(b, cu, {4}) /\ n5 = Number(b, cu, {5}) /\ n6 = Number(b, cu, {6})
  BY NumberIs
<1>4. Number(b, cu, {5} \cup {6}) = n5 + n6
  <2>1. {5} \cap {6} = {}
    OBVIOUS
  <2>2. Number(b, cu, {5} \cup {6}) = Number(b, cu, {5}) + Number(b, cu, {6})
    BY <2>1, NumberIs
  <2> QED
    BY <1>3, <2>2
<1>5. Number(b, cu, {0} \cup {4}) = n0 + n4
  <2>1. {0} \cap {4} = {}
    OBVIOUS
  <2> QED
    BY <1>2, <1>3, <2>1, NumberIs
<1>6. Number(b, cu, {2} \cup {3}) = n2 + n3
  <2>1. {2} \cap {3} = {}
    OBVIOUS
  <2> QED
    BY <1>2, <2>1, NumberIs
<1>7. Number(b, cu, {1} \cup ({2} \cup {3})) = n1 + (n2 + n3)
  <2>1. PICK more : more = {2} \cup {3}
    OBVIOUS
  <2>2. {1} \cap more = {}
    BY <2>1
  <2>3. Number(b, cu, {1} \cup more) = Number(b, cu, {1}) + Number(b, cu, more)
    BY <2>2, NumberIs
  <2> QED
    BY <1>2, <1>6, <2>1, <2>3
<1>8. Number(b, cu, ({1} \cup ({2} \cup {3})) \cup {4}) = (n1 + (n2 + n3)) + n4
  <2>1. ({1} \cup ({2} \cup {3})) \cap {4} = {}
    OBVIOUS
  <2>2. Number(b, cu, ({1} \cup ({2} \cup {3})) \cup {4})
          = Number(b, cu, {1} \cup ({2} \cup {3})) + Number(b, cu, {4})
    BY <2>1, NumberIs
  <2> QED
    BY <1>3, <1>7, <2>2
<1>9. /\ {5} \cup {6} = {INTRA_BLK, INTRA_PLN} /\ {0} \cup {4} = {SKIPPED, DIRECT} /\ {SKIPPED} = {0}
      /\ {1} \cup ({2} \cup {3}) = 1 .. 3 /\ ({1} \cup ({2} \cup {3})) \cup {4} = 1 .. 4
      /\ MbTypeIdx \ {SKIPPED, DIRECT} = {1, 2, 3, 5, 6}
  BY DEF INTRA_BLK, INTRA_PLN, SKIPPED, DIRECT, MbTypeIdx
<1>10. cu.mode \in {"SKIP", "INTER", "INTRA"}
  BY DEF CodingUnits
<1>11. /\ {INTRA_BLK, INTRA_PLN} \cap {SKIPPED, DIRECT} = {} /\ {INTRA_BLK, INTRA_PLN} \cap 1 .. 3 = {}
       /\ {SKIPPED, DIRECT} \cap 1 .. 3 = {}
       /\ {INTRA_BLK, INTRA_PLN} \subseteq {1, 2, 3, 5, 6} /\ 1 .. 3 \subseteq {1, 2, 3, 5, 6}
       /\ {SKIPPED, DIRECT} \cap {1, 2, 3, 5, 6} = {}
  BY DEF INTRA_BLK, INTRA_PLN, SKIPPED, DIRECT
<1>12. ASSUME NEW set, NEW types,
              \A s \in Samples(b) : TypeAt(b, cu, s) \in types
       PROVE  /\ types \subseteq set => Number(b, cu, set) = u
              /\ types \cap set = {} => Number(b, cu, set) = 0
  BY <1>1, <1>12, NumberIs
<1>13. \E types \in {{INTRA_BLK, INTRA_PLN}, {SKIPPED, DIRECT}, 1 .. 3} :
         /\ \A s \in Samples(b) : TypeAt(b, cu, s) \in types
         /\ types = (IF cu.mode = "INTRA" THEN {INTRA_BLK, INTRA_PLN}
                     ELSE IF cu.mode = "SKIP" THEN {SKIPPED, DIRECT} ELSE 1 .. 3)
  <2>1. CASE cu.mode = "INTRA"
    BY <2>1, TypesAre
  <2>2. CASE cu.mode = "SKIP"
    BY <2>2, TypesAre
  <2>3. CASE cu.mode = "INTER"
    BY <2>3, TypesAre
  <2> QED
    BY <1>10, <2>1, <2>2, <2>3
<1>14. /\ Number(b, cu, {INTRA_BLK, INTRA_PLN}) = (IF cu.mode = "INTRA" THEN u ELSE 0)
       /\ Number(b, cu, {SKIPPED, DIRECT}) = (IF cu.mode = "SKIP" THEN u ELSE 0)
       /\ Number(b, cu, 1 .. 3) = (IF cu.mode = "INTER" THEN u ELSE 0)
       /\ Number(b, cu, {1, 2, 3, 5, 6}) = (IF cu.mode = "SKIP" THEN 0 ELSE u)
  <2>1. CASE cu.mode = "INTRA"
    BY <1>11, <1>12, <1>13, <2>1
  <2>2. CASE cu.mode = "SKIP"
    <3>1. \A s \in Samples(b) : TypeAt(b, cu, s) \in {SKIPPED, DIRECT}
      BY <2>2, TypesAre
    <3>2. /\ Number(b, cu, {INTRA_BLK, INTRA_PLN}) = 0
          /\ Number(b, cu, 1 .. 3) = 0 /\ Number(b, cu, {1, 2, 3, 5, 6}) = 0
      BY <1>11, <1>12, <3>1
    <3>3. Number(b, cu, {SKIPPED, DIRECT}) = u
      BY <1>12, <3>1
    <3> QED
      BY <2>2, <3>2, <3>3
  <2>3. CASE cu.mode = "INTER"
    BY <1>11, <1>12, <1>13, <2>3
  <2> QED
    BY <1>10, <2>1, <2>2, <2>3
<1>15. /\ n5 + n6 = (IF cu.mode = "INTRA" THEN u ELSE 0)
       /\ n0 + n4 = (IF cu.mode = "SKIP" THEN u ELSE 0)
       /\ n1 + (n2 + n3) = (IF cu.mode = "INTER" THEN u ELSE 0)
  BY <1>4, <1>5, <1>7, <1>9, <1>14
<1>16. /\ Number(b, cu, 1 .. 4) = n1 + (n2 + (n3 + n4))
       /\ Number(b, cu, {INTRA_BLK, INTRA_PLN}) = n5 + n6
       /\ Number(b, cu, {SKIPPED}) = n0
       /\ Number(b, cu, MbTypeIdx \ {SKIPPED, DIRECT}) = (IF cu.mode = "SKIP" THEN 0 ELSE u)
  <2>1. (n1 + (n2 + n3)) + n4 = n1 + (n2 + (n3 + n4))
    OBVIOUS
  <2> QED
    BY <1>2, <1>4, <1>8, <1>9, <1>14, <2>1
<1>17. N \in [MbTypeIdx -> Nat]
  BY NumberIs
<1>18. /\ N[0] = n0 /\ N[1] = n1 /\ N[2] = n2 /\ N[3] = n3 /\ N[4] = n4 /\ N[5] = n5 /\ N[6] = n6
  BY <1>2, <1>3 DEF MbTypeIdx
<1> QED
  BY <1>1, <1>15, <1>16, <1>17, <1>18 DEF ByMode

(* The weights of coding blocks: their area, their smallest coding blocks, *)
(* and what a measure of nodes gives.                                      *)
AreaW == [c \in BlockRecords |-> Area(c.b.log)]
UnitW == [c \in BlockRecords |-> Units(c.b)^2]
OnBlocks(w) == [c \in BlockRecords |-> w[c.b]]

(* One summand more, for sets written out. *)
LEMMA TotalMore ==
  ASSUME NEW I, IsFiniteSet(I), NEW f, NEW x, x \notin I, \A i \in I \cup {x} : f[i] \in Int, NEW J, J = I \cup {x}
  PROVE  IsFiniteSet(J) /\ Total(f, J) = f[x] + Total(f, I)
<1>1. Integral(f, I \cup {x})
  BY DEF Integral
<1> QED
  BY <1>1, TotalAdd, FS_AddElement

(* Sum of four values. *)
LEMMA SumOfFour ==
  ASSUME NEW f, DOMAIN f = 2 .. 5, \A i \in 2 .. 5 : f[i] \in Int
  PROVE  SumOf(f) = f[2] + (f[3] + (f[4] + f[5]))
<1>1. IsFiniteSet({}) /\ Total(f, {}) = 0
  BY FS_EmptySet, TotalEmpty
<1>2. IsFiniteSet({5}) /\ Total(f, {5}) = f[5] + Total(f, {})
  <2>1. {5} = {} \cup {5} /\ 5 \notin {} /\ \A j \in {} \cup {5} : f[j] \in Int
    OBVIOUS
  <2>2. IsFiniteSet({})
    BY <1>1
  <2> QED
    BY <2>1, <2>2, TotalMore
<1>3. IsFiniteSet({4, 5}) /\ Total(f, {4, 5}) = f[4] + Total(f, {5})
  <2>1. {4, 5} = {5} \cup {4} /\ 4 \notin {5} /\ \A j \in {5} \cup {4} : f[j] \in Int
    OBVIOUS
  <2>2. IsFiniteSet({5})
    BY <1>2
  <2> QED
    BY <2>1, <2>2, TotalMore
<1>4. IsFiniteSet({3, 4, 5}) /\ Total(f, {3, 4, 5}) = f[3] + Total(f, {4, 5})
  <2>1. {3, 4, 5} = {4, 5} \cup {3} /\ 3 \notin {4, 5} /\ \A j \in {4, 5} \cup {3} : f[j] \in Int
    OBVIOUS
  <2>2. IsFiniteSet({4, 5})
    BY <1>3
  <2> QED
    BY <2>1, <2>2, TotalMore
<1>5. IsFiniteSet({2, 3, 4, 5}) /\ Total(f, {2, 3, 4, 5}) = f[2] + Total(f, {3, 4, 5})
  <2>1. {2, 3, 4, 5} = {3, 4, 5} \cup {2} /\ 2 \notin {3, 4, 5} /\ \A j \in {3, 4, 5} \cup {2} : f[j] \in Int
    OBVIOUS
  <2>2. IsFiniteSet({3, 4, 5})
    BY <1>4
  <2> QED
    BY <2>1, <2>2, TotalMore
<1>6. SumOf(f) = Total(f, {2, 3, 4, 5})
  <2>1. DOMAIN f = {2, 3, 4, 5} /\ Integral(f, {2, 3, 4, 5})
    BY DEF Integral
  <2> QED
    BY <1>5, <2>1, SumIsTotal
<1> QED
  BY <1>1, <1>2, <1>3, <1>4, <1>5, <1>6

(* Sum of nine values. *)
LEMMA SumOfNine ==
  ASSUME NEW f, DOMAIN f = 0 .. 8, \A i \in 0 .. 8 : f[i] \in Int
  PROVE  SumOf(f) = f[0] + (f[1] + (f[2] + (f[3] + (f[4] + (f[5] + (f[6] + (f[7] + f[8])))))))
<1>1. IsFiniteSet({}) /\ Total(f, {}) = 0
  BY FS_EmptySet, TotalEmpty
<1>2. IsFiniteSet({8}) /\ Total(f, {8}) = f[8] + Total(f, {})
  <2>1. {8} = {} \cup {8} /\ 8 \notin {} /\ \A j \in {} \cup {8} : f[j] \in Int
    OBVIOUS
  <2>2. IsFiniteSet({})
    BY <1>1
  <2> QED
    BY <2>1, <2>2, TotalMore
<1>3. IsFiniteSet({7, 8}) /\ Total(f, {7, 8}) = f[7] + Total(f, {8})
  <2>1. {7, 8} = {8} \cup {7} /\ 7 \notin {8} /\ \A j \in {8} \cup {7} : f[j] \in Int
    OBVIOUS
  <2>2. IsFiniteSet({8})
    BY <1>2
  <2> QED
    BY <2>1, <2>2, TotalMore
<1>4. IsFiniteSet({6, 7, 8}) /\ Total(f, {6, 7, 8}) = f[6] + Total(f, {7, 8})
  <2>1. {6, 7, 8} = {7, 8} \cup {6} /\ 6 \notin {7, 8} /\ \A j \in {7, 8} \cup {6} : f[j] \in Int
    OBVIOUS
  <2>2. IsFiniteSet({7, 8})
    BY <1>3
  <2> QED
    BY <2>1, <2>2, TotalMore
<1>5. IsFiniteSet({5, 6, 7, 8}) /\ Total(f, {5, 6, 7, 8}) = f[5] + Total(f, {6, 7, 8})
  <2>1. {5, 6, 7, 8} = {6, 7, 8} \cup {5} /\ 5 \notin {6, 7, 8} /\ \A j \in {6, 7, 8} \cup {5} : f[j] \in Int
    OBVIOUS
  <2>2. IsFiniteSet({6, 7, 8})
    BY <1>4
  <2> QED
    BY <2>1, <2>2, TotalMore
<1>6. IsFiniteSet({4, 5, 6, 7, 8}) /\ Total(f, {4, 5, 6, 7, 8}) = f[4] + Total(f, {5, 6, 7, 8})
  <2>1. {4, 5, 6, 7, 8} = {5, 6, 7, 8} \cup {4} /\ 4 \notin {5, 6, 7, 8} /\ \A j \in {5, 6, 7, 8} \cup {4} : f[j] \in Int
    OBVIOUS
  <2>2. IsFiniteSet({5, 6, 7, 8})
    BY <1>5
  <2> QED
    BY <2>1, <2>2, TotalMore
<1>7. IsFiniteSet({3, 4, 5, 6, 7, 8}) /\ Total(f, {3, 4, 5, 6, 7, 8}) = f[3] + Total(f, {4, 5, 6, 7, 8})
  <2>1. {3, 4, 5, 6, 7, 8} = {4, 5, 6, 7, 8} \cup {3} /\ 3 \notin {4, 5, 6, 7, 8} /\ \A j \in {4, 5, 6, 7, 8} \cup {3} : f[j] \in Int
    OBVIOUS
  <2>2. IsFiniteSet({4, 5, 6, 7, 8})
    BY <1>6
  <2> QED
    BY <2>1, <2>2, TotalMore
<1>8. IsFiniteSet({2, 3, 4, 5, 6, 7, 8}) /\ Total(f, {2, 3, 4, 5, 6, 7, 8}) = f[2] + Total(f, {3, 4, 5, 6, 7, 8})
  <2>1. {2, 3, 4, 5, 6, 7, 8} = {3, 4, 5, 6, 7, 8} \cup {2} /\ 2 \notin {3, 4, 5, 6, 7, 8} /\ \A j \in {3, 4, 5, 6, 7, 8} \cup {2} : f[j] \in Int
    OBVIOUS
  <2>2. IsFiniteSet({3, 4, 5, 6, 7, 8})
    BY <1>7
  <2> QED
    BY <2>1, <2>2, TotalMore
<1>9. IsFiniteSet({1, 2, 3, 4, 5, 6, 7, 8}) /\ Total(f, {1, 2, 3, 4, 5, 6, 7, 8}) = f[1] + Total(f, {2, 3, 4, 5, 6, 7, 8})
  <2>1. {1, 2, 3, 4, 5, 6, 7, 8} = {2, 3, 4, 5, 6, 7, 8} \cup {1} /\ 1 \notin {2, 3, 4, 5, 6, 7, 8} /\ \A j \in {2, 3, 4, 5, 6, 7, 8} \cup {1} : f[j] \in Int
    OBVIOUS
  <2>2. IsFiniteSet({2, 3, 4, 5, 6, 7, 8})
    BY <1>8
  <2> QED
    BY <2>1, <2>2, TotalMore
<1>10. IsFiniteSet({0, 1, 2, 3, 4, 5, 6, 7, 8}) /\ Total(f, {0, 1, 2, 3, 4, 5, 6, 7, 8}) = f[0] + Total(f, {1, 2, 3, 4, 5, 6, 7, 8})
  <2>1. {0, 1, 2, 3, 4, 5, 6, 7, 8} = {1, 2, 3, 4, 5, 6, 7, 8} \cup {0} /\ 0 \notin {1, 2, 3, 4, 5, 6, 7, 8} /\ \A j \in {1, 2, 3, 4, 5, 6, 7, 8} \cup {0} : f[j] \in Int
    OBVIOUS
  <2>2. IsFiniteSet({1, 2, 3, 4, 5, 6, 7, 8})
    BY <1>9
  <2> QED
    BY <2>1, <2>2, TotalMore
<1>11. SumOf(f) = Total(f, {0, 1, 2, 3, 4, 5, 6, 7, 8})
  <2>1. DOMAIN f = {0, 1, 2, 3, 4, 5, 6, 7, 8} /\ Integral(f, {0, 1, 2, 3, 4, 5, 6, 7, 8})
    BY DEF Integral
  <2> QED
    BY <1>10, <2>1, SumIsTotal
<1> QED
  BY <1>1, <1>2, <1>3, <1>4, <1>5, <1>6, <1>7, <1>8, <1>9, <1>10, <1>11

(* SumOf over coding blocks is a total of weights. *)
LEMMA SumOverBlocks ==
  ASSUME NEW bs, bs \subseteq BlockRecords, IsFiniteSet(bs), NEW w \in [BlockRecords -> Nat],
         NEW f, DOMAIN f = bs, \A c \in bs : f[c] = w[c]
  PROVE  SumOf(f) = Total(w, bs)
<1>1. Integral(f, bs) /\ Integral(w, bs)
  BY DEF Integral
<1>2. SumOf(f) = Total(f, bs)
  BY <1>1, SumIsTotal
<1>3. Total(f, bs) = Total(w, bs)
  BY <1>1, TotalSame
<1> QED
  BY <1>2, <1>3

(* One more coding block adds its weight. *)
LEMMA SumGrows ==
  ASSUME NEW bs, bs \subseteq BlockRecords, IsFiniteSet(bs), NEW w \in [BlockRecords -> Nat],
         NEW c, c \in BlockRecords, c \notin bs
  PROVE  Total(w, bs) \in Nat /\ Total(w, bs \cup {c}) = w[c] + Total(w, bs)
<1>1. Integral(w, bs \cup {c}) /\ \A i \in bs : w[i] \in Nat
  BY DEF Integral
<1> QED
  BY <1>1, TotalAdd, TotalNat

(* The weights are natural numbers. *)
LEMMA WeightsTyped ==
  ASSUME coded \in CodedStreams
  PROVE  AreaW \in [BlockRecords -> Nat] /\ UnitW \in [BlockRecords -> Nat]
<1>1. ASSUME NEW c \in BlockRecords
      PROVE  Area(c.b.log) \in Nat /\ Units(c.b)^2 \in Nat
  <2>1. c.b \in Here
    BY DEF BlockRecords
  <2>2. c.b.log \in 3 .. 6
    BY <2>1, HereIs
  <2> QED
    BY <2>1, <2>2, AreaTypes, SamplesAre
<1> QED
  BY <1>1 DEF AreaW, UnitW

(* The areas of coding blocks are totals of weights. *)
LEMMA BlockAreas ==
  ASSUME coded \in CodedStreams, NEW bs, bs \subseteq BlockRecords, IsFiniteSet(bs)
  PROVE  /\ AreaOf(bs) = Total(AreaW, bs) /\ AreaOf(bs) \in Nat
         /\ CbAreaOf(bs) = Total(UnitW, bs) /\ CbAreaOf(bs) \in Nat
<1>1. AreaW \in [BlockRecords -> Nat] /\ UnitW \in [BlockRecords -> Nat]
  BY WeightsTyped
<1>2. AreaOf(bs) = Total(AreaW, bs)
  <2>1. PICK f : f = [c \in bs |-> Area(c.b.log)]
    OBVIOUS
  <2>2. DOMAIN f = bs /\ \A c \in bs : f[c] = AreaW[c]
    BY <2>1 DEF AreaW
  <2>3. SumOf(f) = Total(AreaW, bs)
    BY <1>1, <2>2, SumOverBlocks
  <2> QED
    BY <2>1, <2>3 DEF AreaOf
<1>3. CbAreaOf(bs) = Total(UnitW, bs)
  <2>1. PICK f : f = [c \in bs |-> Units(c.b)^2]
    OBVIOUS
  <2>2. DOMAIN f = bs /\ \A c \in bs : f[c] = UnitW[c]
    BY <2>1 DEF UnitW
  <2>3. SumOf(f) = Total(UnitW, bs)
    BY <1>1, <2>2, SumOverBlocks
  <2> QED
    BY <2>1, <2>3 DEF CbAreaOf
<1>4. \A i \in bs : AreaW[i] \in Nat /\ UnitW[i] \in Nat
  BY <1>1
<1> QED
  BY <1>2, <1>3, <1>4, TotalNat

(* One more coding block adds its area. *)
LEMMA AreasGrow ==
  ASSUME coded \in CodedStreams, NEW bs, bs \subseteq BlockRecords, IsFiniteSet(bs),
         NEW c, c \in BlockRecords, c \notin bs
  PROVE  /\ AreaOf(bs) \in Nat /\ AreaOf(bs \cup {c}) = Area(c.b.log) + AreaOf(bs)
         /\ CbAreaOf(bs) \in Nat /\ CbAreaOf(bs \cup {c}) = Units(c.b)^2 + CbAreaOf(bs)
<1>1. bs \cup {c} \subseteq BlockRecords /\ IsFiniteSet(bs \cup {c})
  BY FS_AddElement
<1>2. /\ AreaOf(bs) = Total(AreaW, bs) /\ CbAreaOf(bs) = Total(UnitW, bs)
      /\ AreaOf(bs) \in Nat /\ CbAreaOf(bs) \in Nat
      /\ AreaOf(bs \cup {c}) = Total(AreaW, bs \cup {c}) /\ CbAreaOf(bs \cup {c}) = Total(UnitW, bs \cup {c})
  BY <1>1, BlockAreas
<1>3. AreaW \in [BlockRecords -> Nat] /\ UnitW \in [BlockRecords -> Nat]
  BY WeightsTyped
<1>4. /\ Total(AreaW, bs \cup {c}) = AreaW[c] + Total(AreaW, bs)
      /\ Total(UnitW, bs \cup {c}) = UnitW[c] + Total(UnitW, bs)
  BY <1>3, SumGrows
<1>5. AreaW[c] = Area(c.b.log) /\ UnitW[c] = Units(c.b)^2
  BY DEF AreaW, UnitW
<1> QED
  BY <1>2, <1>4, <1>5

(* No coding blocks have no area. *)
LEMMA NoAreas ==
  ASSUME coded \in CodedStreams
  PROVE  AreaOf({}) = 0 /\ CbAreaOf({}) = 0 /\ \A w : Total(w, {}) = 0
<1>1. IsFiniteSet({}) /\ {} \subseteq BlockRecords
  BY FS_EmptySet
<1> QED
  BY <1>1, BlockAreas, TotalEmpty

(* One more block adds to the blocks of its mode. *)
LEMMA ModesGrow ==
  ASSUME coded \in CodedStreams, NEW bs, bs \subseteq BlockRecords, IsFiniteSet(bs),
         NEW c, c \in BlockRecords, c \notin bs, NEW mode, NEW u, u = Units(c.b)^2
  PROVE  /\ CbAreaOf(OfMode(bs, {mode})) \in Nat
         /\ CbAreaOf(OfMode(bs \cup {c}, {mode}))
              = (IF c.cu.mode = mode THEN u ELSE 0) + CbAreaOf(OfMode(bs, {mode}))
<1>1. OfMode(bs, {mode}) \in SUBSET bs /\ c \notin OfMode(bs, {mode})
  BY DEF OfMode
<1>2. OfMode(bs, {mode}) \subseteq BlockRecords /\ IsFiniteSet(OfMode(bs, {mode}))
  BY <1>1, FS_Subset
<1>3. /\ CbAreaOf(OfMode(bs, {mode})) \in Nat
      /\ CbAreaOf(OfMode(bs, {mode}) \cup {c}) = u + CbAreaOf(OfMode(bs, {mode}))
  BY <1>1, <1>2, AreasGrow
<1>4. OfMode(bs \cup {c}, {mode}) = IF c.cu.mode = mode THEN OfMode(bs, {mode}) \cup {c} ELSE OfMode(bs, {mode})
  BY DEF OfMode
<1>5. CASE c.cu.mode = mode
  BY <1>3, <1>4, <1>5
<1>6. CASE c.cu.mode # mode
  BY <1>3, <1>4, <1>6
<1> QED
  BY <1>5, <1>6

(* A node in front adds its measure, in the picture or not. *)
LEMMA InsideAdds ==
  ASSUME NEW w, Measure(w), NEW s \in Seq(Here), NEW k, Adds(w, s, k),
         NEW x \in Nodes, InPicture(x) => x \in Here
  PROVE  /\ Inside(x) \in Seq(Here) /\ Inside(x) \o s \in Seq(Here)
         /\ Adds(w, Inside(x) \o s, w[x] + k)
<1>1. w \in [Nodes -> Int] /\ s \in Seq(Nodes) /\ Here \subseteq Nodes
  <2>1. w \in [Nodes -> Nat] /\ Here \subseteq Nodes
    BY DEF Measure, Here
  <2>2. w \in [Nodes -> Int] /\ s \in Seq(Nodes)
    BY <2>1
  <2> QED
    BY <2>1, <2>2
<1>2. Adds(w, <<x>> \o s, w[x] + k) /\ k \in Int
  BY <1>1, AddsBefore
<1>3. CASE InPicture(x)
  <2>1. Inside(x) = <<x>> /\ x \in Here
    BY <1>3 DEF Inside
  <2> QED
    BY <1>2, <2>1
<1>4. CASE ~InPicture(x)
  <2>1. Inside(x) = <<>> /\ w[x] = 0
    BY <1>4 DEF Inside, Measure
  <2>2. Inside(x) \o s = s /\ w[x] + k = k
    BY <1>2, <2>1
  <2> QED
    BY <2>1, <2>2
<1> QED
  BY <1>3, <1>4

(* A node gives way to its quarters. *)
LEMMA QuartersAdd ==
  ASSUME coded \in CodedStreams, NEW b \in Here, b.log > sps.cb, NEW q \in Boxes,
         NEW s \in Seq(Here), NEW k, Adds(Shared(q), s, k)
  PROVE  /\ Quarters(b) \o s \in Seq(Here)
         /\ Adds(Shared(q), Quarters(b) \o s, Shared(q)[b] + k)
<1>1. PICK c, d, e, f : /\ c = Quarter(b, 0, 0) /\ d = Quarter(b, 1, 0)
                        /\ e = Quarter(b, 0, 1) /\ f = Quarter(b, 1, 1)
  OBVIOUS
<1>2. /\ c \in Nodes /\ d \in Nodes /\ e \in Nodes /\ f \in Nodes
      /\ InPicture(c) => c \in Here
      /\ InPicture(d) => d \in Here
      /\ InPicture(e) => e \in Here
      /\ InPicture(f) => f \in Here
  <2>1. 0 \in 0 .. 1 /\ 1 \in 0 .. 1
    OBVIOUS
  <2> QED
    BY <1>1, <2>1, QuarterHere
<1>3. PICK w : w = Shared(q)
  OBVIOUS
<1>4. Measure(w)
  BY <1>3, SharedIsMeasure
<1>5. b \in Nodes /\ b.log > 3
  BY HereIs, SpsTypes
<1>6. w[b] = w[c] + (w[d] + (w[e] + w[f]))
  BY <1>1, <1>3, <1>5, QuartersShare
<1>7. Adds(w, s, k)
  BY <1>3
<1>8. /\ Inside(f) \in Seq(Here) /\ Inside(f) \o s \in Seq(Here)
      /\ Adds(w, Inside(f) \o s, w[f] + k)
  BY <1>2, <1>4, <1>7, InsideAdds
<1>9. /\ Inside(e) \in Seq(Here) /\ Inside(e) \o (Inside(f) \o s) \in Seq(Here)
      /\ Adds(w, Inside(e) \o (Inside(f) \o s), w[e] + (w[f] + k))
  BY <1>2, <1>4, <1>8, InsideAdds
<1>10. /\ Inside(d) \in Seq(Here) /\ Inside(d) \o (Inside(e) \o (Inside(f) \o s)) \in Seq(Here)
       /\ Adds(w, Inside(d) \o (Inside(e) \o (Inside(f) \o s)), w[d] + (w[e] + (w[f] + k)))
  BY <1>2, <1>4, <1>9, InsideAdds
<1>11. /\ Inside(c) \in Seq(Here)
       /\ Inside(c) \o (Inside(d) \o (Inside(e) \o (Inside(f) \o s))) \in Seq(Here)
       /\ Adds(w, Inside(c) \o (Inside(d) \o (Inside(e) \o (Inside(f) \o s))), w[c] + (w[d] + (w[e] + (w[f] + k))))
  BY <1>2, <1>4, <1>10, InsideAdds
<1>12. Quarters(b) \o s = Inside(c) \o (Inside(d) \o (Inside(e) \o (Inside(f) \o s)))
  <2>1. Quarters(b) = Cat(Cat(Cat(Inside(c), Inside(d)), Inside(e)), Inside(f))
    BY <1>1 DEF Quarters, Cat
  <2>2. Cat(Cat(Cat(Cat(Inside(c), Inside(d)), Inside(e)), Inside(f)), s)
          = Cat(Inside(c), Cat(Inside(d), Cat(Inside(e), Cat(Inside(f), s))))
    BY <1>8, <1>9, <1>10, <1>11, ConcatFour
  <2> QED
    BY <2>1, <2>2 DEF Cat
<1>13. w[c] + (w[d] + (w[e] + (w[f] + k))) = w[b] + k
  <2>1. w[c] \in Int /\ w[d] \in Int /\ w[e] \in Int /\ w[f] \in Int
    BY <1>2, <1>4 DEF Measure
  <2>2. k \in Int
    <3>1. w \in [Nodes -> Nat] /\ Here \subseteq Nodes
      BY <1>4 DEF Measure, Here
    <3>2. w \in [Nodes -> Nat] /\ s \in Seq(Nodes)
      BY <3>1
    <3>3. k \in Nat
      BY <1>7, <3>2, AddsNat
    <3> QED
      BY <3>3
  <2>3. PICK r \in Int, t \in Int, u \in Int, v \in Int : r = w[c] /\ t = w[d] /\ u = w[e] /\ v = w[f]
    BY <2>1
  <2>4. w[b] = r + (t + (u + v))
    BY <1>6, <2>3
  <2>5. r + (t + (u + (v + k))) = (r + (t + (u + v))) + k
    BY <2>2
  <2> QED
    BY <2>3, <2>4, <2>5
<1> QED
  BY <1>3, <1>11, <1>12, <1>13

(* A new coding tree block. *)
LEMMA RootAdds ==
  ASSUME coded \in CodedStreams, NEW m, m \in 0 .. Ctbs - 1
  PROVE  /\ <<Root(m)>> \in Seq(Here)
         /\ \A q \in Boxes : Adds(Shared(q), <<Root(m)>>, Shared(q)[Root(m)])
<1>1. Root(m) \in Here /\ Root(m) \in Nodes
  BY RootHere, HereIs
<1>2. ASSUME NEW q \in Boxes
      PROVE  Adds(Shared(q), <<Root(m)>>, Shared(q)[Root(m)])
  <2>1. PICK w, x : w = Shared(q) /\ x = Root(m) /\ x \in Nodes
    BY <1>1
  <2>2. w \in [Nodes -> Nat]
    BY <2>1, SharedIsMeasure DEF Measure
  <2>3. w \in [Nodes -> Int] /\ <<>> \in Seq(Nodes) /\ w[x] \in Int
    BY <2>1, <2>2
  <2>4. Adds(w, <<>>, 0)
    BY AddsNone
  <2>5. Adds(w, <<x>> \o <<>>, w[x] + 0)
    BY <2>1, <2>3, <2>4, AddsBefore
  <2>6. <<x>> \o <<>> = <<x>> /\ w[x] + 0 = w[x]
    BY <2>1, <2>3
  <2> QED
    BY <2>1, <2>5, <2>6
<1> QED
  BY <1>1, <1>2

(* Types; the coding blocks and the nodes to be visited are aligned and    *)
(* lie in the picture.                                                     *)
BlocksTyped ==
  /\ coded \in CodedStreams
  /\ pic \in 0 .. Len(coded.pictures) /\ segment \in Nat /\ ctb \in Nat
  /\ todo \in Seq(Here)
  /\ stat \in Statistics
  /\ cbf_luma \subseteq (0 .. TbCols - 1) \X (0 .. TbRows - 1)
  /\ BlkShapes \in [0 .. 8 -> Nat]
  /\ blocks \subseteq BlockRecords /\ IsFiniteSet(blocks)
  /\ \A c \in blocks : FitsIn(c.b) /\ c.slice <= segment
  /\ stage \in {"slice", "between", "lost", "decoded", "shown", "misused"}

(* Where the decoder is in the stream. A slice segment is lost if and only *)
(* if a block of it failed.                                                *)
StepsKept ==
  /\ stage # "shown" => pic >= 1
  /\ pic >= 1 => segment \in 1 .. Len(SliceSeq) /\ ctb \in 0 .. Ctbs - 1
  /\ pic = 0 => segment = 0 /\ blocks = {}
  /\ stage = "between" => segment < Len(SliceSeq) /\ ctb + 1 < Ctbs
  /\ stage \in {"slice", "between", "decoded"} => ~Lost
  /\ stage = "lost" => Lost

(* A border leaves something between its halves. *)
Centered(border) == border \in Nat /\ 2 * border < sps.height

(* The border that belongs to the blocks with coefficients. *)
OfPicture(border) == IsBorder(BlackLine, TbRows, (72 * TbCols) \div 100, 2^sps.tb, border)

(* The border in force was found in a whole I picture, and a slice segment *)
(* keeps the one it began with until its end.                              *)
BorderKept ==
  /\ Centered(CurrBlackBorder) /\ Centered(excluded)
  /\ stage \in {"slice", "lost"} => stat.BlackBorder = excluded /\ CurrBlackBorder = excluded
  /\ stage \in {"decoded", "shown"} /\ pic >= 1 =>
       /\ stat.BlackBorder = CurrBlackBorder
       /\ pict_type = "I" /\ ~Lost => OfPicture(CurrBlackBorder)
       /\ pict_type # "I" \/ Lost => CurrBlackBorder = excluded
  /\ stage = "misused" => sps.height > sps.width

(* The partitions and the transforms counted have the area of the coding   *)
(* blocks of the slice segment.                                            *)
AreaKept ==
  /\ (\A c \in LastBlocks : c.cu.part < 6) => PUArea(stat.PU_Stat) = AreaOf(LastBlocks)
  /\ (\A c \in LastBlocks : c.cu.residual \notin {"pcm", "swallowed"}) =>
       TrArea(stat.TrShapes) = AreaOf(LastBlocks)
  /\ Shown => BlkShapes = ShapeStatisticsHEVC(stat.PU_Stat)

(* The blocks of 4x4 a smallest coding block counts for in P and B         *)
(* pictures.                                                               *)
InterUnits == IF pict_type = "I" THEN 0 ELSE 4

(* The smallest coding blocks of a mode. *)
ModeArea(mode) == CbAreaOf(OfMode(TypedBlocks, {mode}))

(* The types counted are those of the coding blocks, mode by mode. *)
TypesKept ==
  /\ stat.MbTypes[5] + stat.MbTypes[6] = ModeArea("INTRA")
  /\ stat.MbTypes[0] + stat.MbTypes[4] = ModeArea("SKIP")
  /\ stat.MbTypes[1] + (stat.MbTypes[2] + stat.MbTypes[3]) = ModeArea("INTER")
  /\ stat.NumBlksIntra = InterUnits * ModeArea("INTRA")
  /\ stat.NumBlksMv + stat.NumBlksSkip = InterUnits * (ModeArea("INTER") + ModeArea("SKIP"))

(* What a box shares with the nodes to be visited and with the coding      *)
(* blocks of the slice segment is what lies in the coding tree blocks from *)
(* the first to the last.                                                  *)
Tiled(q, from, to) ==
  \E k : /\ Adds(Shared(q), todo, k)
         /\ k + Total(OnBlocks(Shared(q)), LastBlocks) = Begun(q, to) - Begun(q, from)

(* So it is of every box while a slice segment is decoded; a picture of    *)
(* one slice segment begins at the first coding tree block, and if it is   *)
(* whole its coding blocks share everything.                               *)
TilesKept ==
  /\ stage = "slice" =>
       \E first \in 0 .. ctb : /\ segment = 1 => first = 0
                               /\ \A q \in Boxes : Tiled(q, first, ctb + 1)
  /\ stage \in {"decoded", "shown"} /\ pic >= 1 /\ segment = 1 /\ ~Lost =>
       \A q \in Boxes : Total(OnBlocks(Shared(q)), LastBlocks) = Begun(q, Ctbs)

(* The QPs within the border are some of all QPs, and an intra block that  *)
(* begins within it has one. An I picture of one slice segment has intra   *)
(* blocks only.                                                            *)
QpKept ==
  /\ stat.QpCntBB <= stat.QpCnt
  /\ \A c \in TypedBlocks : c.cu.mode = "INTRA" /\ c.b.y >= excluded /\ sps.height - c.b.y > excluded =>
       stat.QpCntBB > 0
  /\ segment = 1 /\ pic >= 1 /\ pict_type = "I" => \A c \in LastBlocks : c.cu.mode = "INTRA"

(* The inductive invariant. *)
BlocksInv == BlocksTyped /\ StepsKept /\ BorderKept /\ AreaKept /\ TypesKept /\ TilesKept /\ QpKept

-----------------------------------------------------------------------------

(* As long as the stream is the same, so are its sizes, *)
LEMMA SameSps ==
  ASSUME coded' = coded
  PROVE  /\ sps' = sps /\ Here' = Here /\ BlockRecords' = BlockRecords /\ Boxes' = Boxes
         /\ CtbCols' = CtbCols /\ CtbRows' = CtbRows /\ Ctbs' = Ctbs /\ TbCols' = TbCols /\ TbRows' = TbRows
         /\ \A b : FitsIn(b)' = FitsIn(b) /\ Units(b)' = Units(b)
         /\ \A m : Root(m)' = Root(m)
         /\ \A border : Centered(border)' = Centered(border)
<1>1. sps' = sps
  BY DEF sps
<1>2. CtbCols' = CtbCols /\ CtbRows' = CtbRows /\ TbCols' = TbCols /\ TbRows' = TbRows
  BY <1>1 DEF CtbCols, CtbRows, TbCols, TbRows
<1>3. Here' = Here
  BY <1>1 DEF Here, InPicture, Aligned
<1>4. BlockRecords' = BlockRecords /\ Boxes' = Boxes
  BY <1>1, <1>3 DEF BlockRecords, Boxes
<1>5. Ctbs' = Ctbs /\ \A m : Root(m)' = Root(m)
  BY <1>1, <1>2 DEF Ctbs, Root
<1>6. \A b : FitsIn(b)' = FitsIn(b) /\ Units(b)' = Units(b)
  BY <1>1 DEF FitsIn, Units
<1>7. \A border : Centered(border)' = Centered(border)
  BY <1>1 DEF Centered
<1> QED
  BY <1>1, <1>2, <1>3, <1>4, <1>5, <1>6, <1>7

(* the measures, *)
LEMMA SameMeasures ==
  ASSUME coded' = coded
  PROVE  /\ \A q : Shared(q)' = Shared(q)
         /\ \A q, m : Begun(q, m)' = Begun(q, m)
         /\ \A w : OnBlocks(w)' = OnBlocks(w)
         /\ \A bs : CbAreaOf(bs)' = CbAreaOf(bs)
<1>1. /\ sps' = sps /\ CtbCols' = CtbCols /\ BlockRecords' = BlockRecords /\ \A b : Units(b)' = Units(b)
  BY SameSps
<1>2. \A q : Shared(q)' = Shared(q)
  BY <1>1 DEF Shared
<1>3. \A q, m : Begun(q, m)' = Begun(q, m)
  BY <1>1 DEF Begun
<1>4. \A w : OnBlocks(w)' = OnBlocks(w)
  BY <1>1 DEF OnBlocks
<1>5. \A bs : CbAreaOf(bs)' = CbAreaOf(bs)
  BY <1>1 DEF CbAreaOf
<1> QED
  BY <1>2, <1>3, <1>4, <1>5

(* and, while no block is decoded, the blocks of the slice segment. *)
LEMMA SameBlocks ==
  ASSUME UNCHANGED <<segment, blocks>>
  PROVE  LastBlocks' = LastBlocks /\ Lost' = Lost /\ TypedBlocks' = TypedBlocks
<1>1. LastBlocks' = LastBlocks
  BY DEF LastBlocks
<1> QED
  BY <1>1 DEF Lost, TypedBlocks

(* The type of the picture does not change within it. *)
LEMMA SamePicture ==
  ASSUME UNCHANGED <<coded, pic>>
  PROVE  SliceSeq' = SliceSeq /\ pict_type' = pict_type /\ InterUnits' = InterUnits
<1>1. SliceSeq' = SliceSeq /\ pict_type' = pict_type
  BY DEF SliceSeq, pict_type
<1> QED
  BY <1>1 DEF InterUnits

(* Steps that count nothing. *)
LEMMA SameCounts ==
  ASSUME AreaKept, TypesKept, QpKept, UNCHANGED <<coded, pic, segment, blocks, excluded>>,
         \/ stat' = stat
         \/ \E border : stat' = [stat EXCEPT !.BlackBorder = border],
         stat \in Statistics,
         Shown' => BlkShapes' = ShapeStatisticsHEVC(stat.PU_Stat)
  PROVE  AreaKept' /\ TypesKept' /\ QpKept'
<1>1. /\ stat'.PU_Stat = stat.PU_Stat /\ stat'.TrShapes = stat.TrShapes /\ stat'.MbTypes = stat.MbTypes
      /\ stat'.QpCnt = stat.QpCnt /\ stat'.QpCntBB = stat.QpCntBB
      /\ stat'.NumBlksMv = stat.NumBlksMv /\ stat'.NumBlksSkip = stat.NumBlksSkip
      /\ stat'.NumBlksIntra = stat.NumBlksIntra
  BY DEF Statistics
<1>2. LastBlocks' = LastBlocks /\ TypedBlocks' = TypedBlocks
  BY SameBlocks
<1>3. pict_type' = pict_type /\ InterUnits' = InterUnits /\ sps' = sps
  BY SamePicture, SameSps
<1>4. \A mode : ModeArea(mode)' = ModeArea(mode)
  BY <1>2, SameMeasures DEF ModeArea, OfMode
<1>5. AreaOf(LastBlocks)' = AreaOf(LastBlocks)
  BY <1>2 DEF AreaOf
<1>6. AreaKept'
  BY <1>1, <1>2, <1>5 DEF AreaKept
<1>7. TypesKept'
  BY <1>1, <1>3, <1>4 DEF TypesKept
<1>8. QpKept'
  BY <1>1, <1>2, <1>3 DEF QpKept
<1> QED
  BY <1>6, <1>7, <1>8

(* Nothing counted, nothing decoded. *)
LEMMA NothingCounted ==
  ASSUME NEW border \in Nat, NEW s, s = Cleared(border)
  PROVE  /\ s \in Statistics /\ s.BlackBorder = border
         /\ PUArea(s.PU_Stat) = 0 /\ TrArea(s.TrShapes) = 0
         /\ s.MbTypes[5] + s.MbTypes[6] = 0 /\ s.MbTypes[0] + s.MbTypes[4] = 0
         /\ s.MbTypes[1] + (s.MbTypes[2] + s.MbTypes[3]) = 0
         /\ s.NumBlksIntra = 0 /\ s.NumBlksMv + s.NumBlksSkip = 0 /\ s.QpCntBB <= s.QpCnt
<1>1. s \in Statistics /\ s.BlackBorder = border
  BY DEF Cleared, Statistics
<1>2. /\ \A log \in 3 .. 6 : RowSum(s.PU_Stat[log]) = 0
      /\ s.TrShapes[0] = 0 /\ s.TrShapes[2] = 0 /\ s.TrShapes[3] = 0 /\ s.TrShapes[4] = 0 /\ s.TrShapes[5] = 0
  BY DEF Cleared, RowSum, PUSizes, TrIdx
<1>3. PUArea(s.PU_Stat) = 0 /\ TrArea(s.TrShapes) = 0
  BY <1>2 DEF PUArea, TrArea
<1>4. /\ s.MbTypes[5] + s.MbTypes[6] = 0 /\ s.MbTypes[0] + s.MbTypes[4] = 0
      /\ s.MbTypes[1] + (s.MbTypes[2] + s.MbTypes[3]) = 0
      /\ s.NumBlksIntra = 0 /\ s.NumBlksMv + s.NumBlksSkip = 0 /\ s.QpCntBB <= s.QpCnt
  BY DEF Cleared, MbTypeIdx
<1> QED
  BY <1>1, <1>3, <1>4

(* Where no block was decoded nothing has to be counted. *)
Fresh ==
  /\ coded \in CodedStreams /\ LastBlocks = {} /\ ~Shown
  /\ \E border \in Nat : stat = Cleared(border)

(* Without coding blocks, nothing is counted. *)
LEMMA NoBlocksKept == Fresh => AreaKept /\ TypesKept /\ QpKept /\ ~Lost
<1> SUFFICES ASSUME Fresh PROVE AreaKept /\ TypesKept /\ QpKept /\ ~Lost
  OBVIOUS
<1>0. coded \in CodedStreams /\ LastBlocks = {} /\ ~Shown
  BY DEF Fresh
<1>1. /\ PUArea(stat.PU_Stat) = 0 /\ TrArea(stat.TrShapes) = 0
      /\ stat.MbTypes[5] + stat.MbTypes[6] = 0 /\ stat.MbTypes[0] + stat.MbTypes[4] = 0
      /\ stat.MbTypes[1] + (stat.MbTypes[2] + stat.MbTypes[3]) = 0
      /\ stat.NumBlksIntra = 0 /\ stat.NumBlksMv + stat.NumBlksSkip = 0 /\ stat.QpCntBB <= stat.QpCnt
  BY NothingCounted DEF Fresh
<1>2. AreaOf(LastBlocks) = 0
  BY <1>0, NoAreas
<1>3. TypedBlocks = {} /\ ~Lost
  BY <1>0 DEF TypedBlocks, Lost
<1>4. ModeArea("INTRA") = 0 /\ ModeArea("SKIP") = 0 /\ ModeArea("INTER") = 0
  <2>1. \A ms : OfMode(TypedBlocks, ms) = {}
    BY <1>3 DEF OfMode
  <2> QED
    BY <1>0, <2>1, NoAreas DEF ModeArea
<1>5. InterUnits * 0 = 0 /\ InterUnits * (0 + 0) = 0
  BY DEF InterUnits
<1>6. AreaKept
  BY <1>0, <1>1, <1>2 DEF AreaKept
<1>7. TypesKept
  BY <1>1, <1>4, <1>5 DEF TypesKept
<1>8. QpKept
  BY <1>0, <1>1, <1>3 DEF QpKept
<1> QED
  BY <1>3, <1>6, <1>7, <1>8

(* The invariant holds in the beginning. *)
LEMMA BlocksInitInv == BlocksInit => BlocksInv
<1> SUFFICES ASSUME BlocksInit PROVE BlocksInv
  OBVIOUS
<1>1. /\ coded \in CodedStreams /\ pic = 0 /\ segment = 0 /\ ctb = 0 /\ todo = <<>>
      /\ stat = Cleared(0) /\ cbf_luma = {} /\ CurrBlackBorder = 0
      /\ BlkShapes = NoShapes /\ blocks = {} /\ excluded = 0 /\ stage = "shown"
  BY DEF BlocksInit
<1>2. sps.height \in Nat \ {0} /\ coded.pictures \in Seq(Seq({"I", "P", "B"}) \ {<<>>})
  BY <1>1, SpsTypes
<1>3. BlocksTyped
  <2>1. IsFiniteSet({})
    BY FS_EmptySet
  <2>2. stat \in Statistics
    BY <1>1, NothingCounted
  <2>3. BlkShapes \in [0 .. 8 -> Nat] /\ 0 \in 0 .. Len(coded.pictures)
    BY <1>1, <1>2 DEF NoShapes
  <2>4. <<>> \in Seq(Here)
    OBVIOUS
  <2> QED
    BY <1>1, <2>1, <2>2, <2>3, <2>4 DEF BlocksTyped
<1>4. LastBlocks = {}
  BY <1>1 DEF LastBlocks
<1>5. ~Shown
  BY <1>1 DEF Shown
<1>6. AreaKept /\ TypesKept /\ QpKept /\ ~Lost
  BY <1>1, <1>4, <1>5, NoBlocksKept DEF Fresh
<1>7. StepsKept
  BY <1>1, <1>6 DEF StepsKept
<1>8. BorderKept
  BY <1>1, <1>2 DEF BorderKept, Centered
<1>9. TilesKept
  BY <1>1 DEF TilesKept
<1> QED
  BY <1>3, <1>6, <1>7, <1>8, <1>9 DEF BlocksInv

(* A slice segment that starts at a coding tree block. *)
LEMMA SliceStarts ==
  ASSUME BlocksInv, NEW m, m \in 0 .. Ctbs - 1, InitStatistics(m),
         coded' = coded, pic' \in 1 .. Len(coded.pictures),
         UNCHANGED <<CurrBlackBorder, BlkShapes>>,
         segment' \in 1 .. Len(SliceSeq'), segment' = 1 => m = 0,
         blocks' \subseteq blocks, \A c \in blocks' : c.slice < segment',
         cbf_luma' \subseteq cbf_luma
  PROVE  BlocksInv'
<1>1. BlocksTyped /\ BorderKept
  BY DEF BlocksInv
<1>2. /\ stat' = Cleared(CurrBlackBorder) /\ excluded' = CurrBlackBorder
      /\ ctb' = m /\ todo' = <<Root(m)>> /\ stage' = "slice"
  BY DEF InitStatistics
<1>3. coded \in CodedStreams /\ coded' \in CodedStreams /\ CurrBlackBorder \in Nat
  BY <1>1 DEF BlocksTyped, BorderKept, Centered
<1>4. /\ sps' = sps /\ Here' = Here /\ BlockRecords' = BlockRecords /\ Boxes' = Boxes
      /\ Ctbs' = Ctbs /\ TbCols' = TbCols /\ TbRows' = TbRows
      /\ \A b : FitsIn(b)' = FitsIn(b)
      /\ \A border : Centered(border)' = Centered(border)
      /\ \A q : Shared(q)' = Shared(q)
      /\ \A q, k : Begun(q, k)' = Begun(q, k)
      /\ \A w : OnBlocks(w)' = OnBlocks(w)
  BY SameSps, SameMeasures
<1>5. LastBlocks' = {} /\ ~Shown'
  <2>1. \A c \in blocks' : c.slice # segment'
    <3>1. \A c \in blocks' : c.slice \in Nat
      BY <1>1 DEF BlocksTyped, BlockRecords
    <3> QED
      BY <3>1
  <2> QED
    BY <1>2, <2>1 DEF LastBlocks, Shown
<1>6. AreaKept' /\ TypesKept' /\ QpKept' /\ ~Lost'
  <2>1. Fresh'
    BY <1>2, <1>3, <1>5 DEF Fresh
  <2>2. (Fresh => AreaKept /\ TypesKept /\ QpKept /\ ~Lost)'
    BY NoBlocksKept, PTL
  <2> QED
    BY <2>1, <2>2
<1>7. BlocksTyped'
  <2>1. stat' \in Statistics
    BY <1>2, <1>3, NothingCounted
  <2>2. todo' \in Seq(Here)
    BY <1>2, <1>3, RootAdds
  <2>3. IsFiniteSet(blocks') /\ blocks' \subseteq BlockRecords /\ \A c \in blocks' : FitsIn(c.b) /\ c.slice <= segment'
    <3>1. IsFiniteSet(blocks) /\ blocks \subseteq BlockRecords /\ \A c \in blocks : FitsIn(c.b)
      BY <1>1 DEF BlocksTyped
    <3>2. IsFiniteSet(blocks')
      BY <3>1, FS_Subset
    <3>3. \A c \in blocks' : c.slice <= segment'
      <4>1. \A c \in blocks' : c.slice \in Nat
        BY <1>1 DEF BlocksTyped, BlockRecords
      <4> QED
        BY <4>1
    <3> QED
      BY <3>1, <3>2, <3>3
  <2>4. segment' \in Nat /\ ctb' \in Nat /\ pic' \in 0 .. Len(coded.pictures)
    BY <1>2
  <2>5. cbf_luma' \subseteq (0 .. TbCols - 1) \X (0 .. TbRows - 1) /\ BlkShapes' \in [0 .. 8 -> Nat]
    BY <1>1 DEF BlocksTyped
  <2> QED
    BY <1>2, <1>3, <1>4, <2>1, <2>2, <2>3, <2>4, <2>5 DEF BlocksTyped
<1>8. StepsKept'
  <2>1. pic' # 0 /\ pic' >= 1
    OBVIOUS
  <2> QED
    BY <1>2, <1>4, <1>6, <2>1 DEF StepsKept
<1>9. BorderKept'
  <2>1. stat'.BlackBorder = CurrBlackBorder
    BY <1>2, <1>3, NothingCounted
  <2> QED
    BY <1>1, <1>2, <1>4, <2>1 DEF BorderKept
<1>10. TilesKept'
  <2>1. ASSUME NEW q \in Boxes PROVE Tiled(q, m, m + 1)'
    <3>1. Adds(Shared(q), todo', Shared(q)[Root(m)])
      BY <1>2, <1>3, <2>1, RootAdds
    <3>2. Begun(q, m + 1) = Begun(q, m) + Shared(q)[Root(m)]
      BY <1>3, <2>1, NextBegun
    <3>3. Begun(q, m) \in Nat /\ Shared(q)[Root(m)] \in Nat
      <4>1. m \in 0 .. Ctbs
        BY <1>3, CtbSizes
      <4>2. Shared(q) \in [Nodes -> Nat] /\ Root(m) \in Nodes
        BY <1>3, <2>1, SharedIsMeasure, RootHere, HereIs DEF Measure
      <4> QED
        BY <1>3, <2>1, <4>1, <4>2, PixelBegun
    <3>4. Total(OnBlocks(Shared(q)), LastBlocks') = 0
      BY <1>3, <1>5, NoAreas
    <3>5. PICK k \in Nat, g \in Nat : k = Shared(q)[Root(m)] /\ g = Begun(q, m)
      BY <3>3
    <3>6. k + Total(OnBlocks(Shared(q)), LastBlocks') = Begun(q, m + 1) - Begun(q, m)
      BY <3>2, <3>4, <3>5
    <3>7. Adds(Shared(q), todo', k)
      BY <3>1, <3>5
    <3> QED
      BY <1>4, <3>6, <3>7 DEF Tiled
  <2>2. m \in 0 .. m
    BY <1>3, CtbSizes
  <2> QED
    BY <1>2, <1>4, <2>1, <2>2 DEF TilesKept
<1> QED
  BY <1>6, <1>7, <1>8, <1>9, <1>10 DEF BlocksInv

(* The first slice segment of a picture begins with nothing counted and    *)
(* one coding tree block to be visited.                                    *)
LEMMA StartPictureInv ==
  ASSUME BlocksInv, StartPicture
  PROVE  BlocksInv'
<1>1. /\ stage = "shown" /\ pic < Len(coded.pictures) /\ pic' = pic + 1 /\ segment' = 1
      /\ cbf_luma' = {} /\ blocks' = {} /\ InitStatistics(0)
      /\ coded' = coded /\ CurrBlackBorder' = CurrBlackBorder /\ BlkShapes' = BlkShapes
  BY DEF StartPicture
<1>2. coded \in CodedStreams /\ pic \in 0 .. Len(coded.pictures)
  BY DEF BlocksInv, BlocksTyped
<1>3. coded.pictures \in Seq(Seq({"I", "P", "B"}) \ {<<>>}) /\ Ctbs \in Nat \ {0}
  BY <1>2, SpsTypes, CtbSizes
<1>4. pic + 1 \in 1 .. Len(coded.pictures)
  BY <1>1, <1>2, <1>3
<1>5. SliceSeq' = coded.pictures[pic + 1] /\ coded.pictures[pic + 1] \in Seq({"I", "P", "B"}) \ {<<>>}
  BY <1>1, <1>3, <1>4 DEF SliceSeq
<1>6. 1 \in 1 .. Len(SliceSeq')
  BY <1>5
<1>7. 0 \in 0 .. Ctbs - 1
  BY <1>3
<1>8. /\ pic' \in 1 .. Len(coded.pictures) /\ segment' \in 1 .. Len(SliceSeq')
      /\ blocks' \subseteq blocks /\ (\A c \in blocks' : c.slice < segment') /\ cbf_luma' \subseteq cbf_luma
  BY <1>1, <1>4, <1>6
<1> QED
  BY <1>1, <1>7, <1>8, SliceStarts

(* So does a later one, behind the one before. *)
LEMMA StartSliceInv ==
  ASSUME BlocksInv, StartSlice
  PROVE  BlocksInv'
<1>1. /\ segment' = segment + 1
      /\ coded' = coded /\ pic' = pic /\ cbf_luma' = cbf_luma /\ blocks' = blocks
      /\ CurrBlackBorder' = CurrBlackBorder /\ BlkShapes' = BlkShapes
  BY DEF StartSlice
<1>2. BlocksTyped /\ StepsKept
  BY DEF BlocksInv
<1>3. coded \in CodedStreams /\ pic \in 0 .. Len(coded.pictures) /\ segment \in Nat /\ ctb \in Nat
      /\ Ctbs \in Nat \ {0}
  BY <1>2, CtbSizes DEF BlocksTyped
<1>4. stage \in {"between", "lost"}
  BY DEF StartSlice
<1>5. pic >= 1 /\ segment \in 1 .. Len(SliceSeq) /\ ctb \in 0 .. Ctbs - 1
  BY <1>2, <1>4 DEF StepsKept
<1>6. segment < Len(SliceSeq) /\ \E m \in 0 .. Ctbs - 1 : InitStatistics(m)
  <2>1. CASE stage = "between"
    <3>1. InitStatistics(ctb + 1) /\ segment < Len(SliceSeq) /\ ctb + 1 < Ctbs
      BY <1>2, <2>1 DEF StartSlice, StepsKept
    <3>2. ctb + 1 \in 0 .. Ctbs - 1
      BY <1>3, <3>1
    <3> QED
      BY <3>1, <3>2
  <2>2. CASE stage = "lost"
    <3>1. segment < Len(SliceSeq) /\ \E m \in ctb + 1 .. Ctbs - 1 : InitStatistics(m)
      BY <2>2 DEF StartSlice, Ctbs
    <3>2. \A m \in ctb + 1 .. Ctbs - 1 : m \in 0 .. Ctbs - 1
      BY <1>3
    <3> QED
      BY <3>1, <3>2
  <2> QED
    BY <1>4, <2>1, <2>2
<1>7. PICK m : m \in 0 .. Ctbs - 1 /\ InitStatistics(m)
  BY <1>6
<1>8. SliceSeq' = SliceSeq
  BY <1>1, SamePicture
<1>9. segment' \in 1 .. Len(SliceSeq') /\ segment' # 1 /\ pic' \in 1 .. Len(coded.pictures)
  <2>1. coded.pictures \in Seq(Seq({"I", "P", "B"}) \ {<<>>})
    BY <1>3, SpsTypes
  <2>2. Len(coded.pictures) \in Nat
    BY <2>1
  <2>3. coded.pictures[pic] \in Seq({"I", "P", "B"})
    BY <1>3, <1>5, <2>1, <2>2
  <2>4. Len(SliceSeq) \in Nat
    BY <2>3 DEF SliceSeq
  <2> QED
    BY <1>1, <1>3, <1>5, <1>6, <1>8, <2>2, <2>4
<1>10. \A c \in blocks' : c.slice < segment'
  <2>1. \A c \in blocks : c.slice \in Nat /\ c.slice <= segment
    BY <1>2 DEF BlocksTyped, BlockRecords
  <2> QED
    BY <1>1, <1>3, <2>1
<1> QED
  BY <1>1, <1>7, <1>9, <1>10, SliceStarts

(* What steps within a slice segment leave alone. *)
LEMMA SameBefore ==
  ASSUME BlocksInv, UNCHANGED <<coded, pic, segment, blocks, excluded, cbf_luma>>
  PROVE  /\ sps' = sps /\ Here' = Here /\ BlockRecords' = BlockRecords /\ Boxes' = Boxes
         /\ Ctbs' = Ctbs /\ TbCols' = TbCols /\ TbRows' = TbRows
         /\ (\A b : FitsIn(b)' = FitsIn(b))
         /\ (\A border : Centered(border)' = Centered(border) /\ OfPicture(border)' = OfPicture(border))
         /\ (\A q : Shared(q)' = Shared(q))
         /\ (\A q, k : Begun(q, k)' = Begun(q, k))
         /\ (\A w : OnBlocks(w)' = OnBlocks(w))
         /\ LastBlocks' = LastBlocks /\ Lost' = Lost /\ TypedBlocks' = TypedBlocks
         /\ SliceSeq' = SliceSeq /\ pict_type' = pict_type
<1>1. \A border : OfPicture(border)' = OfPicture(border)
  BY SameSps DEF OfPicture, IsBorder, DarkRow, BlackLine
<1> QED
  BY <1>1, SameSps, SameMeasures, SameBlocks, SamePicture

(* What the blocks have of a box. *)
LEMMA BlocksShare ==
  ASSUME BlocksTyped, NEW q \in Boxes
  PROVE  /\ OnBlocks(Shared(q)) \in [BlockRecords -> Nat]
         /\ LastBlocks \subseteq BlockRecords /\ IsFiniteSet(LastBlocks)
         /\ Total(OnBlocks(Shared(q)), LastBlocks) \in Nat
<1>1. coded \in CodedStreams /\ blocks \subseteq BlockRecords /\ IsFiniteSet(blocks)
  BY DEF BlocksTyped
<1>2. Shared(q) \in [Nodes -> Nat] /\ Here \subseteq Nodes
  BY <1>1, SharedIsMeasure DEF Measure, Here
<1>3. OnBlocks(Shared(q)) \in [BlockRecords -> Nat]
  BY <1>2 DEF OnBlocks, BlockRecords
<1>4. LastBlocks \in SUBSET blocks
  BY DEF LastBlocks
<1>5. LastBlocks \subseteq BlockRecords /\ IsFiniteSet(LastBlocks)
  BY <1>1, <1>4, FS_Subset
<1>6. PICK w : w = OnBlocks(Shared(q)) /\ \A c \in LastBlocks : w[c] \in Nat
  BY <1>3, <1>5
<1> QED
  BY <1>3, <1>5, <1>6, TotalNat

(* A node gives way to its quarters in the picture, which share as much. *)
LEMMA SplitNodeInv ==
  ASSUME BlocksInv, SplitNode
  PROVE  BlocksInv'
<1>1. /\ stage = "slice" /\ todo # <<>> /\ Head(todo).log > sps.cb
      /\ todo' = Quarters(Head(todo)) \o Tail(todo)
      /\ UNCHANGED <<coded, pic, segment, ctb, stat, cbf_luma, CurrBlackBorder, BlkShapes, blocks, excluded, stage>>
  BY DEF SplitNode
<1>2. BlocksTyped /\ StepsKept /\ BorderKept /\ AreaKept /\ TypesKept /\ TilesKept /\ QpKept
  BY DEF BlocksInv
<1>3. /\ sps' = sps /\ Here' = Here /\ BlockRecords' = BlockRecords /\ Boxes' = Boxes
      /\ Ctbs' = Ctbs /\ TbCols' = TbCols /\ TbRows' = TbRows
      /\ (\A b : FitsIn(b)' = FitsIn(b))
      /\ (\A border : Centered(border)' = Centered(border) /\ OfPicture(border)' = OfPicture(border))
      /\ (\A q : Shared(q)' = Shared(q))
      /\ (\A q, k : Begun(q, k)' = Begun(q, k))
      /\ (\A w : OnBlocks(w)' = OnBlocks(w))
      /\ LastBlocks' = LastBlocks /\ Lost' = Lost /\ TypedBlocks' = TypedBlocks
      /\ SliceSeq' = SliceSeq /\ pict_type' = pict_type
  BY <1>1, SameBefore
<1>4. coded \in CodedStreams /\ todo \in Seq(Here) /\ stat \in Statistics
  BY <1>2 DEF BlocksTyped
<1>5. PICK b, s : b = Head(todo) /\ s = Tail(todo) /\ b \in Here /\ s \in Seq(Here) /\ b.log > sps.cb
  BY <1>1, <1>4, NotEmpty
<1>6. ASSUME NEW q \in Boxes, NEW k, Adds(Shared(q), todo, k)
      PROVE  Adds(Shared(q), Quarters(b) \o s, k)
  <2>1. Shared(q) \in [Nodes -> Nat] /\ Here \subseteq Nodes
    BY <1>4, SharedIsMeasure DEF Measure, Here
  <2>2. PICK w : w = Shared(q) /\ w \in [Nodes -> Int] /\ todo \in Seq(Nodes) /\ b \in Nodes /\ w[b] \in Int
    BY <1>4, <1>5, <2>1
  <2>3. k \in Int /\ Adds(w, s, k - w[b])
    BY <1>1, <1>5, <1>6, <2>2, AddsTail
  <2>4. Adds(Shared(q), Quarters(b) \o s, Shared(q)[b] + (k - w[b]))
    BY <1>4, <1>5, <2>2, <2>3, QuartersAdd
  <2>5. w[b] + (k - w[b]) = k
    BY <2>2, <2>3
  <2> QED
    BY <2>2, <2>4, <2>5
<1>7. Quarters(b) \o s \in Seq(Here)
  <2>1. PICK q : q = [left |-> 0, right |-> 0, top |-> 0, bottom |-> 0]
    OBVIOUS
  <2>2. q \in Boxes
    BY <1>4, <2>1, SpsTypes DEF Boxes
  <2>4. \E k : Adds(Shared(q), todo, k)
    BY <1>1, <1>2, <2>2 DEF TilesKept, Tiled
  <2>5. PICK k : Adds(Shared(q), todo, k)
    BY <2>4
  <2>6. Shared(q) \in [Nodes -> Nat] /\ Here \subseteq Nodes
    BY <1>4, <2>2, SharedIsMeasure DEF Measure, Here
  <2>7. PICK w : w = Shared(q) /\ w \in [Nodes -> Int] /\ todo \in Seq(Nodes) /\ b \in Nodes
    BY <1>4, <1>5, <2>6
  <2>8. Adds(w, s, k - w[b])
    BY <1>1, <1>5, <2>5, <2>7, AddsTail
  <2> QED
    BY <1>4, <1>5, <2>2, <2>7, <2>8, QuartersAdd
<1>8. BlocksTyped'
  BY <1>1, <1>2, <1>3, <1>5, <1>7 DEF BlocksTyped
<1>9. StepsKept' /\ BorderKept'
  BY <1>1, <1>2, <1>3 DEF StepsKept, BorderKept
<1>10. AreaKept' /\ TypesKept' /\ QpKept'
  <2>1. ~Shown'
    BY <1>1 DEF Shown
  <2> QED
    BY <1>1, <1>2, <1>4, <2>1, SameCounts
<1>11. TilesKept'
  <2>1. PICK first \in 0 .. ctb : (segment = 1 => first = 0) /\ \A q \in Boxes : Tiled(q, first, ctb + 1)
    BY <1>1, <1>2 DEF TilesKept
  <2>2. ASSUME NEW q \in Boxes PROVE Tiled(q, first, ctb + 1)'
    <3>1. PICK k : /\ Adds(Shared(q), todo, k)
                   /\ k + Total(OnBlocks(Shared(q)), LastBlocks) = Begun(q, ctb + 1) - Begun(q, first)
      BY <2>1, <2>2 DEF Tiled
    <3>2. Adds(Shared(q), todo', k)
      BY <1>1, <1>5, <1>6, <2>2, <3>1
    <3> QED
      BY <1>1, <1>3, <3>1, <3>2 DEF Tiled
  <2> QED
    BY <1>1, <1>3, <2>1, <2>2 DEF TilesKept
<1> QED
  BY <1>8, <1>9, <1>10, <1>11 DEF BlocksInv

(* A coding tree block is done: the next one takes its place. *)
LEMMA NextCtbInv ==
  ASSUME BlocksInv, NextCtb
  PROVE  BlocksInv'
<1>1. /\ stage = "slice" /\ todo = <<>> /\ ctb + 1 # Ctbs
      /\ ctb' = ctb + 1 /\ todo' = <<Root(ctb + 1)>>
      /\ UNCHANGED <<coded, pic, segment, stat, cbf_luma, CurrBlackBorder, BlkShapes, blocks, excluded, stage>>
  BY DEF NextCtb, LastCtb, Ctbs
<1>2. BlocksTyped /\ StepsKept /\ BorderKept /\ AreaKept /\ TypesKept /\ TilesKept /\ QpKept
  BY DEF BlocksInv
<1>3. /\ sps' = sps /\ Here' = Here /\ BlockRecords' = BlockRecords /\ Boxes' = Boxes
      /\ Ctbs' = Ctbs /\ TbCols' = TbCols /\ TbRows' = TbRows
      /\ (\A b : FitsIn(b)' = FitsIn(b))
      /\ (\A border : Centered(border)' = Centered(border) /\ OfPicture(border)' = OfPicture(border))
      /\ (\A q : Shared(q)' = Shared(q))
      /\ (\A q, k : Begun(q, k)' = Begun(q, k))
      /\ (\A w : OnBlocks(w)' = OnBlocks(w))
      /\ LastBlocks' = LastBlocks /\ Lost' = Lost /\ TypedBlocks' = TypedBlocks
      /\ SliceSeq' = SliceSeq /\ pict_type' = pict_type
  BY <1>1, SameBefore
<1>4. coded \in CodedStreams /\ stat \in Statistics /\ ctb \in 0 .. Ctbs - 1 /\ Ctbs \in Nat \ {0}
  BY <1>1, <1>2, CtbSizes DEF BlocksTyped, StepsKept
<1>5. PICK m : m = ctb + 1 /\ m \in 0 .. Ctbs - 1 /\ m \in Nat
  BY <1>1, <1>4
<1>6. <<Root(m)>> \in Seq(Here)
  BY <1>4, <1>5, RootAdds
<1>7. BlocksTyped'
  BY <1>1, <1>2, <1>3, <1>5, <1>6 DEF BlocksTyped
<1>8. StepsKept' /\ BorderKept'
  <2>1. ctb' \in 0 .. Ctbs - 1
    BY <1>1, <1>5
  <2> QED
    BY <1>1, <1>2, <1>3, <2>1 DEF StepsKept, BorderKept
<1>9. AreaKept' /\ TypesKept' /\ QpKept'
  <2>1. ~Shown'
    BY <1>1 DEF Shown
  <2> QED
    BY <1>1, <1>2, <1>4, <2>1, SameCounts
<1>10. TilesKept'
  <2>1. PICK first \in 0 .. ctb : (segment = 1 => first = 0) /\ \A q \in Boxes : Tiled(q, first, ctb + 1)
    BY <1>1, <1>2 DEF TilesKept
  <2>2. ASSUME NEW q \in Boxes PROVE Tiled(q, first, m + 1)'
    <3>1. PICK k : /\ Adds(Shared(q), todo, k)
                   /\ k + Total(OnBlocks(Shared(q)), LastBlocks) = Begun(q, m) - Begun(q, first)
      BY <1>5, <2>1, <2>2 DEF Tiled
    <3>2. k = 0
      BY <1>1, <3>1, AddsNone
    <3>3. Adds(Shared(q), todo', Shared(q)[Root(m)])
      BY <1>1, <1>4, <1>5, <2>2, RootAdds
    <3>4. Begun(q, m + 1) = Begun(q, m) + Shared(q)[Root(m)]
      BY <1>4, <1>5, <2>2, NextBegun
    <3>5. PICK g \in Nat, e \in Nat, x \in Nat, t \in Nat :
            /\ g = Begun(q, m) /\ e = Begun(q, first) /\ x = Shared(q)[Root(m)]
            /\ t = Total(OnBlocks(Shared(q)), LastBlocks)
      <4>1. m \in 0 .. Ctbs /\ first \in 0 .. Ctbs
        BY <1>4, <1>5, <2>1
      <4>2. Begun(q, m) \in Nat /\ Begun(q, first) \in Nat
        BY <1>4, <2>2, <4>1, PixelBegun
      <4>3. Shared(q) \in [Nodes -> Nat] /\ Root(m) \in Nodes
        BY <1>4, <1>5, <2>2, SharedIsMeasure, RootHere, HereIs DEF Measure
      <4>4. Total(OnBlocks(Shared(q)), LastBlocks) \in Nat
        BY <1>2, <1>4, <2>2, BlocksShare
      <4> QED
        BY <4>2, <4>3, <4>4
    <3>6. x + t = (g + x) - e
      BY <3>1, <3>2, <3>5
    <3>7. x + Total(OnBlocks(Shared(q)), LastBlocks) = Begun(q, m + 1) - Begun(q, first)
      BY <3>4, <3>5, <3>6
    <3>8. Adds(Shared(q), todo', x)
      BY <3>3, <3>5
    <3> QED
      BY <1>3, <3>7, <3>8 DEF Tiled
  <2>3. first \in 0 .. m
    BY <1>4, <1>5, <2>1
  <2> QED
    BY <1>1, <1>3, <1>5, <2>1, <2>2, <2>3 DEF TilesKept
<1> QED
  BY <1>7, <1>8, <1>9, <1>10 DEF BlocksInv

(* The smallest transform's size, as a number. *)
LEMMA SmallestTransform ==
  ASSUME coded \in CodedStreams
  PROVE  2^sps.tb \in {4, 8, 16, 32}
<1>1. sps.tb = 2 \/ sps.tb = 3 \/ sps.tb = 4 \/ sps.tb = 5
  BY SpsTypes
<1>2. CASE sps.tb = 2
  BY <1>2, PowersOfTwo
<1>3. CASE sps.tb = 3
  BY <1>3, PowersOfTwo
<1>4. CASE sps.tb = 4
  BY <1>4, PowersOfTwo
<1>5. CASE sps.tb = 5
  BY <1>5, PowersOfTwo
<1> QED
  BY <1>1, <1>2, <1>3, <1>4, <1>5

(* A border leaves rows in the middle. *)
LEMMA BorderCentered ==
  ASSUME NEW line, NEW size \in Nat \ {0}, NEW s \in {4, 8, 16, 32}, NEW rows, rows = size \div s,
         NEW threshold, NEW border, IsBorder(line, rows, threshold, s, border)
  PROVE  border \in Nat /\ 2 * border < size
<1>1. rows \in Nat /\ rows * s <= size
  <2>1. CASE s = 4
    BY <2>1
  <2>2. CASE s = 8
    BY <2>2
  <2>3. CASE s = 16
    BY <2>3
  <2>4. CASE s = 32
    BY <2>4
  <2> QED
    BY <2>1, <2>2, <2>3, <2>4
<1>2. PICK dark \in 0 .. rows \div 2 : border = IF dark < rows \div 2 THEN dark * s ELSE 0
  BY DEF IsBorder
<1>3. CASE dark < rows \div 2
  <2>1. dark \in Nat /\ 2 * dark < rows /\ border = dark * s
    BY <1>1, <1>2, <1>3
  <2>2. CASE s = 4
    BY <1>1, <2>1, <2>2
  <2>3. CASE s = 8
    BY <1>1, <2>1, <2>3
  <2>4. CASE s = 16
    BY <1>1, <2>1, <2>4
  <2>5. CASE s = 32
    BY <1>1, <2>1, <2>5
  <2> QED
    BY <2>2, <2>3, <2>4, <2>5
<1>4. CASE ~(dark < rows \div 2)
  BY <1>2, <1>4
<1> QED
  BY <1>3, <1>4

(* At the end of a slice segment nothing is left to be visited, and the    *)
(* border is taken from the whole picture.                                 *)
LEMMA EndSliceInv ==
  ASSUME BlocksInv, EndSlice
  PROVE  BlocksInv'
<1>1. /\ stage = "slice" /\ todo = <<>> /\ (segment = Len(SliceSeq) => ctb + 1 = Ctbs)
      /\ UNCHANGED <<coded, pic, segment, ctb, todo, cbf_luma, BlkShapes, blocks, excluded>>
  BY DEF EndSlice, LastCtb, Ctbs
<1>2. BlocksTyped /\ StepsKept /\ BorderKept /\ AreaKept /\ TypesKept /\ TilesKept /\ QpKept
  BY DEF BlocksInv
<1>3. /\ sps' = sps /\ Here' = Here /\ BlockRecords' = BlockRecords /\ Boxes' = Boxes
      /\ Ctbs' = Ctbs /\ TbCols' = TbCols /\ TbRows' = TbRows
      /\ (\A b : FitsIn(b)' = FitsIn(b))
      /\ (\A border : Centered(border)' = Centered(border) /\ OfPicture(border)' = OfPicture(border))
      /\ (\A q : Shared(q)' = Shared(q))
      /\ (\A q, k : Begun(q, k)' = Begun(q, k))
      /\ (\A w : OnBlocks(w)' = OnBlocks(w))
      /\ LastBlocks' = LastBlocks /\ Lost' = Lost /\ TypedBlocks' = TypedBlocks
      /\ SliceSeq' = SliceSeq /\ pict_type' = pict_type
  BY <1>1, SameBefore
<1>4. /\ coded \in CodedStreams /\ stat \in Statistics /\ ctb \in 0 .. Ctbs - 1 /\ Ctbs \in Nat \ {0}
      /\ segment \in 1 .. Len(SliceSeq) /\ pic >= 1 /\ ~Lost
  BY <1>1, <1>2, CtbSizes DEF BlocksTyped, StepsKept
<1>5. /\ stat.BlackBorder = excluded /\ CurrBlackBorder = excluded
      /\ Centered(CurrBlackBorder) /\ Centered(excluded)
  BY <1>1, <1>2 DEF BorderKept
<1>6. 2^sps.tb \in {4, 8, 16, 32} /\ sps.width \in Nat \ {0} /\ sps.height \in Nat \ {0}
  BY <1>4, SmallestTransform, SpsTypes
<1>7. PICK s \in {4, 8, 16, 32} : s = 2^sps.tb
  BY <1>6
<1>8. CASE pict_type = "I" /\ BlackLineOverrun
  <2>1. stage' = "misused" /\ stat' = stat /\ CurrBlackBorder' = CurrBlackBorder
    BY <1>8 DEF EndSlice
  <2>2. sps.height > sps.width
    <3>1. sps.height \div s > sps.width \div s
      BY <1>7, <1>8 DEF BlackLineOverrun, TbRows, TbCols
    <3>2. CASE s = 4
      BY <1>6, <3>1, <3>2
    <3>3. CASE s = 8
      BY <1>6, <3>1, <3>3
    <3>4. CASE s = 16
      BY <1>6, <3>1, <3>4
    <3>5. CASE s = 32
      BY <1>6, <3>1, <3>5
    <3> QED
      BY <3>2, <3>3, <3>4, <3>5
  <2>3. BlocksTyped'
    BY <1>1, <1>2, <1>3, <2>1 DEF BlocksTyped
  <2>4. StepsKept'
    BY <1>1, <1>2, <1>3, <2>1 DEF StepsKept
  <2>5. BorderKept'
    BY <1>1, <1>3, <1>5, <2>1, <2>2 DEF BorderKept
  <2>6. AreaKept' /\ TypesKept' /\ QpKept'
    <3>1. ~Shown'
      BY <2>1 DEF Shown
    <3> QED
      BY <1>1, <1>2, <1>4, <2>1, <3>1, SameCounts
  <2>7. TilesKept'
    BY <2>1 DEF TilesKept
  <2> QED
    BY <2>3, <2>4, <2>5, <2>6, <2>7 DEF BlocksInv
<1>9. CASE ~(pict_type = "I" /\ BlackLineOverrun)
  <2>1. PICK border : border = BlackBorderEstimationHEVC(pict_type)
    OBVIOUS
  <2>2. /\ CurrBlackBorder' = border /\ stat' = [stat EXCEPT !.BlackBorder = border]
        /\ stage' = IF ctb + 1 = Ctbs THEN "decoded" ELSE "between"
    BY <1>9, <2>1 DEF EndSlice, LastCtb, Ctbs
  <2>3. /\ Centered(border)
        /\ pict_type = "I" => OfPicture(border)
        /\ pict_type # "I" => border = excluded
    <3>1. CASE pict_type = "I"
      <4>1. PICK rows, cut : rows = TbRows /\ cut = (72 * TbCols) \div 100
        OBVIOUS
      <4>2. rows = sps.height \div s
        BY <1>7, <4>1 DEF TbRows
      <4>3. rows \in Nat
        <5>1. s \in Nat \ {0}
          OBVIOUS
        <5>2. sps.height \div s \in Nat
          BY <1>6, <5>1, Quotient
        <5> QED
          BY <4>2, <5>2
      <4>4. border = BlackborderDetect(BlackLine, rows, cut, s)
        BY <1>7, <2>1, <3>1, <4>1 DEF BlackBorderEstimationHEVC
      <4>5. IsBorder(BlackLine, rows, cut, s, border)
        BY <4>3, <4>4, DetectsBorder
      <4>6. border \in Nat /\ 2 * border < sps.height
        BY <1>6, <4>2, <4>5, BorderCentered
      <4> QED
        BY <1>7, <3>1, <4>1, <4>5, <4>6 DEF Centered, OfPicture
    <3>2. CASE pict_type # "I"
      BY <1>5, <2>1, <3>2 DEF BlackBorderEstimationHEVC
    <3> QED
      BY <3>1, <3>2
  <2>4. stat' \in Statistics /\ stat'.BlackBorder = border
    <3>1. border \in Nat
      BY <2>3 DEF Centered
    <3> QED
      BY <1>4, <2>2, <3>1 DEF Statistics
  <2>5. stage' \in {"decoded", "between"}
    BY <2>2
  <2>6. BlocksTyped'
    BY <1>1, <1>2, <1>3, <2>4, <2>5 DEF BlocksTyped
  <2>7. StepsKept'
    <3>1. stage' = "between" => segment < Len(SliceSeq) /\ ctb + 1 < Ctbs
      <4>1. SUFFICES ASSUME ctb + 1 # Ctbs PROVE segment < Len(SliceSeq) /\ ctb + 1 < Ctbs
        BY <2>2
      <4>2. segment # Len(SliceSeq)
        BY <1>1, <4>1
      <4>3. ctb + 1 < Ctbs
        BY <1>4, <4>1
      <4>4. Len(SliceSeq) \in Nat
        <5>1. coded.pictures \in Seq(Seq({"I", "P", "B"}) \ {<<>>}) /\ pic \in 0 .. Len(coded.pictures)
          BY <1>2, <1>4, SpsTypes DEF BlocksTyped
        <5>2. coded.pictures[pic] \in Seq({"I", "P", "B"})
          BY <1>4, <5>1
        <5> QED
          BY <5>2 DEF SliceSeq
      <4> QED
        BY <1>4, <4>2, <4>3, <4>4
    <3> QED
      BY <1>1, <1>3, <1>4, <2>5, <3>1 DEF StepsKept
  <2>8. BorderKept'
    BY <1>1, <1>3, <1>4, <1>5, <2>2, <2>3, <2>4, <2>5 DEF BorderKept
  <2>9. AreaKept' /\ TypesKept' /\ QpKept'
    <3>1. ~Shown'
      BY <2>5 DEF Shown
    <3> QED
      BY <1>1, <1>2, <1>4, <2>2, <3>1, SameCounts
  <2>10. TilesKept'
    <3>1. ASSUME stage' = "decoded", segment = 1, NEW q \in Boxes
          PROVE  Total(OnBlocks(Shared(q)), LastBlocks) = Begun(q, Ctbs)
      <4>1. ctb + 1 = Ctbs
        BY <2>2, <3>1
      <4>2. Tiled(q, 0, ctb + 1)
        BY <1>1, <1>2, <3>1 DEF TilesKept
      <4>3. PICK k : /\ Adds(Shared(q), todo, k)
                     /\ k + Total(OnBlocks(Shared(q)), LastBlocks) = Begun(q, ctb + 1) - Begun(q, 0)
        BY <4>2 DEF Tiled
      <4>4. k = 0 /\ Begun(q, 0) = 0
        BY <1>1, <1>4, <3>1, <4>3, AddsNone, BegunNone
      <4>5. PICK t \in Nat, g \in Nat : t = Total(OnBlocks(Shared(q)), LastBlocks) /\ g = Begun(q, Ctbs)
        <5>1. Ctbs \in 0 .. Ctbs
          BY <1>4
        <5>2. Begun(q, Ctbs) \in Nat
          BY <1>4, <3>1, <5>1, PixelBegun
        <5>3. Total(OnBlocks(Shared(q)), LastBlocks) \in Nat
          BY <1>2, <3>1, BlocksShare
        <5> QED
          BY <5>2, <5>3
      <4> QED
        BY <4>1, <4>3, <4>4, <4>5
    <3> QED
      BY <1>1, <1>3, <2>5, <3>1 DEF TilesKept
  <2> QED
    BY <2>6, <2>7, <2>8, <2>9, <2>10 DEF BlocksInv
<1> QED
  BY <1>8, <1>9

(* What becomes of the counted partitions. *)
LEMMA ShapesAre ==
  ASSUME NEW P \in [PUSizes -> [0 .. 5 -> Nat]], NEW S, S = ShapeStatisticsHEVC(P)
  PROVE  /\ S \in [0 .. 8 -> Nat]
         /\ S[0] = 4 * P[3][3] /\ S[8] = P[6][0]
         /\ S[2] = P[3][0] + 4 * P[4][3] /\ S[4] = P[4][0] + 4 * P[5][3] /\ S[6] = P[5][0] + 4 * P[6][3]
         /\ S[1] = 2 * P[3][1] + (2 * P[3][2] + (2 * P[3][4] + 2 * P[3][5]))
         /\ S[3] = 2 * P[4][1] + (2 * P[4][2] + (2 * P[4][4] + 2 * P[4][5]))
         /\ S[5] = 2 * P[5][1] + (2 * P[5][2] + (2 * P[5][4] + 2 * P[5][5]))
         /\ S[7] = 2 * P[6][1] + (2 * P[6][2] + (2 * P[6][4] + 2 * P[6][5]))
<1> DEFINE Count(log, part) == IF log \in PUSizes THEN P[log][part] * SHAPE_FACTOR[part + 1] ELSE 0
<1>1. S = [i \in 0 .. 8 |->
            IF i % 2 = 0 THEN Count(i \div 2 + 2, 0) + Count(i \div 2 + 3, 3)
            ELSE Count((i + 1) \div 2 + 2, 1) + Count((i + 1) \div 2 + 2, 2)
                   + Count((i + 1) \div 2 + 2, 4) + Count((i + 1) \div 2 + 2, 5)]
  BY DEF ShapeStatisticsHEVC
<1>2. ASSUME NEW log \in 3 .. 6
      PROVE  /\ Count(log, 0) = P[log][0] /\ Count(log, 3) = 4 * P[log][3]
             /\ Count(log, 1) = 2 * P[log][1] /\ Count(log, 2) = 2 * P[log][2]
             /\ Count(log, 4) = 2 * P[log][4] /\ Count(log, 5) = 2 * P[log][5]
             /\ \A p \in 0 .. 5 : P[log][p] \in Nat
  <2>1. P[log] \in [0 .. 5 -> Nat] /\ log \in PUSizes
    BY DEF PUSizes
  <2>2. /\ SHAPE_FACTOR[0 + 1] = 1 /\ SHAPE_FACTOR[1 + 1] = 2 /\ SHAPE_FACTOR[2 + 1] = 2
        /\ SHAPE_FACTOR[3 + 1] = 4 /\ SHAPE_FACTOR[4 + 1] = 2 /\ SHAPE_FACTOR[5 + 1] = 2
    BY DEF SHAPE_FACTOR
  <2>3. \A p \in 0 .. 5 : P[log][p] \in Nat
    BY <2>1
  <2>4. \A p \in 0 .. 5 : Count(log, p) = P[log][p] * SHAPE_FACTOR[p + 1]
    BY <2>1
  <2> QED
    BY <2>2, <2>3, <2>4
<1>3. Count(2, 0) = 0 /\ Count(7, 3) = 0
  BY DEF PUSizes
<1> HIDE DEF Count
<1>4. /\ S[0] = Count(2, 0) + Count(3, 3) /\ S[2] = Count(3, 0) + Count(4, 3)
      /\ S[4] = Count(4, 0) + Count(5, 3) /\ S[6] = Count(5, 0) + Count(6, 3) /\ S[8] = Count(6, 0) + Count(7, 3)
  BY <1>1
<1>5. /\ S[1] = Count(3, 1) + Count(3, 2) + Count(3, 4) + Count(3, 5)
      /\ S[3] = Count(4, 1) + Count(4, 2) + Count(4, 4) + Count(4, 5)
      /\ S[5] = Count(5, 1) + Count(5, 2) + Count(5, 4) + Count(5, 5)
      /\ S[7] = Count(6, 1) + Count(6, 2) + Count(6, 4) + Count(6, 5)
  BY <1>1
<1>6. /\ S[0] = 4 * P[3][3] /\ S[8] = P[6][0]
      /\ S[2] = P[3][0] + 4 * P[4][3] /\ S[4] = P[4][0] + 4 * P[5][3] /\ S[6] = P[5][0] + 4 * P[6][3]
  BY <1>2, <1>3, <1>4
<1>7. /\ S[1] = 2 * P[3][1] + (2 * P[3][2] + (2 * P[3][4] + 2 * P[3][5]))
      /\ S[3] = 2 * P[4][1] + (2 * P[4][2] + (2 * P[4][4] + 2 * P[4][5]))
      /\ S[5] = 2 * P[5][1] + (2 * P[5][2] + (2 * P[5][4] + 2 * P[5][5]))
      /\ S[7] = 2 * P[6][1] + (2 * P[6][2] + (2 * P[6][4] + 2 * P[6][5]))
  BY <1>2, <1>5
<1>8. \A i \in 0 .. 8 : S[i] \in Nat
  BY <1>2, <1>6, <1>7
<1>9. S \in [0 .. 8 -> Nat]
  BY <1>1, <1>8
<1> QED
  BY <1>6, <1>7, <1>9

(* The output changes nothing but the shapes. *)
LEMMA GetVideoStatisticsInv ==
  ASSUME BlocksInv, GetVideoStatisticsHEVC
  PROVE  BlocksInv'
<1>1. /\ stage \in {"decoded", "lost"} /\ BlkShapes' = ShapeStatisticsHEVC(stat.PU_Stat) /\ stage' = "shown"
      /\ UNCHANGED <<coded, pic, segment, ctb, todo, stat, cbf_luma, CurrBlackBorder, blocks, excluded>>
  BY DEF GetVideoStatisticsHEVC
<1>2. BlocksTyped /\ StepsKept /\ BorderKept /\ AreaKept /\ TypesKept /\ TilesKept /\ QpKept
  BY DEF BlocksInv
<1>3. /\ sps' = sps /\ Here' = Here /\ BlockRecords' = BlockRecords /\ Boxes' = Boxes
      /\ Ctbs' = Ctbs /\ TbCols' = TbCols /\ TbRows' = TbRows
      /\ (\A b : FitsIn(b)' = FitsIn(b))
      /\ (\A border : Centered(border)' = Centered(border) /\ OfPicture(border)' = OfPicture(border))
      /\ (\A q : Shared(q)' = Shared(q))
      /\ (\A q, k : Begun(q, k)' = Begun(q, k))
      /\ (\A w : OnBlocks(w)' = OnBlocks(w))
      /\ LastBlocks' = LastBlocks /\ Lost' = Lost /\ TypedBlocks' = TypedBlocks
      /\ SliceSeq' = SliceSeq /\ pict_type' = pict_type
  BY <1>1, SameBefore
<1>4. stat \in Statistics /\ stat.PU_Stat \in [PUSizes -> [0 .. 5 -> Nat]]
  BY <1>2 DEF BlocksTyped, Statistics
<1>5. BlkShapes' \in [0 .. 8 -> Nat]
  BY <1>1, <1>4, ShapesAre
<1>6. BlocksTyped'
  BY <1>1, <1>2, <1>3, <1>5 DEF BlocksTyped
<1>7. StepsKept'
  BY <1>1, <1>2, <1>3 DEF StepsKept
<1>8. BorderKept'
  <2>1. stage = "lost" => Lost
    BY <1>2 DEF StepsKept
  <2>2. stage = "decoded" => pic >= 1
    BY <1>2 DEF StepsKept
  <2>3. CASE stage = "lost"
    BY <1>1, <1>2, <1>3, <2>1, <2>3 DEF BorderKept
  <2>4. CASE stage = "decoded"
    BY <1>1, <1>2, <1>3, <2>2, <2>4 DEF BorderKept
  <2> QED
    BY <1>1, <2>3, <2>4
<1>9. AreaKept' /\ TypesKept' /\ QpKept'
  BY <1>1, <1>2, <1>4, SameCounts
<1>10. TilesKept'
  <2>1. stage = "lost" => Lost
    BY <1>2 DEF StepsKept
  <2> QED
    BY <1>1, <1>2, <1>3, <2>1 DEF TilesKept
<1> QED
  BY <1>6, <1>7, <1>8, <1>9, <1>10 DEF BlocksInv

(* Nothing changes. *)
LEMMA BlocksStutterInv ==
  ASSUME BlocksInv, UNCHANGED blockVars
  PROVE  BlocksInv'
<1>1. UNCHANGED <<coded, pic, segment, ctb, todo, stat, cbf_luma, CurrBlackBorder, BlkShapes, blocks, excluded, stage>>
  BY DEF blockVars
<1>2. BlocksTyped /\ StepsKept /\ BorderKept /\ AreaKept /\ TypesKept /\ TilesKept /\ QpKept
  BY DEF BlocksInv
<1>3. /\ sps' = sps /\ Here' = Here /\ BlockRecords' = BlockRecords /\ Boxes' = Boxes
      /\ Ctbs' = Ctbs /\ TbCols' = TbCols /\ TbRows' = TbRows
      /\ (\A b : FitsIn(b)' = FitsIn(b))
      /\ (\A border : Centered(border)' = Centered(border) /\ OfPicture(border)' = OfPicture(border))
      /\ (\A q : Shared(q)' = Shared(q))
      /\ (\A q, k : Begun(q, k)' = Begun(q, k))
      /\ (\A w : OnBlocks(w)' = OnBlocks(w))
      /\ LastBlocks' = LastBlocks /\ Lost' = Lost /\ TypedBlocks' = TypedBlocks
      /\ SliceSeq' = SliceSeq /\ pict_type' = pict_type
  BY <1>1, SameBefore
<1>4. BlocksTyped' /\ StepsKept' /\ BorderKept'
  BY <1>1, <1>2, <1>3 DEF BlocksTyped, StepsKept, BorderKept
<1>5. AreaKept' /\ TypesKept' /\ QpKept'
  <2>1. stat \in Statistics /\ (Shown' => BlkShapes' = ShapeStatisticsHEVC(stat.PU_Stat))
    BY <1>1, <1>2 DEF BlocksTyped, AreaKept, Shown
  <2> QED
    BY <1>1, <1>2, <2>1, SameCounts
<1>6. TilesKept'
  BY <1>1, <1>2, <1>3 DEF TilesKept, Tiled
<1> QED
  BY <1>4, <1>5, <1>6 DEF BlocksInv

(* The block that is decoded next is a new one: its first pixel is in none *)
(* of the blocks before it.                                                *)
LEMMA NewBlock ==
  ASSUME BlocksInv, stage = "slice", todo # <<>>
  PROVE  \A c \in LastBlocks : c.b # Head(todo)
<1>1. BlocksTyped /\ StepsKept /\ TilesKept
  BY DEF BlocksInv
<1>2. coded \in CodedStreams /\ todo \in Seq(Here)
  BY <1>1 DEF BlocksTyped
<1>3. PICK b : b = Head(todo) /\ b \in Here
  BY <1>2, NotEmpty
<1>4. /\ b \in Nodes /\ b.log \in 3 .. 6 /\ b.x \in Nat /\ b.y \in Nat
      /\ b.x < sps.width /\ b.y < sps.height /\ sps.width \in Nat /\ sps.height \in Nat
  BY <1>2, <1>3, HereIs, SpsTypes
<1>5. PICK q : q = [left |-> b.x, right |-> b.x + 1, top |-> b.y, bottom |-> b.y + 1]
  OBVIOUS
<1>6. q \in Boxes /\ q.right = q.left + 1 /\ q.bottom = q.top + 1
  BY <1>4, <1>5 DEF Boxes
<1>7. PICK first \in 0 .. ctb : Tiled(q, first, ctb + 1)
  BY <1>1, <1>6 DEF TilesKept
<1>8. PICK k : /\ Adds(Shared(q), todo, k)
               /\ k + Total(OnBlocks(Shared(q)), LastBlocks) = Begun(q, ctb + 1) - Begun(q, first)
  BY <1>7 DEF Tiled
<1>9. PICK g \in Nat, e \in Nat : g = Begun(q, ctb + 1) /\ e = Begun(q, first) /\ g <= 1
  <2>1. ctb \in 0 .. Ctbs - 1 /\ Ctbs \in Nat
    <3>1. pic >= 1
      BY <1>1 DEF StepsKept
    <3> QED
      BY <1>1, <1>2, <3>1, CtbSizes DEF StepsKept
  <2>2. ctb + 1 \in 0 .. Ctbs /\ first \in 0 .. Ctbs
    BY <1>7, <2>1
  <2>3. Begun(q, ctb + 1) \in Nat /\ Begun(q, first) \in Nat /\ Begun(q, ctb + 1) <= 1
    BY <1>2, <1>6, <2>2, PixelBegun
  <2> QED
    BY <2>3
<1>10. Shared(q) \in [Nodes -> Nat] /\ Shared(q)[b] = 1
  <2>1. Shared(q) \in [Nodes -> Nat]
    BY <1>2, <1>6, SharedIsMeasure DEF Measure
  <2>2. PICK h \in Nat \ {0} : h = 2^b.log
    <3>1. b.log \in 1 .. 6
      BY <1>4
    <3> QED
      BY <3>1, Powers
  <2>3. Overlap(b.x, b.x + 1, b.x, h) = 1 /\ Overlap(b.y, b.y + 1, b.y, h) = 1
    BY <1>4, SMTT(30) DEF Overlap
  <2>4. Shared(q)[b] = 1 * 1
    BY <1>4, <1>5, <2>2, <2>3 DEF Shared
  <2> QED
    BY <2>1, <2>4
<1>11. k \in Nat /\ k >= 1
  <2>1. PICK w : w = Shared(q) /\ w \in [Nodes -> Nat] /\ w \in [Nodes -> Int] /\ todo \in Seq(Nodes) /\ w[b] = 1
    <3>1. Here \subseteq Nodes
      BY DEF Here
    <3> QED
      BY <1>2, <1>10, <3>1
  <2>2. k \in Int /\ Adds(w, Tail(todo), k - w[b]) /\ Tail(todo) \in Seq(Nodes)
    BY <1>3, <1>8, <2>1, AddsTail
  <2>3. k - w[b] \in Nat
    BY <2>1, <2>2, AddsNat
  <2> QED
    BY <2>1, <2>2, <2>3
<1>12. ASSUME NEW c \in LastBlocks, c.b = b PROVE FALSE
  <2>1. PICK w : w = OnBlocks(Shared(q)) /\ w \in [BlockRecords -> Nat]
    BY <1>1, <1>6, BlocksShare
  <2>2. LastBlocks \subseteq BlockRecords /\ IsFiniteSet(LastBlocks)
    BY <1>1, <1>6, BlocksShare
  <2>3. \A i \in LastBlocks : w[i] \in Nat
    BY <2>1, <2>2
  <2>4. w[c] <= Total(w, LastBlocks) /\ Total(w, LastBlocks) \in Nat
    BY <2>2, <2>3, TotalNat
  <2>5. w[c] = 1
    <3>1. c \in BlockRecords
      BY <1>12, <2>2
    <3> QED
      BY <1>10, <1>12, <2>1, <3>1 DEF OnBlocks
  <2> QED
    BY <1>8, <1>9, <1>11, <2>1, <2>4, <2>5
<1> QED
  BY <1>3, <1>12

(* The coding unit at the next node. *)
AtNode(b, s, cu, c) ==
  /\ b = Head(todo) /\ s = Tail(todo) /\ b \in Here /\ s \in Seq(Here) /\ FitsIn(b)
  /\ cu \in CodingUnits /\ cu.residual \in Residuals(cu, b.log) /\ cu.mode \in Modes(SliceSeq[segment])
  /\ c = [b |-> b, cu |-> cu, slice |-> segment] /\ c \in BlockRecords /\ c \notin LastBlocks
  /\ LastBlocks \subseteq BlockRecords /\ IsFiniteSet(LastBlocks)
  /\ TypedBlocks = LastBlocks /\ ~Lost
  /\ coded \in CodedStreams /\ stage = "slice" /\ todo # <<>>

(* A coding unit is decoded at the next node, a block that lies in the     *)
(* picture and was not there.                                              *)
LEMMA CuIsNew ==
  ASSUME BlocksInv, NEW cu \in coded.units, CodingUnit(cu)
  PROVE  \E b, s, c : AtNode(b, s, cu, c)
<1>1. BlocksTyped /\ StepsKept
  BY DEF BlocksInv
<1>2. stage = "slice" /\ todo # <<>> /\ todo \in Seq(Here) /\ coded \in CodedStreams /\ segment \in Nat
  BY <1>1 DEF CodingUnit, BlocksTyped
<1>3. PICK b, s : b = Head(todo) /\ s = Tail(todo) /\ b \in Here /\ s \in Seq(Here)
  BY <1>2, NotEmpty
<1>4. /\ b.log > sps.cb => FitsIn(b)
      /\ Admitted(cu, b)
  BY <1>3 DEF CodingUnit
<1>5. FitsIn(b)
  <2>1. b.log \in sps.cb .. sps.ctb /\ (b.log = sps.cb => FitsIn(b)) /\ sps.cb \in 3 .. 6 /\ sps.ctb \in 4 .. 6
    BY <1>2, <1>3, HereIs, SpsTypes
  <2>2. b.log = sps.cb \/ b.log > sps.cb
    BY <2>1
  <2> QED
    BY <1>4, <2>1, <2>2
<1>6. cu \in CodingUnits
  BY <1>2, SpsTypes
<1>7. cu.residual \in Residuals(cu, b.log) /\ cu.mode \in Modes(SliceSeq[segment])
  BY <1>4 DEF Admitted
<1>8. PICK c : c = [b |-> b, cu |-> cu, slice |-> segment]
  OBVIOUS
<1>9. c \in BlockRecords
  BY <1>2, <1>3, <1>6, <1>8 DEF BlockRecords
<1>10. c \notin LastBlocks
  BY <1>2, <1>3, <1>8, NewBlock
<1>11. LastBlocks \subseteq BlockRecords /\ IsFiniteSet(LastBlocks)
  <2>1. LastBlocks \in SUBSET blocks /\ blocks \subseteq BlockRecords /\ IsFiniteSet(blocks)
    BY <1>1 DEF BlocksTyped, LastBlocks
  <2> QED
    BY <2>1, FS_Subset
<1>12. ~Lost
  BY <1>1, <1>2 DEF StepsKept
<1>13. TypedBlocks = LastBlocks
  BY <1>12 DEF TypedBlocks, Lost
<1> QED
  BY <1>2, <1>3, <1>5, <1>6, <1>7, <1>8, <1>9, <1>10, <1>11, <1>12, <1>13 DEF AtNode

(* What the step does. *)
LEMMA CuEffect ==
  ASSUME BlocksInv, NEW cu, CodingUnit(cu), NEW b, NEW s, NEW c, AtNode(b, s, cu, c)
  PROVE  /\ UNCHANGED <<coded, pic, segment, ctb, CurrBlackBorder, BlkShapes, excluded>>
         /\ cbf_luma' = cbf_luma \cup CodedBlocks(b, cu) /\ blocks' = blocks \cup {c}
         /\ LastBlocks' = LastBlocks \cup {c}
         /\ cu.residual = "fails" => /\ stage' = "lost" /\ todo' = <<>> /\ TypedBlocks' = TypedBlocks /\ Lost'
         /\ cu.residual # "fails" =>
              /\ stage' = "slice" /\ todo' = s /\ TypedBlocks' = TypedBlocks \cup {c} /\ ~Lost'
<1>1. /\ b = Head(todo) /\ s = Tail(todo) /\ c = [b |-> b, cu |-> cu, slice |-> segment]
      /\ stage = "slice" /\ ~Lost /\ TypedBlocks = LastBlocks
  BY DEF AtNode
<1>2. /\ UNCHANGED <<coded, pic, segment, ctb, CurrBlackBorder, BlkShapes, excluded>>
      /\ cbf_luma' = cbf_luma \cup CodedBlocks(b, cu) /\ blocks' = blocks \cup {c}
      /\ todo' = (IF cu.residual = "fails" THEN <<>> ELSE s)
      /\ stage' = (IF cu.residual = "fails" THEN "lost" ELSE stage)
  BY <1>1 DEF CodingUnit
<1>3. LastBlocks' = LastBlocks \cup {c}
  BY <1>1, <1>2 DEF LastBlocks
<1>4. Lost' <=> cu.residual = "fails"
  BY <1>1, <1>3 DEF Lost
<1>5. TypedBlocks' = IF cu.residual = "fails" THEN TypedBlocks ELSE TypedBlocks \cup {c}
  <2>1. \A d \in LastBlocks : d.cu.residual # "fails"
    BY <1>1 DEF Lost
  <2>2. TypedBlocks' = {d \in LastBlocks \cup {c} : d.cu.residual # "fails"}
    BY <1>3 DEF TypedBlocks
  <2> QED
    BY <1>1, <2>1, <2>2
<1> QED
  BY <1>1, <1>2, <1>3, <1>4, <1>5

(* The counts of the step; qps is the number of QPs the block has. *)
Counted(cu, b, qps) ==
  /\ stat'.PU_Stat = CountPU(stat.PU_Stat, b.log, cu.part)
  /\ stat'.TrShapes = TrShapes(stat.TrShapes, b, cu)
  /\ stat'.BlackBorder = stat.BlackBorder
  /\ cu.residual = "fails" =>
       /\ stat'.MbTypes = stat.MbTypes /\ stat'.QpCnt = stat.QpCnt /\ stat'.QpCntBB = stat.QpCntBB
       /\ stat'.NumBlksMv = stat.NumBlksMv /\ stat'.NumBlksSkip = stat.NumBlksSkip
       /\ stat'.NumBlksIntra = stat.NumBlksIntra
  /\ cu.residual # "fails" =>
       /\ stat'.MbTypes = [t \in MbTypeIdx |-> stat.MbTypes[t] + Number(b, cu, {t})]
       /\ stat'.QpCnt = stat.QpCnt + qps
       /\ stat'.QpCntBB = (IF NoBorder(b) THEN stat.QpCntBB + qps ELSE stat.QpCntBB)
       /\ stat'.NumBlksMv = stat.NumBlksMv + InterUnits * Number(b, cu, 1 .. 4)
       /\ stat'.NumBlksSkip = stat.NumBlksSkip + InterUnits * Number(b, cu, {SKIPPED})
       /\ stat'.NumBlksIntra = stat.NumBlksIntra + InterUnits * Number(b, cu, {INTRA_BLK, INTRA_PLN})
  /\ stat' \in Statistics

(* This is what CodingUnit counts. *)
LEMMA CuCounts ==
  ASSUME BlocksInv, NEW cu, CodingUnit(cu), NEW b, NEW s, NEW c, AtNode(b, s, cu, c),
         NEW qps, qps = IF b.x = 0 /\ b.y = 0 THEN Units(b)^2 ELSE Number(b, cu, MbTypeIdx \ {SKIPPED, DIRECT})
  PROVE  Counted(cu, b, qps)
<1>1. /\ b = Head(todo) /\ b \in Here /\ cu \in CodingUnits /\ coded \in CodedStreams
      /\ cu.residual \in Residuals(cu, b.log)
  BY DEF AtNode
<1>2. stat \in Statistics
  BY DEF BlocksInv, BlocksTyped
<1>3. PICK S : S = [stat EXCEPT !.PU_Stat = CountPU(stat.PU_Stat, b.log, cu.part), !.TrShapes = TrShapes(stat.TrShapes, b, cu)]
  OBVIOUS
<1>4. stat' = IF cu.residual = "fails" THEN S ELSE MbStatistcsHEVC(S, b, cu)
  BY <1>1, <1>3 DEF CodingUnit
<1>5. S \in Statistics
  <2>1. CountPU(stat.PU_Stat, b.log, cu.part) \in [PUSizes -> [0 .. 5 -> Nat]]
    <3>1. stat.PU_Stat \in [PUSizes -> [0 .. 5 -> Nat]] /\ b.log \in 3 .. 6 /\ cu.part \in 0 .. 7
      BY <1>1, <1>2, HereIs DEF Statistics, CodingUnits
    <3> QED
      BY <3>1, PUAdds
  <2>2. TrShapes(stat.TrShapes, b, cu) \in [TrIdx -> Nat]
    <3>1. stat.TrShapes \in [TrIdx -> Nat]
      BY <1>2 DEF Statistics
    <3> QED
      BY <1>1, <3>1, TrAdds
  <2> QED
    BY <1>2, <1>3, <2>1, <2>2 DEF Statistics
<1>6. /\ S.PU_Stat = CountPU(stat.PU_Stat, b.log, cu.part) /\ S.TrShapes = TrShapes(stat.TrShapes, b, cu)
      /\ S.BlackBorder = stat.BlackBorder /\ S.MbTypes = stat.MbTypes /\ S.MbCnt = stat.MbCnt
      /\ S.QpCnt = stat.QpCnt /\ S.QpCntBB = stat.QpCntBB
      /\ S.NumBlksMv = stat.NumBlksMv /\ S.NumBlksSkip = stat.NumBlksSkip /\ S.NumBlksIntra = stat.NumBlksIntra
  BY <1>2, <1>3 DEF Statistics
<1>7. CASE cu.residual = "fails"
  BY <1>4, <1>5, <1>6, <1>7 DEF Counted
<1>8. CASE cu.residual # "fails"
  <2>1. PICK types, count, qp, bb, mv, skip, intra :
          /\ types = [t \in MbTypeIdx |-> stat.MbTypes[t] + Number(b, cu, {t})]
          /\ count = stat.MbCnt + 1
          /\ qp = stat.QpCnt + qps
          /\ bb = (IF NoBorder(b) THEN stat.QpCntBB + qps ELSE stat.QpCntBB)
          /\ mv = stat.NumBlksMv + InterUnits * Number(b, cu, 1 .. 4)
          /\ skip = stat.NumBlksSkip + InterUnits * Number(b, cu, {SKIPPED})
          /\ intra = stat.NumBlksIntra + InterUnits * Number(b, cu, {INTRA_BLK, INTRA_PLN})
    OBVIOUS
  <2>2. stat' = [S EXCEPT !.MbTypes = types, !.MbCnt = count, !.QpCnt = qp, !.QpCntBB = bb,
                          !.NumBlksMv = mv, !.NumBlksSkip = skip, !.NumBlksIntra = intra]
    <3>1. MBs * MBs = 4
      BY DEF MBs
    <3>2. (IF pict_type = "I" THEN 0 ELSE MBs * MBs) = InterUnits
      BY <3>1 DEF InterUnits
    <3> QED
      BY <1>4, <1>6, <1>8, <2>1, <3>2, ZenonT(60) DEF MbStatistcsHEVC
  <2>3. /\ types \in [MbTypeIdx -> Nat] /\ count \in Nat /\ qp \in Nat /\ bb \in Nat
        /\ mv \in Nat /\ skip \in Nat /\ intra \in Nat
    <3>1. /\ stat.MbTypes \in [MbTypeIdx -> Nat] /\ stat.MbCnt \in Nat /\ stat.QpCnt \in Nat /\ stat.QpCntBB \in Nat
          /\ stat.NumBlksMv \in Nat /\ stat.NumBlksSkip \in Nat /\ stat.NumBlksIntra \in Nat
      BY <1>2 DEF Statistics
    <3>2. \A T : Number(b, cu, T) \in Nat
      BY <1>1, NumberIs
    <3>3. qps \in Nat
      BY <1>1, <3>2, SamplesAre
    <3>4. InterUnits \in Nat
      BY DEF InterUnits
    <3>5. types \in [MbTypeIdx -> Nat] /\ count \in Nat /\ qp \in Nat /\ bb \in Nat
      BY <2>1, <3>1, <3>2, <3>3
    <3>6. \A T : InterUnits * Number(b, cu, T) \in Nat
      BY <3>2, <3>4, NatProduct
    <3>7. mv \in Nat /\ skip \in Nat /\ intra \in Nat
      <4>1. PICK x \in Nat, y \in Nat, z \in Nat :
              /\ x = InterUnits * Number(b, cu, 1 .. 4) /\ y = InterUnits * Number(b, cu, {SKIPPED})
              /\ z = InterUnits * Number(b, cu, {INTRA_BLK, INTRA_PLN})
        BY <3>6
      <4> QED
        BY <2>1, <3>1, <4>1
    <3> QED
      BY <3>5, <3>7
  <2>4. /\ stat'.PU_Stat = S.PU_Stat /\ stat'.TrShapes = S.TrShapes /\ stat'.BlackBorder = S.BlackBorder
        /\ stat'.MbTypes = types /\ stat'.QpCnt = qp /\ stat'.QpCntBB = bb
        /\ stat'.NumBlksMv = mv /\ stat'.NumBlksSkip = skip /\ stat'.NumBlksIntra = intra
        /\ stat' \in Statistics
    BY <1>5, <2>2, <2>3 DEF Statistics
  <2> QED
    BY <1>6, <1>8, <2>1, <2>4 DEF Counted
<1> QED
  BY <1>7, <1>8

(* A coding unit keeps the types. *)
LEMMA CuTyped ==
  ASSUME BlocksInv, NEW cu, CodingUnit(cu), NEW b, NEW s, NEW c, AtNode(b, s, cu, c)
  PROVE  BlocksTyped' /\ StepsKept' /\ BorderKept'
<1>1. /\ UNCHANGED <<coded, pic, segment, ctb, CurrBlackBorder, BlkShapes, excluded>>
      /\ cbf_luma' = cbf_luma \cup CodedBlocks(b, cu) /\ blocks' = blocks \cup {c}
      /\ cu.residual = "fails" => stage' = "lost" /\ todo' = <<>> /\ Lost'
      /\ cu.residual # "fails" => stage' = "slice" /\ todo' = s /\ ~Lost'
  BY CuEffect
<1>2. PICK qps : qps = IF b.x = 0 /\ b.y = 0 THEN Units(b)^2 ELSE Number(b, cu, MbTypeIdx \ {SKIPPED, DIRECT})
  OBVIOUS
<1>3. stat' \in Statistics /\ stat'.BlackBorder = stat.BlackBorder
  <2>1. Counted(cu, b, qps)
    BY <1>2, CuCounts
  <2> QED
    BY <2>1 DEF Counted
<1>4. BlocksTyped /\ StepsKept /\ BorderKept
  BY DEF BlocksInv
<1>5. /\ b \in Here /\ s \in Seq(Here) /\ FitsIn(b) /\ cu \in CodingUnits
      /\ cu.residual \in Residuals(cu, b.log) /\ c = [b |-> b, cu |-> cu, slice |-> segment]
      /\ c \in BlockRecords /\ coded \in CodedStreams /\ stage = "slice"
  BY DEF AtNode
<1>6. /\ sps' = sps /\ Here' = Here /\ BlockRecords' = BlockRecords
      /\ TbCols' = TbCols /\ TbRows' = TbRows /\ Ctbs' = Ctbs
      /\ (\A x : FitsIn(x)' = FitsIn(x))
      /\ (\A border : Centered(border)' = Centered(border))
  BY <1>1, SameSps
<1>7. SliceSeq' = SliceSeq /\ pict_type' = pict_type
  BY <1>1, SamePicture
<1>8. BlocksTyped'
  <2>1. todo' \in Seq(Here)
    <3>1. CASE cu.residual = "fails"
      <4>1. todo' = <<>>
        BY <1>1, <3>1
      <4> QED
        BY <4>1
    <3>2. CASE cu.residual # "fails"
      BY <1>1, <1>5, <3>2
    <3> QED
      BY <3>1, <3>2
  <2>2. cbf_luma' \subseteq (0 .. TbCols - 1) \X (0 .. TbRows - 1)
    <3>1. CodedBlocks(b, cu) \subseteq (0 .. TbCols - 1) \X (0 .. TbRows - 1)
      BY <1>5, CodedIn
    <3>2. cbf_luma \subseteq (0 .. TbCols - 1) \X (0 .. TbRows - 1)
      BY <1>4 DEF BlocksTyped
    <3> QED
      BY <1>1, <3>1, <3>2
  <2>3. blocks' \subseteq BlockRecords /\ IsFiniteSet(blocks')
    <3>1. blocks \subseteq BlockRecords /\ IsFiniteSet(blocks)
      BY <1>4 DEF BlocksTyped
    <3>2. IsFiniteSet(blocks \cup {c})
      BY <3>1, FS_AddElement
    <3> QED
      BY <1>1, <1>5, <3>1, <3>2
  <2>4. \A d \in blocks' : FitsIn(d.b) /\ d.slice <= segment
    <3>1. \A d \in blocks : FitsIn(d.b) /\ d.slice <= segment
      BY <1>4 DEF BlocksTyped
    <3>2. FitsIn(c.b) /\ c.slice <= segment
      <4>1. segment \in Nat
        BY <1>4 DEF BlocksTyped
      <4> QED
        BY <1>5, <4>1
    <3> QED
      BY <1>1, <3>1, <3>2
  <2>5. stage' \in {"slice", "lost"}
    BY <1>1
  <2>6. /\ coded' \in CodedStreams /\ pic' \in 0 .. Len(coded'.pictures) /\ segment' \in Nat /\ ctb' \in Nat
        /\ BlkShapes' \in [0 .. 8 -> Nat]
    BY <1>1, <1>4 DEF BlocksTyped
  <2>7. Statistics' = Statistics
    BY DEF Statistics
  <2> QED
    BY <1>1, <1>3, <1>6, <2>1, <2>2, <2>3, <2>4, <2>5, <2>6, <2>7 DEF BlocksTyped
<1>9. StepsKept'
  <2>1. pic >= 1 /\ segment \in 1 .. Len(SliceSeq) /\ ctb \in 0 .. Ctbs - 1 /\ pic # 0
    <3>1. pic \in Nat /\ pic >= 1
      BY <1>4, <1>5 DEF BlocksTyped, StepsKept
    <3> QED
      BY <1>4, <3>1 DEF StepsKept
  <2>2. (stage' = "lost" /\ Lost') \/ (stage' = "slice" /\ ~Lost')
    BY <1>1
  <2> QED
    BY <1>1, <1>6, <1>7, <2>1, <2>2 DEF StepsKept
<1>10. BorderKept'
  <2>1. stage' \in {"slice", "lost"}
    BY <1>1
  <2>2. stat.BlackBorder = excluded /\ CurrBlackBorder = excluded
    BY <1>4, <1>5 DEF BorderKept
  <2>3. Centered(CurrBlackBorder) /\ Centered(excluded)
    BY <1>4 DEF BorderKept
  <2>4. Centered(CurrBlackBorder)' /\ Centered(excluded)'
    BY <1>1, <1>6, <2>3 DEF Centered
  <2> QED
    BY <1>1, <1>3, <2>1, <2>2, <2>4 DEF BorderKept
<1> QED
  BY <1>8, <1>9, <1>10

(* Its partition and its transforms add its area. *)
LEMMA CuArea ==
  ASSUME BlocksInv, NEW cu, CodingUnit(cu), NEW b, NEW s, NEW c, AtNode(b, s, cu, c)
  PROVE  AreaKept'
<1>1. /\ LastBlocks' = LastBlocks \cup {c}
      /\ cu.residual = "fails" => stage' = "lost"
      /\ cu.residual # "fails" => stage' = "slice"
  BY CuEffect
<1>2. PICK qps : qps = IF b.x = 0 /\ b.y = 0 THEN Units(b)^2 ELSE Number(b, cu, MbTypeIdx \ {SKIPPED, DIRECT})
  OBVIOUS
<1>3. /\ stat'.PU_Stat = CountPU(stat.PU_Stat, b.log, cu.part)
      /\ stat'.TrShapes = TrShapes(stat.TrShapes, b, cu)
  <2>1. Counted(cu, b, qps)
    BY <1>2, CuCounts
  <2> QED
    BY <2>1 DEF Counted
<1>4. /\ b \in Here /\ cu \in CodingUnits /\ cu.residual \in Residuals(cu, b.log)
      /\ c = [b |-> b, cu |-> cu, slice |-> segment] /\ c \in BlockRecords /\ c \notin LastBlocks
      /\ LastBlocks \subseteq BlockRecords /\ IsFiniteSet(LastBlocks) /\ coded \in CodedStreams
  BY DEF AtNode
<1>5. /\ AreaKept /\ stat.PU_Stat \in [PUSizes -> [0 .. 5 -> Nat]] /\ stat.TrShapes \in [TrIdx -> Nat]
  BY DEF BlocksInv, BlocksTyped, Statistics
<1>6. AreaOf(LastBlocks)' = Area(b.log) + AreaOf(LastBlocks) /\ AreaOf(LastBlocks) \in Nat
  <2>1. AreaOf(LastBlocks) \in Nat /\ AreaOf(LastBlocks \cup {c}) = Area(c.b.log) + AreaOf(LastBlocks)
    BY <1>4, AreasGrow
  <2>2. AreaOf(LastBlocks)' = AreaOf(LastBlocks \cup {c})
    BY <1>1 DEF AreaOf
  <2> QED
    BY <1>4, <2>1, <2>2
<1>7. b.log \in 3 .. 6 /\ Area(b.log) \in Nat
  <2>1. b.log \in 3 .. 6
    BY <1>4, HereIs
  <2> QED
    BY <2>1, AreaTypes
<1>8. (\A d \in LastBlocks' : d.cu.part < 6) => PUArea(stat'.PU_Stat) = AreaOf(LastBlocks)'
  <2> SUFFICES ASSUME \A d \in LastBlocks' : d.cu.part < 6
               PROVE  PUArea(stat'.PU_Stat) = AreaOf(LastBlocks)'
    OBVIOUS
  <2>1. cu.part < 6 /\ \A d \in LastBlocks : d.cu.part < 6
    BY <1>1, <1>4
  <2>2. PUArea(stat.PU_Stat) = AreaOf(LastBlocks)
    BY <1>5, <2>1 DEF AreaKept
  <2>3. cu.part \in 0 .. 7
    BY <1>4 DEF CodingUnits
  <2>4. PUArea(stat'.PU_Stat) = PUArea(stat.PU_Stat) + Area(b.log)
    BY <1>3, <1>5, <1>7, <2>1, <2>3, PUAdds
  <2> QED
    BY <1>6, <1>7, <2>2, <2>4
<1>9. (\A d \in LastBlocks' : d.cu.residual \notin {"pcm", "swallowed"}) => TrArea(stat'.TrShapes) = AreaOf(LastBlocks)'
  <2> SUFFICES ASSUME \A d \in LastBlocks' : d.cu.residual \notin {"pcm", "swallowed"}
               PROVE  TrArea(stat'.TrShapes) = AreaOf(LastBlocks)'
    OBVIOUS
  <2>1. cu.residual \notin {"pcm", "swallowed"} /\ \A d \in LastBlocks : d.cu.residual \notin {"pcm", "swallowed"}
    BY <1>1, <1>4
  <2>2. TrArea(stat.TrShapes) = AreaOf(LastBlocks)
    BY <1>5, <2>1 DEF AreaKept
  <2>3. TrArea(stat'.TrShapes) = TrArea(stat.TrShapes) + Area(b.log)
    BY <1>3, <1>4, <1>5, <2>1, TrAdds
  <2> QED
    BY <1>6, <1>7, <2>2, <2>3
<1>10. ~Shown'
  BY <1>1 DEF Shown
<1> QED
  BY <1>8, <1>9, <1>10 DEF AreaKept

(* Its types add its smallest coding blocks, in its mode; a unit that fails *)
(* adds neither. *)
LEMMA CuTypes ==
  ASSUME BlocksInv, NEW cu, CodingUnit(cu), NEW b, NEW s, NEW c, AtNode(b, s, cu, c)
  PROVE  TypesKept'
<1>1. /\ UNCHANGED <<coded, pic>>
      /\ cu.residual = "fails" => TypedBlocks' = TypedBlocks
      /\ cu.residual # "fails" => TypedBlocks' = TypedBlocks \cup {c}
  BY CuEffect
<1>2. PICK qps : qps = IF b.x = 0 /\ b.y = 0 THEN Units(b)^2 ELSE Number(b, cu, MbTypeIdx \ {SKIPPED, DIRECT})
  OBVIOUS
<1>3. /\ cu.residual = "fails" =>
           /\ stat'.MbTypes = stat.MbTypes
           /\ stat'.NumBlksMv = stat.NumBlksMv /\ stat'.NumBlksSkip = stat.NumBlksSkip
           /\ stat'.NumBlksIntra = stat.NumBlksIntra
      /\ cu.residual # "fails" =>
           /\ stat'.MbTypes = [t \in MbTypeIdx |-> stat.MbTypes[t] + Number(b, cu, {t})]
           /\ stat'.NumBlksMv = stat.NumBlksMv + InterUnits * Number(b, cu, 1 .. 4)
           /\ stat'.NumBlksSkip = stat.NumBlksSkip + InterUnits * Number(b, cu, {SKIPPED})
           /\ stat'.NumBlksIntra = stat.NumBlksIntra + InterUnits * Number(b, cu, {INTRA_BLK, INTRA_PLN})
  <2>1. Counted(cu, b, qps)
    BY <1>2, CuCounts
  <2> QED
    BY <2>1 DEF Counted
<1>4. /\ b \in Here /\ cu \in CodingUnits /\ c = [b |-> b, cu |-> cu, slice |-> segment]
      /\ c \in BlockRecords /\ c \notin TypedBlocks /\ TypedBlocks \subseteq BlockRecords
      /\ IsFiniteSet(TypedBlocks) /\ coded \in CodedStreams
  BY DEF AtNode
<1>5. /\ TypesKept /\ stat.MbTypes \in [MbTypeIdx -> Nat]
      /\ stat.NumBlksMv \in Nat /\ stat.NumBlksSkip \in Nat /\ stat.NumBlksIntra \in Nat
  BY DEF BlocksInv, BlocksTyped, Statistics
<1>6. InterUnits' = InterUnits
  BY <1>1, SamePicture
<1>7. \A mode : ModeArea(mode)' = CbAreaOf(OfMode(TypedBlocks', {mode}))
  BY <1>1, SameMeasures DEF ModeArea, OfMode
<1>8. CASE cu.residual = "fails"
  <2>1. \A mode : ModeArea(mode)' = ModeArea(mode)
    BY <1>1, <1>7, <1>8 DEF ModeArea
  <2> QED
    BY <1>3, <1>5, <1>6, <1>8, <2>1 DEF TypesKept
<1>9. CASE cu.residual # "fails"
  <2>1. PICK u, N : u = Units(b)^2 /\ N = [t \in MbTypeIdx |-> Number(b, cu, {t})]
    OBVIOUS
  <2>2. /\ u \in Nat \ {0} /\ N \in [MbTypeIdx -> Nat]
        /\ N[5] + N[6] = (IF cu.mode = "INTRA" THEN u ELSE 0)
        /\ N[0] + N[4] = (IF cu.mode = "SKIP" THEN u ELSE 0)
        /\ N[1] + (N[2] + N[3]) = (IF cu.mode = "INTER" THEN u ELSE 0)
        /\ Number(b, cu, 1 .. 4) = N[1] + (N[2] + (N[3] + N[4]))
        /\ Number(b, cu, {INTRA_BLK, INTRA_PLN}) = N[5] + N[6]
        /\ Number(b, cu, {SKIPPED}) = N[0]
    <3>1. b \in Here /\ cu \in CodingUnits /\ coded \in CodedStreams
      BY <1>4
    <3>2. ByMode(b, cu, u, N)
      BY <2>1, <3>1, NumbersAdd
    <3> QED
      BY <3>2 DEF ByMode
  <2>3. \A mode : /\ ModeArea(mode) \in Nat
                  /\ ModeArea(mode)' = (IF cu.mode = mode THEN u ELSE 0) + ModeArea(mode)
    <3> SUFFICES ASSUME NEW mode
                 PROVE  /\ ModeArea(mode) \in Nat
                        /\ ModeArea(mode)' = (IF cu.mode = mode THEN u ELSE 0) + ModeArea(mode)
      OBVIOUS
    <3>1. u = Units(c.b)^2 /\ c.cu = cu
      BY <1>4, <2>1
    <3>3. /\ c \in BlockRecords /\ c \notin TypedBlocks /\ TypedBlocks \subseteq BlockRecords
          /\ IsFiniteSet(TypedBlocks) /\ coded \in CodedStreams /\ u = Units(c.b)^2
      BY <1>4, <3>1
    <3>2. /\ CbAreaOf(OfMode(TypedBlocks, {mode})) \in Nat
          /\ CbAreaOf(OfMode(TypedBlocks \cup {c}, {mode}))
               = (IF c.cu.mode = mode THEN u ELSE 0) + CbAreaOf(OfMode(TypedBlocks, {mode}))
      BY <3>3, ModesGrow, ZenonT(60)
    <3> QED
      BY <1>1, <1>7, <1>9, <3>1, <3>2 DEF ModeArea
  <2>4. PICK n0 \in Nat, n1 \in Nat, n2 \in Nat, n3 \in Nat, n4 \in Nat, n5 \in Nat, n6 \in Nat :
          /\ n0 = N[0] /\ n1 = N[1] /\ n2 = N[2] /\ n3 = N[3] /\ n4 = N[4] /\ n5 = N[5] /\ n6 = N[6]
    <3>1. \A t \in 0 .. 6 : N[t] \in Nat
      BY <2>2 DEF MbTypeIdx
    <3>2. /\ N[0] \in Nat /\ N[1] \in Nat /\ N[2] \in Nat /\ N[3] \in Nat /\ N[4] \in Nat
          /\ N[5] \in Nat /\ N[6] \in Nat
      BY <3>1
    <3> QED
      BY <3>2
  <2>5. PICK m0 \in Nat, m1 \in Nat, m2 \in Nat, m3 \in Nat, m4 \in Nat, m5 \in Nat, m6 \in Nat :
          /\ m0 = stat.MbTypes[0] /\ m1 = stat.MbTypes[1] /\ m2 = stat.MbTypes[2] /\ m3 = stat.MbTypes[3]
          /\ m4 = stat.MbTypes[4] /\ m5 = stat.MbTypes[5] /\ m6 = stat.MbTypes[6]
    <3>1. \A t \in 0 .. 6 : stat.MbTypes[t] \in Nat
      BY <1>5 DEF MbTypeIdx
    <3>2. /\ stat.MbTypes[0] \in Nat /\ stat.MbTypes[1] \in Nat /\ stat.MbTypes[2] \in Nat
          /\ stat.MbTypes[3] \in Nat /\ stat.MbTypes[4] \in Nat /\ stat.MbTypes[5] \in Nat
          /\ stat.MbTypes[6] \in Nat
      BY <3>1
    <3> QED
      BY <3>2
  <2>6. \A t \in MbTypeIdx : stat'.MbTypes[t] = stat.MbTypes[t] + N[t]
    BY <1>3, <1>9, <2>1
  <2>7. /\ stat'.MbTypes[0] = m0 + n0 /\ stat'.MbTypes[1] = m1 + n1 /\ stat'.MbTypes[2] = m2 + n2
        /\ stat'.MbTypes[3] = m3 + n3 /\ stat'.MbTypes[4] = m4 + n4 /\ stat'.MbTypes[5] = m5 + n5
        /\ stat'.MbTypes[6] = m6 + n6
    BY <2>4, <2>5, <2>6 DEF MbTypeIdx
  <2>8. PICK i \in Nat, k \in Nat, p \in Nat : i = ModeArea("INTRA") /\ k = ModeArea("SKIP") /\ p = ModeArea("INTER")
    BY <2>3
  <2>9. PICK di \in Nat, dk \in Nat, dp \in Nat :
          /\ di = (IF cu.mode = "INTRA" THEN u ELSE 0) /\ dk = (IF cu.mode = "SKIP" THEN u ELSE 0)
          /\ dp = (IF cu.mode = "INTER" THEN u ELSE 0)
    BY <2>2
  <2>10. ModeArea("INTRA")' = di + i /\ ModeArea("SKIP")' = dk + k /\ ModeArea("INTER")' = dp + p
    BY <2>3, <2>8, <2>9
  <2>11. n5 + n6 = di /\ n0 + n4 = dk /\ n1 + (n2 + n3) = dp
    BY <2>2, <2>4, <2>9
  <2>12. m5 + m6 = i /\ m0 + m4 = k /\ m1 + (m2 + m3) = p
    BY <1>5, <2>5, <2>8 DEF TypesKept
  <2>13. /\ stat'.MbTypes[5] + stat'.MbTypes[6] = ModeArea("INTRA")'
         /\ stat'.MbTypes[0] + stat'.MbTypes[4] = ModeArea("SKIP")'
         /\ stat'.MbTypes[1] + (stat'.MbTypes[2] + stat'.MbTypes[3]) = ModeArea("INTER")'
    BY <2>7, <2>10, <2>11, <2>12
  <2>14. PICK a \in Nat, e \in Nat, g \in Nat :
           a = stat.NumBlksIntra /\ e = stat.NumBlksMv /\ g = stat.NumBlksSkip
    BY <1>5
  <2>15. /\ stat'.NumBlksIntra = a + InterUnits * (n5 + n6)
         /\ stat'.NumBlksMv = e + InterUnits * (n1 + (n2 + (n3 + n4)))
         /\ stat'.NumBlksSkip = g + InterUnits * n0
    BY <1>3, <1>9, <2>2, <2>4, <2>14
  <2>16. a = InterUnits * i /\ e + g = InterUnits * (p + k)
    BY <1>5, <2>8, <2>14 DEF TypesKept
  <2>17. InterUnits = 0 \/ InterUnits = 4
    BY DEF InterUnits
  <2>18. /\ stat'.NumBlksIntra = InterUnits * (di + i)
         /\ stat'.NumBlksMv + stat'.NumBlksSkip = InterUnits * ((dp + p) + (dk + k))
    <3>1. CASE InterUnits = 0
      BY <2>11, <2>15, <2>16, <3>1
    <3>2. CASE InterUnits = 4
      BY <2>11, <2>15, <2>16, <3>2
    <3> QED
      BY <2>17, <3>1, <3>2
  <2> QED
    BY <1>6, <2>10, <2>13, <2>18 DEF TypesKept
<1> QED
  BY <1>8, <1>9

(* The block that is decoded takes its pixels out of what is to be done. *)
LEMMA CuTiles ==
  ASSUME BlocksInv, NEW cu, CodingUnit(cu), NEW b, NEW s, NEW c, AtNode(b, s, cu, c)
  PROVE  TilesKept'
<1>1. /\ UNCHANGED <<coded, segment, ctb>> /\ LastBlocks' = LastBlocks \cup {c}
      /\ cu.residual = "fails" => stage' = "lost"
      /\ cu.residual # "fails" => stage' = "slice" /\ todo' = s
  BY CuEffect
<1>2. /\ b = Head(todo) /\ s = Tail(todo) /\ b \in Here /\ c = [b |-> b, cu |-> cu, slice |-> segment]
      /\ c \in BlockRecords /\ c \notin LastBlocks /\ LastBlocks \subseteq BlockRecords /\ IsFiniteSet(LastBlocks)
      /\ coded \in CodedStreams /\ stage = "slice" /\ todo # <<>>
  BY DEF AtNode
<1>3. CASE cu.residual = "fails"
  BY <1>1, <1>3 DEF TilesKept
<1>4. CASE cu.residual # "fails"
  <2>1. TilesKept /\ todo \in Seq(Here)
    BY DEF BlocksInv, BlocksTyped
  <2>2. PICK first \in 0 .. ctb : /\ segment = 1 => first = 0
                                  /\ \A q \in Boxes : Tiled(q, first, ctb + 1)
    BY <1>2, <2>1 DEF TilesKept
  <2>3. ASSUME NEW q \in Boxes
        PROVE  Tiled(q, first, ctb + 1)'
    <3>1. PICK k : /\ Adds(Shared(q), todo, k)
                   /\ k + Total(OnBlocks(Shared(q)), LastBlocks) = Begun(q, ctb + 1) - Begun(q, first)
      BY <2>2, <2>3 DEF Tiled
    <3>2. PICK w : w = Shared(q) /\ w \in [Nodes -> Nat]
      BY <1>2, SharedIsMeasure DEF Measure
    <3>3. w \in [Nodes -> Int] /\ todo \in Seq(Nodes) /\ b \in Nodes /\ w[b] \in Nat
      <4>1. Here \subseteq Nodes
        BY DEF Here
      <4> QED
        BY <1>2, <2>1, <3>2, <4>1
    <3>4. k \in Int /\ Adds(w, s, k - w[b])
      BY <1>2, <3>1, <3>2, <3>3, AddsTail
    <3>5. PICK v : v = OnBlocks(w) /\ v \in [BlockRecords -> Nat] /\ v[c] = w[b]
      <4>1. \A d \in BlockRecords : d.b \in Nodes
        BY DEF BlockRecords, Here
      <4>2. OnBlocks(w) \in [BlockRecords -> Nat]
        BY <3>2, <4>1 DEF OnBlocks
      <4>3. OnBlocks(w)[c] = w[c.b] /\ c.b = b
        BY <1>2 DEF OnBlocks
      <4> QED
        BY <4>2, <4>3
    <3>6. Total(v, LastBlocks) \in Nat /\ Total(v, LastBlocks \cup {c}) = v[c] + Total(v, LastBlocks)
      BY <1>2, <3>5, SumGrows
    <3>7. (k - w[b]) + Total(v, LastBlocks \cup {c}) = k + Total(v, LastBlocks)
      BY <3>3, <3>4, <3>5, <3>6
    <3>8. /\ Shared(q)' = w /\ OnBlocks(w)' = v /\ Begun(q, ctb + 1)' = Begun(q, ctb + 1)
          /\ Begun(q, first)' = Begun(q, first)
      <4>1. /\ Shared(q)' = Shared(q) /\ \A m : Begun(q, m)' = Begun(q, m)
            /\ OnBlocks(w)' = OnBlocks(w)
        BY <1>1, SameMeasures
      <4>2. Begun(q, ctb + 1)' = Begun(q, ctb + 1)
        BY <1>1, <4>1 DEF Begun
      <4> QED
        BY <3>2, <3>5, <4>1, <4>2
    <3>9. OnBlocks(Shared(q))' = v
      BY <1>1, <3>2, <3>5, SameMeasures DEF OnBlocks
    <3>10. PICK l : l = k - w[b]
      OBVIOUS
    <3>11. /\ Adds(w, s, l)
           /\ l + Total(v, LastBlocks \cup {c}) = Begun(q, ctb + 1) - Begun(q, first)
      BY <3>1, <3>2, <3>4, <3>5, <3>7, <3>10
    <3>12. /\ Adds(Shared(q), todo, l)'
           /\ (l + Total(OnBlocks(Shared(q)), LastBlocks))' = (Begun(q, ctb + 1) - Begun(q, first))'
      BY <1>1, <1>4, <3>8, <3>9, <3>11 DEF Adds
    <3> QED
      BY <3>12 DEF Tiled
  <2>4. Boxes' = Boxes
    BY <1>1, SameSps
  <2> QED
    BY <1>1, <1>4, <2>2, <2>3, <2>4 DEF TilesKept
<1> QED
  BY <1>3, <1>4

(* The QPs within the border are among all; an intra block that begins     *)
(* within has some.                                                        *)
LEMMA CuQps ==
  ASSUME BlocksInv, NEW cu, CodingUnit(cu), NEW b, NEW s, NEW c, AtNode(b, s, cu, c)
  PROVE  QpKept'
<1>1. /\ UNCHANGED <<coded, pic, segment, excluded>> /\ LastBlocks' = LastBlocks \cup {c}
      /\ cu.residual = "fails" => TypedBlocks' = TypedBlocks
      /\ cu.residual # "fails" => TypedBlocks' = TypedBlocks \cup {c}
  BY CuEffect
<1>2. PICK qps : qps = IF b.x = 0 /\ b.y = 0 THEN Units(b)^2 ELSE Number(b, cu, MbTypeIdx \ {SKIPPED, DIRECT})
  OBVIOUS
<1>3. /\ cu.residual = "fails" => stat'.QpCnt = stat.QpCnt /\ stat'.QpCntBB = stat.QpCntBB
      /\ cu.residual # "fails" =>
           /\ stat'.QpCnt = stat.QpCnt + qps
           /\ stat'.QpCntBB = (IF NoBorder(b) THEN stat.QpCntBB + qps ELSE stat.QpCntBB)
  <2>1. Counted(cu, b, qps)
    BY <1>2, CuCounts
  <2> QED
    BY <2>1 DEF Counted
<1>4. /\ b \in Here /\ cu \in CodingUnits /\ cu.mode \in Modes(SliceSeq[segment])
      /\ c = [b |-> b, cu |-> cu, slice |-> segment] /\ coded \in CodedStreams /\ stage = "slice"
  BY DEF AtNode
<1>5. QpKept /\ stat.QpCnt \in Nat /\ stat.QpCntBB \in Nat /\ stat.BlackBorder = excluded
  BY <1>4 DEF BlocksInv, BlocksTyped, Statistics, BorderKept
<1>6. qps \in Nat /\ (cu.mode = "INTRA" => qps > 0)
  <2>1. PICK u, N : u = Units(b)^2 /\ N = [t \in MbTypeIdx |-> Number(b, cu, {t})]
    OBVIOUS
  <2>2. /\ u \in Nat \ {0}
        /\ Number(b, cu, MbTypeIdx \ {SKIPPED, DIRECT}) = (IF cu.mode = "SKIP" THEN 0 ELSE u)
    <3>1. ByMode(b, cu, u, N)
      BY <1>4, <2>1, NumbersAdd
    <3> QED
      BY <3>1 DEF ByMode
  <2> QED
    BY <1>2, <2>1, <2>2
<1>7. sps' = sps /\ pict_type' = pict_type
  BY <1>1, SameSps, SamePicture
<1>8. stat'.QpCntBB <= stat'.QpCnt /\ stat'.QpCntBB >= stat.QpCntBB
  <2>1. PICK k \in Nat, l \in Nat : k = stat.QpCnt /\ l = stat.QpCntBB /\ l <= k
    BY <1>5 DEF QpKept
  <2>2. CASE cu.residual = "fails"
    BY <1>3, <2>1, <2>2
  <2>3. CASE cu.residual # "fails" /\ NoBorder(b)
    BY <1>3, <1>6, <2>1, <2>3
  <2>4. CASE cu.residual # "fails" /\ ~NoBorder(b)
    BY <1>3, <1>6, <2>1, <2>4
  <2> QED
    BY <2>2, <2>3, <2>4
<1>9. ASSUME NEW d \in TypedBlocks', d.cu.mode = "INTRA", d.b.y >= excluded, sps.height - d.b.y > excluded
      PROVE  stat'.QpCntBB > 0
  <2>1. CASE d \in TypedBlocks
    <3>1. stat.QpCntBB > 0
      BY <1>5, <1>9, <2>1 DEF QpKept
    <3>2. PICK k \in Nat, l \in Nat : k = stat.QpCntBB /\ l = stat'.QpCntBB /\ l >= k
      <4>1. stat'.QpCntBB \in Nat
        BY <1>3, <1>5, <1>6
      <4> QED
        BY <1>5, <1>8, <4>1
    <3> QED
      BY <3>1, <3>2
  <2>2. CASE d \notin TypedBlocks
    <3>1. cu.residual # "fails" /\ d = c
      BY <1>1, <1>9, <2>2
    <3>2. NoBorder(b)
      BY <1>4, <1>5, <1>9, <3>1 DEF NoBorder
    <3>3. stat'.QpCntBB = stat.QpCntBB + qps /\ qps > 0
      BY <1>3, <1>4, <1>6, <1>9, <3>1, <3>2
    <3> QED
      BY <1>5, <1>6, <3>3
  <2> QED
    BY <2>1, <2>2
<1>10. segment = 1 /\ pic >= 1 /\ pict_type = "I" => \A d \in LastBlocks' : d.cu.mode = "INTRA"
  <2> SUFFICES ASSUME segment = 1, pic >= 1, pict_type = "I"
               PROVE  \A d \in LastBlocks' : d.cu.mode = "INTRA"
    OBVIOUS
  <2>1. \A d \in LastBlocks : d.cu.mode = "INTRA"
    BY <1>5 DEF QpKept
  <2>2. cu.mode = "INTRA"
    BY <1>4 DEF pict_type, Modes
  <2> QED
    BY <1>1, <1>4, <2>1, <2>2
<1> QED
  BY <1>1, <1>7, <1>8, <1>9, <1>10 DEF QpKept

(* A coding unit keeps the invariant. *)
LEMMA CodingUnitInv ==
  ASSUME BlocksInv, NEW cu \in coded.units, CodingUnit(cu)
  PROVE  BlocksInv'
<1>1. PICK b, s, c : AtNode(b, s, cu, c)
  BY CuIsNew
<1>2. BlocksTyped' /\ StepsKept' /\ BorderKept'
  BY <1>1, CuTyped
<1>3. AreaKept' /\ TypesKept' /\ TilesKept' /\ QpKept'
  BY <1>1, CuArea, CuTypes, CuTiles, CuQps
<1> QED
  BY <1>2, <1>3 DEF BlocksInv

-----------------------------------------------------------------------------

(* Every step keeps it. *)
LEMMA BlocksNextInv ==
  ASSUME BlocksInv, [BlocksNext]_blockVars
  PROVE  BlocksInv'
<1>1. CASE StartPicture
  BY <1>1, StartPictureInv
<1>2. CASE StartSlice
  BY <1>2, StartSliceInv
<1>3. CASE SplitNode
  BY <1>3, SplitNodeInv
<1>4. CASE \E cu \in coded.units : CodingUnit(cu)
  BY <1>4, CodingUnitInv
<1>5. CASE NextCtb
  BY <1>5, NextCtbInv
<1>6. CASE EndSlice
  BY <1>6, EndSliceInv
<1>7. CASE GetVideoStatisticsHEVC
  BY <1>7, GetVideoStatisticsInv
<1>8. CASE BlocksFinished
  BY <1>8, BlocksStutterInv DEF BlocksFinished
<1>9. CASE UNCHANGED blockVars
  BY <1>9, BlocksStutterInv
<1> QED
  BY <1>1, <1>2, <1>3, <1>4, <1>5, <1>6, <1>7, <1>8, <1>9 DEF BlocksNext

(* Whatever the stream, its sizes and its coding units, the inductive      *)
(* invariant always holds.                                                 *)
THEOREM BlocksInvariant == BlocksSpec => []BlocksInv
<1>1. BlocksInit => BlocksInv
  BY BlocksInitInv
<1>2. BlocksInv /\ [BlocksNext]_blockVars => BlocksInv'
  BY BlocksNextInv
<1> QED
  BY <1>1, <1>2, PTL DEF BlocksSpec

(* Every variable keeps its type, and the coding blocks lie in the         *)
(* picture, for every stream.                                              *)
THEOREM BlocksTypeCorrect == BlocksSpec => []BlocksTypeOK
<1>1. ASSUME BlocksInv
      PROVE  BlocksTypeOK
  <2>1. BlocksTyped /\ BorderKept
    BY <1>1 DEF BlocksInv
  <2>2. \A i \in DOMAIN todo : InPicture(todo[i]) /\ todo[i].log \in sps.cb .. sps.ctb
    <3>1. todo \in Seq(Here)
      BY <2>1 DEF BlocksTyped
    <3>2. \A i \in DOMAIN todo : todo[i] \in Here
      BY <3>1
    <3> QED
      BY <3>2 DEF Here
  <2>3. 2 * CurrBlackBorder < sps.height /\ CurrBlackBorder >= 0 /\ excluded \in Nat
    BY <2>1 DEF BorderKept, Centered
  <2>4. stat \in Statistics
    BY <2>1 DEF BlocksTyped
  <2> QED
    BY <2>1, <2>2, <2>3, <2>4 DEF BlocksTypeOK, BlocksTyped, Statistics
<1> QED
  BY <1>1, BlocksInvariant, PTL

(* The border handed out with a picture is the one found in the latest     *)
(* whole I picture, centered, and the array of dark lines is overrun only  *)
(* by pictures higher than wide.                                           *)
THEOREM BordersOfIntra == BlocksSpec => []BorderOfIntra
<1>1. ASSUME BlocksInv
      PROVE  BorderOfIntra
  <2>1. BorderKept /\ pic \in Nat
    BY <1>1 DEF BlocksInv, BlocksTyped
  <2>2. ASSUME Shown
        PROVE  /\ stat.BlackBorder = CurrBlackBorder
               /\ pict_type = "I" /\ ~Lost => OfPicture(CurrBlackBorder)
               /\ pict_type # "I" \/ Lost => CurrBlackBorder = excluded
    <3>1. stage = "shown" /\ pic >= 1
      BY <2>1, <2>2 DEF Shown
    <3> QED
      BY <2>1, <3>1 DEF BorderKept
  <2>3. stage = "misused" => sps.height > sps.width
    BY <2>1 DEF BorderKept
  <2> QED
    BY <2>2, <2>3 DEF BorderOfIntra, OfPicture
<1> QED
  BY <1>1, BlocksInvariant, PTL

(* The types counted by MbStatistcsHEVC are those of the coding blocks of  *)
(* the last slice segment: the third assertion at the end of               *)
(* GetVideoStatisticsHEVC, mode by mode.                                   *)
THEOREM TypesCover == BlocksSpec => []TypesCoverSlice
<1>1. ASSUME BlocksInv
      PROVE  TypesCoverSlice
  <2>1. TypesKept /\ stat.MbTypes \in [MbTypeIdx -> Nat]
    BY <1>1 DEF BlocksInv, BlocksTyped, Statistics
  <2>2. SumOf([t \in 1 .. 3 |-> stat.MbTypes[t]])
          = stat.MbTypes[1] + (stat.MbTypes[2] + stat.MbTypes[3])
    <3>1. PICK f : f = [t \in 1 .. 3 |-> stat.MbTypes[t]]
      OBVIOUS
    <3>2. DOMAIN f = {1, 2, 3}
      BY <3>1
    <3>3. f[1] = stat.MbTypes[1] /\ f[2] = stat.MbTypes[2] /\ f[3] = stat.MbTypes[3]
      BY <3>1
    <3>4. stat.MbTypes[1] \in Int /\ stat.MbTypes[2] \in Int /\ stat.MbTypes[3] \in Int
      <4>1. \A t \in 0 .. 6 : stat.MbTypes[t] \in Nat
        BY <2>1 DEF MbTypeIdx
      <4>2. stat.MbTypes[1] \in Nat /\ stat.MbTypes[2] \in Nat /\ stat.MbTypes[3] \in Nat
        BY <4>1
      <4> QED
        BY <4>2
    <3>5. PICK x, y, z : x = 1 /\ y = 2 /\ z = 3
      OBVIOUS
    <3>6. SumOf(f) = f[x] + (f[y] + f[z])
      <4>1. DOMAIN f = {x, y, z} /\ x # y /\ y # z /\ x # z /\ f[x] \in Int /\ f[y] \in Int /\ f[z] \in Int
        BY <3>2, <3>3, <3>4, <3>5
      <4> QED
        BY <4>1, SumOfThree
    <3> QED
      BY <3>1, <3>3, <3>5, <3>6
  <2>3. (IF pict_type = "I" THEN 0 ELSE MBs * MBs) = InterUnits
    <3>1. MBs * MBs = 4
      BY DEF MBs
    <3> QED
      BY <3>1 DEF InterUnits
  <2>4. /\ stat.MbTypes[INTRA_BLK] + stat.MbTypes[INTRA_PLN] = ModeArea("INTRA")
        /\ stat.MbTypes[SKIPPED] + stat.MbTypes[DIRECT] = ModeArea("SKIP")
        /\ SumOf([t \in 1 .. 3 |-> stat.MbTypes[t]]) = ModeArea("INTER")
        /\ stat.NumBlksIntra = InterUnits * ModeArea("INTRA")
        /\ stat.NumBlksMv + stat.NumBlksSkip = InterUnits * (ModeArea("INTER") + ModeArea("SKIP"))
    BY <2>1, <2>2 DEF TypesKept, INTRA_BLK, INTRA_PLN, SKIPPED, DIRECT
  <2> QED
    BY <2>3, <2>4 DEF TypesCoverSlice, ModeArea
<1> QED
  BY <1>1, BlocksInvariant, PTL

(* The shapes of the partitions have the partitions' area. *)
LEMMA ShapesHaveArea ==
  ASSUME NEW P \in [PUSizes -> [0 .. 5 -> Nat]], NEW S, S = ShapeStatisticsHEVC(P)
  PROVE  SumOf([i \in 0 .. 8 |-> S[i] * 2^i]) = PUArea(P)
<1>1. /\ S \in [0 .. 8 -> Nat]
      /\ S[0] = 4 * P[3][3] /\ S[8] = P[6][0]
      /\ S[2] = P[3][0] + 4 * P[4][3] /\ S[4] = P[4][0] + 4 * P[5][3] /\ S[6] = P[5][0] + 4 * P[6][3]
      /\ S[1] = 2 * P[3][1] + (2 * P[3][2] + (2 * P[3][4] + 2 * P[3][5]))
      /\ S[3] = 2 * P[4][1] + (2 * P[4][2] + (2 * P[4][4] + 2 * P[4][5]))
      /\ S[5] = 2 * P[5][1] + (2 * P[5][2] + (2 * P[5][4] + 2 * P[5][5]))
      /\ S[7] = 2 * P[6][1] + (2 * P[6][2] + (2 * P[6][4] + 2 * P[6][5]))
  BY ShapesAre
<1>2. PICK f : f = [i \in 0 .. 8 |-> S[i] * 2^i]
  OBVIOUS
<1>3. /\ f[0] = S[0] * 2^0 /\ f[1] = S[1] * 2^1 /\ f[2] = S[2] * 2^2 /\ f[3] = S[3] * 2^3
      /\ f[4] = S[4] * 2^4 /\ f[5] = S[5] * 2^5 /\ f[6] = S[6] * 2^6 /\ f[7] = S[7] * 2^7
      /\ f[8] = S[8] * 2^8
  BY <1>2
<1>4. /\ f[0] = S[0] * 1 /\ f[1] = S[1] * 2 /\ f[2] = S[2] * 4 /\ f[3] = S[3] * 8
      /\ f[4] = S[4] * 16 /\ f[5] = S[5] * 32 /\ f[6] = S[6] * 64 /\ f[7] = S[7] * 128
      /\ f[8] = S[8] * 256
  <2>1. 2^7 = 128 /\ 2^8 = 256
    OBVIOUS
  <2> QED
    BY <1>3, <2>1, PowersOfTwo
<1>5. ASSUME NEW log, log \in 3 .. 6
      PROVE  /\ P[log][0] \in Nat /\ P[log][1] \in Nat /\ P[log][2] \in Nat
             /\ P[log][3] \in Nat /\ P[log][4] \in Nat /\ P[log][5] \in Nat
  <2>1. P[log] \in [0 .. 5 -> Nat]
    BY <1>5 DEF PUSizes
  <2> QED
    BY <2>1
<1>6. /\ S[0] \in Nat /\ S[1] \in Nat /\ S[2] \in Nat /\ S[3] \in Nat /\ S[4] \in Nat
      /\ S[5] \in Nat /\ S[6] \in Nat /\ S[7] \in Nat /\ S[8] \in Nat
  BY <1>1
<1>7. SumOf(f) = f[0] + (f[1] + (f[2] + (f[3] + (f[4] + (f[5] + (f[6] + (f[7] + f[8])))))))
  <2>1. DOMAIN f = 0 .. 8
    BY <1>2
  <2>2. \A i \in 0 .. 8 : f[i] \in Int
    BY <1>4, <1>6
  <2> QED
    BY <2>1, <2>2, SumOfNine
<1>8. PICK a0 \in Nat, a1 \in Nat, a2 \in Nat, a3 \in Nat, a4 \in Nat, a5 \in Nat :
        /\ a0 = P[3][0] /\ a1 = P[3][1] /\ a2 = P[3][2] /\ a3 = P[3][3] /\ a4 = P[3][4] /\ a5 = P[3][5]
  <2>1. 3 \in 3 .. 6
    OBVIOUS
  <2>2. /\ P[3][0] \in Nat /\ P[3][1] \in Nat /\ P[3][2] \in Nat
        /\ P[3][3] \in Nat /\ P[3][4] \in Nat /\ P[3][5] \in Nat
    BY <1>5, <2>1
  <2> QED
    BY <2>2
<1>9. PICK b0 \in Nat, b1 \in Nat, b2 \in Nat, b3 \in Nat, b4 \in Nat, b5 \in Nat :
        /\ b0 = P[4][0] /\ b1 = P[4][1] /\ b2 = P[4][2] /\ b3 = P[4][3] /\ b4 = P[4][4] /\ b5 = P[4][5]
  <2>1. 4 \in 3 .. 6
    OBVIOUS
  <2>2. /\ P[4][0] \in Nat /\ P[4][1] \in Nat /\ P[4][2] \in Nat
        /\ P[4][3] \in Nat /\ P[4][4] \in Nat /\ P[4][5] \in Nat
    BY <1>5, <2>1
  <2> QED
    BY <2>2
<1>10. PICK c0 \in Nat, c1 \in Nat, c2 \in Nat, c3 \in Nat, c4 \in Nat, c5 \in Nat :
        /\ c0 = P[5][0] /\ c1 = P[5][1] /\ c2 = P[5][2] /\ c3 = P[5][3] /\ c4 = P[5][4] /\ c5 = P[5][5]
  <2>1. 5 \in 3 .. 6
    OBVIOUS
  <2>2. /\ P[5][0] \in Nat /\ P[5][1] \in Nat /\ P[5][2] \in Nat
        /\ P[5][3] \in Nat /\ P[5][4] \in Nat /\ P[5][5] \in Nat
    BY <1>5, <2>1
  <2> QED
    BY <2>2
<1>11. PICK d0 \in Nat, d1 \in Nat, d2 \in Nat, d3 \in Nat, d4 \in Nat, d5 \in Nat :
        /\ d0 = P[6][0] /\ d1 = P[6][1] /\ d2 = P[6][2] /\ d3 = P[6][3] /\ d4 = P[6][4] /\ d5 = P[6][5]
  <2>1. 6 \in 3 .. 6
    OBVIOUS
  <2>2. /\ P[6][0] \in Nat /\ P[6][1] \in Nat /\ P[6][2] \in Nat
        /\ P[6][3] \in Nat /\ P[6][4] \in Nat /\ P[6][5] \in Nat
    BY <1>5, <2>1
  <2> QED
    BY <2>2
<1>12. /\ f[0] = 4 * a3 /\ f[1] = 4 * (a1 + (a2 + (a4 + a5))) /\ f[2] = 4 * a0 + 16 * b3
       /\ f[3] = 16 * (b1 + (b2 + (b4 + b5))) /\ f[4] = 16 * b0 + 64 * c3
       /\ f[5] = 64 * (c1 + (c2 + (c4 + c5))) /\ f[6] = 64 * c0 + 256 * d3
       /\ f[7] = 256 * (d1 + (d2 + (d4 + d5))) /\ f[8] = 256 * d0
  BY <1>1, <1>4, <1>8, <1>9, <1>10, <1>11, SMTT(30)
<1>13. PUArea(P) = 4 * (a0 + (a1 + (a2 + (a3 + (a4 + a5)))))
                   + (16 * (b0 + (b1 + (b2 + (b3 + (b4 + b5)))))
                      + (64 * (c0 + (c1 + (c2 + (c3 + (c4 + c5)))))
                         + 256 * (d0 + (d1 + (d2 + (d3 + (d4 + d5)))))))
  BY <1>8, <1>9, <1>10, <1>11 DEF PUArea, RowSum
<1> QED
  BY <1>2, <1>7, <1>12, <1>13

(* So have the transforms. *)
LEMMA TransformsHaveArea ==
  ASSUME NEW T \in [TrIdx -> Nat]
  PROVE  T[0] + SumOf([log \in 2 .. 5 |-> T[log] * Area(log)]) = TrArea(T)
<1>1. PICK f : f = [log \in 2 .. 5 |-> T[log] * Area(log)]
  OBVIOUS
<1>2. T[0] \in Nat /\ T[2] \in Nat /\ T[3] \in Nat /\ T[4] \in Nat /\ T[5] \in Nat
  BY DEF TrIdx
<1>3. f[2] = T[2] * 1 /\ f[3] = T[3] * 4 /\ f[4] = T[4] * 16 /\ f[5] = T[5] * 64
  <2>1. f[2] = T[2] * Area(2) /\ f[3] = T[3] * Area(3) /\ f[4] = T[4] * Area(4) /\ f[5] = T[5] * Area(5)
    BY <1>1
  <2> QED
    BY <2>1, Areas
<1>4. SumOf(f) = f[2] + (f[3] + (f[4] + f[5]))
  <2>1. DOMAIN f = 2 .. 5
    BY <1>1
  <2>2. \A i \in 2 .. 5 : f[i] \in Int
    BY <1>2, <1>3
  <2> QED
    BY <2>1, <2>2, SumOfFour
<1> QED
  BY <1>1, <1>2, <1>3, <1>4 DEF TrArea

(* The blocks of a picture in one slice segment, whole, have its area. *)
LEMMA BlocksHaveArea ==
  ASSUME BlocksTyped, \A q \in Boxes : Total(OnBlocks(Shared(q)), LastBlocks) = Begun(q, Ctbs)
  PROVE  16 * AreaOf(LastBlocks) = sps.width * sps.height
<1>1. coded \in CodedStreams /\ \A c \in LastBlocks : FitsIn(c.b)
  BY DEF BlocksTyped, LastBlocks
<1>2. sps.width \in Nat \ {0} /\ sps.height \in Nat \ {0}
  BY <1>1, SpsTypes
<1>3. PICK q : q = [left |-> 0, right |-> sps.width, top |-> 0, bottom |-> sps.height]
  OBVIOUS
<1>4. q \in Boxes
  BY <1>2, <1>3 DEF Boxes
<1>5. Total(OnBlocks(Shared(q)), LastBlocks) = sps.width * sps.height
  <2>1. Begun(q, Ctbs) = (q.right - q.left) * (q.bottom - q.top)
    BY <1>1, <1>4, AllBegun
  <2>2. q.right - q.left = sps.width /\ q.bottom - q.top = sps.height
    BY <1>2, <1>3
  <2> QED
    BY <1>4, <2>1, <2>2
<1>6. LastBlocks \subseteq BlockRecords /\ IsFiniteSet(LastBlocks)
  BY <1>4, BlocksShare
<1>7. \A c \in LastBlocks : OnBlocks(Shared(q))[c] = 16 * AreaW[c]
  <2> SUFFICES ASSUME NEW c \in LastBlocks
               PROVE  OnBlocks(Shared(q))[c] = 16 * AreaW[c]
    OBVIOUS
  <2>1. c \in BlockRecords /\ FitsIn(c.b)
    BY <1>1, <1>6
  <2>2. PICK b : b = c.b /\ b \in Here /\ FitsIn(b)
    BY <2>1 DEF BlockRecords
  <2>3. b \in Nodes /\ b.log \in 3 .. 6 /\ b.x \in Nat /\ b.y \in Nat
    BY <1>1, <2>2, HereIs
  <2>4. PICK h \in Nat \ {0} : h = 2^b.log
    <3>1. b.log \in 1 .. 6
      BY <2>3
    <3> QED
      BY <3>1, Powers
  <2>5. b.x + h <= sps.width /\ b.y + h <= sps.height
    BY <2>2, <2>4 DEF FitsIn
  <2>6. Overlap(0, sps.width, b.x, h) = h /\ Overlap(0, sps.height, b.y, h) = h
    BY <1>2, <2>3, <2>5, OverlapIs
  <2>7. Shared(q)[b] = h * h
    BY <1>3, <2>3, <2>4, <2>6 DEF Shared
  <2>8. 16 * Area(b.log) = h * h
    BY <2>3, <2>4, AreaTypes
  <2>9. OnBlocks(Shared(q))[c] = Shared(q)[b] /\ AreaW[c] = Area(b.log)
    BY <2>1, <2>2 DEF OnBlocks, AreaW
  <2> QED
    BY <2>7, <2>8, <2>9
<1>8. Total(OnBlocks(Shared(q)), LastBlocks) = 16 * Total(AreaW, LastBlocks)
  <2>1. Integral(AreaW, LastBlocks)
    BY <1>1, <1>6, WeightsTyped DEF Integral
  <2> QED
    BY <1>6, <1>7, <2>1, TotalScaled
<1>9. AreaOf(LastBlocks) = Total(AreaW, LastBlocks)
  BY <1>1, <1>6, BlockAreas
<1> QED
  BY <1>5, <1>8, <1>9

(* The shapes and the transforms counted have the area of the coding       *)
(* blocks of the last slice segment, which is that of the picture if it is *)
(* the only one: the first two assertions at the end of                    *)
(* GetVideoStatisticsHEVC.                                                 *)
THEOREM AreaIsCovered == BlocksSpec => []BlocksCoverSlice
<1>1. ASSUME BlocksInv
      PROVE  BlocksCoverSlice
  <2>1. /\ BlocksTyped /\ AreaKept /\ TilesKept
        /\ stat.PU_Stat \in [PUSizes -> [0 .. 5 -> Nat]] /\ stat.TrShapes \in [TrIdx -> Nat]
    BY <1>1 DEF BlocksInv, BlocksTyped, Statistics
  <2>2. ASSUME Shown, \A c \in LastBlocks : c.cu.part < 6
        PROVE  SumOf([i \in 0 .. 8 |-> BlkShapes[i] * 2^i]) = AreaOf(LastBlocks)
    <3>1. BlkShapes = ShapeStatisticsHEVC(stat.PU_Stat) /\ PUArea(stat.PU_Stat) = AreaOf(LastBlocks)
      BY <2>1, <2>2 DEF AreaKept
    <3> QED
      BY <2>1, <3>1, ShapesHaveArea
  <2>3. ASSUME Shown, segment = 1, ~Lost
        PROVE  16 * AreaOf(LastBlocks) = sps.width * sps.height
    <3>1. stage = "shown" /\ pic >= 1
      <4>1. pic \in Nat
        BY <2>1 DEF BlocksTyped
      <4> QED
        BY <2>3, <4>1 DEF Shown
    <3>2. \A q \in Boxes : Total(OnBlocks(Shared(q)), LastBlocks) = Begun(q, Ctbs)
      BY <2>1, <2>3, <3>1 DEF TilesKept
    <3> QED
      BY <2>1, <3>2, BlocksHaveArea
  <2>4. ASSUME Shown, \A c \in LastBlocks : c.cu.residual \notin {"pcm", "swallowed"}
        PROVE  stat.TrShapes[0] + SumOf([log \in 2 .. 5 |-> stat.TrShapes[log] * Area(log)])
                 = AreaOf(LastBlocks)
    <3>1. TrArea(stat.TrShapes) = AreaOf(LastBlocks)
      BY <2>1, <2>4 DEF AreaKept
    <3> QED
      BY <2>1, <3>1, TransformsHaveArea
  <2> QED
    BY <2>2, <2>3, <2>4 DEF BlocksCoverSlice
<1> QED
  BY <1>1, BlocksInvariant, PTL

-----------------------------------------------------------------------------

(* A block of the first column and a line of the picture. *)
OnLine(c, y) == c.b.x = 0 /\ c.b.y <= y /\ y < c.b.y + 2^c.b.log

(* One block has it, and only one. *)
LEMMA OneOnLine ==
  ASSUME BlocksTyped, \A q \in Boxes : Total(OnBlocks(Shared(q)), LastBlocks) = Begun(q, Ctbs),
         NEW y, y \in Nat, y < sps.height
  PROVE  /\ \E c \in LastBlocks : OnLine(c, y)
         /\ \A c, d \in LastBlocks : OnLine(c, y) /\ OnLine(d, y) => c = d
<1>1. coded \in CodedStreams
  BY DEF BlocksTyped
<1>2. sps.width \in Nat \ {0} /\ sps.height \in Nat \ {0}
  BY <1>1, SpsTypes
<1>3. PICK q : q = [left |-> 0, right |-> 1, top |-> y, bottom |-> y + 1]
  OBVIOUS
<1>4. q \in Boxes
  BY <1>2, <1>3 DEF Boxes
<1>5. PICK w : w = OnBlocks(Shared(q)) /\ w \in [BlockRecords -> Nat]
  BY <1>4, BlocksShare
<1>6. LastBlocks \subseteq BlockRecords /\ IsFiniteSet(LastBlocks)
  BY <1>4, BlocksShare
<1>7. Total(w, LastBlocks) = 1
  <2>1. Begun(q, Ctbs) = (q.right - q.left) * (q.bottom - q.top)
    BY <1>1, <1>4, AllBegun
  <2>2. q.right - q.left = 1 /\ q.bottom - q.top = 1
    BY <1>3
  <2> QED
    BY <1>4, <1>5, <2>1, <2>2
<1>8. ASSUME NEW c \in LastBlocks
      PROVE  w[c] = IF OnLine(c, y) THEN 1 ELSE 0
  <2>1. PICK b : b = c.b /\ b \in Here /\ c \in BlockRecords
    BY <1>6 DEF BlockRecords
  <2>2. b \in Nodes /\ b.log \in 3 .. 6 /\ b.x \in Nat /\ b.y \in Nat
    BY <1>1, <2>1, HereIs
  <2>3. PICK h \in Nat \ {0} : h = 2^b.log
    <3>1. b.log \in 1 .. 6
      BY <2>2
    <3> QED
      BY <3>1, Powers
  <2>4. PICK o, p : o = Overlap(0, 1, b.x, h) /\ p = Overlap(y, y + 1, b.y, h)
    OBVIOUS
  <2>5. /\ o = (IF b.x = 0 THEN 1 ELSE 0)
        /\ p = (IF b.y <= y /\ y < b.y + h THEN 1 ELSE 0)
    BY <2>2, <2>3, <2>4 DEF Overlap
  <2>6. w[c] = o * p
    <3>1. Shared(q)[b] = o * p
      BY <1>3, <2>2, <2>3, <2>4 DEF Shared
    <3> QED
      BY <1>5, <2>1, <3>1 DEF OnBlocks
  <2>7. OnLine(c, y) <=> b.x = 0 /\ b.y <= y /\ y < b.y + h
    BY <2>1, <2>3 DEF OnLine
  <2> QED
    BY <2>5, <2>6, <2>7
<1>9. /\ Total(w, LastBlocks) # 0 => \E c \in LastBlocks : w[c] # 0
      /\ \A c, d \in LastBlocks : c # d => w[c] + w[d] <= Total(w, LastBlocks)
  <2>1. \A c \in LastBlocks : w[c] \in Nat
    BY <1>5, <1>6
  <2> QED
    BY <1>6, <2>1, TotalNat
<1>10. \E c \in LastBlocks : OnLine(c, y)
  <2>1. PICK c \in LastBlocks : w[c] # 0
    BY <1>7, <1>9
  <2> QED
    BY <1>8, <2>1
<1>11. ASSUME NEW c \in LastBlocks, NEW d \in LastBlocks, OnLine(c, y), OnLine(d, y)
       PROVE  c = d
  <2>1. w[c] = 1 /\ w[d] = 1
    BY <1>8, <1>11
  <2>2. c # d => w[c] + w[d] <= 1
    BY <1>7, <1>9
  <2> QED
    BY <2>1, <2>2
<1> QED
  BY <1>10, <1>11

(* If no block is higher than what the border leaves, one begins there.    *)
LEMMA BlockWithin ==
  ASSUME BlocksTyped, \A q \in Boxes : Total(OnBlocks(Shared(q)), LastBlocks) = Begun(q, Ctbs),
         Centered(excluded), \A c \in LastBlocks : 2^c.b.log <= sps.height - 2 * excluded
  PROVE  \E c \in LastBlocks : c.b.y >= excluded /\ sps.height - c.b.y > excluded
<1>1. coded \in CodedStreams /\ LastBlocks \subseteq BlockRecords
  BY DEF BlocksTyped, LastBlocks
<1>2. PICK e \in Nat, height \in Nat : e = excluded /\ height = sps.height /\ 2 * e < height
  BY <1>1, SpsTypes DEF Centered
<1>3. ASSUME NEW c \in LastBlocks
      PROVE  c.b.y \in Nat /\ 2^c.b.log \in Nat \ {0} /\ 2^c.b.log <= height - 2 * e
  <2>1. c.b \in Here
    BY <1>1 DEF BlockRecords
  <2>2. c.b.log \in 3 .. 6 /\ c.b.y \in Nat
    BY <1>1, <2>1, HereIs
  <2>3. c.b.log \in 1 .. 6
    BY <2>2
  <2> QED
    BY <1>2, <2>2, <2>3, Powers
<1>4. e < sps.height
  BY <1>2
<1>5. PICK c \in LastBlocks : OnLine(c, e)
  BY <1>4, OneOnLine
<1>6. PICK y \in Nat, h \in Nat \ {0} : y = c.b.y /\ h = 2^c.b.log /\ h <= height - 2 * e
  BY <1>3
<1>7. c.b.x = 0 /\ y <= e /\ e < y + h
  BY <1>5, <1>6 DEF OnLine
<1>8. CASE y = e
  <2>1. y >= e /\ height - y > e
    BY <1>2, <1>8
  <2>2. c.b.y >= excluded /\ sps.height - c.b.y > excluded
    BY <1>2, <1>6, <2>1
  <2> QED
    BY <2>2
<1>9. CASE y < e
  <2>1. PICK z \in Nat : z = y + h
    OBVIOUS
  <2>2. z > e /\ height - z > e /\ z < sps.height /\ z - 1 \in Nat /\ z - 1 < sps.height
    BY <1>2, <1>6, <1>7, <1>9, <2>1
  <2>3. PICK d \in LastBlocks : OnLine(d, z)
    BY <2>2, OneOnLine
  <2>4. PICK t \in Nat, k \in Nat \ {0} : t = d.b.y /\ k = 2^d.b.log
    BY <1>3
  <2>5. d.b.x = 0 /\ t <= z /\ z < t + k
    BY <2>3, <2>4 DEF OnLine
  <2>6. t = z
    <3>1. ASSUME t < z PROVE FALSE
      <4>1. OnLine(c, z - 1)
        BY <1>6, <1>7, <2>1 DEF OnLine
      <4>2. OnLine(d, z - 1)
        BY <2>4, <2>5, <3>1 DEF OnLine
      <4>3. c = d
        BY <2>2, <4>1, <4>2, OneOnLine
      <4> QED
        BY <1>6, <2>1, <2>4, <2>5, <4>3
    <3> QED
      BY <2>5, <3>1
  <2> QED
    <3>1. z >= e /\ height - z > e
      BY <2>2
    <3>2. d.b.y >= excluded /\ sps.height - d.b.y > excluded
      BY <1>2, <2>4, <2>6, <3>1
    <3> QED
      BY <3>2
<1> QED
  BY <1>7, <1>8, <1>9

(* An I picture of one slice segment, whole, has a QP within the border,   *)
(* so Av_QPBB is defined, if no block of it is higher than what the border *)
(* leaves.                                                                 *)
THEOREM AveragesDefined == BlocksSpec => []AverageDefined
<1>1. ASSUME BlocksInv
      PROVE  AverageDefined
  <2>1. BlocksTyped /\ BorderKept /\ TilesKept /\ QpKept
    BY <1>1 DEF BlocksInv
  <2> SUFFICES ASSUME Shown, pict_type = "I", segment = 1, ~Lost
               PROVE  /\ (\A c \in blocks : 2^c.b.log <= sps.height - 2 * excluded) => stat.QpCntBB > 0
                      /\ stat.QpCntBB <= stat.QpCnt
    BY DEF AverageDefined
  <2>2. stage = "shown" /\ pic >= 1
    <3>1. pic \in Nat
      BY <2>1 DEF BlocksTyped
    <3> QED
      BY <3>1 DEF Shown
  <2>3. \A q \in Boxes : Total(OnBlocks(Shared(q)), LastBlocks) = Begun(q, Ctbs)
    BY <2>1, <2>2 DEF TilesKept
  <2>4. ASSUME \A c \in blocks : 2^c.b.log <= sps.height - 2 * excluded
        PROVE  stat.QpCntBB > 0
    <3>1. \A c \in LastBlocks : 2^c.b.log <= sps.height - 2 * excluded
      BY <2>4 DEF LastBlocks
    <3>2. Centered(excluded)
      BY <2>1 DEF BorderKept
    <3>3. PICK c \in LastBlocks : c.b.y >= excluded /\ sps.height - c.b.y > excluded
      BY <2>1, <2>3, <3>1, <3>2, BlockWithin
    <3>4. c \in TypedBlocks
      BY <3>3 DEF TypedBlocks, Lost
    <3>5. c.cu.mode = "INTRA"
      BY <2>1, <2>2, <3>3 DEF QpKept
    <3> QED
      BY <2>1, <3>3, <3>4, <3>5 DEF QpKept
  <2> QED
    BY <2>1, <2>4 DEF QpKept
<1> QED
  BY <1>1, BlocksInvariant, PTL
=============================================================================
