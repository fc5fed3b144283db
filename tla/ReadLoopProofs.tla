--------------------------- MODULE ReadLoopProofs ----------------------------
(***************************************************************************)
(* Proofs about ReadLoop, for every set of files, decoder delay and client.*)
(***************************************************************************)
EXTENDS ReadLoop, FiniteSetTheorems, TLAPS

IInv == TypeOK /\ Progress /\ DecodedOnce /\ Conservation

LEMMA ElementOfSeq ==
  ASSUME NEW S, NEW s \in Seq(S), NEW i \in DOMAIN s
  PROVE  s[i] \in S
  OBVIOUS

(* What a file of Files is made of. *)
LEMMA FileShape ==
  ASSUME NEW f \in Files
  PROVE  /\ Len(f) \in Nat /\ DOMAIN f = 1 .. Len(f)
         /\ \A p \in DOMAIN f :
              /\ f[p] \in [stream : Nat, units : Seq(UnitKinds)]
              /\ f[p].stream \in Nat
              /\ f[p].units \in Seq(UnitKinds)
              /\ Len(f[p].units) \in Nat
              /\ DOMAIN f[p].units = 1 .. Len(f[p].units)
              /\ f[p].stream = VideoIdx => Len(f[p].units) > 0
              /\ f[p].stream # VideoIdx => Len(f[p].units) = 0
<1>1. /\ f \in Seq([stream : Nat, units : Seq(UnitKinds)])
      /\ \A p \in DOMAIN f : (f[p].stream = VideoIdx) <=> (f[p].units # <<>>)
  BY FilesAssumption
<1>2. Len(f) \in Nat /\ DOMAIN f = 1 .. Len(f)
  BY <1>1
<1>3. ASSUME NEW p \in DOMAIN f
      PROVE  f[p] \in [stream : Nat, units : Seq(UnitKinds)]
  BY <1>1, ElementOfSeq
<1>4. ASSUME NEW s \in Seq(UnitKinds)
      PROVE  Len(s) \in Nat /\ DOMAIN s = 1 .. Len(s) /\ (s # <<>> <=> Len(s) > 0)
  OBVIOUS
<1>5. ASSUME NEW p \in DOMAIN f
      PROVE  /\ f[p].stream \in Nat /\ f[p].units \in Seq(UnitKinds)
             /\ Len(f[p].units) \in Nat /\ DOMAIN f[p].units = 1 .. Len(f[p].units)
             /\ f[p].stream = VideoIdx <=> Len(f[p].units) > 0
  <2>1. f[p].stream \in Nat /\ f[p].units \in Seq(UnitKinds)
    BY <1>3
  <2>2. (f[p].stream = VideoIdx) <=> (f[p].units # <<>>)
    BY <1>1
  <2>3. QED
    BY <2>1, <2>2, <1>4
<1>6. QED
  BY <1>2, <1>3, <1>5

(* A unit is a packet and a position in it. *)
LEMMA UnitShape ==
  ASSUME NEW f
  PROVE  /\ \A un \in Units(f) : \E p \in DOMAIN f : \E u \in DOMAIN f[p].units : un = <<p, u>>
         /\ \A p \in DOMAIN f : \A u \in DOMAIN f[p].units : <<p, u>> \in Units(f)
         /\ Pictures(f) \subseteq Units(f)
  BY DEF Units, Pictures

LEMMA BlankIsNoPicture ==
  ASSUME NEW f \in Files
  PROVE  Blank \notin Units(f) /\ Blank \notin Pictures(f)
  BY FileShape, UnitShape DEF Blank

(* What the first statement of ReadNextFrame leaves: the decoder is about  *)
(* to be fed the first unit that was not decoded yet, or to be flushed.    *)
FetchedOK(f) ==
  /\ f.pos \in 0 .. Len(file) /\ f.EoS \in BOOLEAN
  /\ f.pkt \in [stream : Nat, unit : Nat \ {0}, left : Nat]
  /\ f.EoS => EoP /\ f.pos = Len(file) /\ f.pkt = EmptyPacket
  /\ ~f.EoS =>
       /\ f.pos \in DOMAIN file
       /\ f.pkt.stream = file[f.pos].stream
       /\ f.pkt.left = Len(file[f.pos].units) - f.pkt.unit + 1
       /\ EoP <=> f.pkt.unit = 1
       /\ f.pkt.stream = VideoIdx => f.pkt.unit \in DOMAIN file[f.pos].units
  /\ \A p \in DOMAIN file : \A u \in DOMAIN file[p].units :
       times[<<p, u>>] =
         IF p < f.pos \/ (p = f.pos /\ (f.EoS \/ u < f.pkt.unit)) THEN 1 ELSE 0

LEMMA FetchedShape ==
  ASSUME IInv, pc = "read"
  PROVE  FetchedOK(Fetched)
<1>1. /\ file \in Files /\ Len(file) \in Nat /\ DOMAIN file = 1 .. Len(file)
      /\ \A p \in DOMAIN file : Len(file[p].units) \in Nat
      /\ \A p \in DOMAIN file : DOMAIN file[p].units = 1 .. Len(file[p].units)
      /\ \A p \in DOMAIN file : file[p].stream \in Nat
      /\ \A p \in DOMAIN file : file[p].stream = VideoIdx => Len(file[p].units) > 0
  BY FileShape DEF IInv, TypeOK
<1>2. /\ ~failed /\ pos \in 0 .. Len(file) /\ EoP \in BOOLEAN /\ EoS \in BOOLEAN
      /\ pkt \in [stream : Nat, unit : Nat \ {0}, left : Nat]
      /\ \A p \in DOMAIN file : \A u \in DOMAIN file[p].units :
           times[<<p, u>>] = IF p < pos \/ (p = pos /\ (EoP \/ u < pkt.unit)) THEN 1 ELSE 0
  BY DEF IInv, TypeOK, Progress, DecodedOf
<1>3. CASE ~EoP
  <2>1. /\ ~EoS /\ pos > 0 /\ pkt.stream = VideoIdx /\ file[pos].stream = VideoIdx
        /\ pkt.unit \in 2 .. Len(file[pos].units)
        /\ pkt.left = Len(file[pos].units) - pkt.unit + 1
    BY <1>2, <1>3 DEF IInv, Progress
  <2>2. /\ Fetched.pos = pos /\ Fetched.pkt = pkt /\ Fetched.EoS = FALSE
    BY <1>3, <2>1 DEF Fetched
  <2>3. pos \in DOMAIN file /\ pkt.unit \in DOMAIN file[pos].units /\ pkt.unit # 1
    BY <1>1, <1>2, <2>1
  <2>4. QED
    BY <1>2, <1>3, <2>1, <2>2, <2>3 DEF FetchedOK
<1>4. CASE EoP /\ EoS
  <2>1. pos = Len(file) /\ pkt = EmptyPacket
    BY <1>4 DEF IInv, Progress
  <2>2. /\ Fetched.pos = pos /\ Fetched.pkt = pkt /\ Fetched.EoS = TRUE
    BY <1>4 DEF Fetched
  <2>3. QED
    BY <1>2, <1>4, <2>1, <2>2 DEF FetchedOK
<1>5. CASE EoP /\ ~EoS /\ pos < Len(file)
  <2>1. /\ Fetched.pos = pos + 1 /\ Fetched.pkt = Packet(pos + 1) /\ Fetched.EoS = FALSE
    BY <1>5 DEF Fetched
  <2>2. pos + 1 \in DOMAIN file
    BY <1>1, <1>2, <1>5
  <2>3. /\ Packet(pos + 1).stream = file[pos + 1].stream
        /\ Packet(pos + 1).unit = 1
        /\ Packet(pos + 1).left = Len(file[pos + 1].units)
        /\ Packet(pos + 1) \in [stream : Nat, unit : Nat \ {0}, left : Nat]
    BY <1>1, <2>2 DEF Packet
  <2>4. ASSUME NEW p \in DOMAIN file, NEW u \in DOMAIN file[p].units
        PROVE  times[<<p, u>>] = IF p < pos + 1 \/ (p = pos + 1 /\ u < 1) THEN 1 ELSE 0
    <3>1. p \in Int /\ u \in Int /\ u >= 1
      BY <1>1
    <3>2. QED
      BY <1>2, <1>5, <3>1
  <2>5. file[pos + 1].stream = VideoIdx => 1 \in DOMAIN file[pos + 1].units
    BY <1>1, <2>2
  <2>6. pos + 1 \in 0 .. Len(file)
    BY <1>1, <2>2
  <2>7. Packet(pos + 1).left = Len(file[pos + 1].units) - Packet(pos + 1).unit + 1
    BY <1>1, <2>2, <2>3
  <2>8. QED
    BY <1>5, <2>1, <2>2, <2>3, <2>4, <2>5, <2>6, <2>7 DEF FetchedOK
<1>6. CASE EoP /\ ~EoS /\ pos = Len(file)
  <2>1. /\ Fetched.pos = pos /\ Fetched.pkt = EmptyPacket /\ Fetched.EoS = TRUE
    BY <1>6 DEF Fetched
  <2>2. EmptyPacket \in [stream : Nat, unit : Nat \ {0}, left : Nat]
    BY DEF EmptyPacket
  <2>3. QED
    BY <1>2, <1>6, <2>1, <2>2 DEF FetchedOK
<1>7. pos < Len(file) \/ pos = Len(file)
  <2>1. Len(file) \in Nat /\ pos \in 0 .. Len(file)
    BY <1>1, <1>2, Zenon
  <2>2. QED
    BY <2>1
<1>8. QED
  BY <1>3, <1>4, <1>5, <1>6, <1>7, Zenon

(* Feeding the next unit to the decoder counts it for the first time, and  *)
(* a picture in it was nowhere before.                                     *)
LEMMA Feed ==
  ASSUME IInv, NEW f, FetchedOK(f), f.pkt.stream = VideoIdx, CountUnit(f)
  PROVE  /\ f.EoS <=> f.pkt.left = 0
         /\ ~f.EoS => CurrentUnit(f) \in Units(file)
         /\ times' \in [Units(file) -> Nat]
         /\ \A un \in Units(file) : times'[un] <= 1
         /\ \A p \in DOMAIN file : \A u \in DOMAIN file[p].units :
              times'[<<p, u>>] =
                IF p < f.pos \/ (p = f.pos /\ (f.EoS \/ u <= f.pkt.unit)) THEN 1 ELSE 0
         /\ {un \in Pictures(file) : times'[un] > 0} = DecodedPictures \cup Held(f)
         /\ Held(f) \subseteq Pictures(file)
         /\ Held(f) \cap Collected = {}
         /\ IsFiniteSet(Held(f))
<1> DEFINE cu == CurrentUnit(f)
<1>1. /\ file \in Files /\ Len(file) \in Nat /\ DOMAIN file = 1 .. Len(file)
      /\ \A p \in DOMAIN file : Len(file[p].units) \in Nat
      /\ \A p \in DOMAIN file : DOMAIN file[p].units = 1 .. Len(file[p].units)
  BY FileShape DEF IInv, TypeOK
<1>2. /\ dpb \subseteq Pictures(file) /\ times \in [Units(file) -> Nat]
      /\ IsFiniteSet(dpb)
      /\ \A un \in Units(file) : times[un] <= 1
      /\ DecodedPictures = dpb \cup Collected \cup ({FrameStat} \ {Blank})
      /\ dpb \cap Collected = {}
  BY DEF IInv, TypeOK, Progress, DecodedOnce, Conservation
<1>3. f.EoS <=> f.pkt.left = 0
  <2>1. CASE f.EoS
    BY <2>1 DEF FetchedOK, EmptyPacket
  <2>2. CASE ~f.EoS
    <3>1. /\ f.pos \in DOMAIN file /\ f.pkt.unit \in 1 .. Len(file[f.pos].units)
          /\ f.pkt.left = Len(file[f.pos].units) - f.pkt.unit + 1
          /\ Len(file[f.pos].units) \in Nat
      BY <1>1, <2>2 DEF FetchedOK
    <3>2. QED
      BY <2>2, <3>1
  <2>3. QED
    BY <2>1, <2>2
<1>4. CASE f.EoS
  <2>1. Held(f) = dpb /\ times' = times
    BY <1>3, <1>4 DEF Held, CountUnit, FetchedOK, EmptyPacket
  <2>2. {un \in Pictures(file) : times[un] > 0} = DecodedPictures \cup dpb
    BY <1>2 DEF DecodedPictures
  <2>3. QED
    BY <1>2, <1>3, <1>4, <2>1, <2>2 DEF FetchedOK
<1>5. CASE ~f.EoS
  <2>1. /\ f.pos \in DOMAIN file /\ f.pkt.unit \in DOMAIN file[f.pos].units
        /\ f.pkt.left > 0
        /\ f.pos \in Nat /\ f.pkt.unit \in Nat
    <3>1. /\ f.pos \in DOMAIN file /\ f.pkt.unit \in 1 .. Len(file[f.pos].units)
          /\ f.pkt.left \in Nat /\ f.pkt.left # 0
      BY <1>1, <1>3, <1>5 DEF FetchedOK
    <3>2. QED
      BY <1>1, <3>1
  <2>2. cu = <<f.pos, f.pkt.unit>>
    BY DEF CurrentUnit
  <2>3. cu \in Units(file)
    BY <2>1, <2>2, UnitShape
  <2>4. times[cu] = 0
    BY <1>5, <2>1, <2>2 DEF FetchedOK
  <2>5. times' = [times EXCEPT ![cu] = 1]
    BY <2>1, <2>3, <2>4, <1>2 DEF CountUnit
  <2>6. /\ times' \in [Units(file) -> Nat]
        /\ times'[cu] = 1
        /\ \A un \in Units(file) : un # cu => times'[un] = times[un]
    BY <1>2, <2>3, <2>5
  <2>7. ASSUME NEW p \in DOMAIN file, NEW u \in DOMAIN file[p].units
        PROVE  times'[<<p, u>>] =
                 IF p < f.pos \/ (p = f.pos /\ u <= f.pkt.unit) THEN 1 ELSE 0
    <3>1. p \in Nat /\ u \in Nat
      BY <1>1
    <3>2. <<p, u>> \in Units(file)
      BY UnitShape
    <3>3. times[<<p, u>>] = IF p < f.pos \/ (p = f.pos /\ u < f.pkt.unit) THEN 1 ELSE 0
      BY <1>5 DEF FetchedOK
    <3>4. CASE p = f.pos /\ u = f.pkt.unit
      BY <2>1, <2>2, <2>6, <3>4
    <3>5. CASE ~(p = f.pos /\ u = f.pkt.unit)
      <4>1. times'[<<p, u>>] = times[<<p, u>>]
        BY <2>2, <2>6, <3>2, <3>5
      <4>2. QED
        BY <2>1, <3>1, <3>3, <3>5, <4>1
    <3>6. QED
      BY <3>4, <3>5
  <2>8. cu \notin DecodedPictures
    BY <2>4 DEF DecodedPictures
  <2>9. cu \notin dpb /\ cu \notin Collected
    BY <1>2, <2>8
  <2>10. CASE Kind(file, cu) = "pic"
    <3>1. Held(f) = dpb \cup {cu} /\ cu \in Pictures(file)
      BY <2>1, <2>3, <2>10 DEF Held, Pictures
    <3>2. IsFiniteSet(Held(f))
      BY <1>2, <3>1, FS_AddElement
    <3>3. {un \in Pictures(file) : times'[un] > 0} = DecodedPictures \cup {cu}
      BY <2>6, <3>1, UnitShape DEF DecodedPictures
    <3>4. QED
      BY <1>2, <1>3, <1>5, <2>3, <2>6, <2>7, <2>9, <3>1, <3>2, <3>3
  <2>11. CASE Kind(file, cu) # "pic"
    <3>1. Held(f) = dpb /\ cu \notin Pictures(file)
      BY <2>11 DEF Held, Pictures
    <3>2. {un \in Pictures(file) : times'[un] > 0} = DecodedPictures
      BY <2>6, <3>1, UnitShape DEF DecodedPictures
    <3>3. QED
      BY <1>2, <1>3, <1>5, <2>3, <2>6, <2>7, <2>9, <3>1, <3>2
  <2>12. QED
    BY <2>10, <2>11
<1>6. QED
  BY <1>4, <1>5 DEF FetchedOK

LEMMA SingleUnit ==
  ASSUME NEW n \in Nat, NEW k \in 1 .. n, ~(n > 1)
  PROVE  n = 1 /\ k = 1
  OBVIOUS

(* Arithmetic of dropping unit k of a packet of n units. *)
LEMMA DropUnit ==
  ASSUME NEW n \in Nat, NEW k \in 1 .. n, NEW l, l = n - k + 1,
         NEW m, m = l - 1, NEW j, j = k + 1
  PROVE  /\ m = 0 <=> k = n
         /\ m # 0 => j \in 2 .. n /\ m = n - j + 1
  OBVIOUS

LEMMA DropUnitPacket ==
  ASSUME NEW q \in [stream : Nat, unit : Nat \ {0}, left : Nat], q.left > 0,
         NEW r, r = [q EXCEPT !.unit = @ + 1, !.left = @ - 1]
  PROVE  /\ r \in [stream : Nat, unit : Nat \ {0}, left : Nat]
         /\ r.stream = q.stream /\ r.unit = q.unit + 1 /\ r.left = q.left - 1
<1>1. /\ q.stream \in Nat /\ q.unit \in Nat \ {0} /\ q.left \in Nat
      /\ q = [stream |-> q.stream, unit |-> q.unit, left |-> q.left]
  OBVIOUS
<1>2. r = [stream |-> q.stream, unit |-> q.unit + 1, left |-> q.left - 1]
  BY <1>1
<1>3. q.unit + 1 \in Nat \ {0} /\ q.left - 1 \in Nat
  BY <1>1
<1>4. QED
  BY <1>1, <1>2, <1>3

LEMMA EmptyPacketType == EmptyPacket \in [stream : Nat, unit : Nat \ {0}, left : Nat]
  BY DEF EmptyPacket

LEMMA InitIInv == Init => IInv
<1> SUFFICES ASSUME Init PROVE IInv
  OBVIOUS
<1>1. /\ file \in Files /\ Len(file) \in Nat /\ DOMAIN file = 1 .. Len(file)
      /\ Blank \notin Pictures(file) /\ Pictures(file) \subseteq Units(file)
  BY FileShape, BlankIsNoPicture, UnitShape DEF Init
<1>2. TypeOK
  <2>1. pos \in 0 .. Len(file)
    BY <1>1 DEF Init
  <2>2. times \in [Units(file) -> Nat]
    BY DEF Init
  <2>3. collected \in Seq(Pictures(file) \cup {Blank})
    BY DEF Init
  <2>4. QED
    BY <2>1, <2>2, <2>3, EmptyPacketType DEF Init, TypeOK
<1>3. ASSUME NEW p \in DOMAIN file, NEW u \in DOMAIN file[p].units
      PROVE  times[<<p, u>>] = DecodedOf(p, u)
  BY <1>1, UnitShape DEF Init, DecodedOf
<1>4. Progress
  BY <1>3, FS_EmptySet DEF Init, Progress
<1>5. DecodedOnce
  BY DEF Init, DecodedOnce
<1>6. Conservation
  BY <1>1 DEF Init, Conservation, DecodedPictures, Collected
<1>7. QED
  BY <1>2, <1>4, <1>5, <1>6 DEF IInv

LEMMA OpenVideoIInv == IInv /\ OpenVideo => IInv'
<1> SUFFICES ASSUME IInv, OpenVideo PROVE IInv'
  OBVIOUS
<1>1. /\ file \in Files /\ Len(file) \in Nat /\ DOMAIN file = 1 .. Len(file)
      /\ pos = 0 /\ ~EoS /\ ~failed
      /\ \A p \in DOMAIN file : \A u \in DOMAIN file[p].units :
           times[<<p, u>>] = DecodedOf(p, u)
  BY FileShape DEF IInv, TypeOK, Progress, OpenVideo
<1>2. TypeOK'
  BY <1>1, EmptyPacketType DEF IInv, TypeOK, OpenVideo
<1>3. ASSUME NEW p \in DOMAIN file, NEW u \in DOMAIN file[p].units
      PROVE  times'[<<p, u>>] = DecodedOf(p, u)'
  BY <1>1 DEF OpenVideo, DecodedOf
<1>4. Progress'
  BY <1>1, <1>3 DEF IInv, Progress, OpenVideo
<1>5. DecodedOnce' /\ Conservation'
  BY DEF IInv, DecodedOnce, Conservation, DecodedPictures, Collected, OpenVideo
<1>6. QED
  BY <1>2, <1>4, <1>5 DEF IInv

LEMMA OpenFailsIInv == IInv /\ OpenFails => IInv'
<1> SUFFICES ASSUME IInv, OpenFails PROVE IInv'
  OBVIOUS
<1> USE DEF OpenFails, parserVars
<1>1. TypeOK'
  BY DEF IInv, TypeOK
<1>2. Progress'
  BY DEF IInv, Progress
<1>3. DecodedOnce' /\ Conservation'
  BY DEF IInv, DecodedOnce, Conservation, DecodedPictures, Collected
<1>4. QED
  BY <1>1, <1>2, <1>3 DEF IInv

(* What the calls of ReadNextFrame have in common. *)
LEMMA FetchFacts ==
  ASSUME IInv, NEW f, f = Fetched, Fetch(f)
  PROVE  /\ FetchedOK(f)
         /\ file' = file /\ client' = client /\ collected' = collected
         /\ pos' = f.pos /\ EoS' = f.EoS /\ pc = "read" /\ pc' = "got"
         /\ ~failed /\ FrameStat = Blank
         /\ file \in Files /\ Len(file) \in Nat /\ DOMAIN file = 1 .. Len(file)
         /\ \A p \in DOMAIN file : Len(file[p].units) \in Nat
         /\ \A p \in DOMAIN file : DOMAIN file[p].units = 1 .. Len(file[p].units)
         /\ f.pos \in 0 .. Len(file) /\ f.EoS \in BOOLEAN
         /\ f.pkt \in [stream : Nat, unit : Nat \ {0}, left : Nat]
         /\ f.EoS => EoP /\ f.pos = Len(file) /\ f.pkt = EmptyPacket
<1>1. pc = "read"
  BY DEF Fetch
<1>2. FetchedOK(f)
  BY <1>1, FetchedShape
<1>3. QED
  BY <1>1, <1>2, FileShape DEF Fetch, FetchedOK, IInv, TypeOK, Progress

LEMMA OtherStreamIInv == IInv /\ OtherStream => IInv'
<1> SUFFICES ASSUME IInv, OtherStream PROVE IInv'
  OBVIOUS
<1>1. PICK f : f = Fetched
  OBVIOUS
<1>2. /\ f.pkt.stream # VideoIdx /\ Fetch(f)
      /\ pkt' = f.pkt /\ ret' = 0
      /\ UNCHANGED <<EoP, dpb, times, FrameStat, failed>>
  BY <1>1 DEF OtherStream
<1>3. /\ FetchedOK(f)
      /\ file' = file /\ client' = client /\ collected' = collected
      /\ pos' = f.pos /\ EoS' = f.EoS /\ pc = "read" /\ pc' = "got"
      /\ ~failed /\ FrameStat = Blank
      /\ file \in Files /\ Len(file) \in Nat /\ DOMAIN file = 1 .. Len(file)
      /\ \A p \in DOMAIN file : Len(file[p].units) \in Nat
      /\ \A p \in DOMAIN file : DOMAIN file[p].units = 1 .. Len(file[p].units)
      /\ f.pos \in 0 .. Len(file) /\ f.EoS \in BOOLEAN
      /\ f.pkt \in [stream : Nat, unit : Nat \ {0}, left : Nat]
      /\ f.EoS => EoP /\ f.pos = Len(file) /\ f.pkt = EmptyPacket
  BY <1>1, <1>2, FetchFacts
<1>4. TypeOK'
  BY <1>2, <1>3 DEF IInv, TypeOK
<1>5. EoP
  <2>1. ASSUME ~EoP PROVE FALSE
    <3>1. f.pkt = pkt
      BY <1>1, <2>1 DEF Fetched
    <3>2. pkt.stream = VideoIdx
      BY <1>3, <2>1 DEF IInv, Progress
    <3>3. QED
      BY <1>2, <3>1, <3>2
  <2>2. QED
    BY <2>1
<1>6. ASSUME NEW p \in DOMAIN file, NEW u \in DOMAIN file[p].units
      PROVE  times'[<<p, u>>] = DecodedOf(p, u)'
  <2>1. CASE f.EoS
    BY <1>2, <1>3, <1>5, <2>1 DEF DecodedOf, FetchedOK
  <2>2. CASE ~f.EoS
    <3>1. /\ f.pos \in DOMAIN file /\ file[f.pos].stream # VideoIdx
      BY <1>2, <1>3, <2>2 DEF FetchedOK
    <3>2. Len(file[f.pos].units) = 0
      BY <1>3, <3>1, FileShape
    <3>3. p # f.pos
      BY <1>3, <3>2
    <3>4. QED
      BY <1>2, <1>3, <1>5, <2>2, <3>3 DEF DecodedOf, FetchedOK
  <2>3. QED
    BY <2>1, <2>2
<1>7. Progress'
  BY <1>2, <1>3, <1>5, <1>6 DEF IInv, Progress
<1>8. DecodedOnce' /\ Conservation'
  BY <1>2, <1>3 DEF IInv, DecodedOnce, Conservation, DecodedPictures, Collected
<1>9. QED
  BY <1>4, <1>7, <1>8 DEF IInv

LEMMA DecodeErrorIInv == IInv /\ DecodeError => IInv'
<1> SUFFICES ASSUME IInv, DecodeError PROVE IInv'
  OBVIOUS
<1>1. PICK f : f = Fetched
  OBVIOUS
<1>2. /\ Fetch(f) /\ f.pkt.left > 0
      /\ pkt' = f.pkt /\ ret' = -1 /\ failed' = TRUE
      /\ UNCHANGED <<EoP, dpb, times, FrameStat>>
  BY <1>1 DEF DecodeError
<1>3. /\ file' = file /\ client' = client /\ collected' = collected
      /\ pos' = f.pos /\ EoS' = f.EoS /\ pc' = "got"
      /\ FrameStat = Blank
      /\ f.pos \in 0 .. Len(file) /\ f.EoS \in BOOLEAN
      /\ f.pkt \in [stream : Nat, unit : Nat \ {0}, left : Nat]
      /\ f.EoS => EoP /\ f.pos = Len(file) /\ f.pkt = EmptyPacket
  BY <1>1, <1>2, FetchFacts
<1>4. TypeOK'
  BY <1>2, <1>3 DEF IInv, TypeOK
<1>5. Progress'
  BY <1>2, <1>3 DEF IInv, Progress
<1>6. DecodedOnce' /\ Conservation'
  BY <1>2, <1>3 DEF IInv, DecodedOnce, Conservation, DecodedPictures, Collected
<1>7. QED
  BY <1>4, <1>5, <1>6 DEF IInv

LEMMA GotFrameIInv == IInv /\ GotFrame => IInv'
<1> SUFFICES ASSUME IInv, GotFrame PROVE IInv'
  OBVIOUS
<1>1. PICK f : f = Fetched
  OBVIOUS
<1>2. /\ Fetch(f) /\ CountUnit(f) /\ f.pkt.stream = VideoIdx
      /\ pkt' = IF f.pkt.left > 0
                THEN [f.pkt EXCEPT !.unit = @ + 1, !.left = @ - 1] ELSE f.pkt
      /\ EoP' = (pkt'.left = 0) /\ ret' = 1 /\ failed' = failed
  BY <1>1 DEF GotFrame, Decodes, Rest
<1>3. PICK p \in Held(f) : dpb' = Held(f) \ {p} /\ FrameStat' = p
  BY <1>1 DEF GotFrame
<1>4. /\ FetchedOK(f)
      /\ file' = file /\ client' = client /\ collected' = collected
      /\ pos' = f.pos /\ EoS' = f.EoS /\ pc = "read" /\ pc' = "got"
      /\ ~failed /\ FrameStat = Blank
      /\ file \in Files /\ Len(file) \in Nat /\ DOMAIN file = 1 .. Len(file)
      /\ \A q \in DOMAIN file : Len(file[q].units) \in Nat
      /\ \A q \in DOMAIN file : DOMAIN file[q].units = 1 .. Len(file[q].units)
      /\ f.pos \in 0 .. Len(file) /\ f.EoS \in BOOLEAN
      /\ f.pkt \in [stream : Nat, unit : Nat \ {0}, left : Nat]
      /\ f.EoS => EoP /\ f.pos = Len(file) /\ f.pkt = EmptyPacket
  BY <1>1, <1>2, FetchFacts
<1>5. /\ f.EoS <=> f.pkt.left = 0
      /\ times' \in [Units(file) -> Nat]
      /\ \A un \in Units(file) : times'[un] <= 1
      /\ \A q \in DOMAIN file : \A u \in DOMAIN file[q].units :
           times'[<<q, u>>] =
             IF q < f.pos \/ (q = f.pos /\ (f.EoS \/ u <= f.pkt.unit)) THEN 1 ELSE 0
      /\ {un \in Pictures(file) : times'[un] > 0} = DecodedPictures \cup Held(f)
      /\ Held(f) \subseteq Pictures(file)
      /\ Held(f) \cap Collected = {}
      /\ IsFiniteSet(Held(f))
  BY <1>2, <1>4, Feed
<1>6. Blank \notin Pictures(file)
  BY <1>4, BlankIsNoPicture
<1>7. /\ pkt' \in [stream : Nat, unit : Nat \ {0}, left : Nat]
      /\ EoP' \in BOOLEAN
      /\ f.EoS => pkt' = f.pkt /\ EoP'
      /\ ~f.EoS => pkt'.stream = VideoIdx /\ pkt'.unit = f.pkt.unit + 1
                   /\ pkt'.left = f.pkt.left - 1
  <2>1. f.pkt \in [stream : Nat, unit : Nat \ {0}, left : Nat]
    BY <1>4
  <2>2. CASE f.EoS
    <3>1. pkt' = f.pkt
      BY <1>2, <1>5, <2>2
    <3>2. EoP' = TRUE
      BY <1>2, <1>5, <2>2, <3>1
    <3>3. QED
      BY <2>1, <2>2, <3>1, <3>2
  <2>3. CASE ~f.EoS
    <3>1. f.pkt.left > 0
      BY <1>5, <2>1, <2>3
    <3>2. pkt' = [f.pkt EXCEPT !.unit = @ + 1, !.left = @ - 1]
      BY <1>2, <3>1
    <3>3. /\ pkt' \in [stream : Nat, unit : Nat \ {0}, left : Nat]
          /\ pkt'.stream = f.pkt.stream /\ pkt'.unit = f.pkt.unit + 1
          /\ pkt'.left = f.pkt.left - 1
      BY <2>1, <3>1, <3>2, DropUnitPacket
    <3>4. EoP' \in BOOLEAN
      BY <1>2
    <3>5. QED
      BY <1>2, <2>3, <3>3, <3>4
  <2>4. QED
    BY <2>2, <2>3
<1>8. TypeOK'
  <2>1. /\ collected \in Seq(Pictures(file) \cup {Blank})
    BY DEF IInv, TypeOK
  <2>2. dpb' \subseteq Pictures(file) /\ FrameStat' \in Pictures(file)
    BY <1>3, <1>5
  <2>3. pos' \in 0 .. Len(file) /\ EoS' \in BOOLEAN /\ failed' \in BOOLEAN
    <3>1. pos' \in 0 .. Len(file) /\ EoS' \in BOOLEAN
      BY <1>4, Zenon
    <3>2. failed' = failed /\ failed \in BOOLEAN
      BY <1>2 DEF IInv, TypeOK
    <3>3. QED
      BY <3>1, <3>2
  <2>4. /\ pkt' \in [stream : Nat, unit : Nat \ {0}, left : Nat]
        /\ EoP' \in BOOLEAN /\ times' \in [Units(file) -> Nat]
    BY <1>5, <1>7
  <2>5. /\ file' = file /\ file \in Files /\ client' = client /\ client \in Clients
        /\ collected' = collected /\ ret' = 1 /\ pc' = "got"
    BY <1>2, <1>4 DEF IInv, TypeOK
  <2>6. QED
    BY <2>1, <2>2, <2>3, <2>4, <2>5 DEF TypeOK
<1>9. ~f.EoS => /\ f.pos \in DOMAIN file /\ f.pos > 0 /\ file[f.pos].stream = VideoIdx
                /\ f.pkt.unit \in 1 .. Len(file[f.pos].units)
                /\ f.pkt.left = Len(file[f.pos].units) - f.pkt.unit + 1
                /\ Len(file[f.pos].units) \in Nat
  BY <1>2, <1>4 DEF FetchedOK
<1>10. ~f.EoS => /\ EoP' <=> f.pkt.unit = Len(file[f.pos].units)
                 /\ ~EoP' => /\ pkt'.unit \in 2 .. Len(file[f.pos].units)
                             /\ pkt'.left = Len(file[f.pos].units) - pkt'.unit + 1
  <2>1. SUFFICES ASSUME ~f.EoS
                 PROVE  /\ EoP' <=> f.pkt.unit = Len(file[f.pos].units)
                        /\ ~EoP' => /\ pkt'.unit \in 2 .. Len(file[f.pos].units)
                                    /\ pkt'.left = Len(file[f.pos].units) - pkt'.unit + 1
    OBVIOUS
  <2>2. EoP' <=> pkt'.left = 0
    BY <1>2
  <2>3. pkt'.unit = f.pkt.unit + 1 /\ pkt'.left = f.pkt.left - 1
    BY <1>7, <2>1
  <2>4. /\ f.pkt.unit \in 1 .. Len(file[f.pos].units)
        /\ f.pkt.left = Len(file[f.pos].units) - f.pkt.unit + 1
        /\ Len(file[f.pos].units) \in Nat
    BY <1>9, <2>1
  <2>5. /\ pkt'.left = 0 <=> f.pkt.unit = Len(file[f.pos].units)
        /\ pkt'.left # 0 =>
             /\ pkt'.unit \in 2 .. Len(file[f.pos].units)
             /\ pkt'.left = Len(file[f.pos].units) - pkt'.unit + 1
    BY <2>3, <2>4, DropUnit
  <2>6. QED
    BY <2>2, <2>5, Zenon
<1>11. ASSUME NEW q \in DOMAIN file, NEW u \in DOMAIN file[q].units
       PROVE  times'[<<q, u>>] = DecodedOf(q, u)'
  <2>1. q \in Nat /\ u \in Nat /\ u <= Len(file[q].units) /\ f.pos \in Nat
    BY <1>4
  <2>2. CASE f.EoS
    BY <1>4, <1>5, <1>7, <2>1, <2>2 DEF DecodedOf
  <2>3. CASE ~f.EoS
    <3>1. times'[<<q, u>>] = IF q < f.pos \/ (q = f.pos /\ u <= f.pkt.unit) THEN 1 ELSE 0
      BY <1>5, <2>3
    <3>2. q = f.pos => (u <= f.pkt.unit <=> (EoP' \/ u < pkt'.unit))
      <4>1. EoP' <=> f.pkt.unit = Len(file[f.pos].units)
        BY <1>10, <2>3
      <4>2. f.pkt.unit \in Nat /\ pkt'.unit = f.pkt.unit + 1
        BY <1>7, <1>9, <2>3
      <4>3. QED
        BY <2>1, <4>1, <4>2
    <3>3. DecodedOf(q, u)' =
            IF q < f.pos \/ (q = f.pos /\ (EoP' \/ u < pkt'.unit)) THEN 1 ELSE 0
      BY <1>4 DEF DecodedOf
    <3>4. QED
      BY <3>1, <3>2, <3>3
  <2>4. QED
    BY <2>2, <2>3
<1>12. ~EoP' => /\ ~f.EoS /\ pkt'.unit \in 2 .. Len(file[f.pos].units)
                /\ pkt'.left = Len(file[f.pos].units) - pkt'.unit + 1
  BY <1>7, <1>10
<1>13. IsFiniteSet(dpb') /\ FrameStat' # Blank
  BY <1>3, <1>5, <1>6, FS_Subset
<1>14. Progress'
  BY <1>2, <1>4, <1>7, <1>9, <1>11, <1>12, <1>13 DEF Progress
<1>15. DecodedOnce'
  BY <1>4, <1>5 DEF DecodedOnce
<1>16. Conservation'
  <2>1. Collected' = Collected /\ DecodedPictures' = DecodedPictures \cup Held(f)
    BY <1>4, <1>5 DEF Collected, DecodedPictures
  <2>2. DecodedPictures = dpb \cup Collected /\ dpb \subseteq Held(f)
    BY <1>4 DEF IInv, Conservation, Held
  <2>3. \A i, j \in DOMAIN collected : collected[i] = collected[j] => i = j
    BY DEF IInv, Conservation
  <2>4. DecodedPictures' = dpb' \cup Collected' \cup ({FrameStat'} \ {Blank})
    BY <1>3, <1>13, <2>1, <2>2
  <2>5. FrameStat' \notin dpb' \cup Collected' /\ dpb' \cap Collected' = {}
    BY <1>3, <1>5, <2>1
  <2>6. QED
    BY <1>4, <2>3, <2>4, <2>5 DEF Conservation
<1>17. QED
  BY <1>8, <1>14, <1>15, <1>16 DEF IInv

LEMMA NoFrameIInv == IInv /\ NoFrame => IInv'
<1> SUFFICES ASSUME IInv, NoFrame PROVE IInv'
  OBVIOUS
<1>1. PICK f : f = Fetched
  OBVIOUS
<1>2. /\ Fetch(f) /\ CountUnit(f) /\ f.pkt.stream = VideoIdx
      /\ f.pkt.left > 0 => Kind(file, CurrentUnit(f)) # "bad"
      /\ Cardinality(Held(f)) <= (IF f.EoS THEN 0 ELSE Delay[file])
      /\ dpb' = Held(f) /\ pkt' = f.pkt
      /\ ret' = IF f.EoS THEN -1 ELSE 0
      /\ UNCHANGED <<EoP, FrameStat, failed>>
  BY <1>1 DEF NoFrame, Decodes, NoFrameResult
<1>3. /\ FetchedOK(f)
      /\ file' = file /\ client' = client /\ collected' = collected
      /\ pos' = f.pos /\ EoS' = f.EoS /\ pc = "read" /\ pc' = "got"
      /\ ~failed /\ FrameStat = Blank
      /\ file \in Files /\ Len(file) \in Nat /\ DOMAIN file = 1 .. Len(file)
      /\ \A q \in DOMAIN file : Len(file[q].units) \in Nat
      /\ \A q \in DOMAIN file : DOMAIN file[q].units = 1 .. Len(file[q].units)
      /\ f.pos \in 0 .. Len(file) /\ f.EoS \in BOOLEAN
      /\ f.pkt \in [stream : Nat, unit : Nat \ {0}, left : Nat]
      /\ f.EoS => EoP /\ f.pos = Len(file) /\ f.pkt = EmptyPacket
  BY <1>1, <1>2, FetchFacts
<1>4. /\ f.EoS <=> f.pkt.left = 0
      /\ times' \in [Units(file) -> Nat]
      /\ \A un \in Units(file) : times'[un] <= 1
      /\ \A q \in DOMAIN file : \A u \in DOMAIN file[q].units :
           times'[<<q, u>>] =
             IF q < f.pos \/ (q = f.pos /\ (f.EoS \/ u <= f.pkt.unit)) THEN 1 ELSE 0
      /\ {un \in Pictures(file) : times'[un] > 0} = DecodedPictures \cup Held(f)
      /\ Held(f) \subseteq Pictures(file)
      /\ Held(f) \cap Collected = {}
      /\ IsFiniteSet(Held(f))
  BY <1>2, <1>3, Feed
<1>5. TypeOK'
  BY <1>2, <1>3, <1>4 DEF IInv, TypeOK
<1>6. f.EoS => dpb' = {}
  BY <1>2, <1>4, FS_EmptySet, FS_CardinalityType
<1>7. ~f.EoS => /\ f.pos \in DOMAIN file
                /\ f.pkt.unit \in 1 .. Len(file[f.pos].units)
                /\ Len(file[f.pos].units) \in Nat
                /\ f.pkt.left > 0
                /\ EoP <=> f.pkt.unit = 1
                /\ CurrentUnit(f) = <<f.pos, f.pkt.unit>>
  BY <1>2, <1>3, <1>4 DEF FetchedOK, CurrentUnit
(* A decoder that left a part of the packet does output a picture here. *)
<1>8. ~f.EoS => Len(file[f.pos].units) = 1 /\ f.pkt.unit = 1
  <2>0. ASSUME ~f.EoS, ~(Len(file[f.pos].units) > 1)
        PROVE  Len(file[f.pos].units) = 1 /\ f.pkt.unit = 1
    <3>1. f.pkt.unit \in 1 .. Len(file[f.pos].units) /\ Len(file[f.pos].units) \in Nat
      BY <1>7, <2>0
    <3>2. QED
      BY <2>0, <3>1, SingleUnit
  <2>1. SUFFICES ASSUME ~f.EoS, Len(file[f.pos].units) > 1 PROVE FALSE
    BY <2>0
  <2>2. Delay[file] = 0 /\ \A u \in DOMAIN file[f.pos].units : file[f.pos].units[u] # "none"
    BY <1>3, <1>7, <2>1, DecoderAssumption
  <2>3. f.pkt.unit \in DOMAIN file[f.pos].units
    BY <1>3, <1>7, <2>1
  <2>4. Kind(file, CurrentUnit(f)) \in UnitKinds
    BY <1>3, <1>7, <2>1, <2>3, FileShape, ElementOfSeq DEF Kind
  <2>5. Kind(file, CurrentUnit(f)) = "pic"
    BY <1>2, <1>7, <2>1, <2>2, <2>3, <2>4 DEF UnitKinds, Kind
  <2>6. Held(f) # {}
    BY <1>7, <2>1, <2>5 DEF Held
  <2>7. Cardinality(Held(f)) = 0
    BY <1>2, <1>4, <2>1, <2>2, FS_CardinalityType
  <2>8. QED
    BY <1>4, <2>6, <2>7, FS_EmptySet
<1>9. EoP
  BY <1>3, <1>7, <1>8
<1>10. ASSUME NEW q \in DOMAIN file, NEW u \in DOMAIN file[q].units
       PROVE  times'[<<q, u>>] = DecodedOf(q, u)'
  <2>1. q \in Nat /\ u \in Nat /\ u <= Len(file[q].units) /\ f.pos \in Nat
    BY <1>3
  <2>2. ~f.EoS /\ q = f.pos => u <= f.pkt.unit
    BY <1>8, <2>1
  <2>3. QED
    BY <1>2, <1>3, <1>4, <1>9, <2>1, <2>2 DEF DecodedOf
<1>11. Progress'
  BY <1>2, <1>3, <1>4, <1>6, <1>9, <1>10 DEF Progress
<1>12. DecodedOnce'
  BY <1>3, <1>4 DEF DecodedOnce
<1>13. Conservation'
  <2>1. Collected' = Collected /\ DecodedPictures' = DecodedPictures \cup Held(f)
    BY <1>3, <1>4 DEF Collected, DecodedPictures
  <2>2. DecodedPictures = dpb \cup Collected /\ dpb \subseteq Held(f)
    BY <1>3 DEF IInv, Conservation, Held
  <2>3. \A i, j \in DOMAIN collected : collected[i] = collected[j] => i = j
    BY DEF IInv, Conservation
  <2>4. Blank \notin Held(f) \cup Collected
    BY <1>3, <1>4, BlankIsNoPicture DEF IInv, Conservation
  <2>5. QED
    BY <1>2, <1>3, <1>4, <2>1, <2>2, <2>3, <2>4 DEF Conservation
<1>14. QED
  BY <1>5, <1>11, <1>12, <1>13 DEF IInv

(* The statistics the client takes join the ones it has. *)
LEMMA AppendOne ==
  ASSUME NEW S, NEW s \in Seq(S), NEW x \in S
  PROVE  /\ Append(s, x) \in Seq(S)
         /\ DOMAIN Append(s, x) = DOMAIN s \cup {Len(s) + 1}
         /\ Len(s) + 1 \notin DOMAIN s
         /\ \A i \in DOMAIN s : Append(s, x)[i] = s[i]
         /\ Append(s, x)[Len(s) + 1] = x
  OBVIOUS

LEMMA ClientGetsFrameIInv == IInv /\ ClientGetsFrame => IInv'
<1> SUFFICES ASSUME IInv, ClientGetsFrame PROVE IInv'
  OBVIOUS
<1>1. /\ pc = "got" /\ ret > 0 /\ ret \in {-1, 0, 1}
      /\ collected' = Append(collected, FrameStat) /\ FrameStat' = Blank
      /\ pc' = (IF LimitReached THEN "done" ELSE "read")
      /\ failed' = (failed \/ LimitReached)
      /\ UNCHANGED <<file, client, pos, pkt, EoP, EoS, dpb, times, ret>>
  BY DEF ClientGetsFrame, GetFrameStatistics, IInv, TypeOK
<1>2. ret = 1
  BY <1>1
<1>3. FrameStat # Blank /\ ~failed /\ FrameStat \in Pictures(file)
  BY <1>1, <1>2 DEF IInv, TypeOK, Progress
<1>4. failed' = LimitReached /\ LimitReached \in BOOLEAN
  BY <1>1, <1>3 DEF LimitReached
<1>5. collected \in Seq(Pictures(file) \cup {Blank})
  BY DEF IInv, TypeOK
<1>6. /\ collected' \in Seq(Pictures(file) \cup {Blank})
      /\ DOMAIN collected' = DOMAIN collected \cup {Len(collected) + 1}
      /\ Len(collected) + 1 \notin DOMAIN collected
      /\ \A i \in DOMAIN collected : collected'[i] = collected[i]
      /\ collected'[Len(collected) + 1] = FrameStat
  BY <1>1, <1>3, <1>5, AppendOne
<1>7. Collected' = Collected \cup {FrameStat}
  BY <1>6 DEF Collected
<1>8. TypeOK'
  BY <1>1, <1>4, <1>6 DEF IInv, TypeOK
<1>9. ASSUME NEW p \in DOMAIN file, NEW u \in DOMAIN file[p].units
      PROVE  times'[<<p, u>>] = DecodedOf(p, u)'
  <2>1. times[<<p, u>>] = DecodedOf(p, u)
    BY <1>3 DEF IInv, Progress
  <2>2. QED
    BY <1>1, <2>1 DEF DecodedOf
<1>10. /\ EoS => EoP /\ pos = Len(file) /\ pkt = EmptyPacket
       /\ ~EoP => /\ pos > 0 /\ pkt.stream = VideoIdx /\ file[pos].stream = VideoIdx
                  /\ pkt.unit \in 2 .. Len(file[pos].units)
                  /\ pkt.left = Len(file[pos].units) - pkt.unit + 1
       /\ IsFiniteSet(dpb)
  BY <1>1, <1>3 DEF IInv, Progress
<1>11. /\ pc' # "open" /\ pc' # "got"
       /\ pc' = "read" => ~failed'
       /\ pc' = "done" => failed'
  BY <1>1, <1>3, <1>4
<1>12. Progress'
  BY <1>1, <1>9, <1>10, <1>11 DEF Progress
<1>13. DecodedOnce'
  BY <1>1 DEF IInv, DecodedOnce
<1>14. Conservation'
  <2>1. /\ DecodedPictures = dpb \cup Collected \cup ({FrameStat} \ {Blank})
        /\ dpb \cap Collected = {}
        /\ FrameStat \notin dpb \cup Collected
        /\ \A i, j \in DOMAIN collected : collected[i] = collected[j] => i = j
    BY DEF IInv, Conservation
  <2>2. DecodedPictures' = DecodedPictures
    BY <1>1 DEF DecodedPictures
  <2>3. DecodedPictures' = dpb' \cup Collected' \cup ({FrameStat'} \ {Blank})
    BY <1>1, <1>3, <1>7, <2>1, <2>2
  <2>4. dpb' \cap Collected' = {}
    BY <1>1, <1>7, <2>1
  <2>5. Blank \notin dpb \cup Collected
    <3>1. Blank \notin Pictures(file)
      BY BlankIsNoPicture DEF IInv, TypeOK
    <3>2. DecodedPictures \subseteq Pictures(file)
      BY DEF DecodedPictures
    <3>3. QED
      BY <2>1, <3>1, <3>2
  <2>6. FrameStat' \notin dpb' \cup Collected'
    BY <1>1, <1>3, <1>7, <2>5
  <2>7. \A i \in DOMAIN collected : collected[i] # FrameStat
    BY <2>1 DEF Collected
  <2>8. \A i, j \in DOMAIN collected' : collected'[i] = collected'[j] => i = j
    BY <1>6, <2>1, <2>7
  <2>9. QED
    BY <2>3, <2>4, <2>6, <2>8 DEF Conservation
<1>15. QED
  BY <1>8, <1>12, <1>13, <1>14 DEF IInv

LEMMA ClientGoesOnIInv == IInv /\ ClientGoesOn => IInv'
<1> SUFFICES ASSUME IInv, ClientGoesOn PROVE IInv'
  OBVIOUS
<1>1. /\ pc = "got" /\ ret <= 0 /\ ret \in {-1, 0, 1}
      /\ pc' = (IF ret < 0 THEN "done" ELSE "read")
      /\ UNCHANGED <<file, client, collected, failed, pos, pkt, EoP, EoS, dpb, times,
                     FrameStat, ret>>
  BY DEF ClientGoesOn, StopsAtEnd, parserVars, IInv, TypeOK
<1>2. \/ ret = -1 /\ pc' = "done"
      \/ ret = 0 /\ pc' = "read"
  BY <1>1
<1>3. TypeOK'
  BY <1>1, <1>2 DEF IInv, TypeOK
<1>4. ASSUME NEW p \in DOMAIN file, NEW u \in DOMAIN file[p].units
      PROVE  DecodedOf(p, u)' = DecodedOf(p, u)
  BY <1>1 DEF DecodedOf
<1>5. Progress'
  BY <1>1, <1>2, <1>4 DEF IInv, Progress
<1>6. DecodedOnce' /\ Conservation'
  BY <1>1 DEF IInv, DecodedOnce, Conservation, DecodedPictures, Collected
<1>7. QED
  BY <1>3, <1>5, <1>6 DEF IInv

LEMMA StutterIInv == IInv /\ UNCHANGED vars => IInv'
<1> SUFFICES ASSUME IInv, UNCHANGED vars PROVE IInv'
  OBVIOUS
<1> USE DEF vars
<1>1. TypeOK'
  BY DEF IInv, TypeOK
<1>2. ASSUME NEW p \in DOMAIN file, NEW u \in DOMAIN file[p].units
      PROVE  DecodedOf(p, u)' = DecodedOf(p, u)
  BY DEF DecodedOf
<1>3. Progress'
  BY <1>2 DEF IInv, Progress
<1>4. DecodedOnce' /\ Conservation'
  BY DEF IInv, DecodedOnce, Conservation, DecodedPictures, Collected
<1>5. QED
  BY <1>1, <1>3, <1>4 DEF IInv

(* The inductive invariant: types, how far the file is decoded, and where  *)
(* every decoded picture is.                                               *)
THEOREM Invariance == Spec => []IInv
<1>1. Init => IInv
  BY InitIInv
<1>2. IInv /\ [Next]_vars => IInv'
  BY OpenVideoIInv, OpenFailsIInv, OtherStreamIInv, DecodeErrorIInv, GotFrameIInv,
     NoFrameIInv, ClientGetsFrameIInv, ClientGoesOnIInv, StutterIInv
     DEF Next, ReadNextFrame, Finished
<1>3. QED
  BY <1>1, <1>2, PTL DEF Spec

(* The variables of CVideoParser and of its client keep their types. *)
THEOREM TypeCorrectness == Spec => []TypeOK
<1>1. IInv => TypeOK
  BY DEF IInv
<1>2. QED
  BY <1>1, Invariance, PTL

(* ReadNextFrame never feeds the same bytes to the decoder twice. *)
THEOREM NeverDecodedTwice == Spec => []DecodedOnce
<1>1. IInv => DecodedOnce
  BY DEF IInv
<1>2. QED
  BY <1>1, Invariance, PTL

(* Every picture that entered the decoder is at exactly one place: no      *)
(* statistics are overwritten before they were fetched or fetched twice.   *)
THEOREM PicturesConserved == Spec => []Conservation
<1>1. IInv => Conservation
  BY DEF IInv
<1>2. QED
  BY <1>1, Invariance, PTL

LEMMA AllDecodedAtEnd ==
  ASSUME IInv, ~failed, EoS, dpb = {}, FrameStat = Blank
  PROVE  Collected = Pictures(file)
<1>1. /\ EoP /\ pos = Len(file)
      /\ \A p \in DOMAIN file : \A u \in DOMAIN file[p].units :
           times[<<p, u>>] = DecodedOf(p, u)
  BY DEF IInv, Progress
<1>2. /\ DOMAIN file = 1 .. Len(file) /\ Len(file) \in Nat
      /\ Pictures(file) \subseteq Units(file)
  BY FileShape, UnitShape DEF IInv, TypeOK
<1>3. ASSUME NEW un \in Pictures(file) PROVE times[un] > 0
  <2>1. PICK p \in DOMAIN file : \E u \in DOMAIN file[p].units : un = <<p, u>>
    BY <1>2, UnitShape
  <2>2. PICK u \in DOMAIN file[p].units : un = <<p, u>>
    BY <2>1
  <2>3. p < pos \/ p = pos
    BY <1>1, <1>2
  <2>4. times[<<p, u>>] = 1
    BY <1>1, <2>3 DEF DecodedOf
  <2>5. QED
    BY <2>2, <2>4
<1>4. DecodedPictures = Pictures(file)
  BY <1>3 DEF DecodedPictures
<1>5. DecodedPictures = dpb \cup Collected \cup ({FrameStat} \ {Blank})
  BY DEF IInv, Conservation
<1>6. QED
  BY <1>1, <1>4, <1>5

(* A client that reads to the end has the statistics of every picture. *)
THEOREM NoPictureLost == Spec => []NothingLost
<1>1. IInv => NothingLost
  <2>1. SUFFICES ASSUME IInv, pc = "done", ~failed
                 PROVE  Collected = Pictures(file)
    BY DEF NothingLost
  <2>2. EoS /\ dpb = {} /\ FrameStat = Blank
    BY <2>1 DEF IInv, Progress
  <2>3. QED
    BY <2>1, <2>2, AllDecodedAtEnd
<1>2. QED
  BY <1>1, Invariance, PTL

-----------------------------------------------------------------------------
(* The refinement of FrameStream.                                          *)

StreamStatus ==
  IF pc \notin {"done", "crashed"} THEN "running"
  ELSE IF failed THEN "aborted" ELSE "complete"

LEMMA StreamInit == Init => Stream!Init
  BY DEF Init, Stream!Init

LEMMA StreamDeliver ==
  ASSUME IInv, ClientGetsFrame
  PROVE  \E p \in Pictures(file) : Stream!Deliver(p)
<1>1. /\ pc = "got" /\ ret > 0 /\ ret \in {-1, 0, 1}
      /\ collected' = Append(collected, FrameStat)
      /\ pc' = (IF LimitReached THEN "done" ELSE "read")
      /\ failed' = (failed \/ LimitReached)
      /\ file' = file
  BY DEF ClientGetsFrame, GetFrameStatistics, IInv, TypeOK
<1>2. ret = 1
  BY <1>1
<1>3. /\ FrameStat \in Pictures(file)
      /\ FrameStat \notin Collected
  BY <1>1, <1>2 DEF IInv, TypeOK, Progress, Conservation
<1>4. Pictures(file)' = Pictures(file)
  BY <1>1
<1>5. StreamStatus = "running" /\ StreamStatus' \in {"running", "aborted"}
  BY <1>1 DEF StreamStatus
<1>6. Stream!Deliver(FrameStat)
  BY <1>1, <1>3, <1>4, <1>5 DEF Stream!Deliver, Stream!Handed, Collected, StreamStatus
<1>7. QED
  BY <1>3, <1>6

LEMMA StreamEnd ==
  ASSUME IInv, ClientGoesOn
  PROVE  Stream!Complete \/ Stream!Abort \/ UNCHANGED Stream!vars
<1>1. /\ pc = "got" /\ ret \in {-1, 0, 1}
      /\ pc' = (IF ret < 0 THEN "done" ELSE "read")
      /\ file' = file /\ collected' = collected /\ failed' = failed
  BY DEF ClientGoesOn, StopsAtEnd, IInv, TypeOK
<1>2. Pictures(file)' = Pictures(file)
  BY <1>1
<1>3. StreamStatus = "running"
  BY <1>1 DEF StreamStatus
<1>4. CASE ret >= 0
  <2>1. pc' = "read"
    BY <1>1, <1>4
  <2>2. StreamStatus' = "running"
    BY <2>1 DEF StreamStatus
  <2>3. UNCHANGED Stream!vars
    BY <1>1, <1>2, <1>3, <2>2 DEF Stream!vars, StreamStatus
  <2>4. QED
    BY <2>3
<1>5. CASE ret < 0 /\ failed
  <2>1. pc' = "done"
    BY <1>1, <1>5
  <2>2. StreamStatus' = "aborted"
    BY <1>1, <1>5, <2>1 DEF StreamStatus
  <2>3. Stream!Abort
    BY <1>1, <1>2, <1>3, <2>2 DEF Stream!Abort, StreamStatus
  <2>4. QED
    BY <2>3
<1>6. CASE ret < 0 /\ ~failed
  <2>1. pc' = "done"
    BY <1>1, <1>6
  <2>2. StreamStatus' = "complete"
    BY <1>1, <1>6, <2>1 DEF StreamStatus
  <2>3. EoS /\ dpb = {} /\ FrameStat = Blank
    BY <1>1, <1>6 DEF IInv, Progress
  <2>4. Stream!Handed = Pictures(file)
    BY <1>6, <2>3, AllDecodedAtEnd DEF Stream!Handed, Collected
  <2>5. Stream!Complete
    BY <1>1, <1>2, <1>3, <2>2, <2>4 DEF Stream!Complete, StreamStatus
  <2>6. QED
    BY <2>5
<1>7. ret >= 0 \/ ret < 0
  BY <1>1
<1>8. QED
  BY <1>4, <1>5, <1>6, <1>7

LEMMA StreamStep ==
  ASSUME IInv, [Next]_vars
  PROVE  [Stream!Next]_(Stream!vars)
<1>1. CASE OpenVideo
  BY <1>1 DEF OpenVideo, Stream!vars
<1>2. CASE OpenFails
  <2>1. /\ pc = "open" /\ pc' \in {"done", "crashed"} /\ failed' = TRUE
        /\ file' = file /\ collected' = collected
    BY <1>2 DEF OpenFails
  <2>2. Stream!Abort
    BY <2>1 DEF Stream!Abort
  <2>3. QED
    BY <2>2 DEF Stream!Next
<1>3. CASE ReadNextFrame
  <2>1. pc = "read" /\ pc' = "got" /\ file' = file /\ collected' = collected
    BY <1>3 DEF ReadNextFrame, OtherStream, DecodeError, GotFrame, NoFrame, Decodes, Fetch
  <2>2. QED
    BY <2>1 DEF Stream!vars
<1>4. CASE ClientGetsFrame
  BY <1>4, StreamDeliver DEF Stream!Next
<1>5. CASE ClientGoesOn
  BY <1>5, StreamEnd DEF Stream!Next
<1>6. CASE UNCHANGED vars
  BY <1>6 DEF vars, Stream!vars
<1>7. QED
  BY <1>1, <1>2, <1>3, <1>4, <1>5, <1>6 DEF Next, Finished

(* A session hands out every picture of its file once and nothing else,    *)
(* and ends after the last one or because it was given up.                 *)
THEOREM SessionImplementsStream == Spec => Implements
<1>1. Init => Stream!Init
  BY StreamInit
<1>2. IInv /\ [Next]_vars => [Stream!Next]_(Stream!vars)
  BY StreamStep
<1>3. QED
  BY <1>1, <1>2, Invariance, PTL DEF Spec, Implements, Stream!Spec
=============================================================================
