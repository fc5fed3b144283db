------------------------------ MODULE ReadLoop -------------------------------
(***************************************************************************)
(* One parsing session: a client program (TestMain or the Python module),  *)
(* the C entry points of VideoParser.cpp with the state of CVideoParser    *)
(* that drives them, and, external, libavformat's demuxer and libavcodec's *)
(* decoder as those entry points use them.                                 *)
(*                                                                         *)
(* A file is a sequence of packets.  A packet has a stream index and, if   *)
(* it belongs to the video stream, the units one call of the decoder each  *)
(* consumes: "pic" enters a picture into the decoder, "none" does not (a   *)
(* parameter set), "bad" makes the decoder fail.  A picture is named by    *)
(* its unit <<packet, unit>>.                                              *)
(*                                                                         *)
(* The release of packets is left out.  ReadNextFrame keeps the packet to  *)
(* be freed in orig_pkt, a local variable that it sets only when it reads  *)
(* a packet: the call that takes the second part of one frees whatever     *)
(* that variable happens to hold.                                          *)
(***************************************************************************)
EXTENDS Integers, Sequences, FiniteSets

CONSTANTS
  Files,        \* the files a session may open
  VideoIdx,     \* index of the video stream in the container
  Delay,        \* how many pictures a file's decoder may hold back (reordering)
  Clients,      \* the clients that may read it: "TestMain", "Python"
  FrameLimit,   \* the Python client's num_frames; 0 is None
  OpenMayFail   \* whether OpenVideo may fail

UnitKinds == {"pic", "none", "bad"}

ASSUME FilesAssumption ==
  \A f \in Files :
    /\ f \in Seq([stream : Nat, units : Seq(UnitKinds)])
    /\ \A p \in DOMAIN f : (f[p].stream = VideoIdx) <=> (f[p].units # <<>>)

(* What the EoP protocol relies on: a decoder that leaves part of a packet *)
(* for the next call outputs a picture for every part it takes.  The H.264,*)
(* HEVC and VP9 decoders always take the whole packet.                     *)
ASSUME DecoderAssumption ==
  \A f \in Files : \A p \in DOMAIN f :
    \/ Len(f[p].units) <= 1
    \/ Delay[f] = 0 /\ \A u \in DOMAIN f[p].units : f[p].units[u] # "none"

ASSUME ParameterAssumption ==
  /\ VideoIdx \in Nat
  /\ Delay \in [Files -> Nat]
  /\ FrameLimit \in Nat
  /\ Clients \subseteq {"TestMain", "Python"}
  /\ OpenMayFail \in BOOLEAN

VARIABLES
  file,       \* the file of this session
  client,     \* the program that reads it
  pos,        \* packets av_read_frame has returned
  pkt,        \* CVideoParser::pkt: stream index, next unit, units left
  EoP, EoS,   \* CVideoParser::EoP, EoS
  dpb,        \* pictures held by the decoder
  times,      \* how often each unit was decoded (history)
  FrameStat,  \* CVideoParser::FrameStat: the picture it describes, or Blank
  collected,  \* what GetFrameStatistics gave to the client, in order
  ret,        \* value returned by the last ReadNextFrame
  failed,     \* the session was given up before the end (history)
  pc          \* the client: "open", "read", "got", "done", "crashed"

parserVars == <<pos, pkt, EoP, EoS, dpb, times, FrameStat, ret>>
vars == <<file, client, pos, pkt, EoP, EoS, dpb, times, FrameStat, collected, ret,
          failed, pc>>

Units(f)    == UNION {{<<p, u>> : u \in DOMAIN f[p].units} : p \in DOMAIN f}
Kind(f, un) == f[un[1]].units[un[2]]
Pictures(f) == {un \in Units(f) : Kind(f, un) = "pic"}
Blank       == <<0, 0>>

(* av_init_packet leaves stream_index 0, and so does a failed av_read_frame. *)
EmptyPacket == [stream |-> 0, unit |-> 1, left |-> 0]

Packet(p) == [stream |-> file[p].stream, unit |-> 1, left |-> Len(file[p].units)]

Init ==
  /\ file \in Files
  /\ client \in Clients
  /\ pos = 0
  /\ pkt = EmptyPacket
  /\ EoP = FALSE /\ EoS = FALSE
  /\ dpb = {}
  /\ times = [un \in Units(file) |-> 0]
  /\ FrameStat = Blank
  /\ collected = <<>>
  /\ ret = 0
  /\ failed = FALSE
  /\ pc = "open"

-----------------------------------------------------------------------------
(* OpenVideo, seen from the client.                                        *)

OpenVideo ==
  /\ pc = "open"
  /\ EoP' = TRUE /\ EoS' = FALSE /\ pkt' = EmptyPacket
  /\ pc' = "read"
  /\ UNCHANGED <<file, client, pos, dpb, times, FrameStat, collected, ret, failed>>

(* TestMain tests the result of OpenVideo.  VideoParser.parse ignores that *)
(* of init(), and the first ReadNextFrame then follows a null stream       *)
(* pointer.                                                                *)
OpenFails ==
  /\ OpenMayFail
  /\ pc = "open"
  /\ pc' = IF client = "Python" THEN "crashed" ELSE "done"
  /\ failed' = TRUE
  /\ UNCHANGED <<file, client, collected, parserVars>>

-----------------------------------------------------------------------------
(* ReadNextFrame.  Fetched is the state after its first statement: the     *)
(* next packet if the current one is used up, the flush packet at the end. *)

Fetched ==
  IF ~EoP \/ EoS      THEN [pos |-> pos, pkt |-> pkt, EoS |-> EoS]
  ELSE IF pos < Len(file)
                      THEN [pos |-> pos + 1, pkt |-> Packet(pos + 1), EoS |-> FALSE]
                      ELSE [pos |-> pos, pkt |-> EmptyPacket, EoS |-> TRUE]

Fetch(f) ==
  /\ pc = "read"
  /\ pos' = f.pos
  /\ EoS' = f.EoS
  /\ pc' = "got"
  /\ UNCHANGED <<file, client, collected>>

(* A packet of another stream is not decoded. *)
OtherStream ==
  LET f == Fetched IN
  /\ f.pkt.stream # VideoIdx
  /\ Fetch(f)
  /\ pkt' = f.pkt
  /\ ret' = 0
  /\ UNCHANGED <<EoP, dpb, times, FrameStat, failed>>

CurrentUnit(f) == <<f.pos, f.pkt.unit>>

(* What the decoder holds once it has consumed the unit (or nothing, when  *)
(* it is flushed), before it outputs a picture.                            *)
Held(f) ==
  IF f.pkt.left > 0 /\ Kind(file, CurrentUnit(f)) = "pic"
  THEN dpb \cup {CurrentUnit(f)} ELSE dpb

CountUnit(f) ==
  times' = IF f.pkt.left > 0 THEN [times EXCEPT ![CurrentUnit(f)] = @ + 1] ELSE times

Decodes(f) ==
  /\ f.pkt.stream = VideoIdx
  /\ f.pkt.left > 0 => Kind(file, CurrentUnit(f)) # "bad"
  /\ Fetch(f)
  /\ CountUnit(f)

DecodeError ==
  LET f == Fetched IN
  /\ f.pkt.stream = VideoIdx
  /\ f.pkt.left > 0 /\ Kind(file, CurrentUnit(f)) = "bad"
  /\ Fetch(f)
  /\ pkt' = f.pkt
  /\ ret' = -1
  /\ failed' = TRUE
  /\ UNCHANGED <<EoP, dpb, times, FrameStat>>

\* Variants with a defect (see README, "Mutants").
RestNotAdvanced(q)     == q
RestAlwaysAdvanced(q)  == [q EXCEPT !.unit = @ + 1, !.left = @ - 1]

(* The packet without the unit the decoder consumed. *)
Rest(q) == IF q.left > 0 THEN [q EXCEPT !.unit = @ + 1, !.left = @ - 1] ELSE q

(* The decoder outputs a picture: AnalysePacket fills FrameStat, the       *)
(* consumed unit is dropped from the packet.                               *)
GotFrame ==
  LET f == Fetched IN
  /\ Decodes(f)
  /\ \E p \in Held(f) :
       /\ dpb' = Held(f) \ {p}
       /\ FrameStat' = p
  /\ pkt' = Rest(f.pkt)
  /\ EoP' = (pkt'.left = 0)
  /\ ret' = 1
  /\ UNCHANGED failed

\* Variants with a defect.
NoFrameEndUnseen(f)    == 0
NoFrameTakenAsFrame(f) == IF f.EoS THEN -1 ELSE 1

NoFrameResult(f) == IF f.EoS THEN -1 ELSE 0

(* The decoder keeps what it got.  The packet is left as it is, and EoP    *)
(* with it.                                                                *)
NoFrame ==
  LET f == Fetched IN
  /\ Decodes(f)
  /\ Cardinality(Held(f)) <= (IF f.EoS THEN 0 ELSE Delay[file])
  /\ dpb' = Held(f)
  /\ pkt' = f.pkt
  /\ ret' = NoFrameResult(f)
  /\ UNCHANGED <<EoP, FrameStat, failed>>

ReadNextFrame == OtherStream \/ DecodeError \/ GotFrame \/ NoFrame

-----------------------------------------------------------------------------
(* The clients.                                                            *)

\* Variant with a defect: the parser's copy is not cleared.
GetFrameStatisticsUncleared ==
  /\ collected' = Append(collected, FrameStat)
  /\ FrameStat' = FrameStat

(* GetFrameStatistics hands out FrameStat and clears it. *)
GetFrameStatistics ==
  /\ collected' = Append(collected, FrameStat)
  /\ FrameStat' = Blank

LimitReached == client = "Python" /\ FrameLimit > 0 /\ Len(collected') >= FrameLimit

(* A frame arrived: the client fetches its statistics. *)
ClientGetsFrame ==
  /\ pc = "got" /\ ret > 0
  /\ GetFrameStatistics
  /\ pc' = IF LimitReached THEN "done" ELSE "read"
  /\ failed' = (failed \/ LimitReached)
  /\ UNCHANGED <<file, client, pos, pkt, EoP, EoS, dpb, times, ret>>

\* Variant with a defect: the loop takes 0 for the end.
StopsUnlessFrame == ret <= 0

(* No frame, or the end: both clients go on while ret >= 0. *)
StopsAtEnd == ret < 0

ClientGoesOn ==
  /\ pc = "got" /\ ret <= 0
  /\ pc' = IF StopsAtEnd THEN "done" ELSE "read"
  /\ UNCHANGED <<file, client, collected, failed, parserVars>>

Finished == pc \in {"done", "crashed"} /\ UNCHANGED vars

Next ==
  \/ OpenVideo \/ OpenFails
  \/ ReadNextFrame
  \/ ClientGetsFrame \/ ClientGoesOn
  \/ Finished

Spec == Init /\ [][Next]_vars

(* The process is one thread that never waits for another: it always takes *)
(* its next step.                                                          *)
FairSpec == Spec /\ WF_vars(Next)

-----------------------------------------------------------------------------
(* Properties.                                                             *)

(* Every variable stays in its type. *)
TypeOK ==
  /\ file \in Files
  /\ client \in Clients
  /\ pos \in 0 .. Len(file)
  /\ pkt \in [stream : Nat, unit : Nat \ {0}, left : Nat]
  /\ EoP \in BOOLEAN /\ EoS \in BOOLEAN
  /\ dpb \subseteq Pictures(file)
  /\ times \in [Units(file) -> Nat]
  /\ FrameStat \in Pictures(file) \cup {Blank}
  /\ collected \in Seq(Pictures(file) \cup {Blank})
  /\ ret \in {-1, 0, 1}
  /\ failed \in BOOLEAN
  /\ pc \in {"open", "read", "got", "done", "crashed"}

Collected == {collected[i] : i \in DOMAIN collected}

(* No payload is fed to the decoder twice: ReadNextFrame keeps pkt, EoP and *)
(* EoS such that a call that gets no frame does not decode the same bytes  *)
(* again later.                                                            *)
DecodedOnce == \A un \in Units(file) : times[un] <= 1

(* A picture that entered the decoder is at one place: held by it, in      *)
(* FrameStat waiting for GetFrameStatistics, or with the client; nothing   *)
(* is overwritten before it was fetched and nothing is fetched twice.      *)
DecodedPictures == {un \in Pictures(file) : times[un] > 0}

Conservation ==
  /\ DecodedPictures = dpb \cup Collected \cup ({FrameStat} \ {Blank})
  /\ dpb \cap Collected = {}
  /\ FrameStat \notin dpb \cup Collected
  /\ \A i, j \in DOMAIN collected : collected[i] = collected[j] => i = j

(* How far the file is decoded, and where the call stands: the strengthening *)
(* that makes the three properties around it inductive.  Everything before *)
(* the current packet was decoded once, nothing behind it was; EoP says    *)
(* whether the current packet is used up; only the end of the file leaves  *)
(* the flush packet behind.                                                *)
DecodedOf(p, u) ==
  IF p < pos \/ (p = pos /\ (EoP \/ u < pkt.unit)) THEN 1 ELSE 0

Progress ==
  /\ ~failed => \A p \in DOMAIN file : \A u \in DOMAIN file[p].units :
                  times[<<p, u>>] = DecodedOf(p, u)
  /\ pc = "open" => pos = 0 /\ ~EoS /\ ~failed
  /\ pc = "read" => ~failed
  /\ EoS => EoP /\ pos = Len(file) /\ pkt = EmptyPacket
  /\ pc # "open" /\ ~EoP /\ ~failed =>
       /\ pos > 0 /\ pkt.stream = VideoIdx /\ file[pos].stream = VideoIdx
       /\ pkt.unit \in 2 .. Len(file[pos].units)
       /\ pkt.left = Len(file[pos].units) - pkt.unit + 1
  /\ IsFiniteSet(dpb)
  /\ FrameStat # Blank <=> pc = "got" /\ ret = 1
  /\ pc = "got" /\ failed => ret = -1
  /\ (pc = "got" /\ ret = -1) \/ pc = "done" => failed \/ (EoS /\ dpb = {})

(* A client that stops without an error, a failed open or its own limit    *)
(* has the statistics of every picture of the file, the ones the decoder   *)
(* held back at the end included.                                          *)
NothingLost == pc = "done" /\ ~failed => Collected = Pictures(file)

(* The session is an implementation of FrameStream. *)
Stream == INSTANCE FrameStream WITH
  pictures <- Pictures(file),
  out      <- collected,
  status   <- IF pc \notin {"done", "crashed"} THEN "running"
              ELSE IF failed THEN "aborted" ELSE "complete"

Implements == Stream!Spec

(* The client's loop ends. *)
LoopEnds == <>(pc \in {"done", "crashed"})
=============================================================================
