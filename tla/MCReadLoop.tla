----------------------------- MODULE MCReadLoop ------------------------------
(* Small files for ReadLoop, and the decoders that read them. *)
EXTENDS ReadLoop

CONSTANTS
  MaxPackets,  \* packets per file
  MaxHeld      \* pictures a decoder that reorders may hold back

\* Containers with one video stream and one other stream, any interleaving.
VideoPackets(kinds, n) ==
  {[stream |-> VideoIdx, units |-> us] : us \in UNION {[1 .. k -> kinds] : k \in 1 .. n}}

OtherPackets == {[stream |-> 1 - VideoIdx, units |-> <<>>]}

FilesOf(packets, max) == UNION {[1 .. n -> packets] : n \in 0 .. max}

\* Decoders that consume a whole packet per call (H.264, HEVC, VP9).
WholeFiles == FilesOf(VideoPackets(UnitKinds, 1) \cup OtherPackets, MaxPackets)

\* Decoders that leave part of a packet for the next call and hold nothing back.
PackedFiles == FilesOf(VideoPackets({"pic", "bad"}, 2) \cup OtherPackets, MaxPackets - 1)

AllFiles == WholeFiles \cup PackedFiles

\* At least one picture, and no unit makes the decoder fail.
CleanFiles ==
  {f \in FilesOf(VideoPackets({"pic", "none"}, 1) \cup OtherPackets, MaxPackets) : Pictures(f) # {}}

Packed(f)  == \E p \in DOMAIN f : Len(f[p].units) > 1
HoldsBack  == [f \in Files |-> IF Packed(f) THEN 0 ELSE MaxHeld]

BothClients == {"TestMain", "Python"}
TestMain    == {"TestMain"}
=============================================================================
