----------------------------- MODULE FrameStream -----------------------------
(***************************************************************************)
(* What the parser promises to a client, whatever the container, the codec *)
(* and the packets look like: the statistics of every picture of the file  *)
(* are handed out exactly once, nothing else is handed out, and the end is *)
(* reported either after the last picture or because the session was given *)
(* up (a failed OpenVideo, a decoding error, the client's own frame limit).*)
(***************************************************************************)
EXTENDS Sequences

VARIABLES
  pictures,  \* the pictures the file holds
  out,       \* the sequence of pictures whose statistics the client has
  status     \* "running", "complete" or "aborted"

vars == <<pictures, out, status>>

Handed == {out[i] : i \in DOMAIN out}

Init == out = <<>> /\ status = "running"

(* The client may stop with the picture it has just been given. *)
Deliver(p) ==
  /\ status = "running"
  /\ p \in pictures \ Handed
  /\ out' = Append(out, p)
  /\ status' \in {"running", "aborted"}
  /\ UNCHANGED pictures

Complete ==
  /\ status = "running"
  /\ Handed = pictures
  /\ status' = "complete"
  /\ UNCHANGED <<pictures, out>>

Abort ==
  /\ status = "running"
  /\ status' = "aborted"
  /\ UNCHANGED <<pictures, out>>

Next == Complete \/ Abort \/ \E p \in pictures : Deliver(p)

Spec == Init /\ [][Next]_vars
=============================================================================
