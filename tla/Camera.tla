------------------------------- MODULE Camera -------------------------------
(***************************************************************************)
(* One camera of the dashboard (tri_stream.py): the capture thread, which  *)
(* cuts a stream of bytes into JPEG images at their start and end markers, *)
(* the table of latest images, and the browser that polls it over HTTP.    *)
(*                                                                         *)
(* Cameras 0 and 1 are pipes from an ffmpeg, which is started again when   *)
(* it ends; camera 2 is the UDP packets of one that is not, and packets    *)
(* may be lost.  ffmpeg, the pipe, the network, the browser's HTTP client  *)
(* are external.                                                           *)
(*                                                                         *)
(* A byte is named by its position in the stream; image k is the five      *)
(* bytes FF D8 data FF D9.                                                 *)
(***************************************************************************)
EXTENDS Integers, Sequences

CONSTANTS
  Images,  \* bound: images the camera takes
  Chunk,   \* bound: bytes that are read or received at once
  MaxLost  \* bound: packets lost, ends of ffmpeg

ASSUME CameraAssumption == {Images, Chunk, MaxLost} \subseteq Nat

VARIABLES
  kind,     \* "pipe" or "udp"
  pc,       \* of the capture thread: "read", "scan", "ended"
  pos,      \* bytes of the stream that have left ffmpeg
  buf,
  frame,    \* frames[dev_index]
  response, \* the image the server is writing to the browser
  shown,    \* the image in the browser
  begun,    \* history: bytes that had left when this ffmpeg was started
  losses, lost, split, whole  \* history: see below

captureVars == <<pc, pos, buf, frame, begun, losses, lost, split, whole>>
vars == <<kind, captureVars, response, shown>>

Marker == <<"FF", "D8", "data", "FF", "D9">>
Size == Len(Marker)
Byte(p) == Marker[((p - 1) % Size) + 1]
Image(k) == [i \in 1..Size |-> Size * (k - 1) + i]
End == Size * Images
ImagesTaken == 1..Images

(* buf.find(FF b, from): the first index, or 0.                            *)
find(s, b, from) ==
  LET At == {i \in from..(Len(s) - 1) : Byte(s[i]) = "FF" /\ Byte(s[i + 1]) = b}
      First == {i \in At : \A j \in At : i <= j}
  IN  IF First = {} THEN 0 ELSE CHOOSE i \in First : TRUE

Init ==
  /\ kind \in {"pipe", "udp"}
  /\ pc = "read" /\ pos = 0 /\ buf = <<>> /\ frame = <<>> /\ begun = 0
  /\ response = <<>> /\ shown = <<>>
  /\ losses = 0 /\ lost = {} /\ split = {} /\ whole = {}

---------------------------------------------------------------------------
(* pipe.read or sock.recvfrom returns the next n bytes.  split: the images *)
(* whose start marker a read cut in two.                                   *)
Read(n) ==
  /\ pc = "read" /\ pos + n <= End
  /\ buf' = buf \o [i \in 1..n |-> pos + i]
  /\ pos' = pos + n
  /\ pc' = "scan"
  /\ split' = split \cup {k \in ImagesTaken : pos' = Image(k)[1]}
  /\ UNCHANGED <<kind, begun, frame, response, shown, losses, lost, whole>>

(* A packet of n bytes is lost.                                            *)
Lose(n) ==
  /\ kind = "udp" /\ losses < MaxLost /\ pos + n <= End
  /\ pos' = pos + n
  /\ losses' = losses + 1
  /\ lost' = lost \cup (pos + 1)..pos'
  /\ UNCHANGED <<kind, begun, pc, buf, frame, response, shown, split, whole>>

(* The inner loop: the two markers, the table, the rest of the buffer.     *)
soi == find(buf, "D8", 1)
eoi == find(buf, "D9", soi + 2)

(* mutant: the start marker is not kept *)
NoEnd_DropStart ==
  /\ pc = "scan" /\ soi # 0 /\ eoi = 0
  /\ buf' = SubSeq(buf, soi + 2, Len(buf))
  /\ pc' = "read"
  /\ UNCHANGED <<kind, begun, pos, frame, response, shown, losses, lost, split, whole>>

NoStart ==
  /\ pc = "scan" /\ soi = 0
  /\ buf' = <<>>
  /\ pc' = "read"
  /\ UNCHANGED <<kind, begun, pos, frame, response, shown, losses, lost, split, whole>>

NoEnd ==
  /\ pc = "scan" /\ soi # 0 /\ eoi = 0
  /\ buf' = SubSeq(buf, soi, Len(buf))
  /\ pc' = "read"
  /\ UNCHANGED <<kind, begun, pos, frame, response, shown, losses, lost, split, whole>>

(* mutant: the slice stops one short *)
Found_Short ==
  /\ pc = "scan" /\ soi # 0 /\ eoi # 0
  /\ frame' = SubSeq(buf, soi, eoi)
  /\ buf' = SubSeq(buf, eoi + 2, Len(buf))
  /\ whole' = whole \cup {k \in ImagesTaken : frame' = Image(k)}
  /\ UNCHANGED <<kind, begun, pc, pos, response, shown, losses, lost, split>>

Found ==
  /\ pc = "scan" /\ soi # 0 /\ eoi # 0
  /\ frame' = SubSeq(buf, soi, eoi + 1)
  /\ buf' = SubSeq(buf, eoi + 2, Len(buf))
  /\ whole' = whole \cup {k \in ImagesTaken : frame' = Image(k)}
  /\ UNCHANGED <<kind, begun, pc, pos, response, shown, losses, lost, split>>

(* ffmpeg ends: read returns nothing, and capture_local sleeps for 2 s.    *)
EndOfFile ==
  /\ kind = "pipe" /\ pc = "read" /\ losses < MaxLost
  /\ pc' = "ended"
  /\ losses' = losses + 1
  /\ UNCHANGED <<kind, begun, pos, buf, frame, response, shown, lost, split, whole>>

(* mutant: a new one plays a recording again *)
Restart_Replay ==
  /\ pc = "ended"
  /\ pos' \in {Size * k : k \in 0..Images}
  /\ buf' = <<>> /\ begun' = pos'
  /\ pc' = "read"
  /\ UNCHANGED <<kind, frame, response, shown, losses, lost, split, whole>>

(* mutant: the buffer of the old stream is kept *)
Restart_KeepBuffer ==
  /\ pc = "ended"
  /\ pos' \in {Size * k : k \in 0..Images}
  /\ pos <= pos'
  /\ begun' = pos'
  /\ pc' = "read"
  /\ lost' = lost \cup (pos + 1)..pos'
  /\ UNCHANGED <<kind, buf, frame, response, shown, losses, split, whole>>

(* A new one starts with a new image, and parse_mjpeg with an empty buffer.*)
Restart ==
  /\ pc = "ended"
  /\ pos' \in {Size * k : k \in 0..Images}
  /\ pos <= pos'
  /\ buf' = <<>> /\ begun' = pos'
  /\ pc' = "read"
  /\ lost' = lost \cup (pos + 1)..pos'
  /\ UNCHANGED <<kind, frame, response, shown, losses, split, whole>>

---------------------------------------------------------------------------
(* mutant: the first image is not polled again *)
Get_Once ==
  /\ response = <<>> /\ frame # <<>> /\ shown = <<>>
  /\ response' = frame
  /\ UNCHANGED <<kind, captureVars, shown>>

(* The browser asks for the image, and do_GET takes the latest.            *)
Get ==
  /\ response = <<>> /\ frame # <<>>
  /\ response' = frame
  /\ UNCHANGED <<kind, captureVars, shown>>

(* The image is loaded; the next poll comes 80 ms later.                   *)
Load ==
  /\ response # <<>>
  /\ shown' = response
  /\ response' = <<>>
  /\ UNCHANGED <<kind, captureVars>>

Scan == NoStart \/ NoEnd \/ Found
Capture == Scan \/ Restart \/ \E n \in 1..Chunk : Read(n)
Browser == Get \/ Load
Next == Capture \/ Browser \/ EndOfFile \/ \E n \in 1..Chunk : Lose(n)

Spec == Init /\ [][Next]_vars
FairSpec == Spec /\ WF_vars(Capture) /\ WF_vars(Get) /\ WF_vars(Load)

---------------------------------------------------------------------------
TypeOK ==
  /\ kind \in {"pipe", "udp"} /\ pc \in {"read", "scan", "ended"}
  /\ pos \in 0..End /\ begun \in 0..End
  /\ {buf, frame, response, shown} \subseteq Seq(1..End)
  /\ losses \in 0..MaxLost /\ lost \subseteq 1..End
  /\ split \subseteq ImagesTaken /\ whole \subseteq ImagesTaken

(* What is shown as an image is one, unless a part of it was lost on the   *)
(* way.                                                                    *)
WholeUnlessLost ==
  frame # <<>> =>
    \/ \E k \in ImagesTaken : frame = Image(k)
    \/ lost \cap frame[1]..frame[Len(frame)] # {}

(* An image that has gone past is missed only for a cause: a read cut its  *)
(* start marker in two, or bytes of it or of the end before it were lost.  *)
MissedForCause ==
  pc = "read" =>
    \A k \in ImagesTaken :
      Size * k <= pos =>
        \/ k \in whole
        \/ k \in split
        \/ lost \cap (Size * (k - 1) - 1)..(Size * k) # {}

(* The camera's picture never goes back to an earlier image.              *)
FramesAdvance ==
  [][frame' # frame => frame = <<>> \/ frame'[1] > frame[Len(frame)]]_frame

(* What an ffmpeg left unfinished is never glued to what the next one      *)
(* sends: an image that is put into the table is of the stream being read. *)
OneStream == [][frame' # frame => frame'[1] > begun]_<<frame, begun>>

(* The browser comes to show the last image captured.                      *)
LastFrameShown == <>[](shown = frame)
============================================================================
