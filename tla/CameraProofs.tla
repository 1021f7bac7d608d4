---------------------------- MODULE CameraProofs ----------------------------
(***************************************************************************)
(* Proofs about Camera, for every number of images, chunk and number of    *)
(* losses, wherever the stream is cut, whatever is lost and whenever       *)
(* ffmpeg is started again: the table of latest images never goes back to  *)
(* an earlier image; what is put into the table is one image of the stream *)
(* that is being read; and of the images that have gone past none is       *)
(* missed without a cause.                                                 *)
(***************************************************************************)
EXTENDS Camera, TLAPS, SequenceTheorems, WellFoundedInduction

(* The buffer holds bytes in the order of the stream, all of them after    *)
(* the latest image.                                                       *)
BufferInv ==
  /\ \A i, j \in 1..Len(buf) : i < j => buf[i] < buf[j]
  /\ \A i \in 1..Len(buf) : buf[i] <= pos
  /\ frame # <<>> =>
       /\ frame[1] <= frame[Len(frame)] /\ frame[Len(frame)] <= pos
       /\ \A i \in 1..Len(buf) : frame[Len(frame)] < buf[i]

(* All of them are of the stream that is being read.                       *)
BegunInv == begun <= pos /\ \A i \in 1..Len(buf) : begun < buf[i]

IInv == TypeOK /\ BufferInv /\ BegunInv

(* An image is five bytes.                                                 *)
LEMMA SizeFact == Size = 5 /\ End = 5 * Images /\ End \in Nat
BY CameraAssumption DEF Size, Marker, End

(* The ends of a sequence that is not empty.                               *)
LEMMA Ends ==
  ASSUME NEW S, NEW s \in Seq(S), s # <<>>
  PROVE  Len(s) \in Nat /\ Len(s) >= 1 /\ s[1] \in S /\ s[Len(s)] \in S
<1>1. Len(s) \in Nat /\ Len(s) # 0
  BY EmptySeq, LenProperties
<1>2. 1 \in 1..Len(s) /\ Len(s) \in 1..Len(s)
  BY <1>1
<1> QED BY <1>1, <1>2, ElementOfSeq

(* Images and the buffer are sequences of positive numbers.                *)
LEMMA Positions ==
  ASSUME NEW s \in Seq(1..End)
  PROVE  /\ Len(s) \in Nat /\ \A i \in 1..Len(s) : s[i] \in 1..End /\ s[i] \in Nat
         /\ s # <<>> => Len(s) >= 1 /\ s[1] \in Nat /\ s[Len(s)] \in Nat
<1>1. Len(s) \in Nat
  BY LenProperties
<1>2. \A i \in 1..Len(s) : s[i] \in 1..End
  BY ElementOfSeq
<1>3. \A i \in 1..Len(s) : s[i] \in Nat
  BY <1>2, SizeFact
<1> QED BY <1>1, <1>2, <1>3, Ends

(* The images on their way and the buffer are sequences of positions.      *)
LEMMA Sequences ==
  ASSUME TypeOK
  PROVE  /\ buf \in Seq(1..End) /\ frame \in Seq(1..End)
         /\ response \in Seq(1..End) /\ shown \in Seq(1..End)
BY DEF TypeOK

(* A marker that is found is two bytes of the buffer.                      *)
LEMMA FindRange ==
  ASSUME NEW s, NEW b, NEW from \in Int, Len(s) \in Nat, find(s, b, from) # 0
  PROVE  find(s, b, from) \in from..(Len(s) - 1)
BY DEF find

(* Wherever the loop cuts the buffer it is inside it.                      *)
LEMMA Markers ==
  ASSUME TypeOK, soi # 0
  PROVE  /\ Len(buf) \in Nat /\ soi \in 1..(Len(buf) - 1)
         /\ eoi # 0 => eoi \in (soi + 2)..(Len(buf) - 1)
<1>1. Len(buf) \in Nat
  BY LenProperties DEF TypeOK
<1>2. soi \in 1..(Len(buf) - 1)
  BY <1>1, FindRange DEF soi
<1>3. eoi # 0 => eoi \in (soi + 2)..(Len(buf) - 1)
  BY <1>1, <1>2, FindRange DEF eoi
<1> QED BY <1>1, <1>2, <1>3

(* A slice of the buffer.                                                  *)
LEMMA Slice ==
  ASSUME TypeOK, Len(buf) \in Nat, NEW m \in 1..(Len(buf) + 1), NEW n \in (m - 1)..Len(buf)
  PROVE  /\ SubSeq(buf, m, n) \in Seq(1..End)
         /\ Len(SubSeq(buf, m, n)) = n - m + 1
         /\ \A i \in 1..(n - m + 1) : SubSeq(buf, m, n)[i] = buf[m + i - 1]
<1>1. buf \in Seq(1..End)
  BY DEF TypeOK
<1>2. \A i \in m..n : buf[i] \in 1..End
  <2>1. m..n \subseteq 1..Len(buf)
    OBVIOUS
  <2> QED BY <1>1, <2>1, Positions
<1> QED BY <1>1, <1>2, SubSeqProperties

(* Nothing has been read, nothing is shown.                                *)
LEMMA InitInv == Init => IInv
<1> SUFFICES ASSUME Init PROVE IInv
  OBVIOUS
<1>1. <<>> \in Seq(1..End) /\ Len(<<>>) = 0
  BY EmptySeq
<1>2. TypeOK
  BY <1>1, SizeFact, CameraAssumption DEF Init, TypeOK
<1>3. BufferInv /\ BegunInv
  BY <1>1 DEF Init, BufferInv, BegunInv
<1> QED BY <1>2, <1>3 DEF IInv

---------------------------------------------------------------------------
(* The capture thread.                                                     *)
(* What a read appends to the buffer.                                      *)
LEMMA ReadBuffer ==
  ASSUME IInv, NEW n \in 1..Chunk, Read(n)
  PROVE  /\ pos \in Nat /\ n \in Nat /\ n >= 1 /\ pos + n <= End /\ End \in Nat
         /\ Len(buf) \in Nat
         /\ buf' \in Seq(1..End) /\ Len(buf') = Len(buf) + n
         /\ \A i \in 1..(Len(buf) + n) :
              buf'[i] = IF i <= Len(buf) THEN buf[i] ELSE pos + (i - Len(buf))
<1> DEFINE new == [i \in 1..n |-> pos + i]
<1>1. /\ buf \in Seq(1..End) /\ pos \in Nat /\ n \in Nat /\ n >= 1
      /\ pos + n <= End /\ End \in Nat /\ Len(buf) \in Nat
  BY CameraAssumption, SizeFact, LenProperties DEF IInv, TypeOK, Read
<1>2. new \in Seq(1..End) /\ Len(new) = n
  <2>1. \A i \in 1..n : pos + i \in 1..End
    BY <1>1
  <2>2. new \in [1..n -> 1..End]
    BY <2>1
  <2>3. new \in Seq(1..End)
    BY <1>1, <2>2, SeqDef
  <2> QED BY <1>1, <2>2, <2>3, LenProperties
<1>3. /\ buf' \in Seq(1..End) /\ Len(buf') = Len(buf) + n
      /\ \A i \in 1..(Len(buf) + n) :
           buf'[i] = IF i <= Len(buf) THEN buf[i] ELSE pos + (i - Len(buf))
  <2>1. buf' = buf \o new
    BY DEF Read
  <2>2. /\ buf' \in Seq(1..End) /\ Len(buf') = Len(buf) + n
        /\ \A i \in 1..(Len(buf) + n) :
             buf'[i] = IF i <= Len(buf) THEN buf[i] ELSE new[i - Len(buf)]
    BY <1>1, <1>2, <2>1, ConcatProperties
  <2>3. ASSUME NEW i \in 1..(Len(buf) + n), i > Len(buf)
        PROVE  new[i - Len(buf)] = pos + (i - Len(buf))
    <3>1. i - Len(buf) \in 1..n
      BY <1>1, <2>3
    <3> QED BY <3>1
  <2>4. ASSUME NEW i \in 1..(Len(buf) + n)
        PROVE  buf'[i] = IF i <= Len(buf) THEN buf[i] ELSE pos + (i - Len(buf))
    <3>1. CASE i <= Len(buf)
      BY <2>2, <3>1
    <3>2. CASE ~(i <= Len(buf))
      <4>1. i > Len(buf)
        BY <1>1, <3>2
      <4>2. buf'[i] = new[i - Len(buf)]
        BY <2>2, <3>2
      <4> QED BY <2>3, <3>2, <4>1, <4>2
    <3> QED BY <3>1, <3>2
  <2> QED BY <2>2, <2>4
<1> QED BY <1>1, <1>3

(* It leaves the buffer in the order of the stream.                        *)
LEMMA ReadInv ==
  ASSUME IInv, NEW n \in 1..Chunk, Read(n)
  PROVE  IInv'
<1>1. /\ pos \in Nat /\ n \in Nat /\ n >= 1 /\ pos + n <= End /\ End \in Nat
      /\ Len(buf) \in Nat
  BY ReadBuffer
<1>3. /\ buf' \in Seq(1..End) /\ Len(buf') = Len(buf) + n
      /\ \A i \in 1..(Len(buf) + n) :
           buf'[i] = IF i <= Len(buf) THEN buf[i] ELSE pos + (i - Len(buf))
  BY ReadBuffer
<1>4. TypeOK'
  <2>1. {buf', frame', response', shown'} \subseteq Seq(1..End)
    BY <1>3, Sequences DEF Read, IInv
  <2>2. pos' \in 0..End /\ split' \subseteq ImagesTaken
    BY <1>1 DEF Read, IInv, TypeOK
  <2> QED BY <2>1, <2>2 DEF Read, IInv, TypeOK
<1>5. \A i \in 1..Len(buf) : buf[i] \in Nat /\ buf[i] <= pos
  BY Sequences, Positions DEF IInv, BufferInv
<1>6. BufferInv'
  <2>1. ASSUME NEW i \in 1..Len(buf'), NEW j \in 1..Len(buf'), i < j
        PROVE  buf'[i] < buf'[j]
    <3>1. CASE j <= Len(buf)
      <4>1. i \in 1..Len(buf) /\ j \in 1..Len(buf) /\ buf'[i] = buf[i] /\ buf'[j] = buf[j]
        BY <1>1, <1>3, <2>1, <3>1
      <4> QED BY <2>1, <4>1 DEF IInv, BufferInv
    <3>2. CASE j > Len(buf)
      <4>1. j \in Nat /\ i \in Nat /\ buf'[j] = pos + (j - Len(buf))
        BY <1>1, <1>3, <2>1, <3>2
      <4>2. CASE i <= Len(buf)
        <5>1. buf'[i] = buf[i] /\ buf[i] \in Nat /\ buf[i] <= pos
          BY <1>1, <1>3, <1>5, <2>1, <4>2
        <5> QED BY <1>1, <3>2, <4>1, <5>1
      <4>3. CASE i > Len(buf)
        <5>1. buf'[i] = pos + (i - Len(buf))
          BY <1>1, <1>3, <2>1, <4>1, <4>3
        <5> QED BY <1>1, <2>1, <4>1, <5>1
      <4> QED BY <1>1, <4>1, <4>2, <4>3
    <3> QED BY <1>1, <1>3, <3>1, <3>2
  <2>2. \A i \in 1..Len(buf') : buf'[i] <= pos'
    BY <1>1, <1>3, <1>5 DEF Read
  <2>3. ASSUME frame # <<>>
        PROVE  /\ frame[1] <= frame[Len(frame)] /\ frame[Len(frame)] <= pos'
               /\ \A i \in 1..Len(buf') : frame[Len(frame)] < buf'[i]
    <3>1. frame[1] \in Nat /\ frame[Len(frame)] \in Nat
      BY <2>3, Sequences, Positions DEF IInv
    <3>2. frame[1] <= frame[Len(frame)] /\ frame[Len(frame)] <= pos
          /\ \A i \in 1..Len(buf) : frame[Len(frame)] < buf[i]
      BY <2>3 DEF IInv, BufferInv
    <3> QED BY <1>1, <1>3, <3>1, <3>2 DEF Read
  <2> QED BY <2>1, <2>2, <2>3 DEF BufferInv, Read
<1>7. BegunInv'
  <2>1. begun' = begun /\ pos' = pos + n /\ begun \in Nat /\ begun <= pos
    BY SizeFact DEF Read, IInv, TypeOK, BegunInv
  <2>2. ASSUME NEW i \in 1..(Len(buf) + n) PROVE begun < buf'[i]
    <3>1. CASE i <= Len(buf)
      <4>1. i \in 1..Len(buf) /\ buf'[i] = buf[i]
        BY <1>1, <1>3, <3>1
      <4> QED BY <4>1 DEF IInv, BegunInv
    <3>2. CASE ~(i <= Len(buf))
      <4>1. buf'[i] = pos + (i - Len(buf)) /\ i - Len(buf) \in Nat /\ i - Len(buf) >= 1
        BY <1>1, <1>3, <3>2
      <4> QED BY <1>1, <2>1, <4>1
    <3> QED BY <3>1, <3>2
  <2> QED BY <1>1, <1>3, <2>1, <2>2 DEF BegunInv
<1> QED BY <1>4, <1>6, <1>7 DEF IInv

(* A part of the buffer is kept, from the start marker or none of it.      *)
LEMMA KeepInv ==
  ASSUME IInv, NoStart \/ NoEnd
  PROVE  IInv'
<1>1. CASE NoStart
  <2>1. buf' = <<>> /\ Len(buf') = 0 /\ <<>> \in Seq(1..End)
    BY <1>1, EmptySeq DEF NoStart
  <2>2. TypeOK'
    BY <1>1, <2>1 DEF NoStart, IInv, TypeOK
  <2>3. BufferInv' /\ BegunInv'
    BY <1>1, <2>1 DEF NoStart, IInv, BufferInv, BegunInv
  <2> QED BY <2>2, <2>3 DEF IInv
<1>2. CASE NoEnd
  <2>1. Len(buf) \in Nat /\ soi \in 1..(Len(buf) - 1) /\ buf' = SubSeq(buf, soi, Len(buf))
    BY <1>2, Markers DEF NoEnd, IInv
  <2>2. /\ buf' \in Seq(1..End) /\ Len(buf') = Len(buf) - soi + 1
        /\ \A i \in 1..(Len(buf) - soi + 1) : buf'[i] = buf[soi + i - 1]
    BY <2>1, Slice DEF IInv
  <2>3. TypeOK'
    BY <1>2, <2>2 DEF NoEnd, IInv, TypeOK
  <2>4. \A i \in 1..Len(buf') : soi + i - 1 \in 1..Len(buf) /\ buf'[i] = buf[soi + i - 1]
    BY <2>1, <2>2
  <2>5. BufferInv'
    <3>1. ASSUME NEW i \in 1..Len(buf'), NEW j \in 1..Len(buf'), i < j
          PROVE  buf'[i] < buf'[j]
      <4>1. soi + i - 1 < soi + j - 1
        BY <2>1, <2>2, <3>1
      <4> QED BY <2>4, <4>1 DEF IInv, BufferInv
    <3>2. pos' = pos /\ frame' = frame
      BY <1>2 DEF NoEnd
    <3>3. \A i \in 1..Len(buf') : buf'[i] <= pos' /\ (frame # <<>> => frame[Len(frame)] < buf'[i])
      BY <2>4, <3>2 DEF IInv, BufferInv
    <3> QED BY <3>1, <3>2, <3>3 DEF IInv, BufferInv
  <2>6. BegunInv'
    BY <1>2, <2>4 DEF NoEnd, IInv, BegunInv
  <2> QED BY <2>3, <2>5, <2>6 DEF IInv
<1> QED BY <1>1, <1>2

(* The image that is cut out begins after the latest one has ended.        *)
LEMMA FoundFrame ==
  ASSUME IInv, Found
  PROVE  /\ Len(buf) \in Nat /\ soi \in 1..(Len(buf) - 1) /\ eoi \in (soi + 2)..(Len(buf) - 1)
         /\ frame' \in Seq(1..End) /\ Len(frame') = eoi - soi + 2
         /\ frame'[1] = buf[soi] /\ frame'[Len(frame')] = buf[eoi + 1]
<1>1. Len(buf) \in Nat /\ soi \in 1..(Len(buf) - 1) /\ eoi \in (soi + 2)..(Len(buf) - 1)
  BY Markers DEF Found, IInv
<1>2. frame' = SubSeq(buf, soi, eoi + 1)
  BY DEF Found
<1>3. /\ frame' \in Seq(1..End) /\ Len(frame') = eoi + 1 - soi + 1
      /\ \A i \in 1..(eoi + 1 - soi + 1) : frame'[i] = buf[soi + i - 1]
  BY <1>1, <1>2, Slice DEF IInv
<1>4. soi + 1 - 1 = soi /\ soi + (eoi - soi + 2) - 1 = eoi + 1
  BY <1>1
<1> QED BY <1>1, <1>3, <1>4

(* Hence the new image begins after the latest.                            *)
LEMMA FoundAdvances ==
  ASSUME IInv, Found, frame # <<>>
  PROVE  frame'[1] > frame[Len(frame)]
<1>1. /\ Len(buf) \in Nat /\ soi \in 1..(Len(buf) - 1) /\ frame'[1] = buf[soi]
  BY FoundFrame
<1>2. \A i \in 1..Len(buf) : frame[Len(frame)] < buf[i]
  BY DEF IInv, BufferInv
<1>3. frame[Len(frame)] \in Nat /\ soi \in 1..Len(buf) /\ buf[soi] \in Nat
  BY <1>1, Sequences, Positions DEF IInv
<1> QED BY <1>1, <1>2, <1>3

(* What is left of the buffer comes after the image cut out of it.         *)
LEMMA FoundInv ==
  ASSUME IInv, Found
  PROVE  IInv'
<1>1. /\ Len(buf) \in Nat /\ soi \in 1..(Len(buf) - 1) /\ eoi \in (soi + 2)..(Len(buf) - 1)
      /\ frame' \in Seq(1..End) /\ Len(frame') = eoi - soi + 2
      /\ frame'[1] = buf[soi] /\ frame'[Len(frame')] = buf[eoi + 1]
  BY FoundFrame
<1>2. frame' # <<>>
  BY <1>1, EmptySeq
<1>3. /\ buf' \in Seq(1..End) /\ Len(buf') = Len(buf) - (eoi + 2) + 1
      /\ \A i \in 1..(Len(buf) - (eoi + 2) + 1) : buf'[i] = buf[eoi + 2 + i - 1]
  <2>1. buf' = SubSeq(buf, eoi + 2, Len(buf))
    BY DEF Found
  <2>2. eoi + 2 \in 1..(Len(buf) + 1) /\ Len(buf) \in (eoi + 2 - 1)..Len(buf)
    BY <1>1
  <2> QED BY <1>1, <2>1, <2>2, Slice DEF IInv
<1>4. TypeOK'
  BY <1>1, <1>3 DEF Found, IInv, TypeOK, ImagesTaken
<1>5. ASSUME NEW i \in 1..Len(buf')
      PROVE  /\ eoi + 2 + i - 1 \in 1..Len(buf) /\ eoi + 1 < eoi + 2 + i - 1
             /\ buf'[i] = buf[eoi + 2 + i - 1]
  <2>1. i \in 1..(Len(buf) - (eoi + 2) + 1) /\ i \in Nat /\ i >= 1
    BY <1>1, <1>3
  <2>2. buf'[i] = buf[eoi + 2 + i - 1]
    BY <1>3, <2>1
  <2>3. Len(buf) \in Nat /\ soi \in Nat /\ eoi \in Nat
    BY <1>1
  <2>4. eoi + 2 + i - 1 \in 1..Len(buf)
    BY <2>1, <2>3
  <2>5. eoi + 1 < eoi + 2 + i - 1
    BY <2>1, <2>3
  <2> QED BY <2>2, <2>4, <2>5
<1>6. BufferInv'
  <2>1. soi \in 1..Len(buf) /\ eoi + 1 \in 1..Len(buf) /\ soi < eoi + 1
    BY <1>1
  <2>2. \A i \in 1..Len(buf) : buf[i] \in Nat
    BY <1>1, Sequences, Positions DEF IInv
  <2>3. frame'[1] <= frame'[Len(frame')] /\ frame'[Len(frame')] <= pos
    BY <1>1, <2>1, <2>2 DEF IInv, BufferInv
  <2>4. \A i \in 1..Len(buf') : frame'[Len(frame')] < buf'[i] /\ buf'[i] <= pos
    BY <1>1, <1>5, <2>1 DEF IInv, BufferInv
  <2>5. ASSUME NEW i \in 1..Len(buf'), NEW j \in 1..Len(buf'), i < j
        PROVE  buf'[i] < buf'[j]
    <3>1. eoi + 2 + i - 1 < eoi + 2 + j - 1
      BY <1>1, <1>3, <2>5
    <3> QED BY <1>5, <3>1 DEF IInv, BufferInv
  <2> QED BY <2>3, <2>4, <2>5 DEF Found, BufferInv
<1>7. BegunInv'
  BY <1>5 DEF Found, IInv, BegunInv
<1> QED BY <1>4, <1>6, <1>7 DEF IInv

(* Bytes that are lost, and those of an ffmpeg that is not running.        *)
LEMMA LossInv ==
  ASSUME IInv, EndOfFile \/ Restart \/ \E n \in 1..Chunk : Lose(n)
  PROVE  IInv'
<1>1. CASE EndOfFile
  BY <1>1, CameraAssumption DEF EndOfFile, IInv, TypeOK, BufferInv, BegunInv
<1>2. CASE Restart
  <2>1. buf' = <<>> /\ Len(buf') = 0 /\ <<>> \in Seq(1..End) /\ pos <= pos' /\ pos' \in 0..End
        /\ pos \in Nat
    BY <1>2, EmptySeq, SizeFact, CameraAssumption DEF Restart, IInv, TypeOK
  <2>2. TypeOK'
    BY <1>2, <2>1, SizeFact DEF Restart, IInv, TypeOK
  <2>3. frame # <<>> => frame[Len(frame)] \in Nat
    BY Sequences, Positions DEF IInv
  <2>4. BufferInv'
    BY <1>2, <2>1, <2>3 DEF Restart, IInv, BufferInv
  <2>5. BegunInv'
    BY <1>2, <2>1 DEF Restart, BegunInv
  <2> QED BY <2>2, <2>4, <2>5 DEF IInv
<1>3. ASSUME NEW n \in 1..Chunk, Lose(n) PROVE IInv'
  <2>1. pos' = pos + n /\ n \in Nat /\ pos \in Nat /\ pos' \in 0..End
    BY <1>3, SizeFact, CameraAssumption DEF Lose, IInv, TypeOK
  <2>2. TypeOK'
    BY <1>3, <2>1, CameraAssumption, SizeFact DEF Lose, IInv, TypeOK
  <2>3. frame # <<>> => frame[Len(frame)] \in Nat
    BY Sequences, Positions DEF IInv
  <2>4. \A i \in 1..Len(buf) : buf[i] \in Nat
    BY Sequences, Positions DEF IInv
  <2>5. BufferInv'
    BY <1>3, <2>1, <2>3, <2>4 DEF Lose, IInv, BufferInv
  <2>6. BegunInv'
    <3>1. begun' = begun /\ buf' = buf /\ begun \in Nat
      BY <1>3, SizeFact DEF Lose, IInv, TypeOK
    <3> QED BY <2>1, <3>1 DEF IInv, BegunInv
  <2> QED BY <2>2, <2>5, <2>6 DEF IInv
<1> QED BY <1>1, <1>2, <1>3

---------------------------------------------------------------------------
(* The browser.                                                            *)
LEMMA BrowserInv ==
  ASSUME IInv, Browser
  PROVE  IInv'
<1>1. TypeOK' /\ BufferInv'
  BY EmptySeq DEF Browser, Get, Load, captureVars, IInv, TypeOK, BufferInv
<1>2. BegunInv'
  BY DEF Browser, Get, Load, captureVars, IInv, BegunInv
<1> QED BY <1>1, <1>2 DEF IInv

(* Every step keeps the invariant.                                         *)
LEMMA StepInv == IInv /\ [Next]_vars => IInv'
<1> SUFFICES ASSUME IInv, [Next]_vars PROVE IInv'
  OBVIOUS
<1>1. CASE UNCHANGED vars
  BY <1>1 DEF vars, captureVars, IInv, TypeOK, BufferInv, BegunInv
<1> QED BY <1>1, ReadInv, KeepInv, FoundInv, LossInv, BrowserInv DEF Next, Capture, Scan

(* The variables keep their types: the loop never cuts outside the buffer. *)
THEOREM TypeCorrect == Spec => []TypeOK
<1>1. IInv => TypeOK
  BY DEF IInv
<1> QED BY InitInv, StepInv, <1>1, PTL DEF Spec

(* The camera's picture never goes back to an earlier image.               *)
THEOREM FramesGoForward == Spec => FramesAdvance
<1>1. IInv /\ [Next]_vars =>
        [frame' # frame => frame = <<>> \/ frame'[1] > frame[Len(frame)]]_frame
  <2> SUFFICES ASSUME IInv, [Next]_vars, frame' # frame, frame # <<>>
               PROVE  frame'[1] > frame[Len(frame)]
    OBVIOUS
  <2>1. Found
    BY DEF Next, Capture, Scan, NoStart, NoEnd, Restart, Read, Lose, EndOfFile, Browser,
           Get, Load, captureVars, vars
  <2> QED BY <2>1, FoundAdvances
<1> QED BY InitInv, StepInv, <1>1, PTL DEF Spec, FramesAdvance

(* OneStream: every image that is put into the table begins and ends in    *)
(* the stream of the ffmpeg that runs, wherever the one before was ended.  *)
THEOREM NothingGlued == Spec => OneStream
<1>1. IInv /\ [Next]_vars => [frame' # frame => frame'[1] > begun]_<<frame, begun>>
  <2> SUFFICES ASSUME IInv, [Next]_vars, frame' # frame PROVE frame'[1] > begun
    OBVIOUS
  <2>1. Found
    BY DEF Next, Capture, Scan, NoStart, NoEnd, Restart, Read, Lose, EndOfFile, Browser,
           Get, Load, captureVars, vars
  <2>2. Len(buf) \in Nat /\ soi \in 1..(Len(buf) - 1) /\ frame'[1] = buf[soi]
    BY <2>1, FoundFrame
  <2>3. begun < buf[soi] /\ begun \in Nat /\ buf[soi] \in Nat
    <3>1. soi \in 1..Len(buf)
      BY <2>2
    <3> QED BY <3>1, SizeFact, Sequences, Positions DEF IInv, TypeOK, BegunInv
  <2> QED BY <2>2, <2>3
<1> QED BY InitInv, StepInv, <1>1, PTL DEF Spec, OneStream

---------------------------------------------------------------------------
(* What is cut out of the stream: the first markers, and the bytes between *)
(* them.                                                                   *)

(* A set of numbers that is not empty has a least one.                     *)
LEMMA Least ==
  ASSUME NEW T \in SUBSET Nat, T # {}
  PROVE  \E x \in T : \A y \in T : x <= y
<1> DEFINE R == OpToRel(<, Nat)
<1>1. PICK x \in T : \A y \in T : ~ (<<y, x>> \in R)
  <2> HIDE DEF R
  <2>1. IsWellFoundedOn(R, Nat)
    BY NatLessThanWellFounded DEF R
  <2> QED BY <2>1, WFMin
<1>2. ASSUME NEW y \in T PROVE x <= y
  <2>1. ~ (y < x)
    BY <1>1 DEF OpToRel
  <2> QED BY <2>1
<1> QED BY <1>2

(* What the bytes of an image are, by their place in the stream.           *)
LEMMA Bytes ==
  ASSUME NEW k \in Nat
  PROVE  /\ Byte(5 * k + 1) = "FF" /\ Byte(5 * k + 2) = "D8" /\ Byte(5 * k + 3) = "data"
         /\ Byte(5 * k + 4) = "FF" /\ Byte(5 * k + 5) = "D9"
<1>1. ASSUME NEW j \in 0..4 PROVE Byte(5 * k + j + 1) = Marker[j + 1]
  <2>1. (5 * k + j + 1 - 1) % 5 = j
    OBVIOUS
  <2> QED BY <2>1, SizeFact DEF Byte
<1>2. /\ Byte(5 * k + 0 + 1) = Marker[0 + 1] /\ Byte(5 * k + 1 + 1) = Marker[1 + 1]
      /\ Byte(5 * k + 2 + 1) = Marker[2 + 1] /\ Byte(5 * k + 3 + 1) = Marker[3 + 1]
      /\ Byte(5 * k + 4 + 1) = Marker[4 + 1]
  BY <1>1
<1> QED BY <1>2 DEF Marker

(* A start marker whose bytes are neighbours in the stream starts an image.*)
LEMMA StartsImage ==
  ASSUME NEW b \in Nat, b >= 1, Byte(b) = "FF", Byte(b + 1) = "D8"
  PROVE  \E k \in Nat : b = 5 * k + 1
<1>1. PICK k \in Nat, j \in 0..4 : b = 5 * k + j + 1
  <2>1. (b - 1) \div 5 \in Nat /\ (b - 1) % 5 \in 0..4 /\ b = 5 * ((b - 1) \div 5) + ((b - 1) % 5) + 1
    OBVIOUS
  <2> QED BY <2>1
<1>2. b \in {5 * k + 1, 5 * k + 2, 5 * k + 3, 5 * k + 4, 5 * k + 5}
  BY <1>1
<1>3. b # 5 * k + 2 /\ b # 5 * k + 3 /\ b # 5 * k + 5
  BY Bytes
<1>4. b # 5 * k + 4
  <2>1. b = 5 * k + 4 => b + 1 = 5 * k + 5
    OBVIOUS
  <2> QED BY <2>1, Bytes
<1> QED BY <1>2, <1>3, <1>4

(* bytes.find answers with a place where the marker is, and with no later  *)
(* one than any such place.                                                *)
LEMMA FindFirst ==
  ASSUME NEW s, Len(s) \in Nat, NEW b, NEW from \in Nat \ {0}
  PROVE  /\ find(s, b, from) # 0 =>
              /\ find(s, b, from) \in from..(Len(s) - 1)
              /\ Byte(s[find(s, b, from)]) = "FF" /\ Byte(s[find(s, b, from) + 1]) = b
         /\ \A j \in from..(Len(s) - 1) :
              Byte(s[j]) = "FF" /\ Byte(s[j + 1]) = b =>
                find(s, b, from) # 0 /\ find(s, b, from) <= j
<1> DEFINE At == {i \in from..(Len(s) - 1) : Byte(s[i]) = "FF" /\ Byte(s[i + 1]) = b}
           Firsts == {i \in At : \A j \in At : i <= j}
<1>1. find(s, b, from) = IF Firsts = {} THEN 0 ELSE CHOOSE i \in Firsts : TRUE
  BY DEF find
<1>2. Firsts # {} => find(s, b, from) \in Firsts
  BY <1>1
<1>3. find(s, b, from) # 0 => find(s, b, from) \in At
  BY <1>1, <1>2
<1>4. At # {} => Firsts # {}
  <2>1. At \in SUBSET Nat
    OBVIOUS
  <2> HIDE DEF At
  <2> QED BY <2>1, Least
<1>5. \A j \in At : find(s, b, from) # 0 /\ find(s, b, from) <= j
  <2> SUFFICES ASSUME NEW j \in At
               PROVE  find(s, b, from) # 0 /\ find(s, b, from) <= j
    OBVIOUS
  <2>1. find(s, b, from) \in At /\ find(s, b, from) <= j
    BY <1>2, <1>4
  <2> QED BY <2>1
<1> QED BY <1>3, <1>5

(* The bytes in the buffer are in the order of the stream, so neighbours   *)
(* in the stream are neighbours in the buffer.                             *)
LEMMA Neighbours ==
  ASSUME IInv, NEW i \in 1..Len(buf), NEW j \in 1..Len(buf), buf[j] = buf[i] + 1
  PROVE  j = i + 1
<1>1. Len(buf) \in Nat /\ \A m \in 1..Len(buf) : buf[m] \in Nat
  BY Sequences, Positions DEF IInv
<1>2. \A m, n \in 1..Len(buf) : m < n => buf[m] < buf[n]
  BY DEF IInv, BufferInv
<1>3. i < j
  <2> SUFFICES ASSUME j <= i PROVE FALSE
    BY <1>1
  <2>1. j = i \/ buf[j] < buf[i]
    BY <1>1, <1>2
  <2> QED BY <1>1, <2>1
<1>4. ~(i + 1 < j)
  <2> SUFFICES ASSUME i + 1 < j PROVE FALSE
    OBVIOUS
  <2>1. i + 1 \in 1..Len(buf)
    BY <1>1
  <2>2. buf[i] < buf[i + 1] /\ buf[i + 1] < buf[j] /\ buf[i + 1] \in Nat /\ buf[i] \in Nat
    BY <1>1, <1>2, <2>1
  <2> QED BY <2>2
<1> QED BY <1>1, <1>3, <1>4

(* The byte at p is in the buffer.                                         *)
InBuf(p) == \E i \in 1..Len(buf) : buf[i] = p

(* Behind the first byte of the buffer nothing is missing but what was     *)
(* lost.                                                                   *)
StreamInv ==
  buf # <<>> => \A p \in 1..pos : buf[1] < p => InBuf(p) \/ p \in lost

(* The next byte of the stream is next in the buffer, if it was read and   *)
(* not lost.                                                               *)
LEMMA NextByte ==
  ASSUME IInv, StreamInv, NEW i \in 1..Len(buf), buf[i] + 1 <= pos, buf[i] + 1 \notin lost
  PROVE  i + 1 \in 1..Len(buf) /\ buf[i + 1] = buf[i] + 1
<1>1. Len(buf) \in Nat /\ \A m \in 1..Len(buf) : buf[m] \in Nat
  BY Sequences, Positions DEF IInv
<1>2. buf # <<>> /\ 1 \in 1..Len(buf) /\ pos \in Nat
  BY <1>1, EmptySeq, SizeFact DEF IInv, TypeOK
<1>3. buf[1] <= buf[i]
  <2>1. i = 1 \/ buf[1] < buf[i]
    BY <1>1, <1>2 DEF IInv, BufferInv
  <2> QED BY <1>1, <1>2, <2>1
<1>4. PICK j \in 1..Len(buf) : buf[j] = buf[i] + 1
  <2>1. buf[i] + 1 \in 1..pos /\ buf[1] < buf[i] + 1
    BY <1>1, <1>2, <1>3
  <2> QED BY <1>2, <2>1 DEF StreamInv, InBuf
<1> QED BY <1>4, Neighbours

(* The markers found are the first ones.                                  *)
LEMMA FirstMarkers ==
  ASSUME TypeOK
  PROVE  /\ soi # 0 => Byte(buf[soi]) = "FF" /\ Byte(buf[soi + 1]) = "D8"
         /\ \A j \in 1..(Len(buf) - 1) :
              Byte(buf[j]) = "FF" /\ Byte(buf[j + 1]) = "D8" => soi # 0 /\ soi <= j
         /\ soi # 0 /\ eoi # 0 => Byte(buf[eoi]) = "FF" /\ Byte(buf[eoi + 1]) = "D9"
         /\ soi # 0 => \A j \in (soi + 2)..(Len(buf) - 1) :
              Byte(buf[j]) = "FF" /\ Byte(buf[j + 1]) = "D9" => eoi # 0 /\ eoi <= j
<1>1. Len(buf) \in Nat
  BY LenProperties DEF TypeOK
<1>2. /\ find(buf, "D8", 1) # 0 =>
           Byte(buf[find(buf, "D8", 1)]) = "FF" /\ Byte(buf[find(buf, "D8", 1) + 1]) = "D8"
      /\ \A j \in 1..(Len(buf) - 1) :
           Byte(buf[j]) = "FF" /\ Byte(buf[j + 1]) = "D8" =>
             find(buf, "D8", 1) # 0 /\ find(buf, "D8", 1) <= j
  BY <1>1, FindFirst
<1>3. ASSUME NEW n \in Nat \ {0}
      PROVE  /\ find(buf, "D9", n) # 0 =>
                  Byte(buf[find(buf, "D9", n)]) = "FF" /\ Byte(buf[find(buf, "D9", n) + 1]) = "D9"
             /\ \A j \in n..(Len(buf) - 1) :
                  Byte(buf[j]) = "FF" /\ Byte(buf[j + 1]) = "D9" =>
                    find(buf, "D9", n) # 0 /\ find(buf, "D9", n) <= j
  BY <1>1, FindFirst
<1>4. soi # 0 => soi + 2 \in Nat \ {0}
  BY <1>1, Markers
<1>5. soi # 0 =>
        /\ eoi # 0 => Byte(buf[eoi]) = "FF" /\ Byte(buf[eoi + 1]) = "D9"
        /\ \A j \in (soi + 2)..(Len(buf) - 1) :
             Byte(buf[j]) = "FF" /\ Byte(buf[j + 1]) = "D9" => eoi # 0 /\ eoi <= j
  BY <1>3, <1>4 DEF eoi
<1>6. /\ soi # 0 => Byte(buf[soi]) = "FF" /\ Byte(buf[soi + 1]) = "D8"
      /\ \A j \in 1..(Len(buf) - 1) :
           Byte(buf[j]) = "FF" /\ Byte(buf[j + 1]) = "D8" => soi # 0 /\ soi <= j
  BY <1>2 DEF soi
<1> QED BY <1>5, <1>6

(* What is cut out is an image, if nothing was lost of the five bytes from *)
(* its first one on, as far as it goes.                                    *)
LEMMA WholeImage ==
  ASSUME IInv, StreamInv, Found,
         \A p \in frame'[1] .. frame'[1] + 4 : p <= frame'[Len(frame')] => p \notin lost
  PROVE  \E k \in ImagesTaken : frame' = Image(k)
<1>1. /\ Len(buf) \in Nat /\ soi \in 1..(Len(buf) - 1) /\ eoi \in (soi + 2)..(Len(buf) - 1)
      /\ frame' \in Seq(1..End) /\ Len(frame') = eoi - soi + 2
      /\ frame'[1] = buf[soi] /\ frame'[Len(frame')] = buf[eoi + 1]
  BY FoundFrame
<1>2. /\ \A m \in 1..Len(buf) : buf[m] \in Nat /\ buf[m] >= 1 /\ buf[m] <= pos
      /\ \A m, n \in 1..Len(buf) : m < n => buf[m] < buf[n]
      /\ pos \in Nat /\ pos <= End
  <2>1. pos \in Nat /\ pos <= End
    BY SizeFact DEF IInv, TypeOK
  <2>2. \A m \in 1..Len(buf) : buf[m] \in 1..End
    BY Sequences, Positions DEF IInv
  <2>3. \A m \in 1..Len(buf) : buf[m] \in Nat /\ buf[m] >= 1
    BY <2>2, SizeFact
  <2> QED BY <2>1, <2>3 DEF IInv, BufferInv
<1>3. /\ Byte(buf[soi]) = "FF" /\ Byte(buf[soi + 1]) = "D8"
      /\ \A j \in (soi + 2)..(Len(buf) - 1) :
           Byte(buf[j]) = "FF" /\ Byte(buf[j + 1]) = "D9" => eoi <= j
      /\ Byte(buf[eoi]) = "FF"
  BY FirstMarkers DEF Found, IInv
<1>4. PICK b \in Nat, e \in Nat :
        /\ b = buf[soi] /\ e = buf[eoi + 1] /\ b >= 1 /\ e <= pos
        /\ soi \in 1..Len(buf) /\ eoi + 1 \in 1..Len(buf)
  <2>1. soi \in 1..Len(buf) /\ eoi + 1 \in 1..Len(buf)
    BY <1>1
  <2>2. buf[soi] \in Nat /\ buf[soi] >= 1 /\ buf[eoi + 1] \in Nat /\ buf[eoi + 1] <= pos
    BY <1>2, <2>1
  <2> QED BY <2>1, <2>2
<1>5. \A p \in b..b + 4 : p <= e => p \notin lost
  BY <1>1, <1>4
<1>6. ASSUME NEW m \in soi..eoi
      PROVE  m + 1 \in 1..Len(buf) /\ buf[m] < buf[m + 1] /\ buf[m + 1] <= e /\ b <= buf[m]
  <2>1. m \in 1..Len(buf) /\ m + 1 \in 1..Len(buf)
    BY <1>1, <1>6
  <2>2. m + 1 = eoi + 1 \/ m + 1 < eoi + 1
    BY <1>1
  <2>3. m = soi \/ soi < m
    BY <1>1
  <2> QED BY <1>2, <1>4, <2>1, <2>2, <2>3
<1>7. ASSUME NEW m \in soi..eoi, buf[m] <= b + 3 PROVE buf[m + 1] = buf[m] + 1
  <2>1. m \in 1..Len(buf) /\ buf[m] \in Nat /\ buf[m + 1] \in Nat
    <3>1. m \in 1..Len(buf) /\ m + 1 \in 1..Len(buf)
      BY <1>1, <1>6
    <3> QED BY <1>2, <3>1
  <2>2. buf[m] < buf[m + 1] /\ buf[m + 1] <= e /\ b <= buf[m] /\ e <= pos /\ pos \in Nat
    BY <1>2, <1>4, <1>6
  <2>3. buf[m] + 1 <= e /\ buf[m] + 1 \in b..b + 4 /\ buf[m] + 1 <= pos
    BY <1>7, <2>1, <2>2
  <2> QED BY <1>5, <2>1, <2>3, NextByte
<1>8. buf[soi + 1] = b + 1 /\ buf[soi + 2] = b + 2 /\ buf[soi + 3] = b + 3
  <2>1. soi \in soi..eoi /\ soi + 1 \in soi..eoi /\ soi + 2 \in soi..eoi
    BY <1>1
  <2>2. soi + 1 + 1 = soi + 2 /\ soi + 2 + 1 = soi + 3 /\ b <= b + 3 /\ b + 1 <= b + 3 /\ b + 2 <= b + 3
    BY <1>1
  <2>3. buf[soi + 1] = b + 1
    BY <1>4, <1>7, <2>1, <2>2
  <2>4. buf[soi + 2] = b + 2
    BY <1>7, <2>1, <2>2, <2>3
  <2> QED BY <1>7, <2>1, <2>2, <2>3, <2>4
<1>9. PICK k \in Nat : b = 5 * k + 1
  BY <1>3, <1>4, <1>8, StartsImage
<1>10. Byte(b + 2) = "data" /\ Byte(b + 3) = "FF" /\ Byte(b + 4) = "D9"
  <2>1. b + 2 = 5 * k + 3 /\ b + 3 = 5 * k + 4 /\ b + 4 = 5 * k + 5
    BY <1>9
  <2> QED BY <2>1, Bytes
<1>11. eoi = soi + 3
  <2>1. eoi # soi + 2
    BY <1>3, <1>8, <1>10
  <2>2. soi + 3 \in soi..eoi /\ soi + 3 \in (soi + 2)..(Len(buf) - 1) /\ soi \in Nat
    BY <1>1, <2>1
  <2>3. soi + 3 + 1 = soi + 4 /\ b + 3 + 1 = b + 4
    BY <1>4, <2>2
  <2>4. buf[soi + 3 + 1] = b + 4
    BY <1>7, <1>8, <2>2, <2>3
  <2>5. eoi <= soi + 3
    BY <1>3, <1>8, <1>10, <2>2, <2>4
  <2> QED BY <1>1, <2>2, <2>5
<1>12. frame' = Image(k + 1) /\ k + 1 \in ImagesTaken
  <2>1. Len(frame') = 5 /\ buf[soi + 4] = b + 4 /\ soi \in Nat /\ eoi + 1 = soi + 4
    <3>1. soi \in Nat /\ soi + 3 \in soi..eoi /\ soi + 3 + 1 = soi + 4 /\ b + 3 + 1 = b + 4
      BY <1>1, <1>4, <1>11
    <3>2. buf[soi + 3 + 1] = b + 4
      BY <1>7, <1>8, <3>1
    <3> QED BY <1>1, <1>11, <3>1, <3>2
  <2>2. k + 1 \in ImagesTaken
    <3>1. 5 * k + 5 <= 5 * Images /\ Images \in Nat
      BY <1>2, <1>4, <1>9, <2>1, SizeFact, CameraAssumption
    <3> QED BY <3>1 DEF ImagesTaken
  <2>3. frame' = SubSeq(buf, soi, soi + 4)
    BY <1>11, <2>1 DEF Found
  <2>4. \A i \in 1..5 : frame'[i] = buf[soi + i - 1]
    BY <1>1, <1>11, <2>1, <2>3, Slice DEF IInv
  <2>5. ASSUME NEW i \in 1..5 PROVE buf[soi + i - 1] = 5 * k + i
    <3>1. i \in {1, 2, 3, 4, 5}
      OBVIOUS
    <3>2. /\ soi + 1 - 1 = soi /\ soi + 2 - 1 = soi + 1 /\ soi + 3 - 1 = soi + 2
          /\ soi + 4 - 1 = soi + 3 /\ soi + 5 - 1 = soi + 4
      BY <2>1
    <3>3. /\ buf[soi + 1 - 1] = 5 * k + 1 /\ buf[soi + 2 - 1] = 5 * k + 2
          /\ buf[soi + 3 - 1] = 5 * k + 3 /\ buf[soi + 4 - 1] = 5 * k + 4
          /\ buf[soi + 5 - 1] = 5 * k + 5
      <4>1. b + 1 = 5 * k + 2 /\ b + 2 = 5 * k + 3 /\ b + 3 = 5 * k + 4 /\ b + 4 = 5 * k + 5
        BY <1>9
      <4> QED BY <1>4, <1>8, <1>9, <2>1, <3>2, <4>1
    <3> QED BY <3>1, <3>3
  <2>6. frame' \in [1..5 -> 1..End]
    BY <1>1, <2>1, LenProperties
  <2>7. Image(k + 1) = [i \in 1..5 |-> 5 * k + i]
    BY SizeFact DEF Image
  <2> QED BY <2>2, <2>4, <2>5, <2>6, <2>7
<1> QED BY <1>12

(* Nothing is missing from the buffer but what was lost: what each of the  *)
(* steps that change the buffer makes of it.                               *)
LEMMA ReadStream ==
  ASSUME IInv, StreamInv, NEW n \in 1..Chunk, Read(n)
  PROVE  /\ StreamInv'
         /\ \A p \in 1..pos' : p > pos \/ InBuf(p) => InBuf(p)'
<1>1. /\ pos \in Nat /\ n \in Nat /\ n >= 1 /\ Len(buf) \in Nat
      /\ Len(buf') = Len(buf) + n
      /\ \A i \in 1..(Len(buf) + n) :
           buf'[i] = IF i <= Len(buf) THEN buf[i] ELSE pos + (i - Len(buf))
  BY ReadBuffer
<1>2. pos' = pos + n /\ lost' = lost
  BY DEF Read
<1>3. buf \in Seq(1..End)
  BY Sequences DEF IInv
<1>4. ASSUME NEW i \in 1..Len(buf) PROVE i \in 1..Len(buf') /\ buf'[i] = buf[i]
  BY <1>1
<1>5. ASSUME NEW i \in 1..n
      PROVE  Len(buf) + i \in 1..Len(buf') /\ buf'[Len(buf) + i] = pos + i
  BY <1>1
<1>6. \A p \in 1..pos' : p > pos \/ InBuf(p) => InBuf(p)'
  <2> SUFFICES ASSUME NEW p \in 1..pos', p > pos \/ InBuf(p) PROVE InBuf(p)'
    OBVIOUS
  <2>1. CASE InBuf(p)
    BY <1>4, <2>1 DEF InBuf
  <2>2. CASE p > pos
    <3>1. p - pos \in 1..n /\ pos + (p - pos) = p
      BY <1>1, <1>2, <2>2
    <3> QED BY <1>5, <3>1 DEF InBuf
  <2> QED BY <2>1, <2>2
<1>7. StreamInv'
  <2> SUFFICES ASSUME NEW p \in 1..pos', buf'[1] < p PROVE InBuf(p)' \/ p \in lost'
    BY DEF StreamInv, InBuf
  <2>1. CASE buf # <<>> /\ p <= pos
    <3>1. 1 \in 1..Len(buf) /\ p \in 1..pos
      BY <1>1, <1>2, <1>3, <2>1, Ends
    <3>2. buf[1] < p
      BY <1>4, <3>1
    <3> QED BY <1>2, <1>6, <2>1, <3>1, <3>2 DEF StreamInv
  <2>2. CASE buf = <<>>
    <3>1. Len(buf) = 0
      BY <2>2, EmptySeq
    <3>2. buf'[1] = pos + 1
      BY <1>1, <1>5, <3>1
    <3> QED BY <1>1, <1>2, <1>6, <3>2
  <2>3. CASE p > pos
    BY <1>6, <2>3
  <2> QED BY <1>1, <1>2, <2>1, <2>2, <2>3
<1> QED BY <1>6, <1>7

(* The buffer is cut: what is left is what there was from m on.            *)
LEMMA CutStream ==
  ASSUME IInv, StreamInv, NEW m \in 1..Len(buf) + 1, buf' = SubSeq(buf, m, Len(buf)),
         UNCHANGED <<pos, lost>>
  PROVE  /\ StreamInv'
         /\ \A p : (\E i \in m..Len(buf) : buf[i] = p) => InBuf(p)'
         /\ \A p : InBuf(p)' => InBuf(p)
<1>1. Len(buf) \in Nat /\ \A i \in 1..Len(buf) : buf[i] \in Nat
  BY Sequences, Positions DEF IInv
<1>2. /\ buf' \in Seq(1..End) /\ Len(buf') = Len(buf) - m + 1
      /\ \A i \in 1..(Len(buf) - m + 1) : buf'[i] = buf[m + i - 1]
  <2>1. Len(buf) \in (m - 1)..Len(buf)
    BY <1>1
  <2> QED BY <1>1, <2>1, Slice DEF IInv
<1>3. ASSUME NEW p, NEW i \in m..Len(buf), buf[i] = p PROVE InBuf(p)'
  <2>1. i - m + 1 \in 1..Len(buf') /\ m + (i - m + 1) - 1 = i
    BY <1>1, <1>2
  <2>2. buf'[i - m + 1] = p
    BY <1>2, <1>3, <2>1
  <2> QED BY <2>1, <2>2 DEF InBuf
<1>4. StreamInv'
  <2> SUFFICES ASSUME buf' # <<>>, NEW p \in 1..pos, buf'[1] < p, p \notin lost PROVE InBuf(p)'
    BY DEF StreamInv, InBuf
  <2>1. m \in 1..Len(buf) /\ buf'[1] = buf[m] /\ buf # <<>> /\ 1 \in 1..Len(buf)
    <3>1. Len(buf') >= 1
      BY <1>2, EmptySeq
    <3>2. m <= Len(buf) /\ m + 1 - 1 = m /\ 1 \in 1..(Len(buf) - m + 1)
      BY <1>1, <1>2, <3>1
    <3> QED BY <1>1, <1>2, <3>2, EmptySeq
  <2>2. buf[1] <= buf[m]
    <3>1. m = 1 \/ buf[1] < buf[m]
      BY <1>1, <2>1 DEF IInv, BufferInv
    <3> QED BY <1>1, <2>1, <3>1
  <2>3. PICK i \in 1..Len(buf) : buf[i] = p
    <3>1. buf[1] < p
      BY <1>1, <2>1, <2>2
    <3> QED BY <2>1, <3>1 DEF StreamInv, InBuf
  <2>4. m <= i
    <3> SUFFICES ASSUME i < m PROVE FALSE
      BY <1>1
    <3>1. buf[i] < buf[m]
      BY <2>1 DEF IInv, BufferInv
    <3> QED BY <1>1, <2>1, <2>3, <3>1
  <2>5. i \in m..Len(buf)
    BY <1>1, <2>4
  <2> QED BY <1>3, <2>3, <2>5
<1>5. ASSUME NEW p, InBuf(p)' PROVE InBuf(p)
  <2>1. PICK i \in 1..Len(buf') : buf'[i] = p
    BY <1>5 DEF InBuf
  <2>2. m + i - 1 \in 1..Len(buf) /\ buf[m + i - 1] = p
    BY <1>1, <1>2, <2>1
  <2> QED BY <2>2 DEF InBuf
<1> QED BY <1>3, <1>4, <1>5

(* No step makes a gap in the buffer that is not a loss.                   *)
LEMMA StepStream ==
  ASSUME IInv, StreamInv, [Next]_vars
  PROVE  StreamInv'
<1>1. CASE NoStart
  BY <1>1 DEF NoStart, StreamInv
<1>2. CASE NoEnd
  <2>1. soi \in 1..Len(buf) + 1
    BY <1>2, Markers DEF NoEnd, IInv
  <2> QED BY <1>2, <2>1, CutStream DEF NoEnd
<1>3. CASE Found
  <2>1. eoi + 2 \in 1..Len(buf) + 1
    BY <1>3, FoundFrame
  <2> QED BY <1>3, <2>1, CutStream DEF Found
<1>4. ASSUME NEW n \in 1..Chunk, Read(n) PROVE StreamInv'
  BY <1>4, ReadStream
<1>5. ASSUME NEW n \in 1..Chunk, Lose(n) PROVE StreamInv'
  <2>1. /\ pos \in Nat /\ n \in Nat /\ pos' = pos + n /\ buf' = buf
        /\ lost' = lost \cup (pos + 1)..pos'
    BY <1>5, SizeFact, CameraAssumption DEF Lose, IInv, TypeOK
  <2>2. ASSUME NEW p \in 1..pos' PROVE p \in 1..pos \/ p \in lost'
    BY <2>1
  <2> QED BY <2>1, <2>2 DEF StreamInv, InBuf
<1>6. CASE Restart
  BY <1>6 DEF Restart, StreamInv
<1>7. CASE EndOfFile \/ Browser \/ UNCHANGED vars
  BY <1>7 DEF EndOfFile, Browser, Get, Load, vars, captureVars, StreamInv, InBuf
<1> QED BY <1>1, <1>2, <1>3, <1>4, <1>5, <1>6, <1>7 DEF Next, Capture, Scan

(* The image that is cut out is a whole one, unless a part of it was lost. *)
LEMMA StepWhole ==
  ASSUME IInv, StreamInv, WholeUnlessLost, [Next]_vars
  PROVE  WholeUnlessLost'
<1>1. CASE Found
  <2> SUFFICES ASSUME lost \cap frame'[1]..frame'[Len(frame')] = {}
               PROVE  \E k \in ImagesTaken : frame' = Image(k)
    BY <1>1 DEF Found, WholeUnlessLost, ImagesTaken, Image
  <2>1. frame'[1] \in Nat /\ frame'[Len(frame')] \in Nat
    <3>1. frame' \in Seq(1..End) /\ frame' # <<>>
      BY <1>1, FoundFrame, EmptySeq
    <3> QED BY <3>1, Positions
  <2>2. \A p \in frame'[1] .. frame'[1] + 4 : p <= frame'[Len(frame')] => p \notin lost
    BY <2>1
  <2> QED BY <1>1, <2>2, WholeImage
<1>2. CASE ~Found
  <2>1. frame' = frame /\ lost \subseteq lost'
    BY <1>2 DEF Next, Capture, Scan, NoStart, NoEnd, Restart, Read, Lose, EndOfFile, Browser,
           Get, Load, captureVars, vars
  <2> QED BY <2>1 DEF WholeUnlessLost, Image, ImagesTaken
<1> QED BY <1>1, <1>2

(* They hold before anything is read.                                      *)
LEMMA InitStream == Init => StreamInv /\ WholeUnlessLost
BY DEF Init, StreamInv, WholeUnlessLost

(* WholeUnlessLost: whatever the reads cut the stream into, what           *)
(* parse_mjpeg puts into the table of latest images (camera_server.py) is  *)
(* one image of the stream, from its own start marker to its own end       *)
(* marker, unless bytes of it were lost.                                   *)
THEOREM FramesAreWhole == Spec => []WholeUnlessLost
<1>1. IInv /\ StreamInv /\ WholeUnlessLost /\ [Next]_vars => StreamInv' /\ WholeUnlessLost'
  BY StepStream, StepWhole
<1> QED BY <1>1, InitInv, StepInv, InitStream, PTL DEF Spec

---------------------------------------------------------------------------
(* What becomes of every image of the stream.                              *)
(* The place of the first byte of an image.                                *)
First(k) == Size * (k - 1) + 1

(* The bytes of image k that have gone past are in the buffer.             *)
InBuffer(k) == \A p \in First(k) .. (Size * k) : p <= pos => InBuf(p)
(* Bytes of the image, or of the end marker before it, were lost.          *)
LostAt(k) == lost \cap (Size * (k - 1) - 1)..(Size * k) # {}

(* An image is taken, or it is excused, or all of it that has gone past is *)
(* in the buffer; and between two reads no image is in the buffer as a     *)
(* whole. A start marker cut in two is one of which the first byte alone   *)
(* has gone past.                                                          *)
KeptInv ==
  /\ \A k \in ImagesTaken : k \in whole \cup split \/ LostAt(k) \/ InBuffer(k)
  /\ \A k \in ImagesTaken : pos = First(k) => k \in split \/ pos \in lost
  /\ pc # "scan" => \A k \in ImagesTaken : Size * k <= pos => ~InBuffer(k)

(* The places of the bytes of image k, counted from its last one.          *)
LEMMA ImageNumbers ==
  ASSUME NEW k \in ImagesTaken
  PROVE  /\ k \in Nat /\ k - 1 \in Nat /\ 5 * (k - 1) + 1 = 5 * k - 4
         /\ First(k) = 5 * k - 4 /\ Size * k = 5 * k /\ Size * (k - 1) - 1 = 5 * k - 6
         /\ 5 * k <= End
         /\ Byte(5 * k - 6) = "FF" \/ k = 1
         /\ Byte(5 * k - 5) = "D9" \/ k = 1
         /\ Byte(5 * k - 4) = "FF" /\ Byte(5 * k - 3) = "D8" /\ Byte(5 * k - 2) = "data"
         /\ Byte(5 * k - 1) = "FF" /\ Byte(5 * k) = "D9"
<1>1. k \in Nat /\ k - 1 \in Nat /\ k <= Images /\ Images \in Nat
  BY CameraAssumption DEF ImagesTaken
<1>2. /\ 5 * (k - 1) + 1 = 5 * k - 4 /\ 5 * (k - 1) + 2 = 5 * k - 3 /\ 5 * (k - 1) + 3 = 5 * k - 2
      /\ 5 * (k - 1) + 4 = 5 * k - 1 /\ 5 * (k - 1) + 5 = 5 * k
  BY <1>1
<1>3. /\ Byte(5 * k - 4) = "FF" /\ Byte(5 * k - 3) = "D8" /\ Byte(5 * k - 2) = "data"
      /\ Byte(5 * k - 1) = "FF" /\ Byte(5 * k) = "D9"
  <2>1. /\ Byte(5 * (k - 1) + 1) = "FF" /\ Byte(5 * (k - 1) + 2) = "D8"
        /\ Byte(5 * (k - 1) + 3) = "data" /\ Byte(5 * (k - 1) + 4) = "FF"
        /\ Byte(5 * (k - 1) + 5) = "D9"
    BY <1>1, Bytes
  <2> QED BY <1>2, <2>1
<1>4. k # 1 => Byte(5 * k - 6) = "FF" /\ Byte(5 * k - 5) = "D9"
  <2> SUFFICES ASSUME k # 1 PROVE Byte(5 * k - 6) = "FF" /\ Byte(5 * k - 5) = "D9"
    OBVIOUS
  <2>1. k - 2 \in Nat /\ 5 * (k - 2) + 4 = 5 * k - 6 /\ 5 * (k - 2) + 5 = 5 * k - 5
    BY <1>1
  <2> QED BY <2>1, Bytes
<1>5. First(k) = 5 * k - 4 /\ Size * k = 5 * k /\ Size * (k - 1) - 1 = 5 * k - 6 /\ 5 * k <= End
  BY <1>1, <1>2, SizeFact DEF First
<1> QED BY <1>1, <1>2, <1>3, <1>4, <1>5

(* An image in the buffer has a place there, and the loop finds its start  *)
(* marker or an earlier one.                                               *)
LEMMA ImagePlace ==
  ASSUME IInv, NEW k \in ImagesTaken, InBuffer(k), 5 * k - 3 <= pos
  PROVE  \E i \in 1..(Len(buf) - 1) :
           /\ buf[i] = 5 * k - 4 /\ buf[i + 1] = 5 * k - 3
           /\ soi # 0 /\ soi <= i
           /\ 5 * k <= pos =>
                i + 4 <= Len(buf) /\ Byte(buf[i + 3]) = "FF" /\ Byte(buf[i + 4]) = "D9"
<1>1. k \in Nat /\ pos \in Nat /\ Len(buf) \in Nat
  BY ImageNumbers, SizeFact, Sequences, Positions DEF IInv, TypeOK
<1>2. \A p \in (5 * k - 4)..(5 * k) : p <= pos => InBuf(p)
  BY ImageNumbers DEF InBuffer
<1>3. PICK i \in 1..Len(buf) : buf[i] = 5 * k - 4
  <2>1. 5 * k - 4 \in (5 * k - 4)..(5 * k) /\ 5 * k - 4 <= pos
    BY <1>1
  <2> QED BY <1>2, <2>1 DEF InBuf
<1>4. i + 1 \in 1..Len(buf) /\ buf[i + 1] = 5 * k - 3
  <2>1. 5 * k - 3 \in (5 * k - 4)..(5 * k) /\ 5 * k - 4 + 1 = 5 * k - 3
    BY <1>1
  <2>2. PICK j \in 1..Len(buf) : buf[j] = 5 * k - 3
    BY <1>2, <2>1 DEF InBuf
  <2> QED BY <1>3, <2>1, <2>2, Neighbours
<1>5. i \in 1..(Len(buf) - 1) /\ soi # 0 /\ soi <= i
  <2>1. i \in 1..(Len(buf) - 1)
    BY <1>1, <1>4
  <2> QED BY <1>3, <1>4, <2>1, ImageNumbers, FirstMarkers DEF IInv
<1>6. ASSUME 5 * k <= pos
      PROVE  i + 4 <= Len(buf) /\ Byte(buf[i + 3]) = "FF" /\ Byte(buf[i + 4]) = "D9"
  <2>1. /\ 5 * k - 2 \in (5 * k - 4)..(5 * k) /\ 5 * k - 1 \in (5 * k - 4)..(5 * k)
        /\ 5 * k \in (5 * k - 4)..(5 * k) /\ 5 * k - 2 <= pos /\ 5 * k - 1 <= pos
        /\ 5 * k - 3 + 1 = 5 * k - 2 /\ 5 * k - 2 + 1 = 5 * k - 1 /\ 5 * k - 1 + 1 = 5 * k
    BY <1>1, <1>6
  <2>2. PICK j2 \in 1..Len(buf) : buf[j2] = 5 * k - 2
    BY <1>2, <2>1 DEF InBuf
  <2>3. PICK j3 \in 1..Len(buf) : buf[j3] = 5 * k - 1
    BY <1>2, <2>1 DEF InBuf
  <2>4. PICK j4 \in 1..Len(buf) : buf[j4] = 5 * k
    BY <1>2, <1>6, <2>1 DEF InBuf
  <2>5. j2 = i + 1 + 1 /\ j3 = j2 + 1 /\ j4 = j3 + 1
    BY <1>4, <2>1, <2>2, <2>3, <2>4, Neighbours
  <2>6. i + 3 = j3 /\ i + 4 = j4 /\ i + 4 <= Len(buf)
    BY <1>1, <2>5
  <2> QED BY <2>3, <2>4, <2>6, ImageNumbers
<1> QED BY <1>3, <1>4, <1>5, <1>6

(* Of an image that comes after what is kept from m on, everything is kept.*)
LEMMA KeptFrom ==
  ASSUME IInv, StreamInv, NEW m \in 1..Len(buf) + 1, buf' = SubSeq(buf, m, Len(buf)),
         UNCHANGED <<pos, lost>>, NEW k \in ImagesTaken, InBuffer(k),
         NEW i \in 1..Len(buf), m <= i, buf[i] = 5 * k - 4
  PROVE  InBuffer(k)'
<1> SUFFICES ASSUME NEW p \in (5 * k - 4)..(5 * k), p <= pos PROVE InBuf(p)'
  BY ImageNumbers DEF InBuffer, First
<1>1. k \in Nat /\ Len(buf) \in Nat /\ \A j \in 1..Len(buf) : buf[j] \in Nat
  BY ImageNumbers, Sequences, Positions DEF IInv
<1>2. PICK j \in 1..Len(buf) : buf[j] = p
  BY ImageNumbers DEF InBuffer, InBuf
<1>3. i <= j
  <2> SUFFICES ASSUME j < i PROVE FALSE
    BY <1>1
  <2>1. buf[j] < buf[i]
    BY DEF IInv, BufferInv
  <2> QED BY <1>1, <1>2, <2>1
<1>4. j \in m..Len(buf)
  BY <1>1, <1>3
<1> QED BY <1>2, <1>4, CutStream

(* An image that has not come further than its first byte.                 *)
LEMMA NotYet ==
  ASSUME IInv, KeptInv, NEW k \in ImagesTaken, pos <= 5 * k - 4, UNCHANGED <<pos, lost, split>>
  PROVE  k \in split' \/ LostAt(k)' \/ InBuffer(k)'
<1>1. k \in Nat /\ pos \in Nat
  BY ImageNumbers, SizeFact DEF IInv, TypeOK
<1>2. CASE pos = 5 * k - 4
  <2>1. pos = First(k) /\ pos \in (Size * (k - 1) - 1)..(Size * k)
    BY <1>1, <1>2, ImageNumbers
  <2> QED BY <2>1 DEF KeptInv, LostAt
<1>3. CASE pos < 5 * k - 4
  <2>1. \A p \in First(k)..(Size * k) : ~(p <= pos)
    BY <1>1, <1>3, ImageNumbers
  <2> QED BY <2>1 DEF InBuffer
<1> QED BY <1>1, <1>2, <1>3

(* The place in the stream is a number.                                    *)
LEMMA PositionNat == IInv => pos \in Nat
BY SizeFact DEF IInv, TypeOK

(* Nothing is kept: there was no image in the buffer.                      *)
LEMMA NoStartKept ==
  ASSUME IInv, KeptInv, NoStart
  PROVE  KeptInv'
<1>1. UNCHANGED <<pos, lost, split, whole>> /\ buf' = <<>> /\ soi = 0
  BY DEF NoStart
<1>2. ASSUME NEW k \in ImagesTaken PROVE k \in whole' \cup split' \/ LostAt(k)' \/ InBuffer(k)'
  <2>1. CASE k \in whole \cup split \/ LostAt(k)
    BY <1>1, <2>1 DEF LostAt, Size, Marker
  <2>2. CASE InBuffer(k)
    <3>1. ~(5 * k - 3 <= pos)
      BY <1>1, <2>2, ImagePlace
    <3>2. pos <= 5 * k - 4
      BY <3>1, ImageNumbers, PositionNat
    <3> QED BY <1>1, <3>2, NotYet
  <2> QED BY <2>1, <2>2 DEF KeptInv
<1>3. ASSUME NEW k \in ImagesTaken, Size * k <= pos PROVE ~InBuffer(k)'
  <2>1. Size * k \in First(k)..(Size * k)
    BY ImageNumbers
  <2>2. Len(buf') = 0
    BY <1>1, EmptySeq
  <2> QED BY <1>1, <1>3, <2>1, <2>2 DEF InBuffer, InBuf, First, Size, Marker
<1> QED BY <1>1, <1>2, <1>3 DEF KeptInv, First, Size, Marker, ImagesTaken

(* No end marker is there: no image as a whole was in the buffer, and what *)
(* is kept is all of an image that has begun.                              *)
LEMMA NoEndKept ==
  ASSUME IInv, StreamInv, KeptInv, NoEnd
  PROVE  KeptInv'
<1>1. /\ UNCHANGED <<pos, lost, split, whole>> /\ buf' = SubSeq(buf, soi, Len(buf))
      /\ soi # 0 /\ eoi = 0
  BY DEF NoEnd
<1>2. soi \in 1..(Len(buf) - 1) /\ Len(buf) \in Nat
  BY <1>1, Markers DEF IInv
<1>3. soi \in 1..Len(buf) + 1
  BY <1>2
<1>4. ASSUME NEW k \in ImagesTaken PROVE k \in whole' \cup split' \/ LostAt(k)' \/ InBuffer(k)'
  <2>1. CASE k \in whole \cup split \/ LostAt(k)
    BY <1>1, <2>1 DEF LostAt, Size, Marker
  <2>2. CASE InBuffer(k) /\ 5 * k - 3 <= pos
    <3>1. PICK i \in 1..(Len(buf) - 1) : buf[i] = 5 * k - 4 /\ soi <= i
      BY <2>2, ImagePlace
    <3>2. i \in 1..Len(buf)
      BY <1>2
    <3> QED BY <1>1, <1>3, <2>2, <3>1, <3>2, KeptFrom
  <2>3. CASE ~(5 * k - 3 <= pos)
    <3>1. pos <= 5 * k - 4
      BY <2>3, ImageNumbers, PositionNat
    <3> QED BY <1>1, <3>1, NotYet
  <2> QED BY <2>1, <2>2, <2>3 DEF KeptInv
<1>5. ASSUME NEW k \in ImagesTaken, Size * k <= pos, InBuffer(k)' PROVE FALSE
  <2>1. InBuffer(k)
    BY <1>1, <1>3, <1>5, CutStream DEF InBuffer, First, Size, Marker
  <2>2. 5 * k <= pos /\ 5 * k - 3 <= pos
    BY <1>5, ImageNumbers, PositionNat
  <2>3. PICK i \in 1..(Len(buf) - 1) :
          /\ soi <= i /\ i + 4 <= Len(buf)
          /\ Byte(buf[i + 3]) = "FF" /\ Byte(buf[i + 4]) = "D9"
    BY <2>1, <2>2, ImagePlace
  <2>4. i + 3 \in (soi + 2)..(Len(buf) - 1) /\ i + 3 + 1 = i + 4
    BY <1>2, <2>3
  <2> QED BY <1>1, <2>3, <2>4, FirstMarkers DEF IInv
<1> QED BY <1>1, <1>4, <1>5 DEF KeptInv, First, Size, Marker, ImagesTaken

(* The bytes of the buffer are in the order of the stream.                 *)
LEMMA InOrder ==
  ASSUME IInv, NEW i \in 1..Len(buf), NEW j \in 1..Len(buf), buf[i] < buf[j]
  PROVE  i < j
<1>1. Len(buf) \in Nat /\ buf[i] \in Nat /\ buf[j] \in Nat
  BY Sequences, Positions DEF IInv
<1> SUFFICES ASSUME j <= i PROVE FALSE
  BY <1>1
<1>2. j = i \/ buf[j] < buf[i]
  BY <1>1 DEF IInv, BufferInv
<1> QED BY <1>1, <1>2

(* The image that is cut out begins before image k: it ends before it, too.*)
LEMMA CutBefore ==
  ASSUME IInv, StreamInv, Found, NEW k \in ImagesTaken, ~LostAt(k), 5 * k - 4 <= pos,
         NEW i \in 1..(Len(buf) - 1), buf[i] = 5 * k - 4, soi < i
  PROVE  eoi + 2 <= i
<1>1. /\ Len(buf) \in Nat /\ soi \in 1..(Len(buf) - 1) /\ eoi \in Nat /\ i \in 1..Len(buf)
      /\ soi # 0 /\ i \in Nat /\ soi \in Nat
  <2>1. Len(buf) \in Nat /\ soi \in 1..(Len(buf) - 1) /\ eoi \in (soi + 2)..(Len(buf) - 1)
    BY FoundFrame
  <2>2. soi # 0
    BY DEF Found
  <2> QED BY <2>1, <2>2
<1>2. /\ \A m \in 1..Len(buf) : buf[m] \in Nat /\ buf[m] >= 1
      /\ \A m, n \in 1..Len(buf) : m < n => buf[m] < buf[n]
      /\ k \in Nat /\ pos \in Nat /\ 1 \in 1..Len(buf) /\ buf # <<>>
  <2>1. \A m \in 1..Len(buf) : buf[m] \in 1..End /\ buf[m] \in Nat
    BY Sequences, Positions DEF IInv
  <2>2. \A m, n \in 1..Len(buf) : m < n => buf[m] < buf[n]
    BY DEF IInv, BufferInv
  <2>3. k \in Nat /\ pos \in Nat
    BY ImageNumbers, PositionNat
  <2>4. 1 \in 1..Len(buf) /\ buf # <<>>
    BY <1>1, EmptySeq
  <2> QED BY <2>1, <2>2, <2>3, <2>4
<1>3. Byte(buf[soi + 1]) = "D8" /\ Byte(buf[i]) = "FF"
  BY <1>1, FirstMarkers, ImageNumbers DEF IInv
<1>4. soi + 1 < i /\ soi + 1 \in 1..Len(buf) /\ soi \in 1..Len(buf)
  <2>1. soi + 1 # i
    BY <1>3
  <2> QED BY <1>1, <2>1
<1>5. /\ buf[soi] < buf[soi + 1] /\ buf[soi + 1] < 5 * k - 4 /\ buf[1] <= buf[soi + 1]
      /\ buf[soi + 1] \in Nat /\ buf[soi] >= 1 /\ buf[soi] \in Nat
  <2>1. soi < soi + 1 /\ 1 < soi + 1
    BY <1>1
  <2> QED BY <1>2, <1>4, <2>1
<1>6. k # 1 /\ 5 * k - 6 \in Nat /\ 5 * k - 5 \in Nat
  BY <1>2, <1>5
<1>7. Byte(5 * k - 6) = "FF" /\ Byte(5 * k - 5) = "D9"
  BY <1>6, ImageNumbers
<1>8. buf[soi + 1] < 5 * k - 6
  <2>1. buf[soi + 1] # 5 * k - 6 /\ buf[soi + 1] # 5 * k - 5
    BY <1>3, <1>7
  <2>2. k \in Nat /\ buf[soi + 1] \in Nat /\ buf[soi + 1] < 5 * k - 4
    BY <1>2, <1>5
  <2> QED BY <2>1, <2>2
<1>9. 5 * k - 6 \notin lost /\ 5 * k - 5 \notin lost
  <2>1. 5 * k - 6 \in (5 * k - 6)..(5 * k) /\ 5 * k - 5 \in (5 * k - 6)..(5 * k)
    BY <1>2
  <2> QED BY <2>1, ImageNumbers DEF LostAt
<1>10. InBuf(5 * k - 6) /\ InBuf(5 * k - 5)
  <2>1. /\ 5 * k - 6 \in 1..pos /\ 5 * k - 5 \in 1..pos
        /\ buf[1] < 5 * k - 6 /\ buf[1] < 5 * k - 5
    BY <1>2, <1>5, <1>6, <1>8
  <2> QED BY <1>2, <1>9, <2>1 DEF StreamInv
<1>11. PICK m \in 1..Len(buf), n \in 1..Len(buf) : buf[m] = 5 * k - 6 /\ buf[n] = 5 * k - 5
  BY <1>10 DEF InBuf
<1>12. n = m + 1 /\ i = n + 1
  <2>1. 5 * k - 6 + 1 = 5 * k - 5 /\ 5 * k - 5 + 1 = 5 * k - 4
    BY <1>2
  <2> QED BY <1>1, <1>11, <2>1, Neighbours
<1>13. soi + 1 < m
  BY <1>4, <1>8, <1>11, InOrder
<1>14. m \in (soi + 2)..(Len(buf) - 1)
  BY <1>1, <1>11, <1>12, <1>13
<1>15. eoi <= m
  BY <1>1, <1>7, <1>11, <1>12, <1>14, FirstMarkers DEF IInv
<1> QED BY <1>1, <1>11, <1>12, <1>15

(* An image is cut out: it is image k itself, or one that ends before it.  *)
LEMMA FoundKept ==
  ASSUME IInv, StreamInv, KeptInv, Found
  PROVE  KeptInv'
<1>1. /\ UNCHANGED <<pc, pos, lost, split>> /\ buf' = SubSeq(buf, eoi + 2, Len(buf))
      /\ whole' = whole \cup {k \in ImagesTaken : frame' = Image(k)}
      /\ pc = "scan"
  BY DEF Found
<1>2. /\ Len(buf) \in Nat /\ soi \in 1..(Len(buf) - 1) /\ eoi \in (soi + 2)..(Len(buf) - 1)
      /\ frame'[1] = buf[soi]
  BY FoundFrame
<1>3. eoi + 2 \in 1..Len(buf) + 1
  BY <1>2
<1>4. ASSUME NEW k \in ImagesTaken PROVE k \in whole' \cup split' \/ LostAt(k)' \/ InBuffer(k)'
  <2>1. CASE k \in whole \cup split \/ LostAt(k)
    BY <1>1, <2>1 DEF LostAt, Size, Marker
  <2>2. CASE InBuffer(k) /\ 5 * k - 3 <= pos /\ ~LostAt(k)
    <3>1. PICK i \in 1..(Len(buf) - 1) : buf[i] = 5 * k - 4 /\ soi <= i
      BY <2>2, ImagePlace
    <3>2. i \in 1..Len(buf) /\ 5 * k - 4 <= pos /\ k \in Nat /\ (soi = i \/ soi < i)
      <4>1. k \in Nat /\ pos \in Nat
        BY ImageNumbers, PositionNat
      <4> QED BY <1>2, <2>2, <3>1, <4>1
    <3>3. CASE soi = i
      <4>1. frame'[1] = 5 * k - 4 /\ 5 * k - 4 + 4 = 5 * k
        BY <1>2, <3>1, <3>2, <3>3
      <4>2. ASSUME NEW p \in (5 * k - 4)..(5 * k) PROVE p \notin lost
        <5>1. p \in (5 * k - 6)..(5 * k)
          BY <3>2
        <5> QED BY <2>2, <5>1, ImageNumbers DEF LostAt
      <4>3. PICK j \in ImagesTaken : frame' = Image(j)
        BY <4>1, <4>2, WholeImage
      <4>4. Image(j)[1] = 5 * (j - 1) + 1
        BY SizeFact DEF Image
      <4>5. j = k
        <5>1. 5 * (j - 1) + 1 = 5 * j - 4 /\ j \in Nat
          BY ImageNumbers
        <5> QED BY <3>2, <4>1, <4>3, <4>4, <5>1
      <4> QED BY <1>1, <4>3, <4>5
    <3>4. CASE soi < i
      <4>1. eoi + 2 <= i
        BY <2>2, <3>1, <3>2, <3>4, CutBefore
      <4> QED BY <1>1, <1>3, <2>2, <3>1, <3>2, <4>1, KeptFrom
    <3> QED BY <3>2, <3>3, <3>4
  <2>3. CASE ~(5 * k - 3 <= pos)
    <3>1. pos <= 5 * k - 4
      BY <2>3, ImageNumbers, PositionNat
    <3> QED BY <1>1, <3>1, NotYet
  <2> QED BY <2>1, <2>2, <2>3 DEF KeptInv
<1> QED BY <1>1, <1>4 DEF KeptInv, First, Size, Marker, ImagesTaken

(* What a read brings is in the buffer, or the read ends between the two   *)
(* bytes of a start marker.                                                *)
LEMMA ReadKept ==
  ASSUME IInv, StreamInv, KeptInv, NEW n \in 1..Chunk, Read(n)
  PROVE  KeptInv'
<1>1. /\ UNCHANGED <<lost, whole>> /\ pc' = "scan" /\ pos' = pos + n
      /\ split' = split \cup {k \in ImagesTaken : pos' = Image(k)[1]}
      /\ n \in Nat /\ pos \in Nat
  BY ReadBuffer DEF Read
<1>2. ASSUME NEW k \in ImagesTaken PROVE k \in whole' \cup split' \/ LostAt(k)' \/ InBuffer(k)'
  <2>1. CASE k \in whole \cup split \/ LostAt(k)
    BY <1>1, <2>1 DEF LostAt, Size, Marker
  <2>2. CASE InBuffer(k)
    <3>1. ASSUME NEW p \in (5 * k - 4)..(5 * k), p <= pos' PROVE InBuf(p)'
      <4>1. p \in 1..pos' /\ p \in Nat
        BY <3>1, ImageNumbers
      <4>2. p > pos \/ InBuf(p)
        BY <1>1, <2>2, <4>1, ImageNumbers DEF InBuffer
      <4> QED BY <4>1, <4>2, ReadStream
    <3> QED BY <3>1, ImageNumbers DEF InBuffer, First
  <2> QED BY <2>1, <2>2 DEF KeptInv
<1>3. ASSUME NEW k \in ImagesTaken, pos' = First(k) PROVE k \in split'
  <2>1. Image(k)[1] = First(k)
    BY SizeFact DEF Image, First
  <2> QED BY <1>1, <1>3, <2>1
<1> QED BY <1>1, <1>2, <1>3 DEF KeptInv, First, Size, Marker, ImagesTaken

(* A loss excuses the images it is of, and takes nothing from the buffer.  *)
LEMMA LoseKept ==
  ASSUME IInv, KeptInv, NEW n \in 1..Chunk, Lose(n)
  PROVE  KeptInv'
<1>1. /\ UNCHANGED <<pc, buf, split, whole>> /\ pos' = pos + n
      /\ lost' = lost \cup (pos + 1)..pos'
      /\ n \in Nat /\ n >= 1 /\ pos \in Nat
  BY SizeFact, CameraAssumption DEF Lose, IInv, TypeOK
<1>2. ASSUME NEW p \in Nat, p <= pos' PROVE p <= pos \/ p \in lost'
  BY <1>1, <1>2
<1>3. ASSUME NEW k \in ImagesTaken PROVE k \in whole' \cup split' \/ LostAt(k)' \/ InBuffer(k)'
  <2>1. CASE k \in whole \cup split \/ LostAt(k)
    BY <1>1, <2>1 DEF LostAt, Size, Marker
  <2>2. CASE InBuffer(k)
    <3> SUFFICES ASSUME ~LostAt(k)', NEW p \in (5 * k - 4)..(5 * k), p <= pos' PROVE InBuf(p)'
      BY ImageNumbers DEF InBuffer, First
    <3>1. p \in Nat /\ p \in (5 * k - 6)..(5 * k)
      BY ImageNumbers
    <3>2. p \notin lost'
      BY <3>1, ImageNumbers, SizeFact DEF LostAt
    <3>3. InBuf(p)
      BY <1>2, <2>2, <3>1, <3>2, ImageNumbers DEF InBuffer
    <3> QED BY <1>1, <3>3 DEF InBuf
  <2> QED BY <2>1, <2>2 DEF KeptInv
<1>4. ASSUME NEW k \in ImagesTaken, pos' = First(k) PROVE pos' \in lost'
  BY <1>1
<1>5. ASSUME NEW k \in ImagesTaken, pc' # "scan", Size * k <= pos', InBuffer(k)' PROVE FALSE
  <2>1. InBuf(5 * k)
    <3>1. 5 * k \in (5 * k - 4)..(5 * k)
      BY ImageNumbers
    <3> QED BY <1>1, <1>5, <3>1, ImageNumbers, SizeFact DEF InBuffer, InBuf, First
  <2>2. 5 * k <= pos
    BY <2>1 DEF InBuf, IInv, BufferInv
  <2>3. InBuffer(k)
    <3> SUFFICES ASSUME NEW p \in (5 * k - 4)..(5 * k), p <= pos PROVE InBuf(p)
      BY ImageNumbers DEF InBuffer
    <3>1. p <= pos'
      BY <1>1, ImageNumbers
    <3> QED BY <1>1, <1>5, <3>1, ImageNumbers, SizeFact DEF InBuffer, InBuf, First
  <2> QED BY <1>1, <1>5, <2>2, <2>3, ImageNumbers DEF KeptInv
<1> QED BY <1>1, <1>3, <1>4, <1>5 DEF KeptInv, First, Size, Marker, ImagesTaken

(* A new ffmpeg starts with a new image: the one that had begun is lost.   *)
LEMMA RestartKept ==
  ASSUME IInv, KeptInv, Restart
  PROVE  KeptInv'
<1>1. /\ UNCHANGED <<split, whole>> /\ buf' = <<>> /\ pc # "scan" /\ pos <= pos'
      /\ lost' = lost \cup (pos + 1)..pos'
      /\ pos \in Nat /\ pos' \in Nat
  BY SizeFact, CameraAssumption DEF Restart, IInv, TypeOK
<1>2. PICK j \in Nat : pos' = 5 * j
  BY SizeFact DEF Restart
<1>3. ASSUME NEW k \in ImagesTaken PROVE k \in whole' \cup split' \/ LostAt(k)' \/ InBuffer(k)'
  <2>1. CASE k \in whole \cup split \/ LostAt(k)
    BY <1>1, <2>1 DEF LostAt, Size, Marker
  <2>2. CASE InBuffer(k) /\ 5 * k - 4 <= pos'
    <3>1. k \in Nat /\ 5 * k <= pos'
      BY <1>2, <2>2, ImageNumbers
    <3>2. ~(5 * k <= pos)
      BY <1>1, <2>2, ImageNumbers DEF KeptInv
    <3>3. 5 * k \in lost' /\ 5 * k \in (5 * k - 6)..(5 * k)
      BY <1>1, <3>1, <3>2
    <3> QED BY <3>3, ImageNumbers, SizeFact DEF LostAt
  <2>3. CASE ~(5 * k - 4 <= pos')
    <3>1. \A p \in (5 * k - 4)..(5 * k) : ~(p <= pos')
      BY <1>1, <2>3, ImageNumbers
    <3> QED BY <3>1, ImageNumbers DEF InBuffer, First
  <2> QED BY <2>1, <2>2, <2>3 DEF KeptInv
<1>4. ASSUME NEW k \in ImagesTaken PROVE pos' # First(k)
  <2>1. k \in Nat /\ First(k) = 5 * k - 4
    BY ImageNumbers
  <2> QED BY <1>2, <2>1
<1>5. ASSUME NEW k \in ImagesTaken, Size * k <= pos' PROVE ~InBuffer(k)'
  <2>1. Size * k \in First(k)..(Size * k)
    BY ImageNumbers
  <2>2. Len(buf') = 0
    BY <1>1, EmptySeq
  <2> QED BY <1>1, <1>5, <2>1, <2>2 DEF InBuffer, InBuf, First, Size, Marker
<1> QED BY <1>1, <1>3, <1>4, <1>5 DEF KeptInv, First, Size, Marker, ImagesTaken

(* Every step keeps the account.                                           *)
LEMMA StepKept ==
  ASSUME IInv, StreamInv, KeptInv, [Next]_vars
  PROVE  KeptInv'
<1>1. CASE EndOfFile \/ Browser \/ UNCHANGED vars
  BY <1>1 DEF EndOfFile, Browser, Get, Load, vars, captureVars, KeptInv, InBuffer, InBuf, LostAt,
     First, Size, Marker, ImagesTaken
<1> QED BY <1>1, NoStartKept, NoEndKept, FoundKept, ReadKept, LoseKept, RestartKept
        DEF Next, Capture, Scan

(* Nothing has gone past.                                                  *)
LEMMA InitKept == Init => KeptInv
<1> SUFFICES ASSUME Init, NEW k \in ImagesTaken
             PROVE  InBuffer(k) /\ pos # First(k) /\ ~(Size * k <= pos)
  BY DEF KeptInv
<1>1. pos = 0 /\ k \in Nat /\ k >= 1
  BY ImageNumbers DEF Init, ImagesTaken
<1>2. \A p \in (5 * k - 4)..(5 * k) : ~(p <= pos)
  BY <1>1
<1> QED BY <1>1, <1>2, ImageNumbers DEF InBuffer

(* MissedForCause: between two reads, every image that has gone past was   *)
(* put into the table as a whole by parse_mjpeg, but for those whose start *)
(* marker a read cut in two, and those of which, or of the end marker just *)
(* before which, bytes were lost.                                          *)
THEOREM MissedOnlyForCause == Spec => []MissedForCause
<1>1. KeptInv => MissedForCause
  BY DEF KeptInv, MissedForCause, LostAt
<1>2. IInv /\ StreamInv /\ KeptInv /\ [Next]_vars => StreamInv' /\ KeptInv'
  BY StepStream, StepKept
<1> QED BY <1>1, <1>2, InitInv, StepInv, InitStream, InitKept, PTL DEF Spec
=============================================================================
