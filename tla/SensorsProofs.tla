---------------------------- MODULE SensorsProofs ----------------------------
(***************************************************************************)
(* Proofs about Sensors, for every number of requests, short packets and   *)
(* polls: sensor_data implements LatestValue, and lags no further behind   *)
(* than the rounds that brought no state.                                  *)
(***************************************************************************)
EXTENDS Sensors, TLAPS, SequenceTheorems

(* The states on their way and those in the socket are of different        *)
(* requests, in their order, later than the one that is held.              *)
OrderInv ==
  /\ sensor.stamp <= sent
  /\ \A i \in 1..Len(queue) : queue[i] # Short => sensor.stamp < queue[i] /\ queue[i] <= sent
  /\ \A i, j \in 1..Len(queue) :
       i < j /\ queue[i] # Short /\ queue[j] # Short => queue[i] < queue[j]
  /\ \A i \in 1..Len(net) : sensor.stamp < net[i] /\ net[i] <= sent
  /\ \A i, j \in 1..Len(net) : i < j => net[i] < net[j]
  /\ \A i \in 1..Len(queue), j \in 1..Len(net) : queue[i] < net[j]

(* A request under way is one more that may be missed.  A timeout is no    *)
(* longer counted once the numbers are used, but nothing is live then      *)
(* until the next state.                                                   *)
LagInv ==
  /\ sent - sensor.stamp <= missed + 1
  /\ pc # "recv" /\ (sensor.connected \/ sent < MaxSent) => sent - sensor.stamp <= missed

IInv == TypeOK /\ OrderInv /\ LagInv

(* Nothing has been sent or received.                                      *)
LEMMA InitInv == Init => IInv
<1> SUFFICES ASSUME Init PROVE IInv
  OBVIOUS
<1>1. MaxSent \in Nat /\ MaxShort \in Nat
  BY SensorsAssumption
<1>2. /\ net \in Seq(Stamps \ {Short}) /\ queue \in Seq(Stamps) /\ Len(net) = 0 /\ Len(queue) = 0
      /\ polls \in Seq([stamp : Stamps, connected : BOOLEAN])
  BY EmptySeq DEF Init
<1>3. TypeOK
  <2>1. 0 \in Stamps /\ 0 \in 0..MaxShort /\ 0 \in Nat
    BY <1>1 DEF Stamps
  <2>2. sensor \in [stamp : Stamps, connected : BOOLEAN]
    BY <2>1 DEF Init
  <2>3. page \in [status : {"", "live", "disconnected"}, stamp : Stamps]
    BY <2>1 DEF Init
  <2> QED BY <1>2, <2>1, <2>2, <2>3 DEF Init, TypeOK
<1>4. OrderInv /\ LagInv
  <2>1. sensor.stamp = 0 /\ sent = 0 /\ missed = 0
    BY DEF Init
  <2> QED BY <1>2, <2>1 DEF OrderInv, LagInv
<1> QED BY <1>3, <1>4 DEF IInv

(* What TypeOK says of the numbers and of the two queues.                  *)
LEMMA Types ==
  ASSUME TypeOK
  PROVE  /\ MaxSent \in Nat /\ MaxShort \in Nat /\ sent \in Nat /\ sent <= MaxSent
         /\ sensor.stamp \in Nat /\ sensor.connected \in BOOLEAN /\ missed \in Nat
         /\ Len(net) \in Nat /\ \A i \in 1..Len(net) : net[i] \in Nat /\ net[i] # Short
         /\ Len(queue) \in Nat /\ \A i \in 1..Len(queue) : queue[i] \in Nat
<1>1. MaxSent \in Nat /\ MaxShort \in Nat
  BY SensorsAssumption
<1>2. net \in Seq(Stamps \ {Short}) /\ queue \in Seq(Stamps)
  BY DEF TypeOK
<1>3. \A i \in 1..Len(net) : net[i] \in Stamps \ {Short}
  BY <1>2, ElementOfSeq
<1>4. \A i \in 1..Len(queue) : queue[i] \in Stamps
  BY <1>2, ElementOfSeq
<1>5. Len(net) \in Nat /\ Len(queue) \in Nat
  BY <1>2, LenProperties
<1>6. sent \in Stamps /\ sensor.stamp \in Stamps /\ sensor.connected \in BOOLEAN /\ missed \in Nat
  BY DEF TypeOK
<1>7. sent \in Nat /\ sent <= MaxSent /\ sensor.stamp \in Nat
  BY <1>1, <1>6 DEF Stamps
<1>8. \A i \in 1..Len(net) : net[i] \in Nat /\ net[i] # Short
  BY <1>1, <1>3 DEF Stamps
<1>9. \A i \in 1..Len(queue) : queue[i] \in Nat
  BY <1>1, <1>4 DEF Stamps
<1> QED BY <1>1, <1>5, <1>6, <1>7, <1>8, <1>9

---------------------------------------------------------------------------
(* sensor_reader.                                                          *)
LEMMA SendInv ==
  ASSUME IInv, Send
  PROVE  IInv'
<1>1. CASE sent < MaxSent /\ net' = Append(net, sent + 1)
  <2>1. sent' = sent + 1 /\ sent' \in Stamps \ {Short} /\ net \in Seq(Stamps \ {Short})
    <3>1. sent' = sent + 1 /\ net \in Seq(Stamps \ {Short})
      BY <1>1 DEF Send, IInv, TypeOK
    <3>2. sent + 1 \in Stamps \ {Short}
      BY <1>1, Types DEF IInv, Stamps, Short
    <3> QED BY <3>1, <3>2
  <2>2. /\ net' \in Seq(Stamps \ {Short}) /\ Len(net') = Len(net) + 1
        /\ \A i \in 1..Len(net) : net'[i] = net[i]
        /\ net'[Len(net) + 1] = sent + 1
    BY <1>1, <2>1, AppendProperties
  <2>3. TypeOK'
    BY <2>1, <2>2 DEF Send, IInv, TypeOK
  <2>4. \A i \in 1..Len(net') :
          \/ i \in 1..Len(net) /\ net'[i] = net[i]
          \/ i = Len(net) + 1 /\ net'[i] = sent + 1
    BY <2>2, Types DEF IInv
  <2>5. OrderInv'
    <3>1. UNCHANGED <<queue, sensor>> /\ sent \in Nat /\ Len(net) \in Nat
      BY Types DEF Send, IInv
    <3>2. ASSUME NEW i \in 1..Len(net') PROVE sensor.stamp < net'[i] /\ net'[i] <= sent + 1
      BY <2>4, <3>1, Types DEF IInv, OrderInv
    <3>3. ASSUME NEW i \in 1..Len(net'), NEW j \in 1..Len(net'), i < j PROVE net'[i] < net'[j]
      <4>1. i \in 1..Len(net) /\ net'[i] = net[i] /\ net[i] <= sent
        BY <2>2, <2>4, <3>1, <3>3 DEF IInv, OrderInv
      <4>2. CASE j \in 1..Len(net) /\ net'[j] = net[j]
        BY <3>3, <4>1, <4>2 DEF IInv, OrderInv
      <4>3. CASE net'[j] = sent + 1
        BY <3>1, <4>1, <4>3, Types DEF IInv
      <4> QED BY <2>4, <4>2, <4>3
    <3>4. ASSUME NEW i \in 1..Len(queue) PROVE queue[i] <= sent
      BY Types DEF IInv, OrderInv, Short
    <3>5. ASSUME NEW i \in 1..Len(queue), NEW j \in 1..Len(net') PROVE queue[i] < net'[j]
      <4>1. CASE j \in 1..Len(net) /\ net'[j] = net[j]
        BY <4>1 DEF IInv, OrderInv
      <4>2. CASE net'[j] = sent + 1
        BY <3>1, <3>4, <4>2, Types DEF IInv
      <4> QED BY <2>4, <4>1, <4>2
    <3>6. sensor.stamp <= sent + 1
      BY <3>1, Types DEF IInv, OrderInv
    <3>7. \A i \in 1..Len(queue) : queue[i] <= sent + 1
      BY <3>1, <3>4, Types DEF IInv
    <3> QED BY <2>1, <3>1, <3>2, <3>3, <3>5, <3>6, <3>7 DEF IInv, OrderInv
  <2>6. LagInv'
    BY <1>1, <2>1, Types DEF Send, IInv, LagInv
  <2> QED BY <2>3, <2>5, <2>6 DEF IInv
<1>2. CASE sent < MaxSent /\ net' = net
  <2>1. sent' = sent + 1 /\ sent' \in Stamps
    <3>1. sent' = sent + 1
      BY <1>2 DEF Send
    <3> QED BY <1>2, <3>1, Types DEF IInv, Stamps
  <2>2. TypeOK'
    BY <1>2, <2>1 DEF Send, IInv, TypeOK
  <2>3. OrderInv' /\ LagInv'
    BY <1>2, <2>1, Types DEF Send, IInv, OrderInv, LagInv
  <2> QED BY <2>2, <2>3 DEF IInv
<1>3. CASE ~(sent < MaxSent)
  BY <1>3, Types DEF Send, IInv, TypeOK, OrderInv, LagInv
<1> QED BY <1>1, <1>2, <1>3 DEF Send

(* The queue without its head.                                             *)
LEMMA QueueTail ==
  ASSUME TypeOK, queue # <<>>
  PROVE  /\ Tail(queue) \in Seq(Stamps) /\ Len(Tail(queue)) = Len(queue) - 1
         /\ Head(queue) = queue[1] /\ 1 \in 1..Len(queue)
         /\ \A i \in 1..Len(Tail(queue)) :
              Tail(queue)[i] = queue[i + 1] /\ i + 1 \in 1..Len(queue) /\ i \in Nat
<1>1. queue \in Seq(Stamps)
  BY DEF TypeOK
<1>2. Len(queue) \in Nat /\ Len(queue) # 0
  BY <1>1, EmptySeq, LenProperties
<1>3. /\ Head(queue) = queue[1] /\ Tail(queue) \in Seq(Stamps)
      /\ Len(Tail(queue)) = Len(queue) - 1
      /\ \A i \in 1..Len(Tail(queue)) : Tail(queue)[i] = queue[i + 1]
  BY <1>1, HeadTailProperties
<1> QED BY <1>2, <1>3

(* A state that is taken from the queue is newer than the one held.        *)
LEMMA RecvInv ==
  ASSUME IInv, Recv
  PROVE  IInv'
<1>1. queue # <<>> /\ queue' = Tail(queue) /\ TypeOK /\ pc' = "sleep" /\ UNCHANGED <<sent, net>>
  BY DEF Recv, IInv
<1>2. CASE Head(queue) = Short
  <2>1. missed' = missed + 1 /\ sensor' = sensor
    BY <1>2 DEF Recv
  <2>2. TypeOK'
    <3>1. missed' \in Nat
      BY <1>1, <2>1, Types
    <3>2. queue' \in Seq(Stamps)
      BY <1>1, QueueTail
    <3> QED BY <1>1, <2>1, <3>1, <3>2 DEF Recv, TypeOK
  <2>3. OrderInv'
    BY <1>1, <2>1, QueueTail DEF IInv, OrderInv
  <2>4. LagInv'
    BY <1>1, <2>1, Types DEF IInv, LagInv
  <2> QED BY <2>2, <2>3, <2>4 DEF IInv
<1>3. CASE Head(queue) # Short
  <2>1. /\ sensor' = [stamp |-> queue[1], connected |-> TRUE] /\ missed' = missed
        /\ queue[1] # Short /\ 1 \in 1..Len(queue) /\ queue[1] \in Stamps
    BY <1>1, <1>3, QueueTail, ElementOfSeq DEF Recv, TypeOK
  <2>2. TypeOK'
    BY <1>1, <2>1, QueueTail DEF Recv, TypeOK
  <2>3. sensor'.stamp = queue[1] /\ sensor.stamp < queue[1] /\ queue[1] <= sent
    BY <2>1 DEF IInv, OrderInv
  <2>4. ASSUME NEW i \in 1..Len(queue'), queue'[i] # Short
        PROVE  queue[1] < queue'[i] /\ queue'[i] <= sent
    <3>1. i + 1 \in 1..Len(queue) /\ queue'[i] = queue[i + 1] /\ 1 < i + 1
      BY <1>1, QueueTail
    <3> QED BY <2>1, <2>4, <3>1 DEF IInv, OrderInv
  <2>5. OrderInv'
    BY <1>1, <2>1, <2>3, <2>4, QueueTail DEF IInv, OrderInv
  <2>6. LagInv'
    BY <1>1, <2>1, <2>3, Types DEF IInv, LagInv
  <2> QED BY <2>2, <2>5, <2>6 DEF IInv
<1> QED BY <1>2, <1>3

(* Every other step of the reader lets a round pass or leaves the lag alone. *)
LEMMA ReaderInv ==
  ASSUME IInv, Reader
  PROVE  IInv'
<1>1. CASE SendError \/ Wake
  BY <1>1, Types DEF SendError, Wake, IInv, TypeOK, OrderInv, LagInv
<1>2. CASE Timeout
  <2>1. sensor' = [stamp |-> sensor.stamp, connected |-> FALSE]
    BY <1>2 DEF Timeout, IInv, TypeOK
  <2>2. TypeOK'
    <3>1. sensor' \in [stamp : Stamps, connected : BOOLEAN]
      BY <2>1 DEF IInv, TypeOK
    <3>2. missed' \in Nat
      BY <1>2, Types DEF Timeout, IInv
    <3> QED BY <1>2, <3>1, <3>2 DEF Timeout, IInv, TypeOK
  <2>3. OrderInv'
    BY <1>2, <2>1 DEF Timeout, IInv, OrderInv
  <2>4. LagInv'
    BY <1>2, <2>1, Types DEF Timeout, IInv, LagInv
  <2> QED BY <2>2, <2>3, <2>4 DEF IInv
<1> QED BY <1>1, <1>2, SendInv, RecvInv DEF Reader

---------------------------------------------------------------------------
(* The network: the oldest answer goes to the end of the queue.            *)
LEMMA ArriveInv ==
  ASSUME IInv, Arrive
  PROVE  IInv'
<1>1. net \in Seq(Stamps \ {Short}) /\ net # <<>> /\ queue \in Seq(Stamps)
  BY DEF Arrive, IInv, TypeOK
<1>2. /\ Len(net) \in Nat /\ Len(net) # 0 /\ Head(net) = net[1] /\ net' = Tail(net)
      /\ net' \in Seq(Stamps \ {Short}) /\ Len(net') = Len(net) - 1
      /\ \A i \in 1..Len(net') : net'[i] = net[i + 1]
  BY <1>1, HeadTailProperties, EmptySeq, LenProperties DEF Arrive
<1>3. 1 \in 1..Len(net) /\ net[1] \in Stamps \ {Short}
  BY <1>1, <1>2, ElementOfSeq
<1>4. /\ queue' \in Seq(Stamps) /\ Len(queue') = Len(queue) + 1
      /\ \A i \in 1..Len(queue) : queue'[i] = queue[i]
      /\ queue'[Len(queue) + 1] = net[1]
  BY <1>1, <1>2, <1>3, AppendProperties DEF Arrive
<1>5. TypeOK'
  BY <1>2, <1>4 DEF Arrive, IInv, TypeOK
<1>6. \A i \in 1..Len(queue') :
        \/ i \in 1..Len(queue) /\ queue'[i] = queue[i]
        \/ i = Len(queue) + 1 /\ queue'[i] = net[1]
  <2>1. Len(queue) \in Nat
    BY Types DEF IInv
  <2>2. \A i \in 1..Len(queue') : i \in 1..Len(queue) \/ i = Len(queue) + 1
    BY <1>4, <2>1
  <2> QED BY <1>4, <2>2
<1>7. \A i \in 1..Len(net') : i + 1 \in 1..Len(net) /\ net'[i] = net[i + 1] /\ net[1] < net'[i]
  <2>1. ASSUME NEW i \in 1..Len(net') PROVE i + 1 \in 1..Len(net) /\ 1 < i + 1
    BY <1>2
  <2> QED BY <1>2, <1>3, <2>1 DEF IInv, OrderInv
<1>8. OrderInv'
  <2>1. \A i \in 1..Len(queue') :
          queue'[i] # Short => sensor.stamp < queue'[i] /\ queue'[i] <= sent
    BY <1>3, <1>6 DEF IInv, OrderInv
  <2>2. ASSUME NEW i \in 1..Len(queue'), NEW j \in 1..Len(queue'), i < j,
               queue'[i] # Short, queue'[j] # Short
        PROVE  queue'[i] < queue'[j]
    <3>1. i \in 1..Len(queue) /\ queue'[i] = queue[i]
      BY <1>6, <1>4, <2>2, Types DEF IInv
    <3> QED BY <1>3, <1>6, <2>2, <3>1 DEF IInv, OrderInv
  <2>3. ASSUME NEW i \in 1..Len(net'), NEW j \in 1..Len(net'), i < j PROVE net'[i] < net'[j]
    <3>1. i + 1 < j + 1
      BY <1>2, <2>3
    <3> QED BY <1>7, <3>1 DEF IInv, OrderInv
  <2>4. \A i \in 1..Len(queue'), j \in 1..Len(net') : queue'[i] < net'[j]
    BY <1>6, <1>7 DEF IInv, OrderInv
  <2>5. UNCHANGED <<sensor, sent>>
    BY DEF Arrive
  <2> QED BY <1>7, <2>1, <2>2, <2>3, <2>4, <2>5 DEF IInv, OrderInv
<1> QED BY <1>5, <1>8 DEF Arrive, IInv, LagInv

(* A short packet costs a round of its own.                                *)
LEMMA ArriveShortInv ==
  ASSUME IInv, ArriveShort
  PROVE  IInv'
<1>1. /\ queue' \in Seq(Stamps) /\ Len(queue') = Len(queue) + 1
      /\ \A i \in 1..Len(queue) : queue'[i] = queue[i]
      /\ queue'[Len(queue) + 1] = Short
  <2>1. queue \in Seq(Stamps)
    BY DEF IInv, TypeOK
  <2>2. Short \in Stamps
    BY Types DEF IInv, Stamps, Short
  <2> QED BY <2>1, <2>2, AppendProperties DEF ArriveShort
<1>2. TypeOK'
  <2>1. shorts' \in 0..MaxShort
    <3>1. shorts \in 0..MaxShort /\ shorts < MaxShort /\ shorts' = shorts + 1
      BY DEF ArriveShort, IInv, TypeOK
    <3> QED BY <3>1, SensorsAssumption
  <2> QED BY <1>1, <2>1 DEF ArriveShort, IInv, TypeOK
<1>3. \A i \in 1..Len(queue') :
        (i \in 1..Len(queue) /\ queue'[i] = queue[i]) \/ queue'[i] = Short
  BY <1>1, Types DEF IInv
<1>4. \A j \in 1..Len(net) : Short < net[j]
  BY Types DEF IInv, Short
<1>5. OrderInv'
  BY <1>3, <1>4 DEF ArriveShort, IInv, OrderInv
<1> QED BY <1>2, <1>5 DEF ArriveShort, IInv, LagInv

(* The interface and the page touch nothing that the reader has.           *)
LEMMA Frame ==
  ASSUME IInv, UNCHANGED readerVars, TypeOK'
  PROVE  IInv'
BY DEF readerVars, IInv, OrderInv, LagInv

(* The page only reads.                                                    *)
LEMMA PageInv ==
  ASSUME IInv, \/ Link \/ Poll \/ UNCHANGED vars
               \/ \E i \in 1..Len(polls) : Show(i)
  PROVE  IInv'
<1>1. CASE Link \/ UNCHANGED vars
  <2>1. TypeOK'
    BY <1>1 DEF Link, vars, readerVars, IInv, TypeOK
  <2> QED BY <1>1, <2>1, Frame DEF Link, vars
<1>2. CASE Poll
  <2>1. polls' \in Seq([stamp : Stamps, connected : BOOLEAN])
    BY <1>2, AppendProperties DEF Poll, IInv, TypeOK
  <2>2. TypeOK'
    BY <1>2, <2>1 DEF Poll, readerVars, IInv, TypeOK
  <2> QED BY <1>2, <2>2, Frame DEF Poll
<1>3. ASSUME NEW i \in 1..Len(polls), Show(i) PROVE IInv'
  <2> DEFINE Answer == [stamp : Stamps, connected : BOOLEAN]
  <2>1. polls \in Seq(Answer) /\ Len(polls) \in Nat
    BY LenProperties DEF IInv, TypeOK
  <2>2. \A n \in 1..Len(polls) : polls[n] \in Answer
    BY <2>1, ElementOfSeq
  <2>3. SubSeq(polls, 1, i - 1) \in Seq(Answer)
    <3>1. \A n \in 1..(i - 1) : polls[n] \in Answer
      BY <2>1, <2>2
    <3> QED BY <2>1, <3>1, SubSeqProperties
  <2>4. SubSeq(polls, i + 1, Len(polls)) \in Seq(Answer)
    <3>1. \A n \in (i + 1)..Len(polls) : polls[n] \in Answer
      BY <2>1, <2>2
    <3> QED BY <2>1, <3>1, SubSeqProperties
  <2>5. polls' \in Seq(Answer)
    BY <1>3, <2>3, <2>4, ConcatProperties DEF Show, RemoveAt
  <2>6. page' \in [status : {"", "live", "disconnected"}, stamp : Stamps]
    <3>1. polls[i] \in Answer
      BY <2>2
    <3> QED BY <1>3, <3>1 DEF Show, IInv, TypeOK
  <2>7. TypeOK'
    BY <1>3, <2>5, <2>6 DEF Show, readerVars, IInv, TypeOK
  <2> QED BY <1>3, <2>7, Frame DEF Show
<1> QED BY <1>1, <1>2, <1>3

(* Every step keeps the invariant.                                         *)
LEMMA StepInv == IInv /\ [Next]_vars => IInv'
BY ReaderInv, ArriveInv, ArriveShortInv, PageInv DEF Next

(* The variables keep their types.                                         *)
THEOREM TypeCorrect == Spec => []TypeOK
<1>1. IInv => TypeOK
  BY DEF IInv
<1> QED BY InitInv, StepInv, <1>1, PTL DEF Spec

(* The state of a robot that is shown as live lags behind the requests by  *)
(* the rounds that brought no state, and no more.                          *)
THEOREM Lag == Spec => []LagBounded
<1>1. IInv => LagBounded
  BY DEF IInv, LagInv, LagBounded
<1> QED BY InitInv, StepInv, <1>1, PTL DEF Spec

---------------------------------------------------------------------------
(* Only Send issues a state, and only Recv and Timeout touch sensor_data.  *)
LEMMA SensorSteps ==
  ASSUME IInv, [Next]_vars
  PROVE  [SensorRegister!Next]_<<sent, [f \in {"HighState"} |-> sensor.stamp]>>
<1> USE DEF SensorRegister!Next, SensorRegister!Issue, SensorRegister!Take
<1>1. CASE Send
  BY <1>1 DEF Send
<1>2. CASE Recv
  <2>1. sent' = sent
    BY <1>2 DEF Recv
  <2>2. sensor'.stamp \in 0..sent /\ sensor'.stamp >= sensor.stamp
    <3>1. sensor'.stamp <= sent /\ sensor'.stamp \in Nat
      <4>1. OrderInv' /\ sensor'.stamp \in Stamps
        BY <1>2, RecvInv DEF IInv, TypeOK
      <4> QED BY <2>1, <4>1, SensorsAssumption DEF OrderInv, Stamps
    <3>2. sensor.stamp <= sensor'.stamp
      <4>1. CASE Head(queue) = Short
        BY <1>2, <4>1, Types DEF Recv, IInv
      <4>2. CASE Head(queue) # Short
        <5>1. sensor'.stamp = queue[1] /\ 1 \in 1..Len(queue) /\ queue[1] # Short
          BY <1>2, <4>2, QueueTail DEF Recv, IInv
        <5> QED BY <5>1, Types DEF IInv, OrderInv
      <4> QED BY <4>1, <4>2
    <3> QED BY <3>1, <3>2, Types DEF IInv
  <2> QED BY <2>1, <2>2
<1>3. CASE Timeout
  BY <1>3 DEF Timeout, IInv, TypeOK
<1>4. CASE ~(Send \/ Recv \/ Timeout)
  BY <1>4 DEF Next, Reader, SendError, Wake, Arrive, ArriveShort, Link, Poll, Show, readerVars, vars
<1> QED BY <1>1, <1>2, <1>3, <1>4

(* Whatever is lost or late, sensor_data never goes back to an older state *)
(* and never holds one the robot did not send.                             *)
THEOREM SensorRefines == Spec => SensorValue
<1>1. Init => SensorRegister!Init
  <2> SUFFICES ASSUME Init PROVE SensorRegister!Init
    OBVIOUS
  <2>1. sensor.stamp = 0 /\ sent = 0
    BY DEF Init
  <2> QED BY <2>1 DEF SensorRegister!Init
<1> QED BY <1>1, InitInv, StepInv, SensorSteps, PTL
        DEF Spec, SensorValue, SensorRegister!Spec
============================================================================
