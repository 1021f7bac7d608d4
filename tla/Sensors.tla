------------------------------ MODULE Sensors ------------------------------
(***************************************************************************)
(* The dashboard's sensor display (tri_stream.py): sensor_reader sends the *)
(* robot an idle command and waits 1 s for a packet, which it takes for    *)
(* the answer; the HTTP handler serves what was read last; the page polls  *)
(* it every 200 ms, whether or not the poll before has been answered.      *)
(*                                                                         *)
(* A state is the number of the request the robot answers with it.  The    *)
(* robot, the sockets, the network and the browser's HTTP client are       *)
(* external.  Once all the numbers are used the robot answers no more.     *)
(***************************************************************************)
EXTENDS Integers, SequencesExt

CONSTANTS
  MaxSent,  \* bound: requests the robot may answer
  MaxShort, \* bound: packets too short to be a HighState
  MaxPolls  \* bound: polls of the page under way

ASSUME SensorsAssumption == {MaxSent, MaxShort, MaxPolls} \subseteq Nat

VARIABLES
  pc,      \* of sensor_reader: "send", "recv", "sleep"
  sent,    \* requests sent, up to MaxSent
  net,     \* answers on their way
  queue,   \* packets in the socket; 0: one that is too short
  link,    \* is the network interface up?
  sensor,  \* sensor_data: the state it holds, and 'connected'
  polls,   \* answers to the page under way
  page,    \* what the page shows
  missed,  \* history: rounds without a state, until the numbers are used
  shorts   \* short packets received

readerVars == <<pc, sent, net, queue, sensor, missed>>
vars == <<readerVars, link, polls, page, shorts>>

Short == 0

Init ==
  /\ pc = "send" /\ sent = 0 /\ net = <<>> /\ queue = <<>>
  /\ link = "up"
  /\ sensor = [stamp |-> 0, connected |-> FALSE]
  /\ polls = <<>> /\ page = [status |-> "", stamp |-> 0]
  /\ missed = 0 /\ shorts = 0

---------------------------------------------------------------------------
(* sendto of the idle command; the robot's answer is on its way, or lost.  *)

(* mutant: the request is sent a second time at once *)
Send_Twice ==
  /\ pc = "send" /\ link = "up"
  /\ pc' = "recv"
  /\ IF sent < MaxSent
     THEN sent' = sent + 2 /\ net' = net \o <<sent + 1, sent + 2>>
     ELSE UNCHANGED <<sent, net>>
  /\ UNCHANGED <<queue, link, sensor, polls, page, missed, shorts>>

Send ==
  /\ pc = "send" /\ link = "up"
  /\ pc' = "recv"
  /\ IF sent < MaxSent
     THEN sent' = sent + 1 /\ net' \in {net, Append(net, sent')}
     ELSE UNCHANGED <<sent, net>>
  /\ UNCHANGED <<queue, link, sensor, polls, page, missed, shorts>>

(* sendto raises OSError, which is printed: nothing else happens.          *)
SendError ==
  /\ pc = "send" /\ link = "down"
  /\ pc' = "sleep"
  /\ UNCHANGED <<sent, net, queue, link, sensor, polls, page, missed, shorts>>

(* recvfrom returns the oldest packet, whichever request it answers.       *)
Recv ==
  /\ pc = "recv" /\ queue # <<>>
  /\ queue' = Tail(queue)
  /\ IF Head(queue) = Short
     THEN missed' = missed + 1 /\ UNCHANGED sensor
     ELSE /\ sensor' = [stamp |-> Head(queue), connected |-> TRUE]
          /\ UNCHANGED missed
  /\ pc' = "sleep"
  /\ UNCHANGED <<sent, net, link, polls, page, shorts>>

(* mutant: a timeout is ignored *)
Timeout_Ignored ==
  /\ pc = "recv" /\ queue = <<>>
  /\ missed' = IF sent < MaxSent THEN missed + 1 ELSE missed
  /\ pc' = "sleep"
  /\ UNCHANGED <<sent, net, queue, link, sensor, polls, page, shorts>>

(* mutant: a timeout clears the data *)
Timeout_Clear ==
  /\ pc = "recv" /\ queue = <<>>
  /\ sensor' = [stamp |-> 0, connected |-> FALSE]
  /\ missed' = IF sent < MaxSent THEN missed + 1 ELSE missed
  /\ pc' = "sleep"
  /\ UNCHANGED <<sent, net, queue, link, polls, page, shorts>>

(* No packet for 1 s; the answer may yet come.                             *)
Timeout ==
  /\ pc = "recv" /\ queue = <<>>
  /\ sensor' = [sensor EXCEPT !.connected = FALSE]
  /\ missed' = IF sent < MaxSent THEN missed + 1 ELSE missed
  /\ pc' = "sleep"
  /\ UNCHANGED <<sent, net, queue, link, polls, page, shorts>>

(* time.sleep(0.05)                                                        *)
Wake ==
  /\ pc = "sleep"
  /\ pc' = "send"
  /\ UNCHANGED <<sent, net, queue, link, sensor, polls, page, missed, shorts>>

(* The oldest answer on its way arrives; a short packet does; the          *)
(* interface goes down or comes up.                                        *)
Arrive ==
  /\ net # <<>>
  /\ net' = Tail(net)
  /\ queue' = Append(queue, Head(net))
  /\ UNCHANGED <<pc, sent, link, sensor, polls, page, missed, shorts>>

ArriveShort ==
  /\ shorts < MaxShort
  /\ shorts' = shorts + 1
  /\ queue' = Append(queue, Short)
  /\ UNCHANGED <<pc, sent, net, link, sensor, polls, page, missed>>

Link ==
  /\ link' = IF link = "up" THEN "down" ELSE "up"
  /\ UNCHANGED <<readerVars, polls, page, shorts>>

---------------------------------------------------------------------------
(* A poll of the page is served: a copy taken under sensor_lock.           *)
Poll ==
  /\ Len(polls) < MaxPolls
  /\ polls' = Append(polls, sensor)
  /\ UNCHANGED <<readerVars, link, page, shorts>>

(* onload of one of the polls; values are shown of a live robot only.      *)
Show(i) ==
  /\ polls' = RemoveAt(polls, i)
  /\ page' = IF polls[i].connected
             THEN [status |-> "live", stamp |-> polls[i].stamp]
             ELSE [page EXCEPT !.status = "disconnected"]
  /\ UNCHANGED <<readerVars, link, shorts>>

Reader == Send \/ SendError \/ Recv \/ Timeout \/ Wake
Next ==
  \/ Reader
  \/ Arrive \/ ArriveShort \/ Link
  \/ Poll
  \/ \E i \in 1..Len(polls) : Show(i)

Spec == Init /\ [][Next]_vars
FairSpec ==
  /\ Spec
  /\ WF_vars(Reader) /\ WF_vars(Arrive) /\ WF_vars(Poll)
  /\ WF_vars(polls # <<>> /\ Show(1))

---------------------------------------------------------------------------
Stamps == 0..MaxSent

TypeOK ==
  /\ pc \in {"send", "recv", "sleep"} /\ sent \in Stamps
  /\ net \in Seq(Stamps \ {Short}) /\ queue \in Seq(Stamps)
  /\ link \in {"up", "down"}
  /\ sensor \in [stamp : Stamps, connected : BOOLEAN]
  /\ polls \in Seq([stamp : Stamps, connected : BOOLEAN])
  /\ page \in [status : {"", "live", "disconnected"}, stamp : Stamps]
  /\ missed \in Nat /\ shorts \in 0..MaxShort

(* Between two rounds, what is shown as the state of a live robot lags     *)
(* behind the requests by the rounds that brought no state, and no more:   *)
(* a late answer, which every later round takes for its own, is the only   *)
(* thing that delays the display.                                          *)
LagBounded ==
  pc # "recv" /\ sensor.connected => sent - sensor.stamp <= missed

(* Whatever is lost or late, sensor_data never goes back to an older state *)
(* and never holds one the robot did not send.                             *)
SensorRegister ==
  INSTANCE LatestValue WITH
    Members <- {"HighState"}, issued <- sent, held <- [f \in {"HighState"} |-> sensor.stamp]
SensorValue == SensorRegister!Spec

(* The page does not go on showing a live robot when the robot has fallen  *)
(* silent, as long as requests can be sent.                                *)
SilenceShown == <>[](link = "up") => <>[](page.status = "disconnected")
============================================================================
