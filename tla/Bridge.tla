------------------------------- MODULE Bridge -------------------------------
(***************************************************************************)
(* The bridges between ROS and the robot: ros_udp (HIGHLEVEL or LOWLEVEL)  *)
(* and twist_sub.  Three threads share two structs of the class Custom and *)
(* take no lock:                                                           *)
(*   the callback  stores each command into high_cmd (low_cmd), and then   *)
(*                 answers it with a report of high_state (low_state);     *)
(*   send, 2 ms    copies the command into the UDP object and sends it;    *)
(*   recv, 2 ms    takes a packet of the robot and copies it out.          *)
(* A struct is copied member by member, in no particular order.            *)
(*                                                                         *)
(* A command or a state is the number of the message it is from, a struct  *)
(* one number per member.  ROS, the SDK's UDP class, the network and the   *)
(* robot are external.                                                     *)
(***************************************************************************)
EXTENDS Naturals

CONSTANTS
  Members,   \* of a command that convert.h converts
  Readings,  \* of a state that convert.h converts
  MaxCmd,    \* bound: commands published
  MaxState   \* bound: states sent by the robot

ASSUME BridgeAssumption ==
  /\ MaxCmd \in Nat
  /\ MaxState \in Nat

VARIABLES
  published,   \* commands published on the topic
  inbox,       \* the subscriber's queue, of length 1; 0: empty
  msg,         \* the command the callback runs for; 0: it does not run
  toStore,     \* members the callback has yet to store into high_cmd
  toReport,    \* readings it has yet to copy into the report
  high_cmd,
  udpSend,     \* the UDP object's command
  toSend,      \* members SetSend has yet to copy into it
  wire,        \* the last command sent to the robot
  robot,       \* states the robot has sent
  udpRecv,     \* the last of them received
  toGet,       \* readings GetRecv has yet to copy out
  high_state,
  report,      \* high_state_ros, local to the callback
  reported     \* the last report published

cmdVars == <<inbox, msg, toStore, high_cmd, udpSend, toSend, wire>>
stateVars == <<robot, udpRecv, toGet, high_state, toReport, report, reported>>
bridgeVars == <<published, cmdVars, stateVars>>

BridgeInit ==
  /\ published = 0 /\ inbox = 0 /\ msg = 0
  /\ toStore = {} /\ toReport = {}
  /\ high_cmd = [f \in Members |-> 0]
  /\ udpSend = [f \in Members |-> 0]
  /\ wire = [f \in Members |-> 0]
  /\ toSend = Members
  /\ robot = 0 /\ udpRecv = 0 /\ toGet = {}
  /\ high_state = [r \in Readings |-> 0]
  /\ report = [r \in Readings |-> 0]
  /\ reported = [r \in Readings |-> 0]

---------------------------------------------------------------------------
(* A node publishes a command: the newest replaces one that still waits.   *)

(* mutant: a full queue refuses the newest *)
Publish_DropNewest ==
  /\ published < MaxCmd
  /\ published' = published + 1
  /\ inbox' = IF inbox = 0 THEN published' ELSE inbox
  /\ UNCHANGED <<msg, toStore, high_cmd, udpSend, toSend, wire, stateVars>>

Publish ==
  /\ published < MaxCmd
  /\ published' = published + 1
  /\ inbox' = published'
  /\ UNCHANGED <<msg, toStore, high_cmd, udpSend, toSend, wire, stateVars>>

(* mutant: the message stays in the queue *)
Call_Keep ==
  /\ msg = 0 /\ inbox # 0
  /\ msg' = inbox
  /\ toStore' = Members /\ toReport' = Readings
  /\ UNCHANGED <<published, inbox, high_cmd, udpSend, toSend, wire,
                 robot, udpRecv, toGet, high_state, report, reported>>

(* The callback: custom.high_cmd = rosMsg2Cmd(msg), then state2rosMsg on   *)
(* the shared high_state, then publish.                                    *)
Call ==
  /\ msg = 0 /\ inbox # 0
  /\ msg' = inbox /\ inbox' = 0
  /\ toStore' = Members /\ toReport' = Readings
  /\ UNCHANGED <<published, high_cmd, udpSend, toSend, wire,
                 robot, udpRecv, toGet, high_state, report, reported>>

Store(f) ==
  /\ f \in toStore
  /\ high_cmd' = [high_cmd EXCEPT ![f] = msg]
  /\ toStore' = toStore \ {f}
  /\ UNCHANGED <<published, inbox, msg, udpSend, toSend, wire, stateVars>>

Read(r) ==
  /\ toStore = {} /\ r \in toReport
  /\ report' = [report EXCEPT ![r] = high_state[r]]
  /\ toReport' = toReport \ {r}
  /\ UNCHANGED <<published, cmdVars, robot, udpRecv, toGet, high_state, reported>>

(* mutant: the command is reset once it was reported *)
Report_Reset ==
  /\ msg # 0 /\ toStore = {} /\ toReport = {}
  /\ reported' = report
  /\ msg' = 0
  /\ high_cmd' = [f \in Members |-> 0]
  /\ UNCHANGED <<published, inbox, toStore, udpSend, toSend, wire,
                 robot, udpRecv, toGet, high_state, toReport, report>>

Report ==
  /\ msg # 0 /\ toStore = {} /\ toReport = {}
  /\ reported' = report
  /\ msg' = 0
  /\ UNCHANGED <<published, inbox, toStore, high_cmd, udpSend, toSend, wire,
                 robot, udpRecv, toGet, high_state, toReport, report>>

---------------------------------------------------------------------------
(* highUdpSend: SetSend, member by member, and Send.                       *)
SetSend(f) ==
  /\ f \in toSend
  /\ udpSend' = [udpSend EXCEPT ![f] = high_cmd[f]]
  /\ toSend' = toSend \ {f}
  /\ UNCHANGED <<published, inbox, msg, toStore, high_cmd, wire, stateVars>>

Send ==
  /\ toSend = {}
  /\ wire' = udpSend
  /\ toSend' = Members
  /\ UNCHANGED <<published, inbox, msg, toStore, high_cmd, udpSend, stateVars>>

(* The robot sends a state; the network may lose it.                       *)
RobotSend ==
  /\ robot < MaxState
  /\ robot' = robot + 1
  /\ UNCHANGED <<published, cmdVars, udpRecv, toGet, high_state, toReport, report, reported>>

(* mutant: a packet that was overtaken is accepted *)
Recv_Overtaken ==
  /\ toGet = {}
  /\ udpRecv' \in 0..robot
  /\ toGet' = Readings
  /\ UNCHANGED <<published, cmdVars, robot, high_state, toReport, report, reported>>

(* highUdpRecv: Recv does not block and its result is not looked at.       *)
Recv ==
  /\ toGet = {}
  /\ udpRecv' \in udpRecv..robot
  /\ toGet' = Readings
  /\ UNCHANGED <<published, cmdVars, robot, high_state, toReport, report, reported>>

GetRecv(r) ==
  /\ r \in toGet
  /\ high_state' = [high_state EXCEPT ![r] = udpRecv]
  /\ toGet' = toGet \ {r}
  /\ UNCHANGED <<published, cmdVars, robot, udpRecv, toReport, report, reported>>

CallbackStep ==
  \/ Call
  \/ \E f \in Members : Store(f)
  \/ \E r \in Readings : Read(r)
  \/ Report
SendStep == Send \/ \E f \in Members : SetSend(f)
RecvStep == Recv \/ \E r \in Readings : GetRecv(r)

BridgeStep == CallbackStep \/ SendStep \/ RecvStep \/ RobotSend

---------------------------------------------------------------------------
BridgeTypeOK ==
  /\ published \in 0..MaxCmd /\ robot \in 0..MaxState
  /\ inbox \in 0..published /\ msg \in 0..published
  /\ toStore \subseteq Members /\ toSend \subseteq Members
  /\ toReport \subseteq Readings /\ toGet \subseteq Readings
  /\ {high_cmd, udpSend, wire} \subseteq [Members -> 0..published]
  /\ udpRecv \in 0..robot
  /\ {high_state, report, reported} \subseteq [Readings -> 0..robot]

(* Nothing overtakes, towards the robot: what a later stage holds of a     *)
(* command is never newer than what the stage before it holds.             *)
CmdOrder ==
  /\ toStore # {} => msg # 0
  /\ inbox # 0 => msg < inbox
  /\ \A f \in Members :
       /\ msg # 0 => high_cmd[f] <= msg
       /\ inbox # 0 => high_cmd[f] < inbox
       /\ wire[f] <= udpSend[f] /\ udpSend[f] <= high_cmd[f]

(* Nor towards ROS.                                                        *)
StateOrder ==
  \A r \in Readings :
    /\ reported[r] <= report[r]
    /\ report[r] <= high_state[r]
    /\ high_state[r] <= udpRecv
============================================================================
