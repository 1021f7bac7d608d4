---------------------------- MODULE TeleopProofs ----------------------------
(***************************************************************************)
(* Proofs about Teleop and Bridge, for every set of members, readings and  *)
(* keys and every bound: what the robot is sent, what ROS is told and what *)
(* MOVE_BASE walks with implement LatestValue.                             *)
(***************************************************************************)
EXTENDS Teleop, TLAPS, SequenceTheorems

IInv == TypeOK /\ NothingOvertakes

(* Nothing has been published or sent.                                     *)
LEMMA InitInv == Init => IInv
<1> SUFFICES ASSUME Init PROVE IInv
  OBVIOUS
<1>1. BridgeTypeOK
  BY BridgeAssumption DEF Init, BridgeInit, BridgeTypeOK
<1>2. /\ typed \in Seq(Keys) /\ twists \in Seq(Twist) /\ Len(twists) = published
      /\ running \in BOOLEAN
  BY EmptySeq DEF Init, BridgeInit
<1>3. node \in {"twist_sub", "junior_ctrl"} /\ mbIn \in BOOLEAN
  BY DEF Init
<1>4. mbVel \in 0..published /\ mbUsed \in 0..published
  BY DEF Init, BridgeInit
<1>5. TypeOK
  BY <1>1, <1>2, <1>3, <1>4 DEF TypeOK
<1>6. NothingOvertakes
  BY DEF Init, BridgeInit, NothingOvertakes, CmdOrder, StateOrder
<1> QED BY <1>5, <1>6 DEF IInv

---------------------------------------------------------------------------
(* The bridge's part of the invariant. *)
BridgeInv == BridgeTypeOK /\ CmdOrder /\ StateOrder

(* A new command is newer than whatever is under way.                      *)
LEMMA PublishInv ==
  ASSUME BridgeInv, Publish
  PROVE  BridgeInv'
<1> USE BridgeAssumption DEF BridgeInv, BridgeTypeOK, Publish, stateVars
<1>1. published' = published + 1 /\ inbox' = published + 1 /\ published \in Nat
  OBVIOUS
<1>2. BridgeTypeOK'
  OBVIOUS
<1>3. CmdOrder'
  BY <1>1 DEF CmdOrder
<1>4. StateOrder'
  BY DEF StateOrder
<1> QED BY <1>2, <1>3, <1>4

(* The callback stores a command newer than the one in the struct.         *)
LEMMA CallbackInv ==
  ASSUME BridgeInv, CallbackStep
  PROVE  BridgeInv'
<1> USE BridgeAssumption DEF BridgeInv, BridgeTypeOK, cmdVars, stateVars
<1>1. CASE Call
  BY <1>1 DEF Call, CmdOrder, StateOrder
<1>2. ASSUME NEW f \in Members, Store(f) PROVE BridgeInv'
  BY <1>2 DEF Store, CmdOrder, StateOrder
<1>3. ASSUME NEW r \in Readings, Read(r) PROVE BridgeInv'
  BY <1>3 DEF Read, CmdOrder, StateOrder
<1>4. CASE Report
  BY <1>4 DEF Report, CmdOrder, StateOrder
<1> QED BY <1>1, <1>2, <1>3, <1>4 DEF CallbackStep

(* Every thread takes from the stage before it.                            *)
LEMMA ThreadInv ==
  ASSUME BridgeInv, BridgeStep
  PROVE  BridgeInv'
<1> USE BridgeAssumption DEF BridgeInv, BridgeTypeOK, cmdVars, stateVars
<1>1. CASE CallbackStep
  BY <1>1, CallbackInv
<1>2. ASSUME NEW f \in Members, SetSend(f) PROVE BridgeInv'
  BY <1>2 DEF SetSend, CmdOrder, StateOrder
<1>3. CASE Send
  BY <1>3 DEF Send, CmdOrder, StateOrder
<1>4. CASE Recv
  <2>1. udpRecv' \in 0..robot /\ udpRecv' >= udpRecv
    BY <1>4 DEF Recv
  <2>2. BridgeTypeOK'
    BY <1>4, <2>1 DEF Recv
  <2>3. CmdOrder' /\ StateOrder'
    BY <1>4, <2>1 DEF Recv, CmdOrder, StateOrder
  <2> QED BY <2>2, <2>3
<1>5. ASSUME NEW r \in Readings, GetRecv(r) PROVE BridgeInv'
  BY <1>5 DEF GetRecv, CmdOrder, StateOrder
<1>6. CASE RobotSend
  BY <1>6 DEF RobotSend, CmdOrder, StateOrder
<1> QED BY <1>1, <1>2, <1>3, <1>4, <1>5, <1>6 DEF BridgeStep, SendStep, RecvStep

---------------------------------------------------------------------------
(* The invariant of the whole. *)

(* Every key gives a twist.                                                *)
LEMMA TwistType == ASSUME NEW ch PROVE TwistOf(ch) \in Twist
BY DEF TwistOf, Twist, Stop

(* The node publishes a twist together with its number.                    *)
LEMMA KeyboardInv ==
  ASSUME IInv, NEW t \in Twist, PublishTwist(t)
  PROVE  /\ BridgeInv' /\ twists' \in Seq(Twist) /\ Len(twists') = published'
         /\ UNCHANGED mbVars /\ inbox' = published + 1 /\ published' = published + 1
<1>1. BridgeInv /\ Publish
  BY DEF IInv, TypeOK, NothingOvertakes, BridgeInv, PublishTwist
<1>2. BridgeInv' /\ published' = published + 1 /\ inbox' = published + 1
  BY <1>1, PublishInv DEF Publish
<1>3. twists' = Append(twists, t) /\ twists \in Seq(Twist) /\ Len(twists) = published
  BY DEF PublishTwist, IInv, TypeOK
<1> QED BY <1>2, <1>3, AppendProperties DEF PublishTwist

(* A step that touches neither the bridge nor MOVE_BASE nor the topic.     *)
LEMMA TerminalInv ==
  ASSUME IInv, UNCHANGED <<bridgeVars, twists, mbVars>>,
         running' \in BOOLEAN, typed' \in Seq(Keys)
  PROVE  IInv'
<1>1. UNCHANGED <<published, inbox, msg, toStore, high_cmd, udpSend, toSend, wire>>
  BY DEF bridgeVars, cmdVars
<1>2. UNCHANGED <<robot, udpRecv, toGet, high_state, toReport, report, reported>>
  BY DEF bridgeVars, stateVars
<1>3. UNCHANGED <<twists, node, mbIn, mbVel, mbUsed>>
  BY DEF mbVars
<1> QED BY <1>1, <1>2, <1>3
  DEF IInv, TypeOK, NothingOvertakes, BridgeTypeOK, CmdOrder, StateOrder

(* Every step keeps the invariant.                                         *)
LEMMA StepInv == IInv /\ [Next]_vars => IInv'
<1> SUFFICES ASSUME IInv, [Next]_vars PROVE IInv'
  OBVIOUS
<1>1. BridgeInv /\ published \in Nat /\ mbVel \in 0..published /\ mbUsed \in 0..published
  BY BridgeAssumption DEF IInv, TypeOK, NothingOvertakes, BridgeInv, BridgeTypeOK
<1>2. ASSUME NEW t \in Twist, PublishTwist(t),
             running' \in BOOLEAN, typed' \in Seq(Keys)
      PROVE  IInv'
  <2>1. /\ BridgeInv' /\ twists' \in Seq(Twist) /\ Len(twists') = published'
        /\ UNCHANGED mbVars /\ inbox' = published + 1 /\ published' = published + 1
    BY <1>2, KeyboardInv
  <2> QED BY <1>1, <1>2, <2>1 DEF IInv, TypeOK, NothingOvertakes, BridgeInv, mbVars
<1>3. ASSUME NEW k \in Keys, Press(k) PROVE IInv'
  <2>1. typed' \in Seq(Keys)
    BY <1>3, AppendProperties DEF Press, IInv, TypeOK
  <2> QED BY <1>3, <2>1, TerminalInv DEF Press, IInv, TypeOK
<1>4. CASE ReadKey
  <2>1. typed' \in Seq(Keys)
    BY <1>4, HeadTailProperties DEF ReadKey, IInv, TypeOK
  <2>2. CASE Head(typed) = "q"
    BY <1>4, <2>1, <2>2, TerminalInv DEF ReadKey
  <2>3. CASE Head(typed) # "q"
    <3>1. PublishTwist(TwistOf(Head(typed))) /\ running' = running
      BY <1>4, <2>3 DEF ReadKey
    <3> QED BY <1>2, <2>1, <3>1, TwistType DEF IInv, TypeOK
  <2> QED BY <2>2, <2>3
<1>5. CASE Timeout
  <2>1. Stop \in Twist
    BY DEF Stop, Twist
  <2> QED BY <1>2, <1>5, <2>1 DEF Timeout, keyVars, IInv, TypeOK
<1>6. CASE Shutdown
  BY <1>6, TerminalInv DEF Shutdown, IInv, TypeOK
<1>7. CASE Thread(BridgeStep)
  <2>1. BridgeInv' /\ UNCHANGED <<keyVars, twists, mbVars>>
    BY <1>1, <1>7, ThreadInv DEF Thread
  <2>2. published' = published /\ (inbox' = inbox \/ inbox' = 0)
    BY <1>7 DEF Thread, BridgeStep, CallbackStep, SendStep, RecvStep, Call, Store, Read, Report,
                Send, SetSend, Recv, GetRecv, RobotSend, cmdVars
  <2> QED BY <1>1, <2>1, <2>2 DEF IInv, TypeOK, NothingOvertakes, BridgeInv, mbVars, keyVars
<1>8. CASE Tick
  <2>1. mbVel' \in 0..published /\ mbUsed' <= mbVel' /\ mbUsed' \in 0..published
    BY <1>1, <1>8 DEF Tick, spinOnce, IInv, NothingOvertakes, BridgeInv, BridgeTypeOK
  <2> QED BY <1>8, <2>1 DEF Tick, spinOnce, IInv, TypeOK, NothingOvertakes, BridgeTypeOK,
         CmdOrder, StateOrder, stateVars, keyVars
<1>9. CASE EnterExit
  BY <1>9 DEF EnterExit, IInv, TypeOK, NothingOvertakes, BridgeTypeOK, CmdOrder,
         StateOrder, bridgeVars, cmdVars, stateVars, keyVars
<1>10. CASE sendCmd
  <2>1. mbVel' \in 0..published /\ mbVel <= mbVel'
    BY <1>1, <1>10 DEF sendCmd, spinOnce, IInv, NothingOvertakes, BridgeInv, BridgeTypeOK
  <2> QED BY <1>1, <1>10, <2>1 DEF sendCmd, spinOnce, IInv, TypeOK, NothingOvertakes, BridgeTypeOK,
         CmdOrder, StateOrder, stateVars, keyVars
<1>11. CASE UNCHANGED vars
  BY <1>11, TerminalInv DEF vars, keyVars, IInv, TypeOK
<1> QED BY <1>3, <1>4, <1>5, <1>6, <1>7, <1>8, <1>9, <1>10, <1>11 DEF Next, Keyboard

(* The variables keep their types, and no stage holds anything newer than  *)
(* the stage before it.                                                    *)
THEOREM TeleopSafe == Spec => [](TypeOK /\ NothingOvertakes)
<1>1. IInv => TypeOK /\ NothingOvertakes
  BY DEF IInv
<1> QED BY InitInv, StepInv, <1>1, PTL DEF Spec

---------------------------------------------------------------------------
(* The refinements: each step takes every member to the same message or to *)
(* a newer one that was issued, and a message is issued alone.             *)

(* Towards the robot: only a publication issues, only Send changes wire.   *)
LEMMA CommandSteps ==
  ASSUME IInv, [Next]_vars
  PROVE  [CommandRegister!Next]_<<published, wire>>
<1> USE DEF CommandRegister!Next, CommandRegister!Issue, CommandRegister!Take
<1>1. ASSUME Publish PROVE CommandRegister!Issue
  BY <1>1 DEF Publish
<1>2. CASE Thread(BridgeStep)
  <2>1. CASE Send
    <3>1. published' = published /\ wire' = udpSend
      BY <2>1 DEF Send
    <3>2. /\ udpSend \in [Members -> 0..published] /\ wire \in [Members -> 0..published]
          /\ published \in Nat /\ \A f \in Members : wire[f] <= udpSend[f]
      BY BridgeAssumption DEF IInv, TypeOK, BridgeTypeOK, NothingOvertakes, CmdOrder
    <3> QED BY <3>1, <3>2
  <2>2. CASE ~Send
    BY <1>2, <2>2 DEF Thread, BridgeStep, CallbackStep, SendStep, RecvStep, Call, Store, Read,
       Report, SetSend, Recv, GetRecv, RobotSend, cmdVars
  <2> QED BY <2>1, <2>2
<1>3. CASE sendCmd \/ Tick \/ EnterExit
  BY <1>3 DEF sendCmd, Tick, spinOnce, EnterExit, bridgeVars, cmdVars
<1>4. CASE Keyboard
  BY <1>1, <1>4 DEF Keyboard, ReadKey, Timeout, PublishTwist, bridgeVars, cmdVars
<1>5. ASSUME NEW k \in Keys, Press(k) PROVE UNCHANGED <<published, wire>>
  BY <1>5 DEF Press, bridgeVars, cmdVars
<1>6. CASE Shutdown \/ UNCHANGED vars
  BY <1>6 DEF Shutdown, vars, bridgeVars, cmdVars
<1> QED BY <1>2, <1>3, <1>4, <1>5, <1>6 DEF Next

(* What the robot is sent is an issued command per member, never an older  *)
(* one after a newer.                                                      *)
THEOREM CommandRefines == Spec => CommandValue
<1>1. Init => CommandRegister!Init
  BY DEF Init, BridgeInit, CommandRegister!Init
<1> QED BY <1>1, InitInv, StepInv, CommandSteps, PTL
        DEF Spec, CommandValue, CommandRegister!Spec

(* Towards ROS: only RobotSend issues, only Report publishes.              *)
LEMMA StateSteps ==
  ASSUME IInv, [Next]_vars
  PROVE  [StateRegister!Next]_<<robot, reported>>
<1> USE DEF StateRegister!Next, StateRegister!Issue, StateRegister!Take
<1>1. CASE Thread(BridgeStep)
  <2>1. CASE Report
    <3>1. robot' = robot /\ reported' = report
      BY <2>1 DEF Report
    <3>2. /\ report \in [Readings -> 0..robot] /\ reported \in [Readings -> 0..robot]
          /\ robot \in Nat /\ \A r \in Readings : reported[r] <= report[r]
      BY BridgeAssumption DEF IInv, TypeOK, BridgeTypeOK, NothingOvertakes, StateOrder
    <3> QED BY <3>1, <3>2
  <2>2. CASE RobotSend
    BY <2>2 DEF RobotSend
  <2>3. CASE ~Report /\ ~RobotSend
    BY <1>1, <2>3 DEF Thread, BridgeStep, CallbackStep, SendStep, RecvStep, Call, Store, Read,
       Send, SetSend, Recv, GetRecv, stateVars
  <2> QED BY <2>1, <2>2, <2>3
<1>2. CASE sendCmd \/ Tick \/ EnterExit
  BY <1>2 DEF sendCmd, Tick, spinOnce, EnterExit, bridgeVars, stateVars
<1>3. CASE Keyboard
  BY <1>3 DEF Keyboard, ReadKey, Timeout, PublishTwist, Publish, bridgeVars, stateVars
<1>4. ASSUME NEW k \in Keys, Press(k) PROVE UNCHANGED <<robot, reported>>
  BY <1>4 DEF Press, bridgeVars, stateVars
<1>5. CASE Shutdown \/ UNCHANGED vars
  BY <1>5 DEF Shutdown, vars, bridgeVars, stateVars
<1> QED BY <1>1, <1>2, <1>3, <1>4, <1>5 DEF Next

(* What ROS is told is a state the robot sent per member, never an older   *)
(* one after a newer.                                                      *)
THEOREM StateRefines == Spec => StateValue
<1>1. Init => StateRegister!Init
  BY DEF Init, BridgeInit, StateRegister!Init
<1> QED BY <1>1, InitInv, StepInv, StateSteps, PTL
        DEF Spec, StateValue, StateRegister!Spec

(* MOVE_BASE: only a tick changes the velocity used.                       *)
LEMMA MoveBaseSteps ==
  ASSUME IInv, [Next]_vars
  PROVE  [MoveBaseRegister!Next]_<<published, [f \in {"velocity"} |-> mbUsed]>>
<1> USE DEF MoveBaseRegister!Next, MoveBaseRegister!Issue, MoveBaseRegister!Take
<1>1. CASE Tick
  <2>1. published' = published /\ mbUsed' = mbVel
    BY <1>1 DEF Tick, spinOnce
  <2>2. mbVel \in 0..published /\ mbUsed <= mbVel
    BY DEF IInv, TypeOK, NothingOvertakes
  <2> QED BY <2>1, <2>2
<1>2. CASE Keyboard
  BY <1>2 DEF Keyboard, ReadKey, Timeout, PublishTwist, Publish, bridgeVars, mbVars
<1>3. CASE Thread(BridgeStep)
  BY <1>3 DEF Thread, mbVars, BridgeStep, CallbackStep, SendStep, RecvStep, Call, Store, Read,
       Report, Send, SetSend, Recv, GetRecv, RobotSend, cmdVars
<1>4. CASE sendCmd \/ EnterExit \/ Shutdown \/ UNCHANGED vars
  BY <1>4 DEF sendCmd, spinOnce, EnterExit, Shutdown, vars, bridgeVars, mbVars
<1>5. ASSUME NEW k \in Keys, Press(k) PROVE UNCHANGED <<published, mbUsed>>
  BY <1>5 DEF Press, bridgeVars, mbVars
<1> QED BY <1>1, <1>2, <1>3, <1>4, <1>5 DEF Next

(* What MOVE_BASE walks with is a twist that was published, never an older *)
(* one after a newer.                                                      *)
THEOREM MoveBaseRefines == Spec => MoveBaseValue
<1>1. Init => MoveBaseRegister!Init
  BY DEF Init, BridgeInit, MoveBaseRegister!Init
<1> QED BY <1>1, InitInv, StepInv, MoveBaseSteps, PTL
        DEF Spec, MoveBaseValue, MoveBaseRegister!Spec
============================================================================
