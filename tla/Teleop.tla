------------------------------- MODULE Teleop -------------------------------
(***************************************************************************)
(* Driving with the keyboard (keyboard_control.launch): the node           *)
(* control_via_keyboard publishes a twist on /cmd_vel for every key it     *)
(* reads, and a zero twist whenever no key has come for 0.1 s.  twist_sub  *)
(* (Bridge) turns the twist into a walking command for the robot; under    *)
(* junior_ctrl, State_move_base takes its velocity from the same topic.    *)
(*                                                                         *)
(* A tick of MOVE_BASE uses the velocity and then runs the callback, so    *)
(* the velocity used may be a tick old, and one that was received in an    *)
(* earlier stay in the state is used again on entry.  With the simulation's*)
(* back end the callback also runs at the start of each tick of any state. *)
(***************************************************************************)
EXTENDS Bridge, Integers, Sequences

CONSTANTS
  Keys,     \* that may be pressed
  MaxTyped  \* bound: keys waiting in the terminal

VARIABLES
  running, \* control_via_keyboard
  typed,   \* keys waiting
  twists,  \* the twists published
  node,    \* what listens to /cmd_vel: the high and the low level exclude each other
  mbIn,    \* is MOVE_BASE the current state?
  mbVel,   \* _vx, _vy, _wz: the twist they are from; 0: uninitialised
  mbUsed   \* what setHighCmd was last called with

keyVars == <<running, typed>>
mbVars == <<node, mbIn, mbVel, mbUsed>>
vars == <<bridgeVars, keyVars, twists, mbVars>>

Twist == [x : {-5, 0, 5}, y : {-5, 0, 5}, z : {-10, 0, 10}]
Stop == [x |-> 0, y |-> 0, z |-> 0]

(* The switch on the key; velocities in tenths.                            *)
TwistOf(ch) ==
  CASE ch = "w" -> [Stop EXCEPT !.x = 5]
    [] ch = "s" -> [Stop EXCEPT !.x = -5]
    [] ch = "a" -> [Stop EXCEPT !.y = 5]
    [] ch = "d" -> [Stop EXCEPT !.y = -5]
    [] ch = "j" -> [Stop EXCEPT !.z = 10]
    [] ch = "l" -> [Stop EXCEPT !.z = -10]
    [] OTHER -> Stop

Init ==
  /\ BridgeInit
  /\ running = TRUE /\ typed = <<>> /\ twists = <<>>
  /\ node \in {"twist_sub", "junior_ctrl"}
  /\ mbIn = FALSE /\ mbVel = 0 /\ mbUsed = 0

---------------------------------------------------------------------------
(* The operator presses a key (or the terminal repeats it).  The bound     *)
(* leaves room for every key to be read, and for a timeout after it.       *)
Press(k) ==
  /\ Len(typed) < MaxTyped
  /\ published + Len(typed) < MaxCmd - 1
  /\ typed' = Append(typed, k)
  /\ UNCHANGED <<bridgeVars, running, twists, mbVars>>

PublishTwist(t) ==
  /\ Publish
  /\ twists' = Append(twists, t)
  /\ UNCHANGED mbVars

(* One turn of the loop in which getch returns a key.                      *)
ReadKey ==
  /\ running /\ typed # <<>>
  /\ typed' = Tail(typed)
  /\ IF Head(typed) = "q"
     THEN running' = FALSE /\ UNCHANGED <<bridgeVars, twists, mbVars>>
     ELSE PublishTwist(TwistOf(Head(typed))) /\ UNCHANGED running

(* mutant: the twist is not set to zero at the start of the loop *)
Timeout_KeepTwist ==
  /\ running /\ typed = <<>>
  /\ PublishTwist(IF twists = <<>> THEN Stop ELSE twists[Len(twists)])
  /\ UNCHANGED keyVars

(* One in which it returns no key (VTIME).                                 *)
Timeout ==
  /\ running /\ typed = <<>>
  /\ PublishTwist(Stop)
  /\ UNCHANGED keyVars

(* Ctrl-C outside getch, or a shutdown: ros::ok() is false.                *)
Shutdown ==
  /\ running
  /\ running' = FALSE
  /\ UNCHANGED <<bridgeVars, typed, twists, mbVars>>

---------------------------------------------------------------------------
(* mutant: the velocity is taken from an empty queue too *)
spinOnce_Empty ==
  /\ mbVel' = inbox
  /\ inbox' = 0
  /\ UNCHANGED <<published, msg, toStore, high_cmd, udpSend, toSend, wire, stateVars>>

(* mutant: a twist that does not drive is not stored *)
spinOnce_NonZero ==
  /\ mbVel' = IF inbox = 0 \/ twists[inbox] = Stop THEN mbVel ELSE inbox
  /\ inbox' = 0
  /\ UNCHANGED <<published, msg, toStore, high_cmd, udpSend, toSend, wire, stateVars>>

(* spinOnce of junior_ctrl: the callback, if a twist has come.             *)
spinOnce ==
  /\ mbVel' = IF inbox = 0 THEN mbVel ELSE inbox
  /\ inbox' = 0
  /\ UNCHANGED <<published, msg, toStore, high_cmd, udpSend, toSend, wire, stateVars>>

(* State_move_base::getUserCmd: setHighCmd(_vx, _vy, _wz), then spinOnce.  *)
Tick ==
  /\ mbIn
  /\ mbUsed' = mbVel
  /\ spinOnce
  /\ UNCHANGED <<keyVars, twists, node, mbIn>>

(* IOROS::sendCmd: spinOnce in every tick of every state.  With the robot's *)
(* own back end it never runs, so no fairness is assumed of it.            *)
sendCmd ==
  /\ node = "junior_ctrl"
  /\ spinOnce
  /\ UNCHANGED <<keyVars, twists, node, mbIn, mbUsed>>

(* The FSM enters and leaves the state: neither enter nor exit, which are  *)
(* State_Trotting's, touches the velocity members or the queue.            *)
EnterExit ==
  /\ node = "junior_ctrl"
  /\ mbIn' = ~mbIn
  /\ UNCHANGED <<bridgeVars, keyVars, twists, node, mbVel, mbUsed>>

(* A thread of twist_sub takes a step.                                     *)
Thread(step) == node = "twist_sub" /\ step /\ UNCHANGED <<keyVars, twists, mbVars>>

Keyboard == ReadKey \/ Timeout
Next ==
  \/ \E k \in Keys : Press(k)
  \/ Keyboard
  \/ Shutdown
  \/ Thread(BridgeStep)
  \/ sendCmd \/ Tick \/ EnterExit

Spec == Init /\ [][Next]_vars

(* Every thread is a loop that the operating system keeps scheduling, and  *)
(* getch returns after 0.1 s at the latest.                                *)
FairSpec ==
  /\ Spec
  /\ WF_vars(Thread(CallbackStep))
  /\ WF_vars(Thread(SendStep))
  /\ WF_vars(Thread(RecvStep))
  /\ WF_vars(Keyboard)
  /\ WF_vars(Tick)

---------------------------------------------------------------------------
(* The members of command n that make the robot move.                      *)
Drives(f, n) ==
  /\ n # 0
  /\ \/ f = "velocity" /\ (twists[n].x # 0 \/ twists[n].y # 0)
     \/ f = "yawSpeed" /\ twists[n].z # 0

TypeOK ==
  /\ BridgeTypeOK
  /\ running \in BOOLEAN /\ typed \in Seq(Keys)
  /\ twists \in Seq(Twist) /\ Len(twists) = published
  /\ node \in {"twist_sub", "junior_ctrl"} /\ mbIn \in BOOLEAN
  /\ mbVel \in 0..published /\ mbUsed \in 0..published

(* No stage of the way to the robot, of the way back or of the way to      *)
(* MOVE_BASE holds anything newer than the stage before it.                *)
NothingOvertakes ==
  /\ CmdOrder
  /\ StateOrder
  /\ mbUsed <= mbVel
  /\ inbox # 0 => mbVel < inbox

(* The last twist published reaches the robot whole, though twists before  *)
(* it may be dropped or mixed - also if the node quit after it.            *)
LastTwistArrives ==
  node = "twist_sub" => <>[](\A f \in Members : wire[f] = published)

(* While the node runs, a robot whose operator no longer presses keys      *)
(* comes to rest.                                                          *)
ReleasedKeysStop ==
  <>[](running => \A f \in Members : ~Drives(f, wire[f]))

(* So does one in MOVE_BASE.                                               *)
MoveBaseStops ==
  <>[]mbIn => <>[](running => \A f \in Members : ~Drives(f, mbUsed))

CommandRegister == INSTANCE LatestValue WITH issued <- published, held <- wire
StateRegister ==
  INSTANCE LatestValue WITH Members <- Readings, issued <- robot, held <- reported
MoveBaseRegister ==
  INSTANCE LatestValue WITH
    Members <- {"velocity"}, issued <- published, held <- [f \in {"velocity"} |-> mbUsed]
CommandValue == CommandRegister!Spec
StateValue == StateRegister!Spec
MoveBaseValue == MoveBaseRegister!Spec
============================================================================
