----------------------------- MODULE Simulation -----------------------------
(***************************************************************************)
(* The Gazebo simulation, seen from one joint.  Four threads, and that of  *)
(* the RealtimePublisher:                                                  *)
(*   control    junior_ctrl's loop with IOROS: publishes the joint's       *)
(*              command, runs the callbacks that wait, copies its state;   *)
(*   spinner    runs the callbacks while IOROS is constructed;             *)
(*   callback   UnitreeJointController::setCommandCB, in Gazebo;           *)
(*   update     UnitreeJointController::update, in Gazebo's world thread.  *)
(* callback and update share lastCmd, which no lock protects, and a        *)
(* RealtimeBuffer, which has one.  Structs are copied member by member.    *)
(*                                                                         *)
(* A command or a state is the number of the message it is from (0: what   *)
(* starting() left), a struct one number per member.  Command 0 brakes the *)
(* joint, the commands of the control loop drive it (mode PMSM).  ROS,     *)
(* realtime_tools and Gazebo are external.                                 *)
(***************************************************************************)
EXTENDS Naturals, SequencesExt

CONSTANTS
  Members,   \* of a MotorCmd
  Readings,  \* of a MotorState
  MaxCmd,    \* bound: commands published
  MaxState   \* bound: states of the joint

ASSUME SimulationAssumption ==
  /\ "mode" \in Members
  /\ MaxCmd \in Nat
  /\ MaxState \in Nat

VARIABLES
  phase,       \* of control: "construct", "join", "send", "spin", "read"
  published,   \* commands published
  commands,    \* those on their way to the controller
  callback,    \* "idle", "store", "write"
  msg,         \* the command it runs for
  toDo,        \* members it has yet to store, or to write
  lastCmd,
  nonRT, RT,   \* the two halves of the RealtimeBuffer 'command'
  newData,     \* new_data_available_
  update,      \* "idle", "copy", "use"
  toCopy,      \* members it has yet to copy, or to use
  servo,       \* the command each member of servoCmd is from; mode: the tested
  brake,       \* does servoCmd brake the joint?
  states,      \* states the joint has been in
  turn,        \* whose turn the RealtimePublisher is: "update", "publisher"
  toSend,      \* the state it holds
  spinner,     \* does the spinner's thread run?
  waiting,     \* the state in the subscriber's queue, of length 1; 0: empty
  spinning,    \* the state the spinner runs the callback for; 0: none
  toSet,       \* members that callback has yet to set
  lowState,    \* _lowState of IOROS
  state        \* what the control loop was given

controlVars == <<phase, published, state>>
callbackVars == <<commands, callback, msg, toDo>>
bufferVars == <<nonRT, RT, newData>>
updateVars == <<update, toCopy, servo, brake, states>>
pathVars == <<turn, toSend>>
spinnerVars == <<spinner, waiting, spinning, toSet, lowState>>
vars == <<controlVars, callbackVars, lastCmd, bufferVars, updateVars, pathVars,
          spinnerVars>>

Init ==
  /\ phase = "construct" /\ published = 0
  /\ commands = <<>> /\ callback = "idle" /\ msg = 0 /\ toDo = {}
  /\ lastCmd = [f \in Members |-> 0]
  /\ nonRT = lastCmd /\ RT = lastCmd /\ newData = FALSE
  /\ update = "idle" /\ toCopy = {} /\ servo = lastCmd /\ brake = FALSE
  /\ states = 0 /\ turn = "update" /\ toSend = 0
  /\ spinner = TRUE /\ waiting = 0 /\ spinning = 0 /\ toSet = {}
  /\ lowState = [r \in Readings |-> 0] /\ state = lowState

---------------------------------------------------------------------------
(* Control: sendCmd (sendServoCmd), which spins once, and recvState.       *)

(* mutant: the spinner is not waited for *)
Waited_NoJoin ==
  /\ phase = "construct"
  /\ phase' = "send"
  /\ spinner' = FALSE
  /\ UNCHANGED <<published, state, callbackVars, lastCmd,
                 bufferVars, updateVars, pathVars, waiting, spinning, toSet, lowState>>

(* The end of the 0.3 s for the subscribers: IOROS's spinner is local to   *)
(* the constructor and is told to stop ...                                 *)
Waited ==
  /\ phase = "construct"
  /\ phase' = "join"
  /\ spinner' = FALSE
  /\ UNCHANGED <<published, state, callbackVars, lastCmd,
                 bufferVars, updateVars, pathVars, waiting, spinning, toSet, lowState>>

(* ... and waited for.                                                     *)
Joined ==
  /\ phase = "join" /\ spinning = 0
  /\ phase' = "send"
  /\ UNCHANGED <<published, state, callbackVars, lastCmd,
                 bufferVars, updateVars, pathVars, spinnerVars>>

(* The publisher's queue holds one command: the newest may replace the one *)
(* before.                                                                 *)
Queued(n) ==
  {Append(kept, n) : kept \in {commands} \cup {Front(q) : q \in {commands} \ {<<>>}}}

(* Beyond the bound the commands repeat the last.                          *)
sendCmd ==
  /\ phase = "send"
  /\ IF published < MaxCmd
     THEN published' = published + 1 /\ commands' \in Queued(published')
     ELSE UNCHANGED <<published, commands>>
  /\ phase' = "spin"
  /\ UNCHANGED <<state, callback, msg, toDo, lastCmd,
                 bufferVars, updateVars, pathVars, spinnerVars>>

(* mutant: without a message the state is cleared *)
spinOnce_Clear ==
  /\ phase = "spin"
  /\ lowState' = [r \in Readings |-> waiting]
  /\ waiting' = 0
  /\ phase' = "read"
  /\ UNCHANGED <<published, state, callbackVars, lastCmd,
                 bufferVars, updateVars, pathVars, spinner, spinning, toSet>>

(* ros::spinOnce: the callback that waits runs here, in this thread.       *)
spinOnce ==
  /\ phase = "spin"
  /\ IF waiting # 0 /\ spinning = 0
     THEN lowState' = [r \in Readings |-> waiting] /\ waiting' = 0
     ELSE UNCHANGED <<lowState, waiting>>
  /\ phase' = "read"
  /\ UNCHANGED <<published, state, callbackVars, lastCmd,
                 bufferVars, updateVars, pathVars, spinner, spinning, toSet>>

recvState ==
  /\ phase = "read"
  /\ state' = lowState
  /\ phase' = "send"
  /\ UNCHANGED <<published, callbackVars, lastCmd,
                 bufferVars, updateVars, pathVars, spinnerVars>>

Control == Waited \/ Joined \/ sendCmd \/ spinOnce \/ recvState

---------------------------------------------------------------------------
(* The spinner's thread runs the state callback.                           *)
Spin ==
  /\ spinner /\ waiting # 0 /\ spinning = 0
  /\ spinning' = waiting /\ waiting' = 0 /\ toSet' = Readings
  /\ UNCHANGED <<controlVars, callbackVars, lastCmd, bufferVars, updateVars,
                 pathVars, spinner, lowState>>

SpinSet ==
  /\ spinning # 0
  /\ \E r \in toSet :
       /\ lowState' = [lowState EXCEPT ![r] = spinning]
       /\ toSet' = toSet \ {r}
  /\ spinning' = IF toSet' = {} THEN 0 ELSE spinning
  /\ UNCHANGED <<controlVars, callbackVars, lastCmd, bufferVars, updateVars,
                 pathVars, spinner, waiting>>

Spinner == Spin \/ SpinSet

---------------------------------------------------------------------------
(* setCommandCB                                                            *)
Take ==
  /\ callback = "idle" /\ commands # <<>>
  /\ callback' = "store" /\ msg' = Head(commands) /\ toDo' = Members
  /\ commands' = Tail(commands)
  /\ UNCHANGED <<controlVars, lastCmd, bufferVars, updateVars, pathVars, spinnerVars>>

Store ==
  /\ callback = "store"
  /\ \E f \in toDo :
       lastCmd' = [lastCmd EXCEPT ![f] = msg] /\ toDo' = toDo \ {f}
  /\ UNCHANGED <<controlVars, commands, callback, msg, bufferVars, updateVars,
                 pathVars, spinnerVars>>

(* writeFromNonRT takes the buffer's lock ...                              *)
Lock ==
  /\ callback = "store" /\ toDo = {}
  /\ callback' = "write" /\ toDo' = Members
  /\ UNCHANGED <<controlVars, commands, msg, lastCmd, bufferVars, updateVars,
                 pathVars, spinnerVars>>

(* ... copies lastCmd, which it has by reference, and releases the lock.   *)
Write ==
  /\ callback = "write"
  /\ \E f \in toDo :
       nonRT' = [nonRT EXCEPT ![f] = lastCmd[f]] /\ toDo' = toDo \ {f}
  /\ UNCHANGED <<controlVars, commands, callback, msg, lastCmd, RT, newData,
                 updateVars, pathVars, spinnerVars>>

(* mutant: new_data_available_ is not set *)
Unlock_NoFlag ==
  /\ callback = "write" /\ toDo = {}
  /\ callback' = "idle"
  /\ UNCHANGED <<controlVars, commands, msg, toDo, lastCmd, bufferVars,
                 updateVars, pathVars, spinnerVars>>

Unlock ==
  /\ callback = "write" /\ toDo = {}
  /\ newData' = TRUE /\ callback' = "idle"
  /\ UNCHANGED <<controlVars, commands, msg, toDo, lastCmd, nonRT, RT,
                 updateVars, pathVars, spinnerVars>>

Callback == Take \/ Store \/ Lock \/ Write \/ Unlock

---------------------------------------------------------------------------
(* update(): readFromRT exchanges the halves if there is new data and the  *)
(* lock is free.                                                           *)

readFromRT ==
  /\ update = "idle"
  /\ IF callback # "write" /\ newData
     THEN RT' = nonRT /\ nonRT' = RT /\ newData' = FALSE
     ELSE UNCHANGED bufferVars
  /\ update' = "copy" /\ toCopy' = Members
  /\ UNCHANGED <<controlVars, callbackVars, lastCmd, servo, brake, states,
                 pathVars, spinnerVars>>

Copy ==
  /\ update = "copy"
  /\ \E f \in toCopy :
       lastCmd' = [lastCmd EXCEPT ![f] = RT[f]] /\ toCopy' = toCopy \ {f}
  /\ UNCHANGED <<controlVars, callbackVars, bufferVars, update, servo, brake,
                 states, pathVars, spinnerVars>>

(* The test for PMSM, which is the mode of every command but 0.            *)
TestPMSM ==
  /\ update = "copy" /\ toCopy = {}
  /\ update' = "use"
  /\ IF lastCmd["mode"] # 0
     THEN /\ toCopy' = Members \ {"mode"} /\ brake' = FALSE
          /\ servo' = [servo EXCEPT !["mode"] = lastCmd["mode"]]
     ELSE UNCHANGED <<toCopy, brake, servo>>
  /\ UNCHANGED <<controlVars, callbackVars, lastCmd, bufferVars, states,
                 pathVars, spinnerVars>>

Use ==
  /\ update = "use"
  /\ \E f \in toCopy :
       servo' = [servo EXCEPT ![f] = lastCmd[f]] /\ toCopy' = toCopy \ {f}
  /\ UNCHANGED <<controlVars, callbackVars, lastCmd, bufferVars, update, brake,
                 states, pathVars, spinnerVars>>

(* The test for BRAKE, the torque, the joint's new state, and trylock: a   *)
(* state the publisher's thread has no time for is dropped.                *)
Finish ==
  /\ update = "use" /\ toCopy = {}
  /\ brake' = (brake \/ lastCmd["mode"] = 0)
  /\ states' = IF states < MaxState THEN states + 1 ELSE states
  /\ IF turn = "update"
     THEN turn' = "publisher" /\ toSend' = states'
     ELSE UNCHANGED <<turn, toSend>>
  /\ update' = "idle"
  /\ UNCHANGED <<controlVars, callbackVars, lastCmd, bufferVars, toCopy, servo,
                 spinnerVars>>

Update == readFromRT \/ Copy \/ TestPMSM \/ Use \/ Finish

(* mutant: the turn is not given back *)
PublishState_KeepTurn ==
  /\ turn = "publisher"
  /\ waiting' = toSend
  /\ UNCHANGED <<controlVars, callbackVars, lastCmd, bufferVars, updateVars, turn,
                 toSend, spinner, spinning, toSet, lowState>>

(* The thread of RealtimePublisher; the newest state replaces the one that *)
(* waits.                                                                  *)
PublishState ==
  /\ turn = "publisher"
  /\ turn' = "update" /\ waiting' = toSend
  /\ UNCHANGED <<controlVars, callbackVars, lastCmd, bufferVars, updateVars,
                 toSend, spinner, spinning, toSet, lowState>>

Next ==
  \/ Control \/ Spinner
  \/ Callback \/ Update \/ PublishState

Spec == Init /\ [][Next]_vars

(* Every thread is a loop that its operating system keeps scheduling; the  *)
(* callback queue of a node is served in order.                            *)
FairSpec ==
  /\ Spec
  /\ WF_vars(Control) /\ WF_vars(Spinner) /\ WF_vars(Callback)
  /\ WF_vars(Update) /\ WF_vars(PublishState)

---------------------------------------------------------------------------
Commands == [Members -> 0..MaxCmd]
States == [Readings -> 0..MaxState]

TypeOK ==
  /\ phase \in {"construct", "join", "send", "spin", "read"}
  /\ published \in 0..MaxCmd /\ commands \in Seq(1..published)
  /\ callback \in {"idle", "store", "write"}
  /\ msg \in 0..published /\ toDo \subseteq Members
  /\ lastCmd \in Commands /\ nonRT \in Commands /\ RT \in Commands
  /\ newData \in BOOLEAN
  /\ update \in {"idle", "copy", "use"} /\ toCopy \subseteq Members
  /\ servo \in Commands /\ brake \in BOOLEAN
  /\ states \in 0..MaxState /\ turn \in {"update", "publisher"}
  /\ toSend \in 0..states /\ spinner \in BOOLEAN
  /\ waiting \in 0..states /\ spinning \in 0..states
  /\ toSet \subseteq Readings /\ lowState \in States /\ state \in States

(* The control loop is never given a state mixed of two messages, although *)
(* nothing is locked: by then its own thread runs the callbacks.           *)
WholeState ==
  \A r, s \in Readings : state[r] = state[s]

(* Nor does it go back to an older state.                                  *)
StateRegister ==
  INSTANCE LatestValue WITH Members <- Readings, issued <- states, held <- state
StateValue == StateRegister!Spec

(* A state in which the joint stays reaches the control loop, although     *)
(* update drops the states the publisher has no time for.                  *)
StateArrives == <>[](\A r \in Readings : state[r] = states)

(* If setCommandCB and update never overlap, the joint executes the last   *)
(* command whole.                                                          *)
UndisturbedCommandArrives ==
  [](callback = "idle" \/ update = "idle") =>
    <>[](\A f \in Members : servo[f] = published)

(* Between two updates, the joint executes one command.                    *)
WholeCommand ==
  update = "idle" => \A f, g \in Members : servo[f] = servo[g]
============================================================================
