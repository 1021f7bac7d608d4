---------------------------- MODULE ControlLoop ----------------------------
(***************************************************************************)
(* unitree_guide's control loop: main.cpp calls FSM::run every dt (2 ms)   *)
(* until Ctrl-C, beside the keyboard thread of CmdPanel.  A tick sends the *)
(* command image computed in the tick before, copies the panel, checks     *)
(* that the robot is upright, and runs the current state or carries out a  *)
(* change of state.  The keyboard may interrupt a tick between any two of  *)
(* its accesses to the panel.                                              *)
(***************************************************************************)
EXTENDS States, CmdPanel

VARIABLES
  running,          \* cleared by the SIGINT handler
  pc,               \* the next part of FSM::run
  current, next,    \* _currentState, _nextState
  mode,             \* _mode
  shared,           \* what the states write, see States
  sent,             \* the last command image given to the motors
  lowCmd, lowValue, \* lowState->userCmd, lowState->userValue
  tilted,           \* lowState: the body's z axis is 60 degrees or more off
  \* History, read by no action:
  stopSeen,         \* ticks in a row that have read L2_B
  tiltSeen,         \* ticks in a row that found the robot tilted, no key since
  stale, lowStale,  \* userValue, lowValue: from before the last zeroing
  loadStale,        \* the value the keyboard thread holds: from before it
  lost,             \* the thread has written such a value back since
  staleRuns         \* runs since then given an older stick: 0, 1, 2 for more

fsmVars == <<current, next, mode, shared>>
stickHistory == <<stale, lowStale, loadStale, lost, staleRuns>>
history == <<stopSeen, tiltSeen, stickHistory>>
vars == <<panel, kbVars, running, pc, fsmVars, sent, lowCmd, lowValue, tilted, history>>

Cap == 4            \* the counters of the history stop here
More(n) == IF n < Cap THEN n + 1 ELSE Cap

---------------------------------------------------------------------------
(* FSM::FSM ends with initialize(), which enters Passive.                  *)
Init ==
  /\ PanelInit
  /\ running = TRUE /\ pc = "sendRecv"
  /\ current = "PASSIVE" /\ next = "PASSIVE" /\ mode = "NORMAL"
  /\ shared = Passive_enter([cmd |-> Damp, wave |-> "SWING_ALL", percent |-> 0])
  /\ sent = Damp
  /\ lowCmd = "NONE" /\ lowValue = 0 /\ tilted = FALSE
  /\ stopSeen = 0 /\ tiltSeen = 0
  /\ stale = FALSE /\ lowStale = FALSE /\ loadStale = FALSE
  /\ lost = FALSE /\ staleRuns = 0

(* The while loop of main, and IOSDK::sendRecv up to the copy of userCmd:  *)
(* the motors get the image, the measured attitude is anything.            *)
sendRecv ==
  /\ pc = "sendRecv" /\ running
  /\ sent' = shared.cmd
  /\ tilted' \in BOOLEAN
  /\ lowCmd' = userCmd
  /\ stopSeen' = IF userCmd = "L2_B" THEN More(stopSeen) ELSE 0
  /\ pc' = "copyValue"
  /\ UNCHANGED <<panel, kbVars, running, fsmVars, lowValue, tiltSeen, stickHistory>>

(* IOSDK::sendRecv copies userValue.                                       *)
copyValue ==
  /\ pc = "copyValue"
  /\ lowValue' = userValue /\ lowStale' = stale
  /\ pc' = "checkSafty"
  /\ UNCHANGED <<panel, kbVars, running, fsmVars, sent, lowCmd, tilted, stopSeen, tiltSeen,
                 stale, loadStale, lost, staleRuns>>

(* mutant: the robot is made passive only if no command is on the panel *)
checkSafty_Command ==
  /\ pc = "checkSafty"
  /\ userCmd' = IF tilted /\ userCmd = "NONE" THEN "L2_B" ELSE userCmd
  /\ tiltSeen' = IF tilted THEN More(tiltSeen) ELSE 0
  /\ pc' = "state"
  /\ UNCHANGED <<userValue, kbVars, running, fsmVars, sent, lowCmd, lowValue, tilted,
                 stopSeen, stickHistory>>

(* A tilted robot gets L2_B into the panel, for the next tick to read.     *)
checkSafty ==
  /\ pc = "checkSafty"
  /\ userCmd' = IF tilted THEN "L2_B" ELSE userCmd
  /\ tiltSeen' = IF tilted THEN More(tiltSeen) ELSE 0
  /\ pc' = "state"
  /\ UNCHANGED <<userValue, kbVars, running, fsmVars, sent, lowCmd, lowValue, tilted,
                 stopSeen, stickHistory>>

(* The count of runs that are given an older stick, after one more run.    *)
StaleAfterRun ==
  IF lowStale /\ lowValue # 0 THEN (IF staleRuns = 0 THEN 1 ELSE 2) ELSE staleRuns

(* FSMMode::NORMAL: run the state, then see where the command leads.       *)
Normal ==
  /\ mode = "NORMAL"
  /\ shared' \in run(current, shared)
  /\ LET n == checkChange(current, lowCmd)
     IN  IF n # current THEN mode' = "CHANGE" /\ next' = n
                        ELSE UNCHANGED <<mode, next>>
  /\ staleRuns' = StaleAfterRun
  /\ UNCHANGED <<current, userValue, stale, lowStale, loadStale, lost>>

(* mutant: only the states that use the stick clear it, as they leave *)
StickAfter_ExitOnly(old, new) == IF old \in ZeroOnExit THEN 0 ELSE userValue

(* zeroCmdPanel is called in the exit of the one state or the enter of the *)
(* other.                                                                  *)
Zeroes(old, new) == old \in ZeroOnExit \/ new \in ZeroOnEnter
StickAfter(old, new) == IF Zeroes(old, new) THEN 0 ELSE userValue

(* A zeroing makes every stick older that is off the middle and still      *)
(* about: the copy given to the run below, what the thread has read and    *)
(* will write, and the panel's own, should it not be zero.                 *)
NoteZeroing ==
  IF Zeroes(current, next)
  THEN /\ stale' = (userValue' # 0)
       /\ lowStale' = (lowValue # 0)
       /\ loadStale' = (kbPc = "store" /\ loaded # 0)
       /\ lost' = FALSE
       /\ staleRuns' = IF lowValue # 0 THEN 1 ELSE 0
  ELSE /\ staleRuns' = StaleAfterRun
       /\ UNCHANGED <<stale, lowStale, loadStale, lost>>

(* FSMMode::CHANGE: leave the old state, enter the new one and run it, in  *)
(* the same tick and with the command and stick copied before.             *)
Change ==
  /\ mode = "CHANGE"
  /\ shared' \in run(next, enter(next, exit(current, shared)))
  /\ current' = next
  /\ mode' = "NORMAL"
  /\ userValue' = StickAfter(current, next)
  /\ NoteZeroing
  /\ UNCHANGED next

runState ==
  /\ pc = "state"
  /\ Normal \/ Change
  /\ pc' = "sendRecv"
  /\ UNCHANGED <<userCmd, kbVars, running, sent, lowCmd, lowValue, tilted, stopSeen, tiltSeen>>

(* Ctrl-C: the loop ends after the tick in progress.                       *)
ShutDown ==
  /\ running
  /\ running' = FALSE
  /\ UNCHANGED <<panel, kbVars, pc, fsmVars, sent, lowCmd, lowValue, tilted, history>>

(* What the thread reads is as old as the panel; what it writes back is as *)
(* old as what it had read, and undoes a zeroing that fell in between.     *)
NoteKey ==
  \/ /\ kbPc = "select"
     /\ stale' = (stale /\ key' # " ")
     /\ UNCHANGED <<loadStale, lost>>
  \/ /\ kbPc = "test"
     /\ loadStale' = (kbPc' = "store" /\ stale)
     /\ UNCHANGED <<stale, lost>>
  \/ /\ kbPc = "store"
     /\ stale' = IF key \in {"w", "s"} THEN loadStale ELSE stale
     /\ lost' = (lost \/ (key \in {"w", "s"} /\ loadStale))
     /\ loadStale' = FALSE

(* A step of the keyboard thread.                                          *)
Operator ==
  /\ KeyBoard
  /\ tiltSeen' = IF kbPc = "select" THEN 0 ELSE tiltSeen
  /\ NoteKey
  /\ UNCHANGED <<running, pc, fsmVars, sent, lowCmd, lowValue, tilted, stopSeen, lowStale,
                 staleRuns>>

Tick == sendRecv \/ copyValue \/ checkSafty \/ runState

Next == Tick \/ Operator \/ ShutDown

Spec == Init /\ [][Next]_vars

(* The loop runs under SCHED_FIFO and never blocks; the operator may stop. *)
FairSpec == Spec /\ WF_vars(Tick)

---------------------------------------------------------------------------
TypeOK ==
  /\ PanelTypeOK
  /\ running \in BOOLEAN
  /\ pc \in {"sendRecv", "copyValue", "checkSafty", "state"}
  /\ current \in StateName /\ next \in StateName
  /\ mode \in {"NORMAL", "CHANGE"}
  /\ shared \in Shared
  /\ sent \in MotorCmd
  /\ lowCmd \in UserCommand /\ lowValue \in Stick
  /\ tilted \in BOOLEAN
  /\ stopSeen \in 0..Cap /\ tiltSeen \in 0..Cap /\ staleRuns \in 0..2
  /\ stale \in BOOLEAN /\ lowStale \in BOOLEAN /\ loadStale \in BOOLEAN
  /\ lost \in BOOLEAN

(* Every state writes only some fields of the image, and leaves the rest   *)
(* to the states before it: along no path does a field survive that the    *)
(* current state does not mean, such as a trot's joint speed under         *)
(* BalanceTest's gains or a force torque under Passive's damping.          *)
NoLeftovers == shared.cmd \in Image(current) /\ shared.wave \in Wave(current)

(* The emergency stop is bounded: when four ticks in a row have found L2_B *)
(* on the panel, the image sent is Passive's damping, whatever state or    *)
(* change of state the first of them fell in.                              *)
StopLatency == stopSeen = Cap => sent = Damp

(* A robot that is tilted in four ticks in a row while no key is pressed   *)
(* is in Passive at the end of the fourth, from any state: checkSafty has  *)
(* to go through the panel, the copy and the change of state for that.     *)
TiltLatency ==
  tiltSeen = Cap /\ pc = "sendRecv" => current = "PASSIVE" /\ shared.cmd = Damp

(* FixedStand always ramps up from where the robot is: the ramp of an      *)
(* earlier stand, finished or interrupted, is never resumed.               *)
RampRestarts == current # "FIXEDSTAND" => shared.percent = 0

(* After zeroCmdPanel one run is still given the stick copied before it.   *)
(* More are given an older stick only if the keyboard thread wrote back a  *)
(* value it had read before the zeroing (KeyBoard.cpp:56 is a read and a   *)
(* write, with no lock): the only way a zeroing is undone.                 *)
StaleOnlyIfLost == staleRuns > 1 => lost

(* The command is sticky, so the machine follows the last one until it     *)
(* rests: no command sends it back and forth between states at 500 Hz.     *)
ComesToRest ==
  <>[]running /\ <>[][FALSE]_userCmd =>
    <>[](mode = "NORMAL" /\ checkChange(current, userCmd) = current)

(* enumClass.h:25 "L2_B, // passive": a stop that reached the panel makes  *)
(* the robot passive, unless the program is ended.                         *)
StopHonoured == userCmd = "L2_B" ~> (current = "PASSIVE" \/ ~running)
============================================================================
