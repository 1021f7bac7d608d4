------------------------- MODULE ControlLoopProofs -------------------------
(***************************************************************************)
(* Proofs about ControlLoop, for every set of keys, stick range and ramp   *)
(* length.                                                                 *)
(***************************************************************************)
EXTENDS ControlLoop, TLAPS

---------------------------------------------------------------------------
(* The states: what their operators return. *)

(* A state reached by checkChange is a state, and BalanceTest, SwingTest   *)
(* and StepTest are reached from FixedStand only.                          *)
LEMMA Destinations ==
  ASSUME NEW s \in StateName, NEW c \in UserCommand
  PROVE  /\ checkChange(s, c) \in StateName
         /\ checkChange(s, c) \in {"BALANCETEST", "SWINGTEST", "STEPTEST"} =>
              s = "FIXEDSTAND" \/ checkChange(s, c) = s
BY DEF StateName, UserCommand, checkChange, Passive_checkChange, FixedStand_checkChange,
       FreeStand_checkChange, Trotting_checkChange, MoveBase_checkChange,
       BalanceTest_checkChange, SwingTest_checkChange, StepTest_checkChange

(* L2_B leads every state to Passive.                                      *)
LEMMA StopLeadsToPassive ==
  ASSUME NEW s \in StateName
  PROVE  checkChange(s, "L2_B") = "PASSIVE"
BY DEF StateName, checkChange, Passive_checkChange, FixedStand_checkChange,
       FreeStand_checkChange, Trotting_checkChange, MoveBase_checkChange,
       BalanceTest_checkChange, SwingTest_checkChange, StepTest_checkChange

(* What the states write stays within its types.                           *)
LEMMA ExitType ==
  ASSUME NEW s \in StateName, NEW r \in Shared
  PROVE  exit(s, r) \in Shared
<1>1. FixedStand_exit(r) \in Shared
  BY DurationAssumption DEF FixedStand_exit, Shared
<1>2. Trotting_exit(r) \in Shared /\ StepTest_exit(r) \in Shared
  BY DEF Trotting_exit, StepTest_exit, Shared, WaveStatus
<1> QED BY <1>1, <1>2 DEF exit

LEMMA EnterType ==
  ASSUME NEW s \in StateName, NEW r \in Shared
  PROVE  enter(s, r) \in Shared
<1>1. Damp \in MotorCmd /\ Stand \in MotorCmd /\ [Stand EXCEPT !.gain = "swing0"] \in MotorCmd
  BY DEF Damp, Stand, MotorCmd
<1>2. Passive_enter(r) \in Shared
  BY <1>1 DEF Passive_enter, Shared, WaveStatus
<1>3. FixedStand_enter(r) \in Shared /\ FreeStand_enter(r) \in Shared
  BY <1>1 DEF FixedStand_enter, FreeStand_enter, Shared, WaveStatus
<1>4. SwingTest_enter(r) \in Shared
  BY <1>1 DEF SwingTest_enter, Shared, WaveStatus
<1>5. BalanceTest_enter(r) \in Shared /\ StepTest_enter(r) \in Shared
  BY DEF BalanceTest_enter, StepTest_enter, Shared, WaveStatus
<1> QED BY <1>2, <1>3, <1>4, <1>5 DEF enter

LEMMA RunType ==
  ASSUME NEW s \in StateName, NEW r \in Shared
  PROVE  run(s, r) \subseteq Shared
<1>1. /\ r.cmd \in MotorCmd /\ r.wave \in WaveStatus
      /\ r.percent \in 0..Duration
  BY DEF Shared
<1>2. FixedStand_run(r) \in Shared
  <2>1. (IF r.percent < Duration THEN r.percent + 1 ELSE Duration) \in 0..Duration
    BY <1>1, DurationAssumption
  <2>2. [r.cmd EXCEPT !.q = "ramp"] \in MotorCmd
    BY <1>1 DEF MotorCmd
  <2> QED BY <1>1, <2>1, <2>2 DEF FixedStand_run, Shared
<1>3. FreeStand_run(r) \in Shared
  BY DEF FreeStand_run, Shared, MotorCmd
<1>4. BalanceTest_run(r) \in Shared
  BY DEF BalanceTest_run, Shared, MotorCmd
<1>5. StepTest_run(r) \in Shared
  BY DEF StepTest_run, Shared, MotorCmd
<1>6. SwingTest_run(r) \subseteq Shared
  <2>1. ASSUME NEW t \in {"force", "unset"}
        PROVE [r EXCEPT !.cmd = [@ EXCEPT !.q = "goal", !.tau = t]] \in Shared
    <3>1. [r.cmd EXCEPT !.q = "goal", !.tau = t] \in MotorCmd
      BY <1>1 DEF MotorCmd
    <3> QED BY <1>1, <3>1 DEF Shared
  <2> QED BY <2>1 DEF SwingTest_run
<1>7. Trotting_run(r) \subseteq Shared
  <2> DEFINE trot == [q |-> "goal", dq |-> "goal", gain |-> "perLeg", tau |-> "force"]
  <2>1. trot \in MotorCmd
    BY DEF MotorCmd
  <2>2. ASSUME NEW w \in {"WAVE_ALL", "STANCE_ALL"}
        PROVE [r EXCEPT !.cmd = trot, !.wave = w] \in Shared
    BY <1>1, <2>1 DEF Shared, WaveStatus
  <2> QED BY <2>2 DEF Trotting_run
<1> QED BY <1>2, <1>3, <1>4, <1>5, <1>6, <1>7 DEF run

---------------------------------------------------------------------------
(* What exit, enter and run write. *)

LEMMA ExitWrites ==
  ASSUME NEW s \in StateName, NEW r \in Shared, s # "FIXEDSTAND" => r.percent = 0
  PROVE  exit(s, r) \in Shared /\ exit(s, r).cmd = r.cmd /\ exit(s, r).percent = 0
<1>1. exit(s, r) \in Shared
  BY ExitType
<1>2. exit(s, r).cmd = r.cmd /\ exit(s, r).percent = 0
  BY DEF exit, FixedStand_exit, Trotting_exit, StepTest_exit, Shared, StateName
<1> QED BY <1>1, <1>2

LEMMA EnterWrites ==
  ASSUME NEW n \in StateName, NEW r \in Shared
  PROVE  /\ enter(n, r) \in Shared
         /\ enter(n, r).percent = r.percent
         /\ n = "PASSIVE" => enter(n, r).cmd = Damp
         /\ n \in {"FIXEDSTAND", "FREESTAND"} => enter(n, r).cmd = Stand
         /\ n = "SWINGTEST" => enter(n, r).cmd = [Stand EXCEPT !.gain = "swing0"]
         /\ n \in {"BALANCETEST", "STEPTEST"} => enter(n, r).cmd = r.cmd
         /\ n \notin {"TROTTING", "MOVE_BASE"} => enter(n, r).wave \in Wave(n)
<1>1. enter(n, r) \in Shared
  BY EnterType
<1>2. CASE n = "PASSIVE"
  BY <1>1, <1>2 DEF enter, Passive_enter, Wave, Shared
<1>3. CASE n = "FIXEDSTAND"
  BY <1>1, <1>3 DEF enter, FixedStand_enter, Wave, Shared
<1>4. CASE n = "FREESTAND"
  BY <1>1, <1>4 DEF enter, FreeStand_enter, Wave, Shared
<1>5. CASE n = "SWINGTEST"
  BY <1>1, <1>5 DEF enter, SwingTest_enter, Wave, Shared
<1>6. CASE n = "BALANCETEST"
  BY <1>1, <1>6 DEF enter, BalanceTest_enter, Wave, Shared
<1>7. CASE n = "STEPTEST"
  BY <1>1, <1>7 DEF enter, StepTest_enter, Wave, Shared
<1>8. CASE n \in {"TROTTING", "MOVE_BASE"}
  BY <1>1, <1>8 DEF enter
<1> QED BY <1>2, <1>3, <1>4, <1>5, <1>6, <1>7, <1>8 DEF StateName

(* A run completes the image: given an image of the state, or what enter   *)
(* makes of FixedStand's, the result is an image of the state.             *)
Ready(n, c) ==
  \/ c \in Image(n)
  \/ n = "FIXEDSTAND" /\ c = Stand
  \/ n = "FREESTAND" /\ c = Stand
  \/ n = "SWINGTEST" /\ c = [Stand EXCEPT !.gain = "swing0"]
  \/ n \in {"BALANCETEST", "STEPTEST"} /\ c \in Image("FIXEDSTAND")
  \/ n \in {"TROTTING", "MOVE_BASE"}

LEMMA RunWrites ==
  ASSUME NEW n \in StateName, NEW r \in Shared, NEW r2 \in run(n, r), Ready(n, r.cmd),
         n \notin {"TROTTING", "MOVE_BASE"} => r.wave \in Wave(n)
  PROVE  /\ r2.cmd \in Image(n) /\ r2.wave \in Wave(n)
         /\ n # "FIXEDSTAND" => r2.percent = r.percent
<1> USE DEF Ready, Image, Wave, Shared, MotorCmd, Stand
<1>1. CASE n = "PASSIVE"
  BY <1>1 DEF run
<1>2. CASE n = "FIXEDSTAND"
  <2>1. r2 = FixedStand_run(r)
    BY <1>2 DEF run
  <2>2. r2.cmd = [r.cmd EXCEPT !.q = "ramp"] /\ r2.wave = r.wave
    BY <2>1 DEF FixedStand_run
  <2> QED BY <1>2, <2>2
<1>3. CASE n = "FREESTAND"
  <2>1. r2 = FreeStand_run(r)
    BY <1>3 DEF run
  <2> QED BY <1>3, <2>1 DEF FreeStand_run
<1>4. CASE n = "BALANCETEST"
  <2>1. r2 = BalanceTest_run(r)
    BY <1>4 DEF run
  <2>2. r.cmd \in MotorCmd /\ r.cmd.dq = "zero"
    BY <1>4
  <2>3. r2.cmd = [r.cmd EXCEPT !.gain = "stable", !.tau = "force", !.q = "measured"]
        /\ r2.wave = r.wave /\ r2.percent = r.percent
    BY <2>1 DEF BalanceTest_run
  <2>4. r2.cmd = [q |-> "measured", dq |-> "zero", gain |-> "stable", tau |-> "force"]
    BY <2>2, <2>3
  <2> QED BY <1>4, <2>3, <2>4
<1>5. CASE n = "SWINGTEST"
  <2>1. PICK t \in {"force", "unset"} : r2 = [r EXCEPT !.cmd = [@ EXCEPT !.q = "goal", !.tau = t]]
    BY <1>5 DEF run, SwingTest_run
  <2>2. r2.cmd = [r.cmd EXCEPT !.q = "goal", !.tau = t] /\ r2.wave = r.wave /\ r2.percent = r.percent
    BY <2>1
  <2> QED BY <1>5, <2>2
<1>6. CASE n = "STEPTEST"
  <2>1. r2 = StepTest_run(r)
    BY <1>6 DEF run
  <2>2. r.cmd \in MotorCmd /\ r.cmd.dq = "zero" /\ r.cmd.q = "ramp"
    BY <1>6
  <2>3. r2.cmd = [r.cmd EXCEPT !.gain = "zero", !.tau = "force"]
        /\ r2.wave = r.wave /\ r2.percent = r.percent
    BY <2>1 DEF StepTest_run
  <2>4. r2.cmd = [q |-> "ramp", dq |-> "zero", gain |-> "zero", tau |-> "force"]
    BY <2>2, <2>3
  <2> QED BY <1>6, <2>3, <2>4
<1>7. CASE n \in {"TROTTING", "MOVE_BASE"}
  <2>1. PICK w \in {"WAVE_ALL", "STANCE_ALL"} :
          r2 = [r EXCEPT !.cmd = [q |-> "goal", dq |-> "goal", gain |-> "perLeg", tau |-> "force"],
                         !.wave = w]
    BY <1>7 DEF run, Trotting_run
  <2> QED BY <1>7, <2>1
<1> QED BY <1>1, <1>2, <1>3, <1>4, <1>5, <1>6, <1>7 DEF StateName

---------------------------------------------------------------------------
(* The types of the loop's variables. *)

LEMMA PanelTypes ==
  ASSUME PanelTypeOK, KeyBoard
  PROVE  PanelTypeOK'
<1> USE DEF PanelTypeOK
<1>1. ASSUME NEW k \in Keys, StoreCmd(k) PROVE PanelTypeOK'
  <2>1. k \in KeyName /\ 0 \in Stick
    BY KeysAssumption, PanelAssumption DEF Stick
  <2> QED BY <1>1, <2>1 DEF StoreCmd, checkCmd
<1>2. CASE TestCmd
  BY <1>2 DEF TestCmd
<1>3. CASE StoreValue
  <2>1. 0 \in Stick /\ changeValue(key, loaded) \in Stick
    BY PanelAssumption DEF changeValue, Stick
  <2> QED BY <1>3, <2>1 DEF StoreValue
<1> QED BY <1>1, <1>2, <1>3 DEF KeyBoard

LEMMA MoreType == ASSUME NEW n \in 0..Cap PROVE More(n) \in 0..Cap
BY DEF More, Cap

LEMMA InitTypes == Init => TypeOK
<1> SUFFICES ASSUME Init PROVE TypeOK
  OBVIOUS
<1>1. PanelTypeOK
  BY PanelAssumption DEF Init, PanelInit, PanelTypeOK, Stick, KeyName
<1>2. Damp \in MotorCmd
  BY DEF Damp, MotorCmd
<1>3. shared \in Shared
  <2>1. [cmd |-> Damp, wave |-> "SWING_ALL", percent |-> 0] \in Shared
    BY <1>2, DurationAssumption DEF Shared, WaveStatus
  <2>2. shared = enter("PASSIVE", [cmd |-> Damp, wave |-> "SWING_ALL", percent |-> 0])
    BY DEF Init, enter
  <2> QED BY <2>1, <2>2, EnterType DEF StateName
<1>4. lowValue \in Stick
  BY PanelAssumption DEF Init, Stick
<1>5. /\ running \in BOOLEAN /\ pc \in {"sendRecv", "copyValue", "checkSafty", "state"}
      /\ current \in StateName /\ next \in StateName /\ mode \in {"NORMAL", "CHANGE"}
      /\ sent \in MotorCmd /\ lowCmd \in UserCommand
  BY <1>2 DEF Init, StateName, UserCommand
<1>6. stopSeen \in 0..Cap /\ tiltSeen \in 0..Cap /\ staleRuns \in 0..2
  BY DEF Init, Cap
<1>7. /\ tilted \in BOOLEAN /\ stale \in BOOLEAN /\ lowStale \in BOOLEAN
      /\ loadStale \in BOOLEAN /\ lost \in BOOLEAN
  BY Zenon DEF Init
<1> QED BY <1>1, <1>3, <1>4, <1>5, <1>6, <1>7 DEF TypeOK

LEMMA NormalTypes ==
  ASSUME TypeOK, Normal
  PROVE  /\ shared' \in Shared /\ mode' \in {"NORMAL", "CHANGE"}
         /\ next' \in StateName /\ current' \in StateName
         /\ userValue' \in Stick
<1>1. shared' \in Shared
  BY RunType DEF Normal, TypeOK
<1>2. checkChange(current, lowCmd) \in StateName
  BY Destinations DEF TypeOK
<1> QED BY <1>1, <1>2 DEF Normal, TypeOK, PanelTypeOK

LEMMA ChangeTypes ==
  ASSUME TypeOK, Change
  PROVE  /\ shared' \in Shared /\ mode' \in {"NORMAL", "CHANGE"}
         /\ next' \in StateName /\ current' \in StateName
         /\ userValue' \in Stick
<1>1. shared' \in Shared
  <2>1. exit(current, shared) \in Shared
    BY ExitType DEF TypeOK
  <2>2. enter(next, exit(current, shared)) \in Shared
    BY <2>1, EnterType DEF TypeOK
  <2> QED BY <2>2, RunType DEF Change, TypeOK
<1>2. userValue' \in Stick
  BY PanelAssumption DEF Change, StickAfter, TypeOK, PanelTypeOK, Stick
<1> QED BY <1>1, <1>2 DEF Change, TypeOK

(* The history of the stick. *)
StickTypeOK ==
  /\ stale \in BOOLEAN /\ lowStale \in BOOLEAN /\ loadStale \in BOOLEAN
  /\ lost \in BOOLEAN /\ staleRuns \in 0..2

LEMMA StickTypes ==
  ASSUME StickTypeOK, Normal \/ Change \/ (KeyBoard /\ NoteKey /\ UNCHANGED <<lowStale, staleRuns>>)
  PROVE  StickTypeOK'
<1> USE DEF StickTypeOK
<1>1. StaleAfterRun \in 0..2
  BY DEF StaleAfterRun
<1>2. CASE Normal
  BY <1>1, <1>2 DEF Normal
<1>3. CASE Change
  <2>1. NoteZeroing
    BY <1>3 DEF Change
  <2>2. CASE Zeroes(current, next)
    <3>1. /\ stale' \in BOOLEAN /\ lowStale' \in BOOLEAN /\ loadStale' \in BOOLEAN
          /\ lost' \in BOOLEAN
      BY <2>1, <2>2, Zenon DEF NoteZeroing
    <3>2. staleRuns' \in {0, 1}
      BY <2>1, <2>2 DEF NoteZeroing
    <3> QED BY <3>1, <3>2
  <2>3. CASE ~Zeroes(current, next)
    BY <1>1, <2>1, <2>3 DEF NoteZeroing
  <2> QED BY <2>2, <2>3
<1>4. CASE KeyBoard /\ NoteKey /\ UNCHANGED <<lowStale, staleRuns>>
  <2>1. stale' \in BOOLEAN /\ loadStale' \in BOOLEAN /\ lost' \in BOOLEAN
    BY <1>4, Zenon DEF NoteKey
  <2> QED BY <1>4, <2>1
<1> QED BY <1>2, <1>3, <1>4

LEMMA StepTypes == TypeOK /\ [Next]_vars => TypeOK'
<1> SUFFICES ASSUME TypeOK, [Next]_vars PROVE TypeOK'
  OBVIOUS
<1> USE DEF TypeOK
<1>1. CASE sendRecv
  <2>1. UserCommand = {"NONE", "START", "L2_A", "L2_B", "L2_X", "L2_Y", "L1_X", "L1_A", "L1_Y"}
    BY DEF UserCommand
  <2>2. lowCmd' \in UserCommand /\ sent' \in MotorCmd
    BY <1>1, <2>1 DEF sendRecv, PanelTypeOK, Shared
  <2>3. stopSeen' \in 0..Cap
    BY <1>1, MoreType DEF sendRecv, Cap
  <2> QED BY <1>1, <2>2, <2>3
      DEF sendRecv, PanelTypeOK, panel, kbVars, fsmVars, stickHistory
<1>2. CASE copyValue
  BY <1>2 DEF copyValue, PanelTypeOK, panel, kbVars, fsmVars
<1>3. CASE checkSafty
  <2>1. tiltSeen' \in 0..Cap
    BY <1>3, MoreType DEF checkSafty, Cap
  <2> QED BY <1>3, <2>1 DEF checkSafty, PanelTypeOK, kbVars, fsmVars, stickHistory
<1>4. CASE runState
  <2>1. /\ shared' \in Shared /\ mode' \in {"NORMAL", "CHANGE"}
        /\ next' \in StateName /\ current' \in StateName
        /\ userValue' \in Stick
    BY <1>4, NormalTypes, ChangeTypes DEF runState
  <2>2. StickTypeOK'
    BY <1>4, StickTypes DEF runState, StickTypeOK
  <2> QED BY <1>4, <2>1, <2>2 DEF runState, PanelTypeOK, kbVars, StickTypeOK
<1>5. CASE Operator
  <2>1. PanelTypeOK'
    BY <1>5, PanelTypes DEF Operator
  <2>2. tiltSeen' \in 0..Cap
    BY <1>5 DEF Operator, Cap
  <2>3. StickTypeOK
    BY DEF StickTypeOK
  <2>4. KeyBoard /\ NoteKey /\ UNCHANGED <<lowStale, staleRuns>>
    BY <1>5 DEF Operator
  <2>5. StickTypeOK'
    BY <2>3, <2>4, StickTypes
  <2>6. /\ UNCHANGED <<running, pc, fsmVars, sent, lowCmd, lowValue, tilted, stopSeen>>
        /\ PanelTypeOK' /\ tiltSeen' \in 0..Cap
    BY <1>5, <2>1, <2>2 DEF Operator
  <2> QED BY <2>5, <2>6 DEF fsmVars, StickTypeOK
<1>6. CASE ShutDown
  <2>1. running' \in BOOLEAN
    BY <1>6 DEF ShutDown
  <2>2. UNCHANGED <<panel, kbVars, pc, fsmVars, sent, lowCmd, lowValue, tilted, history>>
    BY <1>6 DEF ShutDown
  <2> QED BY <2>1, <2>2 DEF PanelTypeOK, panel, kbVars, fsmVars, history, stickHistory
<1>7. CASE UNCHANGED vars
  BY <1>7 DEF vars, PanelTypeOK, panel, kbVars, fsmVars, history, stickHistory
<1> QED BY <1>1, <1>2, <1>3, <1>4, <1>5, <1>6, <1>7 DEF Next, Tick

(* TypeOK holds of every behaviour of the loop and the keyboard thread.    *)
THEOREM TypeCorrect == Spec => []TypeOK
BY InitTypes, StepTypes, PTL DEF Spec

---------------------------------------------------------------------------
(* No state is left with another one's command.  BalanceTest and StepTest  *)
(* rely on what FixedStand left, so the invariant has to know which state  *)
(* a pending change comes from.                                            *)

LoopInv ==
  /\ TypeOK
  /\ NoLeftovers
  /\ RampRestarts
  /\ mode = "CHANGE" /\ next \in {"BALANCETEST", "SWINGTEST", "STEPTEST"} =>
       current = "FIXEDSTAND"

LEMMA InitLoopInv == Init => LoopInv
<1> SUFFICES ASSUME Init PROVE LoopInv
  OBVIOUS
<1>1. TypeOK
  BY InitTypes
<1>2. shared = [cmd |-> Damp, wave |-> "SWING_ALL", percent |-> 0]
  BY DEF Init, Passive_enter
<1>3. NoLeftovers /\ RampRestarts
  BY <1>2 DEF Init, NoLeftovers, RampRestarts, Image, Wave
<1> QED BY <1>1, <1>3 DEF Init, LoopInv

LEMMA NormalLoopInv ==
  ASSUME LoopInv, Normal
  PROVE  /\ shared'.cmd \in Image(current') /\ shared'.wave \in Wave(current')
         /\ current' # "FIXEDSTAND" => shared'.percent = 0
         /\ mode' = "CHANGE" /\ next' \in {"BALANCETEST", "SWINGTEST", "STEPTEST"} =>
              current' = "FIXEDSTAND"
<1> USE DEF LoopInv, TypeOK
<1>1. current' = current /\ shared' \in run(current, shared) /\ mode = "NORMAL"
  BY DEF Normal
<1>2. Ready(current, shared.cmd) /\ shared.wave \in Wave(current)
  BY DEF NoLeftovers, Ready
<1>3. /\ shared'.cmd \in Image(current) /\ shared'.wave \in Wave(current)
      /\ current # "FIXEDSTAND" => shared'.percent = shared.percent
  BY <1>1, <1>2, RunWrites
<1>4. ASSUME mode' = "CHANGE" PROVE next' = checkChange(current, lowCmd) /\ next' # current
  BY <1>1, <1>4 DEF Normal
<1> QED BY <1>1, <1>3, <1>4, Destinations DEF RampRestarts

LEMMA ChangeLoopInv ==
  ASSUME LoopInv, Change
  PROVE  /\ shared'.cmd \in Image(current') /\ shared'.wave \in Wave(current')
         /\ current' # "FIXEDSTAND" => shared'.percent = 0
         /\ mode' = "NORMAL"
<1> USE DEF LoopInv, TypeOK
<1> DEFINE left == exit(current, shared)
           entered == enter(next, left)
<1>1. /\ left \in Shared /\ left.cmd = shared.cmd /\ left.percent = 0
  BY ExitWrites DEF RampRestarts
<1>2. entered \in Shared /\ entered.percent = 0
  BY <1>1, EnterWrites
<1>3. next \notin {"TROTTING", "MOVE_BASE"} => entered.wave \in Wave(next)
  BY <1>1, EnterWrites
<1>4. next \in {"BALANCETEST", "STEPTEST"} => left.cmd \in Image("FIXEDSTAND")
  BY <1>1 DEF Change, NoLeftovers
<1>5. Ready(next, entered.cmd)
  <2>1. Damp \in Image("PASSIVE")
    BY DEF Image
  <2> HIDE DEF left, entered
  <2>2. entered = enter(next, left)
    BY DEF entered
  <2> QED BY <1>1, <1>4, <2>1, <2>2, EnterWrites DEF Ready, StateName
<1>6. shared' \in run(next, entered) /\ current' = next /\ mode' = "NORMAL"
  BY DEF Change
<1>7. /\ shared'.cmd \in Image(next) /\ shared'.wave \in Wave(next)
      /\ next # "FIXEDSTAND" => shared'.percent = entered.percent
  <2> HIDE DEF entered
  <2> QED BY <1>2, <1>3, <1>5, <1>6, RunWrites
<1> QED BY <1>2, <1>6, <1>7

LEMMA StepLoopInv == LoopInv /\ [Next]_vars => LoopInv'
<1> SUFFICES ASSUME LoopInv, [Next]_vars PROVE LoopInv'
  OBVIOUS
<1>1. TypeOK'
  BY StepTypes DEF LoopInv
<1>2. CASE UNCHANGED fsmVars
  BY <1>1, <1>2 DEF LoopInv, NoLeftovers, RampRestarts, fsmVars
<1>3. CASE runState
  BY <1>1, <1>3, NormalLoopInv, ChangeLoopInv
     DEF runState, LoopInv, NoLeftovers, RampRestarts
<1>4. UNCHANGED fsmVars \/ runState
  BY DEF Next, Tick, sendRecv, copyValue, checkSafty, Operator, ShutDown, vars
<1> QED BY <1>2, <1>3, <1>4

(* NoLeftovers: the command image and the gait request always belong to    *)
(* the current state, along every path through the states, for every ramp  *)
(* length and every interleaving with the keyboard.                        *)
THEOREM NoLeftoversHolds == Spec => []NoLeftovers
<1>1. LoopInv => NoLeftovers
  BY DEF LoopInv
<1> QED BY InitLoopInv, StepLoopInv, <1>1, PTL DEF Spec

(* RampRestarts: no path reaches FixedStand with a ramp already begun.     *)
THEOREM RampRestartsHolds == Spec => []RampRestarts
<1>1. LoopInv => RampRestarts
  BY DEF LoopInv
<1> QED BY InitLoopInv, StepLoopInv, <1>1, PTL DEF Spec

---------------------------------------------------------------------------
(* The bounded stop.  Each tick that reads L2_B brings the machine one     *)
(* step nearer to Passive: it finishes a change already begun, it begins   *)
(* the change to Passive, it carries it out.                               *)

Done == IF pc = "sendRecv" THEN stopSeen ELSE stopSeen - 1

StopInv ==
  /\ LoopInv
  /\ stopSeen >= 1 /\ pc # "sendRecv" => lowCmd = "L2_B"
  /\ Done >= 1 => mode = "NORMAL" \/ next = "PASSIVE"
  /\ Done >= 2 => \/ mode = "NORMAL" /\ current = "PASSIVE"
                  \/ mode = "CHANGE" /\ next = "PASSIVE"
  /\ Done >= 3 => mode = "NORMAL" /\ current = "PASSIVE"
  /\ stopSeen = Cap => sent = Damp

LEMMA StepStopInv == StopInv /\ [Next]_vars => StopInv'
<1> SUFFICES ASSUME StopInv, [Next]_vars PROVE StopInv'
  OBVIOUS
<1>1. LoopInv' /\ TypeOK /\ TypeOK'
  BY StepLoopInv DEF StopInv, LoopInv
<1>2. stopSeen \in 0..Cap
  BY <1>1 DEF TypeOK
<1> USE DEF StopInv, Done, Cap
<1>3. CASE sendRecv
  <2>1. /\ pc = "sendRecv" /\ pc' = "copyValue" /\ lowCmd' = userCmd /\ sent' = shared.cmd
        /\ stopSeen' = IF userCmd = "L2_B" THEN More(stopSeen) ELSE 0
        /\ UNCHANGED <<mode, current, next>>
    BY <1>3 DEF sendRecv, fsmVars
  <2>2. ASSUME stopSeen' = Cap PROVE sent' = Damp
    <3>1. stopSeen >= 3
      BY <1>2, <2>1, <2>2 DEF More
    <3> QED BY <2>1, <3>1 DEF LoopInv, NoLeftovers, Image
  <2> QED BY <1>1, <1>2, <2>1, <2>2 DEF More
<1>4. CASE copyValue
  BY <1>1, <1>4 DEF copyValue, fsmVars, history
<1>5. CASE checkSafty
  BY <1>1, <1>5 DEF checkSafty, fsmVars
<1>6. CASE runState
  <2>1. pc = "state" /\ pc' = "sendRecv" /\ UNCHANGED <<stopSeen, sent, lowCmd>>
    BY <1>6 DEF runState
  <2>2. CASE Normal
    <3>1. stopSeen >= 1 => checkChange(current, lowCmd) = "PASSIVE"
      BY <1>1, <2>1, StopLeadsToPassive DEF TypeOK
    <3>2. /\ mode = "NORMAL" /\ current' = current
          /\ \/ checkChange(current, lowCmd) # current /\ mode' = "CHANGE"
                /\ next' = checkChange(current, lowCmd)
             \/ checkChange(current, lowCmd) = current /\ mode' = mode /\ next' = next
      BY <2>2 DEF Normal
    <3> QED BY <1>1, <1>2, <2>1, <3>1, <3>2
  <2>3. CASE Change
    <3>1. mode = "CHANGE" /\ mode' = "NORMAL" /\ current' = next
      BY <2>3 DEF Change
    <3> QED BY <1>1, <1>2, <2>1, <3>1
  <2> QED BY <1>6, <2>2, <2>3 DEF runState
<1>7. CASE Operator
  BY <1>1, <1>7 DEF Operator, fsmVars
<1>8. CASE ShutDown
  BY <1>1, <1>8 DEF ShutDown, fsmVars, history
<1>9. CASE UNCHANGED vars
  BY <1>1, <1>9 DEF vars, fsmVars, history
<1> QED BY <1>3, <1>4, <1>5, <1>6, <1>7, <1>8, <1>9 DEF Next, Tick

LEMMA InitStopInv == Init => StopInv
<1> SUFFICES ASSUME Init PROVE StopInv
  OBVIOUS
<1> QED BY InitLoopInv DEF Init, StopInv, Done, Cap

(* StopLatency: the fourth tick in a row that reads L2_B sends damping.    *)
THEOREM StopLatencyHolds == Spec => []StopLatency
<1>1. StopInv => StopLatency
  BY DEF StopInv, StopLatency
<1> QED BY InitStopInv, StepStopInv, <1>1, PTL DEF Spec

(* With no key pressed, checkSafty's L2_B is still on the panel when the   *)
(* next tick reads it, so the ticks that found the robot tilted are, but   *)
(* for the last, ticks that read L2_B.                                     *)
TiltInv ==
  /\ StopInv
  /\ tiltSeen >= 1 => userCmd = "L2_B"
  /\ pc \in {"sendRecv", "state"} => stopSeen >= tiltSeen - 1
  /\ pc \in {"copyValue", "checkSafty"} => stopSeen >= tiltSeen

LEMMA StepTiltInv == TiltInv /\ [Next]_vars => TiltInv'
<1> SUFFICES ASSUME TiltInv, [Next]_vars PROVE TiltInv'
  OBVIOUS
<1>1. StopInv' /\ TypeOK /\ TypeOK'
  BY StepStopInv, StepTypes DEF TiltInv, StopInv, LoopInv
<1>2. stopSeen \in 0..Cap /\ tiltSeen \in 0..Cap
  BY <1>1 DEF TypeOK
<1> USE DEF TiltInv, Cap
<1>3. CASE sendRecv
  BY <1>1, <1>2, <1>3 DEF sendRecv, More, panel
<1>4. CASE copyValue
  BY <1>1, <1>2, <1>4 DEF copyValue, panel, history
<1>5. CASE checkSafty
  BY <1>1, <1>2, <1>5 DEF checkSafty, More
<1>6. CASE runState
  BY <1>1, <1>2, <1>6 DEF runState
<1>7. CASE Operator
  <2>1. UNCHANGED <<pc, stopSeen>>
    BY <1>7 DEF Operator
  <2>2. CASE kbPc = "select"
    BY <1>1, <1>2, <1>7, <2>1, <2>2 DEF Operator
  <2>3. CASE kbPc # "select"
    <3>1. tiltSeen' = tiltSeen /\ userCmd' = userCmd
      BY <1>7, <2>3 DEF Operator, KeyBoard, StoreCmd, TestCmd, StoreValue
    <3> QED BY <1>1, <2>1, <3>1
  <2> QED BY <2>2, <2>3
<1>8. CASE ShutDown
  BY <1>1, <1>8 DEF ShutDown, panel, history
<1>9. CASE UNCHANGED vars
  BY <1>1, <1>9 DEF vars, panel, history
<1> QED BY <1>3, <1>4, <1>5, <1>6, <1>7, <1>8, <1>9 DEF Next, Tick

(* TiltLatency: four tilted ticks in a row with no key pressed end in      *)
(* Passive, with damping as the next command to be sent.                   *)
THEOREM TiltLatencyHolds == Spec => []TiltLatency
<1>1. Init => TiltInv
  BY InitStopInv DEF Init, TiltInv
<1>2. TiltInv => TiltLatency
  <2> SUFFICES ASSUME TiltInv, tiltSeen = Cap, pc = "sendRecv"
               PROVE  current = "PASSIVE" /\ shared.cmd = Damp
    BY DEF TiltLatency
  <2>1. stopSeen \in Int /\ stopSeen >= 3
    BY DEF TiltInv, StopInv, LoopInv, TypeOK, Cap
  <2>2. current = "PASSIVE"
    BY <2>1 DEF TiltInv, StopInv, Done
  <2> QED BY <2>2 DEF TiltInv, StopInv, LoopInv, NoLeftovers, Image
<1> QED BY <1>1, <1>2, StepTiltInv, PTL DEF Spec

---------------------------------------------------------------------------
(* The panel holds an older stick only once the thread has written one     *)
(* back, so the copy taken from it can be older only then, but for the     *)
(* copy that is still about when the stick is zeroed.                      *)
StickInv ==
  /\ TypeOK
  /\ stale => lost
  /\ lowStale /\ pc \in {"checkSafty", "state"} => lost
  /\ StaleOnlyIfLost

LEMMA ZeroingStickInv ==
  ASSUME StickInv, pc = "state", Change, pc' = "sendRecv"
  PROVE  (stale' => lost') /\ StaleOnlyIfLost'
<1> USE DEF StickInv, StaleOnlyIfLost, TypeOK
<1>1. NoteZeroing /\ userValue' = StickAfter(current, next)
  BY DEF Change
<1>2. CASE Zeroes(current, next)
  <2>1. userValue' = 0 /\ stale' = (userValue' # 0)
    BY <1>1, <1>2 DEF NoteZeroing, StickAfter
  <2>2. ~stale'
    BY <2>1, Zenon
  <2>3. staleRuns' \in {0, 1}
    BY <1>1, <1>2 DEF NoteZeroing
  <2>4. StaleOnlyIfLost'
    BY <2>3
  <2> QED BY <2>2, <2>4, Zenon
<1>3. CASE ~Zeroes(current, next)
  <2>1. UNCHANGED <<stale, lost>> /\ staleRuns' = StaleAfterRun
    BY <1>1, <1>3 DEF NoteZeroing
  <2> QED BY <2>1 DEF StaleAfterRun
<1> QED BY <1>2, <1>3

LEMMA StepStickInv == StickInv /\ [Next]_vars => StickInv'
<1> SUFFICES ASSUME StickInv, [Next]_vars PROVE StickInv'
  OBVIOUS
<1>1. TypeOK'
  BY StepTypes DEF StickInv
<1> USE DEF StickInv, StaleOnlyIfLost
<1>2. CASE sendRecv \/ checkSafty
  BY <1>1, <1>2 DEF sendRecv, checkSafty, stickHistory
<1>3. CASE copyValue
  BY <1>1, <1>3 DEF copyValue
<1>4. CASE runState
  <2>1. pc = "state" /\ pc' = "sendRecv"
    BY <1>4 DEF runState
  <2>2. CASE Normal
    <3>1. UNCHANGED <<stale, lost>> /\ staleRuns' = StaleAfterRun
      BY <2>2 DEF Normal
    <3> QED BY <1>1, <2>1, <3>1 DEF StaleAfterRun, TypeOK
  <2>3. CASE Change
    BY <1>1, <2>1, <2>3, ZeroingStickInv
  <2> QED BY <1>4, <2>2, <2>3 DEF runState
<1>5. CASE Operator
  <2>1. UNCHANGED <<pc, lowStale, staleRuns>> /\ NoteKey
    BY <1>5 DEF Operator
  <2>2. (stale' => lost') /\ (lost => lost')
    BY <2>1 DEF NoteKey
  <2> QED BY <1>1, <2>1, <2>2
<1>6. CASE ShutDown \/ UNCHANGED vars
  BY <1>1, <1>6 DEF ShutDown, vars, history, stickHistory
<1> QED BY <1>2, <1>3, <1>4, <1>5, <1>6 DEF Next, Tick

(* StaleOnlyIfLost: a zeroed stick comes back for more than the run in     *)
(* progress only through the keyboard thread's read and write around the   *)
(* zeroing, for every set of keys, every range of the stick and every path *)
(* through the states.                                                     *)
THEOREM StaleOnlyIfLostHolds == Spec => []StaleOnlyIfLost
<1>1. Init => StickInv
  BY InitTypes DEF Init, StickInv, StaleOnlyIfLost
<1>2. StickInv => StaleOnlyIfLost
  BY DEF StickInv
<1> QED BY <1>1, <1>2, StepStickInv, PTL DEF Spec
============================================================================
