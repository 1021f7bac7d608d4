------------------------------- MODULE States -------------------------------
(***************************************************************************)
(* The eight FSM states of unitree_guide (src/FSM/State_*.cpp): what their *)
(* enter, run and exit write, and where their checkChange leads.  A state  *)
(* keeps nothing of its own here but FixedStand's ramp; what the states    *)
(* share, and may leave behind for one another, is the record              *)
(*   cmd      the motor command image LowlevelCmd, field by field, each    *)
(*            field by what it is made of rather than by its value;        *)
(*   wave     CtrlComponents::_waveStatus, the request to the gait clock;  *)
(*   percent  State_FixedStand::_percent, in steps of 1/_duration.         *)
(***************************************************************************)
EXTENDS Integers

CONSTANT Duration   \* FixedStand's _duration: runs until the stand is up
ASSUME DurationAssumption == Duration \in Nat \ {0}

StateName == {"PASSIVE", "FIXEDSTAND", "FREESTAND", "TROTTING", "MOVE_BASE",
              "BALANCETEST", "SWINGTEST", "STEPTEST"}

UserCommand == {"NONE", "START", "L2_A", "L2_B", "L2_X", "L2_Y",
                "L1_X", "L1_A", "L1_Y"}

WaveStatus == {"STANCE_ALL", "SWING_ALL", "WAVE_ALL"}

(* q: zero, the measured angles, FixedStand's ramp, or a computed goal.    *)
(* gain: Passive's damping, stance, stance with leg 0 in swing gain, per   *)
(* leg by contact, stable, or zero.  tau: zero, computed from forces, or   *)
(* with entries never written.                                             *)
MotorCmd == [q    : {"zero", "measured", "ramp", "goal"},
             dq   : {"zero", "goal"},
             gain : {"damp", "stance", "swing0", "perLeg", "stable", "zero"},
             tau  : {"zero", "force", "unset"}]

Shared == [cmd : MotorCmd, wave : WaveStatus, percent : 0..Duration]

Damp  == [q |-> "zero", dq |-> "zero", gain |-> "damp", tau |-> "zero"]
Stand == [q |-> "measured", dq |-> "zero", gain |-> "stance", tau |-> "zero"]

---------------------------------------------------------------------------
(* State_Passive *)
Passive_enter(r) == [r EXCEPT !.cmd = Damp, !.wave = "SWING_ALL"]

Passive_checkChange(c) == IF c = "L2_A" THEN "FIXEDSTAND" ELSE "PASSIVE"

---------------------------------------------------------------------------
(* State_FixedStand *)
(* mutant: the commands of the state before are left in place *)
FixedStand_enter_Partial(r) ==
  [r EXCEPT !.cmd = [@ EXCEPT !.q = "measured", !.gain = "stance"], !.wave = "STANCE_ALL"]

(* mutant: the gait request of the state before is left in place *)
FixedStand_enter_KeepWave(r) == [r EXCEPT !.cmd = Stand]

FixedStand_enter(r) == [r EXCEPT !.cmd = Stand, !.wave = "STANCE_ALL"]

(* mutant: the ramp is not held at its end *)
FixedStand_run_NoCap(r) == [r EXCEPT !.percent = @ + 1, !.cmd = [@ EXCEPT !.q = "ramp"]]

FixedStand_run(r) ==
  [r EXCEPT !.percent = IF @ < Duration THEN @ + 1 ELSE Duration,
            !.cmd = [@ EXCEPT !.q = "ramp"]]

(* mutant: the ramp is not taken back *)
FixedStand_exit_Keep(r) == r
FixedStand_exit(r) == [r EXCEPT !.percent = 0]

FixedStand_checkChange(c) ==
  CASE c = "L2_B"  -> "PASSIVE"
    [] c = "L2_X"  -> "FREESTAND"
    [] c = "START" -> "TROTTING"
    [] c = "L1_X"  -> "BALANCETEST"
    [] c = "L1_A"  -> "SWINGTEST"
    [] c = "L1_Y"  -> "STEPTEST"
    [] c = "L2_Y"  -> "MOVE_BASE"
    [] OTHER -> "FIXEDSTAND"

---------------------------------------------------------------------------
(* State_FreeStand *)
FreeStand_enter(r) == [r EXCEPT !.cmd = Stand, !.wave = "STANCE_ALL"]

FreeStand_run(r) == [r EXCEPT !.cmd = [@ EXCEPT !.q = "goal"]]

(* mutant: the passive command is not looked at *)
FreeStand_checkChange_NoStop(c) ==
  CASE c = "L2_A"  -> "FIXEDSTAND"
    [] c = "START" -> "TROTTING"
    [] OTHER -> "FREESTAND"

(* mutant: the command that leads here also leads back *)
FreeStand_checkChange_Toggle(c) ==
  CASE c = "L2_A" \/ c = "L2_X" -> "FIXEDSTAND"
    [] c = "L2_B"  -> "PASSIVE"
    [] c = "START" -> "TROTTING"
    [] OTHER -> "FREESTAND"

FreeStand_checkChange(c) ==
  CASE c = "L2_A"  -> "FIXEDSTAND"
    [] c = "L2_B"  -> "PASSIVE"
    [] c = "START" -> "TROTTING"
    [] OTHER -> "FREESTAND"

---------------------------------------------------------------------------
(* State_Trotting, and State_move_base which derives from it: whether to   *)
(* step or to stand is decided on every run, from the commanded and the    *)
(* measured motion.                                                        *)
Trotting_run(r) ==
  {[r EXCEPT !.cmd = [q |-> "goal", dq |-> "goal", gain |-> "perLeg", tau |-> "force"],
             !.wave = w] : w \in {"WAVE_ALL", "STANCE_ALL"}}

Trotting_exit(r) == [r EXCEPT !.wave = "SWING_ALL"]

Trotting_checkChange(c) ==
  CASE c = "L2_B" -> "PASSIVE"
    [] c = "L2_A" -> "FIXEDSTAND"
    [] OTHER -> "TROTTING"

MoveBase_checkChange(c) ==
  CASE c = "L2_B" -> "PASSIVE"
    [] c = "L2_A" -> "FIXEDSTAND"
    [] OTHER -> "MOVE_BASE"

---------------------------------------------------------------------------
(* State_BalanceTest: the joint speed goal is whatever was there before.   *)
BalanceTest_enter(r) == [r EXCEPT !.wave = "STANCE_ALL"]

BalanceTest_run(r) ==
  [r EXCEPT !.cmd = [@ EXCEPT !.gain = "stable", !.tau = "force", !.q = "measured"]]

BalanceTest_checkChange(c) ==
  CASE c = "L2_B" -> "PASSIVE"
    [] c = "L2_A" -> "FIXEDSTAND"
    [] OTHER -> "BALANCETEST"

---------------------------------------------------------------------------
(* State_SwingTest: the torque vector is a local of which only leg 0 is    *)
(* written, so the other nine entries may be any floats, or happen to be   *)
(* usable.                                                                 *)
SwingTest_enter(r) ==
  [r EXCEPT !.cmd = [Stand EXCEPT !.gain = "swing0"], !.wave = "SWING_ALL"]

SwingTest_run(r) ==
  {[r EXCEPT !.cmd = [@ EXCEPT !.q = "goal", !.tau = t]] : t \in {"force", "unset"}}

SwingTest_checkChange(c) ==
  CASE c = "L2_B" -> "PASSIVE"
    [] c = "L2_A" -> "FIXEDSTAND"
    [] OTHER -> "SWINGTEST"

---------------------------------------------------------------------------
(* State_StepTest: position and speed goals are left over, their gains 0.  *)
StepTest_enter(r) == [r EXCEPT !.wave = "WAVE_ALL"]

StepTest_run(r) == [r EXCEPT !.cmd = [@ EXCEPT !.gain = "zero", !.tau = "force"]]

StepTest_exit(r) == [r EXCEPT !.wave = "SWING_ALL"]

StepTest_checkChange(c) ==
  CASE c = "L2_B" -> "PASSIVE"
    [] c = "L2_A" -> "FIXEDSTAND"
    [] OTHER -> "STEPTEST"

---------------------------------------------------------------------------
(* The virtual calls of FSMState.h.                                        *)
enter(s, r) ==
  CASE s = "PASSIVE"     -> Passive_enter(r)
    [] s = "FIXEDSTAND"  -> FixedStand_enter(r)
    [] s = "FREESTAND"   -> FreeStand_enter(r)
    [] s = "BALANCETEST" -> BalanceTest_enter(r)
    [] s = "SWINGTEST"   -> SwingTest_enter(r)
    [] s = "STEPTEST"    -> StepTest_enter(r)
    [] OTHER -> r                       \* TROTTING, MOVE_BASE

(* The possible outcomes of a run.                                         *)
run(s, r) ==
  CASE s = "PASSIVE"     -> {r}
    [] s = "FIXEDSTAND"  -> {FixedStand_run(r)}
    [] s = "FREESTAND"   -> {FreeStand_run(r)}
    [] s = "BALANCETEST" -> {BalanceTest_run(r)}
    [] s = "SWINGTEST"   -> SwingTest_run(r)
    [] s = "STEPTEST"    -> {StepTest_run(r)}
    [] OTHER -> Trotting_run(r)

exit(s, r) ==
  CASE s = "FIXEDSTAND" -> FixedStand_exit(r)
    [] s \in {"TROTTING", "MOVE_BASE"} -> Trotting_exit(r)
    [] s = "STEPTEST" -> StepTest_exit(r)
    [] OTHER -> r

checkChange(s, c) ==
  CASE s = "PASSIVE"     -> Passive_checkChange(c)
    [] s = "FIXEDSTAND"  -> FixedStand_checkChange(c)
    [] s = "FREESTAND"   -> FreeStand_checkChange(c)
    [] s = "TROTTING"    -> Trotting_checkChange(c)
    [] s = "MOVE_BASE"   -> MoveBase_checkChange(c)
    [] s = "BALANCETEST" -> BalanceTest_checkChange(c)
    [] s = "SWINGTEST"   -> SwingTest_checkChange(c)
    [] s = "STEPTEST"    -> StepTest_checkChange(c)

(* The states whose enter, and whose exit, call zeroCmdPanel.              *)
ZeroOnEnter == {"FREESTAND", "TROTTING", "MOVE_BASE", "BALANCETEST", "STEPTEST"}
ZeroOnExit == ZeroOnEnter \cup {"SWINGTEST"}

---------------------------------------------------------------------------
(* The command image and the gait request a state is supposed to hold.     *)
Image(s) ==
  CASE s = "PASSIVE"     -> {Damp}
    [] s = "FIXEDSTAND"  -> {[Stand EXCEPT !.q = "ramp"]}
    [] s = "FREESTAND"   -> {[Stand EXCEPT !.q = "goal"]}
    [] s = "BALANCETEST" -> {[q |-> "measured", dq |-> "zero", gain |-> "stable", tau |-> "force"]}
    [] s = "SWINGTEST"   -> [q : {"goal"}, dq : {"zero"}, gain : {"swing0"}, tau : {"force", "unset"}]
    [] s = "STEPTEST"    -> {[q |-> "ramp", dq |-> "zero", gain |-> "zero", tau |-> "force"]}
    [] OTHER -> {[q |-> "goal", dq |-> "goal", gain |-> "perLeg", tau |-> "force"]}

Wave(s) ==
  CASE s \in {"PASSIVE", "SWINGTEST"}    -> {"SWING_ALL"}
    [] s = "STEPTEST"                    -> {"WAVE_ALL"}
    [] s \in {"TROTTING", "MOVE_BASE"}   -> {"STANCE_ALL", "WAVE_ALL"}
    [] OTHER                             -> {"STANCE_ALL"}
============================================================================
