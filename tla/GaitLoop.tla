------------------------------ MODULE GaitLoop ------------------------------
(***************************************************************************)
(* The FSM, the gait clock and the swing trajectories of unitree_guide     *)
(* together.  A tick of FSM::run first advances the gait clock with the    *)
(* status requested in the tick before, then runs the current state or     *)
(* changes it; Trotting and MoveBase hand contact and phase to their       *)
(* GaitGenerator.  Here a tick is one step and may find any command on the *)
(* panel: how commands get there is the business of ControlLoop.           *)
(***************************************************************************)
EXTENDS States

CONSTANTS
  Period, Stance, Bias, Steps, Garbage, \* the gait clock's, see WaveGenerator
  Commands                              \* what the panel may hold

ASSUME CommandsAssumption == Commands \subseteq UserCommand

(* The constructor's checks; the values the model gives.                   *)
ASSUME GaitAssumption ==
  /\ Period \in Nat /\ Stance \in Nat
  /\ 0 < Stance /\ Stance < Period
  /\ Bias \in [0..3 -> 0..Period]
  /\ Steps \subseteq Nat /\ Garbage \subseteq Int

VARIABLES
  current, next, mode, shared,          \* as in ControlLoop
  clock, status, statusPast, switchStatus, contact, phase, contactPast, phasePast,
  startP,   \* GaitGenerator::_startP, by what became of the place recorded
  inStride  \* history: the leg's last touch-down was a walk's, see EndsStep

fsmVars == <<current, next, mode, shared>>
waveVars == <<clock, status, statusPast, switchStatus, contact, phase, contactPast, phasePast>>
vars == <<fsmVars, waveVars, startP, inStride>>

WG == INSTANCE WaveGenerator WITH Statuses <- WaveStatus, Rewinds <- {}

Leg == 0..3

(* The gait keeps two legs on the ground: true of the trot, the crawl and  *)
(* the walking trot of main.cpp:81-83, not of the running trot and the     *)
(* pronk, which main.cpp:84-85 keeps for the simulation.                   *)
ASSUME SupportAssumption ==
  \A t \in 0 .. Period - 1 : WG!Sum(WG!WaveContact("WAVE_ALL", t)) >= 2

Gaits == {"TROTTING", "MOVE_BASE"}

(* _startP of a leg: never recorded; where the foot stands, or stood until *)
(* the lift-off of the present swing; a point in the air; or a place the   *)
(* foot has left and come down elsewhere since.                            *)
Place == {"unset", "foothold", "air", "left"}

---------------------------------------------------------------------------
Init ==
  /\ WG!Init
  /\ current = "PASSIVE" /\ next = "PASSIVE" /\ mode = "NORMAL"
  /\ shared = Passive_enter([cmd |-> Damp, wave |-> "SWING_ALL", percent |-> 0])
  /\ startP = [i \in Leg |-> "unset"]
  /\ inStride = [i \in Leg |-> FALSE]

TouchesDown(i) == contact[i] = 0 /\ contact'[i] = 1

(* What the present motion of the feet makes of the recorded places.       *)
Moved(i) == IF TouchesDown(i) /\ startP[i] # "unset" THEN "left" ELSE startP[i]

InFirstHalf(ph) == 2 * ph.num < ph.den

(* mutant: a place is recorded when the walk begins, and never again *)
Records_First(i, first) == first

(* GaitGenerator::run records every foot in the first run after restart,   *)
(* and the feet on the ground in the first half of their stance.           *)
Records(i, first) == first \/ (contact'[i] = 1 /\ InFirstHalf(phase'[i]))

GaitRun(first) ==
  startP' = [i \in Leg |-> IF ~Records(i, first) THEN Moved(i)
                           ELSE IF contact'[i] = 1 THEN "foothold" ELSE "air"]

(* The part of a tick that the state s plays, entered in this tick or not. *)
FeetOf(s, entered) ==
  IF s \in Gaits THEN GaitRun(entered)
  ELSE startP' = [i \in Leg |-> Moved(i)]

(* A leg touches down as part of a walk: the gait clock is in the wave, and *)
(* the wave is what is asked for.                                          *)
EndsStep(i) ==
  TouchesDown(i) /\ statusPast = "WAVE_ALL" /\ status' = "WAVE_ALL" /\ current' \in Gaits

Strides ==
  inStride' = [i \in Leg |-> IF TouchesDown(i) THEN EndsStep(i)
                             ELSE inStride[i] /\ current' = current]

---------------------------------------------------------------------------
(* FSMMode::NORMAL with the command c.                                     *)
Normal(c) ==
  /\ mode = "NORMAL"
  /\ shared' \in run(current, shared)
  /\ FeetOf(current, FALSE)
  /\ LET n == checkChange(current, c)
     IN  IF n # current THEN mode' = "CHANGE" /\ next' = n
                        ELSE UNCHANGED <<mode, next>>
  /\ UNCHANGED current

(* FSMMode::CHANGE.                                                        *)
Change ==
  /\ mode = "CHANGE"
  /\ shared' \in run(next, enter(next, exit(current, shared)))
  /\ FeetOf(next, TRUE)
  /\ current' = next
  /\ mode' = "NORMAL"
  /\ UNCHANGED next

Tick ==
  /\ WG!Tick(shared.wave)
  /\ Change \/ \E c \in Commands : Normal(c)
  /\ Strides

Next == Tick

Spec == Init /\ [][Next]_vars

(* As in ControlLoop: nothing in a tick blocks.                            *)
FairSpec == Spec /\ WF_vars(Tick)

---------------------------------------------------------------------------
TypeOK ==
  /\ WG!TypeOK
  /\ current \in StateName /\ next \in StateName
  /\ mode \in {"NORMAL", "CHANGE"}
  /\ shared \in Shared
  /\ startP \in [Leg -> Place]
  /\ inStride \in [Leg -> BOOLEAN]

(* BalanceCtrl::calF distributes the body's weight over the legs in        *)
(* contact and forces the others to zero: whenever a state that calls it   *)
(* runs, at least two legs are in contact, however the FSM came there and  *)
(* whatever switch of the gait is still pending.                           *)
UsesForces == {"TROTTING", "MOVE_BASE", "BALANCETEST", "STEPTEST"}
Supported == current \in UsesForces => WG!Sum(contact) >= 2

(* A leg that a walk has set down in its stride starts its next swing from *)
(* the place where the foot stood.  The code gives no more than this: it   *)
(* keeps an older place for a leg set down while the wave was not both in  *)
(* force and asked for (such a leg's phase is 0.5, too late to be          *)
(* recorded), and takes a point in the air for a leg that is swinging when *)
(* the walk is entered.                                                    *)
SwingsFromFoothold ==
  \A i \in Leg : current \in Gaits /\ contact[i] = 0 /\ inStride[i] => startP[i] = "foothold"

(* A leg that leaves the ground when no switch is pending does so at the   *)
(* start of its swing, at most two clock steps late, in whatever order the *)
(* states have asked for their gaits: lifting off in mid-swing would throw *)
(* the foot by half the step height at once.                               *)
Late(i) == \A d \in Steps : phase'[i].num > 2 * d
LiftsOffAtStart ==
  [][ (WG!Sum(switchStatus) = 0 /\ statusPast # "SWING_ALL" /\ statusPast' # "SWING_ALL") =>
        \A i \in Leg : contact[i] = 1 /\ contact'[i] = 0 => ~Late(i)
    ]_vars

(* The legs end up doing what the state that is kept asks of them, from    *)
(* every switch of the gait that earlier states have left unfinished.      *)
StandsStill == \A i \in Leg : contact[i] = 1 /\ phase[i] = WG!Half
LegsFollowState ==
  /\ \A s \in {"FIXEDSTAND", "FREESTAND", "BALANCETEST"} :
       <>[](current = s) => <>[]StandsStill
  /\ \A s \in {"PASSIVE", "SWINGTEST"} :
       <>[](current = s) => <>[](\A i \in Leg : contact[i] = 0)

(* A trot that is wanted keeps going: every leg lifts off and touches down *)
(* for ever, it does not stay in the standing it began with.               *)
KeepsStepping ==
  <>[](current \in Gaits /\ shared.wave = "WAVE_ALL") =>
    \A i \in Leg : []<>(contact[i] = 0) /\ []<>(contact[i] = 1)
============================================================================
