--------------------------- MODULE WaveGenerator ---------------------------
(***************************************************************************)
(* unitree_guide's gait clock (src/Gait/WaveGenerator.cpp).  Every control *)
(* tick calls calcContactPhase with the WaveStatus the FSM states asked    *)
(* for; it answers, for each leg, whether the leg is in stance (1) or in   *)
(* swing (0) and how far it is in that phase.  When the status changes,    *)
(* each leg keeps the old status until the two agree on its contact.       *)
(*                                                                         *)
(* Time is the wall clock read by getSystemTime, in integer units since    *)
(* _startT.  A phase is the fraction num/den.                              *)
(***************************************************************************)
EXTENDS Integers

CONSTANTS
  Period,           \* _period
  Stance,           \* _period * _stRatio
  Bias,             \* _period * _bias, per leg
  Statuses,         \* the statuses the callers ask for
  Steps,            \* by how much the clock may advance between two calls
  Rewinds,          \* the times a call may find after the clock was set back
  Garbage           \* what the uninitialised _switchStatus may hold

Leg == 0..3
WaveStatus == {"STANCE_ALL", "SWING_ALL", "WAVE_ALL"}

(* The two checks of the constructor, and what the model adds to them.     *)
ASSUME GaitAssumption ==
  /\ Period \in Nat /\ Stance \in Nat
  /\ 0 < Stance /\ Stance < Period
  /\ Bias \in [Leg -> 0..Period]

ASSUME CallAssumption ==
  /\ Statuses \subseteq WaveStatus
  /\ Steps \subseteq Nat /\ Rewinds \subseteq Int
  /\ Garbage \subseteq Int

VARIABLES
  clock,            \* getSystemTime() - _startT at the last call
  status,           \* the status of the last call
  statusPast,       \* _statusPast: the last status that was completed
  switchStatus,     \* _switchStatus: 1 while a leg has not switched
  contact, phase,   \* _contact, _phase: the answer of the last call
  contactPast, phasePast

vars == <<clock, status, statusPast, switchStatus, contact, phase, contactPast, phasePast>>

---------------------------------------------------------------------------
(* fmod: the remainder takes the sign of the dividend.                     *)
FMod(a, b) == IF a >= 0 THEN a % b ELSE -((-a) % b)

(* mutant: a period is not added before the bias is taken off *)
NormalT_NoPeriod(t, i) == FMod(t - Bias[i], Period)
NormalT(t, i) == FMod(t + Period - Bias[i], Period)

Half == [num |-> 1, den |-> 2]
All(v) == [i \in Leg |-> v]
Sum(f) == f[0] + f[1] + f[2] + f[3]

WaveContact(s, t) ==
  [i \in Leg |-> IF s = "STANCE_ALL" \/ (s = "WAVE_ALL" /\ NormalT(t, i) < Stance)
                 THEN 1 ELSE 0]

(* mutant: the length of the swing with its terms swapped *)
WavePhase_Swapped(s, t) ==
  [i \in Leg |->
     IF s # "WAVE_ALL" THEN Half
     ELSE IF NormalT(t, i) < Stance
          THEN [num |-> NormalT(t, i), den |-> Stance]
          ELSE [num |-> Stance - NormalT(t, i), den |-> Stance - Period]]

WavePhase(s, t) ==
  [i \in Leg |->
     IF s # "WAVE_ALL" THEN Half
     ELSE IF NormalT(t, i) < Stance
          THEN [num |-> NormalT(t, i), den |-> Stance]
          ELSE [num |-> NormalT(t, i) - Stance, den |-> Period - Stance]]

Walk(t) == WaveContact("WAVE_ALL", t)

(* Legs in step: of two legs, both swing at the same times, or one never   *)
(* swings while the other does.  So it is in the gaits of main.cpp:81-83.  *)
InStep ==
  \A i, j \in Leg : \A t, u \in 0 .. Period - 1 :
    Walk(t)[i] = 0 /\ Walk(t)[j] = 0 => Walk(u)[i] = Walk(u)[j]

(* The contact vectors that a status consists of.                          *)
Patterns(s) == {WaveContact(s, t) : t \in 0 .. Period - 1}

Direct(s) == {s, statusPast} = {"STANCE_ALL", "SWING_ALL"}

---------------------------------------------------------------------------
Init ==
  /\ clock \in 0 .. Period - 1
  /\ status = "SWING_ALL" /\ statusPast = "SWING_ALL"
  /\ switchStatus \in [Leg -> Garbage]
  /\ contact = All(0) /\ phase = All(Half)
  /\ contactPast = All(0) /\ phasePast = All(Half)

(* mutant: every call with another status arms the flags *)
Armed_Always(s) == IF s # statusPast THEN All(1) ELSE switchStatus

(* The flags a call starts with: a new switch arms all four legs, but only *)
(* when no earlier switch is pending.                                      *)
Armed(s) == IF s # statusPast /\ Sum(switchStatus) = 0 THEN All(1) ELSE switchStatus

(* mutant: the old status is evaluated only when the switch begins *)
OldContact_Once(s, t) ==
  IF s = statusPast \/ Sum(switchStatus) # 0 THEN contactPast
  ELSE IF Direct(s) THEN WaveContact(s, t)
  ELSE WaveContact(statusPast, t)

(* What the old status asks of the legs; left from an earlier call when    *)
(* the status asked for is the completed one.                              *)
OldContact(s, t) ==
  IF s = statusPast THEN contactPast
  ELSE IF Direct(s) THEN WaveContact(s, t)
  ELSE WaveContact(statusPast, t)

OldPhase(s, t) == IF s = statusPast THEN phasePast ELSE WavePhase(statusPast, t)

(* Nothing to switch: the status asked for is answered directly.           *)
Follow(s, t) ==
  /\ Sum(Armed(s)) = 0
  /\ contact' = WaveContact(s, t)
  /\ phase' = WavePhase(s, t)
  /\ switchStatus' = Armed(s)
  /\ UNCHANGED statusPast

(* mutant: a leg whose flag is cleared is released at once *)
Agrees_OrDone(s, t, i) ==
  \/ WaveContact(s, t)[i] = OldContact(s, t)[i]
  \/ switchStatus[i] = 0 /\ Sum(switchStatus) # 0

(* mutant: the legs are not compared *)
Agrees_Always(s, t, i) == TRUE

Agrees(s, t, i) == WaveContact(s, t)[i] = OldContact(s, t)[i]

(* Legs whose contact is the same under both statuses are done; the others *)
(* are given the old answer, whatever their flag says.                     *)
Switch(s, t) ==
  /\ Sum(Armed(s)) # 0
  /\ contact' = [i \in Leg |-> IF Agrees(s, t, i) THEN WaveContact(s, t)[i]
                               ELSE OldContact(s, t)[i]]
  /\ phase' = [i \in Leg |-> IF Agrees(s, t, i) THEN WavePhase(s, t)[i]
                             ELSE OldPhase(s, t)[i]]
  /\ switchStatus' = [i \in Leg |-> IF Agrees(s, t, i) THEN 0 ELSE Armed(s)[i]]
  /\ statusPast' = IF Sum(switchStatus') = 0 THEN s ELSE statusPast

(* One call of calcContactPhase, which finds the clock at t.               *)
calcContactPhase(s, t) ==
  /\ clock' = t
  /\ status' = s
  /\ contactPast' = OldContact(s, t)
  /\ phasePast' = OldPhase(s, t)
  /\ Follow(s, t) \/ Switch(s, t)

(* Only the remainder by the period matters of a time after _startT.       *)
Elapsed(d) == IF clock + d >= 0 THEN (clock + d) % Period ELSE clock + d

Tick(s) == \E d \in Steps : calcContactPhase(s, Elapsed(d))

(* gettimeofday is not monotonic: NTP or an operator may set it back.      *)
SetBack(s) == \E t \in Rewinds : calcContactPhase(s, t)

Next == \E s \in Statuses : Tick(s) \/ SetBack(s)

Spec == Init /\ [][Next]_vars

(* absoluteWait paces the calls and the control loop never blocks, so      *)
(* calls keep coming; the status each of them asks for is not fair.        *)
FairSpec == Spec /\ WF_vars(\E s \in Statuses : Tick(s))

---------------------------------------------------------------------------
(* The values the variables range over; a phase is a fraction.             *)
Fraction == [num : Int, den : Nat \ {0}]

TypeOK ==
  /\ clock \in Int
  /\ status \in WaveStatus /\ statusPast \in WaveStatus
  /\ switchStatus \in [Leg -> Int]
  /\ contact \in [Leg -> {0, 1}] /\ contactPast \in [Leg -> {0, 1}]
  /\ phase \in [Leg -> Fraction] /\ phasePast \in [Leg -> Fraction]

(* Every phase handed out lies in [0, 1), as windowFunc and the cycloids   *)
(* of GaitGenerator assume, as long as the clock is never set back to a    *)
(* time before the generator was made (phasePast survives from call to     *)
(* call, so a phase computed long ago counts too).                         *)
InUnit(ph) == \A i \in Leg : 0 <= ph[i].num /\ ph[i].num < ph[i].den
PhaseInRange == InUnit(phase)

(* While a switch is pending the legs keep following the old status at the *)
(* present time, all four of them: the flag of a leg that is done does not *)
(* let it run ahead of the others.  Exempt are the switches between        *)
(* all-stance and all-swing, which take effect at once.                    *)
KeepsOldPattern ==
  [][ status' # statusPast =>
        contact' = WaveContact(IF Direct(status') THEN status' ELSE statusPast, clock')
    ]_vars

(* No matter how the callers change their mind, the answers are those of   *)
(* GaitPattern: never a mixture of two statuses.                           *)
Gait == INSTANCE GaitPattern WITH
          First <- "SWING_ALL", mode <- statusPast, asked <- status
ImplementsGaitPattern == Gait!Spec

(* A caller that sticks to a status gets it, however often it changed its  *)
(* mind before and the clock was set back, once the clock only advances:   *)
(* no leg waits for ever for the two statuses to agree.                    *)
Settled(s) == statusPast = s /\ Sum(switchStatus) = 0 /\ contact = WaveContact(s, clock)
SwitchSettles ==
  \A s \in Statuses : (<>[](status = s) /\ <>[][Tick(s)]_vars) => <>[]Settled(s)

(* WaveGenerator.h:16 "generate linear wave": once WAVE_ALL is completed   *)
(* and still asked for, the legs follow the clock.                         *)
LinearWave ==
  [][ (statusPast = "WAVE_ALL" /\ status' = "WAVE_ALL") =>
        phase' = WavePhase("WAVE_ALL", clock')
    ]_vars

===========================================================================
