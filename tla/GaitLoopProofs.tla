--------------------------- MODULE GaitLoopProofs ---------------------------
(***************************************************************************)
(* Proofs about GaitLoop, for every gait that keeps two legs on the        *)
(* ground, every clock and every order of commands; what they say of the   *)
(* steps of a walk is for the gaits whose legs are in step.  They use what *)
(* WaveGeneratorProofs shows of one call of the gait clock.                *)
(***************************************************************************)
EXTENDS GaitLoop, TLAPS

WGP == INSTANCE WaveGeneratorProofs WITH Statuses <- WaveStatus, Rewinds <- {}

(* The two instances of the gait clock are the same.                       *)
LEMMA SameClock ==
  ASSUME NEW s, NEW t
  PROVE  /\ WG!calcContactPhase(s, t) <=> WGP!calcContactPhase(s, t)
         /\ WG!Elapsed(t) = WGP!Elapsed(t)
         /\ WG!WaveContact(s, t) = WGP!WaveContact(s, t)
<1>1. WG!Elapsed(t) = WGP!Elapsed(t)
  BY DEF WG!Elapsed, WGP!Elapsed
<1>2. WG!WaveContact(s, t) = WGP!WaveContact(s, t)
  BY DEF WG!WaveContact, WGP!WaveContact, WG!NormalT, WGP!NormalT, WG!FMod, WGP!FMod,
         WG!Leg, WGP!Leg
<1>3. WG!calcContactPhase(s, t) <=> WGP!calcContactPhase(s, t)
  BY DEF WG!calcContactPhase, WG!Follow, WG!Switch, WG!Agrees, WG!OldContact, WG!OldPhase,
         WG!Armed, WG!Direct, WG!WaveContact, WG!WavePhase, WG!NormalT, WG!FMod,
         WG!Half, WG!All, WG!Sum, WG!Leg,
         WGP!calcContactPhase, WGP!Follow, WGP!Switch, WGP!Agrees, WGP!OldContact, WGP!OldPhase,
         WGP!Armed, WGP!Direct, WGP!WaveContact, WGP!WavePhase, WGP!NormalT, WGP!FMod,
         WGP!Half, WGP!All, WGP!Sum, WGP!Leg
<1> QED BY <1>1, <1>2, <1>3

---------------------------------------------------------------------------
(* The states, as far as the gait goes: their requests are their own. *)

LEMMA ExitKeeps ==
  ASSUME NEW s \in StateName, NEW r \in Shared
  PROVE  exit(s, r) \in Shared
<1>1. FixedStand_exit(r) \in Shared
  BY DurationAssumption DEF FixedStand_exit, Shared
<1>2. Trotting_exit(r) \in Shared /\ StepTest_exit(r) \in Shared
  BY DEF Trotting_exit, StepTest_exit, Shared, WaveStatus
<1> QED BY <1>1, <1>2 DEF exit

(* A trot asks for a gait in run alone.                                    *)
LEMMA EnterAsks ==
  ASSUME NEW n \in StateName, NEW r \in Shared
  PROVE  /\ enter(n, r) \in Shared
         /\ n \notin {"TROTTING", "MOVE_BASE"} => enter(n, r).wave \in Wave(n)
<1> USE DEF enter, Wave, Shared, WaveStatus
<1>1. Damp \in MotorCmd /\ Stand \in MotorCmd /\ [Stand EXCEPT !.gain = "swing0"] \in MotorCmd
  BY DEF Damp, Stand, MotorCmd
<1>2. CASE n = "PASSIVE"
  BY <1>1, <1>2 DEF Passive_enter
<1>3. CASE n \in {"FIXEDSTAND", "FREESTAND"}
  BY <1>1, <1>3 DEF FixedStand_enter, FreeStand_enter
<1>4. CASE n = "SWINGTEST"
  BY <1>1, <1>4 DEF SwingTest_enter
<1>5. CASE n \in {"BALANCETEST", "STEPTEST"}
  BY <1>5 DEF BalanceTest_enter, StepTest_enter
<1>6. CASE n \in {"TROTTING", "MOVE_BASE"}
  BY <1>6
<1> QED BY <1>2, <1>3, <1>4, <1>5, <1>6 DEF StateName

LEMMA RunAsks ==
  ASSUME NEW n \in StateName, NEW r \in Shared, NEW r2 \in run(n, r),
         n \notin {"TROTTING", "MOVE_BASE"} => r.wave \in Wave(n)
  PROVE  r2 \in Shared /\ r2.wave \in Wave(n)
<1>1. CASE n \in {"TROTTING", "MOVE_BASE"}
  <2> DEFINE trot == [q |-> "goal", dq |-> "goal", gain |-> "perLeg", tau |-> "force"]
  <2>1. PICK w \in {"WAVE_ALL", "STANCE_ALL"} : r2 = [r EXCEPT !.cmd = trot, !.wave = w]
    BY <1>1 DEF run, Trotting_run
  <2>2. trot \in MotorCmd
    BY DEF MotorCmd
  <2> QED BY <1>1, <2>1, <2>2 DEF Wave, Shared, WaveStatus
<1>2. CASE n = "SWINGTEST"
  <2>1. PICK t \in {"force", "unset"} : r2 = [r EXCEPT !.cmd = [@ EXCEPT !.q = "goal", !.tau = t]]
    BY <1>2 DEF run, SwingTest_run
  <2>2. [r.cmd EXCEPT !.q = "goal", !.tau = t] \in MotorCmd
    BY DEF Shared, MotorCmd
  <2> QED BY <1>2, <2>1, <2>2 DEF Shared
<1>3. CASE n = "FIXEDSTAND"
  <2>1. r2 = FixedStand_run(r)
    BY <1>3 DEF run
  <2>2. /\ (IF r.percent < Duration THEN r.percent + 1 ELSE Duration) \in 0..Duration
        /\ [r.cmd EXCEPT !.q = "ramp"] \in MotorCmd
    BY DurationAssumption DEF Shared, MotorCmd
  <2> QED BY <1>3, <2>1, <2>2 DEF FixedStand_run, Shared
<1>4. CASE n = "PASSIVE"
  BY <1>4 DEF run
<1>5. CASE n \in {"FREESTAND", "BALANCETEST", "STEPTEST"}
  <2>1. FreeStand_run(r) \in Shared
    BY DEF FreeStand_run, Shared, MotorCmd
  <2>2. BalanceTest_run(r) \in Shared
    BY DEF BalanceTest_run, Shared, MotorCmd
  <2>3. StepTest_run(r) \in Shared
    BY DEF StepTest_run, Shared, MotorCmd
  <2>4. r2 \in {FreeStand_run(r), BalanceTest_run(r), StepTest_run(r)} /\ r2.wave = r.wave
    <3>1. CASE n = "FREESTAND"
      BY <3>1 DEF run, FreeStand_run, Shared
    <3>2. CASE n = "BALANCETEST"
      BY <3>2 DEF run, BalanceTest_run, Shared
    <3>3. CASE n = "STEPTEST"
      BY <3>3 DEF run, StepTest_run, Shared
    <3> QED BY <1>5, <3>1, <3>2, <3>3
  <2> QED BY <1>5, <2>1, <2>2, <2>3, <2>4
<1> QED BY <1>1, <1>2, <1>3, <1>4, <1>5 DEF StateName

---------------------------------------------------------------------------
(* One tick of the gait clock. *)

(* A tick is a call at a time within the period.                           *)
LEMMA TickIsCall ==
  ASSUME WGP!PatternInv, Tick
  PROVE  \E t \in 0 .. Period - 1 : WGP!calcContactPhase(shared.wave, t)
<1>1. PICK d \in Steps : WG!calcContactPhase(shared.wave, WG!Elapsed(d))
  BY DEF Tick, WG!Tick
<1>2. WGP!Elapsed(d) \in 0 .. Period - 1
  <2>1. clock \in Int /\ clock >= 0 /\ d \in Nat
    BY GaitAssumption DEF WGP!PatternInv
  <2> QED BY <2>1, WGP!ElapsedType, GaitAssumption DEF WGP!Leg, WGP!WaveStatus, WaveStatus
<1> QED BY <1>1, <1>2, SameClock

(* Unless an all-swing status is involved, the call leaves two legs on the *)
(* ground and completes no all-swing status.                               *)
LEMMA CallSupports ==
  ASSUME WGP!PatternInv, NEW s \in WaveStatus, NEW t \in 0 .. Period - 1,
         WGP!calcContactPhase(s, t), s # "SWING_ALL"
  PROVE  /\ WGP!PatternInv'
         /\ statusPast # "SWING_ALL" =>
              WG!Sum(contact') >= 2 /\ statusPast' # "SWING_ALL"
         /\ s = "STANCE_ALL" => statusPast' # "SWING_ALL"
<1>1. WGP!PatternInv' /\ (WGP!Gait!Hold(s) \/ WGP!Gait!Adopt(s))
  BY WGP!CallImplements, GaitAssumption DEF WGP!Leg, WGP!WaveStatus, WaveStatus
<1>2. statusPast' = s \/ statusPast' = statusPast
  BY <1>1 DEF WGP!Gait!Hold, WGP!Gait!Adopt
<1>3. contact' \in WGP!Patterns(statusPast) \cup WGP!Patterns(s)
  BY <1>1 DEF WGP!Gait!Hold, WGP!Gait!Adopt
<1>4. statusPast \in WaveStatus
  BY DEF WGP!PatternInv, WGP!TypeOK, WGP!WaveStatus, WaveStatus
<1>5. ASSUME NEW w \in WaveStatus \ {"SWING_ALL"}, contact' \in WGP!Patterns(w)
      PROVE  WG!Sum(contact') >= 2
  <2>1. PICK u \in 0 .. Period - 1 : contact' = WG!WaveContact(w, u)
    BY <1>5, SameClock DEF WGP!Patterns
  <2>2. CASE w = "WAVE_ALL"
    BY <2>1, <2>2, SupportAssumption
  <2>3. CASE w = "STANCE_ALL"
    <3>1. contact' = [i \in 0..3 |-> 1]
      BY <2>1, <2>3 DEF WG!WaveContact, WG!Leg
    <3> QED BY <3>1 DEF WG!Sum
  <2> QED BY <2>2, <2>3 DEF WaveStatus
<1>6. ASSUME s = "STANCE_ALL" PROVE statusPast' # "SWING_ALL"
  <2>1. CASE statusPast = "SWING_ALL"
    <3>1. WGP!Direct(s)
      BY <1>6, <2>1 DEF WGP!Direct
    <3>2. statusPast' = s
      BY <3>1, WGP!DirectIsImmediate, GaitAssumption DEF WGP!Leg, WGP!WaveStatus, WaveStatus
    <3> QED BY <1>6, <3>2
  <2>2. CASE statusPast # "SWING_ALL"
    BY <1>2, <1>6, <2>2
  <2> QED BY <2>1, <2>2
<1> QED BY <1>1, <1>2, <1>3, <1>4, <1>5, <1>6

---------------------------------------------------------------------------
(* Support of the body.  FixedStand is the only state on the ground that   *)
(* is entered from all-swing; it leaves all-swing in its first tick, so a  *)
(* change of state out of it, and every other state on the ground, finds   *)
(* a pattern with two legs down.                                           *)

OnGround == StateName \ {"PASSIVE", "SWINGTEST"}

FsmTypes ==
  /\ current \in StateName /\ next \in StateName
  /\ mode \in {"NORMAL", "CHANGE"}
  /\ shared \in Shared

SupportInv ==
  /\ FsmTypes
  /\ WGP!PatternInv
  /\ shared.wave \in Wave(current)
  /\ mode = "CHANGE" /\ next \in OnGround \ {"FIXEDSTAND"} => current \in OnGround
  /\ current \in OnGround /\ (current # "FIXEDSTAND" \/ mode = "CHANGE") =>
       statusPast # "SWING_ALL"
  /\ Supported

LEMMA WaysIntoStanding ==
  ASSUME NEW s \in StateName, NEW c \in UserCommand,
         checkChange(s, c) \in OnGround \ {"FIXEDSTAND"}
  PROVE  s \in OnGround
BY DEF OnGround, StateName, UserCommand, checkChange, Passive_checkChange, SwingTest_checkChange

LEMMA NormalFsm ==
  ASSUME FsmTypes, shared.wave \in Wave(current), NEW c \in Commands, Normal(c)
  PROVE  /\ FsmTypes' /\ shared'.wave \in Wave(current') /\ current' = current
         /\ mode' = "CHANGE" /\ next' \in OnGround \ {"FIXEDSTAND"} => current' \in OnGround
<1> USE DEF FsmTypes
<1>1. shared' \in run(current, shared) /\ current' = current /\ mode = "NORMAL"
  BY DEF Normal
<1>2. shared' \in Shared /\ shared'.wave \in Wave(current)
  BY <1>1, RunAsks
<1>3. c \in UserCommand
  BY CommandsAssumption
<1>4. /\ next' \in StateName /\ mode' \in {"NORMAL", "CHANGE"}
      /\ mode' = "CHANGE" => next' = checkChange(current, c)
  <2>1. checkChange(current, c) \in StateName
    BY <1>3 DEF StateName, UserCommand, checkChange, Passive_checkChange, FixedStand_checkChange,
                FreeStand_checkChange, Trotting_checkChange, MoveBase_checkChange,
                BalanceTest_checkChange, SwingTest_checkChange, StepTest_checkChange
  <2> QED BY <1>1, <2>1 DEF Normal
<1> QED BY <1>1, <1>2, <1>3, <1>4, WaysIntoStanding

LEMMA ChangeFsm ==
  ASSUME FsmTypes, Change
  PROVE  /\ FsmTypes' /\ shared'.wave \in Wave(current')
         /\ current' = next /\ mode' = "NORMAL" /\ mode = "CHANGE"
<1> USE DEF FsmTypes
<1> DEFINE left == exit(current, shared)
           entered == enter(next, left)
<1>1. /\ shared' \in run(next, entered)
      /\ current' = next /\ next' = next /\ mode' = "NORMAL" /\ mode = "CHANGE"
  BY DEF Change
<1>2. left \in Shared
  BY ExitKeeps
<1> HIDE DEF left
<1>3. entered \in Shared /\ (next \notin {"TROTTING", "MOVE_BASE"} => entered.wave \in Wave(next))
  BY <1>2, EnterAsks
<1> HIDE DEF entered
<1>4. shared' \in Shared /\ shared'.wave \in Wave(next)
  BY <1>1, <1>3, RunAsks
<1> QED BY <1>1, <1>4

LEMMA StepSupportInv == SupportInv /\ [Next]_vars => SupportInv'
<1> SUFFICES ASSUME SupportInv, [Next]_vars PROVE SupportInv'
  OBVIOUS
<1>1. CASE Tick
  <2>1. PICK t \in 0 .. Period - 1 : WGP!calcContactPhase(shared.wave, t)
    BY <1>1, TickIsCall DEF SupportInv
  <2>2. shared.wave \in WaveStatus
    BY DEF SupportInv, FsmTypes, Shared
  <2>3. WGP!PatternInv'
    BY <2>1, <2>2, WGP!CallImplements, GaitAssumption
    DEF SupportInv, WGP!Leg, WGP!WaveStatus, WaveStatus
  <2>4. current \in OnGround => shared.wave # "SWING_ALL"
    BY DEF SupportInv, OnGround, Wave, StateName
  <2>5. current = "FIXEDSTAND" => shared.wave = "STANCE_ALL"
    BY DEF SupportInv, Wave
  <2>6. ASSUME current \in OnGround
        PROVE  /\ statusPast # "SWING_ALL" =>
                    WG!Sum(contact') >= 2 /\ statusPast' # "SWING_ALL"
               /\ current = "FIXEDSTAND" => statusPast' # "SWING_ALL"
    BY <2>1, <2>2, <2>4, <2>5, <2>6, CallSupports DEF SupportInv
  <2>7. UsesForces \subseteq OnGround \ {"FIXEDSTAND"}
    BY DEF UsesForces, OnGround, StateName
  <2>8. ASSUME NEW c \in Commands, Normal(c) PROVE SupportInv'
    <3>1. /\ FsmTypes' /\ shared'.wave \in Wave(current') /\ current' = current
          /\ mode' = "CHANGE" /\ next' \in OnGround \ {"FIXEDSTAND"} => current' \in OnGround
      BY <2>8, NormalFsm DEF SupportInv
    <3>2. current' \in OnGround => statusPast' # "SWING_ALL"
      BY <2>6, <3>1 DEF SupportInv
    <3>3. Supported'
      BY <2>6, <2>7, <3>1 DEF SupportInv, Supported
    <3> QED BY <2>3, <3>1, <3>2, <3>3 DEF SupportInv
  <2>9. ASSUME Change PROVE SupportInv'
    <3>1. /\ FsmTypes' /\ shared'.wave \in Wave(current')
          /\ current' = next /\ mode' = "NORMAL" /\ mode = "CHANGE"
      BY <2>9, ChangeFsm DEF SupportInv
    <3>2. ASSUME next \in OnGround \ {"FIXEDSTAND"}
          PROVE  WG!Sum(contact') >= 2 /\ statusPast' # "SWING_ALL"
      BY <2>6, <3>1, <3>2 DEF SupportInv
    <3>3. Supported'
      BY <2>7, <3>1, <3>2 DEF Supported
    <3> QED BY <2>3, <3>1, <3>2, <3>3 DEF SupportInv
  <2> QED BY <1>1, <2>8, <2>9 DEF Tick
<1>2. CASE UNCHANGED vars
  <2> USE <1>2 DEF vars, fsmVars, waveVars
  <2>1. WGP!PatternInv'
    BY DEF SupportInv, WGP!PatternInv, WGP!TypeOK, WGP!Sum, WGP!Patterns
  <2> QED BY <2>1 DEF SupportInv, FsmTypes, Supported
<1> QED BY <1>1, <1>2 DEF Next

LEMMA InitSupportInv == Init => SupportInv
<1> SUFFICES ASSUME Init PROVE SupportInv
  OBVIOUS
<1>1. shared = [cmd |-> Damp, wave |-> "SWING_ALL", percent |-> 0]
  BY DEF Init, Passive_enter
<1>2. Damp \in MotorCmd
  BY DEF Damp, MotorCmd
<1>3. FsmTypes /\ shared.wave \in Wave(current)
  BY <1>1, <1>2, DurationAssumption DEF Init, FsmTypes, Shared, WaveStatus, StateName, Wave
<1>4. WGP!Init
  BY DEF Init, WG!Init, WGP!Init, WG!All, WGP!All, WG!Half, WGP!Half, WG!Leg, WGP!Leg
<1>5. WGP!PatternInv
  BY <1>4, WGP!InitPattern, GaitAssumption DEF WGP!Leg, WGP!WaveStatus, WaveStatus
<1> QED BY <1>3, <1>5 DEF Init, SupportInv, Supported, OnGround, UsesForces

(* Supported: no order of commands, from any state of a pending gait       *)
(* switch, brings a state that distributes forces to run with fewer than   *)
(* two legs in contact, for every gait that keeps two legs down.           *)
THEOREM SupportHolds == Spec => []Supported
<1>1. SupportInv => Supported
  BY DEF SupportInv
<1> QED BY <1>1, InitSupportInv, StepSupportInv, PTL DEF Spec

---------------------------------------------------------------------------
(* The places recorded.                                                    *)
PlaceInv == startP \in [Leg -> Place] /\ inStride \in [Leg -> BOOLEAN]

LEMMA StepPlaces ==
  ASSUME PlaceInv, Tick
  PROVE  PlaceInv'
<1>1. ASSUME NEW i \in Leg PROVE Moved(i) \in Place
  BY <1>1 DEF Moved, PlaceInv, Place
<1>2. ASSUME NEW first \in BOOLEAN, GaitRun(first) PROVE startP' \in [Leg -> Place]
  BY <1>1, <1>2 DEF GaitRun, Place
<1>3. ASSUME NEW s, NEW entered \in BOOLEAN, FeetOf(s, entered) PROVE startP' \in [Leg -> Place]
  BY <1>1, <1>2, <1>3 DEF FeetOf
<1>4. startP' \in [Leg -> Place]
  BY <1>3 DEF Tick, Change, Normal
<1>5. inStride' \in [Leg -> BOOLEAN]
  <2>1. \A i \in Leg : EndsStep(i) \in BOOLEAN /\ TouchesDown(i) \in BOOLEAN
    BY DEF EndsStep, TouchesDown
  <2>2. inStride' = [i \in Leg |-> IF TouchesDown(i) THEN EndsStep(i)
                                  ELSE inStride[i] /\ current' = current]
    BY DEF Tick, Strides
  <2> QED BY <2>1, <2>2 DEF PlaceInv
<1> QED BY <1>4, <1>5 DEF PlaceInv

(* The variables keep their types, for every gait that keeps two legs on   *)
(* the ground.                                                             *)
THEOREM TypeCorrect == Spec => []TypeOK
<1>1. Init => PlaceInv
  BY DEF Init, PlaceInv, Place
<1>2. PlaceInv /\ [Next]_vars => PlaceInv'
  BY StepPlaces DEF Next, vars, PlaceInv
<1>3. SupportInv /\ PlaceInv => TypeOK
  BY DEF SupportInv, PlaceInv, FsmTypes, TypeOK, WGP!PatternInv, WG!TypeOK, WGP!TypeOK,
         WG!WaveStatus, WGP!WaveStatus, WG!Leg, WGP!Leg, WG!Fraction, WGP!Fraction
<1> QED BY <1>1, <1>2, <1>3, InitSupportInv, StepSupportInv, PTL DEF Spec

---------------------------------------------------------------------------
(* The steps of a walk, for gaits whose legs are in step.                  *)

(* The walk is never asked for just after all-swing was: FixedStand is on  *)
(* the way.                                                                *)
AskInv ==
  /\ mode = "CHANGE" => next # current
  /\ current \in OnGround \ {"FIXEDSTAND"} => status # "SWING_ALL"

(* A leg set down in its stride has its place recorded.                    *)
StrideInv ==
  \A i \in Leg : inStride[i] => current \in Gaits /\ startP[i] = "foothold"

(* A tick, with the step the clock took.                                   *)
LEMMA TickCalls ==
  ASSUME Tick
  PROVE  /\ status' = shared.wave
         /\ \E d \in Steps : WGP!calcContactPhase(shared.wave, WGP!Elapsed(d))
<1>1. PICK d \in Steps : WG!calcContactPhase(shared.wave, WG!Elapsed(d))
  BY DEF Tick, WG!Tick
<1>2. WGP!calcContactPhase(shared.wave, WGP!Elapsed(d))
  BY <1>1, SameClock
<1> QED BY <1>1, <1>2 DEF WG!calcContactPhase

(* A state that walks is entered from FixedStand only.                     *)
LEMMA StepAsks ==
  ASSUME SupportInv, AskInv, Tick
  PROVE  AskInv'
<1>1. status' = shared.wave
  BY TickCalls
<1>2. current \in OnGround => shared.wave # "SWING_ALL"
  BY DEF SupportInv, OnGround, Wave, StateName
<1>3. ASSUME NEW c \in Commands, Normal(c) PROVE AskInv'
  BY <1>1, <1>2, <1>3 DEF Normal, AskInv
<1>4. ASSUME Change PROVE AskInv'
  BY <1>1, <1>2, <1>4 DEF Change, AskInv, SupportInv
<1> QED BY <1>3, <1>4 DEF Tick

(* No tick asks the gait clock for what its invariant excludes.            *)
LEMMA StepWalks ==
  ASSUME SupportInv, AskInv, WGP!WalkInv, WGP!InStep, Tick
  PROVE  WGP!WalkInv'
<1>1. PICK d \in Steps : WGP!calcContactPhase(shared.wave, WGP!Elapsed(d))
  BY TickCalls
<1>2. shared.wave \in WaveStatus /\ WGP!PatternInv
  BY DEF SupportInv, FsmTypes, Shared
<1>3. shared.wave = "WAVE_ALL" => status # "SWING_ALL" /\ statusPast # "SWING_ALL"
  <2> SUFFICES ASSUME shared.wave = "WAVE_ALL" PROVE current \in OnGround \ {"FIXEDSTAND"}
    BY DEF AskInv, SupportInv
  <2> QED BY DEF SupportInv, FsmTypes, Wave, OnGround, StateName
<1> QED BY <1>1, <1>2, <1>3, WGP!CallWalk, GaitAssumption DEF WGP!Leg, WGP!WaveStatus, WaveStatus

(* A step of a walk ends at the start of a stance, and so its end is       *)
(* recorded.                                                               *)
LEMMA StepEndsEarly ==
  ASSUME SupportInv, WGP!WalkInv, Tick, NEW i \in Leg, EndsStep(i),
         \A d \in Steps : 2 * (d - 1) < Stance
  PROVE  contact'[i] = 1 /\ InFirstHalf(phase'[i])
<1>1. /\ statusPast = "WAVE_ALL" /\ shared.wave = "WAVE_ALL"
      /\ contact[i] = 0 /\ contact'[i] = 1
  BY TickCalls DEF EndsStep, TouchesDown
<1>2. PICK d \in Steps : WGP!calcContactPhase("WAVE_ALL", WGP!Elapsed(d))
  BY <1>1, TickCalls
<1>3. phase'[i].num \in Nat /\ phase'[i].num < d /\ phase'[i].den = Stance
  BY <1>1, <1>2, WGP!CallTouches, GaitAssumption
  DEF SupportInv, WGP!Leg, WGP!WaveStatus, WaveStatus, Leg
<1>4. d \in Nat /\ 2 * (d - 1) < Stance
  BY <1>2, GaitAssumption
<1> QED BY <1>1, <1>3, <1>4, GaitAssumption DEF InFirstHalf

(* The end of a step is recorded, and the record lasts as long as the leg  *)
(* stands.                                                                 *)
LEMMA StepStrides ==
  ASSUME SupportInv, AskInv, WGP!WalkInv, PlaceInv, StrideInv, Tick,
         \A d \in Steps : 2 * (d - 1) < Stance
  PROVE  StrideInv'
<1> SUFFICES ASSUME NEW i \in Leg, inStride'[i]
             PROVE  current' \in Gaits /\ startP'[i] = "foothold"
  BY DEF StrideInv
<1>1. IF TouchesDown(i) THEN EndsStep(i) ELSE inStride[i] /\ current' = current
  BY DEF Tick, Strides
<1>2. CASE TouchesDown(i)
  <2>1. current' \in Gaits /\ contact'[i] = 1 /\ InFirstHalf(phase'[i])
    BY <1>1, <1>2, StepEndsEarly DEF EndsStep
  <2>2. ASSUME NEW first, GaitRun(first) PROVE startP'[i] = "foothold"
    BY <2>1, <2>2 DEF GaitRun, Records
  <2>3. ASSUME NEW s, NEW entered, FeetOf(s, entered), s = current' PROVE startP'[i] = "foothold"
    BY <2>1, <2>2, <2>3 DEF FeetOf
  <2> QED BY <2>1, <2>3 DEF Tick, Change, Normal
<1>3. CASE ~TouchesDown(i)
  <2>1. current' = current /\ current \in Gaits /\ startP[i] = "foothold"
    BY <1>1, <1>3 DEF StrideInv
  <2>2. ~Change
    BY <2>1 DEF Change, AskInv
  <2>3. PICK c \in Commands : Normal(c)
    BY <2>2 DEF Tick
  <2>4. GaitRun(FALSE)
    BY <2>1, <2>3 DEF Normal, FeetOf
  <2>5. Moved(i) = "foothold"
    BY <1>3, <2>1 DEF Moved
  <2>6. startP'[i] = "foothold"
    BY <2>4, <2>5 DEF GaitRun, Records
  <2> QED BY <2>1, <2>6
<1> QED BY <1>2, <1>3

(* The invariant of a walk.                                                *)
GaitInv == SupportInv /\ AskInv /\ WGP!WalkInv

(* It holds before the first tick.                                         *)
LEMMA InitGaitInv == Init => GaitInv
<1> SUFFICES ASSUME Init PROVE AskInv /\ WGP!WalkInv
  BY InitSupportInv DEF GaitInv
<1>1. WGP!Init
  BY DEF Init, WG!Init, WGP!Init, WG!All, WGP!All, WG!Half, WGP!Half, WG!Leg, WGP!Leg
<1>2. WGP!WalkInv
  BY <1>1, WGP!InitWalk, GaitAssumption DEF WGP!Leg, WGP!WaveStatus, WaveStatus
<1>3. AskInv
  BY DEF Init, AskInv, OnGround
<1> QED BY <1>2, <1>3

(* Every tick keeps it.                                                    *)
LEMMA StepGaitInv ==
  ASSUME WGP!InStep, GaitInv, [Next]_vars
  PROVE  GaitInv'
<1>1. SupportInv'
  BY StepSupportInv DEF GaitInv
<1>2. CASE Tick
  BY <1>1, <1>2, StepAsks, StepWalks DEF GaitInv
<1>3. CASE UNCHANGED vars
  <2> USE <1>3 DEF vars, fsmVars, waveVars
  <2>1. AskInv'
    BY DEF GaitInv, AskInv
  <2>2. WGP!WalkInv'
    BY DEF GaitInv, WGP!WalkInv, WGP!Pending, WGP!InTime, WGP!Walk, WGP!WaveContact,
           WGP!NormalT, WGP!FMod, WGP!Sum, WGP!All
  <2> QED BY <1>1, <2>1, <2>2 DEF GaitInv
<1> QED BY <1>2, <1>3 DEF Next

(* SwingsFromFoothold: a foot that has touched down as part of a walk      *)
(* swings from where it stood, since GaitGenerator::run has recorded its   *)
(* place. For every gait whose legs are in step and every tick that is     *)
(* shorter than half a stance.                                             *)
THEOREM SwingsStartWhereFeetStood ==
  ASSUME WG!InStep, \A d \in Steps : 2 * (d - 1) < Stance
  PROVE  Spec => []SwingsFromFoothold
<1>1. WGP!InStep
  BY SameClock DEF WG!InStep, WGP!InStep, WG!Walk, WGP!Walk, WG!Leg, WGP!Leg
<1>2. Init => GaitInv /\ PlaceInv /\ StrideInv
  BY InitGaitInv DEF Init, PlaceInv, Place, StrideInv
<1>3. GaitInv /\ PlaceInv /\ StrideInv /\ [Next]_vars => GaitInv' /\ PlaceInv' /\ StrideInv'
  <2> SUFFICES ASSUME GaitInv, PlaceInv, StrideInv, [Next]_vars
               PROVE  GaitInv' /\ PlaceInv' /\ StrideInv'
    OBVIOUS
  <2>1. GaitInv'
    BY <1>1, StepGaitInv
  <2>2. CASE Tick
    BY <2>1, <2>2, StepPlaces, StepStrides DEF GaitInv
  <2>3. CASE UNCHANGED vars
    BY <2>1, <2>3 DEF vars, fsmVars, PlaceInv, StrideInv
  <2> QED BY <2>2, <2>3 DEF Next
<1>4. StrideInv => SwingsFromFoothold
  BY DEF StrideInv, SwingsFromFoothold
<1> QED BY <1>2, <1>3, <1>4, PTL DEF Spec

(* LiftsOffAtStart: while nothing is being switched, no leg begins its     *)
(* swing later in it than two ticks of the gait clock. For every gait      *)
(* whose legs are in step.                                                 *)
THEOREM LiftsOffEarly ==
  ASSUME WG!InStep
  PROVE  Spec => LiftsOffAtStart
<1> DEFINE Early ==
      (WG!Sum(switchStatus) = 0 /\ statusPast # "SWING_ALL" /\ statusPast' # "SWING_ALL") =>
        \A i \in Leg : contact[i] = 1 /\ contact'[i] = 0 => ~Late(i)
<1>1. WGP!InStep
  BY SameClock DEF WG!InStep, WGP!InStep, WG!Walk, WGP!Walk, WG!Leg, WGP!Leg
<1>2. GaitInv /\ [Next]_vars => [Early]_vars
  <2> SUFFICES ASSUME GaitInv, Tick, ~WGP!Pending,
                      statusPast # "SWING_ALL", statusPast' # "SWING_ALL",
                      NEW i \in Leg, contact[i] = 1, contact'[i] = 0
               PROVE  ~Late(i)
    BY DEF Next, WG!Sum, WGP!Sum, WGP!Pending
  <2>1. PICK d \in Steps : WGP!calcContactPhase(shared.wave, WGP!Elapsed(d))
    BY TickCalls
  <2>2. shared.wave \in WaveStatus /\ WGP!PatternInv /\ WGP!WalkInv
    BY DEF GaitInv, SupportInv, FsmTypes, Shared
  <2>3. phase'[i].num \in Int /\ \E e \in Steps : phase'[i].num <= 2 * e
    BY <2>1, <2>2, WGP!CallLifts, GaitAssumption DEF WGP!Leg, WGP!WaveStatus, WaveStatus, Leg
  <2>4. PICK e \in Steps : phase'[i].num <= 2 * e
    BY <2>3
  <2>5. ~(phase'[i].num > 2 * e)
    BY <2>3, <2>4, GaitAssumption
  <2> QED BY <2>5 DEF Late
<1>3. GaitInv /\ [Next]_vars => GaitInv'
  BY <1>1, StepGaitInv
<1> QED BY <1>2, <1>3, InitGaitInv, PTL DEF Spec, LiftsOffAtStart

(* Both of the trot of main.cpp:81: diagonal pairs of legs, half a period  *)
(* apart.                                                                  *)
COROLLARY TrotSteps ==
  ASSUME Period = 2 * Stance, \A i \in Leg : Bias[i] \in {0, Stance},
         \A d \in Steps : 2 * (d - 1) < Stance
  PROVE  Spec => []SwingsFromFoothold /\ LiftsOffAtStart
<1>1. WGP!InStep
  BY WGP!TrotInStep, GaitAssumption DEF WGP!Leg, WGP!WaveStatus, WaveStatus, Leg
<1>2. WG!InStep
  BY <1>1, SameClock DEF WG!InStep, WGP!InStep, WG!Walk, WGP!Walk, WG!Leg, WGP!Leg
<1> QED BY <1>2, SwingsStartWhereFeetStood, LiftsOffEarly, PTL
=============================================================================
