------------------------ MODULE WaveGeneratorProofs ------------------------
(***************************************************************************)
(* Proofs about WaveGenerator, for every period, stance ratio and bias the *)
(* constructor accepts, every clock and every order of requests.           *)
(***************************************************************************)
EXTENDS WaveGenerator, TLAPS

USE DEF Leg

---------------------------------------------------------------------------
(* The clock and its remainders. *)

LEMMA RemainderRange ==
  ASSUME NEW a \in Nat, NEW b \in Nat \ {0}
  PROVE  a % b \in Nat /\ a % b < b
OBVIOUS

LEMMA FModType ==
  ASSUME NEW a \in Int, NEW b \in Nat \ {0}
  PROVE  FMod(a, b) \in Int /\ FMod(a, b) < b
<1>1. CASE a >= 0
  BY <1>1, RemainderRange DEF FMod
<1>2. CASE ~(a >= 0)
  <2>1. -a \in Nat
    BY <1>2
  <2>2. (-a) % b \in Nat
    BY <2>1, RemainderRange
  <2> QED BY <1>2, <2>2 DEF FMod
<1> QED BY <1>1, <1>2

(* A call at any time gives each leg a binary contact and a fraction.      *)
LEMMA WaveTypes ==
  ASSUME NEW s, NEW t \in Int
  PROVE  /\ WaveContact(s, t) \in [Leg -> {0, 1}]
         /\ WavePhase(s, t) \in [Leg -> Fraction]
<1>1. WaveContact(s, t) \in [Leg -> {0, 1}]
  BY DEF WaveContact
<1>2. ASSUME NEW i \in Leg PROVE NormalT(t, i) \in Int
  <2>1. t + Period - Bias[i] \in Int /\ Period \in Nat \ {0}
    BY GaitAssumption
  <2> QED BY <2>1, FModType DEF NormalT
<1>3. Half \in Fraction
  BY DEF Half, Fraction
<1>4. ASSUME NEW i \in Leg PROVE WavePhase(s, t)[i] \in Fraction
  BY <1>2, <1>3, GaitAssumption DEF WavePhase, Fraction
<1>5. WavePhase(s, t) = [i \in Leg |-> WavePhase(s, t)[i]]
  BY DEF WavePhase
<1> QED BY <1>1, <1>4, <1>5

(* From the start of the clock on, the fractions lie in [0, 1).            *)
LEMMA WaveInUnit ==
  ASSUME NEW s, NEW t \in Nat
  PROVE  InUnit(WavePhase(s, t))
<1>1. ASSUME NEW i \in Leg PROVE NormalT(t, i) \in Nat /\ NormalT(t, i) < Period
  <2>1. t + Period - Bias[i] \in Nat /\ Period \in Nat \ {0}
    BY GaitAssumption
  <2> QED BY <2>1, RemainderRange DEF NormalT, FMod
<1>2. ASSUME NEW i \in Leg
      PROVE 0 <= WavePhase(s, t)[i].num /\ WavePhase(s, t)[i].num < WavePhase(s, t)[i].den
  BY <1>1, GaitAssumption DEF WavePhase, Half
<1> QED BY <1>2 DEF InUnit

(* Type correctness; the clock may be set to any time. *)

LEMMA ElapsedType ==
  ASSUME clock \in Int, NEW d \in Nat
  PROVE  /\ Elapsed(d) \in Int
         /\ clock >= 0 => Elapsed(d) \in 0 .. Period - 1
<1>1. Period \in Nat \ {0}
  BY GaitAssumption
<1>2. CASE clock + d >= 0
  <2>1. (clock + d) % Period \in Nat /\ (clock + d) % Period < Period
    BY <1>1, <1>2, RemainderRange
  <2> QED BY <1>1, <1>2, <2>1 DEF Elapsed
<1>3. CASE ~(clock + d >= 0)
  BY <1>3 DEF Elapsed
<1> QED BY <1>2, <1>3

LEMMA OldTypes ==
  ASSUME TypeOK, NEW s \in WaveStatus, NEW t \in Int
  PROVE  /\ OldContact(s, t) \in [Leg -> {0, 1}]
         /\ OldPhase(s, t) \in [Leg -> Fraction]
BY WaveTypes DEF TypeOK, OldContact, OldPhase

(* A call leaves every variable within its type.                           *)
LEMMA CallTypes ==
  ASSUME TypeOK, NEW s \in WaveStatus, NEW t \in Int, calcContactPhase(s, t)
  PROVE  TypeOK'
<1>1. /\ WaveContact(s, t) \in [Leg -> {0, 1}] /\ WavePhase(s, t) \in [Leg -> Fraction]
      /\ OldContact(s, t) \in [Leg -> {0, 1}] /\ OldPhase(s, t) \in [Leg -> Fraction]
  BY WaveTypes, OldTypes
<1>2. Armed(s) \in [Leg -> Int]
  BY DEF TypeOK, Armed, All
<1>3. clock' \in Int /\ status' \in WaveStatus
  BY DEF calcContactPhase
<1>4. contactPast' \in [Leg -> {0, 1}] /\ phasePast' \in [Leg -> Fraction]
  BY <1>1 DEF calcContactPhase
<1>5. CASE Follow(s, t)
  <2>1. /\ contact' \in [Leg -> {0, 1}] /\ phase' \in [Leg -> Fraction]
        /\ switchStatus' \in [Leg -> Int] /\ statusPast' \in WaveStatus
    BY <1>1, <1>2, <1>5 DEF Follow, TypeOK
  <2> QED BY <1>3, <1>4, <2>1 DEF TypeOK
<1>6. CASE Switch(s, t)
  <2>1. contact' \in [Leg -> {0, 1}]
    BY <1>1, <1>6 DEF Switch
  <2>2. phase' \in [Leg -> Fraction]
    BY <1>1, <1>6 DEF Switch
  <2>3. switchStatus' \in [Leg -> Int]
    BY <1>2, <1>6 DEF Switch
  <2>4. statusPast' \in WaveStatus
    BY <1>6 DEF Switch, TypeOK
  <2> QED BY <1>3, <1>4, <2>1, <2>2, <2>3, <2>4 DEF TypeOK
<1> QED BY <1>5, <1>6 DEF calcContactPhase

LEMMA InitTypes == Init => TypeOK
<1> SUFFICES ASSUME Init PROVE TypeOK
  OBVIOUS
<1>1. clock \in Int /\ status \in WaveStatus /\ statusPast \in WaveStatus
  BY GaitAssumption DEF Init, WaveStatus
<1>2. switchStatus \in [Leg -> Int]
  BY CallAssumption DEF Init
<1>3. contact \in [Leg -> {0, 1}] /\ contactPast \in [Leg -> {0, 1}]
  BY DEF Init, All
<1>4. phase \in [Leg -> Fraction] /\ phasePast \in [Leg -> Fraction]
  BY DEF Init, All, Half, Fraction
<1> QED BY <1>1, <1>2, <1>3, <1>4 DEF TypeOK

(* Every step is a call, at a time that is an integer.                     *)
LEMMA StepIsCall ==
  ASSUME TypeOK, Next
  PROVE  \E s \in Statuses :
           \/ \E d \in Steps : calcContactPhase(s, Elapsed(d))
           \/ \E t \in Rewinds : calcContactPhase(s, t)
BY DEF Next, Tick, SetBack

(* TypeOK is an invariant: contacts are binary and phases are fractions    *)
(* with a positive denominator, whatever the clock does.                   *)
THEOREM TypeCorrect == Spec => []TypeOK
<1>1. TypeOK /\ [Next]_vars => TypeOK'
  <2> SUFFICES ASSUME TypeOK, [Next]_vars PROVE TypeOK'
    OBVIOUS
  <2>1. CASE Next
    <3>1. PICK s \in Statuses : \/ \E d \in Steps : calcContactPhase(s, Elapsed(d))
                                \/ \E t \in Rewinds : calcContactPhase(s, t)
      BY <2>1, StepIsCall
    <3>2. s \in WaveStatus
      BY CallAssumption
    <3>3. ASSUME NEW d \in Steps, calcContactPhase(s, Elapsed(d)) PROVE TypeOK'
      <4>1. Elapsed(d) \in Int
        BY ElapsedType, CallAssumption DEF TypeOK
      <4> QED BY <3>2, <3>3, <4>1, CallTypes
    <3>4. ASSUME NEW t \in Rewinds, calcContactPhase(s, t) PROVE TypeOK'
      BY <3>2, <3>4, CallTypes, CallAssumption
    <3> QED BY <3>1, <3>3, <3>4
  <2>2. CASE UNCHANGED vars
    BY <2>2 DEF vars, TypeOK
  <2> QED BY <2>1, <2>2
<1> QED BY InitTypes, <1>1, PTL DEF Spec

---------------------------------------------------------------------------
(* Phases stay in [0, 1) unless the clock is set back to before _startT.   *)
(* Phases are handed on from call to call while a leg waits, so the        *)
(* invariant speaks of the remembered ones as well.                        *)

PhaseInv == TypeOK /\ clock >= 0 /\ InUnit(phase) /\ InUnit(phasePast)

LEMMA CallPhases ==
  ASSUME PhaseInv, NEW s \in WaveStatus, NEW t \in Nat, calcContactPhase(s, t)
  PROVE  PhaseInv'
<1>1. TypeOK'
  BY CallTypes DEF PhaseInv
<1>2. InUnit(WavePhase(s, t)) /\ InUnit(OldPhase(s, t))
  BY WaveInUnit DEF OldPhase, PhaseInv
<1>3. clock' >= 0 /\ InUnit(phasePast')
  BY <1>2 DEF calcContactPhase
<1>4. ASSUME Follow(s, t) PROVE InUnit(phase')
  BY <1>2, <1>4 DEF Follow
<1>5. ASSUME Switch(s, t) PROVE InUnit(phase')
  <2>1. ASSUME NEW i \in Leg
        PROVE phase'[i] = WavePhase(s, t)[i] \/ phase'[i] = OldPhase(s, t)[i]
    BY <1>5 DEF Switch
  <2> QED BY <1>2, <2>1 DEF InUnit
<1>6. InUnit(phase')
  BY <1>4, <1>5 DEF calcContactPhase
<1> QED BY <1>1, <1>3, <1>6 DEF PhaseInv, InUnit

(* PhaseInRange: no call hands out a phase outside [0, 1), for every gait  *)
(* and every order of requests, if no call finds a time before _startT.    *)
THEOREM PhaseRange ==
  ASSUME Rewinds \subseteq Nat
  PROVE  Spec => []PhaseInRange
<1>1. Init => PhaseInv
  <2>1. ASSUME Init PROVE clock >= 0 /\ InUnit(phase) /\ InUnit(phasePast)
    BY <2>1, GaitAssumption DEF Init, InUnit, All, Half
  <2> QED BY <2>1, InitTypes DEF PhaseInv
<1>2. PhaseInv /\ [Next]_vars => PhaseInv'
  <2> SUFFICES ASSUME PhaseInv, [Next]_vars PROVE PhaseInv'
    OBVIOUS
  <2>1. CASE Next
    <3>1. PICK s \in Statuses : \/ \E d \in Steps : calcContactPhase(s, Elapsed(d))
                                \/ \E t \in Rewinds : calcContactPhase(s, t)
      BY <2>1, StepIsCall DEF PhaseInv
    <3>2. s \in WaveStatus
      BY CallAssumption
    <3>3. ASSUME NEW d \in Steps, calcContactPhase(s, Elapsed(d)) PROVE PhaseInv'
      <4>1. Elapsed(d) \in Nat
        BY ElapsedType, CallAssumption, GaitAssumption DEF PhaseInv, TypeOK
      <4> QED BY <3>2, <3>3, <4>1, CallPhases
    <3>4. ASSUME NEW t \in Rewinds, calcContactPhase(s, t) PROVE PhaseInv'
      BY <3>2, <3>4, CallPhases
    <3> QED BY <3>1, <3>3, <3>4
  <2>2. CASE UNCHANGED vars
    BY <2>2 DEF vars, PhaseInv, TypeOK, InUnit
  <2> QED BY <2>1, <2>2
<1>3. PhaseInv => PhaseInRange
  BY DEF PhaseInv, PhaseInRange
<1> QED BY <1>1, <1>2, <1>3, PTL DEF Spec

---------------------------------------------------------------------------
(* What a pending switch answers. *)

(* In every call with something to switch the answer is the old one, leg   *)
(* by leg and so as a whole.                                               *)
LEMMA SwitchAnswersOld ==
  ASSUME TypeOK, NEW s \in WaveStatus, NEW t \in Int, Switch(s, t)
  PROVE  contact' = OldContact(s, t)
<1>1. OldContact(s, t) \in [Leg -> {0, 1}]
  BY OldTypes
<1>2. ASSUME NEW i \in Leg PROVE contact'[i] = OldContact(s, t)[i]
  BY DEF Switch, Agrees
<1>3. contact' = [i \in Leg |-> contact'[i]]
  BY DEF Switch
<1> QED BY <1>1, <1>2, <1>3

LEMMA OtherStatusSwitches ==
  ASSUME TypeOK, NEW s \in WaveStatus, NEW t \in Int, s # statusPast,
         calcContactPhase(s, t)
  PROVE  Switch(s, t)
<1>1. Sum(Armed(s)) # 0
  <2>1. CASE Sum(switchStatus) = 0
    BY <2>1 DEF Armed, All, Sum
  <2>2. CASE Sum(switchStatus) # 0
    BY <2>2 DEF Armed
  <2> QED BY <2>1, <2>2
<1> QED BY <1>1 DEF calcContactPhase, Follow

(* KeepsOldPattern: until a switch is complete all legs follow the old     *)
(* status at the time of the call, for every gait, clock and caller.       *)
THEOREM KeepsOld == Spec => KeepsOldPattern
<1> DEFINE Kept ==
      status' # statusPast =>
        contact' = WaveContact(IF Direct(status') THEN status' ELSE statusPast, clock')
<1>1. TypeOK /\ [Next]_vars => [Kept]_vars
  <2> SUFFICES ASSUME TypeOK, Next PROVE Kept
    OBVIOUS
  <2>1. PICK s \in Statuses : \/ \E d \in Steps : calcContactPhase(s, Elapsed(d))
                              \/ \E t \in Rewinds : calcContactPhase(s, t)
    BY StepIsCall
  <2>2. PICK t \in Int : calcContactPhase(s, t)
    BY <2>1, ElapsedType, CallAssumption DEF TypeOK
  <2>3. s \in WaveStatus /\ status' = s /\ clock' = t
    BY <2>2, CallAssumption DEF calcContactPhase
  <2>4. ASSUME s # statusPast
        PROVE contact' = WaveContact(IF Direct(s) THEN s ELSE statusPast, t)
    <3>1. contact' = OldContact(s, t)
      BY <2>2, <2>3, <2>4, OtherStatusSwitches, SwitchAnswersOld
    <3> QED BY <2>4, <3>1 DEF OldContact
  <2> QED BY <2>3, <2>4
<1> QED BY <1>1, TypeCorrect, PTL DEF Spec, KeepsOldPattern

---------------------------------------------------------------------------
(* The refinement of GaitPattern.  The contact remembered from an earlier  *)
(* call is used again only while a switch is pending, and is then still a  *)
(* vector of the completed status: that is the whole invariant.            *)

PatternInv ==
  /\ TypeOK
  /\ clock \in 0 .. Period - 1
  /\ Sum(switchStatus) # 0 => contactPast \in Patterns(statusPast)

LEMMA CallImplements ==
  ASSUME PatternInv, NEW s \in Statuses, NEW t \in 0 .. Period - 1,
         calcContactPhase(s, t)
  PROVE  PatternInv' /\ (Gait!Hold(s) \/ Gait!Adopt(s))
<1>1. s \in WaveStatus /\ t \in Int /\ TypeOK
  BY CallAssumption DEF PatternInv
<1>2. TypeOK' /\ clock' = t /\ status' = s /\ contactPast' = OldContact(s, t)
  BY <1>1, CallTypes DEF calcContactPhase
<1>3. WaveContact(s, t) \in Patterns(s) /\ WaveContact(statusPast, t) \in Patterns(statusPast)
  BY DEF Patterns
<1>4. ASSUME Follow(s, t)
      PROVE  PatternInv' /\ Gait!Hold(s)
  <2>1. s = statusPast
    BY <1>1, <1>4, OtherStatusSwitches DEF Follow, Switch
  <2>2. Sum(switchStatus') = 0
    BY <1>4 DEF Follow
  <2>3. PatternInv'
    BY <1>2, <2>2 DEF PatternInv, Sum
  <2>4. Gait!Hold(s)
    BY <1>2, <1>3, <1>4, <2>1 DEF Follow, Gait!Hold
  <2> QED BY <2>3, <2>4
<1>5. ASSUME Switch(s, t), s = statusPast
      PROVE  PatternInv' /\ Gait!Hold(s)
  <2>1. Sum(switchStatus) # 0
    BY <1>5 DEF Switch, Armed
  <2>2. OldContact(s, t) = contactPast /\ contactPast \in Patterns(statusPast)
    BY <1>5, <2>1 DEF OldContact, PatternInv
  <2>3. statusPast' = statusPast
    BY <1>5 DEF Switch
  <2>4. contact' = OldContact(s, t)
    BY <1>1, <1>5, SwitchAnswersOld
  <2> QED BY <1>2, <2>2, <2>3, <2>4 DEF PatternInv, Patterns, Gait!Hold
<1>6. ASSUME Switch(s, t), s # statusPast, ~Direct(s)
      PROVE  PatternInv' /\ (Gait!Hold(s) \/ Gait!Adopt(s))
  <2>1. OldContact(s, t) \in Patterns(statusPast)
    BY <1>3, <1>6 DEF OldContact
  <2>2. contact' = OldContact(s, t)
    BY <1>1, <1>6, SwitchAnswersOld
  <2>3. CASE Sum(switchStatus') = 0
    <3>1. statusPast' = s
      BY <1>6, <2>3 DEF Switch
    <3> QED BY <1>2, <2>1, <2>2, <2>3, <3>1 DEF PatternInv, Sum, Gait!Adopt
  <2>4. CASE Sum(switchStatus') # 0
    <3>1. statusPast' = statusPast
      BY <1>6, <2>4 DEF Switch
    <3> QED BY <1>2, <2>1, <2>2, <3>1 DEF PatternInv, Patterns, Gait!Hold
  <2> QED BY <2>3, <2>4
<1>7. ASSUME Switch(s, t), s # statusPast, Direct(s)
      PROVE  PatternInv' /\ Gait!Adopt(s)
  <2>1. OldContact(s, t) = WaveContact(s, t)
    BY <1>7 DEF OldContact
  <2>2. contact' \in Patterns(s)
    BY <1>1, <1>3, <1>7, <2>1, SwitchAnswersOld
  <2>3. Sum(switchStatus') = 0
    BY <1>7, <2>1 DEF Switch, Agrees, Sum
  <2>4. statusPast' = s
    BY <1>7, <2>3 DEF Switch
  <2> QED BY <1>2, <2>2, <2>3, <2>4 DEF PatternInv, Sum, Gait!Adopt
<1> QED BY <1>4, <1>5, <1>6, <1>7 DEF calcContactPhase

LEMMA InitPattern == Init => PatternInv /\ contact \in Patterns("SWING_ALL")
<1> SUFFICES ASSUME Init PROVE PatternInv /\ contact \in Patterns("SWING_ALL")
  OBVIOUS
<1>1. All(0) = WaveContact("SWING_ALL", 0) /\ 0 \in 0 .. Period - 1
  BY GaitAssumption DEF All, WaveContact
<1>2. contactPast \in Patterns("SWING_ALL") /\ contact \in Patterns("SWING_ALL")
  BY <1>1 DEF Init, Patterns
<1> QED BY <1>2, InitTypes DEF Init, PatternInv

(* A switch between all-stance and all-swing is complete in its first call.*)
LEMMA DirectIsImmediate ==
  ASSUME PatternInv, NEW s \in Statuses, NEW t \in 0 .. Period - 1,
         calcContactPhase(s, t), Direct(s)
  PROVE  statusPast' = s
<1>1. s # statusPast
  BY DEF Direct
<1>2. Switch(s, t)
  BY <1>1, OtherStatusSwitches, CallAssumption DEF PatternInv
<1>3. OldContact(s, t) = WaveContact(s, t)
  BY <1>1 DEF OldContact
<1>4. Sum(switchStatus') = 0
  BY <1>2, <1>3 DEF Switch, Agrees, Sum
<1> QED BY <1>2, <1>4 DEF Switch

(* ImplementsGaitPattern: the legs are never given a contact vector mixed  *)
(* from two statuses, for every gait, every order of requests and every    *)
(* garbage in the flags, if the clock is not set back before _startT.      *)
THEOREM Implements ==
  ASSUME Rewinds \subseteq 0 .. Period - 1
  PROVE  Spec => ImplementsGaitPattern
<1>1. Init => PatternInv /\ Gait!Init
  BY InitPattern DEF Init, Gait!Init
<1>2. PatternInv /\ [Next]_vars => PatternInv' /\ [Gait!Next]_(Gait!vars)
  <2> SUFFICES ASSUME PatternInv, [Next]_vars
               PROVE  PatternInv' /\ [Gait!Next]_(Gait!vars)
    OBVIOUS
  <2>1. CASE Next
    <3>1. PICK s \in Statuses : \/ \E d \in Steps : calcContactPhase(s, Elapsed(d))
                                \/ \E t \in Rewinds : calcContactPhase(s, t)
      BY <2>1, StepIsCall DEF PatternInv
    <3>2. PICK t \in 0 .. Period - 1 : calcContactPhase(s, t)
      BY <3>1, ElapsedType, CallAssumption, GaitAssumption DEF PatternInv
    <3>3. PatternInv' /\ (Gait!Hold(s) \/ Gait!Adopt(s))
      BY <3>2, CallImplements
    <3> QED BY <3>3 DEF Gait!Next
  <2>2. CASE UNCHANGED vars
    BY <2>2 DEF vars, PatternInv, TypeOK, Sum, Patterns, Gait!vars
  <2> QED BY <2>1, <2>2
<1> QED BY <1>1, <1>2, PTL DEF Spec, ImplementsGaitPattern, Gait!Spec

---------------------------------------------------------------------------
(* What becomes of the legs of a walk whose legs are in step.              *)
Pending == Sum(switchStatus) # 0

(* The leg is where the walk has it, or is about to lift off.              *)
InTime(i) ==
  \/ contact[i] = Walk(clock)[i]
  \/ contact[i] = 1 /\ \E d \in Steps : NormalT(clock, i) < Stance + d

(* While a switch from all-stance is pending, the legs that have not       *)
(* switched are those that the walk has swung ever since.  While one from  *)
(* the walk is, they are legs in swing; and if the walk is asked for again *)
(* all legs keep still, until these swing again: then, all being in step,  *)
(* they are where the walk has them.                                       *)
WalkInv ==
  /\ statusPast # "SWING_ALL" => switchStatus \in [Leg -> {0, 1}]
  /\ statusPast = "STANCE_ALL" /\ Pending =>
       /\ contactPast = All(1)
       /\ \A i \in Leg : switchStatus[i] # 0 => Walk(clock)[i] = 0
  /\ statusPast = "WAVE_ALL" /\ ~Pending => \A i \in Leg : InTime(i)
  /\ statusPast = "WAVE_ALL" /\ Pending =>
       /\ contact = contactPast
       /\ status # "SWING_ALL" => \A i \in Leg : switchStatus[i] # 0 => contact[i] = 0

(* Flags add up to zero only if none is set.                               *)
LEMMA FlagSum ==
  ASSUME NEW f \in [Leg -> {0, 1}]
  PROVE  Sum(f) # 0 <=> \E i \in Leg : f[i] # 0
<1>1. f[0] \in {0, 1} /\ f[1] \in {0, 1} /\ f[2] \in {0, 1} /\ f[3] \in {0, 1}
  OBVIOUS
<1>2. Sum(f) # 0 <=> (f[0] # 0 \/ f[1] # 0 \/ f[2] # 0 \/ f[3] # 0)
  BY <1>1 DEF Sum
<1> QED BY <1>2

(* The walk's own time of a leg, and its contact.                          *)
LEMMA WalkTimes ==
  ASSUME NEW t \in 0 .. Period - 1, NEW i \in Leg
  PROVE  /\ NormalT(t, i) \in Nat /\ NormalT(t, i) < Period
         /\ Walk(t)[i] \in {0, 1}
         /\ Walk(t)[i] = 1 <=> NormalT(t, i) < Stance
         /\ Walk(t)[i] = 0 <=> NormalT(t, i) >= Stance
<1>1. NormalT(t, i) \in Nat /\ NormalT(t, i) < Period
  <2>1. t + Period - Bias[i] \in Nat /\ Period \in Nat \ {0}
    BY GaitAssumption
  <2> QED BY <2>1, RemainderRange DEF NormalT, FMod
<1>2. Walk(t)[i] = IF NormalT(t, i) < Stance THEN 1 ELSE 0
  BY DEF Walk, WaveContact
<1> QED BY <1>1, <1>2, GaitAssumption

(* How far it is in its stance or its swing.                               *)
LEMMA WalkPhases ==
  ASSUME NEW t, NEW i \in Leg
  PROVE  /\ NormalT(t, i) < Stance =>
              /\ WavePhase("WAVE_ALL", t)[i].num = NormalT(t, i)
              /\ WavePhase("WAVE_ALL", t)[i].den = Stance
         /\ ~(NormalT(t, i) < Stance) =>
              WavePhase("WAVE_ALL", t)[i].num = NormalT(t, i) - Stance
BY DEF WavePhase

(* A remainder is determined by its range.                                 *)
LEMMA Quotient ==
  ASSUME NEW a \in Nat, NEW b \in Nat \ {0}
  PROVE  \E q \in Int : a = q * b + (a % b)
<1>1. a \div b \in Int /\ a = (a \div b) * b + (a % b)
  OBVIOUS
<1> QED BY <1>1

(* By how much a leg's time advances in a call.                            *)
LEMMA TimeAdvances ==
  ASSUME clock \in 0 .. Period - 1, NEW d \in Nat, NEW i \in Leg
  PROVE  /\ NormalT(Elapsed(d), i) <= NormalT(clock, i) + d
         /\ NormalT(Elapsed(d), i) < NormalT(clock, i) => NormalT(Elapsed(d), i) < d
<1> DEFINE t == Elapsed(d)
           x == NormalT(clock, i)
           y == NormalT(t, i)
<1>1. /\ Period \in Nat \ {0} /\ clock \in Nat /\ Bias[i] \in 0..Period
      /\ t = (clock + d) % Period /\ t \in Nat /\ t \in 0 .. Period - 1
  BY GaitAssumption, RemainderRange DEF Elapsed
<1>2. x = (clock + Period - Bias[i]) % Period /\ y = (t + Period - Bias[i]) % Period
  BY <1>1 DEF NormalT, FMod
<1>3. x \in Nat /\ x < Period /\ y \in Nat /\ y < Period
  BY <1>1, WalkTimes
<1>4. PICK p \in Int : clock + d = p * Period + t
  <2>1. clock + d \in Nat
    BY <1>1
  <2> HIDE DEF t
  <2> QED BY <1>1, <2>1, Quotient
<1>5. PICK q \in Int : clock + Period - Bias[i] = q * Period + x
  <2>1. clock + Period - Bias[i] \in Nat
    BY <1>1
  <2> HIDE DEF x
  <2> QED BY <1>1, <1>2, <2>1, Quotient
<1>6. PICK r \in Int : t + Period - Bias[i] = r * Period + y
  <2>1. t + Period - Bias[i] \in Nat
    BY <1>1
  <2> HIDE DEF t, y
  <2> QED BY <1>1, <1>2, <2>1, Quotient
<1> HIDE DEF t, x, y
<1>7. y = x + d - (p + r - q) * Period
  BY <1>1, <1>3, <1>4, <1>5, <1>6
<1>8. PICK m \in Int : y = x + d - m * Period
  BY <1>7
<1>9. m >= 0
  <2> SUFFICES ASSUME m <= -1 PROVE FALSE
    OBVIOUS
  <2>1. m * Period <= -Period
    BY <1>1
  <2> QED BY <1>1, <1>3, <1>8, <2>1
<1>10. y <= x + d
  <2>1. m * Period >= 0
    BY <1>1, <1>9
  <2>2. m * Period \in Int
    BY <1>1
  <2> QED BY <1>3, <1>8, <2>1, <2>2
<1>11. ASSUME y < x PROVE y < d
  <2>1. m # 0
    <3>1. m = 0 => m * Period = 0
      BY <1>1
    <3> QED BY <1>3, <1>8, <1>11, <3>1
  <2>2. m * Period >= Period /\ m * Period \in Int
    BY <1>1, <1>9, <2>1
  <2> QED BY <1>1, <1>3, <1>8, <2>2
<1> QED BY <1>10, <1>11 DEF t, x, y

(* What a call makes of the flags, and of the two memories of the contact. *)
LEMMA SwitchFlags ==
  ASSUME PatternInv, NEW s \in WaveStatus, NEW t \in 0 .. Period - 1,
         calcContactPhase(s, t), Switch(s, t)
  PROVE  /\ contact' = OldContact(s, t) /\ contactPast' = OldContact(s, t)
         /\ \A i \in Leg :
              switchStatus'[i] =
                IF WaveContact(s, t)[i] = OldContact(s, t)[i] THEN 0 ELSE Armed(s)[i]
         /\ Armed(s) \in [Leg -> {0, 1}] => switchStatus' \in [Leg -> {0, 1}]
         /\ statusPast' = IF Pending' THEN statusPast ELSE s
         /\ clock' = t /\ status' = s
<1>1. contact' = OldContact(s, t)
  BY SwitchAnswersOld DEF PatternInv
<1>2. contactPast' = OldContact(s, t) /\ clock' = t /\ status' = s
  BY DEF calcContactPhase
<1>3. switchStatus' = [i \in Leg |-> IF WaveContact(s, t)[i] = OldContact(s, t)[i] THEN 0
                                     ELSE Armed(s)[i]]
  BY DEF Switch, Agrees
<1>4. statusPast' = IF Pending' THEN statusPast ELSE s
  BY DEF Switch, Pending
<1> QED BY <1>1, <1>2, <1>3, <1>4

(* All legs agree: the switch is complete.                                 *)
LEMMA AllAgree ==
  ASSUME PatternInv, NEW s \in WaveStatus, NEW t \in 0 .. Period - 1,
         calcContactPhase(s, t), Switch(s, t), OldContact(s, t) = WaveContact(s, t)
  PROVE  ~Pending' /\ statusPast' = s /\ switchStatus' \in [Leg -> {0, 1}]
<1>1. switchStatus' = [i \in Leg |-> 0]
  BY DEF Switch, Agrees
<1>2. ~Pending'
  BY <1>1 DEF Pending, Sum
<1> QED BY <1>1, <1>2, SwitchFlags

(* The walk is asked for again while a switch away from it is pending.     *)
LEMMA WalkResumes ==
  ASSUME PatternInv, WalkInv, InStep, NEW t \in 0 .. Period - 1,
         statusPast = "WAVE_ALL", Pending, status # "SWING_ALL",
         calcContactPhase("WAVE_ALL", t), Switch("WAVE_ALL", t)
  PROVE  contact' = contact /\ WalkInv'
<1>1. "WAVE_ALL" \in WaveStatus /\ Armed("WAVE_ALL") = switchStatus /\ OldContact("WAVE_ALL", t) = contactPast
  BY DEF WaveStatus, Armed, OldContact
<1>2. /\ contact' = contactPast /\ contactPast' = contactPast /\ contact = contactPast
      /\ \A i \in Leg : switchStatus'[i] = IF Walk(t)[i] = contactPast[i] THEN 0 ELSE switchStatus[i]
      /\ switchStatus \in [Leg -> {0, 1}] /\ switchStatus' \in [Leg -> {0, 1}]
      /\ statusPast' = "WAVE_ALL" /\ clock' = t
  BY <1>1, SwitchFlags DEF WalkInv, Walk
<1>3. \A i \in Leg : switchStatus[i] # 0 => contact[i] = 0
  BY DEF WalkInv
<1>4. \A i \in Leg : switchStatus'[i] # 0 => contact'[i] = 0
  BY <1>2, <1>3
<1>5. ASSUME ~Pending' PROVE \A i \in Leg : contact'[i] = Walk(t)[i]
  <2>1. PICK A \in Leg : switchStatus[A] # 0
    BY <1>2, FlagSum DEF Pending
  <2>2. switchStatus'[A] = 0
    BY <1>2, <1>5, FlagSum DEF Pending
  <2>3. Walk(t)[A] = 0 /\ contactPast[A] = 0
    BY <1>2, <1>3, <2>1, <2>2
  <2>4. PICK u \in 0 .. Period - 1 : contactPast = Walk(u)
    BY DEF PatternInv, Pending, Patterns, Walk
  <2> SUFFICES ASSUME NEW i \in Leg PROVE contactPast[i] = Walk(t)[i]
    BY <1>2
  <2>5. Walk(u)[i] \in {0, 1} /\ Walk(t)[i] \in {0, 1}
    BY WalkTimes, GaitAssumption
  <2>6. Walk(u)[i] = 0 => Walk(t)[i] = 0
    BY <2>3, <2>4 DEF InStep
  <2>7. Walk(t)[i] = 0 => Walk(u)[i] = 0
    BY <2>3, <2>4 DEF InStep
  <2> QED BY <2>4, <2>5, <2>6, <2>7
<1> QED BY <1>2, <1>4, <1>5 DEF WalkInv, InTime

(* The walk is asked for while the legs stand.                             *)
LEMMA WalkBegins ==
  ASSUME PatternInv, WalkInv, InStep, NEW d \in Steps,
         statusPast = "STANCE_ALL",
         calcContactPhase("WAVE_ALL", Elapsed(d)), Switch("WAVE_ALL", Elapsed(d))
  PROVE  contact' = All(1) /\ WalkInv'
<1> DEFINE t == Elapsed(d)
<1>1. t \in 0 .. Period - 1 /\ d \in Nat /\ clock \in 0 .. Period - 1
  BY ElapsedType, CallAssumption, GaitAssumption DEF PatternInv
<1>2. "WAVE_ALL" \in WaveStatus /\ OldContact("WAVE_ALL", t) = All(1)
  BY DEF WaveStatus, OldContact, Direct, WaveContact, All
<1>3. Armed("WAVE_ALL") \in [Leg -> {0, 1}]
  BY DEF Armed, All, WalkInv
<1> HIDE DEF t
<1>4. /\ contact' = All(1) /\ contactPast' = All(1)
      /\ \A i \in Leg : switchStatus'[i] = IF Walk(t)[i] = 1 THEN 0 ELSE Armed("WAVE_ALL")[i]
      /\ switchStatus' \in [Leg -> {0, 1}]
      /\ statusPast' = IF Pending' THEN "STANCE_ALL" ELSE "WAVE_ALL"
      /\ clock' = t
  BY <1>1, <1>2, <1>3, SwitchFlags DEF Walk, All, t
<1>5. \A i \in Leg : Walk(t)[i] \in {0, 1} /\ contact'[i] = 1
  BY <1>1, <1>4, WalkTimes DEF All
<1>6. ASSUME ~Pending', NEW i \in Leg, Walk(t)[i] = 0
      PROVE  NormalT(t, i) < Stance + d
  <2>1. Armed("WAVE_ALL")[i] = 0
    BY <1>4, <1>6, FlagSum DEF Pending
  <2>2. Pending
    BY <2>1 DEF Armed, All, Pending
  <2>3. PICK A \in Leg : switchStatus[A] # 0
    BY <2>2, FlagSum DEF Pending, WalkInv
  <2>4. Walk(clock)[A] = 0
    BY <2>2, <2>3 DEF WalkInv
  <2>5. Walk(t)[A] # 0
    <3>1. switchStatus'[A] = 0 /\ Armed("WAVE_ALL") = switchStatus
      BY <1>4, <1>6, <2>2, FlagSum DEF Pending, Armed
    <3> QED BY <1>4, <2>3, <3>1
  <2>6. Walk(clock)[i] # 0
    BY <1>1, <1>6, <2>4, <2>5 DEF InStep
  <2>7. NormalT(clock, i) < Stance /\ NormalT(clock, i) \in Nat /\ NormalT(t, i) \in Nat
    BY <1>1, <2>6, WalkTimes
  <2>8. NormalT(t, i) <= NormalT(clock, i) + d
    BY <1>1, TimeAdvances DEF t
  <2> QED BY <1>1, <2>7, <2>8, GaitAssumption
<1>7. ASSUME ~Pending', NEW i \in Leg PROVE InTime(i)'
  <2>1. CASE Walk(t)[i] = 1
    BY <1>4, <1>5, <2>1 DEF InTime, Walk, WaveContact, NormalT, FMod
  <2>2. CASE Walk(t)[i] = 0
    <3>1. NormalT(t, i) < Stance + d
      BY <1>6, <1>7, <2>2
    <3> QED BY <1>4, <1>5, <3>1 DEF InTime, NormalT, FMod
  <2> QED BY <1>5, <2>1, <2>2
<1>8. \A i \in Leg : switchStatus'[i] # 0 => Walk(t)[i] = 0
  BY <1>4, <1>5
<1> QED BY <1>4, <1>7, <1>8 DEF WalkInv, Walk, WaveContact, NormalT, FMod

(* No call breaks the invariant, if the walk is never asked for from       *)
(* all-swing.                                                              *)
LEMMA CallWalk ==
  ASSUME PatternInv, WalkInv, InStep, NEW s \in Statuses, NEW d \in Steps,
         calcContactPhase(s, Elapsed(d)),
         s = "WAVE_ALL" => status # "SWING_ALL" /\ statusPast # "SWING_ALL"
  PROVE  WalkInv'
<1> DEFINE t == Elapsed(d)
<1>1. t \in 0 .. Period - 1 /\ d \in Nat /\ s \in WaveStatus /\ t \in Int
  BY ElapsedType, CallAssumption, GaitAssumption DEF PatternInv
<1>2. calcContactPhase(s, t)
  OBVIOUS
<1> HIDE DEF t
<1>3. CASE Follow(s, t)
  <2>1. s = statusPast
    BY <1>1, <1>2, <1>3, OtherStatusSwitches DEF Follow, Switch, PatternInv
  <2>2. /\ ~Pending' /\ switchStatus' = switchStatus /\ statusPast' = statusPast
        /\ contact' = WaveContact(s, t) /\ clock' = t
    BY <1>2, <1>3, <2>1 DEF Follow, Armed, Pending, calcContactPhase
  <2>3. statusPast' = "WAVE_ALL" => \A i \in Leg : contact'[i] = Walk(t)[i]
    BY <2>1, <2>2 DEF Walk
  <2> QED BY <2>2, <2>3 DEF WalkInv, InTime, Walk, WaveContact, NormalT, FMod
<1>4. CASE Switch(s, t)
  <2>1. CASE s = statusPast /\ s = "WAVE_ALL"
    <3>1. Pending
      BY <1>4, <2>1 DEF Switch, Armed, Pending
    <3> QED BY <1>1, <1>2, <1>4, <2>1, <3>1, WalkResumes
  <2>2. CASE s # statusPast /\ s = "WAVE_ALL"
    <3>1. statusPast = "STANCE_ALL"
      BY <2>2 DEF PatternInv, TypeOK, WaveStatus
    <3> QED BY <1>4, <2>2, <3>1, WalkBegins DEF t
  <2>3. CASE s # "WAVE_ALL" /\ OldContact(s, t) = WaveContact(s, t)
    <3>1. ~Pending' /\ statusPast' = s /\ switchStatus' \in [Leg -> {0, 1}]
      BY <1>1, <1>2, <1>4, <2>3, AllAgree
    <3> QED BY <2>3, <3>1 DEF WalkInv
  <2>4. CASE s # "WAVE_ALL" /\ s # statusPast /\ statusPast = "WAVE_ALL"
    <3>1. OldContact(s, t) = Walk(t) /\ Armed(s) \in [Leg -> {0, 1}]
      BY <2>4 DEF OldContact, Direct, Walk, Armed, All, WalkInv
    <3>2. /\ contact' = Walk(t) /\ contactPast' = Walk(t) /\ status' = s
          /\ \A i \in Leg : switchStatus'[i] =
                              IF WaveContact(s, t)[i] = Walk(t)[i] THEN 0 ELSE Armed(s)[i]
          /\ switchStatus' \in [Leg -> {0, 1}]
          /\ statusPast' = IF Pending' THEN "WAVE_ALL" ELSE s
      BY <1>1, <1>2, <1>4, <2>4, <3>1, SwitchFlags
    <3>3. ASSUME s # "SWING_ALL", NEW i \in Leg, switchStatus'[i] # 0 PROVE contact'[i] = 0
      <4>1. WaveContact(s, t)[i] = 1
        BY <1>1, <2>4, <3>3 DEF WaveContact, WaveStatus
      <4>2. Walk(t)[i] \in {0, 1} /\ Walk(t)[i] # 1
        BY <1>1, <3>2, <3>3, <4>1, WalkTimes
      <4> QED BY <3>2, <4>2
    <3> QED BY <2>4, <3>2, <3>3 DEF WalkInv
  <2>5. CASE s # "WAVE_ALL" /\ Direct(s)
    BY <2>3, <2>5 DEF OldContact, Direct
  <2>6. CASE s # "WAVE_ALL" /\ s = statusPast
    <3>1. CASE s = "SWING_ALL"
      <4>1. statusPast' = "SWING_ALL"
        BY <1>4, <2>6, <3>1 DEF Switch
      <4> QED BY <4>1 DEF WalkInv
    <3>2. CASE s = "STANCE_ALL"
      <4>1. OldContact(s, t) = WaveContact(s, t)
        BY <1>4, <2>6, <3>2 DEF Switch, Armed, Pending, OldContact, WalkInv, WaveContact, All
      <4> QED BY <2>3, <2>6, <4>1
    <3> QED BY <1>1, <2>6, <3>1, <3>2 DEF WaveStatus
  <2> QED BY <1>1, <2>1, <2>2, <2>3, <2>4, <2>5, <2>6 DEF Direct, PatternInv, TypeOK, WaveStatus
<1> QED BY <1>2, <1>3, <1>4 DEF calcContactPhase

(* The clock starts in all-swing, with nothing pending.                    *)
LEMMA InitWalk == Init => WalkInv
BY DEF Init, WalkInv

(* A leg that touches down in a walk that is kept does so at the start of  *)
(* its stance.                                                             *)
LEMMA CallTouches ==
  ASSUME PatternInv, WalkInv, NEW d \in Steps, NEW i \in Leg,
         calcContactPhase("WAVE_ALL", Elapsed(d)), statusPast = "WAVE_ALL",
         contact[i] = 0, contact'[i] = 1
  PROVE  phase'[i].num \in Nat /\ phase'[i].num < d /\ phase'[i].den = Stance
<1> DEFINE t == Elapsed(d)
<1>1. t \in 0 .. Period - 1 /\ d \in Nat /\ clock \in 0 .. Period - 1 /\ "WAVE_ALL" \in WaveStatus
  BY ElapsedType, CallAssumption, GaitAssumption DEF PatternInv, WaveStatus
<1>2. calcContactPhase("WAVE_ALL", t) /\ NormalT(t, i) <= NormalT(clock, i) + d
      /\ (NormalT(t, i) < NormalT(clock, i) => NormalT(t, i) < d)
  BY <1>1, TimeAdvances
<1> HIDE DEF t
<1>3. Armed("WAVE_ALL") = switchStatus /\ OldContact("WAVE_ALL", t) = contactPast
  BY DEF Armed, OldContact
<1>4. CASE Follow("WAVE_ALL", t)
  <2>1. ~Pending /\ contact' = Walk(t) /\ phase' = WavePhase("WAVE_ALL", t)
    BY <1>3, <1>4 DEF Follow, Pending, Walk
  <2>2. Walk(clock)[i] = 0
    BY <2>1 DEF WalkInv, InTime
  <2>3. NormalT(t, i) < Stance /\ ~(NormalT(clock, i) < Stance)
    BY <1>1, <2>1, <2>2, WalkTimes
  <2>4. NormalT(t, i) \in Nat /\ NormalT(clock, i) \in Nat
    BY <1>1, WalkTimes
  <2>5. phase'[i].num = NormalT(t, i) /\ phase'[i].den = Stance
    BY <2>1, <2>3, WalkPhases
  <2>6. NormalT(t, i) < d
    BY <1>2, <2>3, <2>4, GaitAssumption
  <2> QED BY <2>4, <2>5, <2>6
<1>5. CASE Switch("WAVE_ALL", t)
  <2>1. Pending
    BY <1>3, <1>5 DEF Switch, Pending
  <2>2. contact' = contactPast /\ contact = contactPast
    BY <1>1, <1>2, <1>3, <1>5, <2>1, SwitchFlags DEF WalkInv
  <2> QED BY <2>2
<1> QED BY <1>2, <1>4, <1>5 DEF calcContactPhase

(* A leg that lifts off while nothing is pending does so at the start of   *)
(* its swing: this call and the one before are all that it can be late by. *)
LEMMA CallLifts ==
  ASSUME PatternInv, WalkInv, NEW s \in Statuses, NEW d \in Steps, NEW i \in Leg,
         calcContactPhase(s, Elapsed(d)), ~Pending,
         statusPast # "SWING_ALL", statusPast' # "SWING_ALL",
         contact[i] = 1, contact'[i] = 0
  PROVE  phase'[i].num \in Int /\ \E e \in Steps : phase'[i].num <= 2 * e
<1> DEFINE t == Elapsed(d)
<1>1. /\ t \in 0 .. Period - 1 /\ d \in Nat /\ clock \in 0 .. Period - 1
      /\ s \in WaveStatus /\ statusPast \in WaveStatus
  BY ElapsedType, CallAssumption, GaitAssumption DEF PatternInv, TypeOK
<1>2. calcContactPhase(s, t) /\ NormalT(t, i) <= NormalT(clock, i) + d
  BY <1>1, TimeAdvances
<1>3. Direct(s) => statusPast' = s
  BY <1>1, <1>2, DirectIsImmediate
<1> HIDE DEF t
<1>4. s = statusPast => Follow(s, t)
  BY <1>2 DEF calcContactPhase, Switch, Armed, Pending
<1>5. s # statusPast => Switch(s, t)
  BY <1>1, <1>2, OtherStatusSwitches DEF PatternInv
<1>6. statusPast = "WAVE_ALL"
  <2> SUFFICES ASSUME statusPast = "STANCE_ALL" PROVE FALSE
    BY <1>1 DEF WaveStatus
  <2>1. s # "SWING_ALL"
    BY <1>3 DEF Direct
  <2>2. CASE s = "STANCE_ALL"
    BY <1>4, <2>2 DEF Follow, WaveContact
  <2>3. CASE s = "WAVE_ALL"
    <3>1. contact' = OldContact(s, t)
      BY <1>1, <1>2, <1>5, <2>3, SwitchFlags
    <3> QED BY <2>3, <3>1 DEF OldContact, Direct, WaveContact
  <2> QED BY <1>1, <2>1, <2>2, <2>3 DEF WaveStatus
<1>7. Walk(t)[i] = 0 /\ (phase'[i] = WavePhase("WAVE_ALL", t)[i] \/ phase'[i].num = 1)
  <2>1. CASE s = "WAVE_ALL"
    BY <1>4, <1>6, <2>1 DEF Follow, Walk
  <2>2. CASE s # "WAVE_ALL"
    <3>1. Switch(s, t) /\ OldContact(s, t) = Walk(t) /\ OldPhase(s, t) = WavePhase("WAVE_ALL", t)
      BY <1>5, <1>6, <2>2 DEF OldContact, OldPhase, Direct, Walk
    <3>2. contact' = Walk(t)
      BY <1>1, <1>2, <3>1, SwitchFlags
    <3>3. phase'[i] = WavePhase(s, t)[i] \/ phase'[i] = WavePhase("WAVE_ALL", t)[i]
      BY <3>1 DEF Switch
    <3> QED BY <2>2, <3>2, <3>3 DEF WavePhase, Half
  <2> QED BY <2>1, <2>2
<1>8. /\ NormalT(t, i) \in Nat /\ NormalT(clock, i) \in Nat /\ ~(NormalT(t, i) < Stance)
      /\ Stance \in Nat
  <2>1. NormalT(t, i) \in Nat /\ NormalT(clock, i) \in Nat
    BY <1>1, WalkTimes
  <2>2. NormalT(t, i) >= Stance
    BY <1>1, <1>7, WalkTimes
  <2> QED BY <2>1, <2>2, GaitAssumption
<1>9. phase'[i].num \in {1, NormalT(t, i) - Stance}
  BY <1>7, <1>8, WalkPhases
<1>10. phase'[i].num \in Int
  BY <1>8, <1>9
<1> SUFFICES \E e \in Steps : phase'[i].num <= 2 * e
  BY <1>10
<1>11. CASE NormalT(clock, i) < Stance
  <2>1. NormalT(t, i) - Stance <= 2 * d /\ 1 <= 2 * d
    BY <1>1, <1>2, <1>8, <1>11
  <2> QED BY <1>9, <2>1
<1>12. CASE ~(NormalT(clock, i) < Stance)
  <2>1. Walk(clock)[i] # 1
    BY <1>1, <1>12, WalkTimes
  <2>2. PICK e \in Steps : NormalT(clock, i) < Stance + e
    BY <1>6, <2>1 DEF WalkInv, InTime
  <2>3. e \in Nat
    BY CallAssumption
  <2>4. e >= 1 /\ NormalT(t, i) - Stance <= e + d
    BY <1>1, <1>2, <1>8, <1>12, <2>2, <2>3
  <2>5. CASE d <= e
    <3>1. NormalT(t, i) - Stance <= 2 * e /\ 1 <= 2 * e
      BY <1>1, <1>8, <2>3, <2>4, <2>5
    <3> QED BY <1>9, <3>1
  <2>6. CASE e <= d
    <3>1. NormalT(t, i) - Stance <= 2 * d /\ 1 <= 2 * d
      BY <1>1, <1>8, <2>3, <2>4, <2>6
    <3> QED BY <1>9, <3>1
  <2> QED BY <1>1, <2>3, <2>5, <2>6
<1> QED BY <1>11, <1>12

(* The trot is in step: two pairs of legs, half a period apart.            *)
LEMMA TrotInStep ==
  ASSUME Period = 2 * Stance, \A i \in Leg : Bias[i] \in {0, Stance}
  PROVE  InStep
<1> USE GaitAssumption
<1>1. ASSUME NEW t \in 0 .. Period - 1, NEW i \in Leg
      PROVE  Walk(t)[i] = 0 <=> (Bias[i] = 0 <=> t >= Stance)
  <2>1. t \in Nat /\ Stance \in Nat /\ Period \in Nat \ {0} /\ t < Period /\ Stance > 0
    OBVIOUS
  <2>5. Walk(t)[i] = 0 <=> NormalT(t, i) >= Stance
    BY WalkTimes
  <2>2. CASE Bias[i] = 0
    <3>1. NormalT(t, i) = (t + Period) % Period
      BY <2>1, <2>2 DEF NormalT, FMod
    <3>2. (t + Period) % Period = t
      BY <2>1
    <3> QED BY <2>2, <2>5, <3>1, <3>2
  <2>3. CASE Bias[i] = Stance /\ t >= Stance
    <3>1. NormalT(t, i) = (t + Stance) % Period
      BY <2>1, <2>3 DEF NormalT, FMod
    <3>2. (t + Stance) % Period = t - Stance
      BY <2>1, <2>3
    <3> QED BY <2>1, <2>3, <2>5, <3>1, <3>2
  <2>4. CASE Bias[i] = Stance /\ t < Stance
    <3>1. NormalT(t, i) = (t + Stance) % Period
      BY <2>1, <2>4 DEF NormalT, FMod
    <3>2. (t + Stance) % Period = t + Stance
      BY <2>1, <2>4
    <3> QED BY <2>1, <2>4, <2>5, <3>1, <3>2
  <2> QED BY <2>1, <2>2, <2>3, <2>4
<1>2. \A t \in 0 .. Period - 1, i \in Leg : Walk(t)[i] \in {0, 1}
  BY WalkTimes
<1> QED BY <1>1, <1>2 DEF InStep
=============================================================================
