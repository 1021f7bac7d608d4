-------------------------- MODULE SimulationProofs --------------------------
(***************************************************************************)
(* Proofs about Simulation, for every set of members and readings and      *)
(* every bound: the control loop, which takes no lock, is given whole      *)
(* states of the joint, in the order in which the joint was in them.       *)
(***************************************************************************)
EXTENDS Simulation, TLAPS, SequenceTheorems

(* The spinner runs callbacks only while IOROS is constructed.             *)
SpinnerInv ==
  /\ spinner <=> phase = "construct"
  /\ phase \notin {"construct", "join"} => spinning = 0

(* _lowState is whole between two callbacks, and in the middle of one the  *)
(* members that are set are of its message.                                *)
WholeInv ==
  /\ spinning = 0 => \A r, s \in Readings : lowState[r] = lowState[s]
  /\ spinning # 0 => \A r \in Readings \ toSet : lowState[r] = spinning
  /\ WholeState

(* No stage of the state's path is ahead of the stage before it.           *)
OrderInv ==
  /\ waiting <= toSend /\ spinning <= toSend
  /\ waiting # 0 => spinning <= waiting
  /\ \A r \in Readings :
       /\ state[r] <= lowState[r] /\ lowState[r] <= toSend
       /\ spinning # 0 => lowState[r] <= spinning
       /\ waiting # 0 => lowState[r] <= waiting

IInv == TypeOK /\ SpinnerInv /\ WholeInv /\ OrderInv

(* The spinner runs, and nothing has been received.                        *)
LEMMA InitInv == Init => IInv
<1> SUFFICES ASSUME Init PROVE IInv
  OBVIOUS
<1>1. TypeOK
  <2>1. <<>> \in Seq(1..published) /\ {0, MaxCmd, MaxState} \subseteq Nat
    BY SimulationAssumption, EmptySeq
  <2>2. lastCmd \in Commands /\ lowState \in States
    BY <2>1 DEF Init, Commands, States
  <2>3. published \in 0..MaxCmd /\ commands \in Seq(1..published)
    BY <2>1 DEF Init
  <2>4. nonRT \in Commands /\ RT \in Commands /\ servo \in Commands /\ state \in States
    BY <2>2 DEF Init
  <2>5. states \in 0..MaxState /\ toSend \in 0..states /\ waiting \in 0..states
        /\ spinning \in 0..states /\ msg \in 0..published
    BY <2>1 DEF Init
  <2>6. newData \in BOOLEAN /\ brake \in BOOLEAN /\ spinner \in BOOLEAN
    BY DEF Init
  <2> QED BY <2>2, <2>3, <2>4, <2>5, <2>6 DEF Init, TypeOK
<1>2. SpinnerInv /\ WholeInv /\ OrderInv
  BY DEF Init, SpinnerInv, WholeInv, WholeState, OrderInv
<1> QED BY <1>1, <1>2 DEF IInv

---------------------------------------------------------------------------
(* The queue of commands: the newest may replace the one before.           *)
LEMMA QueueType ==
  ASSUME NEW n \in Nat, NEW q \in Seq(1..n),
         NEW kept \in {q} \cup {Front(p) : p \in {q} \ {<<>>}}
  PROVE  Append(kept, n + 1) \in Seq(1..(n + 1))
<1>1. kept \in Seq(1..n)
  <2>1. CASE kept = q
    BY <2>1
  <2>2. CASE kept # q
    <3>1. q # <<>> /\ kept = SubSeq(q, 1, Len(q) - 1)
      BY <2>2 DEF Front
    <3>2. Len(q) \in Nat /\ Len(q) # 0
      BY <3>1, EmptySeq, LenProperties
    <3>3. \A i \in 1..(Len(q) - 1) : q[i] \in 1..n
      BY <3>2, ElementOfSeq
    <3> QED BY <3>1, <3>2, <3>3, SubSeqProperties
  <2> QED BY <2>1, <2>2
<1>2. kept \in Seq(1..(n + 1)) /\ n + 1 \in 1..(n + 1)
  <2>1. 1..n \subseteq 1..(n + 1)
    OBVIOUS
  <2>2. Len(kept) \in Nat /\ kept \in [1..Len(kept) -> 1..n]
    BY <1>1, LenProperties
  <2> QED BY <1>1, <2>1, <2>2, SeqDef
<1> QED BY <1>2, AppendProperties

(* Each thread's steps.  The control loop writes its own state, and        *)
(* _lowState in spinOnce, after the spinner has ended.                     *)
LEMMA ControlInv ==
  ASSUME IInv, Control
  PROVE  IInv'
<1> USE SimulationAssumption DEF callbackVars, bufferVars, updateVars, pathVars
<1>1. CASE Waited
  BY <1>1 DEF Waited, IInv, TypeOK, SpinnerInv, WholeInv, WholeState, OrderInv
<1>2. CASE Joined
  BY <1>2 DEF Joined, spinnerVars, IInv, TypeOK, SpinnerInv, WholeInv, WholeState, OrderInv
<1>3. CASE sendCmd
  <2>1. published' \in 0..MaxCmd /\ published <= published'
        /\ commands' \in Seq(1..published')
    <3>1. CASE published < MaxCmd
      <4>1. published' = published + 1 /\ published \in Nat /\ commands \in Seq(1..published)
        BY <1>3, <3>1 DEF sendCmd, IInv, TypeOK
      <4>2. PICK kept \in {commands} \cup {Front(q) : q \in {commands} \ {<<>>}} :
                    commands' = Append(kept, published + 1)
        BY <1>3, <3>1 DEF sendCmd, Queued
      <4>3. commands' \in Seq(1..(published + 1))
        BY <4>1, <4>2, QueueType
      <4> QED BY <3>1, <4>1, <4>3 DEF IInv, TypeOK
    <3>2. CASE ~(published < MaxCmd)
      BY <1>3, <3>2 DEF sendCmd, IInv, TypeOK
    <3> QED BY <3>1, <3>2
  <2>2. TypeOK'
    BY <1>3, <2>1 DEF sendCmd, spinnerVars, IInv, TypeOK
  <2>3. SpinnerInv' /\ WholeInv' /\ OrderInv'
    BY <1>3 DEF sendCmd, spinnerVars, IInv, SpinnerInv, WholeInv, WholeState, OrderInv
  <2> QED BY <2>2, <2>3 DEF IInv
<1>4. CASE spinOnce
  <2>1. spinning = 0
    BY <1>4 DEF spinOnce, IInv, SpinnerInv
  <2>2. CASE waiting # 0
    <3>1. lowState' = [r \in Readings |-> waiting] /\ waiting' = 0
      BY <1>4, <2>1, <2>2 DEF spinOnce
    <3>2. TypeOK'
      BY <1>4, <3>1 DEF spinOnce, IInv, TypeOK, States
    <3>3. SpinnerInv' /\ WholeInv'
      BY <1>4, <2>1, <3>1 DEF spinOnce, IInv, SpinnerInv, WholeInv, WholeState
    <3>4. OrderInv'
      BY <1>4, <2>1, <2>2, <3>1 DEF spinOnce, IInv, TypeOK, States, OrderInv
    <3> QED BY <3>2, <3>3, <3>4 DEF IInv
  <2>3. CASE waiting = 0
    BY <1>4, <2>3 DEF spinOnce, IInv, TypeOK, SpinnerInv, WholeInv, WholeState, OrderInv
  <2> QED BY <2>2, <2>3
<1>5. CASE recvState
  <2>1. TypeOK' /\ SpinnerInv'
    BY <1>5 DEF recvState, spinnerVars, IInv, TypeOK, SpinnerInv
  <2>2. WholeInv'
    BY <1>5 DEF recvState, spinnerVars, IInv, SpinnerInv, WholeInv, WholeState
  <2>3. OrderInv'
    BY <1>5 DEF recvState, spinnerVars, IInv, TypeOK, States, OrderInv
  <2> QED BY <2>1, <2>2, <2>3 DEF IInv
<1> QED BY <1>1, <1>2, <1>3, <1>4, <1>5 DEF Control

(* The spinner sets the members of _lowState to those of a newer state.    *)
LEMMA SpinInv ==
  ASSUME IInv, Spinner
  PROVE  IInv'
<1> USE SimulationAssumption DEF controlVars, callbackVars, bufferVars, updateVars, pathVars
<1>1. CASE Spin
  <2>1. TypeOK' /\ SpinnerInv'
    BY <1>1 DEF Spin, IInv, TypeOK, SpinnerInv
  <2>2. WholeInv' /\ OrderInv'
    BY <1>1 DEF Spin, IInv, TypeOK, WholeInv, WholeState, OrderInv
  <2> QED BY <2>1, <2>2 DEF IInv
<1>2. CASE SpinSet
  <2>1. PICK r \in toSet : lowState' = [lowState EXCEPT ![r] = spinning] /\ toSet' = toSet \ {r}
    BY <1>2 DEF SpinSet
  <2>2. spinning # 0 /\ spinning' \in {0, spinning} /\ (spinning' = 0 <=> toSet' = {})
    BY <1>2 DEF SpinSet
  <2>3. TypeOK' /\ SpinnerInv'
    BY <1>2, <2>1, <2>2 DEF SpinSet, IInv, TypeOK, States, SpinnerInv
  <2>4. \A s \in Readings \ toSet' : lowState'[s] = spinning
    BY <2>1, <2>2 DEF IInv, TypeOK, States, WholeInv
  <2>5. WholeInv'
    BY <1>2, <2>2, <2>4 DEF SpinSet, IInv, WholeInv, WholeState
  <2>6. OrderInv'
    BY <1>2, <2>1, <2>2 DEF SpinSet, IInv, TypeOK, States, OrderInv
  <2> QED BY <2>3, <2>5, <2>6 DEF IInv
<1> QED BY <1>1, <1>2 DEF Spinner

(* What is not on the state's path leaves the invariant to its types.      *)
LEMMA Frame ==
  ASSUME IInv, UNCHANGED <<phase, state, states, pathVars, spinnerVars>>, TypeOK'
  PROVE  IInv'
BY DEF IInv, SpinnerInv, WholeInv, WholeState, OrderInv, pathVars, spinnerVars

(* setCommandCB is not on the way of the state.                            *)
LEMMA CallbackInv ==
  ASSUME IInv, Callback
  PROVE  IInv'
<1> USE SimulationAssumption DEF controlVars, bufferVars, updateVars, pathVars, spinnerVars
<1>1. ASSUME Take PROVE TypeOK'
  <2>1. Head(commands) \in 1..published /\ Tail(commands) \in Seq(1..published)
    BY <1>1, HeadTailProperties DEF Take, IInv, TypeOK
  <2> QED BY <1>1, <2>1 DEF Take, IInv, TypeOK
<1>2. ASSUME Store PROVE TypeOK'
  <2>1. PICK f \in toDo : lastCmd' = [lastCmd EXCEPT ![f] = msg] /\ toDo' = toDo \ {f}
    BY <1>2 DEF Store
  <2>2. lastCmd' \in Commands /\ toDo' \subseteq Members
    BY <2>1 DEF IInv, TypeOK, Commands
  <2> QED BY <1>2, <2>2 DEF Store, IInv, TypeOK
<1>3. ASSUME Lock \/ Unlock PROVE TypeOK'
  BY <1>3 DEF Lock, Unlock, IInv, TypeOK
<1>4. ASSUME Write PROVE TypeOK'
  <2>1. PICK f \in toDo : nonRT' = [nonRT EXCEPT ![f] = lastCmd[f]] /\ toDo' = toDo \ {f}
    BY <1>4 DEF Write
  <2>2. nonRT' \in Commands /\ toDo' \subseteq Members
    BY <2>1 DEF IInv, TypeOK, Commands
  <2> QED BY <1>4, <2>2 DEF Write, IInv, TypeOK
<1> QED BY <1>1, <1>2, <1>3, <1>4, Frame DEF Callback, Take, Store, Lock, Write, Unlock

(* Of update, only Finish is: it makes a new state, and may hand it over.  *)
LEMMA UpdateInv ==
  ASSUME IInv, Update
  PROVE  IInv'
<1> USE SimulationAssumption DEF controlVars, callbackVars, bufferVars, pathVars, spinnerVars
<1>1. ASSUME readFromRT PROVE TypeOK'
  BY <1>1 DEF readFromRT, IInv, TypeOK
<1>2. ASSUME Copy PROVE TypeOK'
  <2>1. PICK f \in toCopy : lastCmd' = [lastCmd EXCEPT ![f] = RT[f]] /\ toCopy' = toCopy \ {f}
    BY <1>2 DEF Copy
  <2>2. lastCmd' \in Commands /\ toCopy' \subseteq Members
    BY <2>1 DEF IInv, TypeOK, Commands
  <2> QED BY <1>2, <2>2 DEF Copy, IInv, TypeOK
<1>3. ASSUME TestPMSM PROVE TypeOK'
  BY <1>3 DEF TestPMSM, IInv, TypeOK, Commands
<1>4. ASSUME Use PROVE TypeOK'
  <2>1. PICK f \in toCopy : servo' = [servo EXCEPT ![f] = lastCmd[f]] /\ toCopy' = toCopy \ {f}
    BY <1>4 DEF Use
  <2>2. servo' \in Commands /\ toCopy' \subseteq Members
    BY <2>1 DEF IInv, TypeOK, Commands
  <2> QED BY <1>4, <2>2 DEF Use, IInv, TypeOK
<1>5. CASE Finish
  <2>1. states' \in 0..MaxState /\ states <= states'
    BY <1>5 DEF Finish, IInv, TypeOK
  <2>2. turn' \in {"update", "publisher"} /\ toSend' \in 0..states' /\ toSend <= toSend'
    BY <1>5, <2>1 DEF Finish, IInv, TypeOK
  <2>3. TypeOK'
    BY <1>5, <2>1, <2>2 DEF Finish, IInv, TypeOK
  <2>4. OrderInv'
    BY <1>5, <2>2 DEF Finish, IInv, TypeOK, States, OrderInv
  <2> QED BY <1>5, <2>3, <2>4 DEF Finish, IInv, SpinnerInv, WholeInv, WholeState
<1> QED BY <1>1, <1>2, <1>3, <1>4, <1>5, Frame DEF Update, readFromRT, Copy, TestPMSM, Use

(* The publisher sends the state it was handed.                            *)
LEMMA PublishInv ==
  ASSUME IInv, PublishState
  PROVE  IInv'
<1> USE DEF PublishState, controlVars, callbackVars, bufferVars, updateVars
<1>1. TypeOK' /\ SpinnerInv' /\ WholeInv'
  BY DEF IInv, TypeOK, SpinnerInv, WholeInv, WholeState
<1>2. OrderInv'
  BY DEF IInv, TypeOK, OrderInv
<1> QED BY <1>1, <1>2 DEF IInv

(* Every step keeps the invariant.                                         *)
LEMMA StepInv == IInv /\ [Next]_vars => IInv'
<1> SUFFICES ASSUME IInv, [Next]_vars PROVE IInv'
  OBVIOUS
<1>1. CASE UNCHANGED vars
  <2>1. TypeOK'
    BY <1>1 DEF vars, controlVars, callbackVars, bufferVars, updateVars, pathVars,
                spinnerVars, IInv, TypeOK
  <2> QED BY <1>1, <2>1, Frame DEF vars, controlVars, updateVars
<1> QED BY <1>1, ControlInv, SpinInv, CallbackInv, UpdateInv, PublishInv DEF Next

(* The variables keep their types.                                         *)
THEOREM TypeCorrect == Spec => []TypeOK
<1>1. IInv => TypeOK
  BY DEF IInv
<1> QED BY InitInv, StepInv, <1>1, PTL DEF Spec

(* The control loop is never given a state mixed of two messages: the      *)
(* spinner, the only other thread that writes _lowState, was waited for.   *)
THEOREM GivenWholeStates == Spec => []WholeState
<1>1. IInv => WholeState
  BY DEF IInv, WholeInv
<1> QED BY InitInv, StepInv, <1>1, PTL DEF Spec

---------------------------------------------------------------------------
(* Only Finish issues a state, and only recvState takes one.               *)
LEMMA StateSteps ==
  ASSUME IInv, [Next]_vars
  PROVE  [StateRegister!Next]_<<states, state>>
<1> USE DEF StateRegister!Next, StateRegister!Issue, StateRegister!Take
<1>1. CASE recvState
  <2>1. states' = states /\ state' = lowState
    BY <1>1 DEF recvState, updateVars
  <2>2. /\ lowState \in [Readings -> 0..MaxState] /\ toSend \in 0..states /\ states \in 0..MaxState
        /\ \A r \in Readings : state[r] <= lowState[r] /\ lowState[r] <= toSend
    BY DEF IInv, TypeOK, States, OrderInv
  <2>3. lowState \in [Readings -> 0..states] /\ \A r \in Readings : lowState[r] >= state[r]
    BY <2>2, SimulationAssumption DEF IInv, TypeOK, States
  <2> QED BY <2>1, <2>3
<1>2. CASE Finish
  BY <1>2 DEF Finish, controlVars
<1>3. CASE Control /\ ~recvState
  BY <1>3 DEF Control, Waited, Joined, sendCmd, spinOnce, updateVars
<1>4. CASE Spinner \/ Callback \/ PublishState
  BY <1>4 DEF Spinner, Spin, SpinSet, Callback, Take, Store, Lock, Write, Unlock,
              PublishState, controlVars, updateVars
<1>5. CASE Update /\ ~Finish
  BY <1>5 DEF Update, readFromRT, Copy, TestPMSM, Use, controlVars
<1>6. CASE UNCHANGED vars
  BY <1>6 DEF vars, controlVars, updateVars
<1> QED BY <1>1, <1>2, <1>3, <1>4, <1>5, <1>6 DEF Next

(* Nor is it ever given an older state after a newer one, although update  *)
(* drops states and two queues of length one replace them.                 *)
THEOREM StateRefines == Spec => StateValue
<1>1. Init => StateRegister!Init
  BY DEF Init, StateRegister!Init
<1> QED BY <1>1, InitInv, StepInv, StateSteps, PTL
        DEF Spec, StateValue, StateRegister!Spec
============================================================================
