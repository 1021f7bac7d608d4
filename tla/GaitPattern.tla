---------------------------- MODULE GaitPattern ----------------------------
(***************************************************************************)
(* What the users of the wave generator (Estimator, GaitGenerator, the     *)
(* balance QP) rely on: whatever statuses the controller asks for, the     *)
(* four legs are always given a contact vector that the gait itself        *)
(* contains, never one mixed from two statuses leg by leg, and the vector  *)
(* belongs to the status asked for or to the last one that was completed.  *)
(***************************************************************************)
CONSTANTS
  Statuses,         \* what a caller may ask for
  First,            \* the status the generator starts in
  Patterns(_)       \* the contact vectors a status consists of

VARIABLES
  mode,             \* the last status that was completed
  asked,            \* the status of the last call
  contact           \* the contact vector given to the legs

vars == <<mode, asked, contact>>

Init ==
  /\ mode = First
  /\ asked = First
  /\ contact \in Patterns(First)

(* A call that leaves the switch to s pending, or finds it completed.      *)
Hold(s) ==
  /\ asked' = s
  /\ contact' \in Patterns(mode)
  /\ UNCHANGED mode

(* The call that completes the switch to s may still give the old pattern. *)
Adopt(s) ==
  /\ asked' = s
  /\ mode' = s
  /\ contact' \in Patterns(mode) \cup Patterns(s)

Next == \E s \in Statuses : Hold(s) \/ Adopt(s)

Spec == Init /\ [][Next]_vars
============================================================================
