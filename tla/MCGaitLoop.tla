----------------------------- MODULE MCGaitLoop -----------------------------
(***************************************************************************)
(* The trot of main.cpp:81, with the clock in coarser units.               *)
(***************************************************************************)
EXTENDS GaitLoop

(* Trot: one half stance, diagonal pairs.                                  *)
TrotBias == [i \in Leg |-> IF i \in {1, 2} THEN Stance ELSE 0]

OneOrTwo == {1, 2}
Loose == {-1, 0, 1}
AnyCommand == UserCommand

(* What the theorems about the steps of a walk assume holds of the trot:   *)
(* its legs are in step, and a tick is shorter than half a stance.         *)
ASSUME LegsInStep == WG!InStep
ASSUME ShortTicks == \A d \in Steps : 2 * (d - 1) < Stance
============================================================================
