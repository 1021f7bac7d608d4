---------------------------- MODULE MCSimulation ----------------------------
(* The joint with two members of a command and of a state. *)
EXTENDS Simulation

ModeAndAngle == {"mode", "q"}
AngleAndSpeed == {"q", "dq"}
============================================================================
