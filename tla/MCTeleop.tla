------------------------------ MODULE MCTeleop ------------------------------
(***************************************************************************)
(* The members of a HighCmd that a twist decides, and the keys.            *)
(***************************************************************************)
EXTENDS Teleop

CONSTANT r1

Velocities == {"velocity", "yawSpeed"}
OneReading == {r1}
SomeKeys == {"j", "q"}
============================================================================
