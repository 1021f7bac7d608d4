---------------------------- MODULE LatestValue ----------------------------
(***************************************************************************)
(* What this stack promises wherever one thread hands a value to another:  *)
(* messages are numbered in the order in which they were issued, and the   *)
(* receiver's value is described by the number of the message each of its  *)
(* members came from (0: the initial value).  Messages may be skipped and, *)
(* as nothing is locked, the members may be of different messages; but a   *)
(* member never comes from a message that was not issued, and never goes   *)
(* back to an older one.                                                   *)
(***************************************************************************)
EXTENDS Naturals

CONSTANT Members

VARIABLES
  issued,  \* the number of messages issued
  held     \* held[f]: the number of the message member f is from

Init ==
  /\ issued = 0
  /\ held = [f \in Members |-> 0]

Issue ==
  /\ issued' = issued + 1
  /\ UNCHANGED held

Take ==
  /\ held' \in [Members -> 0..issued]
  /\ \A f \in Members : held'[f] >= held[f]
  /\ UNCHANGED issued

Next == Issue \/ Take

Spec == Init /\ [][Next]_<<issued, held>>
============================================================================
