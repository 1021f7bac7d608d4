--------------------------- MODULE MCHighCommand ---------------------------
(***************************************************************************)
(* The operator's terminals and what is typed into them.                   *)
(***************************************************************************)
EXTENDS HighCommand

CONSTANTS s1, s2

One == {s1}
Two == {s1, s2}
Nobody == {}
DampOnly == [s \in One |-> {"damp"}]
AnyScript ==
  [s \in Two |-> IF s = s1 THEN {"walk"} ELSE {"walk", "test_trot", "stop", "damp"}]
============================================================================
