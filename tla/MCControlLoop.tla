--------------------------- MODULE MCControlLoop ---------------------------
EXTENDS ControlLoop

(* One key for each command, and one that moves the stick.                 *)
AllCommands == {"1", "2", "3", "4", "5", "0", "9", "8", "w"}
(* The keys that move the stick, and the way into states that use it.      *)
StickKeys == {"1", "2", "3", " ", "w", "s"}
============================================================================
