------------------------------ MODULE CmdPanel ------------------------------
(***************************************************************************)
(* The command panel (include/interface/CmdPanel.h) and the keyboard       *)
(* thread that fills it (src/interface/KeyBoard.cpp).  The panel is two    *)
(* plain members: the control loop reads both and writes both              *)
(* (setPassive, zeroCmdPanel), the thread writes both, and there is no     *)
(* lock.  The command is sticky: it stays until the next key.              *)
(*                                                                         *)
(* Each access of the thread to a member is a step of its own.  Of the     *)
(* four stick axes one is kept, in keyboard steps of sensitivityLeft.      *)
(***************************************************************************)
EXTENDS Integers

CONSTANTS
  Keys,             \* the keys that are pressed
  MaxStick          \* steps from the middle of the stick to its end

ASSUME PanelAssumption == MaxStick \in Nat \ {0}

VARIABLES
  userCmd,          \* CmdPanel::userCmd
  userValue,        \* CmdPanel::userValue
  kbPc, key, loaded \* the thread: where it is, _c, and a value it has read

panel == <<userCmd, userValue>>
kbVars == <<kbPc, key, loaded>>

Stick == -MaxStick .. MaxStick
KeyName == {"1", "2", "3", "4", "5", "0", "9", "8", " ", "w", "s", "other"}

ASSUME KeysAssumption == Keys \subseteq KeyName

PanelInit ==
  /\ userCmd = "NONE" /\ userValue = 0
  /\ kbPc = "select" /\ key = "other" /\ loaded = 0

---------------------------------------------------------------------------
(* KeyBoard::checkCmd *)
checkCmd(k) ==
  CASE k = "1" -> "L2_B"
    [] k = "2" -> "L2_A"
    [] k = "3" -> "L2_X"
    [] k = "4" -> "START"
    [] k = "5" -> "L2_Y"
    [] k = "0" -> "L1_X"
    [] k = "9" -> "L1_A"
    [] k = "8" -> "L1_Y"
    [] OTHER   -> "NONE"

(* mutant: the ends of the stick are not looked at *)
changeValue_NoEnds(k, v) == CASE k = "w" -> v + 1 [] k = "s" -> v - 1 [] OTHER -> v

(* KeyBoard::changeValue, for the axis of the keys w and s.                *)
changeValue(k, v) ==
  CASE k = "w" /\ v < MaxStick  -> v + 1
    [] k = "s" /\ v > -MaxStick -> v - 1
    [] OTHER -> v

---------------------------------------------------------------------------
(* KeyBoard::run, after select and read: the command is written, and the   *)
(* space key has the stick zeroed on the way.                              *)
StoreCmd(k) ==
  /\ kbPc = "select"
  /\ key' = k
  /\ userCmd' = checkCmd(k)
  /\ userValue' = IF k = " " THEN 0 ELSE userValue
  /\ kbPc' = "test"
  /\ UNCHANGED loaded

(* The command just written is tested, and for NONE the stick is read.     *)
(* The test may find setPassive's command instead; whether it reads the    *)
(* member again is the compiler's choice, as nothing orders the threads.   *)
TestCmd ==
  /\ kbPc = "test"
  /\ \/ checkCmd(key) = "NONE" /\ kbPc' = "store" /\ loaded' = userValue
     \/ userCmd # "NONE" /\ kbPc' = "select" /\ UNCHANGED loaded
  /\ UNCHANGED <<userCmd, userValue, key>>

(* The changed value is written, over whatever is there by now.            *)
StoreValue ==
  /\ kbPc = "store"
  /\ userValue' = IF key \in {"w", "s"} THEN changeValue(key, loaded) ELSE userValue
  /\ kbPc' = "select"
  /\ loaded' = 0
  /\ UNCHANGED <<userCmd, key>>

KeyBoard == (\E k \in Keys : StoreCmd(k)) \/ TestCmd \/ StoreValue

---------------------------------------------------------------------------
PanelTypeOK ==
  /\ userCmd \in {"NONE", "START", "L2_A", "L2_B", "L2_X", "L2_Y", "L1_X", "L1_A", "L1_Y"}
  /\ userValue \in Stick /\ loaded \in Stick
  /\ kbPc \in {"select", "test", "store"}
  /\ key \in KeyName
============================================================================
