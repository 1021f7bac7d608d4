-------------------------- MODULE MCWaveGenerator --------------------------
(***************************************************************************)
(* The gaits of main.cpp:81-85, with the clock in coarser units.           *)
(***************************************************************************)
EXTENDS WaveGenerator

(* Trot, main.cpp:81: 0.45 s, one half stance, diagonal pairs.             *)
Trot20Bias == [i \in Leg |-> IF i \in {1, 2} THEN 10 ELSE 0]

(* Crawl, main.cpp:82: one leg after the other.                            *)
Crawl20Bias == [i \in Leg |-> 5 * i]

OneMore == {1, 2}
Never == {}
(* At either end and in the middle of some leg's swing.                    *)
Past == {0, 7, 15}
AnyStatus == WaveStatus
Walking == {"STANCE_ALL", "WAVE_ALL"}
Zeroed == {0}
Uninitialised == {-1, 0, 1, 5}
============================================================================
