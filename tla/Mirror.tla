------------------------------- MODULE Mirror -------------------------------
(***************************************************************************)
(* What the sync engine promises, whatever the order of its goroutines:    *)
(* the archive follows the sources.  Every step stores one source at a     *)
(* version it has had since the last one stored; no row goes back to an    *)
(* older version, and none holds what was never written.                   *)
(***************************************************************************)
EXTENDS Naturals

CONSTANT Sources

VARIABLES disk,     \* source -> the time of its last change
          stored    \* source -> the time its rows were read at, 0 before

Init == disk \in [Sources -> Nat] /\ stored \in [Sources -> Nat] /\ \A s \in Sources : stored[s] <= disk[s]

Change(s) == disk'[s] > disk[s] /\ disk' = [disk EXCEPT ![s] = disk'[s]] /\ UNCHANGED stored
Store(s)  == /\ stored'[s] \in stored[s]..disk[s] /\ stored' = [stored EXCEPT ![s] = stored'[s]]
             /\ UNCHANGED disk

Next == \E s \in Sources : Change(s) \/ Store(s)
Spec == Init /\ [][Next]_<<disk, stored>>
=============================================================================
