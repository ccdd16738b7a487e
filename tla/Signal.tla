------------------------------- MODULE Signal -------------------------------
(***************************************************************************)
(* The refresh signal as its users see it: a pass that committed rows owes *)
(* an emit, an emit leaves a wake-up for everyone who listens, and nobody  *)
(* loses a wake-up but by taking it or by having it merged with another    *)
(* one.  One may also await a listener that has just come.                 *)
(*                                                                         *)
(* The Broadcaster implements this with buffers that drop, a rate limit    *)
(* and a timer; ScopeEventAdapter is one listener of it.                   *)
(***************************************************************************)
EXTENDS Naturals

CONSTANT Listeners

VARIABLES listening,    \* who is subscribed
          owed,         \* passes that committed rows and have not emitted yet
          behind,       \* listeners that took no wake-up since the last commit
          waiting       \* the wake-ups on their way to each listener

vars == <<listening, owed, behind, waiting>>

Init ==
    /\ listening = {}
    /\ owed = 0
    /\ behind = {}
    /\ waiting = [l \in Listeners |-> 0]

Commit ==
    /\ owed' = owed + 1
    /\ behind' = listening
    /\ UNCHANGED <<listening, waiting>>

(* At least one wake-up for each, and at most one more than before.        *)
Emit ==
    /\ owed > 0
    /\ owed' = owed - 1
    /\ waiting' \in [Listeners -> Nat]
    /\ \A l \in Listeners : waiting'[l] <= waiting[l] + 1
    /\ \A l \in Listeners : waiting'[l] > 0 <=> l \in listening
    /\ UNCHANGED <<listening, behind>>

Merge ==
    /\ waiting' \in [Listeners -> Nat]
    /\ \A l \in Listeners : waiting'[l] <= waiting[l]
    /\ \A l \in Listeners : waiting'[l] > 0 <=> waiting[l] > 0
    /\ UNCHANGED <<listening, owed, behind>>

Subscribe(l) ==
    /\ l \notin listening
    /\ listening' = listening \cup {l}
    /\ \E n \in 0..1 : waiting' = [waiting EXCEPT ![l] = n]
    /\ UNCHANGED <<owed, behind>>

Unsubscribe(l) ==
    /\ l \in listening
    /\ listening' = listening \ {l}
    /\ waiting' = [waiting EXCEPT ![l] = 0]
    /\ behind' = behind \ {l}
    /\ UNCHANGED owed

Wake(l) ==
    /\ waiting[l] > 0
    /\ waiting' = [waiting EXCEPT ![l] = @ - 1]
    /\ behind' = behind \ {l}
    /\ UNCHANGED <<listening, owed>>

Next ==
    \/ Commit
    \/ Emit
    \/ Merge
    \/ \E l \in Listeners : Subscribe(l) \/ Unsubscribe(l) \/ Wake(l)

Spec == Init /\ [][Next]_vars

-----------------------------------------------------------------------------
(* Who is behind the last commit will hear of it: a wake-up is on its way  *)
(* or a pass has yet to emit.                                              *)
NobodyIsForgotten == \A l \in behind : waiting[l] > 0 \/ owed > 0
=============================================================================
