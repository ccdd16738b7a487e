---------------------------- MODULE Broadcaster ----------------------------
(***************************************************************************)
(* The rate-limited fan-out of refresh signals: Broadcaster, its trailing  *)
(* timer, the engine goroutines that call Emit after a pass committed rows *)
(* and the /api/v1/events handlers that forward signals to their clients.  *)
(*                                                                         *)
(* Every method runs under b.mu, so each is one action.  What stays        *)
(* concurrent is the timer: a callback that has fired waits for b.mu like  *)
(* everybody else, and timer.Stop no longer reaches it.                    *)
(*                                                                         *)
(* Time is a count of ticks; elapsed times saturate at MinInterval, the    *)
(* only value the code compares them with.  A zero lastEmit is a saturated *)
(* elapsed time: both take the leading edge.                               *)
(***************************************************************************)
EXTENDS Naturals, Sequences

CONSTANTS
    Subscribers,    \* /events connections
    Scopes,         \* advisory scopes: "sessions", "messages", "sync"
    NoEvent,        \* a nil *Event
    BufferCap,      \* broadcasterBufferCap
    MinInterval,    \* minInterval, in ticks
    MaxCommits      \* bound: commits the engine makes in a behaviour

ASSUME BroadcasterAssumption ==
    /\ BufferCap \in Nat \ {0}
    /\ MinInterval \in Nat
    /\ MaxCommits \in Nat
    /\ NoEvent \notin Scopes

VARIABLES
    subs,       \* b.subs, the registered subscribers
    buf,        \* the buffered channel of each subscriber
    sinceEmit,  \* time since b.lastEmit
    pending,    \* b.pending
    timer,      \* b.timer: "nil", "armed", or "fired" (still non-nil)
    wait,       \* time the armed timer still has to run
    armedGen,   \* the generation the armed timer's closure captured
    timerGen,   \* b.timerGen
    callbacks,  \* generations of the fired callbacks waiting for b.mu
    commits,    \* commits made so far
    owed,       \* passes that committed rows and have not called Emit yet
    behind,     \* subscribers sent nothing since the last commit
    casts,      \* history: number of broadcasts
    sinceCast   \* history: time since the last broadcast

syncVars == <<commits, owed>>
timerVars == <<timer, wait, armedGen, timerGen, callbacks>>
subVars == <<subs, buf, behind>>
castVars == <<casts, sinceCast>>
vars == <<syncVars, timerVars, subVars, castVars, sinceEmit, pending>>

Least(a, b) == IF a < b THEN a ELSE b
Age(t) == Least(t + 1, MinInterval)

Init ==
    /\ subs = {}
    /\ buf = [s \in Subscribers |-> <<>>]
    /\ sinceEmit = MinInterval
    /\ pending = NoEvent
    /\ timer = "nil"
    /\ wait = 0
    /\ armedGen = 0
    /\ timerGen = 0
    /\ callbacks = {}
    /\ commits = 0
    /\ owed = 0
    /\ behind = {}
    /\ casts = 0
    /\ sinceCast = MinInterval

-----------------------------------------------------------------------------
(* The sync engine: a pass commits under syncMu and calls Emit after the   *)
(* unlock, so commits of later passes may precede the Emit of this one.    *)

Commit ==
    /\ commits < MaxCommits
    /\ commits' = commits + 1
    /\ owed' = owed + 1
    /\ behind' = subs
    /\ UNCHANGED <<subs, buf, timerVars, castVars, sinceEmit, pending>>

(* broadcastLocked: a non-blocking send, dropped where the buffer is full. *)
Send(ev) == [s \in Subscribers |->
    IF s \in subs /\ Len(buf[s]) < BufferCap THEN Append(buf[s], ev)
    ELSE buf[s]]

broadcastLocked(ev) ==
    /\ buf' = Send(ev)
    /\ casts' = casts + 1
    /\ sinceCast' = 0

EmitLeading(scope) ==
    /\ sinceEmit >= MinInterval
    /\ pending' = NoEvent
    /\ timer' = "nil"
    /\ wait' = 0
    /\ timerGen' = timerGen + 1
    /\ sinceEmit' = 0
    /\ broadcastLocked(scope)
    /\ UNCHANGED <<armedGen, callbacks>>

EmitCoalesced(scope) ==
    /\ sinceEmit < MinInterval
    /\ pending' = scope
    /\ IF timer = "nil"
       THEN /\ timer' = "armed"
            /\ wait' = MinInterval - sinceEmit
            /\ armedGen' = timerGen
       ELSE UNCHANGED <<timer, wait, armedGen>>
    /\ UNCHANGED <<timerGen, callbacks, sinceEmit, buf, castVars>>

Emit(scope) ==
    /\ owed > 0
    /\ owed' = owed - 1
    /\ EmitLeading(scope) \/ EmitCoalesced(scope)
    /\ UNCHANGED <<commits, subs, behind>>

-----------------------------------------------------------------------------
(* The clock and the timer.                                                *)

Tick ==
    /\ \/ sinceEmit < MinInterval
       \/ sinceCast < MinInterval
       \/ wait > 0
    /\ sinceEmit' = Age(sinceEmit)
    /\ sinceCast' = Age(sinceCast)
    /\ wait' = IF wait > 0 THEN wait - 1 ELSE 0
    /\ UNCHANGED <<syncVars, subVars, pending, casts,
                   timer, armedGen, timerGen, callbacks>>

(* The runtime starts the callback goroutine; b.timer keeps its value.     *)
Fire ==
    /\ timer = "armed"
    /\ wait = 0
    /\ timer' = "fired"
    /\ callbacks' = callbacks \cup {armedGen}
    /\ UNCHANGED <<syncVars, subVars, castVars, sinceEmit, pending,
                   wait, armedGen, timerGen>>

MutFlushAnyGeneration(gen) ==
    /\ gen \in callbacks
    /\ callbacks' = callbacks \ {gen}
    /\ timer' = "nil"
    /\ wait' = 0
    /\ IF pending = NoEvent
       THEN UNCHANGED <<pending, sinceEmit, buf, castVars>>
       ELSE /\ pending' = NoEvent
            /\ sinceEmit' = 0
            /\ broadcastLocked(pending)
    /\ UNCHANGED <<syncVars, subs, behind, armedGen, timerGen>>
MutFlushClearsFirst(gen) ==
    /\ gen \in callbacks
    /\ callbacks' = callbacks \ {gen}
    /\ pending' = NoEvent
    /\ IF gen # timerGen \/ pending = NoEvent
       THEN UNCHANGED <<timer, wait, sinceEmit, buf, castVars>>
       ELSE /\ timer' = "nil"
            /\ wait' = 0
            /\ sinceEmit' = 0
            /\ broadcastLocked(pending)
    /\ UNCHANGED <<syncVars, subs, behind, armedGen, timerGen>>
MutFlushKeepsTimer(gen) ==
    /\ gen \in callbacks
    /\ callbacks' = callbacks \ {gen}
    /\ IF gen # timerGen \/ pending = NoEvent
       THEN UNCHANGED <<timer, wait, pending, sinceEmit, buf, castVars>>
       ELSE /\ UNCHANGED <<timer, wait>>
            /\ pending' = NoEvent
            /\ sinceEmit' = 0
            /\ broadcastLocked(pending)
    /\ UNCHANGED <<syncVars, subs, behind, armedGen, timerGen>>
flushTrailing(gen) ==
    /\ gen \in callbacks
    /\ callbacks' = callbacks \ {gen}
    /\ IF gen # timerGen
       THEN UNCHANGED <<timer, wait, pending, sinceEmit, buf, castVars>>
       ELSE /\ timer' = "nil"
            /\ wait' = 0
            /\ IF pending = NoEvent
               THEN UNCHANGED <<pending, sinceEmit, buf, castVars>>
               ELSE /\ pending' = NoEvent
                    /\ sinceEmit' = 0
                    /\ broadcastLocked(pending)
    /\ UNCHANGED <<syncVars, subs, behind, armedGen, timerGen>>

-----------------------------------------------------------------------------
(* The /events handlers.                                                   *)

Subscribe(s) ==
    /\ s \notin subs
    /\ subs' = subs \cup {s}
    /\ buf' = [buf EXCEPT ![s] = <<>>]
    /\ UNCHANGED <<syncVars, timerVars, castVars, sinceEmit, pending, behind>>

Unsubscribe(s) ==
    /\ s \in subs
    /\ subs' = subs \ {s}
    /\ buf' = [buf EXCEPT ![s] = <<>>]
    /\ behind' = behind \ {s}
    /\ UNCHANGED <<syncVars, timerVars, castVars, sinceEmit, pending>>

(* The handler takes one event and sends data_changed: a client that       *)
(* refetches on it sees every commit made so far.                          *)
Deliver(s) ==
    /\ s \in subs
    /\ buf[s] # <<>>
    /\ buf' = [buf EXCEPT ![s] = Tail(@)]
    /\ behind' = behind \ {s}
    /\ UNCHANGED <<syncVars, timerVars, castVars, sinceEmit, pending, subs>>

-----------------------------------------------------------------------------
Next ==
    \/ Commit
    \/ \E scope \in Scopes : Emit(scope)
    \/ Tick
    \/ Fire
    \/ \E gen \in callbacks : flushTrailing(gen)
    \/ \E s \in Subscribers : Subscribe(s) \/ Unsubscribe(s) \/ Deliver(s)

(* Time passes, the runtime runs due timers, a goroutine that wants b.mu   *)
(* gets it, and a connected handler keeps draining its channel.            *)
Fairness ==
    /\ WF_vars(\E scope \in Scopes : Emit(scope))
    /\ WF_vars(Tick)
    /\ WF_vars(Fire)
    /\ \A gen \in 0..MaxCommits : WF_vars(flushTrailing(gen))
    /\ \A s \in Subscribers : WF_vars(Deliver(s))

Spec == Init /\ [][Next]_vars /\ Fairness

-----------------------------------------------------------------------------
(* The state of the broadcaster is well formed, and no channel ever holds  *)
(* more than its capacity (broadcastLocked must drop rather than block).   *)
TypeOK ==
    /\ subs \subseteq Subscribers
    /\ buf \in [Subscribers -> Seq(Scopes)]
    /\ \A s \in Subscribers : Len(buf[s]) <= BufferCap
    /\ sinceEmit \in 0..MinInterval
    /\ sinceCast \in 0..MinInterval
    /\ pending \in Scopes \cup {NoEvent}
    /\ timer \in {"nil", "armed", "fired"}
    /\ wait \in 0..MinInterval
    /\ armedGen \in Nat
    /\ timerGen \in Nat
    /\ callbacks \subseteq Nat
    /\ commits \in Nat
    /\ owed \in Nat
    /\ behind \subseteq subs
    /\ casts \in Nat

(* Dropping an event at a full buffer, coalescing emits and cancelling a   *)
(* trailing flush never lose the wake-up itself: while a connected client  *)
(* has been sent nothing since the last commit, a signal is buffered for   *)
(* it, or one is pending, or a pass has yet to call Emit.                  *)
NoLostWakeup ==
    \A s \in behind :
        buf[s] # <<>> \/ pending # NoEvent \/ owed > 0

(* A coalesced event always has a flush on its way that will accept it: an *)
(* armed timer, or a fired callback, of the current generation.            *)
PendingIsScheduled ==
    pending # NoEvent =>
        \/ timer = "armed" /\ armedGen = timerGen
        \/ timerGen \in callbacks

(* The rate limit the timerGen comment argues for: two broadcasts are at   *)
(* least minInterval apart, whatever the order in which a leading emit and *)
(* fired callbacks obtain b.mu.                                            *)
RateLimited ==
    [][casts' # casts => sinceCast >= MinInterval]_vars

(* Buffers that drop, the rate limit, the timer and its stale callbacks    *)
(* come to no more than a count for each subscriber: an emit adds at most  *)
(* one and leaves none at zero, and what a full buffer drops was one of    *)
(* several (owed and behind are those of Signal).                          *)
Waiting == [s \in Subscribers |->
               IF s \in subs /\ pending # NoEvent THEN Len(buf[s]) + 1 ELSE Len(buf[s])]
S == INSTANCE Signal WITH Listeners <- Subscribers, listening <- subs, waiting <- Waiting
EmitIsASignal == S!Spec

(* Every client that stays connected is eventually sent a signal after any *)
(* commit.                                                                 *)
EveryClientIsSignalled ==
    \A s \in Subscribers : s \in behind ~> s \notin behind

=============================================================================
