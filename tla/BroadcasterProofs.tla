------------------------- MODULE BroadcasterProofs -------------------------
(***************************************************************************)
(* Safety of the Broadcaster for every number of subscribers, buffer       *)
(* capacity and coalescing interval.                                       *)
(***************************************************************************)
EXTENDS Broadcaster, SequenceTheorems, TLAPS

(* What the timer, its generation and the clock have to do with each other:*)
(* only the timer that b.timer names holds the current generation, and it  *)
(* cannot act before minInterval has passed since the last broadcast.      *)
TimerInv ==
    /\ timer = "armed" => armedGen = timerGen /\ sinceEmit + wait >= MinInterval
    /\ timer = "fired" => sinceEmit >= MinInterval /\ timerGen \in callbacks
    /\ timerGen \in callbacks => timer = "fired"
    /\ \A gen \in callbacks : gen <= timerGen
    /\ sinceCast >= sinceEmit
    /\ pending # NoEvent => timer # "nil"

IInv == TypeOK /\ TimerInv /\ NoLostWakeup

-----------------------------------------------------------------------------
LEMMA AgeType == ASSUME BroadcasterAssumption, NEW t \in 0..MinInterval
                 PROVE  /\ Age(t) \in 0..MinInterval
                        /\ Age(t) >= t
                        /\ t = MinInterval => Age(t) = MinInterval
                        /\ t < MinInterval => Age(t) = t + 1
  BY DEF Age, Least, BroadcasterAssumption

(* A non-blocking send keeps the buffers within their capacity and leaves  *)
(* every registered subscriber with something to read.                     *)
LEMMA SendFacts ==
    ASSUME BroadcasterAssumption, TypeOK, NEW ev \in Scopes
    PROVE  /\ Send(ev) \in [Subscribers -> Seq(Scopes)]
           /\ \A s \in Subscribers : Len(Send(ev)[s]) <= BufferCap
           /\ \A s \in subs : Send(ev)[s] # <<>>
  <1>1. ASSUME NEW s \in Subscribers
        PROVE  buf[s] \in Seq(Scopes) /\ Len(buf[s]) \in Nat
    <2>1. buf[s] \in Seq(Scopes)
      BY DEF TypeOK
    <2>. QED BY <2>1, LenProperties
  <1>2. ASSUME NEW s \in Subscribers
        PROVE  /\ Append(buf[s], ev) \in Seq(Scopes)
               /\ Len(Append(buf[s], ev)) = Len(buf[s]) + 1
    BY <1>1, AppendProperties
  <1>3. Send(ev) \in [Subscribers -> Seq(Scopes)]
    BY <1>1, <1>2 DEF Send
  <1>4. ASSUME NEW s \in Subscribers PROVE Len(Send(ev)[s]) <= BufferCap
    BY <1>1, <1>2 DEF Send, TypeOK, BroadcasterAssumption
  <1>5. ASSUME NEW s \in subs PROVE Send(ev)[s] # <<>>
    <2>1. s \in Subscribers
      BY DEF TypeOK
    <2>2. CASE Len(buf[s]) < BufferCap
      <3>1. Append(buf[s], ev) # <<>>
        BY <1>1, <2>1, AppendProperties
      <3>. QED BY <2>1, <2>2, <3>1 DEF Send
    <2>3. CASE ~(Len(buf[s]) < BufferCap)
      <3>1. Len(buf[s]) > 0
        BY <1>1, <2>1, <2>3 DEF BroadcasterAssumption
      <3>2. buf[s] # <<>>
        BY <1>1, <2>1, <3>1
      <3>. QED BY <2>1, <2>3, <3>2 DEF Send
    <2>. QED BY <2>2, <2>3
  <1>. QED BY <1>3, <1>4, <1>5

LEMMA InitIInv == ASSUME BroadcasterAssumption, Init PROVE IInv
  BY DEF BroadcasterAssumption, Init, IInv, TypeOK, TimerInv, NoLostWakeup

-----------------------------------------------------------------------------
LEMMA EmitLeadingIInv ==
    ASSUME BroadcasterAssumption, IInv, NEW scope \in Scopes,
           EmitLeading(scope), owed > 0, owed' = owed - 1,
           UNCHANGED <<commits, subs, behind>>
    PROVE  IInv'
  <1>1. /\ Send(scope) \in [Subscribers -> Seq(Scopes)]
        /\ \A s \in Subscribers : Len(Send(scope)[s]) <= BufferCap
        /\ \A s \in subs : Send(scope)[s] # <<>>
    BY SendFacts DEF IInv
  <1>2. TypeOK'
    BY <1>1 DEF IInv, TypeOK, EmitLeading, broadcastLocked, BroadcasterAssumption
  <1>3. timerGen' \notin callbacks'
    BY DEF IInv, TypeOK, TimerInv, EmitLeading
  <1>4. \A gen \in callbacks' : gen <= timerGen'
    BY DEF IInv, TypeOK, TimerInv, EmitLeading
  <1>5. TimerInv'
    BY <1>3, <1>4 DEF TimerInv, EmitLeading, broadcastLocked
  <1>6. NoLostWakeup'
    BY <1>1 DEF IInv, TypeOK, NoLostWakeup, EmitLeading, broadcastLocked
  <1>. QED BY <1>2, <1>5, <1>6 DEF IInv

LEMMA EmitCoalescedIInv ==
    ASSUME BroadcasterAssumption, IInv, NEW scope \in Scopes,
           EmitCoalesced(scope), owed > 0, owed' = owed - 1,
           UNCHANGED <<commits, subs, behind>>
    PROVE  IInv'
  <1>1. TypeOK'
    BY DEF IInv, TypeOK, EmitCoalesced, castVars, BroadcasterAssumption
  <1>2. TimerInv'
    BY DEF IInv, TypeOK, TimerInv, EmitCoalesced, castVars, BroadcasterAssumption
  <1>3. NoLostWakeup'
    BY DEF IInv, NoLostWakeup, EmitCoalesced, BroadcasterAssumption
  <1>. QED BY <1>1, <1>2, <1>3 DEF IInv

LEMMA FlushIInv ==
    ASSUME BroadcasterAssumption, IInv, NEW gen \in callbacks,
           flushTrailing(gen)
    PROVE  IInv'
  <1>1. CASE gen # timerGen
    BY <1>1 DEF IInv, TypeOK, TimerInv, NoLostWakeup, flushTrailing, syncVars,
                castVars
  <1>2. CASE gen = timerGen /\ pending = NoEvent
    BY <1>2 DEF IInv, TypeOK, TimerInv, NoLostWakeup, flushTrailing, syncVars,
                castVars, BroadcasterAssumption
  <1>3. CASE gen = timerGen /\ pending # NoEvent
    <2>1. pending \in Scopes
      BY <1>3 DEF IInv, TypeOK
    <2>2. /\ Send(pending) \in [Subscribers -> Seq(Scopes)]
          /\ \A s \in Subscribers : Len(Send(pending)[s]) <= BufferCap
          /\ \A s \in subs : Send(pending)[s] # <<>>
      BY <2>1, SendFacts DEF IInv
    <2>3. /\ timer' = "nil" /\ wait' = 0 /\ pending' = NoEvent
          /\ sinceEmit' = 0 /\ sinceCast' = 0 /\ casts' = casts + 1
          /\ buf' = Send(pending) /\ callbacks' = callbacks \ {gen}
          /\ UNCHANGED <<commits, owed, subs, behind, armedGen, timerGen>>
      BY <1>3 DEF flushTrailing, broadcastLocked, syncVars
    <2>4. TypeOK'
      BY <2>2, <2>3 DEF IInv, TypeOK, BroadcasterAssumption
    <2>5. TimerInv'
      BY <1>3, <2>3 DEF IInv, TypeOK, TimerInv
    <2>6. NoLostWakeup'
      BY <2>2, <2>3 DEF IInv, TypeOK, NoLostWakeup
    <2>. QED BY <2>4, <2>5, <2>6 DEF IInv
  <1>. QED BY <1>1, <1>2, <1>3

LEMMA TickIInv == ASSUME BroadcasterAssumption, IInv, Tick PROVE IInv'
  <1>1. /\ sinceEmit \in 0..MinInterval /\ sinceCast \in 0..MinInterval
        /\ wait \in 0..MinInterval
    BY DEF IInv, TypeOK
  <1>2. /\ Age(sinceEmit) \in 0..MinInterval
        /\ Age(sinceEmit) >= sinceEmit
        /\ sinceEmit = MinInterval => Age(sinceEmit) = MinInterval
        /\ sinceEmit < MinInterval => Age(sinceEmit) = sinceEmit + 1
        /\ Age(sinceCast) \in 0..MinInterval
        /\ Age(sinceCast) >= sinceCast
        /\ sinceCast = MinInterval => Age(sinceCast) = MinInterval
        /\ sinceCast < MinInterval => Age(sinceCast) = sinceCast + 1
    BY <1>1, AgeType
  <1>3. TypeOK'
    BY <1>1, <1>2 DEF IInv, TypeOK, Tick, syncVars, subVars, BroadcasterAssumption
  <1>4. TimerInv'
    BY <1>1, <1>2 DEF IInv, TimerInv, Tick, syncVars, subVars, BroadcasterAssumption
  <1>5. NoLostWakeup'
    BY DEF IInv, NoLostWakeup, Tick, syncVars, subVars
  <1>. QED BY <1>3, <1>4, <1>5 DEF IInv

LEMMA FireIInv == ASSUME BroadcasterAssumption, IInv, Fire PROVE IInv'
  <1>1. armedGen = timerGen /\ sinceEmit >= MinInterval
    BY DEF IInv, TypeOK, TimerInv, Fire, BroadcasterAssumption
  <1>2. TypeOK'
    BY DEF IInv, TypeOK, Fire, syncVars, subVars, castVars
  <1>3. TimerInv'
    BY <1>1 DEF IInv, TypeOK, TimerInv, Fire, castVars
  <1>4. NoLostWakeup'
    BY DEF IInv, NoLostWakeup, Fire, syncVars, subVars
  <1>. QED BY <1>2, <1>3, <1>4 DEF IInv

(* A handler touches only its own subscription.                            *)
LEMMA SubscriberIInv ==
    ASSUME BroadcasterAssumption, IInv, NEW s \in Subscribers,
           Subscribe(s) \/ Unsubscribe(s) \/ Deliver(s)
    PROVE  IInv'
  <1>1. TimerInv'
    BY DEF IInv, TimerInv, Subscribe, Unsubscribe, Deliver, timerVars, castVars
  <1>2. CASE Subscribe(s)
    <2>1. TypeOK'
      BY <1>2 DEF IInv, TypeOK, Subscribe, syncVars, timerVars, castVars,
                  BroadcasterAssumption
    <2>2. NoLostWakeup'
      BY <1>2 DEF IInv, TypeOK, NoLostWakeup, Subscribe, syncVars
    <2>. QED BY <1>1, <2>1, <2>2 DEF IInv
  <1>3. CASE Unsubscribe(s)
    <2>1. TypeOK'
      BY <1>3 DEF IInv, TypeOK, Unsubscribe, syncVars, timerVars, castVars,
                  BroadcasterAssumption
    <2>2. NoLostWakeup'
      BY <1>3 DEF IInv, TypeOK, NoLostWakeup, Unsubscribe, syncVars
    <2>. QED BY <1>1, <2>1, <2>2 DEF IInv
  <1>4. CASE Deliver(s)
    <2>1. Tail(buf[s]) \in Seq(Scopes) /\ Len(Tail(buf[s])) <= BufferCap
      BY <1>4 DEF IInv, TypeOK, Deliver, BroadcasterAssumption
    <2>2. TypeOK'
      BY <1>4, <2>1 DEF IInv, TypeOK, Deliver, syncVars, timerVars, castVars
    <2>3. NoLostWakeup'
      BY <1>4 DEF IInv, TypeOK, NoLostWakeup, Deliver, syncVars
    <2>. QED BY <1>1, <2>2, <2>3 DEF IInv
  <1>. QED BY <1>2, <1>3, <1>4

LEMMA CommitIInv == ASSUME BroadcasterAssumption, IInv, Commit PROVE IInv'
  BY DEF BroadcasterAssumption, IInv, TypeOK, TimerInv, NoLostWakeup, Commit,
         timerVars, castVars

-----------------------------------------------------------------------------
(* Every step of the system preserves the inductive invariant.             *)
LEMMA NextIInv ==
    ASSUME BroadcasterAssumption, IInv, [Next]_vars
    PROVE  IInv'
  <1>1. CASE Commit
    BY <1>1, CommitIInv
  <1>2. ASSUME NEW scope \in Scopes, Emit(scope) PROVE IInv'
    BY <1>2, EmitLeadingIInv, EmitCoalescedIInv DEF Emit
  <1>3. CASE Tick
    BY <1>3, TickIInv
  <1>4. CASE Fire
    BY <1>4, FireIInv
  <1>5. ASSUME NEW gen \in callbacks, flushTrailing(gen) PROVE IInv'
    BY <1>5, FlushIInv
  <1>6. ASSUME NEW s \in Subscribers,
               Subscribe(s) \/ Unsubscribe(s) \/ Deliver(s)
        PROVE  IInv'
    BY <1>6, SubscriberIInv
  <1>7. CASE UNCHANGED vars
    BY <1>7 DEF IInv, TypeOK, TimerInv, NoLostWakeup, vars, syncVars,
                timerVars, subVars, castVars
  <1>. QED BY <1>1, <1>2, <1>3, <1>4, <1>5, <1>6, <1>7 DEF Next

(* The inductive invariant: for every number of clients, every buffer      *)
(* capacity and every interval, types, the timer bookkeeping of Emit and   *)
(* flushTrailing, and NoLostWakeup hold in every reachable state.          *)
THEOREM Invariance == Spec => []IInv
  <1>1. Init => IInv
    BY InitIInv, BroadcasterAssumption
  <1>2. IInv /\ [Next]_vars => IInv'
    BY NextIInv, BroadcasterAssumption
  <1>. QED BY <1>1, <1>2, PTL DEF Spec

(* The state of the Broadcaster is always well formed; no buffer exceeds   *)
(* broadcasterBufferCap, so Emit never blocks on a slow client.            *)
THEOREM TypeCorrect == Spec => []TypeOK
  <1>1. IInv => TypeOK
    BY DEF IInv
  <1>. QED BY <1>1, Invariance, PTL

(* Dropped and coalesced events never cost a client its wake-up.           *)
THEOREM NoWakeupIsLost == Spec => []NoLostWakeup
  <1>1. IInv => NoLostWakeup
    BY DEF IInv
  <1>. QED BY <1>1, Invariance, PTL

(* A coalesced event is always in the hands of an armed timer or a fired   *)
(* callback whose generation flushTrailing accepts.                        *)
THEOREM PendingScheduled == Spec => []PendingIsScheduled
  <1>1. IInv => PendingIsScheduled
    BY DEF IInv, TypeOK, TimerInv, PendingIsScheduled
  <1>. QED BY <1>1, Invariance, PTL

(* Broadcasts are minInterval apart under every interleaving of Emit with  *)
(* fired callbacks: the claim of the timerGen comment.                     *)
THEOREM RateLimit == Spec => RateLimited
  <1>1. ASSUME IInv, [Next]_vars
        PROVE  [casts' # casts => sinceCast >= MinInterval]_vars
    <2>. SUFFICES ASSUME Next, casts' # casts PROVE sinceCast >= MinInterval
      BY <1>1
    <2>1. ASSUME NEW scope \in Scopes, Emit(scope)
          PROVE  sinceCast >= MinInterval
      BY <1>1, <2>1, BroadcasterAssumption
         DEF Emit, EmitLeading, EmitCoalesced, castVars, IInv, TimerInv,
             TypeOK, BroadcasterAssumption
    <2>2. ASSUME NEW gen \in callbacks, flushTrailing(gen)
          PROVE  sinceCast >= MinInterval
      <3>1. gen = timerGen
        BY <2>2 DEF flushTrailing, castVars
      <3>2. timer = "fired" /\ sinceEmit >= MinInterval
        BY <1>1, <3>1 DEF IInv, TimerInv
      <3>. QED
        BY <1>1, <3>2, BroadcasterAssumption
           DEF IInv, TimerInv, TypeOK, BroadcasterAssumption
    <2>. QED
      BY <2>1, <2>2
         DEF Next, Commit, Tick, Fire, Subscribe, Unsubscribe, Deliver, castVars
  <1>. QED BY <1>1, Invariance, PTL DEF Spec, RateLimited

-----------------------------------------------------------------------------
(* The Broadcaster implements Signal.  Only subscribers have anything in a *)
(* buffer, so everything that is on its way is on its way to a subscriber. *)

OnlySubscribers == \A s \in Subscribers : s \notin subs => buf[s] = <<>>

SInv == IInv /\ OnlySubscribers

signalVars == <<subs, owed, behind, Waiting>>

LEMMA InitIsASignal ==
    ASSUME BroadcasterAssumption, Init
    PROVE  SInv /\ S!Init
  <1>1. SInv
    BY InitIInv DEF SInv, OnlySubscribers, Init
  <1>2. Len(<<>>) = 0
    OBVIOUS
  <1>3. Waiting = [s \in Subscribers |-> 0]
    BY <1>2 DEF Init, Waiting
  <1>. QED BY <1>1, <1>3 DEF Init, S!Init

(* What counts the wake-ups of one subscriber.                             *)
LEMMA WaitingFacts ==
    ASSUME TypeOK
    PROVE  /\ Waiting \in [Subscribers -> Nat]
           /\ \A s \in Subscribers :
                 /\ Waiting[s] = IF s \in subs /\ pending # NoEvent THEN Len(buf[s]) + 1 ELSE Len(buf[s])
                 /\ Len(buf[s]) \in Nat
                 /\ buf[s] # <<>> <=> Len(buf[s]) > 0
  <1>1. ASSUME NEW s \in Subscribers
        PROVE  Len(buf[s]) \in Nat /\ (buf[s] # <<>> <=> Len(buf[s]) > 0)
    <2>1. buf[s] \in Seq(Scopes)
      BY DEF TypeOK
    <2>2. Len(buf[s]) \in Nat
      BY <2>1, LenProperties
    <2>3. buf[s] = <<>> <=> Len(buf[s]) = 0
      BY <2>1, EmptySeq
    <2>. QED BY <2>2, <2>3
  <1>2. Waiting \in [Subscribers -> Nat]
    BY <1>1 DEF Waiting
  <1>. QED BY <1>1, <1>2 DEF Waiting

LEMMA WaitingIs ==
    ASSUME NEW w \in [Subscribers -> Nat],
           \A r \in Subscribers : Waiting'[r] = w[r]
    PROVE  Waiting' = w
  <1>1. /\ DOMAIN Waiting' = Subscribers
        /\ Waiting' = [r \in DOMAIN Waiting' |-> Waiting'[r]]
    BY DEF Waiting
  <1>. QED BY <1>1

(* A broadcast adds one event to a buffer or drops it at a full one.       *)
LEMMA SendCounts ==
    ASSUME BroadcasterAssumption, TypeOK, OnlySubscribers, NEW ev \in Scopes, NEW s \in Subscribers
    PROVE  /\ Len(Send(ev)[s]) \in Nat
           /\ s \notin subs => Send(ev)[s] = buf[s] /\ Len(Send(ev)[s]) = 0
           /\ s \in subs => /\ Len(Send(ev)[s]) > 0
                            /\ Len(buf[s]) <= Len(Send(ev)[s])
                            /\ Len(Send(ev)[s]) <= Len(buf[s]) + 1
  <1>1. buf[s] \in Seq(Scopes) /\ Len(buf[s]) \in Nat
    <2>1. buf[s] \in Seq(Scopes)
      BY DEF TypeOK
    <2>. QED BY <2>1, LenProperties
  <1>2. Len(Append(buf[s], ev)) = Len(buf[s]) + 1
    BY <1>1, AppendProperties
  <1>3. CASE s \in subs /\ Len(buf[s]) < BufferCap
    <2>1. Send(ev)[s] = Append(buf[s], ev)
      BY <1>3 DEF Send
    <2>. QED BY <1>1, <1>2, <1>3, <2>1
  <1>4. CASE s \in subs /\ ~(Len(buf[s]) < BufferCap)
    <2>1. Send(ev)[s] = buf[s]
      BY <1>4 DEF Send
    <2>2. Len(buf[s]) > 0
      BY <1>1, <1>4 DEF BroadcasterAssumption
    <2>. QED BY <1>1, <1>4, <2>1, <2>2
  <1>5. CASE s \notin subs
    <2>1. Send(ev)[s] = buf[s] /\ buf[s] = <<>>
      BY <1>5 DEF Send, OnlySubscribers
    <2>2. Len(<<>>) = 0
      OBVIOUS
    <2>. QED BY <1>1, <1>5, <2>1, <2>2
  <1>. QED BY <1>3, <1>4, <1>5

LEMMA EmitSignals ==
    ASSUME BroadcasterAssumption, SInv, NEW scope \in Scopes, Emit(scope)
    PROVE  OnlySubscribers' /\ S!Emit
  <1>1. TypeOK /\ TypeOK' /\ OnlySubscribers /\ IInv
    <2>1. IInv'
      BY EmitLeadingIInv, EmitCoalescedIInv DEF SInv, Emit
    <2>. QED BY <2>1 DEF SInv, IInv
  <1>2. owed > 0 /\ owed' = owed - 1 /\ UNCHANGED <<subs, behind>>
    BY DEF Emit
  <1>3. Waiting' \in [Subscribers -> Nat]
    <2>1. (Waiting \in [Subscribers -> Nat])'
      BY <1>1, WaitingFacts, PTL
    <2>. QED BY <2>1
  <1>4. ASSUME NEW s \in Subscribers
        PROVE  /\ Waiting'[s] <= Waiting[s] + 1
               /\ Waiting'[s] > 0 <=> s \in subs
               /\ s \notin subs => buf'[s] = <<>>
    <2>1. /\ Waiting[s] = IF s \in subs /\ pending # NoEvent THEN Len(buf[s]) + 1 ELSE Len(buf[s])
          /\ Len(buf[s]) \in Nat /\ (s \notin subs => buf[s] = <<>> /\ Len(buf[s]) = 0)
      BY <1>1, WaitingFacts DEF OnlySubscribers
    <2>2. Waiting'[s] = IF s \in subs /\ pending' # NoEvent THEN Len(buf'[s]) + 1 ELSE Len(buf'[s])
      BY <1>2 DEF Waiting
    <2>3. CASE EmitLeading(scope)
      <3>1. buf' = Send(scope) /\ pending' = NoEvent
        BY <2>3 DEF EmitLeading, broadcastLocked
      <3>. QED BY <1>1, <2>1, <2>2, <3>1, SendCounts
    <2>4. CASE EmitCoalesced(scope)
      <3>1. buf' = buf /\ pending' # NoEvent
        BY <2>4 DEF EmitCoalesced, BroadcasterAssumption
      <3>. QED BY <2>1, <2>2, <3>1
    <2>. QED BY <2>3, <2>4 DEF Emit
  <1>5. OnlySubscribers'
    BY <1>2, <1>4 DEF OnlySubscribers
  <1>. QED BY <1>2, <1>3, <1>4, <1>5 DEF S!Emit

(* A flush sends what the pending event promised, and a stale one nothing. *)
LEMMA FlushMerges ==
    ASSUME BroadcasterAssumption, SInv, NEW gen \in callbacks, flushTrailing(gen)
    PROVE  OnlySubscribers' /\ S!Merge
  <1>1. TypeOK /\ OnlySubscribers
    BY DEF SInv, IInv
  <1>2. UNCHANGED <<subs, owed, behind>>
    BY DEF flushTrailing, syncVars
  <1>3. ASSUME NEW s \in Subscribers
        PROVE  /\ Waiting'[s] \in Nat
               /\ Waiting'[s] <= Waiting[s]
               /\ Waiting'[s] > 0 <=> Waiting[s] > 0
               /\ s \notin subs => buf'[s] = <<>>
    <2>1. /\ Waiting[s] = IF s \in subs /\ pending # NoEvent THEN Len(buf[s]) + 1 ELSE Len(buf[s])
          /\ Len(buf[s]) \in Nat /\ (s \notin subs => buf[s] = <<>> /\ Len(buf[s]) = 0)
      BY <1>1, WaitingFacts DEF OnlySubscribers
    <2>2. Waiting'[s] = IF s \in subs /\ pending' # NoEvent THEN Len(buf'[s]) + 1 ELSE Len(buf'[s])
      BY <1>2 DEF Waiting
    <2>3. CASE gen # timerGen \/ pending = NoEvent
      <3>1. buf' = buf /\ pending' = pending
        BY <2>3 DEF flushTrailing
      <3>. QED BY <2>1, <2>2, <3>1
    <2>4. CASE gen = timerGen /\ pending # NoEvent
      <3>1. buf' = Send(pending) /\ pending' = NoEvent /\ pending \in Scopes
        BY <1>1, <2>4 DEF flushTrailing, broadcastLocked, TypeOK
      <3>. QED BY <1>1, <2>1, <2>2, <2>4, <3>1, SendCounts
    <2>. QED BY <2>3, <2>4
  <1>4. OnlySubscribers'
    BY <1>2, <1>3 DEF OnlySubscribers
  <1>5. Waiting' \in [Subscribers -> Nat]
    BY <1>3 DEF Waiting
  <1>. QED BY <1>2, <1>3, <1>4, <1>5 DEF S!Merge

LEMMA SubscribeSubscribes ==
    ASSUME SInv, NEW s \in Subscribers, Subscribe(s)
    PROVE  OnlySubscribers' /\ S!Subscribe(s)
  <1>1. TypeOK /\ OnlySubscribers /\ Len(<<>>) = 0
    BY DEF SInv, IInv
  <1>2. /\ s \notin subs /\ subs' = subs \cup {s} /\ buf' = [buf EXCEPT ![s] = <<>>]
        /\ UNCHANGED <<owed, behind, pending>> /\ buf \in [Subscribers -> Seq(Scopes)]
    BY <1>1 DEF Subscribe, syncVars, TypeOK
  <1>3. buf[s] = <<>> /\ buf' = buf
    BY <1>1, <1>2 DEF OnlySubscribers
  <1>4. OnlySubscribers'
    BY <1>1, <1>2, <1>3 DEF OnlySubscribers
  <1>5. PICK n \in 0..1 : n = IF pending # NoEvent THEN 1 ELSE 0
    OBVIOUS
  <1>6. Waiting' = [Waiting EXCEPT ![s] = n]
    <2>1. /\ Waiting \in [Subscribers -> Nat] /\ Len(buf[s]) = 0
          /\ \A r \in Subscribers :
                Waiting[r] = IF r \in subs /\ pending # NoEvent THEN Len(buf[r]) + 1 ELSE Len(buf[r])
      BY <1>1, <1>3, WaitingFacts
    <2>2. ASSUME NEW r \in Subscribers PROVE Waiting'[r] = [Waiting EXCEPT ![s] = n][r]
      <3>1. Waiting'[r] = IF r \in subs' /\ pending # NoEvent THEN Len(buf[r]) + 1 ELSE Len(buf[r])
        BY <1>2, <1>3 DEF Waiting
      <3>2. CASE r = s
        <4>1. Waiting'[s] = IF pending # NoEvent THEN 0 + 1 ELSE 0
          BY <1>2, <2>1, <3>1, <3>2
        <4>2. Waiting'[s] = n
          BY <1>5, <4>1
        <4>. QED BY <2>1, <3>2, <4>2
      <3>3. CASE r # s
        BY <1>2, <2>1, <3>1, <3>3
      <3>. QED BY <3>2, <3>3
    <2>3. [Waiting EXCEPT ![s] = n] \in [Subscribers -> Nat]
      BY <1>5, <2>1
    <2>. QED BY <2>2, <2>3, WaitingIs
  <1>. QED BY <1>2, <1>4, <1>6 DEF S!Subscribe

LEMMA UnsubscribeUnsubscribes ==
    ASSUME SInv, NEW s \in Subscribers, Unsubscribe(s)
    PROVE  OnlySubscribers' /\ S!Unsubscribe(s)
  <1>1. TypeOK /\ OnlySubscribers /\ Len(<<>>) = 0
    BY DEF SInv, IInv
  <1>2. /\ s \in subs /\ subs' = subs \ {s} /\ buf' = [buf EXCEPT ![s] = <<>>]
        /\ behind' = behind \ {s}
        /\ UNCHANGED <<owed, pending>> /\ buf \in [Subscribers -> Seq(Scopes)]
    BY <1>1 DEF Unsubscribe, syncVars, TypeOK
  <1>3. OnlySubscribers'
    BY <1>1, <1>2 DEF OnlySubscribers
  <1>4. Waiting' = [Waiting EXCEPT ![s] = 0]
    <2>1. Waiting \in [Subscribers -> Nat]
      BY <1>1, WaitingFacts
    <2>2. ASSUME NEW r \in Subscribers PROVE Waiting'[r] = [Waiting EXCEPT ![s] = 0][r]
      <3>1. CASE r = s
        <4>1. Waiting'[r] = Len(<<>>)
          BY <1>2, <3>1 DEF Waiting
        <4>. QED BY <1>1, <2>1, <3>1, <4>1
      <3>2. CASE r # s
        <4>1. Waiting'[r] = Waiting[r]
          BY <1>2, <3>2 DEF Waiting
        <4>. QED BY <2>1, <3>2, <4>1
      <3>. QED BY <3>1, <3>2
    <2>. QED BY <2>1, <2>2, WaitingIs
  <1>. QED BY <1>2, <1>3, <1>4 DEF S!Unsubscribe

LEMMA DeliverWakes ==
    ASSUME SInv, NEW s \in Subscribers, Deliver(s)
    PROVE  OnlySubscribers' /\ S!Wake(s)
  <1>1. TypeOK /\ OnlySubscribers
    BY DEF SInv, IInv
  <1>2. /\ s \in subs /\ buf[s] # <<>> /\ buf' = [buf EXCEPT ![s] = Tail(@)]
        /\ behind' = behind \ {s}
        /\ UNCHANGED <<subs, owed, pending>> /\ buf \in [Subscribers -> Seq(Scopes)]
    BY <1>1 DEF Deliver, syncVars, TypeOK
  <1>3. OnlySubscribers'
    BY <1>1, <1>2 DEF OnlySubscribers
  <1>4. /\ Len(buf[s]) \in Nat /\ Len(buf[s]) > 0
        /\ Waiting[s] = IF s \in subs /\ pending # NoEvent THEN Len(buf[s]) + 1 ELSE Len(buf[s])
    BY <1>1, <1>2, WaitingFacts
  <1>5. Len(Tail(buf[s])) = Len(buf[s]) - 1
    BY <1>2, HeadTailProperties
  <1>6. Waiting' = [Waiting EXCEPT ![s] = @ - 1]
    <2>1. Waiting \in [Subscribers -> Nat]
      BY <1>1, WaitingFacts
    <2>2. ASSUME NEW r \in Subscribers PROVE Waiting'[r] = [Waiting EXCEPT ![s] = @ - 1][r]
      <3>1. CASE r = s
        <4>1. buf'[s] = Tail(buf[s])
          BY <1>2
        <4>2. Waiting'[s] = IF s \in subs /\ pending # NoEvent THEN Len(buf'[s]) + 1 ELSE Len(buf'[s])
          BY <1>2 DEF Waiting
        <4>3. Waiting'[s] = Waiting[s] - 1
          BY <1>4, <1>5, <4>1, <4>2
        <4>. QED BY <2>1, <3>1, <4>3
      <3>2. CASE r # s
        <4>1. Waiting'[r] = Waiting[r]
          BY <1>2, <3>2 DEF Waiting
        <4>. QED BY <2>1, <3>2, <4>1
      <3>. QED BY <3>1, <3>2
    <2>3. Waiting[s] - 1 \in Nat
      BY <1>4
    <2>. QED BY <2>1, <2>2, <2>3, WaitingIs
  <1>. QED BY <1>2, <1>3, <1>4, <1>6 DEF S!Wake

LEMMA NextSignals ==
    ASSUME BroadcasterAssumption, SInv, [Next]_vars
    PROVE  SInv' /\ [S!Next]_signalVars
  <1>1. IInv'
    BY NextIInv DEF SInv
  <1>2. ASSUME NEW scope \in Scopes, Emit(scope)
        PROVE  OnlySubscribers' /\ [S!Next]_signalVars
    BY <1>2, EmitSignals DEF S!Next
  <1>3. ASSUME NEW gen \in callbacks, flushTrailing(gen)
        PROVE  OnlySubscribers' /\ [S!Next]_signalVars
    BY <1>3, FlushMerges DEF S!Next
  <1>4. ASSUME NEW s \in Subscribers, Subscribe(s) \/ Unsubscribe(s) \/ Deliver(s)
        PROVE  OnlySubscribers' /\ [S!Next]_signalVars
    BY <1>4, SubscribeSubscribes, UnsubscribeUnsubscribes, DeliverWakes DEF S!Next
  <1>5. CASE Commit
    <2>1. UNCHANGED <<subs, buf, pending>> /\ owed' = owed + 1 /\ behind' = subs
      BY <1>5 DEF Commit
    <2>2. Waiting' = Waiting
      BY <2>1 DEF Waiting
    <2>3. OnlySubscribers'
      BY <2>1 DEF SInv, OnlySubscribers
    <2>4. S!Commit
      BY <2>1, <2>2 DEF S!Commit
    <2>. QED BY <1>1, <2>3, <2>4 DEF SInv, S!Next
  <1>6. CASE Tick \/ Fire \/ UNCHANGED vars
    <2>1. UNCHANGED <<subs, buf, pending, owed, behind>>
      BY <1>6 DEF Tick, Fire, vars, syncVars, subVars
    <2>2. Waiting' = Waiting
      BY <2>1 DEF Waiting
    <2>3. OnlySubscribers'
      BY <2>1 DEF SInv, OnlySubscribers
    <2>4. UNCHANGED signalVars
      BY <2>1, <2>2 DEF signalVars
    <2>. QED BY <1>1, <2>3, <2>4 DEF SInv
  <1>. QED BY <1>1, <1>2, <1>3, <1>4, <1>5, <1>6 DEF Next, SInv

(* What Signal is worth: whoever implements it forgets nobody.             *)
THEOREM SignalForgetsNobody == S!Spec => []S!NobodyIsForgotten
  <1> DEFINE Typed ==
        /\ owed \in Nat /\ Waiting \in [Subscribers -> Nat]
        /\ behind \subseteq subs /\ subs \subseteq Subscribers
      Safe == Typed /\ S!NobodyIsForgotten
  <1>1. S!Init => Safe
    BY DEF S!Init, S!NobodyIsForgotten
  <1>2. Safe /\ [S!Next]_S!vars => Safe'
    <2> SUFFICES ASSUME Safe, [S!Next]_S!vars PROVE Safe'
      OBVIOUS
    <2>1. CASE S!Commit
      BY <2>1 DEF S!Commit, S!NobodyIsForgotten
    <2>2. CASE S!Emit
      BY <2>2 DEF S!Emit, S!NobodyIsForgotten
    <2>3. CASE S!Merge
      BY <2>3 DEF S!Merge, S!NobodyIsForgotten
    <2>4. ASSUME NEW l \in Subscribers, S!Subscribe(l) PROVE Safe'
      BY <2>4 DEF S!Subscribe, S!NobodyIsForgotten
    <2>5. ASSUME NEW l \in Subscribers, S!Unsubscribe(l) PROVE Safe'
      BY <2>5 DEF S!Unsubscribe, S!NobodyIsForgotten
    <2>6. ASSUME NEW l \in Subscribers, S!Wake(l) PROVE Safe'
      BY <2>6 DEF S!Wake, S!NobodyIsForgotten
    <2>7. CASE UNCHANGED S!vars
      BY <2>7 DEF S!vars, S!NobodyIsForgotten
    <2>. QED BY <2>1, <2>2, <2>3, <2>4, <2>5, <2>6, <2>7 DEF S!Next
  <1>3. Safe => S!NobodyIsForgotten
    OBVIOUS
  <1>. QED BY <1>1, <1>2, <1>3, PTL DEF S!Spec

(* Every behaviour of the Broadcaster is one of Signal: coalescing, full   *)
(* buffers, cancelled timers and late callbacks never add a wake-up to an  *)
(* emit's own, and never take the last one from a subscriber.              *)
THEOREM BroadcasterIsASignal == Spec => EmitIsASignal
  <1>1. Init => SInv /\ S!Init
    BY InitIsASignal, BroadcasterAssumption
  <1>2. SInv /\ [Next]_vars => SInv' /\ [S!Next]_signalVars
    BY NextSignals, BroadcasterAssumption
  <1>. QED BY <1>1, <1>2, PTL DEF Spec, EmitIsASignal, S!Spec, S!vars, signalVars

=============================================================================
