--------------------------- MODULE SessionReports ---------------------------
(***************************************************************************)
(* The two reports on one session: its activity in time buckets            *)
(* (internal/db/activity.go) and the time its tool calls took              *)
(* (internal/db/timing.go), with their ports in internal/postgres.         *)
(***************************************************************************)
EXTENDS Analytics

CONSTANT Now                    \* the time at which a report is asked for

Seconds(ticks) == (ticks * 3600) \div HourLength
maxBuckets == 50
intervalSteps == {60, 120, 300, 600, 900, 1800, 3600, 7200}

(* A thirtieth of the duration, snapped to the nearest step, the larger of   *)
(* two; widened when that leaves too many buckets.                           *)
SnapInterval(duration) ==
    LET target == duration \div 30
        Distance(step) == IF step < target THEN target - step ELSE step - target
        near == {s \in intervalSteps: \A o \in intervalSteps: Distance(s) <= Distance(o)}
        best == IF duration <= 0 \/ target <= 60 THEN 60 ELSE Max(near)
    IN IF (duration \div best) + 1 > maxBuckets /\ target > 60
       THEN (duration + maxBuckets - 2) \div (maxBuckets - 1)
       ELSE best

(* The visible messages with a stamp, in buckets from the first one on; the  *)
(* gaps are filled with empty buckets.                                       *)
ActivityOfSession(r) ==
    LET visible == {i \in Stamped(r): ~r.msgs[i].sys}
        At(i) == Seconds(r.msgs[i].ts)
        times == {At(i): i \in visible}
        anchor == Min(times)
        interval == SnapInterval(Max(times) - anchor)
        Index(i) == (At(i) - anchor) \div interval
        Bucket(b) ==
            LET in == {i \in visible: Index(i) = b}
                Of(role) == Cardinality({i \in in: r.msgs[i].role = role})
            IN [user |-> Of("user"), assistant |-> Of("assistant"),
                first |-> IF in = {} THEN None ELSE Min(in)]
    IN IF visible = {} THEN [total |-> Len(r.msgs), interval |-> 0, buckets |-> <<>>]
       ELSE [total |-> Len(r.msgs), interval |-> interval,
             buckets |-> [b \in 0 .. Max({Index(i): i \in visible}) |-> Bucket(b)]]

GetSessionActivity(db, s) == ActivityOfSession(db[s])
pgGetSessionActivity(db, s) == ActivityOfSession(db[s])

-----------------------------------------------------------------------------
(* Timing.  A missing duration is None. *)

(* queryTurnRows: from a message with tool calls to the next one, or to the  *)
(* end of the session.  SQLite stores a missing stamp as the empty text,     *)
(* which is no time but is not NULL either, so only PostgreSQL falls back to *)
(* the end when the next message has no stamp.                               *)
NextTime(r, i, store) ==
    LET next == IF i < Len(r.msgs) THEN r.msgs[i + 1].ts ELSE None
    IN IF i = Len(r.msgs) \/ (next = None /\ store = "postgres") THEN r.ended ELSE next
NextTimes(r, store) == [i \in DOMAIN r.msgs |-> NextTime(r, i, store)]
TurnDuration(r, i, next) ==
    LET until == next[i]
    IN IF \/ r.msgs[i].tools = <<>> \/ r.msgs[i].ts = None \/ until = None
          \/ until < r.msgs[i].ts
       THEN None ELSE until - r.msgs[i].ts

(* queryCallRows: the duration of the subagent a call started, up to now     *)
(* when it has no end.                                                       *)
SubagentDuration(db, c) ==
    LET sub == db[c.sub]
    IN IF ~sub.exists \/ sub.started = None THEN None
       ELSE (IF sub.ended = None THEN Now ELSE sub.ended) - sub.started

(* A call that is alone in its turn takes the turn's duration. *)
CallDuration(db, r, i, k, next) ==
    LET c == r.msgs[i].tools[k]
        own == IF c.sub = None THEN None ELSE SubagentDuration(db, c)
    IN IF own = None /\ c.sub = None /\ Len(r.msgs[i].tools) = 1
       THEN TurnDuration(r, i, next) ELSE own

(* attributeTurnGo: the turn's primary category, what remains of it beside   *)
(* the longest subagent, and the durations of the subagents.  took is the    *)
(* duration of each of the turn's calls.                                     *)
TimedSubagents(calls, took) == {k \in DOMAIN calls: calls[k].sub # None /\ took[k] # None}
LongestOf(subs, took) == Max({0} \cup {took[k]: k \in subs})
Remainder(turn, union) == IF turn > union THEN turn - union ELSE 0
MajorityOf(calls, own) ==
    {c \in {calls[k].cat: k \in own}:
        2 * Cardinality({k \in own: calls[k].cat = c}) > Cardinality(own)}
PrimaryOf(union, rest, majority) ==
    IF union > 0 /\ union >= rest THEN "Task"
    ELSE IF majority = {} THEN "Mixed" ELSE CHOOSE c \in majority: TRUE
Attribution(calls, took, turn, subs, union) ==
    IF turn = None THEN [primary |-> "Mixed", rest |-> 0, subs |-> {}]
    ELSE [primary |-> PrimaryOf(union, Remainder(turn, union),
                                MajorityOf(calls, DOMAIN calls \ subs)),
          rest |-> Remainder(turn, union), subs |-> {<<k, took[k]>>: k \in subs}]
attributeTurnGo(calls, took, turn) ==
    Attribution(calls, took, turn, TimedSubagents(calls, took),
                LongestOf(TimedSubagents(calls, took), took))

(* AssembleTiming: the category totals take what remains of each turn and    *)
(* every subagent; durations that are not positive are dropped.              *)
TurnsOf(r) == {i \in DOMAIN r.msgs: r.msgs[i].tools # <<>>}
Attributed(db, r, next) ==
    [i \in TurnsOf(r) |->
        attributeTurnGo(r.msgs[i].tools,
                        [k \in DOMAIN r.msgs[i].tools |-> CallDuration(db, r, i, k, next)],
                        TurnDuration(r, i, next))]
CategoryEntries(r, of) ==
    {<<i, 0, of[i].primary, of[i].rest, Len(r.msgs[i].tools)>>: i \in DOMAIN of}
    \cup UNION {{<<i, s[1], "Task", s[2], 1>>: s \in of[i].subs}: i \in DOMAIN of}
EntryTime(e) == e[4]
EntryCalls(e) == e[5]
TotalsByCategory(kept) ==
    [cat \in {e[3]: e \in kept} |->
        [time |-> MapThenSumSet(EntryTime, {e \in kept: e[3] = cat}),
         calls |-> MapThenSumSet(EntryCalls, {e \in kept: e[3] = cat})]]
AssembleTiming(db, r, next) ==
    LET calls == UNION {{i} \X DOMAIN r.msgs[i].tools: i \in TurnsOf(r)}
        CallsOf(i) == Len(r.msgs[i].tools)
        TurnOf(i) == TurnDuration(r, i, next)
    IN [running |-> r.ended = None,
        total |-> IF r.started = None THEN 0
                  ELSE (IF r.ended = None THEN Now ELSE r.ended) - r.started,
        turnCount |-> Cardinality(TurnsOf(r)),
        callCount |-> MapThenSumSet(CallsOf, TurnsOf(r)),
        subagents |-> Cardinality({c \in calls: r.msgs[c[1]].tools[c[2]].sub # None}),
        toolTime |-> MapThenSumSet(TurnOf, {i \in TurnsOf(r): TurnOf(i) # None}),
        slowest |-> Max({None} \cup {CallDuration(db, r, c[1], c[2], next): c \in calls}),
        byCategory |->
            TotalsByCategory({e \in CategoryEntries(r, Attributed(db, r, next)): e[4] > 0})]
GetSessionTiming(db, s) == AssembleTiming(db, db[s], NextTimes(db[s], "sqlite"))
pgGetSessionTiming(db, s) == AssembleTiming(db, db[s], NextTimes(db[s], "postgres"))
=============================================================================
