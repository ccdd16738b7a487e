----------------------------- MODULE Analytics -----------------------------
(***************************************************************************)
(* The panels of the analytics page over the archive, for both stores      *)
(* (internal/db/analytics.go and its port internal/postgres/analytics.go). *)
(*                                                                         *)
(* Every panel selects sessions on its own: a padded UTC range in SQL, the *)
(* local date in Go, and for a day-of-week or hour filter a second query   *)
(* over the messages.  `Selection` is that selection for the session level *)
(* panels; what differs between panels and stores is kept apart.  The      *)
(* termination filter is the one of SessionList and left out here.         *)
(***************************************************************************)
EXTENDS ReportRows

CONSTANTS MaxHeatmapDays, \* days the heat map shows at most
          ScanLimit,      \* rows the top sessions query reads from SQLite
          pgScanLimit,    \* rows it reads from PostgreSQL
          TopCount        \* sessions the top list shows

(* buildWhereWithDate: the predicates on the columns of a session. *)
Columns(f, r) ==
    /\ Len(r.msgs) > 0
    /\ r.kind \notin {"subagent", "fork"}
    /\ ~r.deleted
    /\ f.project # None => r.project = f.project
    /\ Picks(f.agents, r.agent)
    /\ f.minUser > 0 => r.userMsgs >= f.minUser
    /\ f.noOneShot => r.userMsgs > 1 \/ (~f.noAutomated /\ r.automated)
    /\ f.noAutomated => ~r.automated
    /\ f.since # None => LastActive(r) >= f.since

(* SQLite splits the machines; PostgreSQL compares with the list as a whole. *)
buildWhereWithDate(f, r) == Columns(f, r) /\ Picks(f.machines, r.machine)
MutPgWhereWithDate(f, r) == Columns(f, r)
pgWhereWithDate(f, r) ==
    Columns(f, r) /\ (f.machines = {} \/ f.machines = {r.machine})
Where(f, r, store) == IF store = "sqlite" THEN buildWhereWithDate(f, r) ELSE pgWhereWithDate(f, r)

buildWhere(f, r, store) == Where(f, r, store) /\ utcRange(f, StartOrCreated(r))

-----------------------------------------------------------------------------
(* The day-of-week and hour filter. *)

HasTimeFilter(f) == f.dow # None \/ f.hour # None
matchesTimeFilter(f, local) ==
    /\ f.dow # None => DayOfWeek(local) = f.dow
    /\ f.hour # None => Hour(local) = f.hour

Stamped(r) == {i \in DOMAIN r.msgs: r.msgs[i].ts # None}
filteredSessionIDs(db, f, store) ==
    {s \in Live(db):
        /\ buildWhere(f, db[s], store)
        /\ \E i \in Stamped(db[s]): matchesTimeFilter(f, localTime(db[s].msgs[i].ts, f.zone))}

DateOf(r, f) == localDate(StartOrCreated(r), f.zone)
InWindow(db, f, store) ==
    {s \in Live(db): buildWhere(f, db[s], store) /\ inDateRange(DateOf(db[s], f), f)}
Selection(db, f, store) ==
    {s \in InWindow(db, f, store):
        HasTimeFilter(f) => s \in filteredSessionIDs(db, f, store)}

-----------------------------------------------------------------------------
(* Counting and grouping. *)

Messages(db, S) == Summed([s \in S |-> Len(db[s].msgs)], S)
Groups(S, by(_)) == {by(s): s \in S}
Group(S, by(_), v) == {s \in S: by(s) = v}
Ratio(a, b, scale) == IF b = 0 THEN 0 ELSE Rounded(a, b, scale)
First(ranked, n) == SubSeq(ranked, 1, IF Len(ranked) < n THEN Len(ranked) ELSE n)

(* GetAnalyticsSummary. *)
SummaryOf(db, f, S) ==
    LET ProjectOf(s) == db[s].project
        AgentOf(s) == db[s].agent
        CountOf(s) == Len(db[s].msgs)
        reporting == {s \in S: db[s].outTokens # None}
        OutputOf(s) == db[s].outTokens
        load == [p \in Groups(S, ProjectOf) |-> Messages(db, Group(S, ProjectOf, p))]
        counts == Column(CountOf, S)
        More(p, q) == load[p] > load[q] \/ (load[p] = load[q] /\ p < q)
        ranked == SetToSortSeq(DOMAIN load, More)
        LoadOf(p) == load[p]
    IN [totalSessions |-> Cardinality(S),
        totalMessages |-> Messages(db, S),
        totalOutput |-> MapThenSumSet(OutputOf, reporting),
        tokenSessions |-> Cardinality(reporting),
        activeProjects |-> Cardinality(DOMAIN load),
        activeDays |-> Cardinality({DateOf(db[s], f): s \in S}),
        avg |-> Ratio(Messages(db, S), Cardinality(S), 10),
        median |-> medianInt(counts),
        p90 |-> Percentile(counts, 9),
        mostActive |-> IF ranked = <<>> THEN None ELSE ranked[1],
        concentration |-> Ratio(MapThenSumSet(LoadOf, ToSet(First(ranked, 3))),
                                Messages(db, S), 1000),
        agents |-> [a \in Groups(S, AgentOf) |->
                      [sessions |-> Cardinality(Group(S, AgentOf, a)),
                       messages |-> Messages(db, Group(S, AgentOf, a))]]]
GetAnalyticsSummary(db, f) == SummaryOf(db, f, Selection(db, f, "sqlite"))
pgGetAnalyticsSummary(db, f) == SummaryOf(db, f, Selection(db, f, "postgres"))

(* GetAnalyticsActivity: the tool calls are merged in by a second query. *)
CountIn(db, s, Test(_)) == Cardinality({i \in DOMAIN db[s].msgs: Test(db[s].msgs[i])})
Calls(r) == Summed([i \in DOMAIN r.msgs |-> Len(r.msgs[i].tools)], DOMAIN r.msgs)
mergeActivityToolCalls(db, S) == Summed([s \in S |-> Calls(db[s])], S)
ActivityOf(db, f, S, granularity, asked) ==
    LET BucketOf(s) == bucketDate(DateOf(db[s], f), granularity)
        AgentOf(s) == db[s].agent
        IsAssistant(m) == m.role = "assistant"
        Thinks(m) == m.thinking
    IN [b \in Groups(S, BucketOf) |->
          LET in == Group(S, BucketOf, b)
              Users(s) == Cardinality(asked[s])
              Assistants(s) == CountIn(db, s, IsAssistant)
              Thinking(s) == CountIn(db, s, Thinks)
          IN [sessions |-> Cardinality(in),
              messages |-> Messages(db, in),
              users |-> MapThenSumSet(Users, in),
              assistants |-> MapThenSumSet(Assistants, in),
              thinking |-> MapThenSumSet(Thinking, in),
              tools |-> mergeActivityToolCalls(db, in),
              byAgent |-> [a \in Groups(in, AgentOf) |-> Messages(db, Group(in, AgentOf, a))]]]
(* The user's messages: SQLite leaves system messages out, PostgreSQL does not. *)
AskedIn(r, store) ==
    {i \in DOMAIN r.msgs: r.msgs[i].role = "user" /\ (store = "sqlite" => ~r.msgs[i].sys)}
ActivityIn(db, f, granularity, store) ==
    ActivityOf(db, f, Selection(db, f, store), granularity,
               [s \in Selection(db, f, store) |-> AskedIn(db[s], store)])
GetAnalyticsActivity(db, f, granularity) == ActivityIn(db, f, granularity, "sqlite")
pgGetAnalyticsActivity(db, f, granularity) == ActivityIn(db, f, granularity, "postgres")

(* GetAnalyticsHeatmap. *)
clampFrom(from, to) ==
    LET earliest == to - (MaxHeatmapDays - 1)
    IN IF from < earliest THEN earliest ELSE from
computeQuartileLevels(sorted) ==
    LET n == Len(sorted)
        At(i) == sorted[i + 1]
    IN IF n = 0 THEN <<1, 2, 3, 4>>
       ELSE <<At(0), At(n \div 4), At(n \div 2), At((n * 3) \div 4)>>
assignLevel(value, levels) ==
    IF value <= 0 THEN 0
    ELSE 4 - Cardinality({i \in 2 .. 4: value <= levels[i]})
Metric(db, metric, S) ==
    LET OutputOf(s) == db[s].outTokens
    IN CASE metric = "sessions" -> Cardinality(S)
         [] metric = "output_tokens" ->
              MapThenSumSet(OutputOf, {s \in S: db[s].outTokens # None})
         [] OTHER -> Messages(db, S)
HeatmapOf(db, f, S, metric) ==
    LET DayOf(s) == DateOf(db[s], f)
        counted == IF metric = "output_tokens" THEN {s \in S: db[s].outTokens # None} ELSE S
        source == [d \in Groups(counted, DayOf) |-> Metric(db, metric, Group(counted, DayOf, d))]
        from == clampFrom(f.from, f.to)
        shown == {d \in DOMAIN source: source[d] > 0 /\ d >= from /\ d <= f.to}
        ValueOf(d) == source[d]
        levels == computeQuartileLevels(Column(ValueOf, shown))
        Value(d) == IF d \in DOMAIN source THEN source[d] ELSE 0
    IN IF metric = "output_tokens" /\ source = <<>> THEN [from |-> from, entries |-> <<>>]
       ELSE [from |-> from,
             entries |-> [d \in from .. f.to |->
                            [value |-> Value(d), level |-> assignLevel(Value(d), levels)]]]
GetAnalyticsHeatmap(db, f, metric) == HeatmapOf(db, f, Selection(db, f, "sqlite"), metric)
pgGetAnalyticsHeatmap(db, f, metric) == HeatmapOf(db, f, Selection(db, f, "postgres"), metric)

(* GetAnalyticsProjects, as a function of the project. *)
ProjectsOf(db, f, S) ==
    LET ProjectOf(s) == db[s].project
        CountOf(s) == Len(db[s].msgs)
        AgentOf(s) == db[s].agent
    IN [p \in Groups(S, ProjectOf) |->
          LET in == Group(S, ProjectOf, p)
              days == {DateOf(db[s], f): s \in in}
          IN [sessions |-> Cardinality(in), messages |-> Messages(db, in),
              first |-> Min(days), last |-> Max(days),
              avg |-> Ratio(Messages(db, in), Cardinality(in), 10),
              median |-> medianInt(Column(CountOf, in)),
              agents |-> [a \in Groups(in, AgentOf) |-> Cardinality(Group(in, AgentOf, a))],
              trend |-> Ratio(Messages(db, in), Cardinality(days), 10)]]
GetAnalyticsProjects(db, f) == ProjectsOf(db, f, Selection(db, f, "sqlite"))
pgGetAnalyticsProjects(db, f) == ProjectsOf(db, f, Selection(db, f, "postgres"))

(* GetAnalyticsHourOfWeek: the grid ignores the day and hour filter. *)
HourOfWeekOf(db, f, S) ==
    LET counted == UNION {{s} \X Stamped(db[s]): s \in S}
        Cell(x) == LET local == localTime(db[x[1]].msgs[x[2]].ts, f.zone)
                   IN <<DayOfWeek(local), Hour(local)>>
    IN [c \in Groups(counted, Cell) |-> Cardinality(Group(counted, Cell, c))]
GetAnalyticsHourOfWeek(db, f) == HourOfWeekOf(db, f, InWindow(db, f, "sqlite"))
pgGetAnalyticsHourOfWeek(db, f) == HourOfWeekOf(db, f, InWindow(db, f, "postgres"))

-----------------------------------------------------------------------------
(* The panels that look into the sessions they selected. *)

Minutes(ticks) == (ticks * 60) \div HourLength
(* The number of bounds a value has reached: the position of its histogram bar. *)
Bar(bounds, value) == Cardinality({i \in DOMAIN bounds: value >= bounds[i]})
lengthBucket(n) == Bar(<<6, 16, 31, 61, 121>>, n)
durationBucket(ticks) == Bar(<<5, 15, 30, 60, 120>>, Minutes(ticks))
(* The ratio of a to b against 0.5, 1, 2, 5 and 10. *)
autonomyBucket(a, b) == Bar(<<b, 2 * b, 4 * b, 10 * b, 20 * b>>, 2 * a)

Histogram(S, bar(_)) == [b \in Groups(S, bar) |-> Cardinality(Group(S, bar, b))]

(* GetAnalyticsSessionShape; both ports count the user's own messages here. *)
SessionShapeOf(db, S) ==
    LET IsTurn(m) == m.role = "user" /\ ~m.sys
        UsesTools(m) == m.role = "assistant" /\ m.tools # <<>>
        LengthOf(s) == lengthBucket(Len(db[s].msgs))
        timed == {s \in S: /\ db[s].started # None /\ db[s].ended # None
                          /\ db[s].ended >= db[s].started}
        DurationOf(s) == durationBucket(db[s].ended - db[s].started)
        AutonomyOf(s) == autonomyBucket(CountIn(db, s, UsesTools), CountIn(db, s, IsTurn))
    IN [count |-> Cardinality(S),
        length |-> Histogram(S, LengthOf),
        duration |-> Histogram(timed, DurationOf),
        autonomy |-> Histogram({s \in S: CountIn(db, s, IsTurn) > 0}, AutonomyOf)]
GetAnalyticsSessionShape(db, f) == SessionShapeOf(db, Selection(db, f, "sqlite"))
pgGetAnalyticsSessionShape(db, f) == SessionShapeOf(db, Selection(db, f, "postgres"))

(* GetAnalyticsTools: the calls of the selected sessions by category, by     *)
(* agent and category, and by week and category.                             *)
ToolRows(db, S) ==
    UNION {UNION {{<<s, i, k>>: k \in DOMAIN db[s].msgs[i].tools}: i \in DOMAIN db[s].msgs}: s \in S}
ToolsOf(db, f, S) ==
    LET rows == ToolRows(db, S)
        CategoryOf(x) == db[x[1]].msgs[x[2]].tools[x[3]].cat
        AgentOf(x) == db[x[1]].agent
        WeekOf(x) == bucketDate(DateOf(db[x[1]], f), "week")
        Shares(R) == [c \in Groups(R, CategoryOf) |->
                        [count |-> Cardinality(Group(R, CategoryOf, c)),
                         pct |-> Ratio(Cardinality(Group(R, CategoryOf, c)) * 100, Cardinality(R), 10)]]
    IN [total |-> Cardinality(rows), byCategory |-> Shares(rows),
        byAgent |-> [a \in Groups(rows, AgentOf) |->
                       [total |-> Cardinality(Group(rows, AgentOf, a)),
                        categories |-> Shares(Group(rows, AgentOf, a))]],
        trend |-> [w \in Groups(rows, WeekOf) |-> Histogram(Group(rows, WeekOf, w), CategoryOf)]]
GetAnalyticsTools(db, f) == ToolsOf(db, f, Selection(db, f, "sqlite"))
pgGetAnalyticsTools(db, f) == ToolsOf(db, f, Selection(db, f, "postgres"))

(* The velocity of one session: turn cycles from a user message to the       *)
(* assistant's right after it, at most half an hour; the first response, 0   *)
(* when the clock went back; active time, a pause counted as five minutes.   *)
MaxCycle == HourLength \div 2
MaxGap == HourLength \div 12
Step(r, i) == r.msgs[i].ts - r.msgs[i - 1].ts
Steps(r) == {i \in 2 .. Len(r.msgs): {i - 1, i} \subseteq Stamped(r)}
TurnCycles(r) ==
    {i \in Steps(r): /\ r.msgs[i - 1].role = "user" /\ r.msgs[i].role = "assistant"
                     /\ Step(r, i) > 0 /\ Step(r, i) <= MaxCycle}
FirstResponse(r) ==
    LET users == {i \in Stamped(r): r.msgs[i].role = "user"}
        answers == {i \in Stamped(r): r.msgs[i].role = "assistant" /\ i > Min(users)}
    IN IF users = {} \/ answers = {} THEN {}
       ELSE {LET delta == r.msgs[Min(answers)].ts - r.msgs[Min(users)].ts
             IN IF delta < 0 THEN 0 ELSE delta}
ActiveTime(r) ==
    LET Counted(i) == IF Step(r, i) <= 0 THEN 0
                      ELSE IF Step(r, i) > MaxGap THEN MaxGap ELSE Step(r, i)
    IN MapThenSumSet(Counted, Steps(r))
AssistantChars(r) ==
    LET LengthOf(i) == r.msgs[i].len
    IN MapThenSumSet(LengthOf, {i \in DOMAIN r.msgs: r.msgs[i].role = "assistant"})

(* processSessionVelocity over the sessions of a group, and computeOverview. *)
processSessionVelocity(db, S) ==
    LET cycles == UNION {{s} \X TurnCycles(db[s]): s \in S}
        CycleOf(x) == Step(db[x[1]], x[2])
        responses == UNION {{s} \X FirstResponse(db[s]): s \in S}
        ResponseOf(x) == x[2]
        active == {s \in S: ActiveTime(db[s]) > 0}
        TimeOf(s) == ActiveTime(db[s])
        CharsOf(s) == AssistantChars(db[s])
    IN [sessions |-> Cardinality(S), cycles |-> Column(CycleOf, cycles),
        responses |-> Column(ResponseOf, responses),
        msgs |-> Messages(db, active), chars |-> MapThenSumSet(CharsOf, active),
        tools |-> mergeActivityToolCalls(db, active), active |-> MapThenSumSet(TimeOf, active)]
computeOverview(a) ==
    LET PerMinute(n) == Ratio(n * HourLength, a.active * 60, 10)
    IN [cycle50 |-> Percentile(a.cycles, 5), cycle90 |-> Percentile(a.cycles, 9),
        response50 |-> Percentile(a.responses, 5), response90 |-> Percentile(a.responses, 9),
        msgs |-> PerMinute(a.msgs), chars |-> PerMinute(a.chars), tools |-> PerMinute(a.tools)]
complexityBucket(n) == Bar(<<16, 61>>, n)
Talked(db, S) == {s \in S: Len(db[s].msgs) >= 2}
VelocityOf(db, S) ==
    LET talked == Talked(db, S)
        AgentOf(s) == db[s].agent
        ComplexityOf(s) == complexityBucket(Len(db[s].msgs))
        Overview(T) == [sessions |-> Cardinality(T),
                        overview |-> computeOverview(processSessionVelocity(db, T))]
    IN [overall |-> computeOverview(processSessionVelocity(db, talked)),
        byAgent |-> [a \in Groups(talked, AgentOf) |-> Overview(Group(talked, AgentOf, a))],
        byComplexity |-> [c \in Groups(talked, ComplexityOf) |->
                            Overview(Group(talked, ComplexityOf, c))]]
GetAnalyticsVelocity(db, f) == VelocityOf(db, Selection(db, f, "sqlite"))
pgGetAnalyticsVelocity(db, f) == VelocityOf(db, Selection(db, f, "postgres"))

(* AggregateSignals, shared by the stores. *)
SignalGroup(db, G) ==
    LET scored == {s \in G: db[s].sig.score # None}
        ScoreOf(s) == db[s].sig.score
        FailuresOf(s) == db[s].sig.failures
        Outcome(o) == Cardinality({s \in G: db[s].sig.outcome = o})
    IN [count |-> Cardinality(G),
        avgScore |-> IF scored = {} THEN None
                     ELSE Rounded(MapThenSumSet(ScoreOf, scored), Cardinality(scored), 10),
        completed |-> Outcome("completed"), errored |-> Outcome("errored"),
        abandoned |-> Outcome("abandoned"),
        completedRate |-> Ratio(Outcome("completed") * 100, Cardinality(G), 10),
        avgFailures |-> Ratio(MapThenSumSet(FailuresOf, G), Cardinality(G), 10)]
AggregateSignals(db, f, S) ==
    LET OutcomeOf(s) == db[s].sig.outcome
        GradeOf(s) == db[s].sig.grade
        AgentOf(s) == db[s].agent
        ProjectOf(s) == db[s].project
        DayOf(s) == DateOf(db[s], f)
        FailuresOf(s) == db[s].sig.failures
        CompactionsOf(s) == db[s].sig.compactions
        PressureOf(s) == db[s].sig.pressure
        failing == {s \in S: db[s].sig.failures > 0}
        pressed == {s \in S: db[s].sig.pressure # None}
        By(key(_)) == [k \in Groups(S, key) |-> SignalGroup(db, Group(S, key, k))]
    IN [scored |-> Cardinality({s \in S: db[s].sig.score # None}),
        unscored |-> Cardinality({s \in S: db[s].sig.score = None}),
        all |-> SignalGroup(db, S),
        grades |-> Histogram({s \in S: db[s].sig.grade # ""}, GradeOf),
        outcomes |-> Histogram({s \in S: db[s].sig.outcome # ""}, OutcomeOf),
        failures |-> MapThenSumSet(FailuresOf, S),
        failureRate |-> Ratio(Cardinality(failing) * 100, Cardinality(S), 10),
        compacted |-> Cardinality({s \in S: db[s].sig.compactions > 0}),
        avgCompactions |-> Ratio(MapThenSumSet(CompactionsOf, S), Cardinality(S), 10),
        pressure |-> Ratio(MapThenSumSet(PressureOf, pressed), Cardinality(pressed), 10),
        highPressure |-> Cardinality({s \in pressed: db[s].sig.pressure >= 80}),
        trend |-> By(DayOf), byAgent |-> By(AgentOf), byProject |-> By(ProjectOf)]
GetAnalyticsSignals(db, f) == AggregateSignals(db, f, Selection(db, f, "sqlite"))
pgGetAnalyticsSignals(db, f) == AggregateSignals(db, f, Selection(db, f, "postgres"))

-----------------------------------------------------------------------------
(* The top sessions.  Both queries order and cut before the local date and   *)
(* the time filter apply; PostgreSQL lifts the cut under a time filter and   *)
(* for the durations, which it orders afterwards.                            *)

Duration(r) == r.ended - r.started
Timed(r) == r.started # None /\ r.ended # None
Measure(r, metric) ==
    CASE metric = "output_tokens" -> r.outTokens
      [] metric = "duration" -> Duration(r)
      [] OTHER -> Len(r.msgs)
Measured(r, metric) ==
    /\ metric = "output_tokens" => r.outTokens # None
    /\ metric = "duration" => Timed(r)
Better(db, metric, s, t) ==
    \/ Measure(db[s], metric) > Measure(db[t], metric)
    \/ Measure(db[s], metric) = Measure(db[t], metric) /\ s < t
Ranked(db, S, metric) == InOrder(S, [t \in S |-> {s \in S: Better(db, metric, s, t)}])
Candidates(db, f, store, metric) ==
    {s \in Live(db): buildWhere(f, db[s], store) /\ Measured(db[s], metric)}

TopOf(scanned, S) == LET keep(s) == s \in S IN First(SelectSeq(scanned, keep), TopCount)

GetAnalyticsTopSessions(db, f, metric) ==
    TopOf(First(Ranked(db, Candidates(db, f, "sqlite", metric), metric), ScanLimit),
          Selection(db, f, "sqlite"))
pgGetAnalyticsTopSessions(db, f, metric) ==
    LET ranked == Ranked(db, Candidates(db, f, "postgres", metric), metric)
    IN TopOf(IF HasTimeFilter(f) \/ metric = "duration" THEN ranked
             ELSE First(ranked, pgScanLimit),
             Selection(db, f, "postgres"))
=============================================================================
