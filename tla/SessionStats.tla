---------------------------- MODULE SessionStats ----------------------------
(***************************************************************************)
(* The session statistics of `agentsview stats` over a window of time      *)
(* (internal/db/session_stats.go).  The commits and pull requests of the   *)
(* repositories (computeOutcomeStats) come from git and gh and are left    *)
(* out.  Histograms are functions from the number of a bar to its count.   *)
(***************************************************************************)
EXTENDS Analytics, Usage

CONSTANT Claude                 \* the agent some sections are restricted to

(* windowBounds: the bounds of the window, or nothing when the first does    *)
(* not precede the second.  A point is a date, an age, or left open; an age  *)
(* of the first point counts from the second one, of the second from now.    *)
parseWindowPoint(p, now) == IF p.kind = "age" THEN now - p.ticks ELSE p.date * DayLength
windowBounds(since, until, now) ==
    LET to == IF until.kind = "open" THEN now ELSE parseWindowPoint(until, now)
        from == CASE since.kind = "open" -> to - 28 * DayLength
                  [] since.kind = "age"  -> to - since.ticks
                  [] OTHER               -> parseWindowPoint(since, now)
        span == to - from
    IN IF from >= to THEN {}
       ELSE {[from |-> from, to |-> to,
              days |-> (span \div DayLength) + (IF span % DayLength = 0 THEN 0 ELSE 1)]}

(* loadSessionsInWindow: the sessions that started in [from, to). *)
loadSessionsInWindow(db, f, w) ==
    {s \in Live(db):
        LET r == db[s]
        IN /\ Len(r.msgs) > 0 /\ r.kind \notin {"subagent", "fork"} /\ ~r.deleted
           /\ StartOrCreated(r) >= w.from /\ StartOrCreated(r) < w.to
           /\ Picks(f.agents, r.agent)
           /\ Picks(f.projects, r.project) /\ r.project \notin f.exProjects}

(* computeTotalsAndArchetypes. *)
sessionShapeLabel(n) ==
    CASE n <= 5 -> "quick" [] n <= 15 -> "standard" [] n <= 50 -> "deep" [] OTHER -> "marathon"
Archetypes == <<"automation", "marathon", "deep", "standard", "quick">>
Label(r) == IF r.automated THEN "automation" ELSE sessionShapeLabel(r.userMsgs)
pickMaxLabel(counts, priority) ==
    LET seen == {k \in DOMAIN priority: priority[k] \in DOMAIN counts}
        Best(k) == \A j \in seen: \/ counts[priority[k]] > counts[priority[j]]
                                  \/ counts[priority[k]] = counts[priority[j]] /\ k <= j
    IN IF seen = {} THEN "" ELSE priority[CHOOSE k \in seen: Best(k)]
Human(db, S) == {s \in S: ~db[s].automated}
computeTotalsAndArchetypes(db, S) ==
    LET LabelOf(s) == Label(db[s])
        UsersOf(s) == db[s].userMsgs
        all == Histogram(S, LabelOf)
    IN [sessions |-> Cardinality(S), human |-> Cardinality(Human(db, S)),
        messages |-> Messages(db, S), users |-> MapThenSumSet(UsersOf, S),
        archetypes |-> all, primary |-> pickMaxLabel(all, Archetypes),
        primaryHuman |-> pickMaxLabel(Histogram(Human(db, S), LabelOf), Tail(Archetypes))]

(* computeDistributions: two scopes of one metric, its bars and its mean. *)
Turns(r) == Cardinality({i \in DOMAIN r.msgs: r.msgs[i].role = "assistant" /\ ~r.msgs[i].sys})
Scoped(S, bounds, value(_), unit) ==
    LET BarOf(s) == Bar(bounds, value(s))
    IN [bars |-> Histogram(S, BarOf), mean |-> Ratio(MapThenSumSet(value, S), Cardinality(S), unit)]
Both(db, S, H, bounds, value(_), unit) ==
    [all |-> Scoped(S, bounds, value, unit), human |-> Scoped(H, bounds, value, unit)]
computeDistributions(db, S) ==
    LET Ended(s) == db[s].ended # None /\ db[s].ended >= StartOrCreated(db[s])
        DurationOf(s) == Minutes(db[s].ended - StartOrCreated(db[s]))
        UsersOf(s) == db[s].userMsgs
        PeakOf(s) == db[s].peak
        PerTurn(s) == (10 * Calls(db[s])) \div Turns(db[s])
        claude == {s \in S: db[s].agent = Claude}
        timed == {s \in S: Ended(s)}
        peaked == {s \in claude: db[s].peak # None}
        turning == {s \in S: Turns(db[s]) > 0}
    IN [duration |-> Both(db, timed, Human(db, timed), <<1, 5, 20, 60, 120>>, DurationOf, 10),
        users |-> Both(db, S, {s \in Human(db, S): db[s].userMsgs >= 2}, <<2, 6, 16, 31, 51>>,
                       UsersOf, 10),
        peak |-> Both(db, peaked, Human(db, peaked), <<10, 50, 100, 150, 200>>, PeakOf, 10),
        unpeaked |-> Cardinality(claude \ peaked),
        perTurn |-> Both(db, turning, Human(db, turning), <<10, 20, 40, 70, 110>>, PerTurn, 1)]

(* computeAgentPortfolio. *)
computeAgentPortfolio(db, S) ==
    LET AgentOf(s) == db[s].agent
        OutputOf(s) == db[s].outTokens
        Section(T) ==
            LET agents == Histogram(T, AgentOf)
                reporting == {s \in T: db[s].outTokens # None}
                Top(a) == \A b \in DOMAIN agents: agents[a] > agents[b]
                                                  \/ (agents[a] = agents[b] /\ a <= b)
            IN [sessions |-> agents,
                messages |-> [a \in DOMAIN agents |-> Messages(db, Group(T, AgentOf, a))],
                tokens |-> [a \in Groups(reporting, AgentOf) |->
                              MapThenSumSet(OutputOf, Group(reporting, AgentOf, a))],
                primary |-> IF T = {} THEN None ELSE CHOOSE a \in DOMAIN agents: Top(a)]
    IN [all |-> Section(S), human |-> Section(Human(db, S))]

(* The messages of the selected sessions that carry usage. *)
Eligible(db, S) ==
    {x \in UNION {{s} \X DOMAIN db[s].msgs: s \in S}:
        MessageRow(db, x).hasUsage /\ MessageRow(db, x).model \notin {"", "<synthetic>"}}

(* computeToolAndModelMix; a model without tokens is not shown. *)
accumulateToolMix(db, S) ==
    LET CategoryOf(x) == db[x[1]].msgs[x[2]].tools[x[3]].cat
    IN [total |-> Cardinality(ToolRows(db, S)),
        byCategory |-> Histogram(ToolRows(db, S), CategoryOf)]
accumulateModelMix(db, S) ==
    LET ModelOf(x) == MessageRow(db, x).model
        OutputOf(x) == MessageRow(db, x).tokens.fresh
        Total(m) == MapThenSumSet(OutputOf, Group(Eligible(db, S), ModelOf, m))
    IN [m \in {m \in Groups(Eligible(db, S), ModelOf): Total(m) > 0} |-> Total(m)]

computeVelocity(db, S) ==
    LET accum == processSessionVelocity(db, Talked(db, S))
        Mean(list) == Ratio(FoldLeft(+, 0, list), Len(list), 10)
    IN [overview |-> computeOverview(accum), cycleMean |-> Mean(accum.cycles),
        responseMean |-> Mean(accum.responses)]

(* computeCacheEconomics, for the agent that reports its cache: the ratio of *)
(* a session is the share of cached tokens; a message is billed per session. *)
accumulateCacheTotals(db, s) == AmountOf(db, Eligible(db, {s}))
computeCacheEconomics(db, S) ==
    LET seen == {s \in S: db[s].agent = Claude /\ Eligible(db, {s}) # {}}
        OfSession(s) == accumulateCacheTotals(db, s)
        total == TotalOf([s \in seen |-> OfSession(s)], seen)
        SavedIn(x) == Saved(MessageRow(db, x))
        Denominator(s) == OfSession(s).fresh + OfSession(s).cached
        BarOf(s) == Bar(<<25, 50, 75, 95>>, (100 * OfSession(s).cached) \div Denominator(s))
    IN [spent |-> total.cost, saved |-> MapThenSumSet(SavedIn, Eligible(db, seen)),
        overall |-> Ratio(total.cached, total.fresh + total.cached, 1000),
        ratios |-> Histogram({s \in seen: Denominator(s) > 0}, BarOf)]

(* computeTemporal: user messages of the window by the hour, in UTC. *)
computeTemporal(db, S, w) ==
    LET counted == {x \in UNION {{s} \X Stamped(db[s]): s \in S}:
                      /\ MessageRow(db, x).role = "user"
                      /\ MessageRow(db, x).ts >= w.from /\ MessageRow(db, x).ts < w.to}
        HourOf(x) == MessageRow(db, x).ts \div HourLength
    IN [h \in Groups(counted, HourOf) |->
          [users |-> Cardinality(Group(counted, HourOf, h)),
           sessions |-> Cardinality({x[1]: x \in Group(counted, HourOf, h)})]]

(* computeOutcomes and computeAdoption. *)
computeOutcomes(db, S) ==
    LET claude == {s \in S: db[s].agent = Claude}
        n == Cardinality(claude)
        Total(field) == LET Of(s) == db[s].sig[field] IN MapThenSumSet(Of, claude)
        CallsOf(s) == Calls(db[s])
        Ended(with) == Cardinality({s \in claude: db[s].sig.outcome \in with})
        GradeOf(s) == db[s].sig.grade
    IN [success |-> Ended({"completed"}), failure |-> Ended({"abandoned", "errored"}),
        unknown |-> n - Ended({"completed", "abandoned", "errored"}),
        grades |-> Histogram({s \in claude: db[s].sig.grade # ""}, GradeOf),
        retryRate |-> Ratio(Total("retries"), MapThenSumSet(CallsOf, claude), 1000),
        compactions |-> Ratio(Total("compactions"), n, 10), churn |-> Ratio(Total("churn"), n, 10)]
computeAdoption(db, S) ==
    LET claude == {s \in S: db[s].agent = Claude}
        Named(names) == {x \in ToolRows(db, claude): db[x[1]].msgs[x[2]].tools[x[3]].name \in names}
    IN [planMode |-> Ratio(Cardinality({x[1]: x \in Named({"ExitPlanMode"})}), Cardinality(claude), 1000),
        subagents |-> Ratio(Cardinality(Named({"Task", "Agent"})), Cardinality(claude), 10),
        skills |-> Cardinality({db[x[1]].msgs[x[2]].tools[x[3]].skill: x \in Named({"Skill"})} \ {""})]

GetSessionStats(db, f, w) ==
    LET S == loadSessionsInWindow(db, f, w)
    IN [totals |-> computeTotalsAndArchetypes(db, S), distributions |-> computeDistributions(db, S),
        portfolio |-> computeAgentPortfolio(db, S), tools |-> accumulateToolMix(db, S),
        models |-> accumulateModelMix(db, S), velocity |-> computeVelocity(db, S),
        cache |-> computeCacheEconomics(db, S), temporal |-> computeTemporal(db, S, w),
        outcomes |-> computeOutcomes(db, S), adoption |-> computeAdoption(db, S)]
=============================================================================
