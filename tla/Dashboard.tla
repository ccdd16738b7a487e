----------------------------- MODULE Dashboard -----------------------------
(***************************************************************************)
(* The reports of the archive together: sessions are written, trashed and  *)
(* restored while pages with one query each are opened; what the panels,   *)
(* the usage page, the trends, the session pages and the statistics show   *)
(* of one archive must fit together.                                       *)
(*                                                                         *)
(* A query is what the browser asks for.  parseAnalyticsFilter and         *)
(* parseUsageFilter turn it into the filters of the two families, which    *)
(* have different defaults.                                                *)
(***************************************************************************)
EXTENDS Trends, SessionReports, SessionStats

CONSTANTS SessionIds,             \* the session ids, integers
          Parsed(_),            \* session -> the rows its file may parse to
          Queries,              \* what the browser may ask for
          Terms                 \* the trend terms the user asks for

Today == Now \div DayLength

(* defaultDateRange: the last 30 days up to today. *)
defaultDateRange(q) ==
    LET to == IF q.to = None THEN Today ELSE q.to
    IN [from |-> IF q.from = None THEN to - 30 ELSE q.from, to |-> to]

(* What a row has, whatever else is in it: times that are ticks or None, its *)
(* messages in a sequence and the tool calls of a message in another.        *)
IsRow(r) ==
    /\ {"exists", "deleted", "started", "created", "msgs"} \subseteq DOMAIN r
    /\ r = [k \in DOMAIN r |-> r[k]]
    /\ r.started \in Int /\ r.created \in Int
    /\ Len(r.msgs) \in Nat /\ DOMAIN r.msgs = 1..Len(r.msgs)
    /\ \A i \in DOMAIN r.msgs:
         /\ {r.msgs[i].ts, r.msgs[i].tokens.fresh, r.msgs[i].tokens.cached} \subseteq Int
         /\ Len(r.msgs[i].tools) \in Nat /\ DOMAIN r.msgs[i].tools = 1..Len(r.msgs[i].tools)
(* A zone is at most Pad hours from UTC: the code pads by fourteen           *)
(* (internal/db/analytics.go:72-73), and none is farther.  No window starts  *)
(* or ends on the day that stands for an absent one.                         *)
IsQuery(q) ==
    /\ q.from \in Int /\ q.to \in Int /\ q.zone.change \in Int
    /\ None \notin {defaultDateRange(q).from, defaultDateRange(q).to}
    /\ IsFiniteSet(q.machines)
    /\ {q.zone.before, q.zone.after} \subseteq -Pad..Pad

ASSUME DashboardAssumption ==
    /\ IsFiniteSet(SessionIds) /\ SessionIds \subseteq Int
    /\ HourLength \in Nat \ {0} /\ Pad \in Nat /\ Now \in Int
    /\ ScanLimit \in Nat /\ pgScanLimit \in Nat /\ ScanLimit <= pgScanLimit
    /\ \A s \in SessionIds: \A r \in Parsed(s): IsRow(r)
    /\ \A m \in DOMAIN Rates: Rates[m].fresh \in Int /\ Rates[m].cached \in Int
    /\ \A q \in Queries: IsQuery(q)

VARIABLES archive, page
dashboardVars == <<archive, page>>

parseAnalyticsFilter(q) ==
    [from |-> defaultDateRange(q).from, to |-> defaultDateRange(q).to, zone |-> q.zone,
     agents |-> q.agents, machines |-> q.machines, project |-> q.project, dow |-> q.dow,
     hour |-> q.hour, minUser |-> q.minUser, since |-> q.since,
     noAutomated |-> ~q.automated, noOneShot |-> q.oneShot # "true"]
parseUsageFilter(q) ==
    [from |-> defaultDateRange(q).from, to |-> defaultDateRange(q).to, zone |-> q.zone,
     agents |-> q.agents, exAgents |-> q.exAgents, machines |-> q.machines,
     projects |-> IF q.project = None THEN {} ELSE {q.project}, exProjects |-> {},
     models |-> q.models, exModels |-> {}, minUser |-> q.minUser, since |-> q.since,
     noAutomated |-> ~q.automated, noOneShot |-> q.oneShot = "false"]
Accepted(q) == defaultDateRange(q).from <= defaultDateRange(q).to

-----------------------------------------------------------------------------

InitDashboard ==
    /\ archive = [s \in SessionIds |-> Absent]
    /\ page \in {q \in Queries: Accepted(q)}

(* A pass writes the row and the messages of a session; what the user        *)
(* trashed is not written again.                                             *)
WriteSession(s) ==
    /\ archive[s].exists => ~archive[s].deleted
    /\ \E r \in Parsed(s): archive' = [archive EXCEPT ![s] = r]
    /\ UNCHANGED page

SoftDeleteSession(s) ==
    /\ archive[s].exists /\ ~archive[s].deleted
    /\ archive' = [archive EXCEPT ![s].deleted = TRUE]
    /\ UNCHANGED page

RestoreSession(s) ==
    /\ archive[s].exists /\ archive[s].deleted
    /\ archive' = [archive EXCEPT ![s].deleted = FALSE]
    /\ UNCHANGED page

OpenPage ==
    /\ \E q \in Queries: Accepted(q) /\ page' = q
    /\ UNCHANGED archive

NextDashboard ==
    \/ \E s \in SessionIds: WriteSession(s)
    \/ \E s \in SessionIds: SoftDeleteSession(s)
    \/ \E s \in SessionIds: RestoreSession(s)
    \/ OpenPage

DashboardSpec == InitDashboard /\ [][NextDashboard]_dashboardVars

-----------------------------------------------------------------------------
(* Properties. *)

Stores == {"sqlite", "postgres"}
Granularities == {"day", "week", "month"}
WindowIsCovered(f) ==
    {s \in Live(archive):
        /\ buildWhereWithDate(f, archive[s]) /\ inDateRange(DateOf(archive[s], f), f)
        /\ HasTimeFilter(f) =>
             \E i \in Stamped(archive[s]):
                matchesTimeFilter(f, localTime(archive[s].msgs[i].ts, f.zone))}
    = Selection(archive, f, "sqlite")
DayWindow(from, to) == [from |-> from * DayLength, to |-> (to + 1) * DayLength]
StartedIn(f, from, to) == loadSessionsInWindow(archive, f, DayWindow(from, to))
WindowsMeet(f) ==
    \A mid \in f.from .. f.to - 1:
        /\ StartedIn(f, f.from, mid) \cap StartedIn(f, mid + 1, f.to) = {}
        /\ StartedIn(f, f.from, mid) \cup StartedIn(f, mid + 1, f.to)
             = StartedIn(f, f.from, f.to)
SumOf(f, field) == Summed([x \in DOMAIN f |-> f[x][field]], DOMAIN f)
Total(f) == Summed(f, DOMAIN f)
ActivityAddsUp(activity, all, tools) ==
    /\ SumOf(activity, "sessions") = all.totalSessions
    /\ SumOf(activity, "messages") = all.totalMessages
    /\ SumOf(activity, "tools") = tools.total
HeatmapAddsUp(days, f, all) ==
    /\ days.from = f.from => SumOf(days.entries, "value") = all.totalMessages
    /\ \A d \in DOMAIN days.entries: days.entries[d].value > 0 <=> days.entries[d].level > 0
SummaryAddsUp(all, shape, signals, tools, projects) ==
    /\ SumOf(projects, "sessions") = all.totalSessions
    /\ SumOf(all.agents, "messages") = all.totalMessages
    /\ shape.count = all.totalSessions /\ Total(shape.length) = all.totalSessions
    /\ signals.scored + signals.unscored = all.totalSessions
    /\ SumOf(signals.trend, "count") = all.totalSessions
    /\ SumOf(tools.byCategory, "count") = tools.total
PanelsAddUp(f) ==
    /\ \A g \in Granularities:
         ActivityAddsUp(GetAnalyticsActivity(archive, f, g), GetAnalyticsSummary(archive, f),
                        GetAnalyticsTools(archive, f))
    /\ HeatmapAddsUp(GetAnalyticsHeatmap(archive, f, "messages"), f,
                     GetAnalyticsSummary(archive, f))
    /\ SummaryAddsUp(GetAnalyticsSummary(archive, f), GetAnalyticsSessionShape(archive, f),
                     GetAnalyticsSignals(archive, f), GetAnalyticsTools(archive, f),
                     GetAnalyticsProjects(archive, f))
SectionsAgree(all) ==
    /\ Total(all.totals.archetypes) = all.totals.sessions
    /\ Total(all.distributions.users.all.bars) = all.totals.sessions
    /\ Total(all.portfolio.all.sessions) = all.totals.sessions
    /\ Total(all.portfolio.all.messages) = all.totals.messages
    /\ Total(all.tools.byCategory) = all.tools.total
(* Every panel accounts for each session and message of its window exactly   *)
(* once.  The SQL bounds are UTC bounds around local dates: they must let    *)
(* through every session whose local date is in the window, whatever the     *)
(* zone and the change of its clock (internal/db/analytics.go:77-112), and   *)
(* the panels group what is left by day, project, agent and size without     *)
(* loss.  The windows of the statistics do not overlap and leave no gap: a   *)
(* session belongs to one of two adjacent windows                            *)
(* (internal/db/session_stats.go:385), and their sections agree on how many  *)
(* sessions, messages and calls there are.                                   *)
PanelsCoverTheWindow ==
    /\ WindowIsCovered(parseAnalyticsFilter(page))
    /\ PanelsAddUp(parseAnalyticsFilter(page))
    /\ WindowsMeet(parseUsageFilter(page))
    /\ SectionsAgree(GetSessionStats(archive, parseUsageFilter(page),
                       DayWindow(parseUsageFilter(page).from, parseUsageFilter(page).to)))

KeysOf(S) == {MessageRow(archive, x).key: x \in S}
(* The eligible messages of the window, read off the archive. *)
DueRows(f, store) ==
    {x \in MessageRows(archive):
        /\ usageMessageEligibility(archive, x) /\ Stamp(archive, x, store) # None
        /\ appendFilterClauses(f, archive[x[1]], MessageRow(archive, x))
        /\ inDateRange(localDate(Stamp(archive, x, store), f.zone), f)}
BilledOnce(billed, due) ==
    /\ KeysOf(billed) = KeysOf(due)
    /\ \A x, y \in billed:
         MessageRow(archive, x).key = MessageRow(archive, y).key /\ MessageRow(archive, x).key # NoKey => x = y
BreakdownsAddUp(fast, full, billed) ==
    /\ fast.totals = full.totals /\ fast.saved = full.saved
    /\ full.totals.cost = billed.cost
    /\ \A by \in {"projects", "models", "agents"}: SumOf(full[by], "cost") = billed.cost
    /\ Total(full.counts.byProject) = full.counts.total
    /\ Total(full.counts.byAgent) = full.counts.total
(* A message the provider billed is counted once, however many forks and     *)
(* resumed sessions replay it, and is never lost at the edge of a day: the   *)
(* keys billed are the keys of the eligible messages of the window, in       *)
(* either store (internal/db/usage.go:417-463).  What is billed adds up, by  *)
(* day, model, project and agent, with and without the breakdowns            *)
(* (internal/server/usage.go:143-238).                                       *)
UsageIsBilledOnce ==
    \A store \in Stores:
        /\ BilledOnce(Dedup(archive, parseUsageFilter(page), store),
                      DueRows(parseUsageFilter(page), store))
        /\ BreakdownsAddUp(GetDailyUsage(archive, parseUsageFilter(page), store, FALSE),
                           handleUsageSummary(archive, parseUsageFilter(page), store),
                           AmountOf(archive, Dedup(archive, parseUsageFilter(page), store)))

Comparable ==
    /\ Cardinality(page.machines) <= 1
    /\ Cardinality(Live(archive)) <= ScanLimit
    /\ \A s \in Live(archive): \A i \in DOMAIN archive[s].msgs:
         archive[s].msgs[i].ts # None /\ ~archive[s].msgs[i].sys
ReportsAgree(f, u) ==
    /\ GetAnalyticsSummary(archive, f) = pgGetAnalyticsSummary(archive, f)
    /\ \A g \in Granularities:
         /\ GetAnalyticsActivity(archive, f, g) = pgGetAnalyticsActivity(archive, f, g)
         /\ GetTrendsTerms(archive, f, ParseTrendTerms(Terms), g)
              = pgGetTrendsTerms(archive, f, ParseTrendTerms(Terms), g)
    /\ \A m \in {"messages", "sessions", "output_tokens"}:
         GetAnalyticsHeatmap(archive, f, m) = pgGetAnalyticsHeatmap(archive, f, m)
    /\ GetAnalyticsProjects(archive, f) = pgGetAnalyticsProjects(archive, f)
    /\ GetAnalyticsHourOfWeek(archive, f) = pgGetAnalyticsHourOfWeek(archive, f)
    /\ GetAnalyticsSessionShape(archive, f) = pgGetAnalyticsSessionShape(archive, f)
    /\ GetAnalyticsTools(archive, f) = pgGetAnalyticsTools(archive, f)
    /\ GetAnalyticsVelocity(archive, f) = pgGetAnalyticsVelocity(archive, f)
    /\ GetAnalyticsSignals(archive, f) = pgGetAnalyticsSignals(archive, f)
    /\ \A m \in {"messages", "duration", "output_tokens"}:
         GetAnalyticsTopSessions(archive, f, m) = pgGetAnalyticsTopSessions(archive, f, m)
    /\ GetDailyUsage(archive, u, "sqlite", TRUE) = pgGetDailyUsage(archive, u, TRUE)
    /\ GetTopSessionsByCost(archive, u, "sqlite", 0) = pgGetTopSessionsByCost(archive, u, 0)
    /\ GetUsageSessionCounts(archive, u, "sqlite") = pgGetUsageSessionCounts(archive, u)
    /\ \A s \in Live(archive):
         /\ GetSessionTiming(archive, s) = pgGetSessionTiming(archive, s)
         /\ GetSessionActivity(archive, s) = pgGetSessionActivity(archive, s)
(* The PostgreSQL port of a report shows what SQLite shows                   *)
(* (internal/postgres/analytics.go, usage.go, trends.go, session_timing.go), *)
(* where no message lacks a stamp or is a system message in the user's name, *)
(* the machine filter names one machine, and the archive fits the scan of    *)
(* the top sessions (internal/db/analytics.go:2765, postgres 2063).          *)
StoresAgree == Comparable => ReportsAgree(parseAnalyticsFilter(page), parseUsageFilter(page))

-----------------------------------------------------------------------------

TopAddsUp(top, billed, total, count) ==
    /\ SumOf([i \in DOMAIN top |-> top[i].amount], "cost") = total.cost
    /\ {e.id: e \in ToSet(top)} = {x[1]: x \in billed}
    /\ count = Len(top)
TopIsComplete(f, store) ==
    LET billed == Dedup(archive, f, store)
    IN Cardinality({x[1]: x \in billed}) <= 20 =>
         TopAddsUp(GetTopSessionsByCost(archive, f, store, 0), billed,
                   GetDailyUsage(archive, f, store, FALSE).totals,
                   GetUsageSessionCounts(archive, f, store).total)

DayFilter(f, d) == [f EXCEPT !.from = d, !.to = d]
OneDay(f, d) == GetDailyUsage(archive, DayFilter(f, d), "sqlite", TRUE)
(* What a day bills by itself, and what of it the window bills under the     *)
(* stamp of another day: the replays of messages with an earlier stamp.      *)
BilledAlone(f, d) == Dedup(archive, DayFilter(f, d), "sqlite")
BilledElsewhere(f, d) ==
    {x \in BilledAlone(f, d):
        /\ MessageRow(archive, x).key # NoKey
        /\ \E y \in DueRows(f, "sqlite"):
              /\ MessageRow(archive, y).key = MessageRow(archive, x).key
              /\ Earlier(archive, "sqlite", y, x)}
CostOn(f, d) == AmountOf(archive, BilledAlone(f, d) \ BilledElsewhere(f, d)).cost
DayIsItself(on, d, shown) ==
    IF d \in DOMAIN shown THEN d \in DOMAIN on /\ on[d] = shown[d] ELSE on = <<>>
DaysMatch(f, now) ==
    \A d \in f.from .. f.to:
        /\ BilledElsewhere(f, d) = {} => DayIsItself(OneDay(f, d).daily, d, now.daily)
        /\ CostOn(f, d) = IF d \in DOMAIN now.daily THEN now.daily[d].sum.cost ELSE 0
PeriodBefore(f) == [f EXCEPT !.from = f.from - (f.to - f.from + 1), !.to = f.from - 1]
DaysAddUp(f) ==
    LET before == PeriodBefore(f)
        On(d) == CostOn(before, d)
    IN /\ DaysMatch(f, GetDailyUsage(archive, f, "sqlite", TRUE))
       /\ handleUsageSummary(archive, f, "sqlite").prior.cost
            = MapThenSumSet(On, before.from .. before.to)

ActivityIsComplete(a, r) ==
    /\ Cardinality(DOMAIN a.buckets) <= maxBuckets
    /\ SumOf(a.buckets, "user") + SumOf(a.buckets, "assistant") = Cardinality({i \in Stamped(r): ~r.msgs[i].sys})
TimeIsShared(t, started) ==
    /\ t.subagents = 0 => SumOf(t.byCategory, "time") = t.toolTime
    /\ t.subagents > 0 => SumOf(t.byCategory, "time") >= t.toolTime
    /\ ~t.running /\ started # None => t.toolTime <= t.total

(* The words of a text that are counted are the runs of overlapping matches. *)
RunsOf(spans) ==
    LET Linked(a, b) == a[1] < b[2] /\ b[1] < a[2]
        firsts == {a \in spans: \A b \in spans: Linked(a, b) => a[1] <= b[1]}
    IN Cardinality({a[1]: a \in firsts})
SpansIn(x, variants) == UNION {collectTrendSpans(MessageRow(archive, x).text, m): m \in variants}
SameTotals(a, b) ==
    /\ Total(a.messages) = Total(b.messages)
    /\ \A i \in DOMAIN a.series: Total(a.series[i]) = Total(b.series[i])
TrendsAreComplete(f, terms) ==
    /\ \A g \in Granularities: SameTotals(GetTrendsTerms(archive, f, terms, g),
                                         GetTrendsTerms(archive, f, terms, "day"))
    /\ \A x \in TrendMessages(archive, f, "sqlite"): \A i \in DOMAIN terms:
         CountTrendOccurrences(MessageRow(archive, x).text, terms[i]) = RunsOf(SpansIn(x, terms[i]))
(* The sessions by cost are those that were billed, for the same amounts, as *)
(* long as the list holds them all (internal/db/usage.go:768).  A day costs  *)
(* the same in whatever window it is shown, the period before included       *)
(* (internal/server/usage.go:268-318), less the replays of messages that the *)
(* window bills under an earlier stamp: a replay stamped on the next day is  *)
(* billed there only when the window does not reach back to what it replays  *)
(* (internal/db/usage.go:407-416).                                           *)
(* The reports on one session account for all of it: the activity buckets    *)
(* hold every visible message with a stamp, in at most maxBuckets bars       *)
(* (internal/db/activity.go:35-65), and the categories of the timing page    *)
(* share out the time of the turns, subagents apart                          *)
(* (internal/db/timing.go:372-449).                                          *)
ReportsAreComplete ==
    /\ \A store \in Stores: TopIsComplete(parseUsageFilter(page), store)
    /\ DaysAddUp(parseUsageFilter(page))
    /\ \A s \in Live(archive):
         /\ ActivityIsComplete(GetSessionActivity(archive, s), archive[s])
         /\ TimeIsShared(GetSessionTiming(archive, s), archive[s].started)
    /\ TrendsAreComplete(parseAnalyticsFilter(page), ParseTrendTerms(Terms))

=============================================================================
