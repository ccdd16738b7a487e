------------------------------- MODULE Usage -------------------------------
(***************************************************************************)
(* The token and cost reports: daily usage with and without breakdowns,    *)
(* sessions by cost, sessions counted, the summary that folds them and its *)
(* comparison with the period before (internal/db/usage.go, its port in    *)
(* internal/postgres/usage.go, internal/server/usage.go).                  *)
(*                                                                         *)
(* A fork or a subagent replays messages of the session it came from; the  *)
(* provider's message and request ids, one `key` here, tell a replay, and  *)
(* three queries must bill it once and to the same session.                *)
(***************************************************************************)
EXTENDS ReportRows

CONSTANTS Rates,        \* model -> [fresh, cached], the price of a token
          NoKey         \* a message without both provider ids

(* loadPricingMap and the fallback of a model without a price. *)
Price(model) == IF model \in DOMAIN Rates THEN Rates[model] ELSE [fresh |-> 0, cached |-> 0]

-----------------------------------------------------------------------------
(* One row per message: <<session, position>>. *)

MessageRow(db, x) == db[x[1]].msgs[x[2]]
MessageRows(db) == UNION {{s} \X DOMAIN db[s].msgs: s \in Live(db)}

(* COALESCE(m.timestamp, s.started_at).  SQLite stores the missing stamp of  *)
(* a message as the empty text, which is not NULL and lies before every date *)
(* bound; PostgreSQL stores NULL and falls back to the start of the session. *)
Stamp(db, x, store) ==
    IF MessageRow(db, x).ts = None /\ store = "postgres" THEN db[x[1]].started
    ELSE MessageRow(db, x).ts

usageMessageEligibility(db, x) ==
    /\ MessageRow(db, x).hasUsage
    /\ MessageRow(db, x).model \notin {"", "<synthetic>"}
    /\ ~db[x[1]].deleted

appendFilterClauses(f, r, m) ==
    /\ Picks(f.agents, r.agent) /\ r.agent \notin f.exAgents
    /\ Picks(f.projects, r.project) /\ r.project \notin f.exProjects
    /\ Picks(f.machines, r.machine)
    /\ Picks(f.models, m.model) /\ m.model \notin f.exModels
    /\ f.minUser > 0 => r.userMsgs >= f.minUser
    /\ f.noOneShot => r.userMsgs > 1
    /\ f.noAutomated => ~r.automated
    /\ f.since # None => LastActive(r) >= f.since

(* The rows of the query; a NULL or empty stamp fails both bounds. *)
Queried(db, f, store) ==
    {x \in MessageRows(db):
        /\ usageMessageEligibility(db, x)
        /\ Stamp(db, x, store) # None
        /\ utcRange(f, Stamp(db, x, store))
        /\ appendFilterClauses(f, db[x[1]], MessageRow(db, x))}

(* ORDER BY stamp, session, ordinal. *)
Earlier(db, store, x, y) ==
    LET t == Stamp(db, x, store)  u == Stamp(db, y, store)
    IN t < u \/ (t = u /\ (x[1] < y[1] \/ (x[1] = y[1] /\ x[2] < y[2])))

InRange(db, f, store) ==
    {x \in Queried(db, f, store): inDateRange(localDate(Stamp(db, x, store), f.zone), f)}

(* Of the rows that share a key the first one in range is billed. *)
MutDedup(db, f, store) ==
    {x \in InRange(db, f, store):
        \/ MessageRow(db, x).key = NoKey
        \/ ~\E y \in InRange(db, f, store):
              /\ y[1] = x[1]
              /\ MessageRow(db, y).key = MessageRow(db, x).key /\ Earlier(db, store, y, x)}
Dedup(db, f, store) ==
    {x \in InRange(db, f, store):
        \/ MessageRow(db, x).key = NoKey
        \/ ~\E y \in InRange(db, f, store):
              MessageRow(db, y).key = MessageRow(db, x).key /\ Earlier(db, store, y, x)}

-----------------------------------------------------------------------------
(* Amounts: the tokens of each class, their cost, what the cache saved. *)

Amount(m) ==
    [fresh |-> m.tokens.fresh, cached |-> m.tokens.cached,
     cost |-> m.tokens.fresh * Price(m.model).fresh + m.tokens.cached * Price(m.model).cached]
TotalOf(f, S) == [c \in {"fresh", "cached", "cost"} |-> Summed([x \in S |-> f[x][c]], S)]
AmountOf(db, S) == TotalOf([x \in S |-> Amount(MessageRow(db, x))], S)
Saved(m) == m.tokens.cached * (Price(m.model).fresh - Price(m.model).cached)

(* accum: the amounts by date, project, agent and model. *)
AccumKey(db, f, store, x) ==
    [date |-> localDate(Stamp(db, x, store), f.zone), project |-> db[x[1]].project,
     agent |-> db[x[1]].agent, model |-> MessageRow(db, x).model]
Accum(db, f, store) ==
    LET billed == Dedup(db, f, store)
        keys == {AccumKey(db, f, store, x): x \in billed}
    IN [k \in keys |-> AmountOf(db, {x \in billed: AccumKey(db, f, store, x) = k})]

(* One slice of a day: the accumulated amounts grouped by one field. *)
Slice(accum, date, by) ==
    LET day == {k \in DOMAIN accum: k.date = date}
    IN [v \in {k[by]: k \in day} |-> TotalOf(accum, {k \in day: k[by] = v})]

(* An entry's own amounts are summed over its models on both paths. *)
Entry(accum, date, breakdowns) ==
    LET models == Slice(accum, date, "model")
        sum == TotalOf(models, DOMAIN models)
    IN IF breakdowns
       THEN [sum |-> sum, models |-> models, projects |-> Slice(accum, date, "project"),
             agents |-> Slice(accum, date, "agent")]
       ELSE [sum |-> sum, models |-> models]

DailyOf(accum, saved, breakdowns) ==
    LET daily == [d \in {k.date: k \in DOMAIN accum} |-> Entry(accum, d, breakdowns)]
    IN [daily |-> daily, totals |-> TotalOf([d \in DOMAIN daily |-> daily[d].sum], DOMAIN daily),
        saved |-> saved]

TotalSavings(db, billed) == Summed([x \in billed |-> Saved(MessageRow(db, x))], billed)

GetDailyUsage(db, f, store, breakdowns) ==
    DailyOf(Accum(db, f, store), TotalSavings(db, Dedup(db, f, store)), breakdowns)

(* Sessions by cost, dearest first and then by id, cut to the limit. *)
TopByCost(db, billed, limit) ==
    LET of == [s \in {x[1]: x \in billed} |-> AmountOf(db, {x \in billed: x[1] = s})]
        Dearer(s, t) == of[s].cost > of[t].cost \/ (of[s].cost = of[t].cost /\ s < t)
        ranked == SetToSortSeq(DOMAIN of, Dearer)
        max == IF limit <= 0 THEN 20 ELSE IF limit > 100 THEN 100 ELSE limit
    IN [i \in 1 .. (IF Len(ranked) > max THEN max ELSE Len(ranked)) |->
            [id |-> ranked[i], amount |-> of[ranked[i]]]]
GetTopSessionsByCost(db, f, store, limit) == TopByCost(db, Dedup(db, f, store), limit)

CountsOf(db, seen) ==
       [total |-> Cardinality(seen),
        byProject |-> [p \in {db[s].project: s \in seen} |->
                          Cardinality({s \in seen: db[s].project = p})],
        byAgent |-> [a \in {db[s].agent: s \in seen} |->
                          Cardinality({s \in seen: db[s].agent = a})]]
GetUsageSessionCounts(db, f, store) == CountsOf(db, {x[1]: x \in Dedup(db, f, store)})

(* The port, on the rows PostgreSQL holds. *)
pgBilled(db, f) == Dedup(db, f, "postgres")
pgAccum(db, f) == Accum(db, f, "postgres")
pgGetDailyUsage(db, f, breakdowns) ==
    DailyOf(pgAccum(db, f), TotalSavings(db, pgBilled(db, f)), breakdowns)
pgGetTopSessionsByCost(db, f, limit) == GetTopSessionsByCost(db, f, "postgres", limit)
pgGetUsageSessionCounts(db, f) == GetUsageSessionCounts(db, f, "postgres")

-----------------------------------------------------------------------------
(* The summary of the usage page. *)

(* foldProjectTotals, foldModelTotals, foldAgentTotals: the slices of all days. *)
Fold(daily, slice) ==
    LET On(v) == {d \in DOMAIN daily: v \in DOMAIN daily[d][slice]}
    IN [v \in UNION {DOMAIN daily[d][slice]: d \in DOMAIN daily} |->
          TotalOf([d \in On(v) |-> daily[d][slice][v]], On(v))]

(* The period of the same length that ends the day before. *)
PriorFilter(f) ==
    LET days == f.to - f.from + 1
    IN [f EXCEPT !.to = f.from - 1, !.from = f.from - 1 - (days - 1)]

handleUsageSummary(db, f, store) ==
    LET now == GetDailyUsage(db, f, store, TRUE)
    IN [totals |-> now.totals, daily |-> now.daily,
        projects |-> Fold(now.daily, "projects"), models |-> Fold(now.daily, "models"),
        agents |-> Fold(now.daily, "agents"),
        counts |-> GetUsageSessionCounts(db, f, store),
        saved |-> now.saved,
        prior |-> GetDailyUsage(db, PriorFilter(f), store, FALSE).totals]
=============================================================================
