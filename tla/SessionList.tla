---------------------------- MODULE SessionList ----------------------------
(***************************************************************************)
(* The queries a client lists the archive with: the session filter and its *)
(* tree of children, the signed cursor of the session list, the pages of   *)
(* the full text search, the counts beside them, and the links that later  *)
(* transcripts draw between sessions, while the archive changes between    *)
(* two pages.  The PostgreSQL store ports these queries; the definitions   *)
(* that begin with pg are its side, and a client reads from either store.  *)
(*                                                                         *)
(* A session id is a number, compared as the ids are.  A time stamp of 0   *)
(* is a NULL or empty column.                                              *)
(***************************************************************************)
EXTENDS Integers, Sequences, FiniteSets, SequencesExt, FiniteSetsExt, Ordering

CONSTANTS
    Sessions,       \* ids
    Archives,       \* what may be stored at first
    Rows,           \* what a parser may store for a session
    Filters,        \* what a client may ask for
    PageSize,       \* the limit of a request
    Day,            \* time units in a day
    ActiveWindow, StaleWindow,
    MaxTime, MaxWrites

Kinds == {"", "continuation", "subagent", "fork"}
Flagged == {"tool_call_pending", "truncated"}
Row == [stored : BOOLEAN, deleted : BOOLEAN, project : STRING, machine : STRING,
        agent : STRING, kind : Kinds, parent : Nat, started : Nat, ended : Nat,
        created : Nat, count : Nat, humans : Nat, automated : BOOLEAN,
        status : STRING, outcome : STRING, grade : STRING, failures : Nat,
        hit : Nat, named : BOOLEAN, ordinals : SUBSET Nat, calls : SUBSET Sessions]

ASSUME ListAssumption ==
    /\ Sessions \subseteq Nat \ {0} /\ IsFiniteSet(Sessions)
    /\ {PageSize, Day, ActiveWindow, StaleWindow} \subseteq Nat \ {0}
    /\ ActiveWindow < StaleWindow
    /\ {MaxTime, MaxWrites} \subseteq Nat
    /\ Rows \subseteq Row /\ \A r \in Rows : IsFiniteSet(r.ordinals)
    /\ \A a \in Archives :
          /\ a.rows \in [Sessions -> Row]
          /\ \A s \in Sessions : IsFiniteSet(a.rows[s].ordinals)

VARIABLES
    store,      \* the store that answers: "sqlite" or "postgres"
    rows,       \* its sessions table
    spawns,     \* pairs <<caller, callee>>: tool_calls.subagent_session_id
    fresh,      \* sessions written, or called by one written, since the last link
    passing,    \* a pass of the engine is writing
    now,
    writes,     \* what is left of MaxWrites
    reader      \* the client paging through a list

links == <<spawns, fresh>>
vars == <<store, rows, links, passing, now, writes, reader>>

Stored == {s \in Sessions : rows[s].stored}
NoRow == [stored |-> FALSE, deleted |-> FALSE, project |-> "", machine |-> "",
          agent |-> "", kind |-> "", parent |-> 0, started |-> 0, ended |-> 0,
          created |-> 0, count |-> 0, humans |-> 0, automated |-> FALSE,
          status |-> "", outcome |-> "", grade |-> "", failures |-> 0,
          hit |-> 0, named |-> FALSE, ordinals |-> {}, calls |-> {}]

NoFilter == [project |-> "", notProject |-> "", machines |-> {}, agents |-> {},
             from |-> 0, to |-> 0, since |-> 0, min |-> 0, max |-> 0, minHumans |-> 0,
             states |-> {}, oneShots |-> TRUE, automated |-> TRUE, outcomes |-> {},
             grades |-> {}, failures |-> 0, children |-> FALSE, recency |-> FALSE]

-----------------------------------------------------------------------------
(* One row against one filter.  An unset field of a filter is "", 0 or {}. *)

Coalesce(time, other) == IF time # 0 THEN time ELSE other
StartOf(r) == Coalesce(r.started, r.created)
Activity(r) == Coalesce(r.ended, StartOf(r))

IsChild(r) == r.kind \in {"subagent", "fork"}
Visible(r) == r.stored /\ r.count > 0 /\ ~r.deleted
Root(r) == Visible(r) /\ ~IsChild(r)

buildTerminationPredSQLite(states, r) ==
    LET idle == now - Activity(r)
        flagged == r.status \in Flagged
    IN  \/ states \cap {"active", "stale", "unclean", "clean", "awaiting_user"} = {}
        \/ "active" \in states /\ idle < ActiveWindow
        \/ "stale" \in states /\ flagged /\ ActiveWindow <= idle /\ idle < StaleWindow
        \/ "unclean" \in states /\ flagged /\ idle >= StaleWindow
        \/ \E state \in {"clean", "awaiting_user"} : state \in states /\ r.status = state

OneShotPred(f, r) ==
    f.oneShots \/ r.humans > 1 \/ (f.automated /\ r.automated)

FilterPreds(f, r) ==
    /\ f.project = "" \/ r.project = f.project
    /\ f.notProject = "" \/ r.project # f.notProject
    /\ f.machines = {} \/ r.machine \in f.machines
    /\ f.agents = {} \/ r.agent \in f.agents
    /\ f.from = 0 \/ StartOf(r) \div Day >= f.from
    /\ f.to = 0 \/ StartOf(r) \div Day <= f.to
    /\ f.since = 0 \/ Activity(r) >= f.since
    /\ f.min = 0 \/ r.count >= f.min
    /\ f.max = 0 \/ r.count <= f.max
    /\ f.minHumans = 0 \/ r.humans >= f.minHumans
    /\ buildTerminationPredSQLite(f.states, r)
    /\ f.automated \/ ~r.automated
    /\ f.outcomes = {} \/ r.outcome \in f.outcomes
    /\ f.grades = {} \/ r.grade \in f.grades
    /\ f.failures = 0 \/ r.failures >= f.failures

(* With children, the criteria hold of the roots only, and every session   *)
(* below a root comes with it.                                             *)
RootMatch(f, s) ==
    Root(rows[s]) /\ FilterPreds(f, rows[s]) /\ OneShotPred(f, rows[s])

MutTree(f) ==
    {s \in Sessions : Visible(rows[s]) /\
       (RootMatch(f, s) \/ \E p \in Stored : rows[s].parent = p /\ FilterPreds(f, rows[p]))}
Tree(f) ==
    LET level[n \in 0..Cardinality(Sessions)] ==
          IF n = 0 THEN {s \in Sessions : RootMatch(f, s)}
          ELSE LET above == level[n - 1]
               IN  above \cup {s \in Sessions : Visible(rows[s]) /\ rows[s].parent \in above}
    IN  level[Cardinality(Sessions)]
buildSessionFilter(f) ==
    IF f.children THEN Tree(f) ELSE {s \in Sessions : RootMatch(f, s)}

(* The port keeps the order of the predicates, the exemptions and the      *)
(* recursion; it parses the states and compares with the clock likewise.   *)
pgTerminationPred(states, r) == buildTerminationPredSQLite(states, r)
pgTree(f) == Tree(f)
buildPGSessionFilter(f) ==
    IF f.children THEN pgTree(f)
    ELSE {s \in Sessions : RootMatch(f, s) /\ pgTerminationPred(f.states, rows[s])}

Matching(f) == IF store = "postgres" THEN buildPGSessionFilter(f) ELSE buildSessionFilter(f)

-----------------------------------------------------------------------------
(* The session list.  Newest activity first, then by id; the cursor is the *)
(* last row of a page, and the total of the first page travels with it.    *)

NoCursor == [at |-> 0, id |-> 0, total |-> 0]
Key(s) == <<Activity(rows[s]), s>>
Before(a, b) == a[1] < b[1] \/ (a[1] = b[1] /\ a[2] < b[2])

EncodeCursor(s, total) == [at |-> Activity(rows[s]), id |-> s, total |-> total]

(* The total of an unsigned cursor is not trusted but counted again.       *)
DecodeCursor(c, signed) == IF signed THEN c ELSE [c EXCEPT !.total = 0]

MutBelow(matching, c) ==
    {s \in matching : c.id = 0 \/ Activity(rows[s]) < c.at}
Below(matching, c) ==
    {s \in matching : c.id = 0 \/ Before(Key(s), <<c.at, c.id>>)}

(* ORDER BY is InOrder; LIMIT cuts what it gives.                          *)
Shortest(a, b) == IF a < b THEN a ELSE b
FirstPage(seq) == SubSeq(seq, 1, Shortest(Len(seq), PageSize))

NewestFirst(set) == InOrder(set, [s \in set |-> {t \in set : Before(Key(s), Key(t))}])

PageOf(matching, c) ==
    LET total == IF c.total > 0 THEN c.total ELSE Cardinality(matching)
        found == NewestFirst(Below(matching, c))
    IN  [ids |-> FirstPage(found),
         next |-> IF Len(found) <= PageSize THEN NoCursor
                  ELSE EncodeCursor(found[PageSize], total)]

(* Microseconds are the resolution of the columns of the port, and of the  *)
(* time stamps it writes into its cursors.                                 *)
ListSessions(f, c) == PageOf(buildSessionFilter(f), c)
pgListSessions(f, c) == PageOf(buildPGSessionFilter(f), c)
List(f, c) == IF store = "postgres" THEN pgListSessions(f, c) ELSE ListSessions(f, c)

-----------------------------------------------------------------------------
(* The search: the best message of each session, then the sessions that    *)
(* match by name only.  Its cursor is an offset.                           *)

EndOf(r) == Coalesce(r.ended, r.started)
Found(f) ==
    {s \in Stored : /\ ~rows[s].deleted
                    /\ f.project = "" \/ rows[s].project = f.project
                    /\ rows[s].hit > 0 \/ rows[s].named}

Rank(s) == IF rows[s].hit > 0 THEN rows[s].hit ELSE 99
SearchOrder(f, s, t) ==
    LET newer == \/ EndOf(rows[s]) > EndOf(rows[t])
                 \/ EndOf(rows[s]) = EndOf(rows[t]) /\ s < t
    IN  IF f.recency THEN newer
        ELSE Rank(s) < Rank(t) \/ (Rank(s) = Rank(t) /\ newer)

BestFirst(f) == InOrder(Found(f), [s \in Found(f) |-> {t \in Found(f) : SearchOrder(f, t, s)}])

PageFrom(f, offset) ==
    LET found == BestFirst(f)
        rest == SubSeq(found, offset + 1, Len(found))
    IN  [ids |-> FirstPage(rest),
         next |-> IF Len(rest) > PageSize THEN offset + PageSize ELSE 0]

(* The index ranks a message; the port, which has none, ranks it by where  *)
(* the term stands in it.  Both put the names last.                        *)
Search(f, offset) == PageFrom(f, offset)
pgSearch(f, offset) == PageFrom(f, offset)
Find(f, offset) == IF store = "postgres" THEN pgSearch(f, offset) ELSE Search(f, offset)

-----------------------------------------------------------------------------
(* The counts of the sidebar.                                              *)

Countable(oneShots, automated) ==
    {s \in Sessions : /\ Root(rows[s])
                      /\ OneShotPred([oneShots |-> oneShots, automated |-> automated], rows[s])
                      /\ automated \/ ~rows[s].automated}
CountBy(set, field) ==
    [v \in {rows[s][field] : s \in set} |-> Cardinality({s \in set : rows[s][field] = v})]

MutGetProjects(oneShots, automated) ==
    CountBy({s \in Countable(TRUE, automated) : oneShots \/ rows[s].humans > 1}, "project")
GetProjects(oneShots, automated) == CountBy(Countable(oneShots, automated), "project")

GetAgents(oneShots, automated) ==
    CountBy({s \in Countable(oneShots, automated) : rows[s].agent # ""}, "agent")

(* The port of the counts.                                                 *)
pgGetProjects(oneShots, automated) == CountBy(Countable(oneShots, automated), "project")
pgGetAgents(oneShots, automated) ==
    CountBy({s \in Countable(oneShots, automated) : rows[s].agent # ""}, "agent")

(* Machines are counted by another rule: of every session not in the trash.*)
GetMachines(oneShots, automated) ==
    {rows[s].machine : s \in
        {t \in Stored : /\ ~rows[t].deleted
                        /\ OneShotPred([oneShots |-> oneShots, automated |-> automated], rows[t])
                        /\ automated \/ ~rows[t].automated}}

Totals(set) ==
    [sessions |-> Cardinality(set),
     messages |-> MapThenSumSet(LAMBDA s : rows[s].count, set),
     projects |-> Cardinality({rows[s].project : s \in set}),
     machines |-> Cardinality({rows[s].machine : s \in set})]

GetStats(oneShots, automated) == Totals(Countable(oneShots, automated))

(* The port.                                                               *)
pgGetStats(oneShots, automated) == Totals(Countable(oneShots, automated))

pgGetMachines(oneShots, automated) == GetMachines(oneShots, automated)

-----------------------------------------------------------------------------
(* The messages of a session.  Ordinals may have gaps: messages are dropped*)
(* after they were numbered.                                               *)

pgGetMessages(s, from, asc) ==
    LET within == {o \in rows[s].ordinals : IF asc THEN o >= from ELSE o <= from}
    IN  FirstPage(InOrder(within, [o \in within |-> {p \in within : IF asc THEN p < o ELSE p > o}]))

GetMessages(s, from, asc) ==
    LET within == {o \in rows[s].ordinals : IF asc THEN o >= from ELSE o <= from}
    IN  FirstPage(InOrder(within, [o \in within |-> {p \in within : IF asc THEN p < o ELSE p > o}]))

(* The loader of the SDK stops at a short page, or once the next ordinal   *)
(* reaches the message count of the session row.                           *)
MutLoaderStops(page, expected) == Last(page) >= expected - 2 \/ Len(page) < PageSize
LoaderStops(page, expected) == Last(page) + 1 >= expected \/ Len(page) < PageSize

-----------------------------------------------------------------------------
(* The client.                                                             *)

NoReader == [kind |-> "idle", filter |-> NoFilter, cursor |-> NoCursor, offset |-> 0,
             session |-> 0, expected |-> 0, got |-> <<>>, steady |-> {}]

(* What a client that began to page may rely on, whatever else happens:    *)
(* for a list, the sessions that went on to match and did not move; for    *)
(* offsets, that nothing changed; for messages, that the session did not.  *)
Observe ==
    \E f \in {reader.filter} : reader' = [reader EXCEPT !.steady =
        CASE reader.kind = "list" -> {s \in @ : Key(s)' = Key(s)} \cap Matching(f)'
          [] reader.kind = "search" -> IF rows' = rows THEN @ ELSE {}
          [] reader.kind = "messages" ->
               IF rows'[reader.session] = rows[reader.session] THEN @ ELSE {}
          [] OTHER -> @]

OpenList(f) ==
    LET page == List(f, NoCursor)
    IN  /\ reader.kind = "idle"
        /\ reader' = [NoReader EXCEPT !.kind = IF page.next = NoCursor THEN "done" ELSE "list",
                         !.filter = f, !.cursor = page.next, !.got = page.ids,
                         !.steady = Matching(f)]
        /\ UNCHANGED <<store, rows, links, passing, now, writes>>

NextListPage(signed) ==
    LET page == List(reader.filter, DecodeCursor(reader.cursor, signed))
    IN  /\ reader.kind = "list"
        /\ reader' = [reader EXCEPT !.kind = IF page.next = NoCursor THEN "done" ELSE "list",
                         !.cursor = page.next, !.got = @ \o page.ids]
        /\ UNCHANGED <<store, rows, links, passing, now, writes>>

OpenSearch(f) ==
    /\ reader.kind = "idle"
    /\ reader' = [NoReader EXCEPT !.kind = "search", !.filter = f, !.steady = Found(f)]
    /\ UNCHANGED <<store, rows, links, passing, now, writes>>

NextSearchPage ==
    LET page == Find(reader.filter, reader.offset)
    IN  /\ reader.kind = "search"
        /\ reader' = [reader EXCEPT !.kind = IF page.next = 0 THEN "done" ELSE "search",
                         !.offset = page.next, !.got = @ \o page.ids]
        /\ UNCHANGED <<store, rows, links, passing, now, writes>>

OpenMessages(s) ==
    /\ reader.kind = "idle"
    /\ rows[s].stored /\ ~rows[s].deleted
    /\ reader' = [NoReader EXCEPT !.kind = "messages", !.session = s,
                     !.expected = rows[s].count, !.steady = rows[s].ordinals]
    /\ UNCHANGED <<store, rows, links, passing, now, writes>>

NextMessagePage ==
    LET page == IF store = "postgres" THEN pgGetMessages(reader.session, reader.offset, TRUE)
                ELSE GetMessages(reader.session, reader.offset, TRUE)
    IN  /\ reader.kind = "messages"
        /\ reader' = IF page = <<>> THEN [reader EXCEPT !.kind = "done"]
                     ELSE [reader EXCEPT !.got = @ \o page, !.offset = Last(page) + 1,
                             !.kind = IF LoaderStops(page, reader.expected)
                                      THEN "done" ELSE "messages"]
        /\ UNCHANGED <<store, rows, links, passing, now, writes>>

CloseReader ==
    /\ reader.kind = "done"
    /\ reader' = NoReader
    /\ UNCHANGED <<store, rows, links, passing, now, writes>>

-----------------------------------------------------------------------------
(* The engine: a pass upserts what it parsed, the parser's parent and kind *)
(* included.  It links the spawned sessions after its files and again at   *)
(* its end, but it may be interrupted before, the link may fail, and the   *)
(* pass of a single session that only appends does not link at all.        *)

BeginPass ==
    /\ ~passing
    /\ passing' = TRUE
    /\ UNCHANGED <<store, rows, links, now, writes, reader>>

(* A parsed session ends at the time of its last line.                     *)
UpsertSession(s, r) ==
    /\ passing
    /\ writes > 0
    /\ ~rows[s].deleted
    /\ r.parent # s /\ s \notin r.calls
    /\ rows' = [rows EXCEPT ![s] = [r EXCEPT !.stored = TRUE,
                                      !.ended = IF @ = 0 THEN 0 ELSE now]]
    /\ writes' = writes - 1
    /\ spawns' = {p \in spawns : p[1] # s} \cup ({s} \X r.calls)
    /\ fresh' = fresh \cup {s} \cup r.calls
    /\ UNCHANGED <<store, passing, now>>
    /\ Observe

Linked(s) == rows[s].kind # "subagent" /\ \E p \in spawns : p[2] = s

\* Mutant: only a session that its parser gave no parent is linked.
MutLinkSubagentSessions ==
    /\ passing
    /\ \E caller \in [Sessions -> Sessions] :
          /\ \A s \in Sessions : Linked(s) => <<caller[s], s>> \in spawns
          /\ \A s \in Sessions : ~Linked(s) => caller[s] = s
          /\ rows' = [s \in Sessions |->
                        IF rows[s].stored /\ Linked(s) /\ rows[s].parent = 0
                        THEN [rows[s] EXCEPT !.kind = "subagent", !.parent = caller[s]]
                        ELSE rows[s]]
    /\ fresh' = {}
    /\ UNCHANGED <<store, spawns, passing, now, writes>>
    /\ Observe
LinkSubagentSessions ==
    /\ passing
    /\ \E caller \in [Sessions -> Sessions] :
          /\ \A s \in Sessions : Linked(s) => <<caller[s], s>> \in spawns
          /\ \A s \in Sessions : ~Linked(s) => caller[s] = s
          /\ rows' = [s \in Sessions |->
                        IF rows[s].stored /\ Linked(s)
                        THEN [rows[s] EXCEPT !.kind = "subagent", !.parent = caller[s]]
                        ELSE rows[s]]
    /\ fresh' = {}
    /\ UNCHANGED <<store, spawns, passing, now, writes>>
    /\ Observe

EndPass ==
    /\ passing
    /\ passing' = FALSE
    /\ UNCHANGED <<store, rows, links, now, writes, reader>>

Trash(s) ==
    /\ rows[s].stored
    /\ writes > 0
    /\ rows' = [rows EXCEPT ![s].deleted = ~@]
    /\ writes' = writes - 1
    /\ UNCHANGED <<store, links, passing, now>>
    /\ Observe

Tick ==
    /\ now < MaxTime
    /\ now' = now + 1
    /\ UNCHANGED <<store, rows, links, passing, writes>>
    /\ Observe

Init ==
    /\ \E a \in Archives : store = a.store /\ rows = a.rows
    /\ spawns = {p \in Sessions \X Sessions : p[2] \in rows[p[1]].calls}
    /\ fresh = Sessions
    /\ passing = FALSE
    /\ now = 1
    /\ writes = MaxWrites
    /\ reader = NoReader

Client ==
    \/ \E f \in Filters : OpenList(f)
    \/ \E recent \in BOOLEAN : OpenSearch([NoFilter EXCEPT !.recency = recent])
    \/ \E signed \in BOOLEAN : NextListPage(signed)
    \/ \E s \in Sessions : OpenMessages(s)
    \/ NextSearchPage
    \/ NextMessagePage
    \/ CloseReader

Engine ==
    \/ BeginPass
    \/ \E s \in Sessions, r \in Rows : UpsertSession(s, r)
    \/ LinkSubagentSessions
    \/ EndPass

Next == Client \/ Engine \/ Tick \/ \E s \in Sessions : Trash(s)

Spec == Init /\ [][Next]_vars

-----------------------------------------------------------------------------
(* Properties.                                                             *)

(* A client that reads page after page, while passes write, sessions are   *)
(* trashed and restored and windows of activity expire, gets every session *)
(* that matched all the time and did not move, exactly once, also when     *)
(* many sessions share a time stamp.  A search does so only while nothing  *)
(* changes: its cursor is an offset.                                       *)
Times(x) == Cardinality({i \in DOMAIN reader.got : reader.got[i] = x})
PagesMissNothing ==
    /\ reader.kind = "done" /\ reader.session = 0 => \A s \in reader.steady : Times(s) = 1
    /\ \A s \in reader.steady : Times(s) <= 1

(* What the SDK reads of a session that does not change is a prefix of its *)
(* messages, in order, and all of them when the session's count is not     *)
(* less than its ordinals.                                                 *)
TranscriptIsAPrefix ==
    reader.session # 0 /\ reader.steady # {} =>
        /\ \A i, j \in DOMAIN reader.got : i < j => reader.got[i] < reader.got[j]
        /\ \A o \in reader.steady, i \in DOMAIN reader.got :
              o < reader.got[i] => o \in Range(reader.got)
        /\ reader.kind = "done" /\ reader.expected > Max(reader.steady) =>
              reader.steady \subseteq Range(reader.got)

(* "Every included row has a full parent chain back to a root that passes  *)
(* the filter": no set of listed sessions holds itself up without a root;  *)
(* everything visible below a listed session is listed; and asking for     *)
(* children takes no root away.                                            *)
ChildrenHaveRoots ==
    \A f \in Filters :
        LET tree == Tree(f)
            roots == {s \in Sessions : RootMatch(f, s)}
        IN  /\ roots \subseteq tree
            /\ \A X \in SUBSET (tree \ roots) :
                  X # {} => \E s \in X : rows[s].parent \in tree \ X
            /\ \A s \in Sessions : Visible(rows[s]) /\ rows[s].parent \in tree => s \in tree

(* The counts beside the list agree with the list they stand beside, for   *)
(* all four settings of the one-shot and automated switches.               *)
SidebarAgrees ==
    \A one \in BOOLEAN, auto \in BOOLEAN :
        LET listed == Matching([NoFilter EXCEPT !.oneShots = one, !.automated = auto])
            projects == IF store = "postgres" THEN pgGetProjects(one, auto)
                        ELSE GetProjects(one, auto)
            agents == IF store = "postgres" THEN pgGetAgents(one, auto)
                      ELSE GetAgents(one, auto)
            stats == IF store = "postgres" THEN pgGetStats(one, auto) ELSE GetStats(one, auto)
            machines == IF store = "postgres" THEN pgGetMachines(one, auto)
                        ELSE GetMachines(one, auto)
        IN  /\ stats.sessions = Cardinality(listed)
            /\ MapThenSumSet(LAMBDA p : projects[p], DOMAIN projects) = stats.sessions
            /\ MapThenSumSet(LAMBDA a : agents[a], DOMAIN agents) =
                  Cardinality({s \in listed : rows[s].agent # ""})
            /\ Cardinality(DOMAIN projects) = stats.projects
            /\ stats.machines <= Cardinality(machines)

(* Once a link has succeeded, a session that another one called is listed  *)
(* below a caller, or as what its own parser called a subagent.  Until the *)
(* next link only what was written since may stand apart, and what that    *)
(* calls, however many passes end without one.                             *)
SpawnedAreLinked ==
    \A p \in spawns : rows[p[2]].stored /\ p[2] \notin fresh => rows[p[2]].kind = "subagent"

(* A listed tree is whole: it hangs on listed roots, takes in everything   *)
(* below them, and since the last link that succeeded no session stands    *)
(* apart from the one that called it, unless it or that one was written.   *)
TreesAreWhole == ChildrenHaveRoots /\ SpawnedAreLinked

=============================================================================
