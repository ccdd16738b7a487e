# Verification of ca-session-source

ca-session-source reads the transcripts that coding agents leave on disk,
keeps them in a SQLite archive, and serves the archive over HTTP, an event
stream and a push to PostgreSQL. This directory holds TLA+ models of it, TLC
configurations that check them on small instances, and proofs that TLAPS checks
for every instance.

Every definition is translated from the source. `PROJECT.json` names for each
one the lines it stands for, for each property a plausible bug that breaks it
(the operators called `Mut...`, which stand before the definition they alter and
are used by no specification), and the hazards the properties are for.

To check a module: `tlc -config Pipeline.cfg MCPipeline.tla`, and for the
proofs `tlapm SourceFeedProofs.tla`.

## 1. The system

```
 agents' files --> watcher / periodic pass --> sync engine --> SQLite archive --> lists, reports
                                                |    ^             |     |
                                          Emit  |    | sync now    |     +--> PostgreSQL push
                                                v    |             v
                                          Broadcaster ------> scope event adapter
                                                |                  |
                                          /api/v1/events    source event feed
                                          (browser)         /api/source/v1/events (SDK)
```

For each part: its state and operations, what is hard about it, and what makes
it correct.

**Files and layouts** (`internal/parser/discovery.go`, `types.go`,
`internal/sync/engine.go` `classifyOnePath`, `watcher.go`). The engine knows the
layout of every agent three times: to list the files of a full pass, to say what a
changed path means, and to go from a session id to its file. Hard: the three are
written apart; one conversation may have two files; directories appear before
they are watched. Correct when the three agree, and whatever was announced is
read.

**Sync engine** (`internal/sync/engine.go`). A pass under `syncMu`: workers, a
collector that writes batches, the agents with a database of their own, the skip
cache, and the emit after the lock. Hard: cancellation with results in flight,
failures of one file, restarts, a quick pass with a cutoff. Correct when it ends,
leaves no goroutine, announces what it stored, and never puts back an older version.

**Ingestion of a file** (`engine.go`, `internal/parser`, `internal/db`). The
sessions row (size, mtime, inode, count, parser version), the messages rows, the
skip cache. Skip check, incremental parse from the stored offset, full parse, and
two write orders. Hard: the agent appends between any two steps and in the middle of
a line, writes fail one by one, the process dies between them, the file is
replaced, the parser upgraded. Correct when every line is stored once, in order.

**Transcripts** (`internal/parser`). What the lines say: merged snapshots,
branches of the Claude conversation graph, subagent reports of Codex, tool
results that come later than their calls, and some twenty formats. Hard: the
incremental parser sees only the new lines. Correct when the rows are the same as
those of a parse of the whole file.

**Signals** (`internal/signals`, `sync/signal_compute.go`). Scores derived from
the rows by every sync, by a backfill and by a job for recent sessions, without a
common lock. Correct when in the end they follow from the rows.

**Archive** (`internal/db/sessions.go`, `orphaned.go`, `engine.go` `ResyncAll`).
Names, stars, pins, trash, permanent deletion; a resync builds a second file,
copies the user's decisions and renames it over the first. Hard: user writes to a
part already copied, aborts, crashes around the rename, parser upgrades. Correct
when nothing deleted returns, and no session and no decision is lost.

**Queries** (`internal/db/sessions.go`, `search.go`, `internal/postgres`). The
session filter and its tree of children, the cursor, pages of search and
transcript, the counts beside them, and their PostgreSQL ports. Hard: the archive
changes between two pages. Correct when a session that stays put is neither missed
nor repeated and the counts agree with the list.

**Reports** (`internal/db/analytics.go`, `usage.go`, `trends.go`, `activity.go`,
`timing.go`, `session_stats.go`, and their ports). Hard: local dates over UTC bounds,
messages replayed by forks and resumed sessions, two implementations of
each. Correct when the panels account for each session and message once, and
agree with each other and with their ports.

**PostgreSQL push** (`internal/postgres/push.go`). A watermark, fingerprints of
the rows pushed last, one transaction per batch. Hard: the engine of another process
writes meanwhile, one session fails, a crash between the two final writes, filtered
pushes share the watermark, the server is reset. Correct when no changed session is
taken for pushed.

**Session watch** (`internal/sessionwatch`). Polls one session for a client and
syncs it directly after a delay. Correct when a client is told of every change.

**Refresh broadcaster** (`internal/server/broadcaster.go`). Subscribers' channels,
the last emit, a pending event, a timer and its generation. Hard: a callback
that has fired waits for the mutex past the emit that cancelled it; full buffers
drop. Correct when no wake-up is lost and broadcasts keep their distance.

**Source event feed** (`internal/server/source_events.go`) and **scope event
adapter** (`internal/source/event_adapter.go`). One upstream for all clients, with
generations and eviction of slow ones; behind it a paged snapshot that is compared
with the archive at each wake-up. Hard: a stale run still ends while a new one
serves; nothing isolates the snapshot from the engine. Correct when a client
gets everything or sees its stream end, and every message is announced once.

**Not modelled**: see section 8.

### How the parts interact

* `syncMu` serialises passes, and a pass emits after unlocking it, so the emits of
  two passes may come in the other order than their commits. `db.mu` serialises
  writes; reads are not serialised, and no read spans two statements.
* The database is the only state that engine, adapter, queries and push share. The
  push runs in another process and sees commits only.
* The adapter subscribes to the Broadcaster through a relay with a channel of
  eight that blocks rather than drops: a wake-up is lost only if the Broadcaster
  loses it, which `Signal`, the specification the Broadcaster implements, excludes. The feed owns at most one adapter
  and gives it a context of its own; the adapter ends by closing its channel.

## 2. Modules

| Module | Part | Composed with |
|---|---|---|
| `Signal` | abstract: every client is told that something changed since | implemented by `Broadcaster` |
| `Broadcaster` | broadcaster, its timer, its clients | |
| `SourceFeed` | feed, its runs and clients | |
| `ScopeEventAdapter` | adapter | a writer with both of the engine's write orders |
| `SessionIngest` | one file, a pass, its rows | agent, failures, crashes, upgrades |
| `Discovery` | 19 layouts, watcher, stamps | agents that write, watcher, three kinds of pass |
| `Mirror` | abstract: the archive follows the sources | implemented by `Pipeline` |
| `Pipeline` | passes, workers, collector, session watch | watcher, ticker, clients, restarts |
| `ClaudeTranscript`, `CodexTranscript`, `OpenCodeTranscript`, `AgentTranscripts` | parsers as operators | instantiated by `Transcripts` |
| `SessionSignals` | scores as operators | instantiated by `Transcripts` |
| `Transcripts` | sync of a growing file, the two signal jobs | the five above |
| `Library` | abstract: sessions, decisions and files, no resync | implemented by `Archive` |
| `Archive` | user decisions, passes, resync | |
| `PgPush` | push, its watermark, the copy | engine, user, server reset |
| `Ordering` | `ORDER BY` as an operator | extended by `SessionList` and `ReportRows` |
| `SessionList` | lists, trees, cursors, pages, links | passes and users between two pages |
| `ReportRows` | calendars, filters, arithmetic of the reports | extended by the next five |
| `Analytics`, `Usage`, `Trends`, `SessionReports`, `SessionStats` | the reports and their ports, as operators | used by `Dashboard` |
| `Dashboard` | an archive that changes, a page with its query | all reports |

`MC...` modules give the constants of a run, `...Proofs` modules hold theorems
about the module of the same name: `BroadcasterProofs`, `SourceFeedProofs`,
`ScopeEventAdapterProofs`, `SessionIngestProofs`, `PipelineProofs`,
`ArchiveProofs`, `PgPushProofs`, `SessionListProofs`.

### Broadcaster, SourceFeed, ScopeEventAdapter

A method that runs under a mutex is one action. In `Broadcaster`, `Fire` is the
runtime starting a due callback: `b.timer` keeps its value and the callback joins
`callbacks` until it gets the mutex. Time counts ticks and saturates at
`MinInterval`. `Signal` is what the Broadcaster promises: the passes that owe an emit, the
listeners that took no wake-up since the last commit, and the wake-ups on their way to each,
which may merge but of which the last may not vanish. `EmitIsASignal` says that
`Broadcaster` implements it; `Waiting`, the signals in a buffer and the pending
event, is the mapping. In `SourceFeed` an event is the version of the source it
announces; `broadcast` includes the removal of all clients with a full buffer and,
if none is left, the stop of the run. A cancelled adapter may still announce, since
`select` picks freely. `Close` has no caller and is left out. `ScopeEventAdapter`
has a step per database statement and per send; a session is its message count
and the time of its last change. It is one listener of a `Signal`: `signal` counts
the wake-ups under way to it, which may merge and may come late, as the rate
limit makes them. `behind`, `casts`, `sinceCast`, `known`, an
event's `at` and `adapter.mark` are history.

### SessionIngest

A line is its kind, sizes count half lines, and a line may be written in two
halves. Stat, read and each write are separate steps: `processFile`, `incRead`,
`incMessages`, `UpdateSessionIncremental`; `fullStat`, `fullRead`,
`UpsertSession`, `writeMessages`, `SetSessionDataVersion`. `Parse` is the parser on a
range of lines: merging, numbering, pairing of results, and the filter that drops
result-only messages after the numbering. `Worlds` says what may happen around the
engine. What the lines say, forks and signals belong to `Transcripts`; `Upgrade`
stands for rows of an older parser as an aborted resync leaves them.

### Discovery

A path is a sequence of names, a name a prefix, a stem and an extension. `Discover`,
`Classify` and `Find` are the three statements of each layout; `handleEvent`,
`flush`, `SyncPaths`, `SyncAll` and `SyncSingleSession` use them over a tree that
the agent changes; OpenCode and OpenHands only add to theirs, and what a removed path of
theirs means is checked without it being read. A row remembers which files it was read from, and when.

### Pipeline and Mirror

A pass is a record: files to feed, the jobs and results channels, the workers'
hands, what is pending for the batch, its phase. Contents are versions. `Begin`
takes `syncMu`, `Receive` is one result at the collector, `Notice` and
`drainResults` the cancellation, `syncStore` and `writeSessionFull` the agents
with databases, `End` the skip cache and the unlock, `emit` the signal.
`Watching`, `Open` and `Close` are the session watch. A write commits the session's row
(`row`) and its messages (`stored`) apart, and may break off between the two or before them,
in a batch, at the collector (an incremental write stores messages first), and for a session of a
database: `torn` are the sources this happened to, which count as failures, are not
signalled, and may look up to date. `Mirror` is the abstract
specification: a step may store one source, at a version it has had since the one
stored last. `M` and `R`, two instances of it, map the messages and the rows to it, and
`FollowsTheSources` says that `Pipeline` implements both: checked by the run for one
instance and proved for all in `PipelineProofs`.

### Transcripts

Each parser is an operator from lines to rows, and where the code has an
incremental parser that is one too. A world is an agent and the lines it may
write; a sync parses the whole file or the new lines, then writes rows and signals
in transactions of their own; `JobStarts`, `JobLoads` and `JobStores` are the
backfill and the job for recent sessions. The agents' writes keep to what the agents
do: call ids are unique in a Codex file, a record Gemini tells again extends the
text, VS Code answers its last request, an OpenCode file hangs on one that is there.

### Archive, PgPush

`Archive` has the two database files, the user's operations and every copy of
`ResyncAll` as a step. `Library` is what the user may rely on: a set of sessions, the user's
decisions about each, the files; a step is a decision, a change of a file, or an update
from a file, and there is no second database. `ResyncIsInvisible` says that `Archive`
implements it, so that a resync shows as nothing or as updates. `PgPush` has the local rows with their stamps in
milliseconds, the two values of the push state, and the copy. A row is compared
as a whole: its `body` stands for the columns a parse sets, its `name` for those a
user sets. A round trip to PostgreSQL is assumed to take a millisecond or more.

### SessionList and the reports

`SessionList` has a clock, rows with stamps, and a client's page; `pg...` are the
ports. In the reports the archive is a function from ids to rows that hold their
messages, and a report is an operator over an archive and a filter; time counts
ticks, a zone is its offsets before and after one change of the clock, months
have four weeks. `ORDER BY` is `InOrder` of `Ordering`: an element's place is the number of those that come
before it, which is a definition the provers can use. `Dashboard` lets passes and users change the archive and opens
pages. What costs most is passed as a parameter and not named by `LET`.

## 3. Runs

| Run | Instance | States | Question |
|---|---|---|---|
| `broadcaster` | 2 clients, 2 scopes, buffers of 2, interval 2, 4 commits | 31 thousand | Is a wake-up lost, or the rate limit broken? |
| `source_feed` | 2 clients, buffers of 1, 3 changes, 3 generations | 86 thousand | One feed, no gap, no leak? |
| `scope_adapter` | 2 sessions, one with a gap in its ordinals, pages and windows of 1, 3 writes, a fault | 507 thousand | Is everything announced once, in order? |
| `ingest` | 5 worlds, files of up to 5 lines | 1.1 million | Do the rows follow the file? |
| `transcripts` | 22 worlds of 18 agents, 3 to 5 lines each | 351 thousand | Do the rows say what the file says, and the signals what the rows say? |
| `codex_updates_lost` | one Codex world | violation | Does the full parse appended lines ask for replace the rows? |
| `discovery` | 19 agents, up to 3 files, 3 writes | 40 thousand | Is what is announced, listed or named the same, and read? |
| `pipeline` | 2 files, a database agent, 6 sets of callers, 1 or 2 changes, a fault, a cancellation or restart | 203 thousand | Does a pass end clean, and the archive follow? |
| `archive` | 2 sessions, 3 worlds | 503 thousand | Does a resync or a pass undo a decision or lose a session? |
| `pg_push` | 2 sessions, 4 ms, 4 worlds | 1.8 million | Is a changed session taken for pushed? |
| `session_list` | 3 sessions, 3 archives, 4 filters, pages of 1, 2 writes | 252 thousand | Do pages, trees and counts fit together? |
| `dashboard` | 3 sessions, 24 queries around midnights of 4 zones | 6 thousand | Do the reports account for everything once, in both stores? |

Each property is stated with the code it is about above its definition.

`broadcaster`: `EmitIsASignal` (the refinement of `Signal`: a client that was sent nothing
since the last commit has a signal buffered, pending or still to be emitted),
`RateLimited`, `EveryClientIsSignalled`. Buffers of two show the drop, an interval of two the
coalescing and a callback that overlaps the next timer, four commits the third
timer after two generations.

`source_feed`: `FeedIsWhole` (registered clients are those with an open channel, one
adapter at most is live, and it serves them), `NothingSkipped`, `ClientsCatchUp`,
`NothingLeaks`. Two clients let one leave while the other joins a new run; three
generations hold one run that ends, one cancelled and one live.

`scope_adapter`: `LogIsSound` (messages in order, and again only after their session was told
as new, or behind a gap; a session is told as new only if it is,
and again only for a later state), `CaughtUp`, `EveryMessageIsAnnounced`. With pages of one a session
moves between two loads; windows of one make two messages two reads; three writes
reach each of these; a wake-up may merge with the next one or come after the write that
follows it. One session's ordinals are 0, 2 and 3, as when a result that fills a message of
its own is stored with its call, and a full write may find no new messages.

`ingest`: `RowsFollowTheFile` (a file the engine would skip is stored as a parse of
all of it would be, no line twice, and the count is the rows), `LinesAreKept` and
`CatchesUp` hold in four worlds: a file without tool results that grows while passes fail and
die, is touched, and the parser is upgraded; one with results and commands, under the same but
touches; a finished one under failures and crashes at every step; one written in parts of lines.
`Gentle` names such worlds, and section 5 what they leave out. The fifth is the storm, everything
at once, in which only `OrdinalsAreUnique` is asked: no path ever relies on the unique index to
fail an insert. Five lines hold a response in three parts split over two passes between
two other lines.

`transcripts`: `RowsAreOfTheFile` (the rows of a Codex file appended line by line are
those of a parse of the whole; for the other agents the rows are the file's, of which a
text may be a prefix where the agent tells a record again), `ConversationIsWhole`
(a parse tells every line once, and forks hang on what they left), `NothingIsMissed`
(every message of a Claude file that was synced is stored in some session),
`SignalsAreDerived` and `PendingResolves` (a session judged too early is judged
again). `forkThreshold` is 1 instead of 3, so that four lines make a branch long.

`discovery`: `WaysAgree` (what is listed, what a changed path is taken for, and what
is found from a session id are the same), `AnnouncedIsRead` (after a flush the rows are of the files as
they are, companions outside the stamp apart), `EverySourceIsRead`. Three writes are a companion, a twin, and a change
to either.

`pipeline`: `WorkersAreCollected`, `ChangesAreSignalled`, `FollowsTheSources`,
`EverySourceIsStored`, `WatchIsTold`. One worker and channels of one give every
order in which a feeder, a worker and the collector can block; the code
has two workers and more. Sets of callers run together because the lock lets only
two at a time interfere, and full passes are one at a time under it: the watcher beside the quick
pass, the session watch beside the watcher and beside the periodic pass; and the watch, the
periodic pass and the requested one, alone. There are two changes after the first for the watch
with the watcher and for the watch and the periodic pass alone; one change, for the others. `ChangesAreSignalled` and `EverySourceIsStored` leave out
what is `torn`, `WatchIsTold` the one attempt of a watch that fails.

`archive`: `UserDecides` (what was deleted for good stays away, whatever copies race it,
and names, stars and trash are as the user left them), `NothingLost` (no
session leaves the archive but by the user's hand), `ResyncIsInvisible` (the refinement of
`Library`). Edits race the copies in one world, with one deletion; deletion during a copy needs one
session; orphans beside files need two.

`pg_push`: `NothingMissed` (a settled session that differs from the copy is due for
the next push) and `DoneMeansMirrored`. Four milliseconds hold a change in the same
millisecond as the cutoff, before it and after it. Two sessions make one fail
beside one that succeeds.

`session_list`: `PagesMissNothing` (a session that matches throughout is on exactly
one page), `TranscriptIsAPrefix`, `TreesAreWhole` (a listed tree hangs on
listed roots and takes in everything below; who was called is below a caller since the last link
that succeeded, unless one of the two was written), `SidebarAgrees`. A pass may end without a link. Pages of one put a change
between any two of three sessions.

`dashboard`: `PanelsCoverTheWindow` (the padded UTC bounds of a query hold every row of its
local days, the panels and the sections of the statistics add up to what was selected, and
the days of a range meet without gap or overlap), `UsageIsBilledOnce` (of messages told
again by a fork or a resumed session one is billed, in either store, and every breakdown
comes to what was billed), `StoresAgree` (SQLite and PostgreSQL give the same report
wherever the inputs are `Comparable`), `ReportsAreComplete` (the top sessions, the days and
the period before come to the same amounts, what a day bills alone and another day of the window
bills under an earlier stamp set aside; the session reports and trends account for every
message). One session replays another, one is a subagent or
another agent's without stamps; a replay may be stamped on the next day; sessions lie around midnight of UTC, UTC+14, UTC-12
and a zone whose clock changes. `HourLength` is 12 ticks, so that five minutes, the
pause that ends a turn's activity, is one.

Deadlock is not checked where the system really stops: when the writes of the
instance are made and delivered. It is checked in `broadcaster`.

## 4. Fairness

* `Broadcaster`: due timers run, time passes, a waiter of `b.mu` obtains it (no
  method blocks inside), handlers drain.
* `SourceFeed`: goroutines of runs and handlers continue. A live adapter announces; a
  cancelled one may stop. Nothing makes clients connect or the source change.
* `ScopeEventAdapter`: a pass that began is finished, the adapter and the reader of
  its channel continue. Nothing makes a pass begin, a read fail, a context end.
* `SessionIngest`: `WF(Pass)`: the fifteen-minute pass returns to every file. An
  agent completes a line it began; nothing obliges it to write another.
* `Discovery`: `WF` of `handleEvent`, `flush` and `SyncAll`.
* `Pipeline`: `SF` of what each caller does of its own accord (`Goes`): the steps of its
  pass, `Begin`, and the watcher's, the ticker's and the session watch's requests. Strong, since
  the lock comes and goes and Go's mutex hands over to a waiter that has starved. `WF` of the
  session watch's ticker. Clients need not come or cancel.
* `Transcripts`: time passes (`WF(Ages)`), the jobs start and load, and a job
  that holds a session returns to rest again and again. Nothing is asked of syncs.
* `Archive`, `PgPush`, `SessionList`, `Dashboard`: safety only. A push is a command
  someone runs, a resync a request.

## 5. Disagreements

One is a run and a finding in `PROJECT.json`, with the sentence it contradicts:
`codex_updates_lost` (`engine.go:2831`): the full parse that appended Codex lines ask
for is to replace the stored rows (`engine.go:2702`), but `processCodex` drops the flag.

The others are excluded from the passing runs by the world or the condition named:

* Ingestion (the storm, where only `OrdinalsAreUnique` is asked). The incremental
  update commits messages and offset apart, so a crash between them makes the retry
  store the lines again under new ordinals (`engine.go:3903`, against 3901). A full
  parse commits size and mtime first; if the message write of a file that goes on growing then
  fails, the file is continued behind lines it has not got (`engine.go:3723`,
  `sessions.go:888`). A result in
  a later pass is not paired (`engine.go:3880`; the rows are compared without their results
  where a file with results grows). An incremental parse numbers from the
  largest stored ordinal, a full parse counts results that are stored with their calls: behind
  such a result a parse without force drops what it takes for stored. So a touch without a change, or
  growth between the stat and the read of an incremental parse, loses or repeats the last
  message (`engine.go:2689`). A session whose first message is no preview, since it began with
  commands, is parsed in full without force (`engine.go:2658`), which keeps the stored start of a
  message that was streamed. A changed inode forces a full parse but
  not a replacing write (`engine.go:2676`). A file that ends in a torn line is recorded
  with its whole size (`claude.go:251`); one that grows between stat and read is read
  twice (`claude.go:63`).
* Pipeline (`torn`). "Called once after each sync pass that wrote data" (`engine.go:72`), but a
  pass whose only write fails after the row emits nothing, and the row's size and mtime let
  the next pass take the file for up to date (`engine.go:3747`). A first write that broke off
  is repeated, since the data version is set last; but the check of Warp does not look at it
  (`engine.go:4822`), so there it is not. An incremental write then continues
  from the row's size over the gap.
* Adapter: it takes the count for the next ordinal
  (`event_adapter.go:157`, `docs/source/events.md:165`), but filtering follows
  numbering. Behind a gap a message is told again with every update, and one whose ordinal
  is not below the count is told late or never; `AppendedInOrder` allows the one, `Due` leaves
  out the other. A message is lost if the first snapshot falls between a row and its
  messages (`event_adapter.go:46`, excluded by `Due`); a session that moves between page
  loads is told as new again (100); a failed refresh consumes its signal (85).
* Push (world `Rebuilt` without filters): a reset of the server is noticed by unfiltered
  pushes only (`push.go:95`). The same function is why `NothingMissed` speaks of settled
  sessions: a row stamped before the cutoff and committed after it, and an interrupted
  push, have a repair that a second one does not have (`sessions.go:1842`,
  `push.go:90`). A pass that dies between its first write to a row and the stamp of
  the signals leaves a row whose stamps are all from before the cutoff of a push that
  ran meanwhile (`engine.go:3739`, `signals.go:31`; `dies` in the worlds, `Careful` in
  `PgPushProofs`). Two pushes at once and pages torn by a pass are not modelled.
* Archive: a pin is re-attached by ordinal and moves when an upgrade renumbers
  (`orphaned.go:350`; `Upgraded` pins what keeps its place). A skip recorded while a
  session is in the trash hides appended lines after a restore (`sessions.go:1699`).
  Unpinning during a resync what was already copied is undone.
* `SyncSingleSession` of Gemini, VS Code and Positron stores an empty project
  (`engine.go:4596`, against 4532). An interrupted pass has already moved the stamp of the
  quick pass, whose later runs skip what it left (`engine.go:1481`, `usage.go:165`).
* Session watch (excluded in `WatchIsTold`): the fallback gives up after one failed
  attempt, and a concurrent older update clears it (`watcher.go:163`). A failed parse
  waits for the file's next change (`engine.go:2158`).
* Transcripts: a prompt whose appended line meets a fork in the rest of the file can be
  lost to the retry (`ErrDAGDetected` is no fallback); the first appended entry's parent
  is not compared with the last stored one; merged snapshots leave dangling
  parents that turn fork detection off; of three children at a fork the middle one's long
  branch is dropped (`claude.go:680`); subagent links in appended lines are lost; the
  signal jobs can overwrite what a sync computed meanwhile (`main.go:150` calls this safe; exempt as
  `overtaken`) and a crash between messages and signals leaves them stale (`torn`);
  tokens of Codex are lost or doubled at a sync point; an OpenCode part rewritten
  shorter freezes its session until a resync (`engine.go:4083`).
* Lists: a client stops at the count although ordinals run ahead
  (`transcript-sync.ts:219`, excluded in `TranscriptIsAPrefix`); a spawned session
  is a root until a pass links it, and passes that are interrupted, a session synced on its own, and a
  link that fails leave it one (`engine.go:1630`, 4662, 2240); the comment on unclean sessions omits the hour
  (`sessions.go:326`); `GetMachines` and the machine count of the statistics differ; prune
  deletes the file of a fork that its root was parsed from (`prune.go:186`).
* Reports: top sessions are cut before the local date filter (`analytics.go:2723`), at 200 rows
  in one store and 1000 in the other (`analytics.go:2765`, `postgres/analytics.go:2063`);
  PostgreSQL counts system messages as the user's in the activity, compares a list of
  machines as a whole, and treats a missing stamp otherwise (`Comparable`); hours of the
  week ignore the time filter; stamps below a second break the bound on buckets
  (`activity.go:35`); the statistics bill replays twice (`session_stats.go:966`).
* Discovery: a Codex session live and archived at once, a Cortex session whose history is
  split (`engine.go:3292`), Cursor twins in two directories (3413) and Positron twins, all
  excluded by the instance; Kiro, Kiro IDE, Hermes and
  Positron are watched but never classified, so only the periodic pass reads them;
  roots made after the start are not watched; companions of Kiro and Cortex are not in
  the stamp.

## 6. Proofs

TLAPS proves these for every value of the constants, from the assumptions named in
each module, which TLC evaluates on the instances: `BroadcasterAssumption` (a buffer
holds something, bounds are naturals, nil is not a scope), `FeedAssumption` (channels
hold something, generations are naturals), `AdapterAssumption` (finitely many sessions
with positive numbers, finitely many ordinals of each, pages and windows and channels of at
least one),
`PipelineAssumption` (finitely many files, nil is not a goroutine, the databases are a
sequence), `ArchiveAssumption` and `PushAssumption` (finitely many sessions),
`ListAssumption` (finitely many sessions with positive numbers, rows of the given form with
finitely many messages),
`DashboardAssumption` (zones keep within `Pad` of UTC, sessions, their messages and
calls are finite, rows and queries have the given form, tokens and prices are integers:
rounding is not modelled), `WorldsAssumption` and its like (worlds are records of
the given form).

| Theorem | Establishes |
|---|---|
| `BroadcasterProofs!TypeCorrect`, `NoWakeupIsLost`, `PendingScheduled`, `RateLimit` | `TypeOK`, `NoLostWakeup`, `PendingIsScheduled`, `RateLimited` |
| `BroadcasterProofs!BroadcasterIsASignal`, `SignalForgetsNobody` | the refinement `EmitIsASignal`; in `Signal` itself, `NobodyIsForgotten` |
| `SourceFeedProofs!TypeCorrect`, `NoSendOnClosed`, `SingleFeed`, `ClientsAreServed`, `FeedStaysWhole`, `GapFree` | `TypeOK`, `RegisteredIsOpen`, `OneFeed`, `SubscribersAreFed`, `FeedIsWhole`, `NothingSkipped` |
| `ScopeEventAdapterProofs!TypeCorrect`, `EventsAreSound`, `NothingIsLost` | `TypeOK`, `LogIsSound`, `CaughtUp` |
| `SessionIngestProofs!TypeCorrect`, `UniqueOrdinals` | `TypeOK`, `OrdinalsAreUnique` |
| `SessionIngestProofs!RowsFollow`, `LinesStay` | `RowsFollowTheFile`, `LinesAreKept` |
| `PipelineProofs!TypeCorrect`, `PassesAreAlone`, `NoWorkerIsLeft`, `StoredIsSignalled` | `TypeOK`, `OnePass`, `WorkersAreCollected`, `ChangesAreSignalled` |
| `PipelineProofs!EngineFollowsTheSources` | the refinement `FollowsTheSources`: `Pipeline` implements `Mirror` |
| `ArchiveProofs!TypeCorrect`, `UserIsObeyed`, `ArchiveLosesNothing` | `TypeOK`, `UserDecides`, `NothingLost` |
| `ArchiveProofs!ArchiveIsALibrary` | the refinement `ResyncIsInvisible`: `Archive` implements `Library` |
| `PgPushProofs!TypeCorrect`, `PushMissesNothing`, `PushesAreDone` | `TypeOK`, `NothingMissed`, `DoneMeansMirrored`, if `CarefulWorlds` |
| `SessionListProofs!TypeCorrect`, `ListsMissNothing`, `TranscriptsAreInOrder`, `ListedTreesAreWhole`, `CountsAgree` | `TypeOK`, `PagesMissNothing`, `TranscriptIsAPrefix`, `TreesAreWhole`, `SidebarAgrees` |
| `SessionListProofs!WindowsAreCovered`, `ReplaysAreBilledOnce`, `PortsShowTheSame` | `PanelsCoverTheWindow`, `UsageIsBilledOnce`, `StoresAgree` of `Dashboard` |

One module states a hypothesis. It is satisfied by the constants of the
run, and it excludes behaviour of the code that section 5 lists, in which TLC
finds the property violated:

* `CarefulWorlds` of `PgPushProofs`: a pass dies, if it does, before its first write or
  before it updates the row of an appended session; the server is reset only where
  pushes are unfiltered and neither fail nor are interrupted.

*Broadcaster.* `NoLostWakeup` is kept by an emit that only coalesces because the
pending event then has a flush; that flush is accepted because generations
identify the timer. `TimerInv` says so: an armed timer carries the current
generation and cannot act before `MinInterval` has passed since the last broadcast; a
callback of the current generation exists exactly while the timer counts as fired. The
rate limit is an action property proved from the same invariant. For the refinement every
step is shown to be one of `Signal`'s or a stutter. An emit leaves one wake-up more for each
subscriber, in its buffer or as the pending event; what a full buffer drops was one of
several; the flush of a pending event only moves it into the buffers, where it may
merge. `NobodyIsForgotten` is
proved in `Signal` alone and so holds of whatever implements it.

*Ingestion.* Unique ordinals are not inductive: appending a batch preserves them
only if the batch itself is distinctly numbered and lies above all stored rows.
`IInv` therefore says of the stored rows and of the messages in flight that they
are distinct and bounded. The bound makes `MaxOrdinal`, a `CHOOSE`, a real maximum
(`LargestExists`, by well-foundedness of the distance to the bound), and the
numbering of `Parse` increases along the file because the set of earlier
messages grows strictly (`OrdinalsIncrease`, by cardinalities). The theorem
covers every world.

*Rows of a file.* That the rows follow the file is not inductive, for most of
a pass they do not. What holds at every step is that they tell what some
prefix of the lines tells, `Told(lines, n)`. Without results they are the same rows; with
results, which a later parse numbers otherwise or pairs with other calls, they hold the same lines and
replies in the same order (`Tells`, `Cores`). `FollowInv` says which prefix: the one the
session's record names (`Held`), an earlier one while a full parse is between its two
writes, or the one an incremental parse has read (`Read`) when it has written its messages
and not yet the record; passes may fail and die wherever `Gentle` lets them. `Stamped` says that
with results a file of the stored size is the one that was stored, so that it is skipped and not
parsed beside rows of other ordinals. Three lemmas about the parser carry it. `Extension`
(`LooseExtension` with results): a parse of a prefix together with an incremental parse from
there is the parse of the longer prefix, since lines of one message are never on both sides; this
is where the guard on the last stored message's id (`NoChunk`) is needed. `LinesApart`: no
line is in two messages of a parse. `MessageGrows`: a message of a prefix is, with
all its lines, in a message of the whole. `LinesAreKept` follows as an action
property, since the rows that are replaced tell a shorter prefix.

*Feed.* `SubscribersAreFed` is not inductive: a client that joins a started feed
relies on the feed having been sound without it. `FeedInv` states that soundness
for every started feed and forbids clients without one; `SeenBound` says that no
adapter is ahead of the source, which a new run needs for `NothingSkipped`. The
removal of clients is the step all of eviction, departure and stop share: the lemma
`Removal` treats it once, for any channels and runs that differ from the current
ones only in their queues (`Requeued`).

*Adapter.* A session's row, its messages and its writer are tied by `Counted` and
`Writing`: `message_count` is the number of messages, except between the two
writes of either order. Ordinals may have gaps; since a session grows behind its last message
(`Grows`), a hole below a stored message is never filled (`HoleStays`). On the adapter's side three
snapshots are kept, the one compared with, the one being loaded and the next one, and a session
has a place in the walk: `Base` and `Floor` are the snapshot and the ordinal that count for it
there. `Snapshots` orders them in time behind the table, `Told` says that what drops out of a
page has moved since it was known. `Below` says that announced messages are below the
floor, unless the session was told as new again or the floor fell back behind them at a hole; that
all those below the floor that were not known are announced; and that nothing will be stored
below it any more. What a refresh repeats follows its "updated" event (`Headed`).
`Current` adds that without a pending
wake-up what was read is what the table holds, from which `CaughtUp` follows.

*Pipeline.* A pass holds `syncMu` exactly between `Begin` and `End` (`Locking`). A
file is in one place (`Apart`), and the collector's count of outstanding results is
the number of files that are out (`Placed`), so that a cancelled pass that drains until
the count is zero leaves nothing behind. A version in flight is neither older than the row or
the messages nor newer than the file (`Fresh`). A step of one pass could break this for another
only by storing; the lemma `Moves` shows that no one but the holder of the lock has results a
store could overtake. Every write is one of a version in flight, and the lemma `Writing` says once
for all of them, whole or broken off (`Wrote`), that row and messages move forward and not past
the source, and that only a whole write leaves anything to announce. A pass that has something to
announce goes on to `emit` (`Announces`). The step simulations of `Mirror`, for the messages and
for the rows, need one case: the steps that write.

*Archive.* All is said session by session (`Sound`). `Kept`: the database in use is as
the user was told. `Built`: the one a resync builds is at no point behind it, and its
exclusions are a part of the present ones. `Staged`: what each copy has brought over when
the next one begins; it is what the rename relies on. `Behind`: nothing a pass has read
is behind its row, so an upsert loses no lines. The refinement of `Library` rests on the
same invariant: the steps of a resync before its rename stutter, and the rename changes a
session at most as an update from its file would, because `Staged` gives it every decision
and `Kept` every session.

*Push.* Local rows only move forward in the order `Before`, in which equal file times mean
equal bodies. Three statements about a session tie the copy to them: `Remembers` (a
fingerprint of the boundary that still fits means that the copy is right), `Behind` (a settled
session stamped before the watermark is mirrored) and, for a push in flight, `Listing`
(what was not taken is right already or stamped before the window; what was pushed and
has not changed since is in the copy). `Dirty` is the argument about milliseconds: a
session touched after the cutoff is stamped no earlier than the cutoff, is in a pass, or
will be in one. `Excuse` is the one state in which the copy may be empty, between a
reset and the full push that finds it.

*Lists.* `InOrderSorts` says once what sorting does: where "before" is a strict total order on a
finite set, the numbers of predecessors are a bijection onto the places, so each
element has one place and places follow the order. Lists, searches and transcripts are three
orders of this kind, and a page is a first part of what lies below a cursor, behind an
offset, or from an ordinal. That a client misses nothing is not inductive: in the middle
of a list it has not got everything. `Listing` divides the steady sessions by the cursor: those
before it in the order are still to come and not yet got, the others were got once. A
session that changes its key or leaves the filter leaves the steady ones in the same step
(`ObserveKeeps`), so no write moves a session across the cursor unseen. `Searching` says that what
was got is the first part of the whole result, `Reading` that it is the ordinals below the
next one. For `TreesAreWhole` the levels of the tree are shown to stop growing after as many
steps as there are sessions, by cardinalities; that a set of listed sessions hangs on
a root outside it follows from the first level that meets the set. Least levels
(`SmallestExists`, by well-foundedness of the naturals) take the place of induction.

*Sums.* A sum over a set is a fold that picks its elements by `CHOOSE`. `SumIsLast` unfolds it
once the recursive function behind it is known to exist (`SumsExist`, part by part of the set,
up to a least size at which it would not). From there the argument is induction over the parts of
a finite set (`PartsInduction`, a least part that is no good): any element may be the last one
added (`SumStep`), disjoint parts add up (`SumOfUnion`), and a sum may be taken class by class
(`GroupSums`, `GroupSizes`). The counts of the sidebar are classes of the sessions by
project and by agent.

*Reports.* The theorems about `Dashboard` stand at the end of `SessionListProofs`, which
extends both, and use its lemmas on `InOrder`. `PanelsCoverTheWindow` is
arithmetic: a zone's offset, before and after its change, is at most `Pad`, so the first and last tick
of a local day lie within the UTC bounds padded by it, and a tick has one local day. Each
panel is shown to hold, for each value of its key, the sessions, the messages or the calls
of one class of the selection (`ActivityRows` and the lemmas that follow it); then `GroupSums`
gives the total, over the calls first by message, then by session (`CallsOf`). The heat map needs
a window closed at both ends and dates that are integers (`Closed`, `DateIsInt`).
`UsageIsBilledOnce`: of the rows that share a message's key, exactly one is
first in the order of the scan, since that order is strict and total on a finite set
(`InOrderSorts`); the filter that keeps first rows keeps that one. The amounts are summed
by date, project, agent and model, sliced by day and folded over the days again: three groupings in a row,
each by `GroupSums` (`BilledCosts`, `SliceCost`, `DaysAddUpToKeys`, `SlicesAddUpToKeys`). `StoresAgree`: where the inputs
are `Comparable`, the two stores select the same rows, stamp them alike, bound and rank
them alike; the rest of a report is one operator of these, and equal arguments give equal
reports. These hold in every state a pass or a user can bring about, not only those the
run reaches.

## 7. Only model-checked

* Liveness (`EveryClientIsSignalled`, `ClientsCatchUp`, `NothingLeaks`,
  `EveryMessageIsAnnounced`, `CatchesUp`, `EverySourceIsRead`, `EverySourceIsStored`,
  `PendingResolves`) and `WatchIsTold`: they need fairness and `ENABLED`, which the
  provers cannot treat.
* `Transcripts` and what it instantiates: `ClaudeTranscript` and `Transcripts` declare
  `RECURSIVE` operators, with which the provers cannot be used.
* `ReportsAreComplete` of `Dashboard`: the list of the top sessions is complete only
  up to its limit; a day costs the same in every window but for the replays the property sets
  aside; the spans of a
  term, the buckets of a session and the shares of a turn are computed by scans that would need
  induction over data.
* `WaysAgree` and `AnnouncedIsRead` of `Discovery`: TLC checks them over all states of nineteen trees.
  For arbitrary trees they do not hold (the twins and split histories of section 5), and a
  theorem would have to exclude those agent by agent.
* The constants that the hypothesis above excludes have no property of their own; where
  section 5 speaks of them, TLC found the counterexample.

What the bounds leave out of these is only argued for, above.

## 8. Not modelled

* Server state files and startup lock: the outcome depends on process ids, ports and the
  machine's file system.
* Serve runtime, desktop shell, insights: child processes and their output.
* Remote sync over SSH: a download, then a pass as in `Pipeline`. Importers: sequential
  upserts of an export.
* HTTP interface, configuration, pricing, updates: decoding, authentication and files,
  no protocol between concurrent parties. Web frontend: presentation.
* Within the modelled parts: agents that keep a database are one step of `Pipeline`
  (Forge, Piebald, Warp, the SQLite form of OpenCode); ChatGPT and the older Kiro IDE
  format; titles, costs and other columns no property tells apart; token totals beyond
  those of the usage report; the outcome statistics from git and gh; the watch budget
  and exclusion patterns (directories without a watch are polled); schema migrations;
  failing copies of metadata in a resync; the heartbeats of the streams;
  reconnection in the transcript client.

## 9. Plan

1. Done: the modules above, and the proofs of section 6.
2. Proofs: the session reports of `ReportsAreComplete`; `CarefulWorlds` of `PgPushProofs` as wide as the code allows;
   `WaysAgree` for the agents that are listed and classified by one and the same test.
3. Models, if a run can be spared: server discovery with two starting processes; gap
   filling of the transcript client.
