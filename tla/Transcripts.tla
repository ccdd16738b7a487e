---------------------------- MODULE Transcripts ----------------------------
(***************************************************************************)
(* How the transcript of one file gets into the archive, and with it the   *)
(* health signals of its sessions.  A file grows by lines (or by records:  *)
(* what a line is depends on the agent); a sync parses it, the appended    *)
(* lines alone when it can, and writes rows, then signals, in transactions *)
(* of their own.  Two background jobs score stored sessions again: the     *)
(* backfill of legacy sessions after a start, and the periodic job for     *)
(* sessions that were too recent to judge.  Neither takes the lock of a    *)
(* sync.                                                                   *)
(***************************************************************************)
EXTENDS Integers, Sequences, FiniteSets
LOCAL INSTANCE SequencesExt
LOCAL INSTANCE FiniteSetsExt
LOCAL INSTANCE Functions

CONSTANTS
    Worlds,             \* [agent, next (the lines that may come), maxLines,
                        \*  found (the length at which the file is first seen),
                        \*  jobs (whether the background jobs run), crashes]
    Tools,              \* what is known of a tool: [category, input, path]
    forkThreshold, contextWindowSizes

Claude  == INSTANCE ClaudeTranscript
Codex   == INSTANCE CodexTranscript
Agents  == INSTANCE AgentTranscripts
OpenCode == INSTANCE OpenCodeTranscript
Signals == INSTANCE SessionSignals

VARIABLES
    world,
    lines,      \* the file
    recent,     \* whether its last line is younger than the recency window
    db,         \* the stored sessions of the file, by their name
    seen,       \* how many of the lines are stored
    dbRecent,   \* whether the stored end of the session is that young
    step,       \* where a sync is: [at, todo, replace, held]
    job,        \* what a background job does: [todo, held]
    marker,     \* whether the backfill is done for good
    crashes,
    \* What the properties exempt:
    overtaken,  \* a background job stored signals of rows that had changed
    torn,       \* the process died between the rows and the signals
    kept        \* a fallback parse did not replace what was stored

vars == <<world, lines, recent, db, seen, dbRecent, step, job, marker, crashes,
          overtaken, torn, kept>>

Nothing == [id |-> -1, rows |-> <<>>, young |-> FALSE]      \* no transcript in hand
Resting == [at |-> "rest", todo |-> <<>>, replace |-> FALSE, held |-> Nothing]
Idle    == [todo |-> {}, held |-> Nothing]
Main    == 0

-----------------------------------------------------------------------------
(* Rows, the same for every agent.                                         *)

(* What f makes of the elements of s, one after the other.                 *)
Each(f(_), s) == FoldLeft(LAMBDA done, e : done \o f(e), <<>>, s)

(* Texts and calls are kept; the rest is what the signals need.            *)
ClaudeRow(m, ord) ==
    [ord |-> ord, role |-> m.role, sys |-> m.sys, boundary |-> m.boundary, text |-> m.text,
     calls |-> Each(LAMBDA c : <<[id |-> c.key, tool |-> "Read", agent |-> "none",
                                  events |-> <<>>, says |-> {}]>>, m.calls),
     tokens |-> -1, model |-> "", mid |-> m.mid,
     quits |-> \E b \in ToSet(m.text) : b.key = "sorry"]

CodexRow(m) ==
    [ord |-> m.ord, role |-> m.role, sys |-> FALSE, boundary |-> FALSE, text |-> m.text,
     calls |-> Each(LAMBDA c : <<[id |-> c.id, tool |-> c.tool, agent |-> c.agent,
                                  events |-> c.events, says |-> {}]>>, m.calls),
     tokens |-> m.tokens, model |-> IF m.model = "none" THEN "" ELSE m.model, mid |-> 0,
     quits |-> m.text = <<"sorry">>]

AgentRow(m, ord) ==
    [ord |-> ord, role |-> m.role, sys |-> m.sys, boundary |-> FALSE, text |-> m.text,
     calls |-> Each(LAMBDA c : <<[id |-> c.id, tool |-> c.tool, agent |-> "none",
                                  events |-> <<>>, says |-> c.says]>>, m.calls),
     tokens |-> -1, model |-> "", mid |-> 0, quits |-> m.text = <<"sorry">>]

(* toDBMessages: a user message of results alone is not stored, and the    *)
(* others keep their ordinals.                                             *)
toDBMessages(msgs, Row(_, _), first) ==
    LET row(i) == IF msgs[i].role = "user" /\ msgs[i].results # <<>> /\ msgs[i].text = <<>>
                  THEN <<>> ELSE <<Row(msgs[i], first + i - 1)>>
    IN  Each(row, [i \in DOMAIN msgs |-> i])

ClaudeRows(msgs, first) == toDBMessages(msgs, ClaudeRow, first)

AgentRows(agent, records) ==
    LET msgs == IF agent = "opencode" THEN OpenCode!ParseOpenCodeFile(records)
                ELSE Agents!Parsers(agent, records)
    IN  toDBMessages(Agents!pairToolResults(msgs), AgentRow, 0)

(* The sessions a full parse finds in a file.                              *)
Parse(agent, file) ==
    CASE agent = "claude" ->
             LET found == Claude!ParseClaudeSession(file)
             IN  Each(LAMBDA s : <<[id |-> s.id, rows |-> ClaudeRows(s.msgs, 0)]>>, found)
      [] agent = "codex" ->
             LET b == Codex!ParseCodexSession(file)
             IN  <<[id |-> Main, rows |-> Each(LAMBDA m : <<CodexRow(m)>>, b.msgs)]>>
      [] OTHER ->
             LET rows == AgentRows(agent, file)
             IN  IF rows = <<>> THEN <<>> ELSE <<[id |-> Main, rows |-> rows]>>

MaxOrdinal(rows) == Max({-1} \cup {rows[i].ord : i \in DOMAIN rows})

(* What the signals are computed from.                                     *)
Scored(rows, young) ==
    Signals!computeSignalsFromMessages(
        Each(LAMBDA r :
            <<[ord |-> r.ord, role |-> r.role, sys |-> r.sys, boundary |-> r.boundary,
               tokens |-> r.tokens, model |-> r.model, quits |-> r.quits,
               calls |-> Each(LAMBDA c :
                   <<[tool |-> c.tool, category |-> Tools[c.tool].category,
                      input |-> Tools[c.tool].input, path |-> Tools[c.tool].path,
                      says |-> c.says,
                      status |-> IF c.events = <<>> THEN Signals!NoStatus
                                 ELSE Last(c.events).status]>>, r.calls)]>>, rows),
        FALSE, young)

Session(rows, signals) == [rows |-> rows, signals |-> signals]
Unscored == [signals |-> [outcome |-> "unscored"], health |-> [grade |-> ""], pending |-> FALSE]

NoSessions == [s \in {} |-> Session(<<>>, Unscored)]

Held(s) == [id |-> s.id, rows |-> s.rows, young |-> dbRecent]

UpdateSessionSignals(held) ==
    db' = [db EXCEPT ![held.id].signals = Scored(held.rows, held.young)]

-----------------------------------------------------------------------------
(* A database of an older version may hold the session without signals.    *)
Init ==
    /\ world \in Worlds
    /\ lines = <<>> /\ recent = FALSE
    /\ db = NoSessions /\ seen = 0 /\ dbRecent = FALSE
    /\ step = Resting /\ job = Idle
    /\ marker \in IF world.jobs THEN BOOLEAN ELSE {TRUE}
    /\ crashes = 0
    /\ overtaken = FALSE /\ torn = FALSE /\ kept = FALSE

AgentWrites ==
    /\ Len(lines) < world.maxLines
    /\ \E l \in world.next :
          /\ world.agent = "claude" =>
                /\ l.parent \in 0..Len(lines)
                /\ l.parent = 0 <=> lines = <<>>
          /\ world.agent = "codex" =>       \* the name of a call is its own
                ~(l.type = "call" /\ l \in ToSet(lines))
          /\ world.agent = "vscode" =>      \* an answer goes to the last request
                (l.type = "response" => l.id = Quantify(DOMAIN lines, LAMBDA i : lines[i].type = "request"))
          /\ world.agent = "opencode" =>    \* a file is written after the one it hangs on
                LET written == OpenCode!Files(lines)
                IN  /\ l \notin written
                    /\ l.parent = 0 \/ \E f \in written : f.id = l.parent
                    /\ l.type = "gone" => \E f \in written : f.id = l.id
          /\ world.agent = "gemini" =>      \* a record is told again with more text
                \A r \in ToSet(lines) : r.id = l.id /\ l.id # 0 => IsPrefix(r.text, l.text)
          /\ lines' = Append(lines, IF world.agent = "claude"
                                    THEN [l EXCEPT !.id = Len(lines) + 1, !.time = Len(lines) + 1]
                                    ELSE l)
    /\ recent' = world.jobs
    /\ UNCHANGED <<world, db, seen, dbRecent, step, job, marker, crashes,
                   overtaken, torn, kept>>

(* Time passes; the stored end of the session is not the younger one.      *)
TimePasses ==
    /\ recent \/ dbRecent
    /\ recent' \in {recent, FALSE}
    /\ dbRecent' = FALSE
    /\ UNCHANGED <<world, lines, db, seen, step, job, marker, crashes,
                   overtaken, torn, kept>>

(* An import of a database whose sessions were never scored.               *)
OpenLegacy ==
    /\ ~marker /\ lines # <<>> /\ seen = 0 /\ db = NoSessions /\ step = Resting
    /\ db' = LET found == Parse(world.agent, lines) IN
             [s \in {found[i].id : i \in DOMAIN found} |->
                     Session((CHOOSE p \in ToSet(found) : p.id = s).rows, Unscored)]
    /\ seen' = Len(lines) /\ dbRecent' = recent
    /\ UNCHANGED <<world, lines, recent, step, job, marker, crashes, overtaken, torn, kept>>

-----------------------------------------------------------------------------
(* A sync.                                                                 *)

(* How the appended lines can be taken: by themselves, or by a full parse, *)
(* which asks for what is stored to be replaced or does not.               *)
tryIncrementalJSONL ==
    LET rows  == db[Main].rows
        first == MaxOrdinal(rows) + 1
        tail  == SubSeq(lines, seen + 1, Len(lines))
        full(how) == [how |-> how, rows |-> <<>>]
    IN  CASE Cardinality(DOMAIN db) # 1 \/ rows = <<>> -> full("full")
          [] Cardinality(DOMAIN db) = 1 /\ rows # <<>> /\ world.agent = "claude" ->
                 LET p == Claude!ParseClaudeSessionFrom(lines, seen)
                     answers == SelectSeq(rows, LAMBDA r : r.role = "assistant" /\ r.mid # 0)
                     continues == /\ p.how = "append" /\ p.msgs # <<>> /\ answers # <<>>
                                  /\ p.msgs[1].role = "assistant" /\ p.msgs[1].mid # 0
                                  /\ Last(answers).mid = p.msgs[1].mid
                 IN  IF continues THEN full("replace")
                     ELSE [how |-> p.how, rows |-> ClaudeRows(p.msgs, first)]
          [] OTHER ->
                 IF \E i \in DOMAIN tail : Codex!codexIncrementalNeedsFullParse(tail[i])
                 THEN full("replace")
                 ELSE LET b == Codex!ParseCodexSessionFrom(lines, seen, first)
                      IN  [how |-> "append",
                           rows |-> Each(LAMBDA m : <<CodexRow(m)>>, b.msgs)]

(* processClaude passes the request on, processCodex drops it.             *)
Attempt ==
    IF world.agent \notin {"claude", "codex"} \/ db = NoSessions
    THEN [how |-> "full", rows |-> <<>>, replace |-> world.agent = "opencode"]
    ELSE LET t == tryIncrementalJSONL
         IN  [how |-> IF t.how = "append" THEN "append" ELSE "full", rows |-> t.rows,
              replace |-> t.how = "replace" /\ world.agent = "claude"]

File == SubSeq(lines, 1, seen)

(* prepareSessionWrite: an OpenCode session that lost something is left as *)
(* it is stored, and looks changed at the next sync again.                 *)
Preserved(found) ==
    /\ world.agent = "opencode" /\ db # NoSessions
    /\ \/ found = <<>>
       \/ OpenCode!shouldPreserveOpenCodeArchive(File, db[Main].rows, lines, found[1].rows)

Changed == step = Resting /\ seen < Len(lines) /\ world.found <= Len(lines)

(* writeMessages: only what comes after the stored rows.                   *)
After(rows, msgs) == SelectSeq(msgs, LAMBDA m : m.ord > MaxOrdinal(rows))

(* writeIncremental: the rows, the counts and the offset; the signals are  *)
(* computed from the database afterwards.                                  *)
MutWriteIncremental ==
    /\ Changed
    /\ \E a \in {Attempt} :
          /\ a.how = "append"
          /\ db' = [db EXCEPT ![Main].rows = @ \o After(@, a.rows)]
    /\ seen' = Len(lines) /\ dbRecent' = recent
    /\ UNCHANGED <<step, kept, world, lines, recent, job, marker, crashes, overtaken, torn>>

writeIncremental ==
    /\ Changed
    /\ \E a \in {Attempt} :
          /\ a.how = "append"
          /\ db' = [db EXCEPT ![Main].rows = @ \o After(@, a.rows)]
    /\ seen' = Len(lines) /\ dbRecent' = recent
    /\ step' = [Resting EXCEPT !.at = "load"]
    /\ UNCHANGED <<kept, world, lines, recent, job, marker, crashes, overtaken, torn>>

LoadSignals ==
    /\ step.at = "load"
    /\ step' = [step EXCEPT !.at = "store", !.held = Held([id |-> Main, rows |-> db[Main].rows])]
    /\ UNCHANGED <<world, lines, recent, db, seen, dbRecent, job, marker, crashes,
                   overtaken, torn, kept>>

(* A full parse; its sessions are written one after the other.             *)
BeginFullParse ==
    /\ Changed
    /\ \E a \in {Attempt}, found \in {Parse(world.agent, lines)} :
          /\ a.how = "full"
          /\ ~Preserved(found)
          /\ step' = IF found = <<>> THEN Resting
                     ELSE [Resting EXCEPT !.at = "write", !.todo = found, !.replace = a.replace]
          /\ kept' = (kept \/ (db # NoSessions /\ ~a.replace))
    /\ seen' = Len(lines) /\ dbRecent' = recent
    /\ UNCHANGED <<world, lines, recent, db, job, marker, crashes, overtaken, torn>>

(* writeBatch, one session: its row and messages, then its signals from    *)
(* the parse.                                                              *)
WriteSession ==
    /\ step.at = "write" /\ step.todo # <<>>
    /\ LET s == Head(step.todo)
           old == IF s.id \in DOMAIN db THEN db[s.id] ELSE Session(<<>>, Unscored)
           rows == IF step.replace THEN s.rows ELSE old.rows \o After(old.rows, s.rows)
       IN  /\ db' = [x \in DOMAIN db \cup {s.id} |->
                        IF x = s.id THEN [old EXCEPT !.rows = rows] ELSE db[x]]
           /\ step' = [step EXCEPT !.at = "store", !.todo = Tail(@), !.held = Held(s)]
    /\ UNCHANGED <<world, lines, recent, seen, dbRecent, job, marker, crashes,
                   overtaken, torn, kept>>

(* A sync that stores signals undoes what overtook it.                     *)
StoreSignals ==
    /\ step.at = "store"
    /\ UpdateSessionSignals(step.held)
    /\ step' = IF step.todo = <<>> THEN Resting ELSE [step EXCEPT !.at = "write", !.held = Nothing]
    /\ overtaken' = FALSE
    /\ torn' = (torn /\ step.todo # <<>>)
    /\ UNCHANGED <<world, lines, recent, seen, dbRecent, job, marker, crashes, kept>>

(* writeSessionFull: one session asked for by its user replaces its rows.  *)
SyncSingleSession ==
    /\ world.jobs /\ step = Resting /\ Main \in DOMAIN db
    /\ world.agent # "claude"
    /\ ~Preserved(Parse(world.agent, lines))
    /\ \E s \in {Parse(world.agent, lines)[1]} :
           /\ db' = [db EXCEPT ![Main].rows = s.rows]
           /\ step' = [Resting EXCEPT !.at = "store", !.held = [Held(s) EXCEPT !.young = recent]]
    /\ seen' = Len(lines) /\ dbRecent' = recent
    /\ kept' = FALSE
    /\ UNCHANGED <<world, lines, recent, job, marker, crashes, overtaken, torn>>

-----------------------------------------------------------------------------
(* The background jobs.                                                    *)

(* BackfillSignals: every session that has messages.                       *)
BeginBackfill ==
    /\ world.jobs /\ ~marker /\ job = Idle
    /\ \E s \in DOMAIN db : db[s].rows # <<>>
    /\ job' = [job EXCEPT !.todo = {s \in DOMAIN db : db[s].rows # <<>>}]
    /\ UNCHANGED <<world, lines, recent, db, seen, dbRecent, step, marker, crashes,
                   overtaken, torn, kept>>

(* PendingSignalSessions: those judged too early, once they have aged.     *)
MutRecomputePendingSessions ==
    /\ world.jobs /\ marker /\ job = Idle
    /\ \E s \in DOMAIN db : db[s].signals.pending /\ dbRecent
    /\ job' = [job EXCEPT !.todo = {s \in DOMAIN db : db[s].signals.pending}]
    /\ UNCHANGED <<world, lines, recent, db, seen, dbRecent, step, marker, crashes,
                   overtaken, torn, kept>>

recomputePendingSessions ==
    /\ world.jobs /\ marker /\ job = Idle
    /\ \E s \in DOMAIN db : db[s].signals.pending /\ ~dbRecent
    /\ job' = [job EXCEPT !.todo = {s \in DOMAIN db : db[s].signals.pending}]
    /\ UNCHANGED <<world, lines, recent, db, seen, dbRecent, step, marker, crashes,
                   overtaken, torn, kept>>

JobLoads ==
    /\ job.held = Nothing
    /\ \E s \in job.todo :
          job' = [todo |-> job.todo \ {s}, held |-> Held([id |-> s, rows |-> db[s].rows])]
    /\ UNCHANGED <<world, lines, recent, db, seen, dbRecent, step, marker, crashes,
                   overtaken, torn, kept>>

JobStores ==
    /\ job.held # Nothing
    /\ UpdateSessionSignals(job.held)
    /\ overtaken' = (overtaken \/ job.held.rows # db[job.held.id].rows)
    /\ job' = [job EXCEPT !.held = Nothing]
    /\ marker' = (marker \/ job.todo = {})
    /\ UNCHANGED <<world, lines, recent, seen, dbRecent, step, crashes, torn, kept>>

(* The process dies and starts again; the file looks stored.               *)
Crash ==
    /\ crashes < world.crashes
    /\ crashes' = crashes + 1
    /\ torn' = (torn \/ step # Resting)
    /\ step' = Resting /\ job' = Idle
    /\ UNCHANGED <<world, lines, recent, db, seen, dbRecent, marker, overtaken, kept>>

-----------------------------------------------------------------------------
Sync == writeIncremental \/ LoadSignals \/ BeginFullParse \/ WriteSession \/ StoreSignals
Jobs == BeginBackfill \/ recomputePendingSessions \/ JobLoads \/ JobStores

Next == AgentWrites \/ TimePasses \/ OpenLegacy \/ Sync \/ SyncSingleSession \/ Jobs \/ Crash

Ages == TimePasses /\ recent' = FALSE

(* Time passes and the jobs run on; nothing is asked of the syncs.         *)
JobStarts == BeginBackfill \/ recomputePendingSessions

Spec == /\ Init /\ [][Next]_vars
        /\ WF_vars(Ages) /\ WF_vars(JobStarts) /\ WF_vars(JobLoads)
        /\ []<>(job.held = Nothing)          \* fairness of JobStores

-----------------------------------------------------------------------------
(* What must hold.                                                         *)

Settled == step = Resting /\ ~torn
Told(row) == <<row.ord, row.role, row.text, row.calls>>

(* As long as no appended line was about stored ones, parsing the appended *)
(* lines alone stores what a parse of the whole Codex file would: this is  *)
(* what codexIncrementalNeedsFullParse is for.                             *)
CodexIncrementalAgrees ==
    world.agent = "codex" /\ Settled /\ ~kept /\ db # NoSessions =>
        LET rows == db[Main].rows
            full == Parse("codex", File)[1].rows
        IN  [i \in DOMAIN rows |-> Told(rows[i])] = [i \in DOMAIN full |-> Told(full[i])]

(* "The full parse must replace existing messages - otherwise the append-  *)
(* only write path skips rows whose ordinal <= maxOrd and the updates are  *)
(* silently dropped" (engine.go): what a fallback parse found is stored.   *)
FallbackReplaces ==
    world.agent = "codex" /\ Settled /\ db # NoSessions =>
        LET rows == db[Main].rows
            full == Parse("codex", File)[1].rows
        IN  [i \in DOMAIN rows |-> Told(rows[i])] = [i \in DOMAIN full |-> Told(full[i])]

(* "Session files are append-only": whatever agents rewrite and merge, a   *)
(* stored row is the message of its ordinal, or a beginning of it, and no  *)
(* message is missing.                                                     *)
AgentRowsAreOfTheFile ==
    world.agent \notin {"claude", "codex"} /\ Settled /\ db # NoSessions =>
        LET rows == db[Main].rows
            full == AgentRows(world.agent, File)
        IN  /\ Len(rows) = Len(full)
            /\ \A i \in DOMAIN rows :
                  /\ rows[i].ord = full[i].ord /\ rows[i].role = full[i].role
                  /\ IsPrefix(rows[i].text, full[i].text)
                  /\ \A k \in DOMAIN rows[i].calls : rows[i].calls[k].id = full[i].calls[k].id

(* The rows of a session, appended line by line, are those of its file.    *)
RowsAreOfTheFile == CodexIncrementalAgrees /\ AgentRowsAreOfTheFile

(* What a Claude line says is told by a message.                           *)
Tells(m, l) ==
    /\ \/ m.from = l.id
       \/ m.mid # 0 /\ m.mid = l.mid
    /\ \A b \in ToSet(l.blocks) : \E c \in ToSet(m.text) :
          c.type = b.type /\ c.key = b.key /\ c.size >= b.size

Hidden(l) ==
    \/ l.type = "user" /\ l.kind \in {"meta", "noise"}
    \/ l.kind = "plain" /\ l.blocks = <<>> /\ l.results = <<>>

RECURSIVE Under(_, _)
Under(es, i) ==
    {i} \cup UNION {Under(es, j) : j \in ToSet(Claude!Children(es, i))}

(* The retries that were given up: a later one took their place.           *)
GivenUp(es) ==
    UNION {UNION {Under(es, k) : k \in ToSet(Front(Claude!Children(es, i)))} :
              i \in {j \in DOMAIN es :
                        LET kids == Claude!Children(es, j)
                        IN  /\ Len(kids) > 1
                            /\ Claude!countUserTurns(es, kids[1]) <= forkThreshold}}

(* No line of a Claude file is dropped, but for retries that were given    *)
(* up, whatever the branches and however a response was written in parts.  *)
NoLineIsDropped ==
    world.agent = "claude" /\ lines # <<>> =>
        LET es     == Claude!mergeClaudeAssistantMessageChunks(SelectSeq(lines, Claude!IsEntry))
            found  == Claude!ParseClaudeSession(lines)
            gone   == IF Claude!IsTree(es) THEN GivenUp(es) ELSE {}
            part(l, e) == l.id = e.id \/ (l.mid # 0 /\ l.mid = e.mid)
        IN  \A l \in ToSet(lines) :
               \/ Hidden(l)
               \/ \E i \in gone : part(l, es[i])
               \/ \E s \in ToSet(found) : \E m \in ToSet(s.msgs) : Tells(m, l)

(* A message is told in one session only, and a fork hangs on the session  *)
(* that shows the entry it left.                                           *)
ForksHangTogether ==
    world.agent = "claude" /\ lines # <<>> =>
        LET found == Claude!ParseClaudeSession(lines)
            told(s) == {m.from : m \in ToSet(s.msgs)}
        IN  \A i, j \in DOMAIN found :
               /\ i # j => told(found[i]) \cap told(found[j]) = {}
               /\ i # 1 /\ found[j].id = found[i].parent =>
                     LET left == lines[found[i].id].parent
                     IN  Hidden(lines[left]) \/ left \in told(found[j])

(* The conversation that a parse tells is all of the file's, told once.    *)
ConversationIsWhole == NoLineIsDropped /\ ForksHangTogether

(* Every message of a Claude file is stored, in one session or another,    *)
(* unless a fallback parse met stored rows and was not told to replace.    *)
NothingIsMissed ==
    world.agent = "claude" /\ Settled /\ ~kept =>
        \A s \in ToSet(Parse("claude", File)) : \A m \in ToSet(s.rows) :
            \E x \in DOMAIN db : \E r \in ToSet(db[x].rows) :
                r.role = m.role /\ r.text = m.text

(* The signals of a stored session are those of its rows, or of the parse  *)
(* that wrote it, and they wait for a second look exactly when they were   *)
(* computed too early; a session is unscored only until the backfill.      *)
SignalsFollowTheRows ==
    Settled /\ ~overtaken =>
        \A s \in DOMAIN db :
            IF db[s].signals = Unscored THEN ~marker
            ELSE \E rows \in {db[s].rows} \cup
                            {p.rows : p \in {q \in ToSet(Parse(world.agent, File)) : q.id = s}} :
                    db[s].signals = Scored(rows, db[s].signals.pending)

(* A session in which three calls failed in a row is never graded A.       *)
StreaksShow ==
    Settled /\ ~overtaken =>
        \A s \in DOMAIN db :
            LET calls == Signals!extractToolCallRows(
                             [i \in DOMAIN db[s].rows |->
                                 [ord |-> i, calls |->
                                    [k \in DOMAIN db[s].rows[i].calls |->
                                       [tool |-> db[s].rows[i].calls[k].tool, category |-> "Bash",
                                        input |-> "", path |-> "", status |-> "none",
                                        says |-> db[s].rows[i].calls[k].says]]]])
            IN  (\E i \in 1..(Len(calls) - 2) : \A k \in i..(i + 2) : "crash" \in calls[k].says)
                    => db[s].signals.health.grade # "A"

(* The stored signals say what the stored rows show.                       *)
SignalsAreDerived == SignalsFollowTheRows /\ StreaksShow

(* A session that was too recent to judge is judged in the end.            *)
Pending == \E s \in DOMAIN db : db[s].signals.pending

PendingResolves == Pending ~> ~Pending

=============================================================================
