------------------------------ MODULE Pipeline ------------------------------
(***************************************************************************)
(* A pass of the sync engine and the goroutines that ask for one: the file *)
(* watcher (SyncPaths), the periodic and the requested full pass (SyncAll, *)
(* which a client may cancel), the quick pass of the usage command         *)
(* (SyncAllSince) and the fallback of a session watch (SyncSingleSession). *)
(*                                                                         *)
(* A pass holds syncMu.  It feeds its files to workers over one bounded    *)
(* channel and takes their results from another; it writes what was parsed *)
(* in batches, then syncs the agents that keep a database of their own,    *)
(* persists the skip cache, releases the lock and only then signals the    *)
(* clients.  Contents are versions: a source is the time of its last       *)
(* change.  A write commits the session's row (file size, time, count) and *)
(* its messages apart, so it may fail between the two.  What processFile   *)
(* does with one file is SessionIngest's and Discovery's subject; here it  *)
(* is one step.                                                            *)
(***************************************************************************)
EXTENDS Naturals, Sequences, FiniteSets, FiniteSetsExt

CONSTANTS Files,        \* discovered files
          Empty,        \* those without an interactive session
          Stores,       \* sequence of the sessions of OpenCode, Warp, Forge and Piebald databases
          Unstamped,    \* those of Warp, whose check does not look at the data version
          Watchable,    \* sources of the sessions a client may watch
          Processes,    \* sets of goroutines that may run together and ask for passes
          Workers, Buffer, BatchSize,   \* goroutines of a pass, capacity of its channels, batchSize
          Delay,        \* SyncFallbackDelay in polls of the session watch
          MaxTime,              \* bound: the time of the last change, for each set of goroutines
          MaxFaults, MaxStops   \* bounds: failures, cancellations and restarts

VARIABLES disk,     \* source -> time of its last change
          row,      \* source -> time the row of its session is of
          stored,   \* source -> time up to which its messages are stored
          torn,     \* sources of which a write broke off between row and messages
          now,      \* the clock: counts the changes
          events,   \* files the watcher has pending
          skip,     \* skipCache: file -> time, 0 when absent
          saved,    \* the skip cache as persisted
          started,  \* last_sync_started_at
          lock,     \* the caller that holds syncMu
          pass,     \* caller -> its pass
          gone,     \* the client of the requested pass has gone
          unsent,   \* sources of which anything was stored since the last signal
          watch,    \* the session watch
          faults, stops

archive == <<row, stored, torn>>
vars == <<disk, archive, now, events, skip, saved, started, lock, pass, gone, unsent, watch, faults, stops>>
engineVars == <<lock, pass>>
boundVars == <<faults, stops>>

StoreSet == {Stores[i] : i \in 1..Len(Stores)}
Sources == Files \cup StoreSet
None == "none"
ASSUME PipelineAssumption ==
    /\ IsFiniteSet(Files) /\ Stores \in Seq(StoreSet) /\ Watchable \subseteq Sources
    /\ Unstamped \subseteq StoreSet
    /\ None \notin UNION Processes /\ Delay \in Nat
Idle == [at |-> "idle", todo |-> {}, jobs |-> {}, busy |-> {}, results |-> {}, left |-> 0, pending |-> {},
         synced |-> 0, aborted |-> FALSE, phase |-> 1]
Closed == [at |-> "off", of |-> None, seen |-> 0, file |-> 0, age |-> 0]
\* SyncAll in its forms; the watcher and the session watch name their files
Full == {"periodic", "request", "quick"}
Cancelled(c) == c = "request" /\ gone

----------------------------------------------------------------------------
(* The agents, the clients, the process. *)

Seen(s) == s \in Files /\ "watcher" \in DOMAIN pass
Change(s) ==
    /\ now < MaxTime[DOMAIN pass] /\ now' = now + 1 /\ disk' = [disk EXCEPT ![s] = now + 1]
    /\ \/ events' = (IF Seen(s) THEN events \cup {s} ELSE events) /\ UNCHANGED faults
       \/ Seen(s) /\ faults < MaxFaults /\ faults' = faults + 1 /\ UNCHANGED events
    /\ UNCHANGED <<archive, skip, saved, started, lock, pass, gone, unsent, watch, stops>>

\* the client of the requested pass disconnects
Cancel ==
    /\ "request" \in DOMAIN pass /\ pass["request"].at \notin {"idle", "emit"} /\ ~gone /\ gone' = TRUE
    /\ stops < MaxStops /\ stops' = stops + 1
    /\ UNCHANGED <<disk, archive, now, events, skip, saved, started, lock, pass, unsent, watch, faults>>

\* the process is killed; the next one loads the skip cache that was persisted
Restart ==
    /\ stops < MaxStops /\ stops' = stops + 1
    /\ pass' = [c \in DOMAIN pass |-> Idle]
    /\ lock' = None /\ gone' = FALSE
    /\ skip' = saved /\ events' = {} /\ unsent' = {}
    /\ watch' = Closed
    /\ UNCHANGED <<disk, archive, now, saved, started, faults>>

----------------------------------------------------------------------------
(* A pass, step by step. *)

Run(c, r) == pass' = [pass EXCEPT ![c] = r]

\* a goroutine asks for a pass: the watcher over the files it has pending, the others over all
Ask(c) ==
    /\ c \in DOMAIN pass \ {"session"} /\ pass[c].at = "idle"
    /\ c = "watcher" => events # {}
    /\ Run(c, [Idle EXCEPT !.at = "lock", !.todo = IF c = "watcher" THEN events ELSE Files])
    /\ events' = IF c = "watcher" THEN {} ELSE events
    /\ gone' = IF c = "request" THEN FALSE ELSE gone
    /\ UNCHANGED <<disk, archive, now, skip, saved, started, lock, unsent, watch, faults, stops>>

\* the quick pass reads the files changed since the recorded start of the last pass
filterFilesByMtime(F, cutoff) == {f \in F : disk[f] >= cutoff}
\* Mutant: the pass does not wait for the lock.
MutBegin(c) ==
    /\ c # "session" /\ pass[c].at = "lock" /\ lock' = c
    /\ Run(c, [pass[c] EXCEPT !.at = "collect", !.left = Cardinality(pass[c].todo)])
    /\ UNCHANGED <<disk, archive, now, events, skip, saved, started, gone, unsent, watch, faults, stops>>
Begin(c) ==
    LET todo == {f \in IF c = "quick" THEN filterFilesByMtime(pass[c].todo, started) ELSE pass[c].todo :
                   disk[f] > 0}
    IN /\ c # "session" /\ pass[c].at = "lock" /\ lock = None /\ lock' = c
       /\ IF Cancelled(c)
          THEN Run(c, [pass[c] EXCEPT !.at = "end", !.todo = {}, !.aborted = TRUE]) /\ UNCHANGED started
          ELSE /\ Run(c, [pass[c] EXCEPT !.at = "collect", !.todo = todo, !.left = Cardinality(todo)])
               /\ started' = IF c \in Full /\ "quick" \in DOMAIN pass THEN now ELSE started
       /\ UNCHANGED <<disk, archive, now, events, skip, saved, gone, unsent, watch, faults, stops>>

\* the feeder puts a file into the jobs channel
Feed(c, f) ==
    /\ pass[c].at # "lock" /\ f \in pass[c].todo /\ Cardinality(pass[c].jobs) < Buffer
    /\ Run(c, [pass[c] EXCEPT !.todo = @ \ {f}, !.jobs = @ \cup {f}])
    /\ UNCHANGED <<disk, archive, now, events, skip, saved, started, lock, gone, unsent, watch, faults, stops>>

\* The row is of the source as it is.  Its data version is set once its messages were written.
UpToDate(s) == row[s] = disk[s] /\ (stored[s] > 0 \/ s \in Unstamped)

\* Mutant: an entry of the skip cache counts whatever its time.
MutProcessFile(f) ==
    IF skip[f] > 0 \/ UpToDate(f) THEN {"skip"} ELSE IF f \in Empty THEN {"empty"}
    ELSE {"full"} \cup (IF faults < MaxFaults THEN {"error"} ELSE {})

\* what processFile makes of a file now
processFile(f) ==
    IF skip[f] = disk[f] \/ UpToDate(f) THEN {"skip"}
    ELSE IF f \in Empty THEN {"empty"}
    ELSE {"full"} \cup (IF stored[f] > 0 THEN {"incremental"} ELSE {})
                  \cup (IF faults < MaxFaults THEN {"error"} ELSE {})

\* a worker takes a job; after a cancellation it answers without opening the file
Work(c, f) ==
    /\ f \in pass[c].jobs /\ Cardinality(pass[c].busy) < Workers
    /\ \E kind \in IF Cancelled(c) THEN {"cancelled"} ELSE processFile(f) :
         /\ Run(c, [pass[c] EXCEPT !.jobs = @ \ {f},
                                   !.busy = @ \cup {[file |-> f, kind |-> kind, time |-> disk[f]]}])
         /\ faults' = IF kind = "error" THEN faults + 1 ELSE faults
    /\ UNCHANGED <<disk, archive, now, events, skip, saved, started, lock, gone, unsent, watch, stops>>

\* and puts its result into the results channel
Answer(c, r) ==
    /\ r \in pass[c].busy /\ Cardinality(pass[c].results) < Buffer
    /\ Run(c, [pass[c] EXCEPT !.busy = @ \ {r}, !.results = @ \cup {r}])
    /\ UNCHANGED <<disk, archive, now, events, skip, saved, started, lock, gone, unsent, watch, faults, stops>>

\* How far the messages reach after a write: an incremental one reads on from the offset of the row,
\* and a row ahead of its messages leaves the gap.
Reach(r) == IF r.kind = "incremental" /\ stored[r.file] < row[r.file] THEN stored[r.file] ELSE r.time

Commit(s, r, m, open) ==
    /\ row' = [row EXCEPT ![s] = r] /\ stored' = [stored EXCEPT ![s] = m]
    /\ torn' = (torn \ {s}) \cup open /\ unsent' = unsent \cup {s}
Whole(r) == Commit(r.file, r.time, Reach(r), IF Reach(r) = r.time THEN {} ELSE {r.file})
\* A full write commits the row first, an incremental one the messages.
Half(r) ==
    IF r.kind = "incremental" THEN Commit(r.file, row[r.file], Reach(r), {r.file})
                              ELSE Commit(r.file, r.time, stored[r.file], {r.file})
Fail(r) == /\ faults < MaxFaults /\ faults' = faults + 1
           /\ Half(r) \/ UNCHANGED <<archive, unsent>>

\* the collector takes a result
Receive(c, r) ==
    LET p == [pass[c] EXCEPT !.results = @ \ {r}, !.left = @ - 1]
        batch == p.pending \cup {r}
    IN /\ pass[c].at = "collect" /\ r \in pass[c].results
       /\ CASE r.kind \in {"error", "cancelled"} /\ Cancelled(c) ->
                 /\ Run(c, [p EXCEPT !.at = "drain", !.aborted = TRUE])
                 /\ UNCHANGED <<skip, archive, unsent, faults>>
            [] r.kind = "error" /\ ~Cancelled(c) ->
                 Run(c, p) /\ skip' = [skip EXCEPT ![r.file] = r.time] /\ UNCHANGED <<archive, unsent, faults>>
            [] r.kind = "skip" -> Run(c, p) /\ UNCHANGED <<skip, archive, unsent, faults>>
            [] r.kind = "empty" ->
                 Run(c, p) /\ skip' = [skip EXCEPT ![r.file] = r.time] /\ UNCHANGED <<archive, unsent, faults>>
            [] r.kind = "incremental" ->
                 /\ \/ Whole(r) /\ Run(c, [p EXCEPT !.synced = @ + 1]) /\ UNCHANGED faults
                    \/ Fail(r) /\ Run(c, p)
                 /\ skip' = [skip EXCEPT ![r.file] = 0]
            [] r.kind = "full" ->
                 /\ Run(c, [p EXCEPT !.pending = batch, !.at = IF Cardinality(batch) >= BatchSize THEN "batch" ELSE @])
                 /\ skip' = [skip EXCEPT ![r.file] = 0] /\ UNCHANGED <<archive, unsent, faults>>
       /\ UNCHANGED <<disk, now, events, saved, started, lock, gone, watch, stops>>

\* Mutant: one result less is drained than is still to come.
MutNotice(c) ==
    /\ pass[c].at = "collect" /\ pass[c].left > 0 /\ Cancelled(c)
    /\ Run(c, [pass[c] EXCEPT !.at = "drain", !.aborted = TRUE, !.left = @ - 1])
    /\ UNCHANGED <<disk, archive, now, events, skip, saved, started, lock, gone, unsent, watch, faults, stops>>

\* the collector notices the cancellation first and drains what it has not received
Notice(c) ==
    /\ pass[c].at = "collect" /\ pass[c].left > 0 /\ Cancelled(c)
    /\ Run(c, [pass[c] EXCEPT !.at = "drain", !.aborted = TRUE])
    /\ UNCHANGED <<disk, archive, now, events, skip, saved, started, lock, gone, unsent, watch, faults, stops>>

drainResults(c, r) ==
    /\ pass[c].at = "drain" /\ pass[c].left > 0 /\ r \in pass[c].results
    /\ Run(c, [pass[c] EXCEPT !.results = @ \ {r}, !.left = @ - 1])
    /\ UNCHANGED <<disk, archive, now, events, skip, saved, started, lock, gone, unsent, watch, faults, stops>>

Collects(c) == pass[c].at \in {"collect", "drain"} /\ pass[c].left = 0
Flush(c) ==
    /\ Collects(c) /\ Run(c, [pass[c] EXCEPT !.at = "flush"])
    /\ UNCHANGED <<disk, archive, now, events, skip, saved, started, lock, gone, unsent, watch, faults, stops>>

\* one session of a batch, or of a direct sync: written, or passed over after a write that failed
writeBatch(c, r) ==
    /\ pass[c].at \in {"batch", "flush"} /\ r \in pass[c].pending
    /\ \/ /\ Whole(r) /\ UNCHANGED faults
          /\ Run(c, [pass[c] EXCEPT !.pending = @ \ {r}, !.synced = @ + 1])
       \/ Fail(r) /\ Run(c, [pass[c] EXCEPT !.pending = @ \ {r}])
    /\ UNCHANGED <<disk, now, events, skip, saved, started, lock, gone, watch, stops>>

\* the batch is written: back to the results, or on to the databases, or to the end
Written(c) ==
    /\ pass[c].at \in {"batch", "flush"} /\ pass[c].pending = {}
    /\ Run(c, [pass[c] EXCEPT !.at = CASE @ = "batch" -> "collect"
                                       [] @ = "flush" /\ c \in Full /\ ~pass[c].aborted -> "stores"
                                       [] OTHER -> "end"])
    /\ UNCHANGED <<disk, archive, now, events, skip, saved, started, lock, gone, unsent, watch, faults, stops>>

\* an agent that keeps a database: its changed sessions are read, then written unless the client has gone
Parsed(s) == [file |-> s, kind |-> "full", time |-> disk[s]]
pendingSessionIDs(s) == IF disk[s] > 0 /\ ~UpToDate(s) THEN {s} ELSE {}
syncStore(c) ==
    LET changed == pendingSessionIDs(Stores[pass[c].phase])
    IN /\ pass[c].at = "stores" /\ pass[c].phase <= Len(Stores) /\ ~Cancelled(c)
       /\ Run(c, [pass[c] EXCEPT !.at = "store", !.pending = {Parsed(s) : s \in changed}])
       /\ UNCHANGED <<disk, archive, now, events, skip, saved, started, lock, gone, unsent, watch, faults, stops>>

writeSessionFull(c) ==
    LET next == [pass[c] EXCEPT !.at = "stores", !.phase = @ + 1, !.pending = {}]
    IN /\ pass[c].at = "store"
       /\ \/ /\ pass[c].pending = {} \/ Cancelled(c)
             /\ Run(c, next) /\ UNCHANGED <<archive, unsent, faults>>
          \/ \E r \in pass[c].pending : /\ ~Cancelled(c)
                /\ \/ Whole(r) /\ Run(c, [next EXCEPT !.synced = @ + 1]) /\ UNCHANGED faults
                   \/ Fail(r) /\ Run(c, next)
       /\ UNCHANGED <<disk, now, events, skip, saved, started, lock, gone, watch, stops>>

StoresDone(c) ==
    /\ pass[c].at = "stores" /\ (pass[c].phase > Len(Stores) \/ Cancelled(c))
    /\ Run(c, [pass[c] EXCEPT !.at = "end", !.aborted = Cancelled(c)])
    /\ UNCHANGED <<disk, archive, now, events, skip, saved, started, lock, gone, unsent, watch, faults, stops>>

\* the skip cache is persisted, unless aborted or for a single session, and the lock released
End(c) ==
    /\ pass[c].at = "end" /\ lock' = None
    /\ saved' = IF pass[c].aborted \/ c = "session" THEN saved ELSE skip
    /\ Run(c, [pass[c] EXCEPT !.at = "emit"])
    /\ UNCHANGED <<disk, archive, now, events, skip, started, gone, unsent, watch, faults, stops>>

\* Mutant: a cancelled pass signals nothing.
MutEmit(c) ==
    /\ pass[c].at = "emit" /\ Run(c, Idle)
    /\ unsent' = IF pass[c].synced > 0 /\ ~pass[c].aborted THEN {} ELSE unsent
    /\ UNCHANGED <<disk, archive, now, events, skip, saved, started, lock, gone, watch, faults, stops>>

\* after the lock: the signal, when a session was stored
emit(c) ==
    /\ pass[c].at = "emit" /\ Run(c, Idle)
    /\ unsent' = IF pass[c].synced > 0 THEN {} ELSE unsent
    /\ UNCHANGED <<disk, archive, now, events, skip, saved, started, lock, gone, watch, faults, stops>>

----------------------------------------------------------------------------
(* The session watch: polls the row's version and the file's time, and     *)
(* syncs the file itself when the row has not followed it for a while.     *)

Open ==
    /\ "session" \in DOMAIN pass /\ watch.at = "off"
    /\ \E s \in Watchable : /\ row[s] > 0
         /\ watch' = [at |-> "wait", of |-> s, seen |-> row[s], file |-> disk[s], age |-> 0]
    /\ UNCHANGED <<disk, archive, now, events, skip, saved, started, lock, pass, gone, unsent, faults, stops>>

Close ==
    /\ watch.at = "send" /\ stops < MaxStops /\ stops' = stops + 1 /\ watch' = Closed
    /\ UNCHANGED <<disk, archive, now, events, skip, saved, started, lock, pass, gone, unsent, faults>>

\* Mutant: the watch has no fallback.
MutCheckDB ==
    /\ watch.at = "wait" /\ row[watch.of] # watch.seen
    /\ watch' = [watch EXCEPT !.at = "send", !.seen = row[watch.of], !.age = 0]
    /\ UNCHANGED <<disk, archive, now, events, skip, saved, started, lock, pass, gone, unsent, faults, stops>>

checkDBForChanges ==
    /\ watch.at = "wait"
    /\ LET s == watch.of
           age == IF disk[s] # watch.file \/ watch.age > 0 THEN watch.age + 1 ELSE 0
       IN \/ /\ row[s] # watch.seen
             /\ watch' = [watch EXCEPT !.at = "send", !.seen = row[s], !.age = 0]
             /\ UNCHANGED pass
          \/ /\ row[s] = watch.seen /\ age > 0 /\ age <= Delay
             /\ watch' = [watch EXCEPT !.file = disk[s], !.age = age]
             /\ UNCHANGED pass
          \/ /\ row[s] = watch.seen /\ age > Delay
             /\ watch' = [watch EXCEPT !.file = disk[s], !.age = 0, !.at = "sync"]
             /\ Run("session", [Idle EXCEPT !.at = "lock"])
    /\ UNCHANGED <<disk, archive, now, events, skip, saved, started, lock, gone, unsent, faults, stops>>

Single == "session" \in DOMAIN pass /\ pass["session"].at = "lock" /\ lock = None /\ lock' = "session"
\* a file is tried again whatever the skip cache says; a signal follows unless that fails
Reread(f) == {[Parsed(f) EXCEPT !.kind = kind] : kind \in {"full"} \cup (IF stored[f] > 0 THEN {"incremental"} ELSE {})}
SyncSingleSession ==
    /\ Single /\ watch.of \in Files
    /\ LET f == watch.of
       IN \/ /\ UpToDate(f)
             /\ Run("session", [Idle EXCEPT !.at = "end", !.synced = 1])
             /\ skip' = [skip EXCEPT ![f] = 0] /\ UNCHANGED faults
          \/ /\ ~UpToDate(f)
             /\ \E r \in Reread(f) : Run("session", [Idle EXCEPT !.at = "flush", !.pending = {r}])
             /\ skip' = [skip EXCEPT ![f] = 0] /\ UNCHANGED faults
          \/ /\ ~UpToDate(f) /\ faults < MaxFaults /\ faults' = faults + 1
             /\ Run("session", [Idle EXCEPT !.at = "end"])
             /\ skip' = [skip EXCEPT ![f] = disk[f]]
    /\ UNCHANGED <<disk, archive, now, events, saved, started, gone, unsent, watch, stops>>

\* a session of a database is read and written again without a look at the row
syncSingleStore ==
    /\ Single /\ watch.of \in StoreSet
    /\ Run("session", [Idle EXCEPT !.at = "flush", !.pending = {Parsed(watch.of)}])
    /\ UNCHANGED <<disk, archive, now, events, skip, saved, started, gone, unsent, watch, faults, stops>>

\* the watch looks at the row again, unless the sync failed
Synced ==
    /\ watch.at = "sync" /\ pass["session"].at = "idle"
    /\ \/ /\ row[watch.of] # watch.seen
          /\ watch' = [watch EXCEPT !.at = "send", !.seen = row[watch.of]]
       \/ watch' = [watch EXCEPT !.at = "wait"]
    /\ UNCHANGED <<disk, archive, now, events, skip, saved, started, lock, pass, gone, unsent, faults, stops>>

\* the client takes the tick
Tick ==
    /\ watch.at = "send" /\ watch' = [watch EXCEPT !.at = "wait"]
    /\ UNCHANGED <<disk, archive, now, events, skip, saved, started, lock, pass, gone, unsent, faults, stops>>

----------------------------------------------------------------------------

\* a process starts on sources and an archive that it does not know, or that an earlier one has in sync
Init ==
    /\ \E t \in {0, 1}, u \in {0, 1} :
          /\ u <= t /\ disk = [s \in Sources |-> t] /\ row = [s \in Sources |-> IF s \in Empty THEN 0 ELSE u]
          /\ skip = [f \in Files |-> IF f \in Empty THEN u ELSE 0] /\ started = u
    /\ stored = row /\ saved = skip /\ torn = {} /\ now = 1 /\ events = {}
    /\ lock = None /\ \E P \in Processes : pass = [c \in P |-> Idle]
    /\ gone = FALSE /\ unsent = {} /\ watch = Closed /\ faults = 0 /\ stops = 0

Step(c) ==
    \/ \E f \in Files : Feed(c, f) \/ Work(c, f)
    \/ \E r \in pass[c].busy : Answer(c, r)
    \/ \E r \in pass[c].results : Receive(c, r) \/ drainResults(c, r)
    \/ Notice(c) \/ Flush(c) \/ \E r \in pass[c].pending : writeBatch(c, r)
    \/ Written(c) \/ syncStore(c) \/ writeSessionFull(c) \/ StoresDone(c) \/ End(c) \/ emit(c)
Watching == checkDBForChanges \/ Synced \/ Tick

Next ==
    \/ \E s \in Sources : Change(s)
    \/ Cancel \/ Restart \/ Open \/ Close \/ Watching \/ SyncSingleSession \/ syncSingleStore
    \/ \E c \in DOMAIN pass : Ask(c) \/ Begin(c) \/ Step(c)

\* Goroutines run and a mutex lets every waiter in; the tickers of the watcher, of the periodic pass and
\* of the session watch fire.  Clients need not come, nor cancel.  What a caller can do next is one of
\* these at a time, so strong fairness is asked for the lock alone.
Goes(c) ==
    \/ Step(c) \/ Begin(c)
    \/ c \in {"watcher", "periodic"} /\ Ask(c)
    \/ c = "session" /\ (SyncSingleSession \/ syncSingleStore)
Fairness ==
    /\ \A c \in UNION Processes : SF_vars(c \in DOMAIN pass /\ Goes(c))
    /\ WF_vars(Watching)
Spec == Init /\ [][Next]_vars /\ Fairness
----------------------------------------------------------------------------
(* Properties. *)

\* When the collector goes on to write, no goroutine of the pass is left with a file or a result:
\* whatever it drained after a cancellation is all there was.
WorkersAreCollected ==
    \A c \in DOMAIN pass : pass[c].at \in {"flush", "stores", "end", "emit", "idle"} =>
        pass[c].todo \cup pass[c].jobs = {} /\ pass[c].busy \cup pass[c].results = {}

\* Nothing stored stays unannounced: once every pass is over, the clients have been signalled since the
\* last change of the archive, also by a pass that was cut short or failed for other sources.  What a
\* write left behind that broke off between its two commits is not announced by the code.
ChangesAreSignalled == (\A c \in DOMAIN pass : pass[c].at = "idle") => unsent \subseteq torn

\* The engine follows the sources as Mirror says, with their rows and with their messages: neither goes
\* back to an older version, whatever fails between the two.
M == INSTANCE Mirror WITH Sources <- Sources, disk <- disk, stored <- stored
R == INSTANCE Mirror WITH Sources <- Sources, disk <- disk, stored <- row
FollowsTheSources == M!Spec /\ R!Spec

\* In the end the messages of every source are stored as it is.  A file that failed waits for its next
\* change; and a source that looks up to date since a write to it broke off is passed over.
Forgotten(s) == \/ s \in Files /\ skip[s] = disk[s]
                \/ s \in torn /\ UpToDate(s)
EverySourceIsStored ==
    <>[]("periodic" \in DOMAIN pass => \A s \in Sources \ Empty : stored[s] = disk[s] \/ Forgotten(s))

\* A client that watches a session is told of every change of its file in the end, even if no event
\* and no pass brings it into the archive (unless the one attempt of the watch itself fails).
WatchIsTold ==
    (watch.at # "off" /\ disk[watch.of] # watch.file)
        ~> (\/ watch.at = "off"
            \/ watch.of \in Files /\ skip[watch.of] = disk[watch.of]
            \/ faults > 0 /\ "periodic" \notin DOMAIN pass
            \/ watch.at = "wait" /\ watch.seen = disk[watch.of])
============================================================================
