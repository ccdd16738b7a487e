------------------------------ MODULE Archive ------------------------------
(***************************************************************************)
(* The archive as a whole: what the user decides about sessions (trash,    *)
(* restore, permanent deletion, names, stars, pins), the passes that write *)
(* them from their files, and ResyncAll, which builds a second database    *)
(* from the files, carries the user's decisions over and renames it over   *)
(* the first, while the user goes on and the process may die.              *)
(*                                                                         *)
(* A file only grows, so its length stands for its size, mtime and         *)
(* content; 0 says that it is gone.  How one file is parsed and written is *)
(* the subject of SessionIngest; here a pass reads, then writes.           *)
(***************************************************************************)
EXTENDS Integers, FiniteSets

CONSTANTS
    Sessions,
    Worlds      \* what may happen, see World

(* "stored" are the sessions in the archive at first; "maxLines" bounds a  *)
(* file.  The other fields bound how often the user acts on a session, a   *)
(* file disappears, a parse fails, the process dies, a step of a resync    *)
(* fails, a resync is asked for, and whether the parser is upgraded.       *)
World == [stored : SUBSET Sessions, maxLines : Nat, trashings : Nat,
          restores : Nat, deletions : Nat, edits : Nat, pinnings : Nat,
          losses : Nat, failures : Nat, crashes : Nat, aborts : Nat,
          resyncs : Nat, upgrades : Nat]

ASSUME ArchiveAssumption == IsFiniteSet(Sessions) /\ Worlds \subseteq World

VARIABLES
    file,       \* the lines in the file of each session
    parser,     \* the version of the parser
    main,       \* the database in use
    temp,       \* the database a resync builds
    skip,       \* the skip cache in memory: a length, 0 when absent
    job,        \* the pass or resync in flight
    wish,       \* what the user was told is done, for the properties
    world       \* the world, with what remains of its bounds

vars == <<file, parser, main, temp, skip, job, wish, world>>

NoRow == [state |-> "none", lines |-> 0, version |-> 0, name |-> 0, pins |-> {}]
NoSkips == [s \in Sessions |-> 0]
EmptyDB == [rows |-> [s \in Sessions |-> NoRow], starred |-> {}, excluded |-> {},
            skipped |-> NoSkips]
NoJob == [step |-> "idle", of |-> {}, lines |-> 0, todo |-> {}, saved |-> NoSkips,
          ok |-> 0, synced |-> 0, failed |-> 0, total |-> 0,
          old |-> FALSE, trashed |-> FALSE]
NoWish == [trashed |-> FALSE, deleted |-> FALSE, name |-> 0, starred |-> FALSE,
           pins |-> {}]

Init ==
    /\ world \in Worlds
    /\ file = [s \in Sessions |-> 1]
    /\ parser = 1
    /\ main = [EmptyDB EXCEPT !.rows = [s \in Sessions |->
                  IF s \in world.stored
                  THEN [NoRow EXCEPT !.state = "live", !.lines = 1, !.version = 1]
                  ELSE NoRow]]
    /\ temp = EmptyDB
    /\ skip = NoSkips
    /\ job = NoJob
    /\ wish = [s \in Sessions |-> NoWish]

Spend(what) ==
    /\ world[what] > 0
    /\ world' = [world EXCEPT ![what] = @ - 1]

Stored(db) == {s \in Sessions : db.rows[s].state # "none"}
Trashed(db) == {s \in Sessions : db.rows[s].state = "trashed"}
Live(db) == Stored(db) \ Trashed(db)

(* The connections are closed while the files are swapped.                 *)
SwapSteps == {"exclude again", "orphans", "metadata", "rename", "reopen"}
Open == job.step \notin SwapSteps

-----------------------------------------------------------------------------
(* Messages.  The second version of the parser emits one more message at   *)
(* the start of a session, which shifts the ordinals of the others.        *)

Messages(r) == IF r.version = 2 THEN 0..r.lines ELSE 1..r.lines
Ordinal(r, m) == IF r.version = 2 THEN m + 1 ELSE m

(* Pins carried to the message of the same source, or the same ordinal.    *)
restorePins(from, to) == from.pins \cap Messages(to)
PinsByOrdinal(from, to) ==
    {m \in Messages(to) : \E p \in from.pins : Ordinal(to, m) = Ordinal(from, p)}

-----------------------------------------------------------------------------
(* The files and the user.                                                 *)

Grow(s) ==
    /\ file[s] \in 1..(world.maxLines - 1)
    /\ file' = [file EXCEPT ![s] = @ + 1]
    /\ UNCHANGED <<parser, main, temp, skip, job, wish, world>>

Vanish(s) ==
    /\ file[s] > 0
    /\ Spend("losses")
    /\ file' = [file EXCEPT ![s] = 0]
    /\ UNCHANGED <<parser, main, temp, skip, job, wish>>

SetRow(s, field, value) == main' = [main EXCEPT !.rows[s][field] = value]

SoftDeleteSession(s) ==
    /\ Open
    /\ s \in Live(main)
    /\ Spend("trashings")
    /\ SetRow(s, "state", "trashed")
    /\ wish' = [wish EXCEPT ![s].trashed = TRUE]
    /\ UNCHANGED <<file, parser, temp, skip, job>>

RestoreSession(s) ==
    /\ Open
    /\ s \in Trashed(main)
    /\ Spend("restores")
    /\ SetRow(s, "state", "live")
    /\ wish' = [wish EXCEPT ![s].trashed = FALSE]
    /\ UNCHANGED <<file, parser, temp, skip, job>>

(* The row goes, and by cascade its messages, star and pins.               *)
MutDelete(db, gone) ==
    [db EXCEPT !.rows = [s \in Sessions |-> IF s \in gone THEN NoRow ELSE @[s]]]
Delete(db, gone) ==
    [db EXCEPT !.rows = [s \in Sessions |-> IF s \in gone THEN NoRow ELSE @[s]],
               !.starred = @ \ gone]

(* Of one session, or all of the trash.                                    *)
DeleteTrashed(gone) ==
    /\ Open
    /\ gone # {}
    /\ gone = Trashed(main) \/ \E s \in Trashed(main) : gone = {s}
    /\ Spend("deletions")
    /\ main' = [Delete(main, gone) EXCEPT !.excluded = @ \cup gone]
    /\ wish' = [s \in Sessions |->
                  IF s \in gone THEN [NoWish EXCEPT !.deleted = TRUE] ELSE wish[s]]
    /\ UNCHANGED <<file, parser, temp, skip, job>>

RenameSession(s) ==
    /\ Open
    /\ s \in Live(main)
    /\ Spend("edits")
    /\ \E n \in {0, 1} :
          /\ SetRow(s, "name", n)
          /\ wish' = [wish EXCEPT ![s].name = n]
    /\ UNCHANGED <<file, parser, temp, skip, job>>

StarSession(s) ==
    /\ Open
    /\ s \in Stored(main)
    /\ Spend("edits")
    /\ \E on \in BOOLEAN :
          /\ main' = [main EXCEPT !.starred = IF on THEN @ \cup {s} ELSE @ \ {s}]
          /\ wish' = [wish EXCEPT ![s].starred = on]
    /\ UNCHANGED <<file, parser, temp, skip, job>>

(* From the view of a live session.                                        *)
PinMessage(s) ==
    /\ Open
    /\ s \in Live(main)
    /\ Spend("pinnings")
    /\ \E m \in Messages(main.rows[s]), on \in BOOLEAN :
          LET pins == main.rows[s].pins
              now == IF on THEN pins \cup {m} ELSE pins \ {m}
          IN  SetRow(s, "pins", now) /\ wish' = [wish EXCEPT ![s].pins = now]
    /\ UNCHANGED <<file, parser, temp, skip, job>>

-----------------------------------------------------------------------------
(* A pass over one file, into a database db.                               *)

shouldSkipFile(db, s) ==
    /\ db.rows[s].state # "none"
    /\ db.rows[s].lines = file[s]
    /\ db.rows[s].version = parser

Unseen(s) == file[s] > 0 /\ skip[s] # file[s]

(* UpsertSession refuses what the user has deleted or trashed.             *)
Rejects(db, s) == s \in db.excluded \/ db.rows[s].state = "trashed"

Written(db, s, n) ==
    LET old == db.rows[s]
        new == [old EXCEPT !.state = "live", !.lines = n, !.version = parser]
    IN  [db EXCEPT !.rows[s] = [new EXCEPT !.pins = restorePins(old, new)],
                   !.skipped[s] = 0]

ReadFile(s) ==
    /\ job.step = "idle"
    /\ Unseen(s)
    /\ ~shouldSkipFile(main, s)
    /\ job' = [NoJob EXCEPT !.step = "write", !.of = {s}, !.lines = file[s]]
    /\ UNCHANGED <<file, parser, main, temp, skip, wish, world>>

(* A failed parse is not retried before the file changes.                  *)
ParseFails(s) ==
    /\ job.step = "idle"
    /\ Unseen(s)
    /\ ~shouldSkipFile(main, s)
    /\ Spend("failures")
    /\ skip' = [skip EXCEPT ![s] = file[s]]
    /\ job' = [NoJob EXCEPT !.step = "persist"]
    /\ UNCHANGED <<file, parser, main, temp, wish>>

WriteFile(s) ==
    /\ job.step = "write"
    /\ job.of = {s}
    /\ main' = IF Rejects(main, s) THEN main ELSE Written(main, s, job.lines)
    /\ skip' = [skip EXCEPT ![s] = IF Rejects(main, s) THEN job.lines ELSE 0]
    /\ job' = [NoJob EXCEPT !.step = "persist"]
    /\ UNCHANGED <<file, parser, temp, wish, world>>

persistSkipCache ==
    /\ job.step = "persist"
    /\ main' = [main EXCEPT !.skipped = skip]
    /\ job' = NoJob
    /\ UNCHANGED <<file, parser, temp, skip, wish, world>>

-----------------------------------------------------------------------------
(* ResyncAll.                                                              *)

Step(name) == job' = [job EXCEPT !.step = name]

BeginResync ==
    /\ job.step = "idle"
    /\ Spend("resyncs")
    /\ job' = [NoJob EXCEPT !.step = "exclude", !.saved = skip,
                            !.old = Live(main) # {}]
    /\ skip' = NoSkips
    /\ temp' = EmptyDB
    /\ UNCHANGED <<file, parser, main, wish>>

MutCopyExcludedSessionsFrom(db) == db.excluded
CopyExcludedSessionsFrom(db) == db.excluded \cup main.excluded

CopyExcludedFirst ==
    /\ job.step = "exclude"
    /\ temp' = [temp EXCEPT !.excluded = CopyExcludedSessionsFrom(temp)]
    /\ Step("trash")
    /\ UNCHANGED <<file, parser, main, skip, wish, world>>

CopyRows(ids) ==
    [s \in Sessions |-> IF s \in ids THEN main.rows[s] ELSE temp.rows[s]]

CopyTrashedDataFrom ==
    LET ids == Trashed(main) \ temp.excluded IN
    /\ job.step = "trash"
    /\ temp' = [temp EXCEPT !.rows = CopyRows(ids)]
    /\ job' = [job EXCEPT !.step = "sync", !.trashed = ids # {},
                          !.todo = {s \in Sessions : file[s] > 0},
                          !.total = Cardinality({s \in Sessions : file[s] > 0})]
    /\ UNCHANGED <<file, parser, main, skip, wish, world>>

(* A file of the pass into the new database: skipped, refused, written, or *)
(* not readable.                                                           *)
Skips(s) == file[s] > 0 /\ shouldSkipFile(temp, s)

SyncSkips(s) ==
    /\ job.step = "sync"
    /\ s \in job.todo
    /\ Skips(s)
    /\ job' = [job EXCEPT !.todo = @ \ {s}]
    /\ UNCHANGED <<file, parser, main, temp, skip, wish, world>>

SyncWrites(s) ==
    /\ job.step = "sync"
    /\ s \in job.todo
    /\ file[s] > 0 /\ ~Skips(s)
    /\ IF Rejects(temp, s)
       THEN /\ skip' = [skip EXCEPT ![s] = file[s]]
            /\ temp' = temp
       ELSE /\ temp' = Written(temp, s, file[s])
            /\ skip' = [skip EXCEPT ![s] = 0]
    /\ job' = [job EXCEPT !.todo = @ \ {s}, !.ok = @ + 1,
                          !.synced = IF Rejects(temp, s) THEN @ ELSE @ + 1]
    /\ UNCHANGED <<file, parser, main, wish, world>>

SyncFails(s) ==
    /\ job.step = "sync"
    /\ s \in job.todo
    /\ ~Skips(s)
    /\ file[s] = 0 => UNCHANGED world
    /\ file[s] > 0 => Spend("failures")
    /\ skip' = [skip EXCEPT ![s] = file[s]]
    /\ job' = [job EXCEPT !.todo = @ \ {s}, !.failed = @ + 1]
    /\ UNCHANGED <<file, parser, main, temp, wish>>

(* The new database would be worse than the old one.                       *)
PreservedOnly ==
    /\ job.synced = 0
    /\ job.total > 0
    /\ job.failed = 0
    /\ ~job.old \/ job.trashed

AbortSwap ==
    \/ job.total = 0 /\ job.old
    \/ job.synced = 0 /\ job.total > 0 /\ ~PreservedOnly
    \/ job.failed > job.ok

GiveUp ==
    /\ temp' = EmptyDB
    /\ skip' = job.saved
    /\ job' = NoJob
    /\ UNCHANGED <<file, parser, main, wish>>

Synced == job.step = "sync" /\ job.todo = {}

Decide ==
    /\ Synced
    /\ IF AbortSwap
       THEN GiveUp
       ELSE /\ temp' = [temp EXCEPT !.skipped = skip]
            /\ Step("exclude again")
            /\ UNCHANGED <<file, parser, main, skip, wish>>
    /\ UNCHANGED world

(* The pass is cancelled, or the close, the copies, the index or the       *)
(* rename fails.                                                           *)
Abort ==
    /\ job.step \in {"sync"} \cup (SwapSteps \ {"reopen"})
    /\ Spend("aborts")
    /\ GiveUp

(* The sessions deleted since the first copy were excluded too late.       *)
CopyExcludedAgain ==
    LET excluded == CopyExcludedSessionsFrom(temp) IN
    /\ job.step = "exclude again"
    /\ temp' = [Delete(temp, excluded) EXCEPT !.excluded = excluded]
    /\ Step("orphans")
    /\ UNCHANGED <<file, parser, main, skip, wish, world>>

MutOrphans == {}
Orphans == Stored(main) \ (Stored(temp) \cup temp.excluded)

CopyOrphanedDataFrom ==
    /\ job.step = "orphans"
    /\ temp' = [temp EXCEPT !.rows = CopyRows(Orphans)]
    /\ Step("metadata")
    /\ UNCHANGED <<file, parser, main, skip, wish, world>>

(* Names and trash are set as they are in the old database, even when they *)
(* are empty; pins follow the ordinals.                                    *)
Metadata(s) ==
    LET new == temp.rows[s] old == main.rows[s] IN
    IF s \in Stored(temp) \cap Stored(main)
    THEN [new EXCEPT !.name = old.name, !.state = old.state,
                     !.pins = @ \cup PinsByOrdinal(old, new)]
    ELSE new

CopySessionMetadataFrom ==
    /\ job.step = "metadata"
    /\ temp' = [temp EXCEPT !.rows = [s \in Sessions |-> Metadata(s)],
                            !.starred = @ \cup (main.starred \cap Stored(temp))]
    /\ Step("rename")
    /\ UNCHANGED <<file, parser, main, skip, wish, world>>

Rename ==
    /\ job.step = "rename"
    /\ main' = temp
    /\ temp' = EmptyDB
    /\ Step("reopen")
    /\ UNCHANGED <<file, parser, skip, wish, world>>

Reopen ==
    /\ job.step = "reopen"
    /\ Step("persist")
    /\ UNCHANGED <<file, parser, main, temp, skip, wish, world>>

-----------------------------------------------------------------------------
(* A restart: the skip cache is loaded from the database, what a resync    *)
(* had built is removed.                                                   *)

Restart ==
    /\ temp' = EmptyDB
    /\ skip' = main.skipped
    /\ job' = NoJob
    /\ UNCHANGED <<file, main, wish>>

Crash ==
    /\ job.step # "idle"
    /\ Spend("crashes")
    /\ Restart
    /\ UNCHANGED parser

Upgrade ==
    /\ parser = 1
    /\ job.step = "idle"
    /\ Spend("upgrades")
    /\ parser' = 2
    /\ Restart

-----------------------------------------------------------------------------
Users ==
    \/ \E s \in Sessions : SoftDeleteSession(s) \/ RestoreSession(s)
                              \/ RenameSession(s) \/ StarSession(s) \/ PinMessage(s)
    \/ \E gone \in SUBSET Sessions : DeleteTrashed(gone)

Pass == persistSkipCache
          \/ \E s \in Sessions : ReadFile(s) \/ ParseFails(s) \/ WriteFile(s)

Resync ==
    \/ BeginResync \/ CopyExcludedFirst \/ CopyTrashedDataFrom
    \/ \E s \in Sessions : SyncSkips(s) \/ SyncWrites(s) \/ SyncFails(s)
    \/ Decide \/ Abort \/ CopyExcludedAgain \/ CopyOrphanedDataFrom
    \/ CopySessionMetadataFrom \/ Rename \/ Reopen

Next ==
    \/ \E s \in Sessions : Grow(s) \/ Vanish(s)
    \/ Users \/ Pass \/ Resync \/ Crash \/ Upgrade

Spec == Init /\ [][Next]_vars

-----------------------------------------------------------------------------
Row == [state : {"none", "live", "trashed"}, lines : Nat, version : 0..2,
        name : {0, 1}, pins : SUBSET Nat]
DB == [rows : [Sessions -> Row], starred : SUBSET Sessions,
       excluded : SUBSET Sessions, skipped : [Sessions -> Nat]]
Steps == {"idle", "write", "persist", "exclude", "trash", "sync"} \cup SwapSteps
Job == [step : Steps, of : SUBSET Sessions, lines : Nat, todo : SUBSET Sessions,
        saved : [Sessions -> Nat], ok : Nat, synced : Nat, failed : Nat,
        total : Nat, old : BOOLEAN, trashed : BOOLEAN]
Wish == [trashed : BOOLEAN, deleted : BOOLEAN, name : {0, 1}, starred : BOOLEAN,
         pins : SUBSET Nat]

TypeOK ==
    /\ file \in [Sessions -> Nat]
    /\ parser \in {1, 2}
    /\ main \in DB /\ temp \in DB
    /\ skip \in [Sessions -> Nat]
    /\ job \in Job
    /\ wish \in [Sessions -> Wish]
    /\ world \in World
    /\ \A db \in {main, temp} : db.excluded \cap Stored(db) = {}

(* A session deleted for good never comes back, neither from its file nor  *)
(* from a resync that had read it before, whatever crashes or aborts.      *)
NoResurrection == \A s \in Sessions : wish[s].deleted => s \notin Stored(main)

(* Whatever the user was told is done (trash, restore, name, star) is what *)
(* the database in use says, after any number of resyncs and restarts and  *)
(* for what the user did during them.                                      *)
UserStateSurvives ==
    \A s \in Stored(main) :
        /\ s \in Trashed(main) <=> wish[s].trashed
        /\ main.rows[s].name = wish[s].name
        /\ s \in main.starred <=> wish[s].starred

(* What the user decided stands: no pass, resync or crash undoes it.       *)
UserDecides == NoResurrection /\ UserStateSurvives

(* No swap, crash or failed file loses a session or lines of it, even when *)
(* its file is gone.                                                       *)
NothingLost ==
    [][\A s \in Stored(main) :
          /\ s \notin Stored(main)' => wish'[s].deleted
          /\ s \in Stored(main)' => main.rows[s].lines <= main'.rows[s].lines]_vars

(* A resync is invisible: the database in use is a library, whose cards    *)
(* only the user's decisions and the files change.  Building beside it,    *)
(* swapping, giving up and dying never show in it but as an update.        *)
CardOf(s) == [state |-> IF s \in main.excluded THEN "removed" ELSE main.rows[s].state,
              lines |-> main.rows[s].lines, name |-> main.rows[s].name,
              starred |-> s \in main.starred]
Cards == [s \in Sessions |-> CardOf(s)]
L == INSTANCE Library WITH card <- Cards
ResyncIsInvisible == L!Spec

=============================================================================
