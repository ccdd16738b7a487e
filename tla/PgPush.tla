------------------------------- MODULE PgPush -------------------------------
(***************************************************************************)
(* agentsview pg push: the copy of the local archive in PostgreSQL, kept   *)
(* by a watermark (last_push_at), the fingerprints of the rows pushed last *)
(* and one PostgreSQL transaction per batch, while the engine of another   *)
(* process goes on writing the local database.                             *)
(*                                                                         *)
(* Time is in milliseconds, the precision of every stamp that is compared; *)
(* 0 stands for an empty watermark.  A row is compared and fingerprinted   *)
(* as a whole: "body" stands for the columns a parse sets, "name" for      *)
(* those a user sets, and the messages of a session for the body they were *)
(* parsed from.                                                            *)
(***************************************************************************)
EXTENDS Integers, FiniteSets

CONSTANTS
    NSessions,
    MaxTime,        \* bound: milliseconds
    Worlds          \* what may happen around a push, see World

Sessions == 1..NSessions
PassSteps == {"idle", "messages", "update", "stamp"}

(* "batch" is the size of a batch (50 in the code), "filters" the projects *)
(* a push may be restricted to, as sets of sessions, "stored" the sessions *)
(* stored before the first push, and "dies" the steps at which a pass of   *)
(* the engine may stop.  The other fields bound how often a file grows,    *)
(* a user edits a session, a full push is asked for, a push is             *)
(* interrupted, a transaction fails and the PostgreSQL side is reset.      *)
World == [batch : Nat \ {0}, filters : SUBSET SUBSET Sessions,
          stored : SUBSET Sessions, dies : SUBSET PassSteps,
          appends : Nat, edits : Nat, fulls : Nat, interrupts : Nat,
          failures : Nat, resets : Nat]

ASSUME PushAssumption ==
    /\ NSessions \in Nat
    /\ MaxTime \in Nat
    /\ Worlds \subseteq World

VARIABLES
    now,
    file,       \* the transcript of each session
    row,        \* the sessions rows; "created" is 0 when there is none
    msgs,       \* the body the stored messages of a session come from
    pass,       \* the engine's pass in flight
    wm,         \* last_push_at
    boundary,   \* last_push_boundary_state
    pg,         \* the copy: a row and messages for each session
    job,        \* the push in flight
    world       \* the world, with what remains of its bounds

localVars == <<file, row, msgs, pass>>
vars == <<now, localVars, wm, boundary, pg, job, world>>

NoRow == [created |-> 0, mtime |-> 0, modified |-> 0, body |-> 0, name |-> 0]
OldRow == [created |-> 1, mtime |-> 1, modified |-> 1, body |-> 1, name |-> 0]
NoCopy == [row |-> NoRow, msgs |-> 0]
NoPass == [step |-> "idle", of |-> 0, mtime |-> 0, body |-> 0]
NoRows == [s \in Sessions |-> NoRow]
NoBoundary == [at |-> 0, rows |-> NoRows]
NoJob == [step |-> "idle", full |-> FALSE, only |-> {}, since |-> 0,
          cutoff |-> 0, rows |-> NoRows, prior |-> NoRows, left |-> {},
          batch |-> {}, retry |-> {}, single |-> FALSE, tx |-> {},
          msgs |-> [s \in Sessions |-> 0],
          pushed |-> {}, failed |-> {}, dirty |-> {}]

Known == {s \in Sessions : row[s].created # 0}
Empty == \A s \in Sessions : pg[s] = NoCopy

Init ==
    /\ world \in Worlds
    /\ now = 1
    /\ file = [s \in Sessions |-> [mtime |-> 1, body |-> 1]]
    /\ row = [s \in Sessions |-> IF s \in world.stored THEN OldRow ELSE NoRow]
    /\ msgs = [s \in Sessions |-> row[s].body]
    /\ pass = NoPass
    /\ wm = 0
    /\ boundary = NoBoundary
    /\ pg = [s \in Sessions |-> NoCopy]
    /\ job = NoJob

Spend(what) ==
    /\ world[what] > 0
    /\ world' = [world EXCEPT ![what] = @ - 1]

Tick ==
    /\ now < MaxTime
    /\ now' = now + 1
    /\ UNCHANGED <<localVars, wm, boundary, pg, job, world>>

-----------------------------------------------------------------------------
(* The local side: the agents, the engine and the user.  "dirty" remembers *)
(* the sessions written since the push in flight took its cutoff.          *)

Touched(s) == job' = [job EXCEPT !.dirty = @ \cup {s}]

Append(s) ==
    /\ Spend("appends")
    /\ file' = [file EXCEPT ![s] = [mtime |-> now, body |-> @.body + 1]]
    /\ UNCHANGED <<now, row, msgs, pass, wm, boundary, pg, job>>

Read(s, step) == [step |-> step, of |-> s, mtime |-> file[s].mtime, body |-> file[s].body]

(* writeBatch: the row with the size and mtime of the file, then the       *)
(* messages.                                                               *)
UpsertSession(s) ==
    /\ pass.step = "idle"
    /\ file[s].mtime # row[s].mtime
    /\ pass' = Read(s, "messages")
    /\ row' = [row EXCEPT ![s].created = IF @ = 0 THEN now ELSE @,
                          ![s].mtime = file[s].mtime,
                          ![s].body = file[s].body]
    /\ Touched(s)
    /\ UNCHANGED <<now, file, msgs, wm, boundary, pg, world>>

WriteMessages ==
    /\ pass.step = "messages"
    /\ msgs' = [msgs EXCEPT ![pass.of] = pass.body]
    /\ pass' = [pass EXCEPT !.step = "stamp"]
    /\ Touched(pass.of)
    /\ UNCHANGED <<now, file, row, wm, boundary, pg, world>>

(* writeIncremental: the messages, then the row.                           *)
AppendMessages(s) ==
    /\ pass.step = "idle"
    /\ s \in Known
    /\ file[s].mtime # row[s].mtime
    /\ pass' = Read(s, "update")
    /\ msgs' = [msgs EXCEPT ![s] = file[s].body]
    /\ Touched(s)
    /\ UNCHANGED <<now, file, row, wm, boundary, pg, world>>

UpdateSessionIncremental ==
    /\ pass.step = "update"
    /\ row' = [row EXCEPT ![pass.of].mtime = pass.mtime,
                          ![pass.of].body = pass.body]
    /\ pass' = [pass EXCEPT !.step = "stamp"]
    /\ Touched(pass.of)
    /\ UNCHANGED <<now, file, msgs, wm, boundary, pg, world>>

(* Both paths end with the signals, which stamp local_modified_at.         *)
UpdateSessionSignals ==
    /\ pass.step = "stamp"
    /\ row' = [row EXCEPT ![pass.of].modified = now]
    /\ pass' = NoPass
    /\ Touched(pass.of)
    /\ UNCHANGED <<now, file, msgs, wm, boundary, pg, world>>

(* The engine dies, or logs an error and goes on.                          *)
PassEnds ==
    /\ pass.step \in world.dies \ {"idle"}
    /\ pass' = NoPass
    /\ UNCHANGED <<now, file, row, msgs, wm, boundary, pg, job, world>>

(* Rename, trash or restore.                                               *)
Edit(s) ==
    /\ s \in Known
    /\ Spend("edits")
    /\ row' = [row EXCEPT ![s].name = @ + 1, ![s].modified = now]
    /\ Touched(s)
    /\ UNCHANGED <<now, file, msgs, pass, wm, boundary, pg>>

-----------------------------------------------------------------------------
(* The push.                                                               *)

Filtered == job.only # Sessions

(* A full push was asked for, or the watermark says there was a push and   *)
(* PostgreSQL holds no session of this machine.                            *)
Start(full, only) ==
    LET all == full \/ (wm # 0 /\ Empty) IN
    /\ job.step = "idle"
    /\ (full => Spend("fulls")) /\ (~full => UNCHANGED world)
    /\ job' = [NoJob EXCEPT !.step = IF all /\ only # Sessions
                                     THEN "clear boundary" ELSE "cutoff",
                            !.full = all, !.only = only,
                            !.since = IF all THEN 0 ELSE wm]
    /\ UNCHANGED <<now, localVars, wm, boundary, pg>>

(* clearPushState, for a full push that is filtered.                       *)
ClearBoundary ==
    /\ job.step = "clear boundary"
    /\ boundary' = NoBoundary
    /\ job' = [job EXCEPT !.step = "clear watermark"]
    /\ UNCHANGED <<now, localVars, wm, pg, world>>

ClearWatermark ==
    /\ job.step = "clear watermark"
    /\ wm' = 0
    /\ job' = [job EXCEPT !.step = "cutoff"]
    /\ UNCHANGED <<now, localVars, boundary, pg, world>>

TakeCutoff ==
    /\ job.step = "cutoff"
    /\ job' = [job EXCEPT !.step = "list", !.cutoff = now, !.dirty = {}]
    /\ UNCHANGED <<now, localVars, wm, boundary, pg, world>>

Newest(S) == CHOOSE t \in S : \A u \in S : u <= t
localSessionSyncMarker(r) == Newest({r.created, r.mtime, r.modified})

(* A row is listed when one of its stamps is past since and all are up to  *)
(* until: its newest stamp lies in between.                                *)
ListSessionsModifiedBetween(since, until) ==
    {s \in Known \cap job.only :
        localSessionSyncMarker(row[s]) \in (since + 1)..until}

(* The rows stamped in the very millisecond of the watermark, some of      *)
(* which were written after the last push had listed them.                 *)
MutBoundarySessions == {}
BoundarySessions ==
    IF job.since = 0 THEN {}
    ELSE {s \in ListSessionsModifiedBetween(job.since - 1, job.since) :
            ~(boundary.at = job.since /\ boundary.rows[s] = row[s])}

Unchanged(s) == ~job.full /\ boundary.rows[s] = row[s]

List ==
    LET listed == ListSessionsModifiedBetween(job.since, job.cutoff)
                    \cup BoundarySessions
    IN  /\ job.step = "list"
        /\ job' = [job EXCEPT !.step = "push", !.rows = row,
                              !.left = {s \in listed : ~Unchanged(s)},
                              !.prior = IF job.full THEN NoRows ELSE boundary.rows]
        /\ UNCHANGED <<now, localVars, wm, boundary, pg, world>>

Lowest(n, S) == {s \in S : Cardinality({t \in S : t < s}) < n}

(* A transaction, for the next batch or for one session of a batch that    *)
(* failed.  By now a round trip to PostgreSQL has taken a millisecond.     *)
BeginTx ==
    /\ job.step = "push"
    /\ job.batch = {}
    /\ now > job.cutoff
    /\ IF job.retry # {}
       THEN job' = [job EXCEPT !.batch = Lowest(1, job.retry), !.single = TRUE,
                               !.retry = @ \ Lowest(1, job.retry)]
       ELSE /\ job.left # {}
            /\ job' = [job EXCEPT !.batch = Lowest(world.batch, job.left),
                                  !.left = @ \ Lowest(world.batch, job.left),
                                  !.single = FALSE]
    /\ UNCHANGED <<now, localVars, wm, boundary, pg, world>>

(* In the transaction, session by session: the row as it was listed, the   *)
(* messages as they are now, whatever PostgreSQL held of them before.      *)
pushSession(s) == job.rows[s]

(* The messages of a session are left alone when the fingerprint of those  *)
(* PostgreSQL holds (their number, lengths and tokens) is the local one's. *)
SameMessages(s) == ~job.full /\ msgs[s] # 0 /\ pg[s].msgs = msgs[s]

bulkInsertMessages(s) == [job EXCEPT !.tx = @ \cup {s}, !.msgs[s] = msgs[s]]

pushMessages ==
    /\ job.batch # job.tx
    /\ \E s \in Lowest(1, job.batch \ job.tx) :
          job' = IF SameMessages(s)
                 THEN [job EXCEPT !.tx = @ \cup {s}, !.msgs[s] = pg[s].msgs]
                 ELSE bulkInsertMessages(s)
    /\ UNCHANGED <<now, localVars, wm, boundary, pg, world>>

Complete == job.batch # {} /\ job.tx = job.batch

Stored == [s \in Sessions |->
    IF s \in job.tx THEN [row |-> pushSession(s), msgs |-> job.msgs[s]] ELSE pg[s]]

Commit ==
    /\ Complete
    /\ pg' = Stored
    /\ job' = [job EXCEPT !.pushed = @ \cup job.batch, !.batch = {}, !.tx = {}]
    /\ UNCHANGED <<now, localVars, wm, boundary, world>>

(* The batch is rolled back, or committed by a server whose answer is      *)
(* lost; its sessions are tried one by one.                                *)
MutNoRetry ==
    /\ job.batch # {}
    /\ Spend("failures")
    /\ pg' = pg
    /\ job' = [job EXCEPT !.batch = {}, !.tx = {},
                          !.failed = @ \cup Lowest(1, job.batch)]
    /\ UNCHANGED <<now, localVars, wm, boundary>>
TxFails ==
    /\ job.batch # {}
    /\ Spend("failures")
    /\ pg' = pg \/ (Complete /\ pg' = Stored)
    /\ job' = [job EXCEPT !.batch = {}, !.tx = {},
                          !.failed = IF job.single THEN @ \cup job.batch ELSE @,
                          !.retry = IF job.single THEN @ ELSE job.batch]
    /\ UNCHANGED <<now, localVars, wm, boundary>>

Pushed == job.step = "push" /\ job.left \cup job.batch \cup job.retry = {}

Remembered(at, prior) ==
    [at |-> at,
     rows |-> [s \in Sessions |->
                 IF s \in job.pushed THEN job.rows[s] ELSE prior[s]]]

FinishFiltered ==
    /\ Pushed
    /\ Filtered
    /\ boundary' = Remembered(IF job.since = 0 THEN job.cutoff ELSE job.since,
                              job.prior)
    /\ job' = NoJob
    /\ UNCHANGED <<now, localVars, wm, pg, world>>

(* finalizePushState: the watermark stays behind the sessions that failed. *)
FinalCutoff == IF job.failed = {} THEN job.cutoff ELSE job.since

AdvanceWatermark ==
    /\ Pushed
    /\ ~Filtered
    /\ wm' = FinalCutoff
    /\ job' = [job EXCEPT !.step = "boundary"]
    /\ UNCHANGED <<now, localVars, boundary, pg, world>>

SaveBoundary ==
    /\ job.step = "boundary"
    /\ boundary' = Remembered(FinalCutoff,
                              IF job.failed = {} THEN NoRows ELSE job.prior)
    /\ job' = NoJob
    /\ UNCHANGED <<now, localVars, wm, pg, world>>

(* The process dies or the context is cancelled.                           *)
Interrupt ==
    /\ job.step # "idle"
    /\ Spend("interrupts")
    /\ job' = NoJob
    /\ UNCHANGED <<now, localVars, wm, boundary, pg>>

(* The schema is dropped or the database recreated, between two pushes.    *)
Reset ==
    /\ job.step = "idle"
    /\ ~Empty
    /\ Spend("resets")
    /\ pg' = [s \in Sessions |-> NoCopy]
    /\ UNCHANGED <<now, localVars, wm, boundary, job>>

-----------------------------------------------------------------------------
Local ==
    \/ \E s \in Sessions :
          Append(s) \/ UpsertSession(s) \/ AppendMessages(s) \/ Edit(s)
    \/ WriteMessages \/ UpdateSessionIncremental
    \/ UpdateSessionSignals \/ PassEnds

Push ==
    \/ \E full \in BOOLEAN, only \in world.filters : Start(full, only)
    \/ ClearBoundary \/ ClearWatermark \/ TakeCutoff \/ List
    \/ BeginTx \/ pushMessages \/ Commit \/ TxFails
    \/ FinishFiltered \/ AdvanceWatermark \/ SaveBoundary

Next == Tick \/ Local \/ Push \/ Interrupt \/ Reset

Spec == Init /\ [][Next]_vars

-----------------------------------------------------------------------------
Row == [created : Nat, mtime : Nat, modified : Nat, body : Nat, name : Nat]
Copy == [row : Row, msgs : Nat]
Boundary == [at : Nat, rows : [Sessions -> Row]]
Job == [step : {"idle", "clear boundary", "clear watermark", "cutoff", "list",
                "push", "boundary"},
        full : BOOLEAN, only : SUBSET Sessions, since : Nat, cutoff : Nat,
        rows : [Sessions -> Row], prior : [Sessions -> Row],
        left : SUBSET Sessions, batch : SUBSET Sessions,
        retry : SUBSET Sessions, single : BOOLEAN, tx : SUBSET Sessions,
        msgs : [Sessions -> Nat], pushed : SUBSET Sessions,
        failed : SUBSET Sessions, dirty : SUBSET Sessions]

TypeOK ==
    /\ now \in Nat
    /\ file \in [Sessions -> [mtime : Nat, body : Nat]]
    /\ row \in [Sessions -> Row]
    /\ msgs \in [Sessions -> Nat]
    /\ pass \in [step : PassSteps, of : Sessions \cup {0}, mtime : Nat, body : Nat]
    /\ pass.step # "idle" => pass.of \in Sessions
    /\ wm \in Nat
    /\ boundary \in Boundary
    /\ pg \in [Sessions -> Copy]
    /\ job \in Job
    /\ job.tx \subseteq job.batch
    /\ world \in World

(* The engine has nothing left to do for the session.                      *)
Settled(s) == s \in Known /\ pass.of # s /\ row[s].mtime = file[s].mtime

Mirrored(s) == pg[s] = [row |-> row[s], msgs |-> msgs[s]]

(* The next unfiltered push would select the session.                      *)
Due(s) ==
    \/ wm # 0 /\ Empty
    \/ localSessionSyncMarker(row[s]) >= wm /\ boundary.rows[s] # row[s]

(* Between two pushes every settled session is in PostgreSQL as it is here *)
(* or will be selected by the next push, in spite of equal milliseconds,   *)
(* filtered pushes, failed transactions, interrupted pushes and writes of  *)
(* the engine at any step of a push.                                       *)
NothingMissed ==
    job.step = "idle" => \A s \in Sessions : Settled(s) => Mirrored(s) \/ Due(s)

(* A push that ends leaves every session in PostgreSQL as it is here, save *)
(* those that failed in it, that its filter left out, or that were written *)
(* after it took its cutoff.  One bad session does not block the others.   *)
DoneMeansMirrored ==
    [][(SaveBoundary \/ (FinishFiltered /\ job.since = 0)) =>
          \A s \in job.only \ (job.dirty \cup job.failed) :
             Settled(s) => Mirrored(s)]_vars

=============================================================================
