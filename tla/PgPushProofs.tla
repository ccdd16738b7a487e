---------------------------- MODULE PgPushProofs ----------------------------
(***************************************************************************)
(* Safety of the push, for every number of sessions, every length of time  *)
(* and any number of appends, edits, full pushes, interruptions and failed *)
(* transactions, with batches of any size.                                 *)
(***************************************************************************)
EXTENDS PgPush, TLAPS

-----------------------------------------------------------------------------
(* The worlds the push keeps its promise in.  A pass that dies between the *)
(* first write of a row and the stamp leaves a row that no later push can  *)
(* tell from the old one by its stamps.  A PostgreSQL side that was reset  *)
(* is found empty by the next push, which has to bring everything back: it *)
(* must be neither filtered nor cut short.                                 *)
Plain(w) == w.filters \subseteq {Sessions} /\ w.failures = 0 /\ w.interrupts = 0
Careful(w) == w.dies \subseteq {"idle", "update"} /\ (w.resets = 0 \/ Plain(w))

(* A row r that has become q: nothing goes back, and what a parse sets     *)
(* changes together with the time of the file.                             *)
Before(r, q) ==
    /\ r.created <= q.created
    /\ r.mtime <= q.mtime
    /\ r.modified <= q.modified
    /\ r.name <= q.name
    /\ r.mtime = q.mtime => r.body = q.body

-----------------------------------------------------------------------------
(* The parts of the inductive invariant.                                   *)

(* The stamps of the local side.                                           *)
Stamped(s) ==
    /\ row[s].created <= now
    /\ row[s].mtime <= file[s].mtime
    /\ row[s].modified <= now
    /\ 1 <= file[s].mtime
    /\ file[s].mtime <= now
    /\ row[s].created = 0 => row[s] = NoRow
    /\ row[s].created # 0 => 1 <= row[s].mtime

Passing ==
    /\ pass.step = "idle" => pass = NoPass
    /\ pass.step # "idle" => row[pass.of].created # 0
    /\ pass.step = "update" =>
          row[pass.of].mtime < pass.mtime /\ pass.mtime <= file[pass.of].mtime

Clocks == 1 <= now /\ wm <= now /\ \A s \in Sessions : Stamped(s)

(* The engine is between the messages and the stamp, or died before it     *)
(* updated the row and will come back.                                     *)
Pending(s) == (pass.of = s /\ pass.step = "stamp") \/ row[s].mtime # file[s].mtime

(* The copy is what is here, but for messages that are not stamped yet.    *)
InPg(s) == pg[s].row = row[s] /\ (pg[s].msgs = msgs[s] \/ Pending(s))

(* PostgreSQL was reset: the next push will find it empty, or is a full    *)
(* one already.                                                            *)
Excuse ==
    /\ Plain(world)
    /\ \/ job.step = "idle" /\ wm # 0 /\ Empty
       \/ job.step # "idle" /\ job.full

Ready == job.step \in {"list", "push", "boundary"}
Listed == job.step \in {"push", "boundary"}
Work == job.left \cup job.batch \cup job.retry
Taken == Work \cup job.pushed \cup job.failed

Jobs ==
    /\ Ready => 1 <= job.cutoff /\ job.cutoff <= now /\ wm <= job.cutoff /\ job.since <= job.cutoff
    /\ job.step \in {"clear boundary", "clear watermark"} => job.full /\ job.only # Sessions
    /\ job.full => job.since = 0
    /\ ~job.full /\ job.step \notin {"idle", "boundary"} => job.since = wm
    /\ job.step = "boundary" => wm = FinalCutoff /\ job.only = Sessions
    /\ job.step # "push" => Work = {}
    /\ ~Listed => job.pushed = {} /\ job.failed = {}
    /\ job.step # "idle" => job.only \in world.filters
    /\ job.batch # {} /\ ~job.single => job.retry = {}
    /\ job.batch \cup job.pushed # {} => job.cutoff < now
    /\ Listed => job.prior = IF job.full THEN NoRows ELSE boundary.rows
    /\ world.resets > 0 => job.failed = {} /\ (~Empty /\ job.step # "push" => wm # 0)

(* What the push in flight listed and took.                                *)
Listing(s) ==
    /\ Before(boundary.rows[s], job.rows[s])
    /\ Before(job.rows[s], row[s])
    /\ row[s] # job.rows[s] => s \in job.dirty
    /\ s \in Taken => job.rows[s].created # 0 /\ job.rows[s].modified <= job.cutoff
    /\ (/\ job.rows[s].created # 0 /\ s \in job.only /\ s \notin Taken
        /\ localSessionSyncMarker(job.rows[s]) <= job.cutoff) =>
          \/ ~job.full /\ boundary.rows[s] = job.rows[s]
          \/ localSessionSyncMarker(job.rows[s]) < job.since
    /\ s \in job.tx /\ row[s] = job.rows[s] => job.msgs[s] = msgs[s] \/ Pending(s)
    /\ s \in job.pushed /\ row[s] = job.rows[s] => InPg(s)

(* A session touched since the cutoff is in a pass, will be in one again,  *)
(* or is stamped no earlier than the cutoff; the others are stamped no     *)
(* later.                                                                  *)
Dirty(s) ==
    IF s \in job.dirty
    THEN pass.of = s \/ row[s].mtime # file[s].mtime \/ job.cutoff <= row[s].modified
    ELSE localSessionSyncMarker(row[s]) <= job.cutoff

Remembers(s) ==
    /\ Before(boundary.rows[s], row[s])
    /\ boundary.rows[s].modified < now
    /\ s \in Known /\ boundary.rows[s] = row[s] => InPg(s) \/ Excuse

Behind(s) ==
    Settled(s) /\ localSessionSyncMarker(row[s]) < wm =>
       Mirrored(s) \/ (Excuse /\ job.step # "boundary")

Session(s) ==
    /\ Remembers(s)
    /\ Behind(s)
    /\ Listed => Listing(s)
    /\ Ready => Dirty(s)

IInv ==
    /\ TypeOK
    /\ Careful(world)
    /\ Clocks
    /\ Passing
    /\ Jobs
    /\ \A s \in Sessions : Session(s)

-----------------------------------------------------------------------------
(* Facts about the helpers.                                                *)

LEMMA MarkerIsNewest ==
    ASSUME NEW r \in Row
    PROVE  /\ localSessionSyncMarker(r) \in Nat
           /\ localSessionSyncMarker(r) \in {r.created, r.mtime, r.modified}
           /\ r.created <= localSessionSyncMarker(r)
           /\ r.mtime <= localSessionSyncMarker(r)
           /\ r.modified <= localSessionSyncMarker(r)
  <1> DEFINE S == {r.created, r.mtime, r.modified}
  <1>1. r.created \in Nat /\ r.mtime \in Nat /\ r.modified \in Nat
    BY DEF Row
  <1>2. \E t \in S : \A u \in S : u <= t
    <2>1. CASE r.created >= r.mtime /\ r.created >= r.modified
      BY <1>1, <2>1
    <2>2. CASE r.mtime >= r.created /\ r.mtime >= r.modified
      BY <1>1, <2>2
    <2>3. CASE r.modified >= r.created /\ r.modified >= r.mtime
      BY <1>1, <2>3
    <2>. QED BY <1>1, <2>1, <2>2, <2>3
  <1> DEFINE n == localSessionSyncMarker(r)
  <1>3. n \in S /\ \A u \in S : u <= n
    BY <1>2 DEF localSessionSyncMarker, Newest
  <1>. QED BY <1>1, <1>3

LEMMA NoRowFacts ==
    /\ NoRow \in Row /\ NoRow.created = 0 /\ NoRow.mtime = 0 /\ NoRow.modified = 0
    /\ NoRow.body = 0 /\ NoRow.name = 0
    /\ NoRows \in [Sessions -> Row] /\ \A s \in Sessions : NoRows[s] = NoRow
  BY DEF NoRow, Row, NoRows

LEMMA OldRowFacts ==
    /\ OldRow \in Row /\ OldRow.created = 1 /\ OldRow.mtime = 1 /\ OldRow.modified = 1
    /\ OldRow.body = 1 /\ OldRow.name = 0
  BY DEF OldRow, Row

LEMMA NoPassFacts ==
    NoPass.step = "idle" /\ NoPass.of = 0 /\ 0 \notin Sessions
    /\ NoPass \in [step : PassSteps, of : Sessions \cup {0}, mtime : Nat, body : Nat]
  BY DEF NoPass, PassSteps, Sessions

LEMMA NoBoundaryFacts ==
    NoBoundary \in Boundary /\ NoBoundary.rows = NoRows
  BY NoRowFacts DEF NoBoundary, Boundary

LEMMA NoCopyFacts ==
    NoCopy \in Copy /\ NoCopy.row = NoRow /\ NoCopy.msgs = 0
  BY NoRowFacts DEF NoCopy, Copy

LEMMA NoJobFacts ==
    /\ NoJob \in Job /\ NoJob.step = "idle" /\ ~NoJob.full /\ NoJob.only = {}
    /\ NoJob.since = 0 /\ NoJob.cutoff = 0 /\ NoJob.left = {} /\ NoJob.batch = {}
    /\ NoJob.retry = {} /\ NoJob.tx = {} /\ NoJob.pushed = {} /\ NoJob.failed = {}
    /\ NoJob.dirty = {}
  BY NoRowFacts DEF NoJob, Job

(* Nothing that a row has been comes back.                                 *)
LEMMA Onward ==
    ASSUME NEW r \in Row, NEW q \in Row, NEW p \in Row, Before(r, q), Before(q, p)
    PROVE  Before(r, p) /\ (r = p => q = p)
  <1>1. Before(r, p)
    BY DEF Before, Row
  <1>2. ASSUME r = p PROVE q = p
    <2>1. q.created = p.created /\ q.mtime = p.mtime /\ q.modified = p.modified
          /\ q.name = p.name /\ q.body = p.body
      BY <1>2 DEF Before, Row
    <2>. QED BY <2>1 DEF Row
  <1>. QED BY <1>1, <1>2

LEMMA BeforeSelf == ASSUME NEW r \in Row PROVE Before(r, r)
  BY DEF Before, Row

Bounds == {"appends", "edits", "fulls", "interrupts", "failures", "resets"}

(* What happens leaves a careful world careful.                            *)
LEMMA SpendFacts ==
    ASSUME world \in World, NEW what \in Bounds, Spend(what)
    PROVE  /\ world' \in World
           /\ world'.filters = world.filters /\ world'.batch = world.batch
           /\ Careful(world) => Careful(world')
           /\ Plain(world) => Plain(world')
           /\ world'.resets > 0 => world.resets > 0
           /\ Plain(world) => what # "failures" /\ what # "interrupts"
           /\ what = "resets" => world.resets > 0
  <1>1. world[what] - 1 \in Nat /\ world' = [world EXCEPT ![what] = world[what] - 1]
        /\ world[what] > 0
    BY DEF Bounds, Spend, World
  <1>2. CASE what = "appends"
    BY <1>1, <1>2 DEF World, Careful, Plain
  <1>3. CASE what = "edits"
    BY <1>1, <1>3 DEF World, Careful, Plain
  <1>4. CASE what = "fulls"
    BY <1>1, <1>4 DEF World, Careful, Plain
  <1>5. CASE what = "interrupts"
    BY <1>1, <1>5 DEF World, Careful, Plain
  <1>6. CASE what = "failures"
    BY <1>1, <1>6 DEF World, Careful, Plain
  <1>7. CASE what = "resets"
    BY <1>1, <1>7 DEF World, Careful, Plain
  <1>. QED BY <1>2, <1>3, <1>4, <1>5, <1>6, <1>7 DEF Bounds

LEMMA Typed ==
    ASSUME TypeOK
    PROVE  /\ now \in Nat /\ wm \in Nat /\ world \in World /\ job \in Job /\ pg \in [Sessions -> Copy]
           /\ row \in [Sessions -> Row] /\ msgs \in [Sessions -> Nat]
           /\ file \in [Sessions -> [mtime : Nat, body : Nat]]
           /\ boundary.rows \in [Sessions -> Row]
           /\ \A s \in Sessions : /\ row[s] \in Row /\ boundary.rows[s] \in Row /\ job.rows[s] \in Row
                                  /\ job.prior[s] \in Row /\ msgs[s] \in Nat /\ job.msgs[s] \in Nat
                                  /\ file[s].mtime \in Nat /\ file[s].body \in Nat
                                  /\ row[s].created \in Nat /\ row[s].mtime \in Nat
                                  /\ row[s].modified \in Nat /\ row[s].body \in Nat
                                  /\ row[s].name \in Nat /\ pg[s] \in Copy
                                  /\ boundary.rows[s].modified \in Nat
                                  /\ job.rows[s].modified \in Nat
           /\ job.since \in Nat /\ job.cutoff \in Nat
  <1>1. boundary.rows \in [Sessions -> Row] /\ job.rows \in [Sessions -> Row]
        /\ job.prior \in [Sessions -> Row] /\ job.msgs \in [Sessions -> Nat]
        /\ job.since \in Nat /\ job.cutoff \in Nat
    BY DEF TypeOK, Boundary, Job
  <1>2. ASSUME NEW s \in Sessions
        PROVE  /\ row[s] \in Row /\ boundary.rows[s] \in Row /\ job.rows[s] \in Row
               /\ file[s].mtime \in Nat /\ file[s].body \in Nat
    BY <1>1 DEF TypeOK
  <1>3. ASSUME NEW s \in Sessions
        PROVE  /\ row[s].created \in Nat /\ row[s].mtime \in Nat
               /\ row[s].modified \in Nat /\ row[s].body \in Nat /\ row[s].name \in Nat
               /\ boundary.rows[s].modified \in Nat /\ job.rows[s].modified \in Nat
    BY <1>2 DEF Row
  <1>. QED BY <1>1, <1>2, <1>3 DEF TypeOK

-----------------------------------------------------------------------------
(* The local side.  It leaves the push alone, but for what it has touched. *)

SameJob == job' \in Job /\ job' = [job EXCEPT !.dirty = job'.dirty]

LEMMA JobSame ==
    ASSUME job \in Job, SameJob
    PROVE  /\ job'.step = job.step /\ job'.full = job.full /\ job'.only = job.only
           /\ job'.since = job.since /\ job'.cutoff = job.cutoff /\ job'.rows = job.rows
           /\ job'.prior = job.prior /\ job'.left = job.left /\ job'.batch = job.batch
           /\ job'.retry = job.retry /\ job'.single = job.single /\ job'.tx = job.tx
           /\ job'.msgs = job.msgs /\ job'.pushed = job.pushed /\ job'.failed = job.failed
  BY DEF SameJob, Job

LEMMA TouchedJob ==
    ASSUME job \in Job, NEW s \in Sessions, Touched(s)
    PROVE  SameJob /\ job'.dirty = job.dirty \cup {s}
  <1>1. job.dirty \cup {s} \in SUBSET Sessions
    BY DEF Job
  <1>. QED BY <1>1 DEF Touched, SameJob, Job

LEMMA SameJobSame == ASSUME job \in Job, job' = job PROVE SameJob /\ job'.dirty = job.dirty
  BY DEF SameJob, Job

(* What a step of the local side may do to session t.                      *)
LocalStep(t) ==
    /\ Before(row[t], row'[t])
    /\ job.dirty \subseteq job'.dirty
    /\ row'[t] # row[t] => t \in job'.dirty
    /\ Ready => Dirty(t)'
    /\ row'[t] = row[t] =>
          \/ row[t].modified = now
          \/ /\ msgs'[t] = msgs[t] \/ Pending(t)'
             /\ Pending(t) => Pending(t)'
    /\ Settled(t)' =>
          \/ Settled(t) /\ row'[t] = row[t] /\ msgs'[t] = msgs[t]
          \/ now <= row'[t].modified

LEMMA LocalKeeps ==
    ASSUME IInv, TypeOK', SameJob, UNCHANGED <<wm, boundary, pg>>, now <= now',
           Plain(world) => Plain(world'), NEW t \in Sessions, LocalStep(t)
    PROVE  Session(t)'
  <1>1. job \in Job /\ row[t] \in Row /\ row'[t] \in Row /\ boundary.rows[t] \in Row
        /\ job.rows[t] \in Row /\ now \in Nat /\ now' \in Nat /\ wm \in Nat /\ wm <= now
        /\ row[t].modified \in Nat /\ row'[t].modified \in Nat
        /\ boundary.rows[t].modified \in Nat /\ job.rows[t].modified \in Nat
        /\ job.cutoff \in Nat
    <2>1. TypeOK
      BY DEF IInv
    <2>2. row'[t] \in Row /\ row'[t].modified \in Nat /\ now' \in Nat
      BY DEF TypeOK, Row
    <2>. QED BY <2>1, <2>2, Typed DEF IInv, Clocks
  <1>2. Session(t)
    BY DEF IInv
  <1>3. Excuse => Excuse'
    BY <1>1, JobSame DEF Excuse, Empty
  <1>4. InPg(t) /\ row'[t] = row[t] /\ row[t].modified # now => InPg(t)'
    BY DEF InPg, LocalStep
  <1>5. Remembers(t)'
    <2>1. Before(boundary.rows[t], row'[t]) /\ (boundary.rows[t] = row'[t] => row[t] = row'[t])
      BY <1>1, <1>2, Onward DEF Session, Remembers, LocalStep
    <2>2. boundary.rows[t].modified < now' /\ boundary.rows[t].modified # now
      BY <1>1, <1>2 DEF Session, Remembers
    <2>3. ASSUME t \in Known', boundary.rows[t] = row'[t] PROVE InPg(t)' \/ Excuse'
      <3>1. row[t] = row'[t] /\ t \in Known
        BY <2>1, <2>3 DEF Known
      <3>. QED BY <1>2, <1>3, <1>4, <2>2, <2>3, <3>1 DEF Session, Remembers
    <2>. QED BY <2>1, <2>2, <2>3 DEF Remembers
  <1>6. Behind(t)'
    <2>1. ASSUME Settled(t)', localSessionSyncMarker(row'[t]) < wm
          PROVE  Mirrored(t)' \/ (Excuse' /\ job'.step # "boundary")
      <3>1. row'[t].modified <= localSessionSyncMarker(row'[t]) /\ localSessionSyncMarker(row'[t]) \in Nat
        BY <1>1, MarkerIsNewest
      <3>2. ~(now <= row'[t].modified)
        BY <1>1, <2>1, <3>1
      <3>3. Settled(t) /\ row'[t] = row[t] /\ msgs'[t] = msgs[t]
        BY <2>1, <3>2 DEF LocalStep
      <3>4. Mirrored(t) \/ (Excuse /\ job.step # "boundary")
        BY <1>2, <2>1, <3>3 DEF Session, Behind
      <3>. QED BY <1>1, <1>3, <3>3, <3>4, JobSame DEF Mirrored
    <2>. QED BY <2>1 DEF Behind
  <1>7. ASSUME Listed' PROVE Listing(t)'
    <2>1. Listing(t)
      BY <1>1, <1>2, <1>7, JobSame DEF Session, Listed
    <2>2. Before(job.rows[t], row'[t]) /\ (job.rows[t] = row'[t] => row[t] = row'[t])
      BY <1>1, <2>1, Onward DEF Listing, LocalStep
    <2>3. row'[t] # job.rows[t] => t \in job'.dirty
      BY <2>1 DEF Listing, LocalStep
    <2>4. t \in job.tx \/ t \in job.pushed => job.rows[t].modified # now
      <3>1. job.tx \subseteq job.batch
        BY DEF IInv, TypeOK
      <3>2. t \in job.tx \/ t \in job.pushed => t \in Taken /\ job.cutoff < now
        BY <3>1 DEF IInv, Jobs, Taken, Work
      <3>. QED BY <1>1, <2>1, <3>2 DEF Listing
    <2>5. ASSUME t \in job.tx, row'[t] = job.rows[t] PROVE job.msgs[t] = msgs'[t] \/ Pending(t)'
      BY <2>1, <2>2, <2>4, <2>5 DEF Listing, LocalStep
    <2>6. ASSUME t \in job.pushed, row'[t] = job.rows[t] PROVE InPg(t)'
      BY <1>4, <2>1, <2>2, <2>4, <2>6 DEF Listing
    <2>7. Taken' = Taken
      BY <1>1, JobSame DEF Taken, Work
    <2>. QED BY <1>1, <2>1, <2>2, <2>3, <2>5, <2>6, <2>7, JobSame DEF Listing
  <1>8. ASSUME Ready' PROVE Dirty(t)'
    BY <1>1, <1>8, JobSame DEF LocalStep, Ready
  <1>. QED BY <1>5, <1>6, <1>7, <1>8 DEF Session

Milder ==
    /\ world'.filters = world.filters
    /\ Careful(world) => Careful(world')
    /\ Plain(world) => Plain(world')
    /\ world'.resets > 0 => world.resets > 0

LEMMA MilderSpend == ASSUME world \in World, NEW what \in Bounds, Spend(what) PROVE Milder
  BY SpendFacts DEF Milder

LEMMA MilderSame == ASSUME world' = world PROVE Milder
  BY DEF Milder, Careful, Plain

LEMMA LocalInv ==
    ASSUME IInv, TypeOK', SameJob, UNCHANGED <<wm, boundary, pg>>, now <= now', Milder,
           Clocks', Passing', \A t \in Sessions : LocalStep(t)
    PROVE  IInv'
  <1>1. job \in Job /\ now \in Nat /\ now' \in Nat /\ job.cutoff \in Nat
    BY Typed DEF IInv, TypeOK
  <1>2. Careful(world')
    BY DEF IInv, Milder
  <1>3. Jobs'
    <2>1. Jobs /\ (Ready' <=> Ready) /\ (Listed' <=> Listed) /\ Work' = Work /\ FinalCutoff' = FinalCutoff
      BY <1>1, JobSame DEF IInv, Ready, Listed, Work, FinalCutoff
    <2>2. (Empty' <=> Empty)
      BY DEF Empty
    <2>3. world'.resets > 0 => job'.failed = {} /\ (~Empty' /\ job'.step # "push" => wm' # 0)
      BY <1>1, <2>1, <2>2, JobSame DEF Jobs, Milder
    <2>7. job'.cutoff = job.cutoff /\ job'.batch = job.batch /\ job'.pushed = job.pushed
          /\ job'.since = job.since /\ wm' = wm
      BY <1>1, JobSame
    <2>4. job'.batch \cup job'.pushed # {} => job'.cutoff < now'
      <3>1. ASSUME job.batch \cup job.pushed # {} PROVE job.cutoff < now
        BY <2>1, <3>1 DEF Jobs
      <3>. QED BY <1>1, <2>7, <3>1
    <2>5. Ready' => 1 <= job'.cutoff /\ job'.cutoff <= now' /\ wm' <= job'.cutoff /\ job'.since <= job'.cutoff
      <3>1. ASSUME Ready PROVE 1 <= job.cutoff /\ job.cutoff <= now /\ wm <= job.cutoff /\ job.since <= job.cutoff
        BY <2>1, <3>1 DEF Jobs
      <3>. QED BY <1>1, <2>1, <2>7, <3>1
    <2>6. job'.step # "idle" => job'.only \in world'.filters
      BY <1>1, <2>1, JobSame DEF Jobs, Milder
    <2>. QED BY <1>1, <2>1, <2>3, <2>4, <2>5, <2>6, JobSame DEF Jobs
  <1>4. ASSUME NEW t \in Sessions PROVE Session(t)'
    BY LocalKeeps DEF Milder
  <1>. QED BY <1>2, <1>3, <1>4 DEF IInv

(* A session the step does not touch.                                      *)
LEMMA Untouched ==
    ASSUME IInv, SameJob, NEW t \in Sessions, job.dirty \subseteq job'.dirty,
           t \in job'.dirty => t \in job.dirty,
           row'[t] = row[t], msgs'[t] = msgs[t],
           pass' = pass \/ (pass.of # t /\ pass'.of # t),
           row[t].mtime # file[t].mtime => row[t].mtime # file'[t].mtime
    PROVE  LocalStep(t)
  <1>1. job \in Job /\ row[t] \in Row
    BY Typed DEF IInv
  <1>2. Ready => Dirty(t)'
    BY <1>1, JobSame DEF IInv, Session, Dirty
  <1>3. Pending(t) => Pending(t)'
    BY DEF Pending
  <1>4. Settled(t)' => Settled(t)
    BY DEF Settled, Known
  <1>. QED BY <1>1, <1>2, <1>3, <1>4, BeforeSelf DEF LocalStep

LEMMA TickStep == ASSUME IInv, Tick PROVE IInv'
  <1>1. TypeOK /\ now \in Nat /\ now' = now + 1 /\ now' \in Nat /\ now <= now' /\ wm \in Nat /\ job \in Job
    BY Typed DEF IInv, Tick, TypeOK
  <1>2. TypeOK' /\ SameJob /\ Milder
    BY <1>1, SameJobSame, MilderSame DEF Tick, localVars, TypeOK
  <1>3. Clocks'
    BY <1>1, Typed DEF Tick, localVars, IInv, Clocks, Stamped
  <1>4. Passing'
    BY DEF Tick, localVars, IInv, Passing
  <1>5. \A t \in Sessions : LocalStep(t)
    BY <1>2, Untouched DEF Tick, localVars
  <1>. QED BY <1>1, <1>2, <1>3, <1>4, <1>5, LocalInv DEF Tick

LEMMA AppendStep == ASSUME IInv, NEW s \in Sessions, Append(s) PROVE IInv'
  <1>1. TypeOK /\ now \in Nat /\ job \in Job /\ world \in World
    BY Typed DEF IInv
  <1>2. Spend("appends") /\ UNCHANGED <<now, row, msgs, pass, wm, boundary, pg, job>>
    BY DEF Append
  <1>3. /\ file' \in [Sessions -> [mtime : Nat, body : Nat]]
        /\ \A t \in Sessions : /\ file'[t].mtime = IF t = s THEN now ELSE file[t].mtime
                               /\ file'[t].mtime \in Nat
    <2>1. file[s].body + 1 \in Nat
      BY <1>1, Typed
    <2>. QED BY <1>1, <2>1, Typed DEF Append
  <1>4. TypeOK' /\ SameJob /\ Milder
    <2>1. world' \in World /\ Milder
      BY <1>1, <1>2, SpendFacts, MilderSpend DEF Bounds
    <2>. QED BY <1>1, <1>2, <1>3, <2>1, SameJobSame DEF TypeOK
  <1>5. Clocks'
    BY <1>1, <1>2, <1>3, Typed DEF IInv, Clocks, Stamped
  <1>6. Passing'
    <2>1. pass.step = "update" => pass.of \in Sessions /\ pass.mtime \in Nat
      BY <1>1 DEF TypeOK
    <2>2. ASSUME pass.step = "update" PROVE pass.mtime <= file'[pass.of].mtime
      <3>1. pass.mtime <= file[pass.of].mtime /\ file[pass.of].mtime <= now
        BY <2>1, <2>2 DEF IInv, Passing, Clocks, Stamped
      <3>2. file[pass.of].mtime \in Nat /\ pass.mtime \in Nat
        BY <1>1, <2>1, <2>2, Typed
      <3>. QED BY <1>1, <1>3, <2>1, <2>2, <3>1, <3>2
    <2>. QED BY <1>2, <2>2 DEF IInv, Passing
  <1>7. ASSUME NEW t \in Sessions PROVE LocalStep(t)
    <2>1. row[t].mtime # file[t].mtime => row[t].mtime # file'[t].mtime
      BY <1>1, <1>3, Typed DEF IInv, Clocks, Stamped
    <2>. QED BY <1>1, <1>2, <1>4, <2>1, Untouched
  <1>. QED BY <1>1, <1>2, <1>4, <1>5, <1>6, <1>7, LocalInv

(* A row changes and the session is marked as touched.                     *)
LEMMA RowStep ==
    ASSUME IInv, NEW s \in Sessions, UNCHANGED <<now, file, wm, boundary, pg>>,
           NEW r \in Row, row' = [row EXCEPT ![s] = r], Before(row[s], r), Touched(s), Milder,
           world' \in World,
           r.created # 0, r.created <= now, 1 <= r.mtime, r.mtime <= file[s].mtime, r.modified <= now,
           msgs' = msgs, Passing',
           pass' \in [step : PassSteps, of : Sessions \cup {0}, mtime : Nat, body : Nat],
           pass'.step # "idle" => pass'.of \in Sessions,
           pass' = pass \/ (pass.of \in {0, s} /\ pass'.of \in {0, s}),
           pass'.of = s \/ now <= r.modified,
           r = row[s] => r.modified = now \/ (pass' = pass)
    PROVE  IInv'
  <1>1. TypeOK /\ job \in Job /\ row \in [Sessions -> Row] /\ s # 0 /\ now \in Nat
        /\ row[s] \in Row /\ 0 \notin Sessions /\ job.cutoff \in Nat /\ r.modified \in Nat
    BY Typed, NoPassFacts DEF IInv, Row
  <1>2. SameJob /\ job'.dirty = job.dirty \cup {s} /\ job' \in Job /\ job'.cutoff = job.cutoff
        /\ job'.step = job.step
    BY <1>1, TouchedJob, JobSame DEF SameJob
  <1>3. row' \in [Sessions -> Row] /\ row'[s] = r /\ \A t \in Sessions \ {s} : row'[t] = row[t]
    BY <1>1
  <1>4. TypeOK'
    <2>1. job'.tx \subseteq job'.batch
      BY <1>1, <1>2, JobSame DEF TypeOK
    <2>. QED BY <1>1, <1>2, <1>3, <2>1 DEF TypeOK
  <1>5. Clocks'
    <2>1. ASSUME NEW t \in Sessions PROVE Stamped(t)'
      BY <1>1, <1>3 DEF IInv, Clocks, Stamped
    <2>. QED BY <2>1 DEF IInv, Clocks
  <1>6. ASSUME NEW t \in Sessions PROVE LocalStep(t)
    <2>1. CASE t # s
      <3>1. pass' = pass \/ (pass.of # t /\ pass'.of # t)
        BY <1>1, <2>1
      <3>. QED BY <1>2, <1>3, <2>1, <3>1, Untouched
    <2>2. CASE t = s
      <3>1. Before(row[t], row'[t]) /\ job.dirty \subseteq job'.dirty /\ t \in job'.dirty
        BY <1>2, <1>3, <2>2
      <3>2. Ready => Dirty(t)'
        <4>1. Ready => job.cutoff <= now
          BY DEF IInv, Jobs
        <4>. QED BY <1>1, <1>2, <1>3, <2>2, <4>1 DEF Dirty
      <3>3. row'[t] = row[t] => row[t].modified = now \/ (msgs'[t] = msgs[t] /\ (Pending(t) => Pending(t)'))
        BY <1>3, <2>2 DEF Pending
      <3>4. Settled(t)' => now <= row'[t].modified
        BY <1>3, <2>2 DEF Settled
      <3>. QED BY <3>1, <3>2, <3>3, <3>4 DEF LocalStep
    <2>. QED BY <2>1, <2>2
  <1>. QED BY <1>1, <1>2, <1>4, <1>5, <1>6, LocalInv

LEMMA UpsertSessionStep == ASSUME IInv, NEW s \in Sessions, UpsertSession(s) PROVE IInv'
  <1>1. TypeOK /\ row \in [Sessions -> Row] /\ row[s] \in Row /\ now \in Nat
        /\ file[s].mtime \in Nat /\ file[s].body \in Nat /\ row[s].mtime \in Nat
        /\ row[s].created \in Nat /\ row[s].modified \in Nat /\ row[s].name \in Nat
        /\ 1 <= now /\ Stamped(s) /\ pass = NoPass
    BY Typed DEF IInv, Clocks, Passing, UpsertSession
  <1> DEFINE r == row'[s]
  <1>2. /\ row' = [row EXCEPT ![s] = r]
        /\ r \in Row
        /\ r.created = IF row[s].created = 0 THEN now ELSE row[s].created
        /\ r.mtime = file[s].mtime /\ r.body = file[s].body
        /\ r.modified = row[s].modified /\ r.name = row[s].name
    <2> DEFINE c == IF row[s].created = 0 THEN now ELSE row[s].created
    <2>1. c \in Nat
      BY <1>1
    <2>2. row' = [row EXCEPT ![s] = [row[s] EXCEPT !.created = c, !.mtime = file[s].mtime,
                                                   !.body = file[s].body]]
      BY <1>1 DEF UpsertSession, Row
    <2> HIDE DEF c
    <2>3. r = [row[s] EXCEPT !.created = c, !.mtime = file[s].mtime, !.body = file[s].body]
      BY <1>1, <2>2
    <2>4. r \in Row /\ r.created = c /\ r.mtime = file[s].mtime /\ r.body = file[s].body
          /\ r.modified = row[s].modified /\ r.name = row[s].name
      BY <1>1, <2>1, <2>3 DEF Row
    <2>. QED BY <2>2, <2>3, <2>4 DEF c
  <1> HIDE DEF r
  <1>3. pass'.step = "messages" /\ pass'.of = s
        /\ pass' \in [step : PassSteps, of : Sessions \cup {0}, mtime : Nat, body : Nat]
    BY <1>1 DEF UpsertSession, Read, PassSteps
  <1>4. Before(row[s], r) /\ r # row[s] /\ r.created # 0 /\ 1 <= r.mtime
    <2>1. r.mtime # row[s].mtime
      BY <1>2 DEF UpsertSession
    <2>2. row[s].created <= r.created
      BY <1>1, <1>2
    <2>3. row[s].mtime <= r.mtime /\ 1 <= r.mtime /\ r.created # 0
      BY <1>1, <1>2 DEF Stamped
    <2>. QED BY <1>1, <1>2, <2>1, <2>2, <2>3 DEF Before
  <1>5. Passing'
    BY <1>3, <1>4 DEF Passing, r
  <1>6. pass.of = 0
    BY <1>1, NoPassFacts
  <1>7. UNCHANGED <<now, file, msgs, wm, boundary, pg, world>> /\ Touched(s)
    BY DEF UpsertSession
  <1>8. r.mtime <= file[s].mtime /\ r.modified <= now /\ r.created <= now
    BY <1>1, <1>2 DEF Stamped
  <1>9. Milder /\ world' \in World
    BY <1>1, <1>7, MilderSame DEF TypeOK
  <1>. QED BY <1>2, <1>3, <1>4, <1>5, <1>6, <1>7, <1>8, <1>9, RowStep

LEMMA UpdateSessionIncrementalStep == ASSUME IInv, UpdateSessionIncremental PROVE IInv'
  <1> DEFINE s == pass.of
             r == row'[s]
  <1>1. TypeOK /\ s \in Sessions /\ row \in [Sessions -> Row] /\ row[s] \in Row /\ row[s].created # 0
        /\ pass.mtime \in Nat /\ pass.body \in Nat /\ now \in Nat /\ row[s].mtime \in Nat
        /\ row[s].mtime < pass.mtime /\ pass.mtime <= file[s].mtime /\ file[s].mtime \in Nat
        /\ row[s].created \in Nat /\ row[s].modified \in Nat /\ row[s].name \in Nat
        /\ Stamped(s)
    <2>1. TypeOK /\ pass.of \in Sessions /\ pass.mtime \in Nat /\ pass.body \in Nat
      BY DEF IInv, TypeOK, UpdateSessionIncremental
    <2>. QED BY <2>1, Typed DEF IInv, Clocks, Passing, UpdateSessionIncremental
  <1>2. /\ row' = [row EXCEPT ![s] = r]
        /\ r \in Row
        /\ r.created = row[s].created /\ r.mtime = pass.mtime
        /\ r.modified = row[s].modified /\ r.name = row[s].name
    <2>1. row' = [row EXCEPT ![s] = [row[s] EXCEPT !.mtime = pass.mtime, !.body = pass.body]]
      BY <1>1 DEF UpdateSessionIncremental, Row
    <2>2. r = [row[s] EXCEPT !.mtime = pass.mtime, !.body = pass.body]
      BY <1>1, <2>1
    <2>3. r \in Row /\ r.created = row[s].created /\ r.mtime = pass.mtime
          /\ r.modified = row[s].modified /\ r.name = row[s].name
      BY <1>1, <2>2 DEF Row
    <2>. QED BY <2>1, <2>2, <2>3
  <1> HIDE DEF r
  <1>3. pass'.step = "stamp" /\ pass'.of = s
        /\ pass' \in [step : PassSteps, of : Sessions \cup {0}, mtime : Nat, body : Nat]
    BY <1>1 DEF UpdateSessionIncremental, TypeOK, PassSteps
  <1>4. Before(row[s], r) /\ r # row[s] /\ 1 <= r.mtime
    BY <1>1, <1>2 DEF Before
  <1>5. Passing'
    BY <1>1, <1>2, <1>3 DEF Passing, r
  <1>6. UNCHANGED <<now, file, msgs, wm, boundary, pg, world>> /\ Touched(s)
    BY DEF UpdateSessionIncremental
  <1>7. Milder /\ world' \in World /\ r.modified <= now /\ r.created <= now
    BY <1>1, <1>2, <1>6, MilderSame DEF TypeOK, Stamped
  <1> HIDE DEF s
  <1>. QED BY <1>1, <1>2, <1>3, <1>4, <1>5, <1>6, <1>7, RowStep DEF s

(* A row is stamped with the time of the change.                           *)
LEMMA Restamped ==
    ASSUME NEW q \in Row, NEW r \in Row, r.modified = now, q.modified <= now, now \in Nat,
           r.created = q.created, r.mtime = q.mtime, r.body = q.body, q.name <= r.name
    PROVE  Before(q, r)
  BY DEF Before, Row

LEMMA UpdateSessionSignalsStep == ASSUME IInv, UpdateSessionSignals PROVE IInv'
  <1> DEFINE s == pass.of
             r == row'[s]
  <1>1. TypeOK /\ s \in Sessions /\ row \in [Sessions -> Row] /\ row[s] \in Row /\ row[s].created # 0
        /\ now \in Nat /\ Stamped(s) /\ row[s].name \in Nat
    <2>1. TypeOK /\ pass.of \in Sessions
      BY DEF IInv, TypeOK, UpdateSessionSignals
    <2>. QED BY <2>1, Typed DEF IInv, Clocks, Passing, UpdateSessionSignals
  <1>2. row' = [row EXCEPT ![s] = r] /\ r = [row[s] EXCEPT !.modified = now]
    BY <1>1 DEF UpdateSessionSignals
  <1>3. r \in Row /\ r.created = row[s].created /\ r.mtime = row[s].mtime /\ r.body = row[s].body
        /\ r.modified = now /\ r.name = row[s].name
    BY <1>1, <1>2 DEF Row
  <1> HIDE DEF r
  <1>4. pass' = NoPass /\ pass'.of = 0 /\ pass'.step = "idle"
        /\ pass' \in [step : PassSteps, of : Sessions \cup {0}, mtime : Nat, body : Nat]
    BY NoPassFacts DEF UpdateSessionSignals
  <1>5. Before(row[s], r)
    BY <1>1, <1>3, Restamped DEF Stamped, Row
  <1>6. Passing'
    BY <1>4 DEF Passing
  <1>7. UNCHANGED <<now, file, msgs, wm, boundary, pg, world>> /\ Touched(s)
    BY DEF UpdateSessionSignals
  <1>8. Milder /\ world' \in World /\ r.modified <= now /\ now <= r.modified
    BY <1>1, <1>3, <1>7, MilderSame DEF TypeOK
  <1>9. r.created # 0 /\ r.created <= now /\ 1 <= r.mtime /\ r.mtime <= file[s].mtime
    BY <1>1, <1>3 DEF Stamped
  <1> HIDE DEF s
  <1>. QED BY <1>1, <1>2, <1>3, <1>4, <1>5, <1>6, <1>7, <1>8, <1>9, RowStep DEF s

LEMMA EditStep == ASSUME IInv, NEW s \in Sessions, Edit(s) PROVE IInv'
  <1> DEFINE r == row'[s]
  <1>1. TypeOK /\ row \in [Sessions -> Row] /\ row[s] \in Row /\ row[s].created # 0
        /\ now \in Nat /\ Stamped(s) /\ row[s].name \in Nat /\ row[s].name + 1 \in Nat /\ Passing
    BY Typed DEF IInv, Clocks, Edit, Known
  <1>2. row' = [row EXCEPT ![s] = r] /\ r = [row[s] EXCEPT !.name = row[s].name + 1, !.modified = now]
    BY <1>1 DEF Edit, Row
  <1>3. r \in Row /\ r.created = row[s].created /\ r.mtime = row[s].mtime /\ r.body = row[s].body
        /\ r.modified = now /\ r.name = row[s].name + 1
    BY <1>1, <1>2 DEF Row
  <1> HIDE DEF r
  <1>4. Before(row[s], r)
    BY <1>1, <1>3, Restamped DEF Stamped, Row
  <1>5. UNCHANGED <<now, file, msgs, pass, wm, boundary, pg>> /\ Touched(s)
    BY DEF Edit
  <1>6. Passing'
    <2>1. pass.step # "idle" => pass.of \in Sessions
      BY <1>1 DEF TypeOK
    <2>2. ASSUME pass.step # "idle"
          PROVE  row'[pass.of].created = row[pass.of].created /\ row'[pass.of].mtime = row[pass.of].mtime
      BY <1>1, <1>2, <1>3, <2>1, <2>2
    <2>. QED BY <1>1, <1>5, <2>2 DEF Passing
  <1>7. Milder /\ world' \in World /\ r.modified <= now /\ now <= r.modified
    BY <1>1, <1>3, MilderSpend, SpendFacts DEF TypeOK, Edit, Bounds
  <1>8. r.created # 0 /\ r.created <= now /\ 1 <= r.mtime /\ r.mtime <= file[s].mtime
    BY <1>1, <1>3 DEF Stamped
  <1>9. pass' \in [step : PassSteps, of : Sessions \cup {0}, mtime : Nat, body : Nat]
        /\ (pass'.step # "idle" => pass'.of \in Sessions)
    BY <1>1, <1>5 DEF TypeOK
  <1>. QED BY <1>1, <1>2, <1>3, <1>4, <1>5, <1>6, <1>7, <1>8, <1>9, RowStep

(* The messages of a session change, in the middle of a pass.              *)
LEMMA MessagesStep ==
    ASSUME IInv, NEW s \in Sessions, UNCHANGED <<now, file, row, wm, boundary, pg, world>>,
           NEW m \in Nat, msgs' = [msgs EXCEPT ![s] = m], Touched(s), Passing',
           pass' \in [step : PassSteps, of : Sessions \cup {0}, mtime : Nat, body : Nat],
           pass'.of = s, pass.of \in {0, s},
           Pending(s)'
    PROVE  IInv'
  <1>1. TypeOK /\ job \in Job /\ now \in Nat /\ msgs \in [Sessions -> Nat] /\ 0 \notin Sessions
        /\ row[s] \in Row
    BY Typed, NoPassFacts DEF IInv
  <1>2. SameJob /\ job'.dirty = job.dirty \cup {s} /\ job' \in Job
    BY <1>1, TouchedJob DEF SameJob
  <1>3. TypeOK' /\ Clocks'
    <2>1. job'.tx \subseteq job'.batch
      BY <1>1, <1>2, JobSame DEF TypeOK
    <2>. QED BY <1>1, <1>2, <2>1 DEF TypeOK, IInv, Clocks, Stamped
  <1>4. ASSUME NEW t \in Sessions PROVE LocalStep(t)
    <2>1. CASE t # s
      <3>1. pass.of # t /\ pass'.of # t /\ msgs'[t] = msgs[t]
        BY <1>1, <2>1
      <3>. QED BY <1>2, <2>1, <3>1, Untouched
    <2>2. CASE t = s
      BY <1>1, <1>2, <2>2, BeforeSelf DEF LocalStep, Dirty, Settled
    <2>. QED BY <2>1, <2>2
  <1>. QED BY <1>1, <1>2, <1>3, <1>4, LocalInv, MilderSame

LEMMA WriteMessagesStep == ASSUME IInv, WriteMessages PROVE IInv'
  <1>1. pass.of \in Sessions /\ pass.body \in Nat
    BY DEF IInv, TypeOK, WriteMessages
  <1>2. pass'.step = "stamp" /\ pass'.of = pass.of
        /\ pass' \in [step : PassSteps, of : Sessions \cup {0}, mtime : Nat, body : Nat]
    BY <1>1 DEF IInv, TypeOK, WriteMessages, PassSteps
  <1>3. Passing'
    BY <1>1, <1>2 DEF IInv, Passing, WriteMessages
  <1>. QED BY <1>1, <1>2, <1>3, MessagesStep DEF WriteMessages, Pending

LEMMA AppendMessagesStep == ASSUME IInv, NEW s \in Sessions, AppendMessages(s) PROVE IInv'
  <1>1. TypeOK /\ file[s].mtime \in Nat /\ file[s].body \in Nat /\ row[s].mtime \in Nat
        /\ Stamped(s) /\ row[s].created # 0 /\ row[s].mtime # file[s].mtime
    BY Typed DEF IInv, Clocks, AppendMessages, Known
  <1>2. pass'.step = "update" /\ pass'.of = s /\ pass'.mtime = file[s].mtime
        /\ pass' \in [step : PassSteps, of : Sessions \cup {0}, mtime : Nat, body : Nat]
    BY <1>1 DEF AppendMessages, Read, PassSteps
  <1>3. Passing'
    BY <1>1, <1>2 DEF Passing, AppendMessages, Stamped
  <1>4. pass.of = 0
    BY NoPassFacts DEF IInv, Passing, AppendMessages
  <1>. QED BY <1>1, <1>2, <1>3, <1>4, MessagesStep DEF AppendMessages, Pending

LEMMA PassEndsStep == ASSUME IInv, PassEnds PROVE IInv'
  <1>1. TypeOK /\ job \in Job /\ now \in Nat /\ pass.of \in Sessions /\ pass.step = "update"
        /\ row[pass.of].mtime # file[pass.of].mtime
    <2>1. TypeOK /\ pass.step \in {"update"}
      BY DEF IInv, Careful, PassEnds
    <2>2. pass.of \in Sessions /\ row[pass.of].mtime < pass.mtime /\ pass.mtime <= file[pass.of].mtime
          /\ pass.mtime \in Nat
      BY <2>1 DEF IInv, Passing, TypeOK
    <2>. QED BY <2>1, <2>2, Typed
  <1>2. pass' = NoPass /\ UNCHANGED <<now, file, row, msgs, wm, boundary, pg, job, world>>
        /\ 0 \notin Sessions /\ pass'.of = 0 /\ pass'.step = "idle" /\ SameJob /\ job'.dirty = job.dirty
    BY <1>1, NoPassFacts, SameJobSame DEF PassEnds
  <1>3. TypeOK' /\ Clocks'
    BY <1>1, <1>2, NoPassFacts DEF TypeOK, IInv, Clocks, Stamped
  <1>4. Passing'
    BY <1>2 DEF Passing
  <1>5. ASSUME NEW t \in Sessions PROVE LocalStep(t)
    <2>1. CASE t # pass.of
      BY <1>2, <2>1, Untouched
    <2>2. CASE t = pass.of
      <3>1. row[t] \in Row /\ (Ready => Dirty(t))
        BY <1>1, Typed DEF IInv, Session
      <3>2. Ready => Dirty(t)'
        BY <1>1, <1>2, <2>2, <3>1 DEF Dirty
      <3>. QED BY <1>1, <1>2, <2>2, <3>1, <3>2, BeforeSelf DEF LocalStep, Pending, Settled
    <2>. QED BY <2>1, <2>2
  <1>. QED BY <1>1, <1>2, <1>3, <1>4, <1>5, LocalInv, MilderSame

-----------------------------------------------------------------------------
(* The push, up to the list of what it will take.                          *)

LEMMA PushInv ==
    ASSUME IInv, TypeOK', UNCHANGED <<now, localVars>>, Milder, wm' <= now, Jobs',
           \A t \in Sessions : Session(t)'
    PROVE  IInv'
  <1>1. Clocks' /\ Passing'
    BY DEF IInv, Clocks, Stamped, Passing, localVars
  <1>2. Careful(world')
    BY DEF IInv, Milder
  <1>. QED BY <1>1, <1>2 DEF IInv

LEMMA CopyKept ==
    ASSUME IInv, UNCHANGED <<now, localVars, wm, boundary, pg>>, NEW t \in Sessions,
           Excuse => Excuse' /\ (job.step # "boundary" => job'.step # "boundary")
    PROVE  Remembers(t)' /\ Behind(t)'
  BY DEF IInv, Session, Remembers, Behind, InPg, Pending, Known, Settled, Mirrored, localVars

LEMMA StartStep ==
    ASSUME IInv, NEW full \in BOOLEAN, NEW only \in world.filters, Start(full, only)
    PROVE  IInv'
  <1> DEFINE all == full \/ (wm # 0 /\ Empty)
             step == IF all /\ only # Sessions THEN "clear boundary" ELSE "cutoff"
             since == IF all THEN 0 ELSE wm
  <1>1. TypeOK /\ world \in World /\ only \in SUBSET Sessions /\ wm \in Nat /\ wm <= now /\ job.step = "idle"
        /\ all \in BOOLEAN /\ step \in {"clear boundary", "cutoff"} /\ since \in Nat
    BY Typed DEF IInv, World, Start, Clocks
  <1>2. job' = [NoJob EXCEPT !.step = step, !.full = all, !.only = only, !.since = since]
    BY DEF Start
  <1>3. /\ all => since = 0
        /\ ~all => since = wm
        /\ step = "clear boundary" => all /\ only # Sessions
        /\ wm # 0 /\ Empty => all
    OBVIOUS
  <1> HIDE DEF all, step, since
  <1>4. /\ job' \in Job /\ job'.step = step /\ job'.full = all /\ job'.only = only /\ job'.since = since
        /\ job'.left = {} /\ job'.batch = {} /\ job'.retry = {} /\ job'.tx = {}
        /\ job'.pushed = {} /\ job'.failed = {}
    BY <1>1, <1>2, NoJobFacts DEF Job
  <1>5. world' \in World /\ Milder
    BY <1>1, MilderSame, MilderSpend, SpendFacts DEF Start, Bounds
  <1>6. UNCHANGED <<now, localVars, wm, boundary, pg>>
    BY DEF Start
  <1>7. TypeOK'
    BY <1>1, <1>4, <1>5, <1>6 DEF TypeOK, localVars
  <1>8. Jobs'
    <2>1. ~Ready' /\ ~Listed' /\ Work' = {}
      BY <1>1, <1>4 DEF Ready, Listed, Work
    <2>2. world'.resets > 0 => (~Empty' /\ job'.step # "push" => wm' # 0)
      BY <1>1, <1>5, <1>6 DEF IInv, Jobs, Milder, Empty
    <2>. QED BY <1>1, <1>3, <1>4, <1>5, <1>6, <2>1, <2>2 DEF Jobs, Milder
  <1>9. ASSUME NEW t \in Sessions PROVE Session(t)'
    <2>1. Excuse => Excuse' /\ job'.step # "boundary"
      BY <1>1, <1>3, <1>4, <1>5 DEF Excuse, Milder
    <2>. QED BY <1>1, <1>4, <1>6, <2>1, CopyKept DEF Session, Listed, Ready
  <1>. QED BY <1>1, <1>5, <1>6, <1>7, <1>8, <1>9, PushInv

(* Nothing is before no row at all.                                        *)
LEMMA NoRowBefore ==
    ASSUME IInv, NEW t \in Sessions
    PROVE  Before(NoRow, row[t]) /\ NoRow.modified < now /\ (t \in Known => NoRow # row[t])
  <1>1. row[t] \in Row /\ Stamped(t) /\ 1 <= now /\ now \in Nat /\ row[t].mtime \in Nat
        /\ row[t].created \in Nat /\ row[t].modified \in Nat /\ row[t].name \in Nat
    BY Typed DEF IInv, Clocks
  <1>2. Before(NoRow, row[t])
    <2>1. row[t].created = 0 => row[t] = NoRow
      BY <1>1 DEF Stamped
    <2>2. row[t].created # 0 => 1 <= row[t].mtime
      BY <1>1 DEF Stamped
    <2>. QED BY <1>1, <2>1, <2>2, NoRowFacts DEF Before
  <1>. QED BY <1>1, <1>2, NoRowFacts DEF Known

LEMMA ClearBoundaryStep == ASSUME IInv, ClearBoundary PROVE IInv'
  <1>1. TypeOK /\ job \in Job /\ job.step = "clear boundary" /\ wm \in Nat /\ wm <= now
        /\ job' = [job EXCEPT !.step = "clear watermark"] /\ boundary' = NoBoundary
        /\ UNCHANGED <<now, localVars, wm, pg, world>>
    BY Typed DEF IInv, ClearBoundary, Clocks
  <1>2. /\ job' \in Job /\ job'.step = "clear watermark" /\ job'.full = job.full /\ job'.only = job.only
        /\ job'.since = job.since /\ job'.cutoff = job.cutoff /\ job'.left = job.left /\ job'.batch = job.batch
        /\ job'.retry = job.retry /\ job'.single = job.single /\ job'.tx = job.tx
        /\ job'.pushed = job.pushed /\ job'.failed = job.failed
    BY <1>1 DEF Job
  <1>3. TypeOK'
    BY <1>1, <1>2, NoBoundaryFacts DEF TypeOK, localVars
  <1>4. Jobs'
    <2>1. Jobs /\ ~Ready /\ ~Ready' /\ ~Listed /\ ~Listed' /\ Work' = Work /\ (Empty' <=> Empty)
      BY <1>1, <1>2 DEF IInv, Ready, Listed, Work, Empty
    <2>. QED BY <1>1, <1>2, <2>1 DEF Jobs
  <1>5. ASSUME NEW t \in Sessions PROVE Session(t)'
    <2>1. boundary'.rows[t] = NoRow /\ row'[t] = row[t]
      BY <1>1, NoBoundaryFacts, NoRowFacts DEF localVars
    <2>2. Remembers(t)'
      BY <1>1, <2>1, NoRowBefore DEF Remembers, Known, localVars
    <2>3. Behind(t)'
      BY <1>1, <1>2 DEF IInv, Session, Behind, Settled, Known, Mirrored, Excuse, Empty, localVars
    <2>. QED BY <1>2, <2>2, <2>3 DEF Session, Listed, Ready
  <1>. QED BY <1>1, <1>3, <1>4, <1>5, PushInv, MilderSame

LEMMA ClearWatermarkStep == ASSUME IInv, ClearWatermark PROVE IInv'
  <1>1. TypeOK /\ job \in Job /\ job.step = "clear watermark" /\ wm \in Nat /\ wm <= now /\ now \in Nat
        /\ job' = [job EXCEPT !.step = "cutoff"]
        /\ UNCHANGED <<now, localVars, boundary, pg, world>>
    BY Typed DEF IInv, ClearWatermark, Clocks
  <1>0. wm' = 0 /\ wm' <= now
    <2>1. now \in Nat /\ 0 <= now
      BY Typed DEF IInv
    <2>2. wm' = 0
      BY DEF ClearWatermark
    <2>. QED BY <2>1, <2>2
  <1>2. /\ job' \in Job /\ job'.step = "cutoff" /\ job'.full = job.full /\ job'.only = job.only
        /\ job'.since = job.since /\ job'.cutoff = job.cutoff /\ job'.left = job.left /\ job'.batch = job.batch
        /\ job'.retry = job.retry /\ job'.single = job.single /\ job'.tx = job.tx
        /\ job'.pushed = job.pushed /\ job'.failed = job.failed
    BY <1>1 DEF Job
  <1>3. TypeOK'
    BY <1>0, <1>1, <1>2 DEF TypeOK, localVars
  <1>4. ~Plain(world)
    BY <1>1 DEF IInv, Jobs, Plain
  <1>5. Jobs'
    <2>1. Jobs /\ ~Ready /\ ~Ready' /\ ~Listed /\ ~Listed' /\ Work' = Work
      BY <1>1, <1>2 DEF IInv, Ready, Listed, Work
    <2>2. ~(world.resets > 0)
      BY <1>4 DEF IInv, Careful
    <2>. QED BY <1>0, <1>1, <1>2, <2>1, <2>2 DEF Jobs
  <1>6. ASSUME NEW t \in Sessions PROVE Session(t)'
    <2>1. localSessionSyncMarker(row'[t]) \in Nat
      BY <1>3, Typed, MarkerIsNewest DEF TypeOK
    <2>2. Behind(t)'
      <3>1. ~(localSessionSyncMarker(row'[t]) < wm')
        BY <1>0, <2>1
      <3>. QED BY <3>1 DEF Behind
    <2>3. Remembers(t)'
      BY <1>1, <1>4 DEF IInv, Session, Remembers, InPg, Pending, Known, Excuse, localVars
    <2>. QED BY <1>2, <2>2, <2>3 DEF Session, Listed, Ready
  <1>. QED BY <1>1, <1>3, <1>5, <1>6, <1>0, PushInv, MilderSame

LEMMA TakeCutoffStep == ASSUME IInv, TakeCutoff PROVE IInv'
  <1>1. TypeOK /\ job \in Job /\ job.step = "cutoff" /\ wm \in Nat /\ wm <= now /\ now \in Nat /\ 1 <= now
        /\ job' = [job EXCEPT !.step = "list", !.cutoff = now, !.dirty = {}]
        /\ UNCHANGED <<now, localVars, wm, boundary, pg, world>>
    BY Typed DEF IInv, TakeCutoff, Clocks
  <1>2. /\ job' \in Job /\ job'.step = "list" /\ job'.full = job.full /\ job'.only = job.only
        /\ job'.since = job.since /\ job'.left = job.left /\ job'.batch = job.batch
        /\ job'.retry = job.retry /\ job'.single = job.single /\ job'.tx = job.tx
        /\ job'.pushed = job.pushed /\ job'.failed = job.failed
        /\ job'.cutoff = now /\ job'.dirty = {}
    BY <1>1 DEF Job
  <1>3. TypeOK'
    BY <1>1, <1>2 DEF TypeOK, localVars
  <1>4. Jobs'
    <2>1. Jobs /\ ~Listed /\ ~Listed' /\ Work' = Work /\ (Empty' <=> Empty) /\ Work = {}
      BY <1>1, <1>2 DEF IInv, Listed, Work, Empty, Jobs
    <2>2. job.since <= now /\ job.batch \cup job.pushed = {}
      BY <1>1, <2>1 DEF Jobs, Work
    <2>. QED BY <1>1, <1>2, <2>1, <2>2 DEF Jobs
  <1>5. ASSUME NEW t \in Sessions PROVE Session(t)'
    <2>1. Excuse => Excuse' /\ job'.step # "boundary"
      BY <1>1, <1>2 DEF Excuse
    <2>2. Remembers(t)' /\ Behind(t)'
      BY <1>1, <2>1, CopyKept
    <2>3. localSessionSyncMarker(row[t]) <= now
      <3>1. Stamped(t) /\ row[t] \in Row /\ row[t].mtime \in Nat /\ file[t].mtime \in Nat
        BY <1>1, Typed DEF IInv, Clocks
      <3>2. row[t].created <= now /\ row[t].mtime <= now /\ row[t].modified <= now
        BY <1>1, <3>1 DEF Stamped
      <3>. QED BY <3>1, <3>2, MarkerIsNewest
    <2>4. Dirty(t)'
      <3>1. row' = row /\ t \notin job'.dirty /\ job'.cutoff = now
        BY <1>1, <1>2 DEF localVars
      <3>. QED BY <2>3, <3>1 DEF Dirty
    <2>. QED BY <1>2, <2>2, <2>4 DEF Session, Listed
  <1>. QED BY <1>1, <1>3, <1>4, <1>5, PushInv, MilderSame

(* A listed row is known, selected and stamped up to the cutoff; one that  *)
(* is not listed is old, or the boundary remembers it.                     *)
LEMMA ListedRows ==
    ASSUME IInv, job.step = "list", NEW t \in Sessions
    PROVE  LET listed == ListSessionsModifiedBetween(job.since, job.cutoff) \cup BoundarySessions
           IN  /\ t \in listed => row[t].created # 0 /\ row[t].modified <= job.cutoff
               /\ (t \in Known /\ t \in job.only /\ t \notin listed
                     /\ localSessionSyncMarker(row[t]) <= job.cutoff) =>
                     \/ ~job.full /\ boundary.rows[t] = row[t]
                     \/ localSessionSyncMarker(row[t]) < job.since
  <1> DEFINE m == localSessionSyncMarker(row[t])
  <1>1. /\ job.since \in Nat /\ job.cutoff \in Nat /\ row[t] \in Row
        /\ row[t].modified \in Nat /\ row[t].created \in Nat
    BY Typed DEF IInv
  <1>2. m \in Nat /\ row[t].modified <= m /\ row[t].created <= m
    BY <1>1, MarkerIsNewest
  <1>3. job.since <= job.cutoff /\ (job.full => job.since = 0)
    BY DEF IInv, Jobs, Ready
  <1> HIDE DEF m
  <1>4. t \in ListSessionsModifiedBetween(job.since, job.cutoff) <=>
           t \in Known /\ t \in job.only /\ m \in (job.since + 1)..job.cutoff
    BY DEF ListSessionsModifiedBetween, m
  <1>5. t \in BoundarySessions <=>
           /\ job.since # 0 /\ t \in Known /\ t \in job.only
           /\ m \in (job.since - 1 + 1)..job.since
           /\ ~(boundary.at = job.since /\ boundary.rows[t] = row[t])
    BY DEF BoundarySessions, ListSessionsModifiedBetween, m
  <1>6. (job.since - 1) + 1 = job.since
    BY <1>1
  <1>7. t \in Known <=> row[t].created # 0
    BY DEF Known
  <1>8. ASSUME t \in ListSessionsModifiedBetween(job.since, job.cutoff) \/ t \in BoundarySessions
        PROVE  row[t].created # 0 /\ row[t].modified <= job.cutoff
    BY <1>1, <1>2, <1>3, <1>4, <1>5, <1>6, <1>7, <1>8
  <1>9. ASSUME t \in Known, t \in job.only, t \notin ListSessionsModifiedBetween(job.since, job.cutoff),
               t \notin BoundarySessions, m <= job.cutoff
        PROVE  (~job.full /\ boundary.rows[t] = row[t]) \/ m < job.since
    <2>1. ~(job.since + 1 <= m)
      BY <1>1, <1>2, <1>4, <1>9
    <2>2. m <= job.since
      BY <1>1, <1>2, <2>1
    <2>3. CASE m = job.since
      <3>1. job.since # 0
        BY <1>1, <1>2, <1>7, <1>9, <2>3
      <3>2. boundary.rows[t] = row[t]
        BY <1>1, <1>2, <1>5, <1>6, <1>9, <2>3, <3>1
      <3>. QED BY <1>3, <3>1, <3>2
    <2>. QED BY <1>1, <1>2, <2>2, <2>3
  <1>. QED BY <1>8, <1>9 DEF m

LEMMA ListStep == ASSUME IInv, List PROVE IInv'
  <1> DEFINE listed == ListSessionsModifiedBetween(job.since, job.cutoff) \cup BoundarySessions
             left == {s \in listed : ~Unchanged(s)}
             prior == IF job.full THEN NoRows ELSE boundary.rows
  <1>1. TypeOK /\ job \in Job /\ job.step = "list" /\ wm <= now /\ Jobs
        /\ UNCHANGED <<now, localVars, wm, boundary, pg, world>>
        /\ row \in [Sessions -> Row] /\ prior \in [Sessions -> Row]
    BY Typed, NoRowFacts DEF IInv, List, Clocks
  <1>2. left \in SUBSET Sessions
    BY DEF ListSessionsModifiedBetween, BoundarySessions, Known
  <1>3. job' = [job EXCEPT !.step = "push", !.rows = row, !.left = left, !.prior = prior]
    BY DEF List
  <1>4. \A t \in Sessions :
           /\ t \in left => row[t].created # 0 /\ row[t].modified <= job.cutoff
           /\ (row[t].created # 0 /\ t \in job.only /\ t \notin left
                 /\ localSessionSyncMarker(row[t]) <= job.cutoff) =>
                 \/ ~job.full /\ boundary.rows[t] = row[t]
                 \/ localSessionSyncMarker(row[t]) < job.since
    BY <1>1, ListedRows DEF Unchanged, Known
  <1>5. prior = IF job.full THEN NoRows ELSE boundary.rows
    OBVIOUS
  <1> HIDE DEF left, prior, listed
  <1>6. /\ job' \in Job /\ job'.step = "push" /\ job'.full = job.full /\ job'.only = job.only
        /\ job'.since = job.since /\ job'.cutoff = job.cutoff /\ job'.left = left /\ job'.batch = job.batch
        /\ job'.retry = job.retry /\ job'.single = job.single /\ job'.tx = job.tx
        /\ job'.pushed = job.pushed /\ job'.failed = job.failed /\ job'.rows = row
        /\ job'.prior = prior /\ job'.dirty = job.dirty
    BY <1>1, <1>2, <1>3 DEF Job
  <1>7. job.left = {} /\ job.batch = {} /\ job.retry = {} /\ job.pushed = {} /\ job.failed = {} /\ job.tx = {}
    BY <1>1 DEF Jobs, Work, Listed, TypeOK
  <1>8. TypeOK'
    BY <1>1, <1>6, <1>7 DEF TypeOK, localVars
  <1>9. Jobs'
    <2>1. Ready /\ Ready' /\ Listed'
      BY <1>1, <1>6 DEF Ready, Listed
    <2>. QED BY <1>1, <1>5, <1>6, <1>7, <2>1 DEF Jobs
  <1>10. ASSUME NEW t \in Sessions PROVE Session(t)'
    <2>1. Remembers(t) /\ Dirty(t) /\ row[t] \in Row /\ row'[t] = row[t]
      BY <1>1, Typed DEF IInv, Session, Ready, localVars
    <2>2. Excuse => Excuse' /\ job'.step # "boundary"
      BY <1>1, <1>6 DEF Excuse
    <2>3. Remembers(t)' /\ Behind(t)'
      BY <1>1, <2>2, CopyKept
    <2>4. Listing(t)'
      <3>1. t \in Taken' <=> t \in left
        BY <1>6, <1>7 DEF Taken, Work
      <3>2. Before(boundary'.rows[t], row'[t]) /\ Before(row[t], row'[t])
        BY <1>1, <2>1, BeforeSelf DEF Remembers
      <3>. QED BY <1>1, <1>4, <1>6, <1>7, <2>1, <3>1, <3>2 DEF Listing
    <2>5. Dirty(t)'
      BY <1>1, <1>6, <2>1 DEF Dirty, localVars
    <2>. QED BY <2>3, <2>4, <2>5 DEF Session
  <1>. QED BY <1>1, <1>8, <1>9, <1>10, PushInv, MilderSame

-----------------------------------------------------------------------------
(* The transactions.                                                       *)

(* The step keeps the list and who is in it.                               *)
SameList ==
    /\ job'.step = job.step /\ job'.full = job.full /\ job'.only = job.only
    /\ job'.since = job.since /\ job'.cutoff = job.cutoff /\ job'.rows = job.rows
    /\ job'.prior = job.prior /\ job'.dirty = job.dirty
    /\ Taken' = Taken

LEMMA ListKept ==
    ASSUME IInv, job.step = "push", UNCHANGED <<now, localVars, boundary>>, SameList, NEW t \in Sessions,
           t \in job'.tx /\ row[t] = job.rows[t] => job'.msgs[t] = msgs[t] \/ Pending(t),
           t \in job'.pushed /\ row[t] = job.rows[t] => InPg(t)'
    PROVE  Listing(t)' /\ Dirty(t)'
  <1>1. Listing(t) /\ Dirty(t)
    BY DEF IInv, Session, Listed, Ready
  <1>2. row' = row /\ msgs' = msgs /\ file' = file /\ pass' = pass
    BY DEF localVars
  <1>3. Dirty(t)'
    BY <1>1, <1>2 DEF Dirty, SameList
  <1>4. Listing(t)'
    <2>1. t \in job'.tx /\ row'[t] = job'.rows[t] => job'.msgs[t] = msgs'[t] \/ Pending(t)'
      BY <1>2 DEF SameList, Pending
    <2>2. t \in job'.pushed /\ row'[t] = job'.rows[t] => InPg(t)'
      BY <1>2 DEF SameList
    <2>. QED BY <1>1, <1>2, <2>1, <2>2 DEF Listing, SameList
  <1>. QED BY <1>3, <1>4

LEMMA BeginTxStep == ASSUME IInv, BeginTx PROVE IInv'
  <1>1. TypeOK /\ job \in Job /\ job.step = "push" /\ wm <= now /\ Jobs /\ job.batch = {} /\ job.tx = {}
        /\ job.cutoff < now /\ UNCHANGED <<now, localVars, wm, boundary, pg, world>>
        /\ job.left \subseteq Sessions /\ job.retry \subseteq Sessions
    BY Typed DEF IInv, BeginTx, Clocks, TypeOK, Job
  <1>2. /\ job' \in Job /\ SameList /\ job'.msgs = job.msgs /\ job'.tx = job.tx
        /\ job'.pushed = job.pushed /\ job'.failed = job.failed
        /\ job'.single \/ job'.retry = {}
    <2>1. CASE job.retry # {}
      <3> DEFINE x == Lowest(1, job.retry)
      <3>1. x \subseteq job.retry
        BY DEF Lowest
      <3>2. job' = [job EXCEPT !.batch = x, !.single = TRUE, !.retry = job.retry \ x]
        BY <1>1, <2>1 DEF BeginTx, Job
      <3> HIDE DEF x
      <3>3. /\ job' \in Job /\ job'.batch = x /\ job'.retry = job.retry \ x /\ job'.left = job.left
            /\ job'.pushed = job.pushed /\ job'.failed = job.failed /\ job'.single
            /\ job'.step = job.step /\ job'.full = job.full /\ job'.only = job.only
            /\ job'.since = job.since /\ job'.cutoff = job.cutoff /\ job'.rows = job.rows
            /\ job'.prior = job.prior /\ job'.dirty = job.dirty /\ job'.tx = job.tx /\ job'.msgs = job.msgs
        BY <1>1, <3>1, <3>2 DEF Job
      <3>4. Taken' = Taken
        BY <1>1, <3>1, <3>3 DEF Taken, Work
      <3>. QED BY <3>3, <3>4 DEF SameList
    <2>2. CASE job.retry = {}
      <3> DEFINE x == Lowest(world.batch, job.left)
      <3>1. x \subseteq job.left
        BY DEF Lowest
      <3>2. job' = [job EXCEPT !.batch = x, !.left = job.left \ x, !.single = FALSE]
        BY <1>1, <2>2 DEF BeginTx, Job
      <3> HIDE DEF x
      <3>3. /\ job' \in Job /\ job'.batch = x /\ job'.left = job.left \ x /\ job'.retry = job.retry
            /\ job'.pushed = job.pushed /\ job'.failed = job.failed
            /\ job'.step = job.step /\ job'.full = job.full /\ job'.only = job.only
            /\ job'.since = job.since /\ job'.cutoff = job.cutoff /\ job'.rows = job.rows
            /\ job'.prior = job.prior /\ job'.dirty = job.dirty /\ job'.tx = job.tx /\ job'.msgs = job.msgs
        BY <1>1, <3>1, <3>2 DEF Job
      <3>4. Taken' = Taken
        BY <1>1, <2>2, <3>1, <3>3 DEF Taken, Work
      <3>. QED BY <2>2, <3>3, <3>4 DEF SameList
    <2>. QED BY <2>1, <2>2
  <1>3. TypeOK'
    BY <1>1, <1>2 DEF TypeOK, localVars
  <1>4. Jobs'
    <2>1. Ready /\ Ready' /\ Listed /\ Listed'
      BY <1>1, <1>2 DEF Ready, Listed, SameList
    <2>. QED BY <1>1, <1>2, <2>1 DEF Jobs, SameList
  <1>5. ASSUME NEW t \in Sessions PROVE Session(t)'
    <2>1. Excuse => Excuse' /\ job'.step # "boundary"
      BY <1>1, <1>2 DEF Excuse, SameList
    <2>2. Remembers(t)' /\ Behind(t)'
      BY <1>1, <2>1, CopyKept
    <2>3. Listing(t)
      BY <1>1 DEF IInv, Session, Listed
    <2>4. InPg(t) => InPg(t)'
      BY <1>1 DEF InPg, Pending, localVars
    <2>5. Listing(t)' /\ Dirty(t)'
      BY <1>1, <1>2, <2>3, <2>4, ListKept DEF Listing
    <2>. QED BY <2>2, <2>5 DEF Session
  <1>. QED BY <1>1, <1>3, <1>4, <1>5, PushInv, MilderSame

LEMMA pushMessagesStep == ASSUME IInv, pushMessages PROVE IInv'
  <1>1. TypeOK /\ job \in Job /\ job.step = "push" /\ wm <= now /\ Jobs /\ job.batch # {}
        /\ UNCHANGED <<now, localVars, wm, boundary, pg, world>> /\ msgs \in [Sessions -> Nat]
        /\ job.tx \subseteq job.batch /\ job.batch \subseteq Sessions /\ job.msgs \in [Sessions -> Nat]
    BY Typed DEF IInv, pushMessages, Clocks, Jobs, Work, TypeOK, Job
  <1>2. PICK s \in Lowest(1, job.batch \ job.tx) :
           job' = IF SameMessages(s)
                  THEN [job EXCEPT !.tx = @ \cup {s}, !.msgs[s] = pg[s].msgs]
                  ELSE bulkInsertMessages(s)
    BY DEF pushMessages
  <1>3. s \in job.batch /\ s \in Sessions
    BY <1>1 DEF Lowest
  <1>4. job' = [job EXCEPT !.tx = job.tx \cup {s}, !.msgs = [job.msgs EXCEPT ![s] = msgs[s]]]
    <2>1. CASE SameMessages(s)
      <3>1. pg[s].msgs = msgs[s]
        BY <2>1 DEF SameMessages
      <3>. QED BY <1>1, <1>2, <2>1, <3>1 DEF Job
    <2>2. CASE ~SameMessages(s)
      BY <1>1, <1>2, <2>2 DEF Job, bulkInsertMessages
    <2>. QED BY <2>1, <2>2
  <1> DEFINE p == [job.msgs EXCEPT ![s] = msgs[s]]
             x == job.tx \cup {s}
  <1>5. p \in [Sessions -> Nat] /\ x \in SUBSET Sessions /\ x \subseteq job.batch
        /\ \A t \in Sessions : p[t] = IF t = s THEN msgs[t] ELSE job.msgs[t]
    BY <1>1, <1>3
  <1>6. job' = [job EXCEPT !.tx = x, !.msgs = p] /\ x = job.tx \cup {s}
    BY <1>4
  <1> HIDE DEF p, x
  <1>7. /\ job' \in Job /\ job'.tx = x /\ job'.msgs = p /\ job'.left = job.left /\ job'.batch = job.batch
        /\ job'.retry = job.retry /\ job'.pushed = job.pushed /\ job'.failed = job.failed
        /\ job'.step = job.step /\ job'.full = job.full /\ job'.only = job.only
        /\ job'.since = job.since /\ job'.cutoff = job.cutoff /\ job'.rows = job.rows
        /\ job'.prior = job.prior /\ job'.dirty = job.dirty /\ job'.single = job.single
    BY <1>1, <1>5, <1>6 DEF Job
  <1>8. SameList
    BY <1>7 DEF SameList, Taken, Work
  <1>9. TypeOK'
    BY <1>1, <1>5, <1>7 DEF TypeOK, localVars
  <1>10. Jobs'
    <2>1. Ready /\ Ready' /\ Listed /\ Listed' /\ Work' = Work
      BY <1>1, <1>7 DEF Ready, Listed, Work
    <2>. QED BY <1>1, <1>7, <2>1 DEF Jobs
  <1>11. ASSUME NEW t \in Sessions PROVE Session(t)'
    <2>1. Excuse => Excuse' /\ job'.step # "boundary"
      BY <1>1, <1>7 DEF Excuse
    <2>2. Remembers(t)' /\ Behind(t)'
      BY <1>1, <2>1, CopyKept
    <2>3. Listing(t)
      BY <1>1 DEF IInv, Session, Listed
    <2>4. InPg(t) => InPg(t)'
      BY <1>1 DEF InPg, Pending, localVars
    <2>5. t \in x /\ row[t] = job.rows[t] => p[t] = msgs[t] \/ Pending(t)
      BY <1>5, <1>6, <2>3 DEF Listing
    <2>6. Listing(t)' /\ Dirty(t)'
      BY <1>1, <1>7, <1>8, <2>3, <2>4, <2>5, ListKept DEF Listing
    <2>. QED BY <2>2, <2>6 DEF Session
  <1>. QED BY <1>1, <1>9, <1>10, <1>11, PushInv, MilderSame

(* A transaction is committed, or a lost answer says it was: its sessions  *)
(* are in PostgreSQL as they are here, unless they have moved on since.    *)
LEMMA StoredKeeps ==
    ASSUME IInv, job.step = "push", job.batch # {}, pg' = pg \/ pg' = Stored,
           UNCHANGED <<now, localVars, wm, boundary>>, Milder, job'.step = job.step,
           job'.full = job.full, NEW t \in Sessions
    PROVE  /\ Remembers(t)' /\ Behind(t)'
           /\ row[t] = job.rows[t] /\ InPg(t) => InPg(t)'
           /\ pg' = Stored /\ t \in job.tx /\ row[t] = job.rows[t] => InPg(t)'
  <1>1. /\ row' = row /\ msgs' = msgs /\ file' = file /\ pass' = pass /\ wm \in Nat /\ job.cutoff \in Nat
        /\ row[t] \in Row /\ job.rows[t] \in Row /\ boundary.rows[t] \in Row /\ row[t].modified \in Nat
        /\ wm <= job.cutoff
    BY Typed DEF localVars, IInv, Jobs, Ready
  <1>2. Remembers(t) /\ Behind(t) /\ Listing(t) /\ Dirty(t)
    BY DEF IInv, Session, Listed, Ready
  <1>3. Excuse => Excuse' /\ job'.step # "boundary"
    BY DEF Excuse, Milder
  <1>4. CASE pg' = Stored /\ t \in job.tx
    <2>1. pg'[t] = [row |-> job.rows[t], msgs |-> job.msgs[t]]
      BY <1>4 DEF Stored, pushSession
    <2>2. row[t] = job.rows[t] => InPg(t)'
      BY <1>1, <1>2, <1>4, <2>1 DEF Listing, InPg, Pending
    <2>3. boundary.rows[t] = row[t] => row[t] = job.rows[t]
      BY <1>1, <1>2, Onward DEF Listing
    <2>4. Remembers(t)'
      BY <1>1, <1>2, <2>2, <2>3 DEF Remembers
    <2>5. ASSUME Settled(t), localSessionSyncMarker(row[t]) < wm PROVE Mirrored(t)'
      <3>1. row[t].modified <= localSessionSyncMarker(row[t]) /\ localSessionSyncMarker(row[t]) \in Nat
        BY <1>1, MarkerIsNewest
      <3>2. ~(job.cutoff <= row[t].modified)
        BY <1>1, <2>5, <3>1
      <3>3. row[t] = job.rows[t]
        BY <1>2, <2>5, <3>2 DEF Listing, Dirty, Settled
      <3>4. job.msgs[t] = msgs[t]
        BY <1>2, <1>4, <2>5, <3>3 DEF Listing, Pending, Settled
      <3>. QED BY <1>1, <2>1, <3>3, <3>4 DEF Mirrored
    <2>6. Behind(t)'
      <3>1. Settled(t)' <=> Settled(t)
        BY <1>1 DEF Settled, Known
      <3>. QED BY <1>1, <2>5, <3>1 DEF Behind
    <2>. QED BY <2>2, <2>4, <2>6
  <1>5. CASE ~(pg' = Stored /\ t \in job.tx)
    <2>1. pg'[t] = pg[t]
      BY <1>5 DEF Stored
    <2>2. InPg(t) => InPg(t)'
      BY <1>1, <2>1 DEF InPg, Pending
    <2>3. Remembers(t)'
      BY <1>1, <1>2, <1>3, <2>2 DEF Remembers, Known
    <2>4. Behind(t)'
      BY <1>1, <1>2, <1>3, <2>1 DEF Behind, Settled, Known, Mirrored
    <2>. QED BY <1>5, <2>2, <2>3, <2>4
  <1>. QED BY <1>4, <1>5

LEMMA StoredType == ASSUME TypeOK PROVE Stored \in [Sessions -> Copy]
  BY Typed DEF TypeOK, Stored, pushSession, Copy

LEMMA CommitStep == ASSUME IInv, Commit PROVE IInv'
  <1>1. TypeOK /\ job \in Job /\ job.batch # {} /\ job.step = "push" /\ wm <= now /\ Jobs
        /\ job.tx = job.batch /\ pg' = Stored /\ UNCHANGED <<now, localVars, wm, boundary, world>>
        /\ job.batch \in SUBSET Sessions /\ job.pushed \in SUBSET Sessions
    BY Typed DEF IInv, Commit, Complete, Clocks, Jobs, Work, Job
  <1> DEFINE p == job.pushed \cup job.batch
  <1>2. job' = [job EXCEPT !.pushed = p, !.batch = {}, !.tx = {}] /\ p \in SUBSET Sessions
    BY <1>1 DEF Commit, Job
  <1>3. p = job.pushed \cup job.batch
    OBVIOUS
  <1> HIDE DEF p
  <1>4. /\ job' \in Job /\ job'.pushed = p /\ job'.batch = {} /\ job'.tx = {} /\ job'.left = job.left
        /\ job'.retry = job.retry /\ job'.failed = job.failed /\ job'.msgs = job.msgs
        /\ job'.step = job.step /\ job'.full = job.full /\ job'.only = job.only
        /\ job'.since = job.since /\ job'.cutoff = job.cutoff /\ job'.rows = job.rows
        /\ job'.prior = job.prior /\ job'.dirty = job.dirty /\ job'.single = job.single
    BY <1>1, <1>2 DEF Job
  <1>5. SameList
    BY <1>3, <1>4 DEF SameList, Taken, Work
  <1>6. TypeOK'
    BY <1>1, <1>4, StoredType DEF TypeOK, localVars
  <1>7. Jobs'
    <2>1. Ready /\ Ready' /\ Listed /\ Listed'
      BY <1>1, <1>4 DEF Ready, Listed
    <2>2. job.cutoff < now
      BY <1>1 DEF Jobs
    <2>. QED BY <1>1, <1>4, <2>1, <2>2 DEF Jobs
  <1>8. ASSUME NEW t \in Sessions PROVE Session(t)'
    <2>1. Remembers(t)' /\ Behind(t)' /\ (row[t] = job.rows[t] /\ InPg(t) => InPg(t)')
          /\ (t \in job.tx /\ row[t] = job.rows[t] => InPg(t)')
      BY <1>1, <1>4, StoredKeeps, MilderSame
    <2>2. Listing(t)
      BY <1>1 DEF IInv, Session, Listed
    <2>3. Listing(t)' /\ Dirty(t)'
      BY <1>1, <1>3, <1>4, <1>5, <2>1, <2>2, ListKept DEF Listing
    <2>. QED BY <2>1, <2>3 DEF Session
  <1>. QED BY <1>1, <1>6, <1>7, <1>8, PushInv, MilderSame

LEMMA TxFailsStep == ASSUME IInv, TxFails PROVE IInv'
  <1>1. TypeOK /\ job \in Job /\ job.batch # {} /\ job.step = "push" /\ wm <= now /\ Jobs
        /\ UNCHANGED <<now, localVars, wm, boundary>> /\ (pg' = pg \/ pg' = Stored)
        /\ job.batch \in SUBSET Sessions /\ job.failed \in SUBSET Sessions /\ job.retry \in SUBSET Sessions
    BY Typed DEF IInv, TxFails, Clocks, Jobs, Work, Job
  <1>2. Milder /\ world' \in World /\ ~(world'.resets > 0)
    <2>1. Spend("failures") /\ "failures" \in Bounds /\ world \in World
      BY <1>1 DEF TxFails, Bounds, TypeOK
    <2>2. Milder /\ world' \in World /\ ~Plain(world)
      BY <2>1, MilderSpend, SpendFacts
    <2>3. ~(world.resets > 0)
      BY <2>2 DEF IInv, Careful
    <2>. QED BY <2>2, <2>3 DEF Milder
  <1> DEFINE f == IF job.single THEN job.failed \cup job.batch ELSE job.failed
             r == IF job.single THEN job.retry ELSE job.batch
  <1>3. job' = [job EXCEPT !.batch = {}, !.tx = {}, !.failed = f, !.retry = r]
    BY <1>1 DEF TxFails, Job
  <1>4. f \in SUBSET Sessions /\ r \in SUBSET Sessions
    BY <1>1
  <1>5. r \cup f = job.retry \cup job.batch \cup job.failed
    BY <1>1 DEF Jobs
  <1> HIDE DEF f, r
  <1>6. /\ job' \in Job /\ job'.failed = f /\ job'.batch = {} /\ job'.tx = {} /\ job'.left = job.left
        /\ job'.retry = r /\ job'.pushed = job.pushed /\ job'.msgs = job.msgs
        /\ job'.step = job.step /\ job'.full = job.full /\ job'.only = job.only
        /\ job'.since = job.since /\ job'.cutoff = job.cutoff /\ job'.rows = job.rows
        /\ job'.prior = job.prior /\ job'.dirty = job.dirty /\ job'.single = job.single
    BY <1>1, <1>3, <1>4 DEF Job
  <1>7. SameList
    BY <1>5, <1>6 DEF SameList, Taken, Work
  <1>8. TypeOK'
    BY <1>1, <1>2, <1>6, StoredType DEF TypeOK, localVars
  <1>9. Jobs'
    <2>1. Ready /\ Ready' /\ Listed /\ Listed'
      BY <1>1, <1>6 DEF Ready, Listed
    <2>. QED BY <1>1, <1>2, <1>6, <2>1 DEF Jobs, Milder
  <1>10. ASSUME NEW t \in Sessions PROVE Session(t)'
    <2>1. Remembers(t)' /\ Behind(t)' /\ (row[t] = job.rows[t] /\ InPg(t) => InPg(t)')
      BY <1>1, <1>2, <1>6, StoredKeeps
    <2>2. Listing(t)
      BY <1>1 DEF IInv, Session, Listed
    <2>3. Listing(t)' /\ Dirty(t)'
      BY <1>1, <1>6, <1>7, <2>1, <2>2, ListKept DEF Listing
    <2>. QED BY <2>1, <2>3 DEF Session
  <1>. QED BY <1>1, <1>2, <1>8, <1>9, <1>10, PushInv

-----------------------------------------------------------------------------
(* The ends of a push.                                                     *)

(* What a push that has nothing left to do has selected, and what neither  *)
(* failed nor was touched since, is in PostgreSQL as it is here.           *)
LEMMA Delivered ==
    ASSUME IInv, Listed, Work = {}, NEW t \in job.only, t \in Sessions,
           t \notin job.failed, t \notin job.dirty, Settled(t)
    PROVE  Mirrored(t)
  <1>1. /\ Remembers(t) /\ Behind(t) /\ Listing(t) /\ Dirty(t) /\ Jobs /\ pg[t] \in Copy
        /\ wm \in Nat /\ job.since \in Nat /\ job.cutoff \in Nat /\ row[t] \in Row
    BY Typed DEF IInv, Session, Ready, Listed
  <1>2. row[t] = job.rows[t] /\ localSessionSyncMarker(row[t]) <= job.cutoff /\ t \in Known
        /\ row[t].created # 0 /\ localSessionSyncMarker(row[t]) \in Nat
    BY <1>1, MarkerIsNewest DEF Listing, Dirty, Settled, Known
  <1>3. InPg(t) => Mirrored(t)
    BY <1>1 DEF InPg, Pending, Settled, Mirrored, Copy
  <1>4. job.step # "idle" /\ (Excuse => job.full)
    BY DEF Listed, Excuse
  <1>5. CASE t \in Taken
    BY <1>1, <1>2, <1>3, <1>5 DEF Taken, Listing
  <1>6. CASE ~job.full /\ boundary.rows[t] = job.rows[t]
    BY <1>1, <1>2, <1>3, <1>4, <1>6 DEF Remembers
  <1>7. CASE localSessionSyncMarker(row[t]) < job.since
    <2> DEFINE m == localSessionSyncMarker(row[t])
    <2>1. m \in Nat /\ m < job.since
      BY <1>2, <1>7
    <2> HIDE DEF m
    <2>2. ~job.full
      <3>1. job.full => job.since = 0
        BY <1>1 DEF Jobs
      <3>. QED BY <2>1, <3>1
    <2>3. job.since <= wm
      <3>1. job.since <= job.cutoff
        BY <1>1 DEF Jobs, Ready, Listed
      <3>2. CASE job.step = "boundary"
        BY <1>1, <3>1, <3>2 DEF Jobs, FinalCutoff
      <3>3. CASE job.step = "push"
        BY <1>1, <2>2, <3>3 DEF Jobs
      <3>. QED BY <3>2, <3>3 DEF Listed
    <2>4. m < wm
      BY <1>1, <2>1, <2>3
    <2>. QED BY <1>1, <1>4, <2>2, <2>4 DEF Behind, m
  <1>. QED BY <1>1, <1>2, <1>5, <1>6, <1>7 DEF Listing

(* The boundary remembers what the push took, or what it was before.       *)
LEMMA RememberedKeeps ==
    ASSUME IInv, Listed, UNCHANGED <<now, localVars, pg>>, NEW t \in Sessions,
           NEW at, NEW prior, boundary' = Remembered(at, prior),
           prior[t] = NoRow \/ (~job.full /\ prior[t] = boundary.rows[t])
    PROVE  Remembers(t)'
  <1>1. /\ Remembers(t) /\ Listing(t) /\ Jobs /\ now \in Nat /\ job.cutoff \in Nat
        /\ job.rows[t].modified \in Nat
        /\ row' = row /\ (InPg(t) => InPg(t)')
    BY Typed DEF IInv, Session, InPg, Pending, localVars
  <1>2. boundary'.rows[t] = IF t \in job.pushed THEN job.rows[t] ELSE prior[t]
    BY DEF Remembered
  <1>3. CASE t \in job.pushed
    <2>1. job.rows[t].modified < now
      <3>1. job.cutoff < now
        BY <1>1, <1>3 DEF Jobs
      <3>2. job.rows[t].modified <= job.cutoff
        BY <1>1, <1>3 DEF Listing, Taken
      <3>. QED BY <1>1, <3>1, <3>2
    <2>. QED BY <1>1, <1>2, <1>3, <2>1 DEF Remembers, Listing
  <1>4. CASE t \notin job.pushed /\ prior[t] = NoRow
    BY <1>1, <1>2, <1>4, NoRowBefore DEF Remembers, Known
  <1>5. CASE t \notin job.pushed /\ ~job.full /\ prior[t] = boundary.rows[t]
    <2>1. ~Excuse
      BY <1>5 DEF Excuse, Listed
    <2>. QED BY <1>1, <1>2, <1>5, <2>1 DEF Remembers, Known
  <1>. QED BY <1>3, <1>4, <1>5

LEMMA RememberedType ==
    ASSUME TypeOK, NEW at \in Nat, NEW prior \in [Sessions -> Row]
    PROVE  Remembered(at, prior) \in Boundary
  BY Typed DEF Remembered, Boundary

(* The job is over.                                                        *)
LEMMA JobOver ==
    ASSUME IInv, job' = NoJob, Milder,
           world'.resets > 0 => (~Empty' => wm' # 0)
    PROVE  Jobs' /\ job' \in Job /\ job'.tx \subseteq job'.batch /\ ~Listed' /\ ~Ready' /\ job'.step = "idle"
  <1>1. ~Listed' /\ ~Ready' /\ Work' = {}
    BY NoJobFacts DEF Listed, Ready, Work
  <1>. QED BY <1>1, NoJobFacts DEF Jobs

LEMMA FinishFilteredStep == ASSUME IInv, FinishFiltered PROVE IInv'
  <1>1. TypeOK /\ Jobs /\ wm <= now /\ job.step = "push" /\ job.only # Sessions /\ Listed
        /\ UNCHANGED <<now, localVars, wm, pg, world>> /\ job' = NoJob
        /\ job.prior \in [Sessions -> Row] /\ job.since \in Nat /\ job.cutoff \in Nat
    BY Typed DEF IInv, FinishFiltered, Pushed, Filtered, Clocks, Listed, TypeOK, Job
  <1> DEFINE at == IF job.since = 0 THEN job.cutoff ELSE job.since
  <1>2. boundary' = Remembered(at, job.prior) /\ at \in Nat
    BY <1>1 DEF FinishFiltered
  <1> HIDE DEF at
  <1>3. ~Plain(world) /\ ~(world.resets > 0)
    <2>1. job.only \in world.filters
      BY <1>1 DEF Jobs
    <2>2. ~Plain(world)
      BY <1>1, <2>1 DEF Plain
    <2>. QED BY <2>2 DEF IInv, Careful
  <1>4. Milder
    BY <1>1, MilderSame
  <1>5. Jobs' /\ job' \in Job /\ job'.tx \subseteq job'.batch /\ ~Listed' /\ ~Ready'
    BY <1>1, <1>3, <1>4, JobOver DEF Milder
  <1>6. TypeOK'
    BY <1>1, <1>2, <1>5, RememberedType DEF TypeOK, localVars
  <1>7. ASSUME NEW t \in Sessions PROVE Session(t)'
    <2>1. job.prior[t] = NoRow \/ (~job.full /\ job.prior[t] = boundary.rows[t])
      BY <1>1, NoRowFacts DEF Jobs
    <2>2. Remembers(t)'
      BY <1>1, <1>2, <2>1, RememberedKeeps
    <2>3. Behind(t) /\ ~Excuse
      BY <1>3 DEF IInv, Session, Excuse
    <2>4. Behind(t)'
      BY <1>1, <2>3 DEF Behind, Settled, Known, Mirrored, localVars
    <2>. QED BY <1>5, <2>2, <2>4 DEF Session
  <1>. QED BY <1>1, <1>4, <1>5, <1>6, <1>7, PushInv

LEMMA AdvanceWatermarkStep == ASSUME IInv, AdvanceWatermark PROVE IInv'
  <1>1. TypeOK /\ job \in Job /\ Jobs /\ wm \in Nat /\ now \in Nat /\ job.step = "push" /\ job.only = Sessions
        /\ Listed /\ Ready /\ Work = {} /\ UNCHANGED <<now, localVars, boundary, pg, world>>
        /\ job.since \in Nat /\ job.cutoff \in Nat /\ job' = [job EXCEPT !.step = "boundary"]
    BY Typed DEF IInv, AdvanceWatermark, Pushed, Filtered, Listed, Ready, Work
  <1>2. wm' = FinalCutoff
    BY DEF AdvanceWatermark
  <1>3. FinalCutoff \in Nat /\ FinalCutoff <= job.cutoff /\ FinalCutoff <= now
    BY <1>1 DEF FinalCutoff, Jobs
  <1>4. /\ job' \in Job /\ job'.step = "boundary" /\ job'.batch = job.batch /\ job'.left = job.left
        /\ job'.retry = job.retry /\ job'.pushed = job.pushed /\ job'.msgs = job.msgs
        /\ job'.failed = job.failed /\ job'.tx = job.tx /\ job'.full = job.full /\ job'.only = job.only
        /\ job'.since = job.since /\ job'.cutoff = job.cutoff /\ job'.rows = job.rows
        /\ job'.prior = job.prior /\ job'.dirty = job.dirty /\ job'.single = job.single
    BY <1>1 DEF Job
  <1>5. TypeOK'
    BY <1>1, <1>2, <1>3, <1>4 DEF TypeOK, localVars
  <1>6. Jobs'
    <2>1. Ready' /\ Listed' /\ Work' = {} /\ FinalCutoff' = FinalCutoff /\ (Empty' <=> Empty)
      BY <1>1, <1>4 DEF Ready, Listed, Work, FinalCutoff, Empty
    <2>2. world'.resets > 0 => wm' # 0
      BY <1>1, <1>2 DEF Jobs, FinalCutoff
    <2>3. 1 <= job.cutoff /\ job.cutoff <= now /\ job.since <= job.cutoff
      BY <1>1 DEF Jobs
    <2>4. world'.resets > 0 => job'.failed = {}
      BY <1>1, <1>4 DEF Jobs
    <2>. QED BY <1>1, <1>2, <1>3, <1>4, <2>1, <2>2, <2>3, <2>4 DEF Jobs
  <1>7. ASSUME NEW t \in Sessions PROVE Session(t)'
    <2>1. Remembers(t) /\ Behind(t) /\ Listing(t) /\ Dirty(t) /\ row[t] \in Row /\ row[t].modified \in Nat
      BY <1>1, Typed DEF IInv, Session
    <2>2. row' = row /\ msgs' = msgs /\ file' = file /\ pass' = pass
      BY <1>1 DEF localVars
    <2>3. Remembers(t)'
      BY <1>1, <1>4, <2>1, <2>2 DEF Remembers, InPg, Pending, Known, Excuse
    <2>4. ASSUME Settled(t), localSessionSyncMarker(row[t]) < FinalCutoff PROVE Mirrored(t)
      <3>1. row[t].modified <= localSessionSyncMarker(row[t]) /\ localSessionSyncMarker(row[t]) \in Nat
        BY <2>1, MarkerIsNewest
      <3>2. CASE job.failed = {}
        <4>1. ~(job.cutoff <= row[t].modified)
          BY <1>1, <2>1, <2>4, <3>1, <3>2 DEF FinalCutoff
        <4>2. t \notin job.dirty
          BY <2>1, <2>4, <4>1 DEF Dirty, Settled
        <4>. QED BY <1>1, <2>4, <3>2, <4>2, Delivered
      <3>3. CASE job.failed # {}
        <4>1. localSessionSyncMarker(row[t]) < job.since
          BY <2>4, <3>3 DEF FinalCutoff
        <4>2. ~job.full /\ job.since = wm
          BY <1>1, <3>1, <4>1 DEF Jobs
        <4>. QED BY <1>1, <2>1, <2>4, <4>1, <4>2 DEF Behind, Excuse
      <3>. QED BY <3>2, <3>3
    <2>5. Behind(t)'
      <3>1. (Settled(t)' <=> Settled(t)) /\ (Mirrored(t)' <=> Mirrored(t))
        BY <1>1, <2>2 DEF Settled, Known, Mirrored
      <3>. QED BY <1>2, <2>2, <2>4, <3>1 DEF Behind
    <2>6. Listing(t)' /\ Dirty(t)'
      <3>1. Taken' = Taken
        BY <1>4 DEF Taken, Work
      <3>2. (InPg(t)' <=> InPg(t)) /\ (Pending(t)' <=> Pending(t))
        BY <1>1, <2>2 DEF InPg, Pending
      <3>3. Listing(t)'
        BY <1>1, <1>4, <2>1, <2>2, <3>1, <3>2 DEF Listing
      <3>4. Dirty(t)'
        BY <1>4, <2>1, <2>2 DEF Dirty
      <3>. QED BY <3>3, <3>4
    <2>. QED BY <2>3, <2>5, <2>6 DEF Session
  <1>8. wm' <= now
    BY <1>2, <1>3
  <1>. QED BY <1>1, <1>5, <1>6, <1>7, <1>8, PushInv, MilderSame

LEMMA SaveBoundaryStep == ASSUME IInv, SaveBoundary PROVE IInv'
  <1>1. TypeOK /\ Jobs /\ wm <= now /\ job.step = "boundary" /\ Listed
        /\ UNCHANGED <<now, localVars, wm, pg, world>> /\ job' = NoJob
        /\ job.prior \in [Sessions -> Row] /\ FinalCutoff \in Nat
    BY Typed DEF IInv, SaveBoundary, Clocks, Listed, TypeOK, Job, FinalCutoff
  <1> DEFINE prior == IF job.failed = {} THEN NoRows ELSE job.prior
  <1>2. boundary' = Remembered(FinalCutoff, prior) /\ prior \in [Sessions -> Row]
    BY <1>1, NoRowFacts DEF SaveBoundary
  <1>3. ASSUME NEW t \in Sessions
        PROVE  prior[t] = NoRow \/ (~job.full /\ prior[t] = boundary.rows[t])
    BY <1>1, NoRowFacts DEF Jobs
  <1> HIDE DEF prior
  <1>4. Milder /\ (world'.resets > 0 => (~Empty' => wm' # 0))
    <2>1. Empty' <=> Empty
      BY <1>1 DEF Empty
    <2>. QED BY <1>1, <2>1, MilderSame DEF Jobs
  <1>5. Jobs' /\ job' \in Job /\ job'.tx \subseteq job'.batch /\ ~Listed' /\ ~Ready'
    BY <1>1, <1>4, JobOver
  <1>6. TypeOK'
    BY <1>1, <1>2, <1>5, RememberedType DEF TypeOK, localVars
  <1>7. ASSUME NEW t \in Sessions PROVE Session(t)'
    <2>1. Remembers(t)'
      BY <1>1, <1>2, <1>3, RememberedKeeps
    <2>2. Behind(t)
      BY DEF IInv, Session
    <2>3. Behind(t)'
      BY <1>1, <2>2 DEF Behind, Settled, Known, Mirrored, localVars
    <2>. QED BY <1>5, <2>1, <2>3 DEF Session
  <1>. QED BY <1>1, <1>4, <1>5, <1>6, <1>7, PushInv

LEMMA InterruptStep == ASSUME IInv, Interrupt PROVE IInv'
  <1>1. TypeOK /\ world \in World /\ wm <= now /\ job' = NoJob
        /\ UNCHANGED <<now, localVars, wm, boundary, pg>>
    BY Typed DEF IInv, Interrupt, Clocks
  <1>2. Milder /\ world' \in World /\ ~Plain(world) /\ ~(world'.resets > 0)
    <2>1. Milder /\ world' \in World /\ ~Plain(world)
      BY <1>1, MilderSpend, SpendFacts DEF Interrupt, Bounds
    <2>2. ~(world.resets > 0)
      BY <2>1 DEF IInv, Careful
    <2>. QED BY <2>1, <2>2 DEF Milder
  <1>3. Jobs' /\ job' \in Job /\ job'.tx \subseteq job'.batch /\ ~Listed' /\ ~Ready'
    BY <1>1, <1>2, JobOver
  <1>4. TypeOK'
    BY <1>1, <1>2, <1>3 DEF TypeOK, localVars
  <1>5. ASSUME NEW t \in Sessions PROVE Session(t)'
    <2>1. Remembers(t)' /\ Behind(t)'
      BY <1>1, <1>2, CopyKept DEF Excuse
    <2>. QED BY <1>3, <2>1 DEF Session
  <1>. QED BY <1>1, <1>2, <1>3, <1>4, <1>5, PushInv

LEMMA ResetStep == ASSUME IInv, Reset PROVE IInv'
  <1>1. TypeOK /\ world \in World /\ wm <= now /\ job.step = "idle" /\ ~Empty /\ Jobs
        /\ UNCHANGED <<now, localVars, wm, boundary, job>> /\ pg' = [s \in Sessions |-> NoCopy]
    BY Typed DEF IInv, Reset, Clocks
  <1>2. Milder /\ world' \in World /\ world.resets > 0
    BY <1>1, MilderSpend, SpendFacts DEF Reset, Bounds
  <1>3. Plain(world)
    BY <1>2 DEF IInv, Careful
  <1>4. wm # 0 /\ Empty' /\ Excuse'
    <2>1. wm # 0
      BY <1>1, <1>2 DEF Jobs
    <2>2. Empty'
      BY <1>1 DEF Empty
    <2>. QED BY <1>1, <1>2, <1>3, <2>1, <2>2 DEF Excuse, Milder
  <1>5. TypeOK'
    BY <1>1, <1>2, NoCopyFacts DEF TypeOK, localVars
  <1>6. Jobs' /\ ~Listed' /\ ~Ready'
    <2>1. ~Listed' /\ ~Ready' /\ Work' = Work /\ ~Listed /\ ~Ready
      BY <1>1 DEF Listed, Ready, Work
    <2>2. job.step # "boundary" /\ job.step \notin {"clear boundary", "clear watermark"}
      BY <1>1
    <2>. QED BY <1>1, <1>2, <1>4, <2>1, <2>2 DEF Jobs
  <1>7. ASSUME NEW t \in Sessions PROVE Session(t)'
    <2>1. Remembers(t)
      BY DEF IInv, Session
    <2>2. Remembers(t)'
      BY <1>1, <1>4, <2>1 DEF Remembers, localVars
    <2>3. Behind(t)'
      BY <1>1, <1>4 DEF Behind
    <2>. QED BY <1>6, <2>2, <2>3 DEF Session
  <1>. QED BY <1>1, <1>2, <1>5, <1>6, <1>7, PushInv

-----------------------------------------------------------------------------
(* What the theorems ask of the worlds; those of the run satisfy it.        *)
CarefulWorlds == \A w \in Worlds : Careful(w)

LEMMA InitInv == ASSUME CarefulWorlds, Init PROVE IInv
  <1> USE NoRowFacts, OldRowFacts, NoPassFacts, NoBoundaryFacts, NoCopyFacts, NoJobFacts
  <1>1. world \in World /\ Careful(world)
    BY PushAssumption DEF Init, CarefulWorlds
  <1>2. /\ now = 1 /\ pass = NoPass /\ wm = 0 /\ boundary = NoBoundary /\ job = NoJob
        /\ pg = [s \in Sessions |-> NoCopy]
        /\ file = [s \in Sessions |-> [mtime |-> 1, body |-> 1]]
        /\ row = [s \in Sessions |-> IF s \in world.stored THEN OldRow ELSE NoRow]
        /\ msgs = [s \in Sessions |-> row[s].body]
    BY DEF Init
  <1>3. /\ row \in [Sessions -> Row] /\ \A s \in Sessions : row[s] \in {OldRow, NoRow}
        /\ msgs \in [Sessions -> Nat]
    BY <1>2
  <1>4. TypeOK
    BY <1>1, <1>2, <1>3 DEF TypeOK
  <1>5. Clocks
    BY <1>2, <1>3 DEF Clocks, Stamped
  <1>6. Passing
    BY <1>2 DEF Passing
  <1>7. Empty /\ ~Listed /\ ~Ready /\ Work = {}
    BY <1>2 DEF Empty, Listed, Ready, Work
  <1>8. Jobs
    BY <1>2, <1>7 DEF Jobs
  <1>9. ASSUME NEW s \in Sessions PROVE Session(s)
    <2>1. boundary.rows[s] = NoRow /\ row[s] \in {OldRow, NoRow}
      BY <1>2, <1>3
    <2>2. Remembers(s)
      BY <1>2, <2>1 DEF Remembers, Before, Known
    <2>3. localSessionSyncMarker(row[s]) \in Nat
      BY <1>3, MarkerIsNewest
    <2>4. Behind(s)
      BY <1>2, <2>3 DEF Behind
    <2>. QED BY <1>7, <2>2, <2>4 DEF Session
  <1>. QED BY <1>1, <1>4, <1>5, <1>6, <1>8, <1>9 DEF IInv

LEMMA NextInv == ASSUME IInv, [Next]_vars PROVE IInv'
  <1>1. CASE Tick
    BY <1>1, TickStep
  <1>2. CASE Local
    BY <1>2, AppendStep, UpsertSessionStep, AppendMessagesStep, EditStep, WriteMessagesStep,
       UpdateSessionIncrementalStep, UpdateSessionSignalsStep, PassEndsStep DEF Local
  <1>3. CASE Push
    BY <1>3, StartStep, ClearBoundaryStep, ClearWatermarkStep, TakeCutoffStep, ListStep, BeginTxStep,
       pushMessagesStep, CommitStep, TxFailsStep, FinishFilteredStep, AdvanceWatermarkStep,
       SaveBoundaryStep DEF Push
  <1>4. CASE Interrupt
    BY <1>4, InterruptStep
  <1>5. CASE Reset
    BY <1>5, ResetStep
  <1>6. CASE UNCHANGED vars
    <2>1. /\ UNCHANGED <<now, file, row, msgs, pass, wm, boundary, pg, job, world>>
          /\ UNCHANGED <<now, localVars, wm, boundary, pg>>
      BY <1>6 DEF vars, localVars
    <2>2. job \in Job /\ wm' <= now /\ TypeOK' /\ Milder
      BY <2>1, MilderSame DEF IInv, Clocks, TypeOK
    <2>3. Jobs'
      BY <2>1 DEF IInv, Jobs, Ready, Listed, Work, FinalCutoff, Empty
    <2>4. ASSUME NEW t \in Sessions PROVE Session(t)'
      BY <2>1 DEF IInv, Session, Remembers, Behind, Listing, Dirty, Ready, Listed, InPg, Pending,
         Known, Settled, Mirrored, Excuse, Empty, Taken, Work
    <2>. QED BY <2>1, <2>2, <2>3, <2>4, PushInv
  <1>. QED BY <1>1, <1>2, <1>3, <1>4, <1>5, <1>6 DEF Next

LEMMA Invariant == CarefulWorlds => (Spec => []IInv)
  <1>1. CarefulWorlds /\ Init => IInv
    BY InitInv
  <1>2. IInv /\ [Next]_vars => IInv'
    BY NextInv
  <1>. QED BY <1>1, <1>2, PTL DEF Spec

-----------------------------------------------------------------------------
(* Everything is well formed, and a transaction holds sessions of its      *)
(* batch.                                                                  *)
THEOREM TypeCorrect == CarefulWorlds => (Spec => []TypeOK)
  <1>1. IInv => TypeOK
    BY DEF IInv
  <1>. QED BY <1>1, Invariant, PTL

(* Between two pushes a settled session that PostgreSQL does not hold as   *)
(* it is here will be selected by the next push: what is behind the        *)
(* watermark is mirrored, and so is what the boundary remembers.           *)
THEOREM PushMissesNothing == CarefulWorlds => (Spec => []NothingMissed)
  <1>1. ASSUME IInv PROVE NothingMissed
    <2>1. SUFFICES ASSUME job.step = "idle", NEW s \in Sessions, Settled(s), ~Due(s)
                   PROVE  Mirrored(s)
      BY DEF NothingMissed
    <2>2. /\ Remembers(s) /\ Behind(s) /\ row[s] \in Row /\ wm \in Nat /\ s \in Known /\ pg[s] \in Copy
          /\ localSessionSyncMarker(row[s]) \in Nat
      BY <1>1, <2>1, Typed, MarkerIsNewest DEF IInv, Session, Settled
    <2>3. ~Excuse
      BY <2>1 DEF Due, Excuse
    <2>4. CASE boundary.rows[s] = row[s]
      BY <2>1, <2>2, <2>3, <2>4 DEF Remembers, InPg, Pending, Settled, Mirrored, Copy
    <2>5. CASE localSessionSyncMarker(row[s]) < wm
      BY <2>1, <2>2, <2>3, <2>5 DEF Behind
    <2>. QED BY <2>1, <2>2, <2>4, <2>5 DEF Due
  <1>. QED BY <1>1, Invariant, PTL

(* A push that ends leaves what it selected in PostgreSQL as it is here,   *)
(* but for what failed in it or was written after its cutoff.              *)
THEOREM PushesAreDone == CarefulWorlds => (Spec => DoneMeansMirrored)
  <1>1. ASSUME IInv, SaveBoundary \/ (FinishFiltered /\ job.since = 0),
               NEW s \in job.only \ (job.dirty \cup job.failed), Settled(s)
        PROVE  Mirrored(s)
    <2>1. Listed
      BY <1>1 DEF Listed, SaveBoundary, FinishFiltered, Pushed
    <2>2. Work = {}
      BY <1>1 DEF IInv, Jobs, Work, SaveBoundary, FinishFiltered, Pushed
    <2>3. s \in Sessions
      BY <1>1 DEF Settled, Known
    <2>. QED BY <1>1, <2>1, <2>2, <2>3, Delivered
  <1>2. IInv => ((SaveBoundary \/ (FinishFiltered /\ job.since = 0)) =>
                   \A s \in job.only \ (job.dirty \cup job.failed) : Settled(s) => Mirrored(s))
    BY <1>1
  <1>. QED BY <1>2, Invariant, PTL DEF DoneMeansMirrored

=============================================================================
