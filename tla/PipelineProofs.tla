--------------------------- MODULE PipelineProofs ---------------------------
(***************************************************************************)
(* Safety of the passes of the sync engine, for every set of files and of  *)
(* databases, every number of workers, every capacity of the channels and  *)
(* every set of goroutines that ask for passes at the same time.           *)
(***************************************************************************)
EXTENDS Pipeline, FiniteSetTheorems, TLAPS
USE DEF archive

-----------------------------------------------------------------------------
(* The parts of the inductive invariant.                                   *)

Steps == {"idle", "lock", "collect", "drain", "batch", "flush", "stores", "store", "end", "emit"}
Kinds == {"skip", "empty", "full", "incremental", "error", "cancelled"}
Result(S) == [file : S, kind : Kinds, time : Nat]
Pass == [at : Steps, todo : SUBSET Files, jobs : SUBSET Files,
         busy : SUBSET Result(Files), results : SUBSET Result(Files), left : Nat,
         pending : SUBSET Result(Sources), synced : Nat, aborted : BOOLEAN, phase : Nat \ {0}]
Watch == [at : {"off", "wait", "send", "sync"}, of : Sources \cup {None}, seen : Nat, file : Nat, age : Nat]

Others ==
    /\ now \in Nat /\ events \subseteq Files /\ skip \in [Files -> Nat] /\ saved \in [Files -> Nat]
    /\ started \in Nat /\ gone \in BOOLEAN /\ faults \in Nat /\ stops \in Nat
TypeOK ==
    /\ disk \in [Sources -> Nat] /\ row \in [Sources -> Nat] /\ stored \in [Sources -> Nat]
    /\ torn \subseteq Sources /\ unsent \subseteq Sources
    /\ DOMAIN pass \in Processes /\ pass \in [DOMAIN pass -> Pass] /\ lock \in DOMAIN pass \cup {None}
    /\ watch \in Watch /\ Others

(* A source is never newer than the clock; neither its row nor its messages *)
(* are newer than the source.                                              *)
Behind == \A s \in Sources : row[s] <= disk[s] /\ stored[s] <= disk[s]
Dated == Behind /\ \A s \in Sources : disk[s] <= now

(* Between Begin and End a pass is the one that holds syncMu.              *)
Holds(p) == p.at \notin {"idle", "lock", "emit"}
Locking == \A c \in DOMAIN pass : Holds(pass[c]) <=> lock = c

(* The results under way, and the files a collector still has to hear of.  *)
InFlight(p) == p.busy \cup p.results \cup p.pending
Out(p) == p.todo \cup p.jobs \cup {r.file : r \in p.busy \cup p.results}

(* A file is in one place: with the feeder, in a channel, with a worker or *)
(* in the batch, and there is one result of it at most.                    *)
Apart(p) ==
    /\ p.todo \cap p.jobs = {} /\ p.busy \cap p.results = {} /\ (p.busy \cup p.results) \cap p.pending = {}
    /\ \A x \in InFlight(p) : x.file \notin p.todo \cup p.jobs
    /\ \A x, y \in InFlight(p) : x.file = y.file => x = y

(* What a pass may have where; the collector's count is exact.             *)
Placed(p) ==
    /\ p.at \in {"idle", "lock"} => p.synced = 0
    /\ p.at \in {"idle", "lock", "collect", "drain", "batch"} \/ Out(p) = {}
    /\ p.at \in {"idle", "lock"} => p.jobs = {} /\ p.busy = {} /\ p.results = {}
    /\ p.at = "idle" => p.todo = {}
    /\ p.at \in {"idle", "lock", "stores", "end", "emit"} => p.pending = {}
    /\ p.at \in {"collect", "drain", "batch"} => p.left = Cardinality(Out(p))

(* What is under way is not older than messages and row and not newer than *)
(* the source.                                                             *)
Fresh(p, st, rw) == \A x \in InFlight(p) : st[x.file] <= x.time /\ rw[x.file] <= x.time /\ x.time <= disk[x.file]

Sound(p, st, rw) == Apart(p) /\ Placed(p) /\ Fresh(p, st, rw)

(* A worker gives up only on a file of a pass whose client has gone.       *)
Excused(c, p, g) == \A x \in p.busy \cup p.results : x.kind = "cancelled" => c = "request" /\ g

Passes == \A c \in DOMAIN pass : Sound(pass[c], stored, row) /\ Excused(c, pass[c], gone)

(* The watch has a source; its own pass runs only while it waits for it.   *)
Watches ==
    /\ watch.at # "off" => watch.of \in Sources /\ "session" \in DOMAIN pass
    /\ "session" \in DOMAIN pass /\ watch.at # "sync" => pass["session"].at = "idle"

(* Whoever stored anything has not signalled yet, but for what broke off.  *)
Announces(p) == p.at \notin {"idle", "lock"} /\ p.synced > 0
Announcing == unsent \ torn # {} => \E c \in DOMAIN pass : Announces(pass[c])

IInv == TypeOK /\ Dated /\ Locking /\ Passes /\ Watches /\ Announcing

-----------------------------------------------------------------------------
(* The lemmas the steps rest on.                                           *)

(* A pass that has a file out is gathering, and its count is exact.        *)
LEMMA Gathering ==
    ASSUME IInv, NEW c \in DOMAIN pass,
           \/ pass[c].todo # {} /\ pass[c].at # "lock"
           \/ pass[c].jobs # {} \/ pass[c].busy # {} \/ pass[c].results # {}
    PROVE  /\ pass[c].at \in {"collect", "drain", "batch"} /\ lock = c
           /\ pass[c].left = Cardinality(Out(pass[c]))
  <1>1. pass[c].at \in Steps /\ Placed(pass[c])
    BY DEF IInv, TypeOK, Passes, Sound, Pass
  <1>2. Out(pass[c]) # {} \/ pass[c].at = "lock"
    BY DEF Out
  <1>3. pass[c].at \in {"collect", "drain", "batch"}
    BY <1>1, <1>2 DEF Placed
  <1>. QED BY <1>1, <1>3 DEF Placed, IInv, Locking, Holds

LEMMA FiniteOut == ASSUME NEW p \in Pass PROVE IsFiniteSet(Out(p)) /\ Cardinality(Out(p)) \in Nat
  <1>1. Out(p) \subseteq Files
    BY DEF Out, Pass, Result
  <1>. QED BY <1>1, PipelineAssumption, FS_Subset, FS_CardinalityType

(* Only the holder of the lock has something under way that a row it       *)
(* stores could overtake: a step of one pass leaves the others as they are. *)
LEMMA Moves ==
    ASSUME IInv, NEW c \in DOMAIN pass, NEW p \in Pass, Run(c, p), UNCHANGED disk,
           row' \in [Sources -> Nat], stored' \in [Sources -> Nat], Behind',
           torn' \subseteq Sources, unsent' \subseteq Sources,
           archive' = archive \/ Holds(pass[c]), Sound(p, stored', row'),
           Excused(c, p, gone'), gone' = gone \/ c = "request",
           Others', now' = now,
           \/ Holds(p) /\ lock' = c /\ lock \in {c, None}
           \/ ~Holds(p) /\ lock' = lock /\ lock # c
           \/ ~Holds(p) /\ lock' = None /\ lock = c,
           \/ unsent' = {}
           \/ unsent' \ torn' \subseteq unsent \ torn /\ (Announces(pass[c]) => Announces(p))
           \/ Announces(p),
           \/ watch' = watch /\ (c # "session" \/ pass[c].at # "idle")
           \/ watch' \in Watch /\ c = "session" /\ watch'.of \in Sources /\ watch'.at = "sync"
    PROVE  IInv'
  <1>1. /\ DOMAIN pass' = DOMAIN pass /\ pass' \in [DOMAIN pass' -> Pass] /\ pass'[c] = p
        /\ \A d \in DOMAIN pass : d # c => pass'[d] = pass[d]
    BY DEF Run, IInv, TypeOK
  <1>2. None \notin DOMAIN pass
    BY PipelineAssumption DEF IInv, TypeOK
  <1>3. TypeOK'
    BY <1>1 DEF TypeOK, IInv
  <1>4. Dated'
    BY DEF IInv, Dated
  <1>5. Locking'
    <2>1. ASSUME NEW d \in DOMAIN pass PROVE Holds(pass[d]) <=> lock = d
      BY DEF IInv, Locking
    <2>2. ASSUME NEW d \in DOMAIN pass PROVE Holds(pass'[d]) <=> lock' = d
      BY <1>1, <1>2, <2>1
    <2>. QED BY <1>1, <2>2 DEF Locking, Holds
  <1>6. Passes'
    <2>1. ASSUME NEW d \in DOMAIN pass, d # c PROVE Sound(pass[d], stored', row')
      <3>1. Sound(pass[d], stored, row)
        BY DEF IInv, Passes
      <3>2. CASE archive' = archive
        BY <3>1, <3>2
      <3>3. CASE Holds(pass[c])
        <4>1. ~Holds(pass[d])
          BY <2>1, <3>3 DEF IInv, Locking
        <4>2. InFlight(pass[d]) = {}
          BY <3>1, <4>1 DEF Holds, Sound, Placed, InFlight, Out
        <4>. QED BY <3>1, <4>2 DEF Sound, Fresh
      <3>. QED BY <3>2, <3>3
    <2>2. ASSUME NEW d \in DOMAIN pass PROVE Sound(pass'[d], stored', row')
      BY <1>1, <2>1
    <2>3. ASSUME NEW d \in DOMAIN pass PROVE Excused(d, pass'[d], gone')
      BY <1>1 DEF IInv, Passes, Excused
    <2>. QED BY <1>1, <2>2, <2>3 DEF Passes, Sound, Fresh, InFlight, Apart, Placed, Out, Excused
  <1>7. Watches'
    BY <1>1 DEF IInv, Watches
  <1>8. Announcing'
    <2>1. CASE Announces(p)
      BY <1>1, <2>1 DEF Announcing, Announces
    <2>2. CASE ~Announces(p)
      BY <1>1, <2>2 DEF IInv, Announcing, Announces
    <2>. QED BY <2>1, <2>2
  <1>. QED BY <1>3, <1>4, <1>5, <1>6, <1>7, <1>8 DEF IInv

LEMMA Current ==
    ASSUME IInv, NEW c \in DOMAIN pass
    PROVE  /\ pass[c] \in Pass /\ Apart(pass[c]) /\ Placed(pass[c]) /\ Fresh(pass[c], stored, row)
           /\ Excused(c, pass[c], gone)
           /\ Holds(pass[c]) <=> lock = c
    BY DEF IInv, TypeOK, Passes, Sound, Locking

-----------------------------------------------------------------------------
(* The workers and the collector.                                          *)

LEMMA FeedStep == ASSUME IInv, NEW c \in DOMAIN pass, NEW f \in Files, Feed(c, f) PROVE IInv'
  <1>. DEFINE q == pass[c]
              p == [q EXCEPT !.todo = @ \ {f}, !.jobs = @ \cup {f}]
  <1>1. q \in Pass /\ Apart(q) /\ Placed(q) /\ Fresh(q, stored, row) /\ Excused(c, q, gone)
    BY Current
  <1>2. q.at \in {"collect", "drain", "batch"} /\ lock = c /\ q.left = Cardinality(Out(q))
    BY Gathering DEF Feed
  <1>3. p \in Pass /\ Holds(p) /\ (Announces(q) => Announces(p))
    BY <1>1, <1>2 DEF Pass, Holds, Announces
  <1>4. InFlight(p) = InFlight(q) /\ Out(p) = Out(q)
    BY <1>1 DEF InFlight, Out, Pass, Feed
  <1>5. Apart(p)
    BY <1>1, <1>4 DEF Apart, Pass, Feed
  <1>6. Placed(p)
    BY <1>1, <1>2, <1>4 DEF Placed, Pass, Feed
  <1>7. Fresh(p, stored, row)
    BY <1>1, <1>4 DEF Fresh
  <1>8. Run(c, p) /\ Others' /\ Excused(c, p, gone')
    BY <1>1 DEF Feed, IInv, TypeOK, Others, Excused, Pass
  <1>. QED BY <1>1, <1>2, <1>3, <1>5, <1>6, <1>7, <1>8, Moves DEF Feed, Sound, IInv, TypeOK, Dated, Behind

LEMMA WorkStep == ASSUME IInv, NEW c \in DOMAIN pass, NEW f \in Files, Work(c, f) PROVE IInv'
  <1>. DEFINE q == pass[c]
  <1>1. q \in Pass /\ Apart(q) /\ Placed(q) /\ Fresh(q, stored, row) /\ Excused(c, q, gone)
    BY Current
  <1>2. q.at \in {"collect", "drain", "batch"} /\ lock = c /\ q.left = Cardinality(Out(q))
    BY Gathering DEF Work
  <1>3. PICK kind \in Kinds :
           /\ kind = "cancelled" => Cancelled(c)
           /\ Run(c, [q EXCEPT !.jobs = @ \ {f},
                               !.busy = @ \cup {[file |-> f, kind |-> kind, time |-> disk[f]]}])
           /\ faults' \in {faults, faults + 1}
    BY DEF Work, Kinds, processFile
  <1>. DEFINE r == [file |-> f, kind |-> kind, time |-> disk[f]]
              p == [q EXCEPT !.jobs = @ \ {f}, !.busy = @ \cup {r}]
  <1>4. f \in Sources /\ r \in Result(Files) /\ stored[f] <= disk[f] /\ row[f] <= disk[f]
    BY DEF Sources, Result, IInv, TypeOK, Dated, Behind
  <1>5. p \in Pass /\ Holds(p) /\ (Announces(q) => Announces(p))
    BY <1>1, <1>2, <1>4 DEF Pass, Holds, Announces
  <1>6. f \in q.jobs /\ InFlight(p) = InFlight(q) \cup {r} /\ Out(p) = Out(q)
    <2>1. /\ p.todo = q.todo /\ p.jobs = q.jobs \ {f} /\ p.busy = q.busy \cup {r}
          /\ p.results = q.results /\ p.pending = q.pending
      BY <1>1 DEF Pass
    <2>2. f \in q.jobs /\ r.file = f
      BY DEF Work
    <2>3. {x.file : x \in p.busy \cup p.results} = {x.file : x \in q.busy \cup q.results} \cup {f}
      BY <2>1, <2>2
    <2>. QED BY <2>1, <2>2, <2>3 DEF InFlight, Out
  <1>7. \A x \in InFlight(q) : x.file # f
    BY <1>1, <1>6 DEF Apart
  <1>8. Apart(p)
    BY <1>1, <1>6, <1>7 DEF Apart, Pass, InFlight
  <1>9. Placed(p)
    BY <1>1, <1>2, <1>6 DEF Placed, Pass
  <1>10. Fresh(p, stored, row)
    BY <1>1, <1>4, <1>6 DEF Fresh, IInv, TypeOK
  <1>11. Run(c, p) /\ Others'
    BY <1>3 DEF Work, IInv, TypeOK, Others
  <1>12. Excused(c, p, gone')
    BY <1>1, <1>3 DEF Work, Excused, Cancelled, Pass
  <1>. QED BY <1>1, <1>2, <1>5, <1>8, <1>9, <1>10, <1>11, <1>12, Moves DEF Work, Sound, IInv, TypeOK, Dated, Behind

LEMMA AnswerStep == ASSUME IInv, NEW c \in DOMAIN pass, NEW r \in pass[c].busy, Answer(c, r) PROVE IInv'
  <1>. DEFINE q == pass[c]
              p == [q EXCEPT !.busy = @ \ {r}, !.results = @ \cup {r}]
  <1>1. q \in Pass /\ Apart(q) /\ Placed(q) /\ Fresh(q, stored, row) /\ Excused(c, q, gone)
    BY Current
  <1>2. q.at \in {"collect", "drain", "batch"} /\ lock = c /\ q.left = Cardinality(Out(q))
    BY Gathering DEF Answer
  <1>3. p \in Pass /\ Holds(p) /\ (Announces(q) => Announces(p))
    BY <1>1, <1>2 DEF Pass, Holds, Announces
  <1>4. InFlight(p) = InFlight(q) /\ Out(p) = Out(q)
    BY <1>1 DEF InFlight, Out, Pass
  <1>5. Apart(p)
    BY <1>1, <1>4 DEF Apart, Pass
  <1>6. Placed(p)
    BY <1>1, <1>2, <1>4 DEF Placed, Pass
  <1>7. Fresh(p, stored, row)
    BY <1>1, <1>4 DEF Fresh
  <1>8. Run(c, p) /\ Others' /\ Excused(c, p, gone')
    BY <1>1 DEF Answer, IInv, TypeOK, Others, Excused, Pass
  <1>. QED BY <1>1, <1>2, <1>3, <1>5, <1>6, <1>7, <1>8, Moves DEF Answer, Sound, IInv, TypeOK, Dated, Behind

(* A result taken from the channel is one file less to hear of.            *)
LEMMA Taken ==
    ASSUME IInv, NEW c \in DOMAIN pass, NEW r \in pass[c].results
    PROVE  LET p == [pass[c] EXCEPT !.results = @ \ {r}, !.left = @ - 1]
           IN  /\ p \in Pass /\ Excused(c, p, gone) /\ p.left = Cardinality(Out(p)) /\ Apart(p) /\ Fresh(p, stored, row)
               /\ Out(p) = Out(pass[c]) \ {r.file}
               /\ InFlight(p) = InFlight(pass[c]) \ {r}
               /\ \A x \in InFlight(p) : x.file # r.file
               /\ r.file \in Files /\ r.file \in Sources /\ r.time \in Nat
               /\ r.file \notin p.todo \cup p.jobs
               /\ stored[r.file] <= r.time /\ row[r.file] <= r.time /\ r.time <= disk[r.file]
  <1>. DEFINE q == pass[c]
              p == [q EXCEPT !.results = @ \ {r}, !.left = @ - 1]
  <1>1. q \in Pass /\ Apart(q) /\ Placed(q) /\ Fresh(q, stored, row) /\ Excused(c, q, gone)
    BY Current
  <1>2. q.left = Cardinality(Out(q))
    BY Gathering
  <1>3. IsFiniteSet(Out(q)) /\ Cardinality(Out(q)) \in Nat
    BY <1>1, FiniteOut
  <1>4. r \in InFlight(q) /\ r.file \in Out(q) /\ r.file \in Files /\ r.time \in Nat /\ r.file \in Sources
    BY <1>1 DEF InFlight, Out, Pass, Result, Sources
  <1>5. InFlight(p) = InFlight(q) \ {r}
    BY <1>1 DEF InFlight, Apart, Pass
  <1>6. \A x \in InFlight(p) : x.file # r.file
    BY <1>1, <1>4, <1>5 DEF Apart
  <1>7. p.todo = q.todo /\ p.jobs = q.jobs /\ p.busy = q.busy /\ p.results = q.results \ {r}
        /\ p.pending = q.pending
    BY <1>1 DEF Pass
  <1>8. r.file \notin p.todo \cup p.jobs
    BY <1>1, <1>4, <1>7 DEF Apart
  <1>9. Out(p) = Out(q) \ {r.file}
    BY <1>1, <1>6, <1>7, <1>8 DEF Out, InFlight
  <1>10. Cardinality(Out(p)) = Cardinality(Out(q)) - 1 /\ Cardinality(Out(q)) # 0
    <2>1. Cardinality(Out(q) \ {r.file}) = Cardinality(Out(q)) - 1
      BY <1>3, <1>4, FS_RemoveElement
    <2>2. Cardinality(Out(q)) # 0
      BY <1>3, <1>4, FS_EmptySet
    <2>. QED BY <1>9, <2>1, <2>2
  <1>11. p \in Pass /\ p.left = Cardinality(Out(p))
    <2>1. q.left - 1 \in Nat /\ q.left - 1 = Cardinality(Out(p))
      BY <1>2, <1>3, <1>10
    <2>2. p.left = q.left - 1
      BY <1>1 DEF Pass
    <2>. QED BY <1>1, <2>1, <2>2 DEF Pass
  <1>12. Apart(p)
    BY <1>1, <1>5, <1>7 DEF Apart
  <1>13. Fresh(p, stored, row) /\ stored[r.file] <= r.time /\ row[r.file] <= r.time /\ r.time <= disk[r.file]
    BY <1>1, <1>4, <1>5 DEF Fresh
  <1>14. Excused(c, p, gone)
    BY <1>1, <1>7 DEF Excused
  <1>. QED BY <1>4, <1>5, <1>6, <1>8, <1>9, <1>11, <1>12, <1>13, <1>14

(* A write of what is under way, whole or broken off, leaves every other   *)
(* source alone and goes neither back nor past its own; only a whole write *)
(* leaves what has to be announced.                                        *)
Wrote(r) ==
    /\ row' \in [Sources -> Nat] /\ stored' \in [Sources -> Nat] /\ Behind'
    /\ torn' \subseteq Sources /\ unsent' \subseteq Sources
    /\ \A s \in Sources : s # r.file => row'[s] = row[s] /\ stored'[s] = stored[s]
    /\ M!Store(r.file) /\ R!Store(r.file)
LEMMA Writing ==
    ASSUME IInv, NEW r \in Result(Sources), UNCHANGED disk, Whole(r) \/ Fail(r),
           stored[r.file] <= r.time, row[r.file] <= r.time, r.time <= disk[r.file]
    PROVE  Wrote(r) /\ (Fail(r) => unsent' \ torn' \subseteq unsent \ torn)
  <1>. DEFINE f == r.file
  <1>1. /\ f \in Sources /\ r.time \in Nat /\ row[f] \in Nat /\ stored[f] \in Nat /\ disk[f] \in Nat
        /\ row \in [Sources -> Nat] /\ stored \in [Sources -> Nat] /\ disk \in [Sources -> Nat]
        /\ torn \subseteq Sources /\ unsent \subseteq Sources /\ Behind
    BY DEF Result, IInv, TypeOK, Dated
  <1>2. Reach(r) \in Nat /\ stored[f] <= Reach(r) /\ Reach(r) <= disk[f]
    BY <1>1 DEF Reach
  <1>3. ASSUME NEW a \in Nat, NEW m \in Nat, NEW open \in SUBSET {f}, Commit(f, a, m, open),
               row[f] <= a, a <= disk[f], stored[f] <= m, m <= disk[f]
        PROVE  Wrote(r)
    <2>1. row' = [row EXCEPT ![f] = a] /\ stored' = [stored EXCEPT ![f] = m]
      BY <1>3 DEF Commit
    <2>2. torn' \subseteq Sources /\ unsent' \subseteq Sources
      BY <1>1, <1>3 DEF Commit
    <2>3. /\ row' \in [Sources -> Nat] /\ stored' \in [Sources -> Nat]
          /\ row'[f] = a /\ stored'[f] = m
          /\ \A s \in Sources : s # f => row'[s] = row[s] /\ stored'[s] = stored[s]
      BY <1>1, <2>1
    <2>4. Behind'
      BY <1>1, <1>3, <2>3 DEF Behind
    <2>5. M!Store(f) /\ R!Store(f)
      <3>1. row' = [row EXCEPT ![f] = row'[f]] /\ stored' = [stored EXCEPT ![f] = stored'[f]]
        BY <2>1, <2>3
      <3>2. row'[f] \in row[f]..disk[f] /\ stored'[f] \in stored[f]..disk[f]
        BY <1>1, <1>3, <2>3
      <3>. QED BY <3>1, <3>2 DEF M!Store, R!Store
    <2>. QED BY <2>2, <2>3, <2>4, <2>5 DEF Wrote
  <1>4. CASE Whole(r)
    <2>1. PICK open \in SUBSET {f} : Commit(f, r.time, Reach(r), open)
      BY <1>4 DEF Whole
    <2>2. Fail(r) => unsent' \ torn' \subseteq unsent \ torn
      BY DEF Fail, Half, Commit
    <2>. QED BY <1>1, <1>2, <1>3, <2>1, <2>2
  <1>5. CASE Fail(r)
    <2>1. CASE Half(r)
      <3>1. unsent' \ torn' \subseteq unsent \ torn
        BY <2>1 DEF Half, Commit
      <3>2. CASE r.kind = "incremental"
        <4>1. Commit(f, row[f], Reach(r), {f}) /\ row[f] <= disk[f]
          BY <1>1, <2>1, <3>2 DEF Half, Behind
        <4>. QED BY <1>1, <1>2, <1>3, <3>1, <4>1
      <3>3. CASE r.kind # "incremental"
        <4>1. Commit(f, r.time, stored[f], {f}) /\ stored[f] <= disk[f]
          BY <1>1, <2>1, <3>3 DEF Half, Behind
        <4>. QED BY <1>1, <1>3, <3>1, <4>1
      <3>. QED BY <3>2, <3>3
    <2>2. CASE UNCHANGED <<archive, unsent>>
      <3>1. row' = row /\ stored' = stored /\ torn' = torn /\ unsent' = unsent /\ disk' = disk
        BY <2>2
      <3>2. M!Store(f) /\ R!Store(f)
        <4>1. row' = [row EXCEPT ![f] = row[f]] /\ stored' = [stored EXCEPT ![f] = stored[f]]
          BY <1>1, <3>1
        <4>2. row'[f] \in row[f]..disk[f] /\ stored'[f] \in stored[f]..disk[f]
          BY <1>1, <3>1 DEF Behind
        <4>. QED BY <3>1, <4>1, <4>2 DEF M!Store, R!Store
      <3>. QED BY <1>1, <3>1, <3>2 DEF Wrote, Behind
    <2>. QED BY <1>5, <2>1, <2>2 DEF Fail
  <1>. QED BY <1>4, <1>5

LEMMA ReceiveStep ==
    ASSUME IInv, NEW c \in DOMAIN pass, NEW r \in pass[c].results, Receive(c, r) PROVE IInv'
  <1>. DEFINE q == pass[c]
              p == [q EXCEPT !.results = @ \ {r}, !.left = @ - 1]
              batch == p.pending \cup {r}
              full == [p EXCEPT !.pending = batch, !.at = IF Cardinality(batch) >= BatchSize THEN "batch" ELSE @]
              incr == [p EXCEPT !.synced = @ + 1]
              stop == [p EXCEPT !.at = "drain", !.aborted = TRUE]
  <1>1. /\ q \in Pass /\ Placed(q) /\ q.at = "collect" /\ lock = c /\ Holds(q)
        /\ Excused(c, q, gone) /\ gone' = gone
    BY Current DEF Receive, Holds
  <1>2. /\ p \in Pass /\ Excused(c, p, gone) /\ p.left = Cardinality(Out(p)) /\ Apart(p) /\ Fresh(p, stored, row)
        /\ InFlight(p) = InFlight(q) \ {r} /\ \A x \in InFlight(p) : x.file # r.file
        /\ r.file \in Files /\ r.file \in Sources /\ r.time \in Nat
        /\ r.file \notin p.todo \cup p.jobs
        /\ stored[r.file] <= r.time /\ row[r.file] <= r.time /\ r.time <= disk[r.file]
    BY Taken
  <1>3. p.at = "collect" /\ p.synced = q.synced /\ p.pending = q.pending
    BY <1>1 DEF Pass
  <1>4. /\ row \in [Sources -> Nat] /\ stored \in [Sources -> Nat] /\ skip \in [Files -> Nat]
        /\ torn \subseteq Sources /\ unsent \subseteq Sources
        /\ UNCHANGED <<disk, archive>> => Behind'
    BY DEF IInv, TypeOK, Others, Dated, Behind
  <1>5. CASE Run(c, p) /\ UNCHANGED <<archive, unsent>> /\ Others'
    <2>1. Sound(p, stored, row) /\ Holds(p) /\ (Announces(q) => Announces(p))
      BY <1>1, <1>2, <1>3 DEF Sound, Placed, Holds, Announces
    <2>. QED BY <1>1, <1>2, <1>4, <1>5, <2>1, Moves DEF Receive
  <1>6. CASE Run(c, stop) /\ UNCHANGED <<archive, unsent, skip, faults>>
    <2>1. /\ stop \in Pass /\ stop.at = "drain" /\ stop.todo = p.todo /\ stop.jobs = p.jobs
          /\ stop.busy = p.busy /\ stop.results = p.results /\ stop.pending = p.pending
          /\ stop.left = p.left /\ stop.synced = p.synced
      BY <1>2 DEF Pass, Steps
    <2>2. Apart(stop) /\ Fresh(stop, stored, row) /\ Excused(c, stop, gone)
      BY <1>2, <2>1 DEF Apart, Fresh, Excused, InFlight
    <2>3. Placed(stop) /\ Holds(stop) /\ (Announces(q) => Announces(stop))
      BY <1>1, <1>2, <1>3, <2>1 DEF Placed, Holds, Announces, Out
    <2>4. Others'
      BY <1>6 DEF Receive, IInv, TypeOK, Others
    <2>. QED BY <1>1, <1>4, <1>6, <2>1, <2>2, <2>3, <2>4, Moves DEF Receive, Sound
  <1>7. ASSUME r.kind = "incremental", skip' = [skip EXCEPT ![r.file] = 0],
               \/ Whole(r) /\ Run(c, incr) /\ UNCHANGED faults
               \/ Fail(r) /\ Run(c, p)
        PROVE  IInv'
    <2>1. /\ incr \in Pass /\ incr.at = "collect" /\ incr.synced = q.synced + 1
          /\ incr.todo = p.todo /\ incr.jobs = p.jobs /\ incr.busy = p.busy /\ incr.results = p.results
          /\ incr.pending = p.pending /\ incr.left = p.left
      <3>. HIDE DEF p
      <3>1. p.synced + 1 \in Nat
        BY <1>2 DEF Pass
      <3>. QED BY <1>2, <1>3, <3>1 DEF Pass
    <2>2. r \in Result(Sources)
      BY <1>1 DEF Pass, Result, Sources
    <2>3. UNCHANGED <<disk, now, events, saved, started, lock, gone, watch, stops>>
      BY DEF Receive
    <2>4. Wrote(r) /\ (Fail(r) => unsent' \ torn' \subseteq unsent \ torn)
      BY <1>2, <1>7, <2>2, <2>3, Writing
    <2>5. \A x \in InFlight(p) : x.file \in Sources
      BY <1>2 DEF InFlight, Pass, Result, Sources
    <2>6. Fresh(p, stored', row')
      BY <1>2, <2>3, <2>4, <2>5 DEF Fresh, Wrote
    <2>7. Sound(p, stored', row') /\ Holds(p) /\ (Announces(q) => Announces(p))
      BY <1>1, <1>2, <1>3, <2>6 DEF Sound, Placed, Holds, Announces
    <2>8. Sound(incr, stored', row') /\ Excused(c, incr, gone) /\ Holds(incr)
      BY <1>2, <1>3, <2>1, <2>7 DEF Sound, Apart, Placed, Fresh, Excused, Holds, InFlight, Out
    <2>9. Announces(incr)
      BY <1>1, <2>1 DEF Announces, Pass
    <2>10. Others'
      <3>1. faults' \in Nat
        BY <1>7 DEF Fail, IInv, TypeOK, Others
      <3>2. skip' \in [Files -> Nat]
        BY <1>4, <1>7
      <3>. QED BY <2>3, <3>1, <3>2 DEF IInv, TypeOK, Others
    <2>11. CASE Fail(r) /\ Run(c, p)
      BY <1>1, <1>2, <2>3, <2>4, <2>7, <2>10, <2>11, Moves DEF Wrote
    <2>12. CASE Whole(r) /\ Run(c, incr)
      BY <1>1, <2>1, <2>3, <2>4, <2>8, <2>9, <2>10, <2>12, Moves DEF Wrote
    <2>. QED BY <1>7, <2>11, <2>12
  <1>8. CASE Run(c, full) /\ UNCHANGED <<archive, unsent, faults>> /\ skip' = [skip EXCEPT ![r.file] = 0]
    <2>1. r \in Result(Files) /\ r \in Result(Sources)
      BY <1>1 DEF Pass, Result, Sources
    <2>2. /\ full.at \in {"collect", "batch"} /\ full.synced = q.synced /\ full.pending = q.pending \cup {r}
          /\ full.todo = p.todo /\ full.jobs = p.jobs /\ full.busy = p.busy /\ full.results = p.results
          /\ full.left = p.left /\ full.aborted = p.aborted /\ full.phase = p.phase
      BY <1>2, <1>3 DEF Pass
    <2>3. full \in Pass
      BY <1>2, <1>3, <2>1 DEF Pass, Steps
    <2>4. InFlight(full) = InFlight(p) \cup {r} /\ Out(full) = Out(p)
      BY <1>3, <2>2 DEF InFlight, Out
    <2>5. Apart(full) /\ Excused(c, full, gone)
      BY <1>2, <1>3, <2>2, <2>4 DEF Apart, InFlight, Excused
    <2>6. Fresh(full, stored, row)
      BY <1>2, <2>4 DEF Fresh
    <2>7. Placed(full) /\ Holds(full) /\ (Announces(q) => Announces(full))
      BY <1>1, <1>2, <2>2, <2>4 DEF Placed, Holds, Announces
    <2>8. Others'
      BY <1>4, <1>8, <1>2 DEF Receive, IInv, TypeOK, Others
    <2>. QED BY <1>1, <1>4, <1>8, <2>3, <2>5, <2>6, <2>7, <2>8, Moves DEF Receive, Sound
  <1>9. CASE r.kind = "error" \/ r.kind = "empty" \/ r.kind = "skip" \/ r.kind = "cancelled"
    <2>1. \/ Run(c, stop) /\ UNCHANGED <<archive, unsent, skip, faults>>
          \/ Run(c, p) /\ UNCHANGED <<archive, unsent, faults>> /\ skip' \in {skip, [skip EXCEPT ![r.file] = r.time]}
      <3>1. r.kind = "cancelled" => Cancelled(c)
        BY <1>1 DEF Excused, Cancelled
      <3>. QED BY <1>9, <3>1 DEF Receive
    <2>2. skip' \in {skip, [skip EXCEPT ![r.file] = r.time]} /\ faults' = faults => Others'
      BY <1>2, <1>4 DEF Receive, IInv, TypeOK, Others
    <2>. QED BY <1>5, <1>6, <2>1, <2>2
  <1>10. CASE r.kind = "incremental"
    BY <1>7, <1>10 DEF Receive
  <1>11. CASE r.kind = "full"
    BY <1>8, <1>11 DEF Receive
  <1>. QED
    <2>1. r.kind \in Kinds
      BY <1>1 DEF Pass, Result
    <2>. QED BY <1>9, <1>10, <1>11, <2>1 DEF Kinds

LEMMA NoticeStep == ASSUME IInv, NEW c \in DOMAIN pass, Notice(c) PROVE IInv'
  <1>. DEFINE q == pass[c]
              p == [q EXCEPT !.at = "drain", !.aborted = TRUE]
  <1>1. /\ q \in Pass /\ Apart(q) /\ Placed(q) /\ Fresh(q, stored, row) /\ Excused(c, q, gone)
        /\ q.at = "collect" /\ lock = c
    BY Current DEF Notice, Holds
  <1>2. /\ p \in Pass /\ p.at = "drain" /\ p.todo = q.todo /\ p.jobs = q.jobs /\ p.busy = q.busy
        /\ p.results = q.results /\ p.pending = q.pending /\ p.left = q.left /\ p.synced = q.synced
    BY <1>1 DEF Pass, Steps
  <1>3. Apart(p) /\ Fresh(p, stored, row) /\ Excused(c, p, gone)
    BY <1>1, <1>2 DEF Apart, Fresh, Excused, InFlight
  <1>4. Placed(p) /\ Holds(p) /\ (Announces(q) => Announces(p))
    BY <1>1, <1>2 DEF Placed, Holds, Announces, Out
  <1>5. Run(c, p) /\ Others' /\ UNCHANGED <<disk, archive, now, lock, gone, unsent, watch>>
    BY DEF Notice, IInv, TypeOK, Others
  <1>. QED BY <1>1, <1>2, <1>3, <1>4, <1>5, Moves DEF Sound, IInv, TypeOK, Dated, Behind

LEMMA DrainStep ==
    ASSUME IInv, NEW c \in DOMAIN pass, NEW r \in pass[c].results, drainResults(c, r) PROVE IInv'
  <1>. DEFINE q == pass[c]
              p == [q EXCEPT !.results = @ \ {r}, !.left = @ - 1]
  <1>1. q \in Pass /\ Placed(q) /\ q.at = "drain" /\ lock = c
    BY Current DEF drainResults, Holds
  <1>2. p \in Pass /\ Excused(c, p, gone) /\ p.left = Cardinality(Out(p)) /\ Apart(p) /\ Fresh(p, stored, row)
    BY Taken
  <1>3. p.at = "drain" /\ p.synced = q.synced /\ p.pending = q.pending
    BY <1>1 DEF Pass
  <1>4. Placed(p) /\ Holds(p) /\ (Announces(q) => Announces(p))
    BY <1>1, <1>2, <1>3 DEF Placed, Holds, Announces
  <1>5. Run(c, p) /\ Others' /\ UNCHANGED <<disk, archive, now, lock, gone, unsent, watch>>
    BY DEF drainResults, IInv, TypeOK, Others
  <1>. QED BY <1>1, <1>2, <1>4, <1>5, Moves DEF Sound, IInv, TypeOK, Dated, Behind

(* The count is exact, so a collector that has heard of everything has     *)
(* nothing out.                                                            *)
LEMMA FlushStep == ASSUME IInv, NEW c \in DOMAIN pass, Flush(c) PROVE IInv'
  <1>. DEFINE q == pass[c]
              p == [q EXCEPT !.at = "flush"]
  <1>1. /\ q \in Pass /\ Apart(q) /\ Placed(q) /\ Fresh(q, stored, row) /\ Excused(c, q, gone)
        /\ q.at \in {"collect", "drain"} /\ q.left = 0 /\ lock = c
    BY Current DEF Flush, Collects, Holds
  <1>2. /\ p \in Pass /\ p.at = "flush" /\ p.todo = q.todo /\ p.jobs = q.jobs /\ p.busy = q.busy
        /\ p.results = q.results /\ p.pending = q.pending /\ p.synced = q.synced
    BY <1>1 DEF Pass, Steps
  <1>3. Apart(p) /\ Fresh(p, stored, row) /\ Excused(c, p, gone)
    BY <1>1, <1>2 DEF Apart, Fresh, Excused, InFlight
  <1>4. Out(q) = {}
    BY <1>1, FiniteOut, FS_EmptySet DEF Placed
  <1>5. Out(p) = {}
    BY <1>2, <1>4 DEF Out
  <1>6. Placed(p) /\ Holds(p) /\ (Announces(q) => Announces(p))
    BY <1>1, <1>2, <1>5 DEF Placed, Holds, Announces
  <1>7. Run(c, p) /\ Others' /\ UNCHANGED <<disk, archive, now, lock, gone, unsent, watch>>
    BY DEF Flush, IInv, TypeOK, Others
  <1>. QED BY <1>1, <1>2, <1>3, <1>6, <1>7, Moves DEF Sound, IInv, TypeOK, Dated, Behind

-----------------------------------------------------------------------------
(* The writes.                                                             *)

LEMMA WriteBatchStep ==
    ASSUME IInv, NEW c \in DOMAIN pass, NEW r \in pass[c].pending, writeBatch(c, r) PROVE IInv'
  <1>. DEFINE q == pass[c]
              kept == [q EXCEPT !.pending = @ \ {r}]
              done == [q EXCEPT !.pending = @ \ {r}, !.synced = @ + 1]
  <1>1. /\ q \in Pass /\ Apart(q) /\ Placed(q) /\ Fresh(q, stored, row) /\ Excused(c, q, gone)
        /\ q.at \in {"batch", "flush"} /\ lock = c /\ Holds(q)
    BY Current DEF writeBatch, Holds
  <1>2. /\ kept \in Pass /\ kept.at = q.at /\ kept.todo = q.todo /\ kept.jobs = q.jobs
        /\ kept.busy = q.busy /\ kept.results = q.results /\ kept.pending = q.pending \ {r}
        /\ kept.left = q.left /\ kept.synced = q.synced
    BY <1>1 DEF Pass
  <1>3. /\ done \in Pass /\ done.at = q.at /\ done.todo = q.todo /\ done.jobs = q.jobs
        /\ done.busy = q.busy /\ done.results = q.results /\ done.pending = q.pending \ {r}
        /\ done.left = q.left /\ done.synced = q.synced + 1
    <2>1. q.synced + 1 \in Nat
      BY <1>1 DEF Pass
    <2>. QED BY <1>1, <2>1 DEF Pass
  <1>4. ASSUME NEW p \in {kept, done}
        PROVE  p \in Pass /\ Apart(p) /\ Placed(p) /\ Excused(c, p, gone) /\ Holds(p)
    <2>1. /\ p \in Pass /\ p.at = q.at /\ p.todo = q.todo /\ p.jobs = q.jobs /\ p.busy = q.busy
          /\ p.results = q.results /\ p.pending = q.pending \ {r} /\ p.left = q.left
      BY <1>2, <1>3
    <2>. HIDE DEF kept, done
    <2>. QED BY <1>1, <2>1 DEF Apart, Placed, Excused, Holds, InFlight, Out
  <1>5. UNCHANGED <<disk, now, lock, gone, watch>>
    BY DEF writeBatch
  <1>6. /\ r \in Result(Sources) /\ stored[r.file] <= r.time /\ row[r.file] <= r.time
        /\ r.time <= disk[r.file]
    BY <1>1 DEF Pass, Fresh, InFlight
  <1>7. Wrote(r) /\ (Fail(r) => unsent' \ torn' \subseteq unsent \ torn)
    BY <1>5, <1>6, Writing DEF writeBatch
  <1>8. Fresh(kept, stored', row') /\ Fresh(done, stored', row')
    <2>. DEFINE Left == q.busy \cup q.results \cup (q.pending \ {r})
    <2>1. InFlight(kept) = Left /\ InFlight(done) = Left
      BY <1>2, <1>3 DEF InFlight
    <2>2. \A x \in Left : x \in InFlight(q) /\ x # r /\ x.file \in Sources
      BY <1>1 DEF InFlight, Apart, Pass, Result, Sources
    <2>3. \A x \in Left : x.file # r.file
      BY <1>1, <2>2 DEF Apart, InFlight
    <2>. HIDE DEF Left
    <2>. QED BY <1>1, <1>5, <1>7, <2>1, <2>2, <2>3 DEF Fresh, Wrote
  <1>9. Others'
    <2>1. faults' \in Nat
      BY DEF writeBatch, Fail, IInv, TypeOK, Others
    <2>. QED BY <2>1 DEF writeBatch, IInv, TypeOK, Others
  <1>10. CASE Run(c, kept) /\ Fail(r)
    <2>1. Announces(q) => Announces(kept)
      BY <1>1, <1>2 DEF Announces
    <2>. QED BY <1>1, <1>4, <1>5, <1>7, <1>8, <1>9, <1>10, <2>1, Moves DEF Sound, Wrote
  <1>11. CASE Run(c, done) /\ Whole(r)
    <2>1. Announces(done)
      BY <1>1, <1>3 DEF Announces, Pass
    <2>. QED BY <1>1, <1>4, <1>5, <1>7, <1>8, <1>9, <1>11, <2>1, Moves DEF Sound, Wrote
  <1>. QED BY <1>10, <1>11 DEF writeBatch

LEMMA WrittenStep == ASSUME IInv, NEW c \in DOMAIN pass, Written(c) PROVE IInv'
  <1>. DEFINE q == pass[c]
  <1>1. /\ q \in Pass /\ Apart(q) /\ Placed(q) /\ Fresh(q, stored, row) /\ Excused(c, q, gone)
        /\ q.at \in {"batch", "flush"} /\ q.pending = {} /\ lock = c
    BY Current DEF Written, Holds
  <1>2. PICK at \in Steps :
           /\ at = "collect" <=> q.at = "batch"
           /\ at \in {"collect", "stores", "end"}
           /\ Run(c, [q EXCEPT !.at = at])
    <2>1. CASE q.at = "batch"
      BY <1>1, <2>1 DEF Written, Steps
    <2>2. CASE q.at = "flush"
      BY <1>1, <2>2 DEF Written, Steps
    <2>. QED BY <1>1, <2>1, <2>2
  <1>. DEFINE p == [q EXCEPT !.at = at]
  <1>3. /\ p \in Pass /\ p.at = at /\ p.todo = q.todo /\ p.jobs = q.jobs /\ p.busy = q.busy
        /\ p.results = q.results /\ p.pending = {} /\ p.left = q.left /\ p.synced = q.synced
    BY <1>1, <1>2 DEF Pass
  <1>4. Apart(p) /\ Fresh(p, stored, row) /\ Excused(c, p, gone)
    BY <1>1, <1>3 DEF Apart, Fresh, Excused, InFlight
  <1>5. Placed(p) /\ Holds(p) /\ (Announces(q) => Announces(p))
    BY <1>1, <1>2, <1>3 DEF Placed, Holds, Announces, Out
  <1>6. Run(c, p) /\ Others' /\ UNCHANGED <<disk, archive, now, lock, gone, unsent, watch>>
    BY <1>2 DEF Written, IInv, TypeOK, Others
  <1>. QED BY <1>1, <1>3, <1>4, <1>5, <1>6, Moves DEF Sound, IInv, TypeOK, Dated, Behind

(* A session read now is of the version its source has now.                *)
LEMMA ReadNow ==
    ASSUME IInv, NEW s \in Sources
    PROVE  Parsed(s) \in Result(Sources) /\ Parsed(s).file = s /\ Parsed(s).time = disk[s]
           /\ Parsed(s).time <= disk[s] /\ stored[s] <= disk[s] /\ row[s] <= disk[s] /\ (s \in Files => Parsed(s) \in Result(Files))
  BY DEF Parsed, Result, Kinds, IInv, TypeOK, Dated, Behind

LEMMA SyncStoreStep == ASSUME IInv, NEW c \in DOMAIN pass, syncStore(c) PROVE IInv'
  <1>. DEFINE q == pass[c]
              s == Stores[q.phase]
              p == [q EXCEPT !.at = "store", !.pending = {Parsed(t) : t \in pendingSessionIDs(s)}]
  <1>1. /\ q \in Pass /\ Apart(q) /\ Placed(q) /\ Fresh(q, stored, row) /\ Excused(c, q, gone)
        /\ q.at = "stores" /\ lock = c /\ Run(c, p)
    BY Current DEF syncStore, Holds
  <1>2. s \in Sources
    <2>1. q.phase \in Nat \ {0} /\ q.phase <= Len(Stores)
      BY <1>1 DEF Pass, syncStore
    <2>2. Len(Stores) \in Nat
      BY PipelineAssumption
    <2>. QED BY <2>1, <2>2 DEF Sources, StoreSet
  <1>3. q.todo = {} /\ q.jobs = {} /\ q.busy = {} /\ q.results = {}
    BY <1>1 DEF Placed, Out
  <1>4. {Parsed(t) : t \in pendingSessionIDs(s)} \subseteq {Parsed(s)}
    BY DEF pendingSessionIDs
  <1>5. /\ Parsed(s) \in Result(Sources) /\ Parsed(s).file = s /\ Parsed(s).time = disk[s]
        /\ stored[s] <= disk[s] /\ row[s] <= disk[s]
    BY <1>2, ReadNow
  <1>6. /\ p \in Pass /\ p.at = "store" /\ p.todo = {} /\ p.jobs = {} /\ p.busy = {}
        /\ p.results = {} /\ p.pending \subseteq {Parsed(s)} /\ p.synced = q.synced
    BY <1>1, <1>3, <1>4, <1>5 DEF Pass, Steps
  <1>. HIDE DEF s, p
  <1>7. Apart(p) /\ Excused(c, p, gone)
    BY <1>6 DEF Apart, Excused, InFlight
  <1>8. Fresh(p, stored, row)
    BY <1>2, <1>5, <1>6 DEF Fresh, InFlight, IInv, TypeOK
  <1>9. Placed(p) /\ Holds(p) /\ (Announces(q) => Announces(p))
    BY <1>1, <1>6 DEF Placed, Holds, Announces, Out
  <1>10. Others' /\ UNCHANGED <<disk, archive, now, lock, gone, unsent, watch>>
    BY DEF syncStore, IInv, TypeOK, Others
  <1>. QED BY <1>1, <1>6, <1>7, <1>8, <1>9, <1>10, Moves DEF Sound, IInv, TypeOK, Dated, Behind

LEMMA WriteStoreStep == ASSUME IInv, NEW c \in DOMAIN pass, writeSessionFull(c) PROVE IInv'
  <1>. DEFINE q == pass[c]
              kept == [q EXCEPT !.at = "stores", !.phase = @ + 1, !.pending = {}]
              done == [kept EXCEPT !.synced = @ + 1]
  <1>1. /\ q \in Pass /\ Apart(q) /\ Placed(q) /\ Fresh(q, stored, row) /\ Excused(c, q, gone)
        /\ q.at = "store" /\ lock = c /\ Holds(q)
    BY Current DEF writeSessionFull, Holds
  <1>2. q.todo = {} /\ q.jobs = {} /\ q.busy = {} /\ q.results = {}
    BY <1>1 DEF Placed, Out
  <1>3. q.phase + 1 \in Nat \ {0} /\ q.synced + 1 \in Nat
    BY <1>1 DEF Pass
  <1>4. /\ kept \in Pass /\ kept.at = "stores" /\ kept.todo = {} /\ kept.jobs = {} /\ kept.busy = {}
        /\ kept.results = {} /\ kept.pending = {} /\ kept.synced = q.synced
    BY <1>1, <1>2, <1>3 DEF Pass, Steps
  <1>5. /\ done \in Pass /\ done.at = "stores" /\ done.todo = {} /\ done.jobs = {} /\ done.busy = {}
        /\ done.results = {} /\ done.pending = {} /\ done.synced = q.synced + 1
    <2>. HIDE DEF kept
    <2>. QED BY <1>3, <1>4 DEF Pass
  <1>6. ASSUME NEW p \in {kept, done}, NEW st, NEW rw PROVE p \in Pass /\ Sound(p, st, rw) /\ Excused(c, p, gone) /\ Holds(p)
    <2>1. p \in Pass /\ p.at = "stores" /\ p.todo = {} /\ p.jobs = {} /\ p.busy = {} /\ p.results = {} /\ p.pending = {}
      BY <1>4, <1>5
    <2>. HIDE DEF kept, done
    <2>. QED BY <2>1 DEF Sound, Apart, Placed, Fresh, Excused, Holds, InFlight, Out
  <1>7. UNCHANGED <<disk, now, lock, gone, watch>>
    BY DEF writeSessionFull
  <1>8. Others'
    <2>1. faults' \in Nat
      BY DEF writeSessionFull, Fail, IInv, TypeOK, Others
    <2>. QED BY <2>1 DEF writeSessionFull, IInv, TypeOK, Others
  <1>9. Announces(q) => Announces(kept)
    BY <1>4 DEF Announces
  <1>10. CASE Run(c, kept) /\ UNCHANGED <<archive, unsent>>
    BY <1>1, <1>6, <1>7, <1>8, <1>9, <1>10, Moves DEF IInv, TypeOK, Dated, Behind
  <1>11. ASSUME NEW r \in q.pending, (Whole(r) /\ Run(c, done)) \/ (Fail(r) /\ Run(c, kept)) PROVE IInv'
    <2>1. /\ r \in Result(Sources) /\ stored[r.file] <= r.time /\ row[r.file] <= r.time
          /\ r.time <= disk[r.file]
      BY <1>1 DEF Pass, Fresh, InFlight
    <2>2. Wrote(r) /\ (Fail(r) => unsent' \ torn' \subseteq unsent \ torn)
      BY <1>7, <1>11, <2>1, Writing
    <2>3. CASE Fail(r) /\ Run(c, kept)
      BY <1>1, <1>6, <1>7, <1>8, <1>9, <2>2, <2>3, Moves DEF Wrote
    <2>4. CASE Whole(r) /\ Run(c, done)
      <3>1. Announces(done)
        BY <1>1, <1>5 DEF Announces, Pass
      <3>. QED BY <1>1, <1>6, <1>7, <1>8, <2>2, <2>4, <3>1, Moves DEF Wrote
    <2>. QED BY <1>11, <2>3, <2>4
  <1>12. CASE pass[c].pending = {} \/ Cancelled(c)
    <2>1. Run(c, kept) /\ UNCHANGED <<archive, unsent>>
      BY <1>12 DEF writeSessionFull
    <2>. QED BY <1>10, <2>1
  <1>13. CASE ~(pass[c].pending = {} \/ Cancelled(c))
    <2>1. PICK r \in pass[c].pending : (Whole(r) /\ Run(c, done)) \/ (Fail(r) /\ Run(c, kept))
      BY <1>13 DEF writeSessionFull
    <2>. QED BY <1>11, <2>1
  <1>. QED BY <1>12, <1>13

LEMMA StoresDoneStep == ASSUME IInv, NEW c \in DOMAIN pass, StoresDone(c) PROVE IInv'
  <1>. DEFINE q == pass[c]
              p == [q EXCEPT !.at = "end", !.aborted = Cancelled(c)]
  <1>1. /\ q \in Pass /\ Apart(q) /\ Placed(q) /\ Fresh(q, stored, row) /\ Excused(c, q, gone)
        /\ q.at = "stores" /\ lock = c
    BY Current DEF StoresDone, Holds
  <1>2. Cancelled(c) \in BOOLEAN
    BY DEF Cancelled, IInv, TypeOK, Others
  <1>3. /\ p \in Pass /\ p.at = "end" /\ p.todo = q.todo /\ p.jobs = q.jobs /\ p.busy = q.busy
        /\ p.results = q.results /\ p.pending = q.pending /\ p.synced = q.synced
    BY <1>1, <1>2 DEF Pass, Steps
  <1>4. Apart(p) /\ Fresh(p, stored, row) /\ Excused(c, p, gone)
    BY <1>1, <1>3 DEF Apart, Fresh, Excused, InFlight
  <1>5. Placed(p) /\ Holds(p) /\ (Announces(q) => Announces(p))
    BY <1>1, <1>3 DEF Placed, Holds, Announces, Out
  <1>6. Run(c, p) /\ Others' /\ UNCHANGED <<disk, archive, now, lock, gone, unsent, watch>>
    BY DEF StoresDone, IInv, TypeOK, Others
  <1>. QED BY <1>1, <1>3, <1>4, <1>5, <1>6, Moves DEF Sound, IInv, TypeOK, Dated, Behind

LEMMA EndStep == ASSUME IInv, NEW c \in DOMAIN pass, End(c) PROVE IInv'
  <1>. DEFINE q == pass[c]
              p == [q EXCEPT !.at = "emit"]
  <1>1. /\ q \in Pass /\ Apart(q) /\ Placed(q) /\ Fresh(q, stored, row) /\ Excused(c, q, gone)
        /\ q.at = "end" /\ lock = c
    BY Current DEF End, Holds
  <1>2. /\ p \in Pass /\ p.at = "emit" /\ p.todo = q.todo /\ p.jobs = q.jobs /\ p.busy = q.busy
        /\ p.results = q.results /\ p.pending = q.pending /\ p.synced = q.synced
    BY <1>1 DEF Pass, Steps
  <1>3. Apart(p) /\ Fresh(p, stored, row) /\ Excused(c, p, gone)
    BY <1>1, <1>2 DEF Apart, Fresh, Excused, InFlight
  <1>4. Placed(p) /\ ~Holds(p) /\ (Announces(q) => Announces(p))
    BY <1>1, <1>2 DEF Placed, Holds, Announces, Out
  <1>5. Run(c, p) /\ Others' /\ UNCHANGED <<disk, archive, now, gone, unsent, watch>> /\ lock' = None
    BY DEF End, IInv, TypeOK, Others
  <1>. QED BY <1>1, <1>2, <1>3, <1>4, <1>5, Moves DEF Sound, IInv, TypeOK, Dated, Behind

LEMMA IdleIsSound ==
    /\ Idle \in Pass /\ Idle.at = "idle" /\ Idle.todo = {} /\ Idle.jobs = {} /\ Idle.busy = {}
    /\ Idle.results = {} /\ Idle.pending = {} /\ Idle.synced = 0
    /\ \A st, rw, c, g : Sound(Idle, st, rw) /\ Excused(c, Idle, g)
  BY DEF Idle, Pass, Steps, Sound, Apart, Placed, Fresh, Excused, InFlight, Out

LEMMA EmitStep == ASSUME IInv, NEW c \in DOMAIN pass, emit(c) PROVE IInv'
  <1>1. pass[c].at = "emit" /\ lock # c
    BY Current DEF emit, Holds
  <1>2. ~Holds(Idle) /\ Idle \in Pass /\ Sound(Idle, stored, row) /\ Excused(c, Idle, gone)
    BY IdleIsSound DEF Holds, Idle
  <1>3. unsent' = {} \/ (unsent' = unsent /\ ~Announces(pass[c]))
    <2>1. CASE pass[c].synced > 0
      <3>1. unsent' = {}
        BY <2>1 DEF emit
      <3>. QED BY <3>1
    <2>2. CASE ~(pass[c].synced > 0)
      BY <2>2 DEF emit, Announces
    <2>. QED BY <2>1, <2>2
  <1>4. Run(c, Idle) /\ Others' /\ UNCHANGED <<disk, archive, now, gone, lock, watch>>
    BY DEF emit, IInv, TypeOK, Others
  <1>. QED BY <1>1, <1>2, <1>3, <1>4, Moves DEF IInv, TypeOK, Dated, Behind

-----------------------------------------------------------------------------
(* A pass begins.                                                          *)

LEMMA AskStep == ASSUME IInv, NEW c \in DOMAIN pass, Ask(c) PROVE IInv'
  <1>. DEFINE todo == IF c = "watcher" THEN events ELSE Files
              p == [Idle EXCEPT !.at = "lock", !.todo = todo]
  <1>1. pass[c].at = "idle" /\ c # "session" /\ lock # c
    BY Current DEF Ask, Holds
  <1>2. todo \subseteq Files
    BY DEF IInv, TypeOK, Others
  <1>3. p \in Pass /\ Sound(p, stored, row) /\ Excused(c, p, gone') /\ ~Holds(p)
    <2>1. /\ p \in Pass /\ p.at = "lock" /\ p.todo = todo /\ p.jobs = {} /\ p.busy = {}
          /\ p.results = {} /\ p.pending = {} /\ p.synced = 0
      <3>. HIDE DEF todo
      <3>. QED BY <1>2, IdleIsSound DEF Pass, Steps
    <2>. HIDE DEF p
    <2>. QED BY <2>1 DEF Sound, Apart, Placed, Fresh, Excused, Holds, InFlight, Out
  <1>4. Run(c, p) /\ UNCHANGED <<disk, archive, now, lock, unsent, watch>> /\ (gone' = gone \/ c = "request")
    BY DEF Ask
  <1>5. Others'
    BY DEF Ask, IInv, TypeOK, Others
  <1>6. ~Announces(pass[c])
    BY <1>1 DEF Announces
  <1>. QED BY <1>1, <1>3, <1>4, <1>5, <1>6, Moves DEF IInv, TypeOK, Dated, Behind

LEMMA BeginStep == ASSUME IInv, NEW c \in DOMAIN pass, Begin(c) PROVE IInv'
  <1>. DEFINE q == pass[c]
              todo == {f \in IF c = "quick" THEN filterFilesByMtime(q.todo, started) ELSE q.todo : disk[f] > 0}
              stop == [q EXCEPT !.at = "end", !.todo = {}, !.aborted = TRUE]
              go == [q EXCEPT !.at = "collect", !.todo = todo, !.left = Cardinality(todo)]
  <1>1. q \in Pass /\ Placed(q) /\ q.at = "lock" /\ c # "session" /\ lock = None /\ lock' = c
    BY Current DEF Begin
  <1>2. q.jobs = {} /\ q.busy = {} /\ q.results = {} /\ q.pending = {} /\ q.synced = 0
    BY <1>1 DEF Placed
  <1>3. todo \subseteq Files
    BY <1>1 DEF Pass, filterFilesByMtime
  <1>4. IsFiniteSet(todo) /\ Cardinality(todo) \in Nat
    BY <1>3, PipelineAssumption, FS_Subset, FS_CardinalityType
  <1>5. /\ stop \in Pass /\ stop.at = "end" /\ stop.todo = {} /\ stop.jobs = {} /\ stop.busy = {}
        /\ stop.results = {} /\ stop.pending = {}
    BY <1>1, <1>2 DEF Pass, Steps
  <1>6. /\ go \in Pass /\ go.at = "collect" /\ go.todo = todo /\ go.jobs = {} /\ go.busy = {}
        /\ go.results = {} /\ go.pending = {} /\ go.left = Cardinality(todo)
    <2>. HIDE DEF todo
    <2>. QED BY <1>1, <1>2, <1>3, <1>4 DEF Pass, Steps
  <1>7. Run(c, stop) \/ Run(c, go)
    BY DEF Begin
  <1>8. Others' /\ UNCHANGED <<disk, archive, now, unsent, watch, gone>>
    BY DEF Begin, IInv, TypeOK, Others
  <1>. HIDE DEF stop, go, todo
  <1>9. Sound(stop, stored, row) /\ Excused(c, stop, gone) /\ Holds(stop)
    BY <1>5 DEF Sound, Apart, Placed, Fresh, Excused, Holds, InFlight, Out
  <1>10. Sound(go, stored, row) /\ Excused(c, go, gone) /\ Holds(go)
    <2>1. Out(go) = todo
      BY <1>6 DEF Out
    <2>. QED BY <1>6, <2>1 DEF Sound, Apart, Placed, Fresh, Excused, Holds, InFlight
  <1>11. ~Announces(q)
    BY <1>1 DEF Announces
  <1>12. CASE Run(c, stop)
    BY <1>1, <1>5, <1>8, <1>9, <1>11, <1>12, Moves DEF IInv, TypeOK, Dated, Behind
  <1>13. CASE Run(c, go)
    BY <1>1, <1>6, <1>8, <1>10, <1>11, <1>13, Moves DEF IInv, TypeOK, Dated, Behind
  <1>. QED BY <1>7, <1>12, <1>13

(* The pass of the session watch reads its one source under the lock.      *)
LEMMA SingleStep ==
    ASSUME IInv, Single, watch.of \in Sources, Others',
           UNCHANGED <<disk, archive, now, gone, unsent, watch>>,
           \/ Run("session", [Idle EXCEPT !.at = "end", !.synced = 1])
           \/ Run("session", [Idle EXCEPT !.at = "end"])
           \/ \E kind \in Kinds : Run("session", [Idle EXCEPT !.at = "flush",
                                                         !.pending = {[Parsed(watch.of) EXCEPT !.kind = kind]}])
    PROVE  IInv'
  <1>. DEFINE s == watch.of
  <1>1. "session" \in DOMAIN pass /\ pass["session"].at = "lock" /\ lock = None /\ lock' = "session"
    BY DEF Single
  <1>2. ~Announces(pass["session"])
    BY <1>1 DEF Announces
  <1>3. stored[s] <= disk[s] /\ row[s] <= disk[s] /\ disk[s] <= disk[s] /\ disk[s] \in Nat /\ row[s] \in Nat /\ stored[s] \in Nat
    <2>1. disk[s] \in Nat /\ row[s] \in Nat /\ stored[s] \in Nat
      BY DEF IInv, TypeOK
    <2>. QED BY <2>1, ReadNow
  <1>4. ASSUME NEW kind \in Kinds, NEW p,
               p \in {[Idle EXCEPT !.at = "end", !.synced = 1], [Idle EXCEPT !.at = "end"],
                      [Idle EXCEPT !.at = "flush", !.pending = {[Parsed(s) EXCEPT !.kind = kind]}]},
               Run("session", p)
        PROVE  IInv'
    <2>. DEFINE r == [Parsed(s) EXCEPT !.kind = kind]
    <2>3. r \in Result(Sources) /\ r.file = s /\ r.time = disk[s]
      BY <1>3 DEF Parsed, Result
    <2>. HIDE DEF r
    <2>1. /\ p \in Pass /\ p.at \in {"end", "flush"} /\ p.todo = {} /\ p.jobs = {} /\ p.busy = {}
          /\ p.results = {} /\ p.pending = (IF p.at = "flush" THEN {r} ELSE {})
      <3>1. CASE p = [Idle EXCEPT !.at = "end", !.synced = 1]
        BY <3>1, IdleIsSound DEF Pass, Steps
      <3>2. CASE p = [Idle EXCEPT !.at = "end"]
        BY <3>2, IdleIsSound DEF Pass, Steps
      <3>3. CASE p = [Idle EXCEPT !.at = "flush", !.pending = {r}]
        BY <2>3, <3>3, IdleIsSound DEF Pass, Steps
      <3>. QED BY <1>4, <3>1, <3>2, <3>3 DEF r
    <2>2. Apart(p) /\ Placed(p) /\ Excused("session", p, gone) /\ Holds(p)
      BY <2>1 DEF Apart, Placed, Excused, Holds, InFlight, Out
    <2>4. Fresh(p, stored, row)
      <3>1. \A x \in InFlight(p) : x = r
        BY <2>1 DEF InFlight
      <3>2. \A x \in InFlight(p) : x.file = s /\ x.time = disk[s]
        BY <2>3, <3>1
      <3>. HIDE DEF s
      <3>. QED BY <1>3, <3>2 DEF Fresh
    <2>. QED BY <1>1, <1>2, <1>4, <2>1, <2>2, <2>4, Moves DEF Sound, IInv, TypeOK, Dated, Behind
  <1>5. "full" \in Kinds
    BY DEF Kinds
  <1>. QED BY <1>4, <1>5

LEMMA SyncSingleStep == ASSUME IInv, SyncSingleSession \/ syncSingleStore PROVE IInv'
  <1>1. CASE SyncSingleSession
    <2>1. watch.of \in Files /\ watch.of \in Sources /\ disk[watch.of] \in Nat
      BY <1>1 DEF SyncSingleSession, Sources, IInv, TypeOK
    <2>2. Others'
      <3>1. skip' = [skip EXCEPT ![watch.of] = 0] \/ skip' = [skip EXCEPT ![watch.of] = disk[watch.of]]
        BY <1>1, Zenon DEF SyncSingleSession
      <3>2. faults' = faults \/ faults' = faults + 1
        BY <1>1, Zenon DEF SyncSingleSession
      <3>3. UNCHANGED <<now, events, saved, started, gone, stops>>
        BY <1>1 DEF SyncSingleSession
      <3>. QED BY <2>1, <3>1, <3>2, <3>3 DEF IInv, TypeOK, Others
    <2>3. \/ Run("session", [Idle EXCEPT !.at = "end", !.synced = 1])
          \/ Run("session", [Idle EXCEPT !.at = "end"])
          \/ \E kind \in Kinds : Run("session", [Idle EXCEPT !.at = "flush",
                                                       !.pending = {[Parsed(watch.of) EXCEPT !.kind = kind]}])
      BY <1>1 DEF SyncSingleSession, Reread, Kinds
    <2>4. Single /\ UNCHANGED <<disk, archive, now, gone, unsent, watch>>
      BY <1>1 DEF SyncSingleSession
    <2>. QED BY <2>1, <2>2, <2>3, <2>4, SingleStep
  <1>2. CASE syncSingleStore
    <2>1. Others' /\ watch.of \in Sources
      BY <1>2 DEF syncSingleStore, Sources, IInv, TypeOK, Others
    <2>2. Parsed(watch.of) = [Parsed(watch.of) EXCEPT !.kind = "full"] /\ "full" \in Kinds
      BY DEF Parsed, Kinds
    <2>. QED BY <1>2, <2>1, <2>2, SingleStep DEF syncSingleStore
  <1>. QED BY <1>1, <1>2

-----------------------------------------------------------------------------
(* The watch, the agents and the process.                                  *)

LEMMA CheckStep == ASSUME IInv, checkDBForChanges PROVE IInv'
  <1>. DEFINE s == watch.of
              age == IF disk[s] # watch.file \/ watch.age > 0 THEN watch.age + 1 ELSE 0
              p == [Idle EXCEPT !.at = "lock"]
  <1>1. /\ watch \in Watch /\ watch.at = "wait" /\ s \in Sources /\ "session" \in DOMAIN pass
        /\ pass["session"].at = "idle" /\ row[s] \in Nat /\ disk[s] \in Nat /\ age \in Nat
    BY DEF checkDBForChanges, IInv, TypeOK, Watches, Watch
  <1>2. Others' /\ UNCHANGED <<disk, archive, now, gone, unsent, lock>>
    BY DEF checkDBForChanges, IInv, TypeOK, Others
  <1>3. CASE /\ UNCHANGED pass
             /\ \/ watch' = [watch EXCEPT !.at = "send", !.seen = row[s], !.age = 0]
                \/ watch' = [watch EXCEPT !.file = disk[s], !.age = age]
    <2>1. watch' \in Watch /\ watch'.at # "sync" /\ watch'.of = s
      <3>. HIDE DEF age
      <3>1. CASE watch' = [watch EXCEPT !.at = "send", !.seen = row[s], !.age = 0]
        BY <1>1, <3>1 DEF Watch
      <3>2. CASE watch' = [watch EXCEPT !.file = disk[s], !.age = age]
        BY <1>1, <3>2 DEF Watch
      <3>. QED BY <1>3, <3>1, <3>2
    <2>. QED BY <1>1, <1>2, <1>3, <2>1 DEF IInv, TypeOK, Dated, Behind, Locking, Passes, Watches, Announcing, Sound, Fresh
  <1>4. CASE Run("session", p) /\ watch' = [watch EXCEPT !.file = disk[s], !.age = 0, !.at = "sync"]
    <2>1. watch' \in Watch /\ watch'.of \in Sources /\ watch'.at = "sync"
      BY <1>1, <1>4 DEF Watch
    <2>2. p \in Pass /\ ~Holds(p) /\ Sound(p, stored, row) /\ Excused("session", p, gone)
      <3>1. /\ p \in Pass /\ p.at = "lock" /\ p.todo = {} /\ p.jobs = {} /\ p.busy = {}
            /\ p.results = {} /\ p.pending = {} /\ p.synced = 0
        BY IdleIsSound DEF Pass, Steps
      <3>. HIDE DEF p
      <3>. QED BY <3>1 DEF Holds, Sound, Apart, Placed, Fresh, Excused, InFlight, Out
    <2>3. ~Announces(pass["session"]) /\ lock # "session"
      BY <1>1, Current DEF Announces, Holds
    <2>. QED BY <1>1, <1>2, <1>4, <2>1, <2>2, <2>3, Moves DEF IInv, TypeOK, Dated, Behind
  <1>. QED BY <1>3, <1>4 DEF checkDBForChanges

(* Nothing but the watch moves.                                            *)
LEMMA WatchStep == ASSUME IInv, Synced \/ Tick \/ Open \/ Close PROVE IInv'
  <1>1. /\ Others' /\ watch' \in Watch /\ watch'.at # "sync"
        /\ watch'.at # "off" => watch'.of \in Sources /\ "session" \in DOMAIN pass
        /\ "session" \in DOMAIN pass => pass["session"].at = "idle"
    <2>1. CASE Synced
      BY <2>1 DEF Synced, IInv, TypeOK, Others, Watches, Watch
    <2>2. CASE Tick
      BY <2>2 DEF Tick, IInv, TypeOK, Others, Watches, Watch
    <2>3. CASE Open
      BY <2>3, PipelineAssumption DEF Open, IInv, TypeOK, Others, Watches, Watch
    <2>4. CASE Close
      BY <2>4 DEF Close, Closed, IInv, TypeOK, Others, Watches, Watch
    <2>. QED BY <2>1, <2>2, <2>3, <2>4
  <1>2. UNCHANGED <<disk, archive, now, lock, pass, gone, unsent>>
    BY DEF Synced, Tick, Open, Close
  <1>. QED BY <1>1, <1>2 DEF IInv, TypeOK, Dated, Behind, Locking, Passes, Watches, Announcing, Sound, Fresh

LEMMA ChangeStep == ASSUME IInv, NEW s \in Sources, Change(s) PROVE IInv'
  <1>1. /\ disk' = [disk EXCEPT ![s] = now + 1] /\ now' = now + 1
        /\ UNCHANGED <<archive, lock, pass, gone, unsent, watch>>
    BY DEF Change
  <1>2. TypeOK'
    <2>1. events' \subseteq Files /\ faults' \in Nat
      BY DEF Change, Seen, IInv, TypeOK, Others
    <2>. QED BY <1>1, <2>1 DEF Change, IInv, TypeOK, Others
  <1>3. Dated' /\ \A t \in Sources : disk'[t] >= disk[t] /\ disk'[t] \in Nat
    BY <1>1 DEF IInv, TypeOK, Others, Dated, Behind
  <1>4. Passes'
    <2>1. ASSUME NEW c \in DOMAIN pass, NEW x \in InFlight(pass[c])
          PROVE  stored[x.file] <= x.time /\ row[x.file] <= x.time /\ x.time <= disk'[x.file]
      <3>1. /\ x.file \in Sources /\ x.time \in Nat /\ x.time <= disk[x.file]
            /\ stored[x.file] <= x.time /\ row[x.file] <= x.time
        BY Current DEF InFlight, Pass, Result, Sources, Fresh
      <3>. QED BY <1>3, <3>1 DEF IInv, TypeOK
    <2>. QED BY <1>1, <2>1 DEF IInv, Passes, Sound, Fresh
  <1>. QED BY <1>1, <1>2, <1>3, <1>4 DEF IInv, Locking, Watches, Announcing

LEMMA CancelStep == ASSUME IInv, Cancel PROVE IInv'
  <1>1. gone' = TRUE /\ UNCHANGED <<disk, archive, now, lock, pass, unsent, watch>>
    BY DEF Cancel
  <1>2. TypeOK'
    BY <1>1 DEF Cancel, IInv, TypeOK, Others
  <1>3. Passes'
    BY <1>1 DEF IInv, Passes, Sound, Fresh, Excused
  <1>. QED BY <1>1, <1>2, <1>3 DEF IInv, Dated, Behind, Locking, Watches, Announcing

(* A process that starts has idle passes, whoever they are.                *)
LEMMA RestartStep == ASSUME IInv, Restart PROVE IInv'
  <1>. DEFINE P == DOMAIN pass
  <1>1. P \in Processes /\ pass' = [c \in P |-> Idle]
    BY DEF Restart, IInv, TypeOK
  <1>2. /\ lock' = None /\ gone' = FALSE /\ unsent' = {} /\ watch' = Closed
        /\ UNCHANGED <<disk, archive, now>>
    BY DEF Restart
  <1>3. TypeOK'
    <2>1. Closed \in Watch
      BY DEF Closed, Watch
    <2>2. Others'
      <3>1. events' \subseteq Files /\ skip' = saved /\ stops' = stops + 1
            /\ UNCHANGED <<now, saved, started, faults>>
        BY DEF Restart
      <3>2. gone' \in BOOLEAN
        BY <1>2
      <3>. QED BY <3>1, <3>2 DEF IInv, TypeOK, Others
    <2>3. DOMAIN pass' \in Processes /\ pass' \in [DOMAIN pass' -> Pass]
      BY <1>1, IdleIsSound
    <2>. QED BY <1>2, <2>1, <2>2, <2>3 DEF IInv, TypeOK
  <1>4. Locking' /\ Watches' /\ Announcing' /\ Dated'
    BY <1>1, <1>2, PipelineAssumption DEF Locking, Holds, Idle, Watches, Closed, Announcing, IInv, Dated, Behind
  <1>5. Passes'
    BY <1>1, <1>2, IdleIsSound DEF Passes, Sound, Fresh
  <1>. QED BY <1>3, <1>4, <1>5 DEF IInv

-----------------------------------------------------------------------------
(* The invariant and what follows from it.                                 *)

LEMMA Initially == Init => IInv
  <1>. SUFFICES ASSUME Init PROVE IInv
    OBVIOUS
  <1>1. PICK t \in {0, 1}, u \in {0, 1} :
           /\ u <= t /\ disk = [s \in Sources |-> t] /\ row = [s \in Sources |-> IF s \in Empty THEN 0 ELSE u]
           /\ skip = [f \in Files |-> IF f \in Empty THEN u ELSE 0] /\ started = u
    BY DEF Init
  <1>2. PICK P \in Processes : pass = [c \in P |-> Idle]
    BY DEF Init
  <1>3. /\ stored = row /\ saved = skip /\ torn = {} /\ now = 1 /\ lock = None /\ unsent = {}
        /\ watch = Closed /\ events = {} /\ gone = FALSE /\ faults = 0 /\ stops = 0
    BY DEF Init
  <1>4. TypeOK
    <2>1. Closed \in Watch
      BY DEF Closed, Watch
    <2>2. Others
      <3>1. skip \in [Files -> Nat] /\ started \in Nat
        BY <1>1
      <3>. QED BY <1>3, <3>1 DEF Others
    <2>3. DOMAIN pass \in Processes /\ pass \in [DOMAIN pass -> Pass]
      BY <1>2, IdleIsSound
    <2>. QED BY <1>1, <1>3, <2>1, <2>2, <2>3 DEF TypeOK
  <1>5. Dated
    BY <1>1, <1>3 DEF Dated, Behind
  <1>6. Locking /\ Watches /\ Announcing
    BY <1>2, <1>3, PipelineAssumption DEF Locking, Holds, Idle, Watches, Closed, Announcing
  <1>7. Passes
    BY <1>2, IdleIsSound DEF Passes
  <1>. QED BY <1>4, <1>5, <1>6, <1>7 DEF IInv

LEMMA StepPreserves == ASSUME IInv, NEW c \in DOMAIN pass, Step(c) PROVE IInv'
  BY FeedStep, WorkStep, AnswerStep, ReceiveStep, DrainStep, NoticeStep, FlushStep, WriteBatchStep,
     WrittenStep, SyncStoreStep, WriteStoreStep, StoresDoneStep, EndStep, EmitStep DEF Step

LEMMA NextPreserves == IInv /\ [Next]_vars => IInv'
  <1>. SUFFICES ASSUME IInv, [Next]_vars PROVE IInv'
    OBVIOUS
  <1>1. CASE \E s \in Sources : Change(s)
    BY <1>1, ChangeStep
  <1>2. CASE Cancel \/ Restart
    BY <1>2, CancelStep, RestartStep
  <1>3. CASE Open \/ Close \/ Watching
    BY <1>3, WatchStep, CheckStep DEF Watching
  <1>4. CASE SyncSingleSession \/ syncSingleStore
    BY <1>4, SyncSingleStep
  <1>5. CASE \E c \in DOMAIN pass : Ask(c) \/ Begin(c) \/ Step(c)
    BY <1>5, AskStep, BeginStep, StepPreserves
  <1>6. CASE UNCHANGED vars
    BY <1>6 DEF vars, IInv, TypeOK, Others, Dated, Behind, Locking, Passes, Sound, Fresh, Excused, Watches, Announcing
  <1>. QED BY <1>1, <1>2, <1>3, <1>4, <1>5, <1>6 DEF Next

LEMMA Invariance == Spec => []IInv
  BY Initially, NextPreserves, PTL DEF Spec

(* Every pass, channel and count stays well formed: the collector's count  *)
(* of outstanding results is always exactly what is still out.             *)
THEOREM TypeCorrect == Spec => []TypeOK
  BY Invariance, PTL DEF IInv

(* Two passes are never between Begin and End together, whichever          *)
(* goroutines ask and whenever the process is restarted.                   *)
OnePass == \A c, d \in DOMAIN pass : Holds(pass[c]) /\ Holds(pass[d]) => c = d
THEOREM PassesAreAlone == Spec => []OnePass
  <1>1. IInv => OnePass
    BY DEF IInv, Locking, OnePass
  <1>. QED BY <1>1, Invariance, PTL

(* Whatever a cancelled pass drains is all there was: no worker is left    *)
(* behind with a file or a result when the collector goes on.              *)
THEOREM NoWorkerIsLeft == Spec => []WorkersAreCollected
  <1>1. IInv => WorkersAreCollected
    <2>. SUFFICES ASSUME IInv, NEW c \in DOMAIN pass,
                         pass[c].at \in {"flush", "stores", "end", "emit", "idle"}
                  PROVE  /\ pass[c].todo \cup pass[c].jobs = {}
                         /\ pass[c].busy \cup pass[c].results = {}
      BY DEF WorkersAreCollected
    <2>1. Placed(pass[c])
      BY Current
    <2>2. CASE pass[c].at = "idle"
      BY <2>1, <2>2 DEF Placed
    <2>3. CASE pass[c].at # "idle"
      BY <2>1, <2>3 DEF Placed, Out
    <2>. QED BY <2>2, <2>3
  <1>. QED BY <1>1, Invariance, PTL

(* Whatever a whole write stored is announced, by cancelled and failing    *)
(* passes too: what is stored and not yet signalled belongs to a pass that *)
(* still will, or to a write that broke off between row and messages.      *)
THEOREM StoredIsSignalled == Spec => []ChangesAreSignalled
  <1>1. IInv => ChangesAreSignalled
    BY DEF IInv, Announcing, Announces, ChangesAreSignalled
  <1>. QED BY <1>1, Invariance, PTL

-----------------------------------------------------------------------------
(* The engine implements Mirror, with the rows and with the messages: every *)
(* step that writes is a Store of one source, every change of an agent a   *)
(* Change, everything else a stutter.                                      *)

Mirrored == (M!Next \/ UNCHANGED <<disk, stored>>) /\ (R!Next \/ UNCHANGED <<disk, row>>)

LEMMA StepStores == ASSUME IInv, NEW c \in DOMAIN pass, Step(c) PROVE Mirrored
  <1>1. ASSUME NEW r \in Result(Sources), Wrote(r) PROVE Mirrored
    <2>1. r.file \in Sources
      BY DEF Result
    <2>. QED BY <1>1, <2>1 DEF Wrote, Mirrored, M!Next, R!Next
  <1>2. CASE \E r \in pass[c].results : Receive(c, r)
    <2>1. PICK r \in pass[c].results : Receive(c, r)
      BY <1>2
    <2>2. /\ r.file \in Sources /\ stored[r.file] <= r.time /\ row[r.file] <= r.time /\ r.time <= disk[r.file]
      BY Taken
    <2>3. UNCHANGED archive \/ Whole(r) \/ Fail(r)
      <3>1. pass[c] \in Pass /\ Excused(c, pass[c], gone)
        BY Current
      <3>2. r.kind \in Kinds /\ (r.kind = "cancelled" => Cancelled(c))
        BY <3>1 DEF Pass, Result, Excused, Cancelled
      <3>3. CASE r.kind \in {"error", "cancelled"}
        BY <2>1, <3>2, <3>3 DEF Receive
      <3>4. CASE r.kind \in {"skip", "empty", "incremental", "full"}
        BY <2>1, <3>4 DEF Receive
      <3>. QED BY <3>2, <3>3, <3>4 DEF Kinds
    <2>4. UNCHANGED disk
      BY <2>1 DEF Receive
    <2>5. r \in Result(Sources)
      BY Current DEF Pass, Result, Sources
    <2>6. CASE UNCHANGED archive
      BY <2>4, <2>6 DEF Mirrored
    <2>7. CASE Whole(r) \/ Fail(r)
      BY <1>1, <2>2, <2>4, <2>5, <2>7, Writing
    <2>. QED BY <2>3, <2>6, <2>7
  <1>3. CASE (\E r \in pass[c].pending : writeBatch(c, r)) \/ writeSessionFull(c)
    <2>1. UNCHANGED archive \/ \E r \in pass[c].pending : Whole(r) \/ Fail(r)
      BY <1>3 DEF writeBatch, writeSessionFull
    <2>2. UNCHANGED disk
      BY <1>3 DEF writeBatch, writeSessionFull
    <2>3. ASSUME NEW r \in pass[c].pending, Whole(r) \/ Fail(r) PROVE Mirrored
      <3>1. /\ r \in Result(Sources) /\ stored[r.file] <= r.time /\ row[r.file] <= r.time
            /\ r.time <= disk[r.file]
        BY Current DEF Pass, Fresh, InFlight
      <3>. QED BY <1>1, <2>2, <2>3, <3>1, Writing
    <2>. QED BY <2>1, <2>2, <2>3 DEF Mirrored
  <1>4. CASE \/ \E f \in Files : Feed(c, f) \/ Work(c, f)
             \/ \E r \in pass[c].busy : Answer(c, r)
             \/ \E r \in pass[c].results : drainResults(c, r)
             \/ Notice(c) \/ Flush(c) \/ Written(c) \/ syncStore(c) \/ StoresDone(c) \/ End(c) \/ emit(c)
    BY <1>4 DEF Feed, Work, Answer, drainResults, Notice, Flush, Written, syncStore, StoresDone, End, emit, Mirrored
  <1>. QED BY <1>2, <1>3, <1>4 DEF Step

LEMMA NextMirrors == IInv /\ [Next]_vars => Mirrored
  <1>. SUFFICES ASSUME IInv, [Next]_vars PROVE Mirrored
    OBVIOUS
  <1>1. ASSUME NEW s \in Sources, Change(s) PROVE M!Change(s) /\ R!Change(s)
    <2>1. disk' = [disk EXCEPT ![s] = now + 1] /\ stored' = stored /\ row' = row /\ disk[s] <= now
      BY <1>1 DEF Change, IInv, Dated
    <2>2. disk[s] \in Nat /\ now \in Nat /\ disk'[s] = now + 1
      BY <2>1 DEF IInv, TypeOK, Others
    <2>3. disk'[s] > disk[s]
      BY <2>1, <2>2
    <2>4. disk' = [disk EXCEPT ![s] = disk'[s]]
      BY <2>1, <2>2
    <2>. QED BY <2>1, <2>3, <2>4 DEF M!Change, R!Change
  <1>2. CASE \E s \in Sources : Change(s)
    BY <1>1, <1>2 DEF Mirrored, M!Next, R!Next
  <1>3. CASE \E c \in DOMAIN pass : Step(c)
    BY <1>3, StepStores
  <1>4. CASE \/ Cancel \/ Restart \/ Open \/ Close \/ Watching \/ SyncSingleSession \/ syncSingleStore
             \/ \E c \in DOMAIN pass : Ask(c) \/ Begin(c)
    BY <1>4 DEF Cancel, Restart, Open, Close, Watching, checkDBForChanges, Synced, Tick,
                SyncSingleSession, syncSingleStore, Ask, Begin, Mirrored
  <1>5. CASE UNCHANGED vars
    BY <1>5 DEF vars, Mirrored
  <1>. QED BY <1>2, <1>3, <1>4, <1>5 DEF Next

(* The archive follows the sources: neither a row nor the messages of a    *)
(* session go back to an older version and none hold what was never        *)
(* written, whatever the order of feeders, workers, collectors, databases, *)
(* watches, failing writes, cancellations and restarts.                    *)
THEOREM EngineFollowsTheSources == Spec => FollowsTheSources
  <1>1. Init => M!Init /\ R!Init
    <2>. SUFFICES ASSUME Init PROVE M!Init /\ R!Init
      OBVIOUS
    <2>1. IInv /\ stored = row
      BY Initially DEF Init
    <2>. QED BY <2>1 DEF IInv, TypeOK, Dated, Behind, M!Init, R!Init
  <1>2. IInv /\ [Next]_vars => [M!Next]_<<disk, stored>> /\ [R!Next]_<<disk, row>>
    BY NextMirrors DEF Mirrored
  <1>. QED BY <1>1, <1>2, Invariance, PTL DEF Spec, FollowsTheSources, M!Spec, R!Spec
=============================================================================
