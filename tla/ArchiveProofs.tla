--------------------------- MODULE ArchiveProofs ---------------------------
(***************************************************************************)
(* Safety of the archive, its passes, its user and its resyncs, for every  *)
(* set of sessions and in every world: any number of user actions, losses, *)
(* failures, aborts, crashes, resyncs and lines.                           *)
(***************************************************************************)
EXTENDS Archive, FiniteSetTheorems, TLAPS

-----------------------------------------------------------------------------
(* The parts of the inductive invariant, for one session.                  *)

(* The database in use: what is not stored has no name and no star, what   *)
(* is excluded is not stored, and the row is as the user wants it.         *)
Kept(s) ==
    /\ main.rows[s].state = "none" => main.rows[s] = NoRow /\ s \notin main.starred
    /\ s \in main.excluded => main.rows[s].state = "none"
    /\ wish[s].deleted => s \in main.excluded
    /\ main.rows[s].state = "trashed" <=> wish[s].trashed
    /\ main.rows[s].name = wish[s].name
    /\ s \in main.starred <=> wish[s].starred

(* The database a resync builds is at no point behind the one in use, nor  *)
(* ahead of the file, and holds a trashed or named row only of a session   *)
(* that is stored or has been deleted since.                               *)
Built(s) ==
    /\ temp.rows[s].state = "none" => temp.rows[s] = NoRow
    /\ s \in temp.excluded => temp.rows[s].state = "none" /\ s \in main.excluded
    /\ temp.rows[s].state # "none" =>
          main.rows[s].lines <= temp.rows[s].lines /\ (file[s] > 0 => temp.rows[s].lines <= file[s])
    /\ main.rows[s].state = "none" /\ s \notin main.excluded =>
          temp.rows[s].state # "trashed" /\ temp.rows[s].name = 0

(* What each step of a resync has brought over when the next one begins.   *)
Staged(s) ==
    /\ job.step \in {"idle", "write", "persist", "reopen", "exclude", "trash"} => temp.rows[s] = NoRow
    /\ job.step \in {"orphans", "metadata", "rename"} => (s \in main.excluded => s \in temp.excluded)
    /\ job.step \in {"metadata", "rename"} =>
          (main.rows[s].state # "none" => temp.rows[s].state # "none")
    /\ job.step # "rename" => s \notin temp.starred
    /\ job.step = "rename" => /\ main.rows[s].state = "trashed" <=> temp.rows[s].state = "trashed"
                              /\ main.rows[s].name = temp.rows[s].name
                              /\ s \in main.starred <=> s \in temp.starred

(* No row is ahead of its file, nor what a pass has read behind its row.   *)
Behind(s) ==
    /\ file[s] > 0 => main.rows[s].lines <= file[s]
    /\ job.step = "write" /\ s \in job.of =>
          main.rows[s].lines <= job.lines /\ (file[s] > 0 => job.lines <= file[s])

Sound(s) == Kept(s) /\ Built(s) /\ Staged(s) /\ Behind(s)
IInv == TypeOK /\ \A s \in Sessions : Sound(s)

-----------------------------------------------------------------------------
Bounds == {"trashings", "restores", "deletions", "edits", "pinnings", "losses",
           "failures", "crashes", "aborts", "resyncs", "upgrades"}

LEMMA SpendType == ASSUME TypeOK, NEW what \in Bounds, Spend(what) PROVE world' \in World
  <1>1. world \in World
    BY DEF TypeOK
  <1>2. world[what] - 1 \in Nat /\ world' = [world EXCEPT ![what] = world[what] - 1]
    BY <1>1 DEF Bounds, Spend, World
  <1>3. CASE what \in {"trashings", "restores", "deletions", "edits"}
    BY <1>1, <1>2, <1>3 DEF World
  <1>4. CASE what \in {"pinnings", "losses", "failures", "crashes"}
    BY <1>1, <1>2, <1>4 DEF World
  <1>5. CASE what \in {"aborts", "resyncs", "upgrades"}
    BY <1>1, <1>2, <1>5 DEF World
  <1>. QED BY <1>3, <1>4, <1>5 DEF Bounds

LEMMA Typed ==
    ASSUME IInv, NEW s \in Sessions
    PROVE  /\ main.rows[s] \in Row /\ temp.rows[s] \in Row /\ file[s] \in Nat /\ wish[s] \in Wish
           /\ main.rows \in [Sessions -> Row] /\ temp.rows \in [Sessions -> Row]
           /\ main.starred \subseteq Sessions /\ main.excluded \subseteq Sessions
           /\ temp.starred \subseteq Sessions /\ temp.excluded \subseteq Sessions
           /\ main.skipped \in [Sessions -> Nat] /\ temp.skipped \in [Sessions -> Nat]
           /\ Kept(s) /\ Built(s) /\ Staged(s) /\ Behind(s)
  BY DEF IInv, TypeOK, DB, Sound

-----------------------------------------------------------------------------
(* The user.                                                               *)

(* The user changes a stored row and wants it so.                          *)
LEMMA RowStep ==
    ASSUME IInv, Open, NEW s \in Sessions, main.rows[s].state # "none", world' \in World,
           UNCHANGED <<file, parser, temp, skip, job>>,
           NEW row \in Row, row.state # "none", row.lines = main.rows[s].lines,
           main' = [main EXCEPT !.rows = [main.rows EXCEPT ![s] = row]],
           NEW w \in Wish, wish' = [wish EXCEPT ![s] = w],
           w.deleted = wish[s].deleted, w.starred = wish[s].starred,
           w.name = row.name, w.trashed <=> row.state = "trashed"
    PROVE  IInv'
  <1>1. /\ main' \in DB /\ main'.rows = [main.rows EXCEPT ![s] = row]
        /\ main'.starred = main.starred /\ main'.excluded = main.excluded
    BY DEF IInv, TypeOK, DB
  <1>2. wish' \in [Sessions -> Wish]
    BY DEF IInv, TypeOK
  <1>3. s \notin main.excluded
    BY Typed DEF Kept
  <1>4. TypeOK'
    <2>1. main'.excluded \cap Stored(main') = {}
      BY <1>1, <1>3, Typed DEF Stored, Kept
    <2>. QED BY <1>1, <1>2, <2>1 DEF IInv, TypeOK, Stored
  <1>5. ASSUME NEW t \in Sessions PROVE Sound(t)'
    <2>1. Kept(t) /\ Built(t) /\ Staged(t) /\ Behind(t) /\ main.rows \in [Sessions -> Row]
      BY Typed
    <2>2. CASE t # s
      <3>1. main'.rows[t] = main.rows[t] /\ wish'[t] = wish[t]
        BY <1>1, <2>1, <2>2 DEF IInv, TypeOK
      <3>. QED BY <1>1, <2>1, <3>1 DEF Sound, Kept, Built, Staged, Behind
    <2>3. CASE t = s
      <3>1. main'.rows[t] = row /\ wish'[t] = w
        BY <1>1, <2>1, <2>3 DEF IInv, TypeOK
      <3>2. Kept(t)'
        BY <1>1, <1>3, <2>1, <2>3, <3>1 DEF Kept
      <3>3. Built(t)' /\ Behind(t)'
        BY <1>1, <2>1, <2>3, <3>1 DEF Built, Behind
      <3>4. Staged(t)'
        BY <1>1, <2>1, <2>3, <3>1 DEF Staged, Open, SwapSteps
      <3>. QED BY <3>2, <3>3, <3>4 DEF Sound
    <2>. QED BY <2>2, <2>3
  <1>. QED BY <1>4, <1>5 DEF IInv

LEMMA EditStep ==
    ASSUME IInv, NEW s \in Sessions,
           SoftDeleteSession(s) \/ RestoreSession(s) \/ RenameSession(s) \/ PinMessage(s)
    PROVE  IInv'
  <1>1. /\ main.rows[s] \in Row /\ wish[s] \in Wish /\ wish \in [Sessions -> Wish]
        /\ main.rows[s].name = wish[s].name
        /\ main.rows[s].state = "trashed" <=> wish[s].trashed
    BY Typed DEF Kept, IInv, TypeOK
  <1>2. UNCHANGED <<file, parser, temp, skip, job>> /\ Open
    BY DEF SoftDeleteSession, RestoreSession, RenameSession, PinMessage
  <1>3. main.rows[s].state # "none"
    BY DEF SoftDeleteSession, RestoreSession, RenameSession, PinMessage, Live, Trashed, Stored
  <1>4. world' \in World
    BY SpendType DEF IInv, SoftDeleteSession, RestoreSession, RenameSession, PinMessage, Bounds
  <1>5. CASE SoftDeleteSession(s)
    <2>. DEFINE row == [main.rows[s] EXCEPT !.state = "trashed"]
                w == [wish[s] EXCEPT !.trashed = TRUE]
    <2>1. /\ main' = [main EXCEPT !.rows = [main.rows EXCEPT ![s] = row]]
          /\ wish' = [wish EXCEPT ![s] = w]
      BY <1>5 DEF SoftDeleteSession, SetRow
    <2>2. /\ row \in Row /\ row.state = "trashed" /\ row.lines = main.rows[s].lines
          /\ row.name = main.rows[s].name
      BY <1>1 DEF Row
    <2>3. /\ w \in Wish /\ w.trashed = TRUE /\ w.name = wish[s].name
          /\ w.deleted = wish[s].deleted /\ w.starred = wish[s].starred
      BY <1>1 DEF Wish
    <2>. HIDE DEF row, w
    <2>. QED BY <1>1, <1>2, <1>3, <1>4, <2>1, <2>2, <2>3, RowStep
  <1>6. CASE RestoreSession(s)
    <2>. DEFINE row == [main.rows[s] EXCEPT !.state = "live"]
                w == [wish[s] EXCEPT !.trashed = FALSE]
    <2>1. /\ main' = [main EXCEPT !.rows = [main.rows EXCEPT ![s] = row]]
          /\ wish' = [wish EXCEPT ![s] = w]
      BY <1>6 DEF RestoreSession, SetRow
    <2>2. /\ row \in Row /\ row.state = "live" /\ row.lines = main.rows[s].lines
          /\ row.name = main.rows[s].name
      BY <1>1 DEF Row
    <2>3. /\ w \in Wish /\ w.trashed = FALSE /\ w.name = wish[s].name
          /\ w.deleted = wish[s].deleted /\ w.starred = wish[s].starred
      BY <1>1 DEF Wish
    <2>. HIDE DEF row, w
    <2>. QED BY <1>1, <1>2, <1>3, <1>4, <2>1, <2>2, <2>3, RowStep
  <1>7. CASE RenameSession(s)
    <2>1. PICK n \in {0, 1} : SetRow(s, "name", n) /\ wish' = [wish EXCEPT ![s].name = n]
      BY <1>7 DEF RenameSession
    <2>. DEFINE row == [main.rows[s] EXCEPT !.name = n]
                w == [wish[s] EXCEPT !.name = n]
    <2>2. /\ main' = [main EXCEPT !.rows = [main.rows EXCEPT ![s] = row]]
          /\ wish' = [wish EXCEPT ![s] = w]
      BY <2>1 DEF SetRow
    <2>3. /\ row \in Row /\ row.state = main.rows[s].state /\ row.lines = main.rows[s].lines
          /\ row.name = n
      BY <1>1 DEF Row
    <2>4. /\ w \in Wish /\ w.trashed = wish[s].trashed /\ w.name = n
          /\ w.deleted = wish[s].deleted /\ w.starred = wish[s].starred
      BY <1>1 DEF Wish
    <2>. HIDE DEF row, w
    <2>. QED BY <1>1, <1>2, <1>3, <1>4, <2>2, <2>3, <2>4, RowStep
  <1>8. CASE PinMessage(s)
    <2>1. PICK now \in SUBSET Nat : SetRow(s, "pins", now) /\ wish' = [wish EXCEPT ![s].pins = now]
      <3>1. Messages(main.rows[s]) \subseteq Nat /\ main.rows[s].pins \subseteq Nat
        BY <1>1 DEF Messages, Row
      <3>. QED BY <1>8, <3>1 DEF PinMessage
    <2>. DEFINE row == [main.rows[s] EXCEPT !.pins = now]
                w == [wish[s] EXCEPT !.pins = now]
    <2>2. /\ main' = [main EXCEPT !.rows = [main.rows EXCEPT ![s] = row]]
          /\ wish' = [wish EXCEPT ![s] = w]
      BY <2>1 DEF SetRow
    <2>3. /\ row \in Row /\ row.state = main.rows[s].state /\ row.lines = main.rows[s].lines
          /\ row.name = main.rows[s].name
      BY <1>1 DEF Row
    <2>4. /\ w \in Wish /\ w.trashed = wish[s].trashed /\ w.name = wish[s].name
          /\ w.deleted = wish[s].deleted /\ w.starred = wish[s].starred
      BY <1>1 DEF Wish
    <2>. HIDE DEF row, w
    <2>. QED BY <1>1, <1>2, <1>3, <1>4, <2>2, <2>3, <2>4, RowStep
  <1>. QED BY <1>5, <1>6, <1>7, <1>8

LEMMA StarStep == ASSUME IInv, NEW s \in Sessions, StarSession(s) PROVE IInv'
  <1>1. PICK on \in BOOLEAN :
           /\ main' = [main EXCEPT !.starred = IF on THEN @ \cup {s} ELSE @ \ {s}]
           /\ wish' = [wish EXCEPT ![s].starred = on]
    BY DEF StarSession
  <1>2. UNCHANGED <<file, parser, temp, skip, job>> /\ Open /\ main.rows[s].state # "none"
    BY DEF StarSession, Stored
  <1>3. world' \in World
    BY SpendType DEF IInv, StarSession, Bounds
  <1>4. /\ main' \in DB /\ main'.rows = main.rows /\ main'.excluded = main.excluded
        /\ main'.starred = IF on THEN main.starred \cup {s} ELSE main.starred \ {s}
    BY <1>1 DEF IInv, TypeOK, DB
  <1>5. wish' \in [Sessions -> Wish] /\ wish' = [wish EXCEPT ![s] = [wish[s] EXCEPT !.starred = on]]
    <2>1. [wish[s] EXCEPT !.starred = on] \in Wish
      BY Typed DEF Wish
    <2>. QED BY <1>1, <2>1 DEF IInv, TypeOK
  <1>6. TypeOK'
    BY <1>2, <1>3, <1>4, <1>5 DEF IInv, TypeOK, Stored
  <1>7. ASSUME NEW t \in Sessions PROVE Sound(t)'
    <2>1. Kept(t) /\ Built(t) /\ Staged(t) /\ Behind(t) /\ wish[t] \in Wish
      BY Typed
    <2>2. /\ wish'[t].deleted = wish[t].deleted /\ wish'[t].trashed = wish[t].trashed
          /\ wish'[t].name = wish[t].name /\ wish'[t].starred = IF t = s THEN on ELSE wish[t].starred
      BY <1>5, <2>1 DEF IInv, TypeOK, Wish
    <2>3. Kept(t)'
      BY <1>2, <1>4, <2>1, <2>2 DEF Kept
    <2>4. Built(t)' /\ Behind(t)' /\ Staged(t)'
      BY <1>2, <1>4, <2>1 DEF Built, Behind, Staged, Open, SwapSteps
    <2>. QED BY <2>3, <2>4 DEF Sound
  <1>. QED BY <1>6, <1>7 DEF IInv

LEMMA DeleteStep == ASSUME IInv, NEW gone \in SUBSET Sessions, DeleteTrashed(gone) PROVE IInv'
  <1>1. UNCHANGED <<file, parser, temp, skip, job>> /\ Open /\ gone \subseteq Trashed(main)
    BY DEF DeleteTrashed
  <1>2. world' \in World
    BY SpendType DEF IInv, DeleteTrashed, Bounds
  <1>3. NoRow \in Row /\ NoRow.state = "none" /\ NoRow.name = 0 /\ NoRow.lines = 0
    BY DEF NoRow, Row
  <1>4. /\ main' \in DB /\ main'.rows = [s \in Sessions |-> IF s \in gone THEN NoRow ELSE main.rows[s]]
        /\ main'.starred = main.starred \ gone /\ main'.excluded = main.excluded \cup gone
    <2>1. [s \in Sessions |-> IF s \in gone THEN NoRow ELSE main.rows[s]] \in [Sessions -> Row]
      BY <1>3, Typed
    <2>. QED BY <2>1 DEF DeleteTrashed, Delete, IInv, TypeOK, DB
  <1>5. wish' = [s \in Sessions |-> IF s \in gone THEN [NoWish EXCEPT !.deleted = TRUE] ELSE wish[s]]
    BY DEF DeleteTrashed
  <1>6. NoWish \in Wish /\ NoWish.trashed = FALSE /\ NoWish.name = 0 /\ NoWish.starred = FALSE
    BY DEF NoWish, Wish
  <1>7. wish' \in [Sessions -> Wish]
    <2>1. [NoWish EXCEPT !.deleted = TRUE] \in Wish
      BY <1>6 DEF Wish
    <2>. QED BY <1>5, <2>1, Typed DEF IInv, TypeOK
  <1>8. TypeOK'
    <2>1. main'.excluded \cap Stored(main') = {}
      BY <1>3, <1>4, Typed DEF Stored, Kept
    <2>. QED BY <1>1, <1>2, <1>4, <1>7, <2>1 DEF IInv, TypeOK
  <1>9. ASSUME NEW t \in Sessions PROVE Sound(t)'
    <2>1. Kept(t) /\ Built(t) /\ Staged(t) /\ Behind(t) /\ temp.rows[t] \in Row /\ main.rows[t] \in Row
      BY Typed
    <2>2. CASE t \notin gone
      <3>1. main'.rows[t] = main.rows[t] /\ wish'[t] = wish[t] /\ (t \in main'.excluded <=> t \in main.excluded)
            /\ (t \in main'.starred <=> t \in main.starred)
        BY <1>4, <1>5, <2>2
      <3>. QED BY <1>1, <2>1, <3>1 DEF Sound, Kept, Built, Staged, Behind
    <2>3. CASE t \in gone
      <3>1. main'.rows[t] = NoRow /\ t \in main'.excluded /\ t \notin main'.starred
        BY <1>4, <2>3
      <3>2. wish'[t].trashed = FALSE /\ wish'[t].name = 0 /\ wish'[t].starred = FALSE
        BY <1>5, <1>6, <2>3 DEF Wish
      <3>3. Kept(t)'
        BY <1>3, <3>1, <3>2 DEF Kept
      <3>4. Built(t)' /\ Behind(t)'
        BY <1>1, <1>3, <2>1, <3>1 DEF Built, Behind, IInv, TypeOK, Job, Row
      <3>5. Staged(t)'
        BY <1>1, <2>1, <3>1 DEF Staged, Open, SwapSteps
      <3>. QED BY <3>3, <3>4, <3>5 DEF Sound
    <2>. QED BY <2>2, <2>3
  <1>. QED BY <1>8, <1>9 DEF IInv

-----------------------------------------------------------------------------
(* The files and the passes.                                               *)

LEMMA FileStep == ASSUME IInv, NEW s \in Sessions, Grow(s) \/ Vanish(s) PROVE IInv'
  <1>1. UNCHANGED <<parser, main, temp, skip, job, wish>>
    BY DEF Grow, Vanish
  <1>2. world' \in World
    BY SpendType DEF IInv, TypeOK, Grow, Vanish, Bounds
  <1>3. \/ file[s] > 0 /\ file' = [file EXCEPT ![s] = file[s] + 1]
        \/ file' = [file EXCEPT ![s] = 0]
    <2>1. file[s] \in 1..(world.maxLines - 1) => file[s] > 0
      BY DEF IInv, TypeOK, World
    <2>. QED BY <2>1 DEF Grow, Vanish
  <1>4. file \in [Sessions -> Nat] /\ file' \in [Sessions -> Nat]
    BY <1>3 DEF IInv, TypeOK
  <1>5. TypeOK'
    BY <1>1, <1>2, <1>4 DEF IInv, TypeOK
  <1>6. ASSUME NEW t \in Sessions PROVE Sound(t)'
    <2>1. Kept(t) /\ Built(t) /\ Staged(t) /\ Behind(t) /\ main.rows[t] \in Row /\ temp.rows[t] \in Row
      BY Typed
    <2>2. file'[t] > 0 => file[t] > 0 /\ file[t] <= file'[t]
      BY <1>3, <1>4
    <2>3. Kept(t)' /\ Staged(t)'
      BY <1>1, <2>1 DEF Kept, Staged
    <2>4. Built(t)' /\ Behind(t)'
      BY <1>1, <1>4, <2>1, <2>2 DEF Built, Behind, Row, IInv, TypeOK, Job
    <2>. QED BY <2>3, <2>4 DEF Sound
  <1>. QED BY <1>5, <1>6 DEF IInv

LEMMA Empty ==
    /\ NoRow \in Row /\ NoRow.state = "none" /\ NoRow.name = 0 /\ NoRow.lines = 0
    /\ EmptyDB \in DB /\ EmptyDB.rows = [s \in Sessions |-> NoRow]
    /\ EmptyDB.starred = {} /\ EmptyDB.excluded = {} /\ Stored(EmptyDB) = {}
    /\ NoSkips \in [Sessions -> Nat]
    /\ NoJob \in Job /\ NoJob.step = "idle" /\ NoJob.of = {}
  <1>1. NoRow \in Row /\ NoRow.state = "none" /\ NoRow.name = 0 /\ NoRow.lines = 0
    BY DEF NoRow, Row
  <1>2. NoSkips \in [Sessions -> Nat]
    BY DEF NoSkips
  <1>3. EmptyDB \in DB /\ EmptyDB.rows = [s \in Sessions |-> NoRow]
        /\ EmptyDB.starred = {} /\ EmptyDB.excluded = {}
    BY <1>1, <1>2 DEF EmptyDB, DB
  <1>4. Stored(EmptyDB) = {}
    BY <1>1, <1>3 DEF Stored
  <1>5. NoJob \in Job /\ NoJob.step = "idle" /\ NoJob.of = {}
    BY <1>2 DEF NoJob, Job, Steps
  <1>. QED BY <1>1, <1>2, <1>3, <1>4, <1>5

(* A step that leaves both databases alone.                                *)
LEMMA QuietStep ==
    ASSUME IInv, UNCHANGED <<file, parser, main, temp, wish>>, skip' \in [Sessions -> Nat],
           world' \in World, job' \in Job,
           \/ job.step \in {"idle", "write", "persist", "reopen"} /\ job'.step \in {"idle", "persist"}
           \/ job.step = "sync" /\ job'.step = "sync"
           \/ /\ job.step = "idle" /\ job'.step = "write"
              /\ \A s \in job'.of : file[s] > 0 /\ job'.lines = file[s]
    PROVE  IInv'
  <1>1. TypeOK'
    BY DEF IInv, TypeOK
  <1>2. ASSUME NEW t \in Sessions PROVE Sound(t)'
    <2>1. Kept(t) /\ Built(t) /\ Staged(t) /\ Behind(t) /\ file[t] \in Nat
      BY Typed
    <2>2. Kept(t)' /\ Built(t)'
      BY <2>1 DEF Kept, Built
    <2>3. Staged(t)'
      BY <2>1 DEF Staged
    <2>4. Behind(t)'
      BY <2>1 DEF Behind
    <2>. QED BY <2>2, <2>3, <2>4 DEF Sound
  <1>. QED BY <1>1, <1>2 DEF IInv

LEMMA ReadStep == ASSUME IInv, NEW s \in Sessions, ReadFile(s) PROVE IInv'
  <1>1. file[s] > 0 /\ file[s] \in Nat
    BY Typed DEF ReadFile, Unseen
  <1>2. /\ job' \in Job /\ job'.step = "write" /\ job'.of = {s} /\ job'.lines = file[s]
    BY <1>1, Empty DEF ReadFile, Job, Steps
  <1>. QED BY <1>1, <1>2, QuietStep DEF ReadFile, IInv, TypeOK

LEMMA FailStep == ASSUME IInv, NEW s \in Sessions, ParseFails(s) PROVE IInv'
  <1>1. world' \in World
    BY SpendType DEF IInv, ParseFails, Bounds
  <1>2. skip' \in [Sessions -> Nat]
    BY Typed DEF ParseFails, IInv, TypeOK
  <1>3. job' \in Job /\ job'.step = "persist"
    BY Empty DEF ParseFails, Job, Steps
  <1>. QED BY <1>1, <1>2, <1>3, QuietStep DEF ParseFails

(* What writing a file makes of a database.                                *)
LEMMA WrittenRow ==
    ASSUME TypeOK, NEW db \in DB, NEW s \in Sessions, NEW n \in Nat, NEW w, w = Written(db, s, n)
    PROVE  /\ w \in DB /\ w.starred = db.starred /\ w.excluded = db.excluded
           /\ \A t \in Sessions : t # s => w.rows[t] = db.rows[t]
           /\ w.rows[s].state = "live" /\ w.rows[s].lines = n /\ w.rows[s].name = db.rows[s].name
  <1>. DEFINE old == db.rows[s]
              new == [old EXCEPT !.state = "live", !.lines = n, !.version = parser]
              row == [new EXCEPT !.pins = restorePins(old, new)]
  <1>1. old \in Row /\ parser \in 0..2
    BY DEF DB, TypeOK
  <1>2. new \in Row /\ new.state = "live" /\ new.lines = n /\ new.name = old.name
    BY <1>1 DEF Row
  <1>3. restorePins(old, new) \in SUBSET Nat
    BY <1>1 DEF restorePins, Row
  <1>4. row \in Row /\ row.state = "live" /\ row.lines = n /\ row.name = old.name
    <2>. HIDE DEF new
    <2>. QED BY <1>2, <1>3 DEF Row
  <1>5. w = [db EXCEPT !.rows = [db.rows EXCEPT ![s] = row],
                       !.skipped = [db.skipped EXCEPT ![s] = 0]]
    BY DEF Written
  <1>. HIDE DEF row
  <1>6. /\ w \in DB /\ w.starred = db.starred /\ w.excluded = db.excluded
        /\ w.rows = [db.rows EXCEPT ![s] = row] /\ db.rows \in [Sessions -> Row]
    <2>. DEFINE rows == [db.rows EXCEPT ![s] = row]
                skipped == [db.skipped EXCEPT ![s] = 0]
    <2>1. rows \in [Sessions -> Row] /\ skipped \in [Sessions -> Nat] /\ db.rows \in [Sessions -> Row]
      BY <1>4 DEF DB
    <2>2. w = [db EXCEPT !.rows = rows, !.skipped = skipped]
      BY <1>5
    <2>. HIDE DEF rows, skipped
    <2>3. w \in DB /\ w.starred = db.starred /\ w.excluded = db.excluded /\ w.rows = rows
      BY <2>1, <2>2 DEF DB
    <2>. QED BY <2>1, <2>3 DEF rows
  <1>. QED BY <1>4, <1>6

LEMMA WriteStep == ASSUME IInv, NEW s \in Sessions, WriteFile(s) PROVE IInv'
  <1>1. /\ job.step = "write" /\ job.of = {s} /\ job.lines \in Nat
        /\ UNCHANGED <<file, parser, temp, wish, world>>
    BY DEF WriteFile, IInv, TypeOK, Job
  <1>2. job' \in Job /\ job'.step = "persist"
    BY Empty DEF WriteFile, Job, Steps
  <1>3. skip' \in [Sessions -> Nat]
    BY <1>1 DEF WriteFile, IInv, TypeOK
  <1>4. CASE Rejects(main, s)
    BY <1>1, <1>2, <1>3, <1>4, QuietStep DEF WriteFile, IInv, TypeOK
  <1>5. CASE ~Rejects(main, s)
    <2>1. /\ main' \in DB /\ main'.starred = main.starred /\ main'.excluded = main.excluded
          /\ \A t \in Sessions : t # s => main'.rows[t] = main.rows[t]
          /\ main'.rows[s].state = "live" /\ main'.rows[s].lines = job.lines
          /\ main'.rows[s].name = main.rows[s].name
      <3>1. main' = Written(main, s, job.lines) /\ main \in DB
        BY <1>5 DEF WriteFile, IInv, TypeOK
      <3>. QED BY <1>1, <3>1, WrittenRow DEF IInv
    <2>2. s \notin main.excluded /\ main.rows[s].state # "trashed"
      BY <1>5 DEF Rejects
    <2>3. TypeOK'
      <3>1. main'.excluded \cap Stored(main') = {}
        BY <2>1, <2>2, Typed DEF Stored, Kept
      <3>. QED BY <1>1, <1>2, <1>3, <2>1, <3>1 DEF IInv, TypeOK
    <2>4. ASSUME NEW t \in Sessions PROVE Sound(t)'
      <3>1. Kept(t) /\ Built(t) /\ Staged(t) /\ Behind(t)
        BY Typed
      <3>2. temp.rows[t].state = "none" /\ temp.rows[t] = NoRow
        BY <1>1, <3>1, Empty DEF Staged
      <3>3. Kept(t)'
        BY <1>1, <2>1, <2>2, <3>1 DEF Kept
      <3>4. Built(t)' /\ Staged(t)'
        BY <1>1, <1>2, <2>1, <3>1, <3>2, Empty DEF Built, Staged
      <3>5. Behind(t)'
        BY <1>1, <1>2, <2>1, <3>1 DEF Behind
      <3>. QED BY <3>3, <3>4, <3>5 DEF Sound
    <2>. QED BY <2>3, <2>4 DEF IInv
  <1>. QED BY <1>4, <1>5

LEMMA PersistStep == ASSUME IInv, persistSkipCache PROVE IInv'
  <1>1. /\ job.step = "persist" /\ job' \in Job /\ job'.step = "idle"
        /\ UNCHANGED <<file, parser, temp, skip, wish, world>>
    BY Empty DEF persistSkipCache
  <1>2. /\ main' \in DB /\ main'.rows = main.rows /\ main'.starred = main.starred
        /\ main'.excluded = main.excluded
    BY DEF persistSkipCache, IInv, TypeOK, DB
  <1>3. TypeOK'
    BY <1>1, <1>2 DEF IInv, TypeOK, Stored
  <1>4. ASSUME NEW t \in Sessions PROVE Sound(t)'
    BY <1>1, <1>2, Typed DEF Sound, Kept, Built, Staged, Behind
  <1>. QED BY <1>3, <1>4 DEF IInv

-----------------------------------------------------------------------------
(* A resync.                                                               *)

(* What was built is dropped, or a new database is begun.                  *)
LEMMA DropStep ==
    ASSUME IInv, UNCHANGED <<file, main, wish>>, parser' \in {1, 2}, skip' \in [Sessions -> Nat],
           world' \in World, temp' = EmptyDB, job' \in Job, job'.step \in {"idle", "exclude"}
    PROVE  IInv'
  <1>1. temp' \in DB /\ Stored(temp') = {}
    BY Empty
  <1>2. TypeOK'
    BY <1>1 DEF IInv, TypeOK
  <1>3. ASSUME NEW t \in Sessions PROVE Sound(t)'
    <2>1. Kept(t) /\ Behind(t)
      BY Typed
    <2>2. temp'.rows[t] = NoRow /\ t \notin temp'.starred /\ t \notin temp'.excluded
      BY Empty
    <2>. QED BY <2>1, <2>2, Empty DEF Sound, Kept, Built, Staged, Behind
  <1>. QED BY <1>2, <1>3 DEF IInv

(* A step that builds: the database in use stays.                          *)
LEMMA BuildStep ==
    ASSUME IInv, UNCHANGED <<file, parser, main, wish>>, skip' \in [Sessions -> Nat],
           world' \in World, job' \in Job, job'.step \notin {"idle", "write", "persist", "reopen"},
           temp' \in DB, \A t \in Sessions : Built(t)' /\ Staged(t)'
    PROVE  IInv'
  <1>1. TypeOK'
    <2>1. temp'.excluded \cap Stored(temp') = {}
      BY DEF Built, Stored
    <2>. QED BY <2>1 DEF IInv, TypeOK
  <1>2. ASSUME NEW t \in Sessions PROVE Sound(t)'
    BY Typed DEF Sound, Kept, Behind
  <1>. QED BY <1>1, <1>2 DEF IInv

LEMMA JobStep == ASSUME IInv, NEW name \in Steps, Step(name) PROVE job' \in Job /\ job'.step = name
  BY DEF Step, IInv, TypeOK, Job

LEMMA BeginStep == ASSUME IInv, BeginResync PROVE IInv'
  <1>1. world' \in World
    BY SpendType DEF IInv, BeginResync, Bounds
  <1>2. job' \in Job /\ job'.step = "exclude"
    <2>1. skip \in [Sessions -> Nat]
      BY DEF IInv, TypeOK
    <2>. DEFINE old == Live(main) # {}
    <2>2. old \in BOOLEAN
      OBVIOUS
    <2>3. job' = [NoJob EXCEPT !.step = "exclude", !.saved = skip, !.old = old]
      BY DEF BeginResync
    <2>. HIDE DEF old
    <2>. QED BY <2>1, <2>2, <2>3, Empty DEF Job, Steps
  <1>. QED BY <1>1, <1>2, DropStep, Empty DEF BeginResync, IInv, TypeOK

LEMMA ExcludeStep == ASSUME IInv, CopyExcludedFirst PROVE IInv'
  <1>1. /\ job.step = "exclude" /\ job' \in Job /\ job'.step = "trash"
        /\ UNCHANGED <<file, parser, main, skip, wish, world>>
    BY JobStep DEF CopyExcludedFirst, Steps
  <1>2. /\ temp' \in DB /\ temp'.rows = temp.rows /\ temp'.starred = temp.starred
        /\ temp'.excluded = temp.excluded \cup main.excluded
    BY DEF CopyExcludedFirst, CopyExcludedSessionsFrom, IInv, TypeOK, DB
  <1>3. ASSUME NEW t \in Sessions PROVE Built(t)' /\ Staged(t)'
    <2>1. Built(t) /\ Staged(t) /\ temp.rows[t] = NoRow
      BY <1>1, Typed DEF Staged
    <2>. QED BY <1>1, <1>2, <2>1, Empty DEF Built, Staged
  <1>. QED BY <1>1, <1>2, <1>3, BuildStep DEF IInv, TypeOK

LEMMA TrashedStep == ASSUME IInv, CopyTrashedDataFrom PROVE IInv'
  <1>. DEFINE ids == Trashed(main) \ temp.excluded
              todo == {s \in Sessions : file[s] > 0}
              found == ids # {}
  <1>1. job.step = "trash" /\ UNCHANGED <<file, parser, main, skip, wish, world>>
    BY DEF CopyTrashedDataFrom
  <1>2. job' \in Job /\ job'.step = "sync"
    <2>1. Cardinality(todo) \in Nat /\ todo \in SUBSET Sessions
      BY ArchiveAssumption, FS_Subset, FS_CardinalityType
    <2>2. found \in BOOLEAN /\ job \in Job
      BY DEF IInv, TypeOK
    <2>3. job' = [job EXCEPT !.step = "sync", !.trashed = found, !.todo = todo, !.total = Cardinality(todo)]
      BY DEF CopyTrashedDataFrom
    <2>. HIDE DEF todo, found
    <2>. QED BY <2>1, <2>2, <2>3 DEF Job, Steps
  <1>3. /\ temp' \in DB /\ temp'.starred = temp.starred /\ temp'.excluded = temp.excluded
        /\ temp'.rows = [s \in Sessions |-> IF s \in ids THEN main.rows[s] ELSE temp.rows[s]]
    <2>1. CopyRows(ids) \in [Sessions -> Row]
      BY Typed DEF CopyRows
    <2>2. temp' = [temp EXCEPT !.rows = CopyRows(ids)]
      BY DEF CopyTrashedDataFrom
    <2>. HIDE DEF ids
    <2>. QED BY <2>1, <2>2 DEF CopyRows, IInv, TypeOK, DB
  <1>4. ASSUME NEW t \in Sessions PROVE Built(t)' /\ Staged(t)'
    <2>1. Built(t) /\ Staged(t) /\ Behind(t) /\ temp.rows[t] = NoRow /\ main.rows[t] \in Row
      BY <1>1, Typed DEF Staged
    <2>2. CASE t \in ids
      <3>1. temp'.rows[t] = main.rows[t] /\ main.rows[t].state = "trashed" /\ t \notin temp.excluded
        BY <1>3, <2>2 DEF Trashed
      <3>. QED BY <1>1, <1>2, <1>3, <2>1, <3>1 DEF Built, Staged, Behind, Row
    <2>3. CASE t \notin ids
      <3>1. temp'.rows[t] = NoRow
        BY <1>3, <2>1, <2>3
      <3>. QED BY <1>1, <1>2, <1>3, <2>1, <3>1, Empty DEF Built, Staged
    <2>. QED BY <2>2, <2>3
  <1>. QED BY <1>1, <1>2, <1>3, <1>4, BuildStep DEF IInv, TypeOK

LEMMA SkipStep == ASSUME IInv, NEW s \in Sessions, SyncSkips(s) \/ SyncFails(s) PROVE IInv'
  <1>1. job.step = "sync" /\ UNCHANGED <<file, parser, main, temp, wish>>
    BY DEF SyncSkips, SyncFails
  <1>2. job' \in Job /\ job'.step = "sync"
    <2>1. job \in Job
      BY DEF IInv, TypeOK
    <2>2. job.todo \ {s} \in SUBSET Sessions /\ job.failed + 1 \in Nat
      BY <2>1 DEF Job
    <2>3. CASE job' = [job EXCEPT !.todo = @ \ {s}]
      BY <1>1, <2>1, <2>2, <2>3 DEF Job
    <2>4. CASE job' = [job EXCEPT !.todo = @ \ {s}, !.failed = @ + 1]
      BY <1>1, <2>1, <2>2, <2>4 DEF Job
    <2>. QED BY <2>3, <2>4 DEF SyncSkips, SyncFails
  <1>3. world' \in World
    <2>1. file[s] \in Nat
      BY Typed
    <2>. QED BY <2>1, SpendType DEF SyncSkips, SyncFails, IInv, TypeOK, Bounds
  <1>4. skip' \in [Sessions -> Nat]
    BY Typed DEF SyncSkips, SyncFails, IInv, TypeOK
  <1>. QED BY <1>1, <1>2, <1>3, <1>4, QuietStep

LEMMA SyncStep == ASSUME IInv, NEW s \in Sessions, SyncWrites(s) PROVE IInv'
  <1>1. /\ job.step = "sync" /\ file[s] > 0 /\ file[s] \in Nat
        /\ UNCHANGED <<file, parser, main, wish, world>>
    BY Typed DEF SyncWrites
  <1>2. job' \in Job /\ job'.step = "sync"
    <2>. DEFINE synced == IF Rejects(temp, s) THEN job.synced ELSE job.synced + 1
    <2>1. job \in Job
      BY DEF IInv, TypeOK
    <2>2. job.todo \ {s} \in SUBSET Sessions /\ job.ok + 1 \in Nat /\ synced \in Nat
      BY <2>1 DEF Job
    <2>3. job' = [job EXCEPT !.todo = @ \ {s}, !.ok = @ + 1, !.synced = synced]
      BY DEF SyncWrites
    <2>. HIDE DEF synced
    <2>. QED BY <1>1, <2>1, <2>2, <2>3 DEF Job
  <1>3. skip' \in [Sessions -> Nat]
    BY <1>1 DEF SyncWrites, IInv, TypeOK
  <1>4. CASE Rejects(temp, s)
    BY <1>1, <1>2, <1>3, <1>4, QuietStep DEF SyncWrites, IInv, TypeOK
  <1>5. CASE ~Rejects(temp, s)
    <2>1. /\ temp' \in DB /\ temp'.starred = temp.starred /\ temp'.excluded = temp.excluded
          /\ \A t \in Sessions : t # s => temp'.rows[t] = temp.rows[t]
          /\ temp'.rows[s].state = "live" /\ temp'.rows[s].lines = file[s]
          /\ temp'.rows[s].name = temp.rows[s].name
      <3>1. temp' = Written(temp, s, file[s]) /\ temp \in DB
        BY <1>5 DEF SyncWrites, IInv, TypeOK
      <3>. QED BY <1>1, <3>1, WrittenRow DEF IInv
    <2>2. s \notin temp.excluded
      BY <1>5 DEF Rejects
    <2>3. ASSUME NEW t \in Sessions PROVE Built(t)' /\ Staged(t)'
      <3>1. Built(t) /\ Staged(t) /\ Behind(t)
        BY Typed
      <3>2. Built(t)'
        BY <1>1, <2>1, <2>2, <3>1 DEF Built, Behind
      <3>3. Staged(t)'
        BY <1>1, <1>2, <2>1, <3>1 DEF Staged
      <3>. QED BY <3>2, <3>3
    <2>. QED BY <1>1, <1>2, <1>3, <2>1, <2>3, BuildStep DEF IInv, TypeOK
  <1>. QED BY <1>4, <1>5

LEMMA GiveUpStep == ASSUME IInv, GiveUp, world' \in World PROVE IInv'
  <1>1. job.saved \in [Sessions -> Nat]
    BY DEF IInv, TypeOK, Job
  <1>. QED BY <1>1, Empty, DropStep DEF GiveUp, IInv, TypeOK

LEMMA DecideStep == ASSUME IInv, Decide PROVE IInv'
  <1>1. job.step = "sync" /\ UNCHANGED world /\ world \in World /\ skip \in [Sessions -> Nat]
    BY DEF Decide, Synced, IInv, TypeOK
  <1>2. CASE AbortSwap
    BY <1>1, <1>2, GiveUpStep DEF Decide
  <1>3. CASE ~AbortSwap
    <2>1. /\ job' \in Job /\ job'.step = "exclude again" /\ UNCHANGED <<file, parser, main, skip, wish>>
      BY <1>3, JobStep DEF Decide, Steps, SwapSteps
    <2>2. /\ temp' \in DB /\ temp'.rows = temp.rows /\ temp'.starred = temp.starred
          /\ temp'.excluded = temp.excluded
      BY <1>3, <1>1 DEF Decide, IInv, TypeOK, DB
    <2>3. ASSUME NEW t \in Sessions PROVE Built(t)' /\ Staged(t)'
      BY <1>1, <2>1, <2>2, Typed DEF Built, Staged
    <2>. QED BY <1>1, <2>1, <2>2, <2>3, BuildStep
  <1>. QED BY <1>2, <1>3

LEMMA AbortStep == ASSUME IInv, Abort PROVE IInv'
  <1>1. world' \in World
    BY SpendType DEF Abort, IInv, Bounds
  <1>. QED BY <1>1, GiveUpStep DEF Abort

LEMMA ExcludeAgainStep == ASSUME IInv, CopyExcludedAgain PROVE IInv'
  <1>. DEFINE ex == temp.excluded \cup main.excluded
  <1>1. /\ job.step = "exclude again" /\ job' \in Job /\ job'.step = "orphans"
        /\ UNCHANGED <<file, parser, main, skip, wish, world>>
    BY JobStep DEF CopyExcludedAgain, Steps, SwapSteps
  <1>2. /\ temp' \in DB /\ temp'.starred = temp.starred \ ex /\ temp'.excluded = ex
        /\ temp'.rows = [s \in Sessions |-> IF s \in ex THEN NoRow ELSE temp.rows[s]]
    <2>. DEFINE rows == [s \in Sessions |-> IF s \in ex THEN NoRow ELSE temp.rows[s]]
    <2>1. rows \in [Sessions -> Row] /\ ex \in SUBSET Sessions
      BY Empty, Typed DEF IInv, TypeOK, DB
    <2>2. temp' = [[temp EXCEPT !.rows = rows, !.starred = temp.starred \ ex] EXCEPT !.excluded = ex]
      BY DEF CopyExcludedAgain, CopyExcludedSessionsFrom, Delete
    <2>. HIDE DEF rows, ex
    <2>3. /\ temp' \in DB /\ temp'.starred = temp.starred \ ex /\ temp'.excluded = ex
          /\ temp'.rows = rows
      BY <2>1, <2>2 DEF IInv, TypeOK, DB
    <2>. QED BY <2>3 DEF rows
  <1>3. ASSUME NEW t \in Sessions PROVE Built(t)' /\ Staged(t)'
    <2>1. Built(t) /\ Staged(t)
      BY Typed
    <2>2. CASE t \in ex
      BY <1>1, <1>2, <2>1, <2>2, Empty DEF Built, Staged
    <2>3. CASE t \notin ex
      BY <1>1, <1>2, <2>1, <2>3 DEF Built, Staged
    <2>. QED BY <2>2, <2>3
  <1>. QED BY <1>1, <1>2, <1>3, BuildStep DEF IInv, TypeOK

LEMMA OrphanStep == ASSUME IInv, CopyOrphanedDataFrom PROVE IInv'
  <1>1. /\ job.step = "orphans" /\ job' \in Job /\ job'.step = "metadata"
        /\ UNCHANGED <<file, parser, main, skip, wish, world>>
    BY JobStep DEF CopyOrphanedDataFrom, Steps, SwapSteps
  <1>2. /\ temp' \in DB /\ temp'.starred = temp.starred /\ temp'.excluded = temp.excluded
        /\ temp'.rows = [s \in Sessions |-> IF s \in Orphans THEN main.rows[s] ELSE temp.rows[s]]
    <2>1. CopyRows(Orphans) \in [Sessions -> Row]
      BY Typed DEF CopyRows
    <2>2. temp' = [temp EXCEPT !.rows = CopyRows(Orphans)]
      BY DEF CopyOrphanedDataFrom
    <2>. QED BY <2>1, <2>2 DEF CopyRows, IInv, TypeOK, DB
  <1>3. ASSUME NEW t \in Sessions PROVE Built(t)' /\ Staged(t)'
    <2>1. Kept(t) /\ Built(t) /\ Staged(t) /\ Behind(t) /\ main.rows[t] \in Row
      BY Typed
    <2>2. CASE t \in Orphans
      <3>1. temp'.rows[t] = main.rows[t] /\ main.rows[t].state # "none" /\ t \notin temp.excluded
        BY <1>2, <2>2 DEF Orphans, Stored
      <3>. QED BY <1>1, <1>2, <2>1, <3>1 DEF Built, Staged, Behind, Row
    <2>3. CASE t \notin Orphans
      <3>1. temp'.rows[t] = temp.rows[t]
        BY <1>2, <2>3
      <3>2. main.rows[t].state # "none" => temp.rows[t].state # "none"
        BY <1>1, <2>1, <2>3 DEF Orphans, Stored, Built, Kept
      <3>. QED BY <1>1, <1>2, <2>1, <3>1, <3>2 DEF Built, Staged
    <2>. QED BY <2>2, <2>3
  <1>. QED BY <1>1, <1>2, <1>3, BuildStep DEF IInv, TypeOK

LEMMA MetadataStep == ASSUME IInv, CopySessionMetadataFrom PROVE IInv'
  <1>. DEFINE rows == [s \in Sessions |-> Metadata(s)]
              starred == temp.starred \cup (main.starred \cap Stored(temp))
  <1>1. /\ job.step = "metadata" /\ job' \in Job /\ job'.step = "rename"
        /\ UNCHANGED <<file, parser, main, skip, wish, world>>
    BY JobStep DEF CopySessionMetadataFrom, Steps, SwapSteps
  <1>2. ASSUME NEW s \in Sessions
        PROVE  /\ Metadata(s) \in Row /\ Metadata(s).lines = temp.rows[s].lines
               /\ (temp.rows[s].state # "none" /\ main.rows[s].state # "none") =>
                     Metadata(s).state = main.rows[s].state /\ Metadata(s).name = main.rows[s].name
               /\ (temp.rows[s].state = "none" \/ main.rows[s].state = "none") => Metadata(s) = temp.rows[s]
    <2>1. temp.rows[s] \in Row /\ main.rows[s] \in Row
      BY Typed
    <2>2. CASE s \in Stored(temp) \cap Stored(main)
      <3>. DEFINE pins == temp.rows[s].pins \cup PinsByOrdinal(main.rows[s], temp.rows[s])
      <3>1. pins \in SUBSET Nat
        BY <2>1 DEF PinsByOrdinal, Messages, Row
      <3>2. Metadata(s) = [temp.rows[s] EXCEPT !.name = main.rows[s].name, !.state = main.rows[s].state,
                                               !.pins = pins]
        BY <2>2 DEF Metadata
      <3>. HIDE DEF pins
      <3>. QED BY <2>1, <2>2, <3>1, <3>2 DEF Row, Stored
    <2>3. CASE s \notin Stored(temp) \cap Stored(main)
      BY <2>1, <2>3 DEF Metadata, Stored
    <2>. QED BY <2>2, <2>3
  <1>3. /\ temp' \in DB /\ temp'.rows = rows /\ temp'.excluded = temp.excluded /\ temp'.starred = starred
    <2>1. rows \in [Sessions -> Row] /\ starred \in SUBSET Sessions
      BY <1>2, Typed DEF IInv, TypeOK, DB
    <2>2. temp' = [temp EXCEPT !.rows = rows, !.starred = starred]
      BY DEF CopySessionMetadataFrom
    <2>. HIDE DEF rows, starred
    <2>. QED BY <2>1, <2>2 DEF IInv, TypeOK, DB
  <1>4. ASSUME NEW t \in Sessions PROVE Built(t)' /\ Staged(t)'
    <2>1. Kept(t) /\ Built(t) /\ Staged(t)
      BY Typed
    <2>2. temp'.rows[t] = Metadata(t)
      BY <1>3
    <2>3. t \in starred <=> t \in main.starred
      BY <1>1, <2>1 DEF Staged, Kept, Stored
    <2>4. CASE main.rows[t].state # "none"
      <3>1. temp.rows[t].state # "none"
        BY <1>1, <2>1, <2>4 DEF Staged
      <3>. QED BY <1>1, <1>2, <1>3, <2>1, <2>2, <2>3, <2>4, <3>1 DEF Built, Staged
    <2>5. CASE main.rows[t].state = "none"
      <3>1. temp'.rows[t] = temp.rows[t] /\ main.rows[t].name = 0
        BY <1>2, <2>1, <2>2, <2>5, Empty DEF Kept
      <3>2. temp.rows[t].state # "trashed" /\ temp.rows[t].name = 0
        BY <1>1, <2>1, <2>5, Empty DEF Built, Staged
      <3>. QED BY <1>1, <1>3, <2>1, <2>3, <2>5, <3>1, <3>2 DEF Built, Staged
    <2>. QED BY <2>4, <2>5
  <1>. QED BY <1>1, <1>3, <1>4, BuildStep DEF IInv, TypeOK

LEMMA RenameStep == ASSUME IInv, Rename PROVE IInv'
  <1>1. /\ job.step = "rename" /\ job' \in Job /\ job'.step = "reopen"
        /\ main' = temp /\ temp' = EmptyDB /\ UNCHANGED <<file, parser, skip, wish, world>>
    BY JobStep DEF Rename, Steps, SwapSteps
  <1>2. TypeOK'
    <2>1. temp' \in DB /\ Stored(temp') = {}
      BY <1>1, Empty
    <2>. QED BY <1>1, <2>1 DEF IInv, TypeOK
  <1>3. ASSUME NEW t \in Sessions PROVE Sound(t)'
    <2>1. Kept(t) /\ Built(t) /\ Staged(t) /\ file[t] \in Nat
      BY Typed
    <2>2. temp'.rows[t] = NoRow /\ t \notin temp'.starred /\ t \notin temp'.excluded
      BY <1>1, Empty
    <2>3. Kept(t)'
      BY <1>1, <2>1 DEF Kept, Built, Staged
    <2>4. Built(t)' /\ Staged(t)'
      BY <1>1, <2>2, Empty DEF Built, Staged
    <2>5. Behind(t)'
      BY <1>1, <2>1, Empty DEF Behind, Built
    <2>. QED BY <2>3, <2>4, <2>5 DEF Sound
  <1>. QED BY <1>2, <1>3 DEF IInv

LEMMA ReopenStep == ASSUME IInv, Reopen PROVE IInv'
  <1>1. job.step = "reopen" /\ job' \in Job /\ job'.step = "persist"
    BY JobStep DEF Reopen, Steps
  <1>. QED BY <1>1, QuietStep DEF Reopen, IInv, TypeOK

LEMMA RestartStep == ASSUME IInv, Crash \/ Upgrade PROVE IInv'
  <1>1. world' \in World
    BY SpendType DEF Crash, Upgrade, IInv, Bounds
  <1>2. main.skipped \in [Sessions -> Nat] /\ parser' \in {1, 2}
    BY DEF Crash, Upgrade, IInv, TypeOK, DB
  <1>. QED BY <1>1, <1>2, Empty, DropStep DEF Crash, Upgrade, Restart

-----------------------------------------------------------------------------
(* The invariant and what follows from it.                                 *)

LEMMA Initially == Init => IInv
  <1>. SUFFICES ASSUME Init PROVE IInv
    OBVIOUS
  <1>. DEFINE row == [NoRow EXCEPT !.state = "live", !.lines = 1, !.version = 1]
              rows == [s \in Sessions |-> IF s \in world.stored THEN row ELSE NoRow]
  <1>1. row \in Row /\ row.state = "live" /\ row.lines = 1 /\ row.name = 0
    <2>1. NoRow \in Row /\ NoRow.name = 0 /\ 1 \in 0..2
      BY Empty
    <2>. HIDE DEF NoRow
    <2>. QED BY <2>1 DEF Row
  <1>. HIDE DEF row
  <1>2. rows \in [Sessions -> Row]
    BY <1>1, Empty
  <1>3. main = [EmptyDB EXCEPT !.rows = rows]
    BY DEF Init, row
  <1>4. main \in DB /\ main.rows = rows /\ main.starred = {} /\ main.excluded = {}
    <2>. HIDE DEF rows
    <2>. QED BY <1>2, <1>3, Empty DEF DB
  <1>5. /\ file = [s \in Sessions |-> 1] /\ parser = 1 /\ temp = EmptyDB /\ skip = NoSkips
        /\ job = NoJob /\ wish = [s \in Sessions |-> NoWish] /\ world \in World
    BY ArchiveAssumption DEF Init
  <1>6. NoWish \in Wish /\ ~NoWish.trashed /\ ~NoWish.deleted /\ NoWish.name = 0 /\ ~NoWish.starred
    BY DEF NoWish, Wish
  <1>7. TypeOK
    BY <1>4, <1>5, <1>6, Empty DEF TypeOK
  <1>8. ASSUME NEW t \in Sessions PROVE Sound(t)
    <2>1. main.rows[t] = row \/ main.rows[t] = NoRow
      BY <1>4
    <2>2. wish[t] = NoWish /\ temp.rows[t] = NoRow /\ t \notin temp.starred /\ t \notin temp.excluded /\ file[t] = 1
      BY <1>5, Empty
    <2>. QED BY <1>1, <1>4, <1>5, <1>6, <2>1, <2>2, Empty DEF Sound, Kept, Built, Staged, Behind
  <1>. QED BY <1>7, <1>8 DEF IInv

LEMMA NextPreserves == IInv /\ [Next]_vars => IInv'
  <1>. SUFFICES ASSUME IInv, [Next]_vars PROVE IInv'
    OBVIOUS
  <1>1. CASE \E s \in Sessions : Grow(s) \/ Vanish(s)
    BY <1>1, FileStep
  <1>2. CASE Users
    BY <1>2, EditStep, StarStep, DeleteStep DEF Users
  <1>3. CASE Pass
    BY <1>3, PersistStep, ReadStep, FailStep, WriteStep DEF Pass
  <1>4. CASE Resync
    BY <1>4, BeginStep, ExcludeStep, TrashedStep, SkipStep, SyncStep, DecideStep, AbortStep,
       ExcludeAgainStep, OrphanStep, MetadataStep, RenameStep, ReopenStep DEF Resync
  <1>5. CASE Crash \/ Upgrade
    BY <1>5, RestartStep
  <1>6. CASE UNCHANGED vars
    BY <1>6 DEF vars, IInv, TypeOK, Stored, Sound, Kept, Built, Staged, Behind
  <1>. QED BY <1>1, <1>2, <1>3, <1>4, <1>5, <1>6 DEF Next

LEMMA Invariance == Spec => []IInv
  BY Initially, NextPreserves, PTL DEF Spec

(* Both databases, the pass and the user's decisions stay well formed, and *)
(* no database holds a session it excludes.                                *)
THEOREM TypeCorrect == Spec => []TypeOK
  BY Invariance, PTL DEF IInv

(* A session deleted for good never comes back, whatever a pass had read   *)
(* or a resync had copied before the deletion; trash, names and stars are  *)
(* as the user wants them in the database in use, before, during and after *)
(* every resync.                                                           *)
THEOREM UserIsObeyed == Spec => []UserDecides
  <1>1. IInv => NoResurrection
    BY DEF IInv, Sound, Kept, NoResurrection, Stored
  <1>2. IInv => UserStateSurvives
    BY DEF IInv, Sound, Kept, UserStateSurvives, Stored, Trashed
  <1>. QED BY <1>1, <1>2, Invariance, PTL DEF UserDecides

-----------------------------------------------------------------------------
(* No step loses a session or a line of one.                               *)

Keeps(s) ==
    /\ main'.rows[s].state = "none" => wish'[s].deleted
    /\ main'.rows[s].state # "none" => main.rows[s].lines <= main'.rows[s].lines

LEMMA RowsKeep ==
    ASSUME IInv, NEW s \in Sessions, main.rows[s].state # "none", main'.rows[s] = main.rows[s]
    PROVE  Keeps(s)
  BY Typed DEF Keeps, Row

LEMMA NextKeeps == IInv /\ [Next]_vars => \A s \in Stored(main) : Keeps(s)
  <1>. SUFFICES ASSUME IInv, [Next]_vars, NEW s \in Stored(main) PROVE Keeps(s)
    OBVIOUS
  <1>1. s \in Sessions /\ main.rows[s].state # "none" /\ main.rows[s] \in Row
        /\ main.rows \in [Sessions -> Row] /\ main \in DB
    BY Typed DEF Stored, IInv, TypeOK
  <1>2. CASE main'.rows = main.rows
    BY <1>1, <1>2, RowsKeep
  <1>3. ASSUME NEW t \in Sessions, NEW row \in Row, row.state # "none", row.lines = main.rows[t].lines,
               main' = [main EXCEPT !.rows = [main.rows EXCEPT ![t] = row]]
        PROVE  Keeps(s)
    <2>1. main'.rows = [main.rows EXCEPT ![t] = row]
      BY <1>1, <1>3 DEF DB
    <2>. QED BY <1>1, <1>3, <2>1 DEF Keeps, Row
  <1>4. CASE Users
    <2>1. ASSUME NEW t \in Sessions, SoftDeleteSession(t) PROVE Keeps(s)
      <3>. DEFINE row == [main.rows[t] EXCEPT !.state = "trashed"]
      <3>1. row \in Row /\ row.state # "none" /\ row.lines = main.rows[t].lines
        BY Typed DEF Row
      <3>. QED BY <1>3, <2>1, <3>1 DEF SoftDeleteSession, SetRow
    <2>2. ASSUME NEW t \in Sessions, RestoreSession(t) PROVE Keeps(s)
      <3>. DEFINE row == [main.rows[t] EXCEPT !.state = "live"]
      <3>1. row \in Row /\ row.state # "none" /\ row.lines = main.rows[t].lines
        BY Typed DEF Row
      <3>. QED BY <1>3, <2>2, <3>1 DEF RestoreSession, SetRow
    <2>3. ASSUME NEW t \in Sessions, RenameSession(t) PROVE Keeps(s)
      <3>1. PICK n \in {0, 1} : SetRow(t, "name", n)
        BY <2>3 DEF RenameSession
      <3>. DEFINE row == [main.rows[t] EXCEPT !.name = n]
      <3>2. row \in Row /\ row.state # "none" /\ row.lines = main.rows[t].lines
        BY <2>3, Typed DEF Row, RenameSession, Live, Stored
      <3>. QED BY <1>3, <3>1, <3>2 DEF SetRow
    <2>4. ASSUME NEW t \in Sessions, PinMessage(t) PROVE Keeps(s)
      <3>1. Messages(main.rows[t]) \subseteq Nat /\ main.rows[t].pins \subseteq Nat
        BY Typed DEF Messages, Row
      <3>2. PICK now \in SUBSET Nat : SetRow(t, "pins", now)
        BY <2>4, <3>1 DEF PinMessage
      <3>. DEFINE row == [main.rows[t] EXCEPT !.pins = now]
      <3>3. row \in Row /\ row.state # "none" /\ row.lines = main.rows[t].lines
        <4>1. main.rows[t] \in Row /\ main.rows[t].state # "none"
          BY <2>4, Typed DEF PinMessage, Live, Stored
        <4>. QED BY <4>1 DEF Row
      <3>. QED BY <1>3, <3>2, <3>3 DEF SetRow
    <2>5. ASSUME NEW t \in Sessions, StarSession(t) PROVE main'.rows = main.rows
      BY <1>1, <2>5 DEF StarSession, DB
    <2>6. ASSUME NEW gone \in SUBSET Sessions, DeleteTrashed(gone) PROVE Keeps(s)
      <3>1. /\ main'.rows = [t \in Sessions |-> IF t \in gone THEN NoRow ELSE main.rows[t]]
            /\ wish' = [t \in Sessions |-> IF t \in gone THEN [NoWish EXCEPT !.deleted = TRUE] ELSE wish[t]]
        BY <1>1, <2>6 DEF DeleteTrashed, Delete, DB
      <3>2. CASE s \in gone
        <4>1. wish'[s].deleted /\ main'.rows[s].state = "none"
          BY <1>1, <3>1, <3>2, Empty DEF NoWish
        <4>. QED BY <4>1 DEF Keeps
      <3>3. CASE s \notin gone
        BY <1>1, <3>1, <3>3, RowsKeep
      <3>. QED BY <3>2, <3>3
    <2>. QED BY <1>2, <1>4, <2>1, <2>2, <2>3, <2>4, <2>5, <2>6 DEF Users
  <1>5. ASSUME NEW t \in Sessions, WriteFile(t) PROVE Keeps(s)
    <2>1. CASE Rejects(main, t)
      BY <1>2, <1>5, <2>1 DEF WriteFile
    <2>2. CASE ~Rejects(main, t)
      <3>1. /\ main' = Written(main, t, job.lines) /\ job.step = "write" /\ job.of = {t}
            /\ job.lines \in Nat
        BY <1>5, <2>2 DEF WriteFile, IInv, TypeOK, Job
      <3>2. /\ \A u \in Sessions : u # t => main'.rows[u] = main.rows[u]
            /\ main'.rows[t].state = "live" /\ main'.rows[t].lines = job.lines
        BY <1>1, <3>1, WrittenRow DEF IInv
      <3>3. main.rows[t].lines <= job.lines
        BY <3>1, Typed DEF Behind
      <3>. QED BY <1>1, <3>2, <3>3, RowsKeep DEF Keeps
    <2>. QED BY <2>1, <2>2
  <1>6. CASE Rename
    <2>1. main'.rows[s] = temp.rows[s] /\ job.step = "rename"
      BY <1>6 DEF Rename
    <2>2. temp.rows[s].state # "none" /\ main.rows[s].lines <= temp.rows[s].lines
      BY <1>1, <2>1, Typed DEF Staged, Built
    <2>. QED BY <2>1, <2>2 DEF Keeps
  <1>7. CASE persistSkipCache
    BY <1>1, <1>2, <1>7 DEF persistSkipCache, DB
  <1>8. CASE \/ \E t \in Sessions : \/ Grow(t) \/ Vanish(t) \/ ReadFile(t) \/ ParseFails(t)
                                    \/ SyncSkips(t) \/ SyncWrites(t) \/ SyncFails(t)
             \/ BeginResync \/ CopyExcludedFirst \/ CopyTrashedDataFrom \/ Decide \/ Abort
             \/ CopyExcludedAgain \/ CopyOrphanedDataFrom \/ CopySessionMetadataFrom \/ Reopen
             \/ Crash \/ Upgrade \/ UNCHANGED vars
    <2>1. main' = main
      BY <1>8 DEF Grow, Vanish, ReadFile, ParseFails, SyncSkips, SyncWrites, SyncFails, BeginResync,
                  CopyExcludedFirst, CopyTrashedDataFrom, Decide, Abort, GiveUp, CopyExcludedAgain,
                  CopyOrphanedDataFrom, CopySessionMetadataFrom, Reopen, Crash, Upgrade, Restart, vars
    <2>. QED BY <1>2, <2>1
  <1>. QED BY <1>4, <1>5, <1>6, <1>7, <1>8 DEF Next, Pass, Resync

(* No swap, crash or failed file loses a session or lines of it, even when *)
(* its file is gone: only the user deletes.                                *)
THEOREM ArchiveLosesNothing == Spec => NothingLost
  <1>1. IInv /\ [Next]_vars =>
          [\A s \in Stored(main) :
              /\ s \notin Stored(main)' => wish'[s].deleted
              /\ s \in Stored(main)' => main.rows[s].lines <= main'.rows[s].lines]_vars
    BY NextKeeps DEF Keeps, Stored
  <1>. QED BY <1>1, Invariance, PTL DEF Spec, NothingLost

-----------------------------------------------------------------------------
(* The database in use is a library: every step maps to a decision of the  *)
(* user, to a change of a file, to an update, or to nothing.               *)

LEMMA CardsTyped == ASSUME IInv PROVE Cards \in [Sessions -> L!Card]
  <1>. SUFFICES ASSUME NEW s \in Sessions PROVE CardOf(s) \in L!Card
    BY DEF Cards
  <1>1. main.rows[s] \in Row
    BY Typed
  <1>. QED BY <1>1 DEF CardOf, L!Card, Row

(* The card of a session that is not stored is blank.                      *)
LEMMA BlankCard ==
    ASSUME IInv, NEW s \in Sessions, main.rows[s].state = "none"
    PROVE  CardOf(s) = L!Blank(IF s \in main.excluded THEN "removed" ELSE "none", 0)
  <1>1. main.rows[s] = NoRow /\ s \notin main.starred
    BY Typed DEF Kept
  <1>2. (s \in main.starred) = FALSE
    BY <1>1
  <1>3. NoRow.state = "none" /\ NoRow.lines = 0 /\ NoRow.name = 0
    BY Empty
  <1>. QED BY <1>1, <1>2, <1>3 DEF CardOf, L!Blank

LEMMA SameCard ==
    ASSUME NEW s \in Sessions, main'.rows[s] = main.rows[s],
           s \in main'.excluded <=> s \in main.excluded, s \in main'.starred <=> s \in main.starred
    PROVE  CardOf(s)' = CardOf(s)
  BY DEF CardOf

LEMMA SameCards ==
    ASSUME main'.rows = main.rows, main'.excluded = main.excluded, main'.starred = main.starred
    PROVE  UNCHANGED Cards
  BY DEF Cards, CardOf

LEMMA OneCard ==
    ASSUME NEW s \in Sessions, UNCHANGED file, NEW c, CardOf(s)' = c,
           \A t \in Sessions \ {s} : CardOf(t)' = CardOf(t)
    PROVE  L!Put(s, c) /\ Cards[s] = CardOf(s)
  BY DEF L!Put, Cards

(* One row of the database in use changes, and nothing else of it.         *)
LEMMA RowCard ==
    ASSUME IInv, NEW s \in Sessions, UNCHANGED file, NEW row,
           main' = [main EXCEPT !.rows = [main.rows EXCEPT ![s] = row]],
           NEW c, c = [state |-> IF s \in main.excluded THEN "removed" ELSE row.state,
                       lines |-> row.lines, name |-> row.name, starred |-> s \in main.starred]
    PROVE  L!Put(s, c) /\ Cards[s] = CardOf(s)
  <1>1. /\ main'.rows = [main.rows EXCEPT ![s] = row] /\ main.rows \in [Sessions -> Row]
        /\ main'.starred = main.starred /\ main'.excluded = main.excluded
    BY DEF IInv, TypeOK, DB
  <1>2. CardOf(s)' = c
    BY <1>1 DEF CardOf
  <1>3. \A t \in Sessions \ {s} : CardOf(t)' = CardOf(t)
    BY <1>1 DEF CardOf
  <1>. QED BY <1>2, <1>3, OneCard

(* The user: each decision is the library's.                               *)
LEMMA DecisionCard ==
    ASSUME IInv, NEW s \in Sessions,
           SoftDeleteSession(s) \/ RestoreSession(s) \/ RenameSession(s) \/ PinMessage(s)
    PROVE  L!Trash(s) \/ L!Restore(s) \/ L!Name(s) \/ UNCHANGED <<file, Cards>>
  <1>1. /\ main.rows[s] \in Row /\ UNCHANGED file /\ s \notin main.excluded
        /\ Cards[s] = CardOf(s)
    <2>1. main.rows[s].state # "none"
      BY DEF SoftDeleteSession, RestoreSession, RenameSession, PinMessage, Live, Trashed, Stored
    <2>. QED BY <2>1, Typed DEF Kept, Cards, SoftDeleteSession, RestoreSession, RenameSession, PinMessage
  <1>2. CardOf(s) = [state |-> main.rows[s].state, lines |-> main.rows[s].lines,
                     name |-> main.rows[s].name, starred |-> s \in main.starred]
    BY <1>1 DEF CardOf
  <1>3. CASE SoftDeleteSession(s)
    <2>. DEFINE row == [main.rows[s] EXCEPT !.state = "trashed"]
                c == [CardOf(s) EXCEPT !.state = "trashed"]
    <2>1. main' = [main EXCEPT !.rows = [main.rows EXCEPT ![s] = row]]
      BY <1>3 DEF SoftDeleteSession, SetRow
    <2>2. c = [state |-> IF s \in main.excluded THEN "removed" ELSE row.state,
               lines |-> row.lines, name |-> row.name, starred |-> s \in main.starred]
      BY <1>1, <1>2 DEF Row
    <2>3. main.rows[s].state = "live"
      BY <1>1, <1>3 DEF SoftDeleteSession, Live, Stored, Trashed, Row
    <2>4. CardOf(s).state = "live"
      BY <1>2, <2>3
    <2>. HIDE DEF row
    <2>5. L!Put(s, c)
      BY <1>1, <2>1, <2>2, RowCard
    <2>. QED BY <1>1, <2>4, <2>5 DEF L!Trash
  <1>4. CASE RestoreSession(s)
    <2>. DEFINE row == [main.rows[s] EXCEPT !.state = "live"]
                c == [CardOf(s) EXCEPT !.state = "live"]
    <2>1. main' = [main EXCEPT !.rows = [main.rows EXCEPT ![s] = row]]
      BY <1>4 DEF RestoreSession, SetRow
    <2>2. c = [state |-> IF s \in main.excluded THEN "removed" ELSE row.state,
               lines |-> row.lines, name |-> row.name, starred |-> s \in main.starred]
      BY <1>1, <1>2 DEF Row
    <2>3. main.rows[s].state = "trashed"
      BY <1>1, <1>4 DEF RestoreSession, Trashed
    <2>4. CardOf(s).state = "trashed"
      BY <1>2, <2>3
    <2>. HIDE DEF row
    <2>5. L!Put(s, c)
      BY <1>1, <2>1, <2>2, RowCard
    <2>. QED BY <1>1, <2>4, <2>5 DEF L!Restore
  <1>5. CASE RenameSession(s)
    <2>1. PICK n \in {0, 1} : SetRow(s, "name", n)
      BY <1>5 DEF RenameSession
    <2>. DEFINE row == [main.rows[s] EXCEPT !.name = n]
                c == [CardOf(s) EXCEPT !.name = n]
    <2>2. main' = [main EXCEPT !.rows = [main.rows EXCEPT ![s] = row]]
      BY <2>1 DEF SetRow
    <2>3. c = [state |-> IF s \in main.excluded THEN "removed" ELSE row.state,
               lines |-> row.lines, name |-> row.name, starred |-> s \in main.starred]
      BY <1>1, <1>2 DEF Row
    <2>4. main.rows[s].state = "live"
      BY <1>1, <1>5 DEF RenameSession, Live, Stored, Trashed, Row
    <2>5. CardOf(s).state = "live"
      BY <1>2, <2>4
    <2>. HIDE DEF row
    <2>6. L!Put(s, c)
      BY <1>1, <2>2, <2>3, RowCard
    <2>. QED BY <1>1, <2>5, <2>6 DEF L!Name
  <1>6. CASE PinMessage(s)
    <2>1. PICK now \in SUBSET Nat : SetRow(s, "pins", now)
      <3>1. Messages(main.rows[s]) \subseteq Nat /\ main.rows[s].pins \subseteq Nat
        BY <1>1 DEF Messages, Row
      <3>. QED BY <1>6, <3>1 DEF PinMessage
    <2>. DEFINE row == [main.rows[s] EXCEPT !.pins = now]
    <2>2. main' = [main EXCEPT !.rows = [main.rows EXCEPT ![s] = row]]
      BY <2>1 DEF SetRow
    <2>3. CardOf(s) = [state |-> IF s \in main.excluded THEN "removed" ELSE row.state,
                       lines |-> row.lines, name |-> row.name, starred |-> s \in main.starred]
      BY <1>1, <1>2 DEF Row
    <2>. HIDE DEF row
    <2>4. L!Put(s, CardOf(s))
      BY <1>1, <2>2, <2>3, RowCard
    <2>. QED BY <1>1, <2>4 DEF L!Put, Cards
  <1>. QED BY <1>3, <1>4, <1>5, <1>6

LEMMA StarCard == ASSUME IInv, NEW s \in Sessions, StarSession(s) PROVE L!Star(s)
  <1>1. PICK on \in BOOLEAN :
           main' = [main EXCEPT !.starred = IF on THEN @ \cup {s} ELSE @ \ {s}]
    BY DEF StarSession
  <1>2. /\ UNCHANGED file /\ main.rows[s] \in Row /\ main.rows[s].state \in {"live", "trashed"}
        /\ s \notin main.excluded
    BY Typed DEF StarSession, Stored, Row, Kept
  <1>3. /\ main'.rows = main.rows /\ main'.excluded = main.excluded
        /\ main'.starred = IF on THEN main.starred \cup {s} ELSE main.starred \ {s}
    BY <1>1 DEF IInv, TypeOK, DB
  <1>4. CardOf(s)' = [CardOf(s) EXCEPT !.starred = on]
    <2>1. (s \in main'.starred) = on
      BY <1>3
    <2>. QED BY <1>3, <2>1 DEF CardOf
  <1>5. \A t \in Sessions \ {s} : CardOf(t)' = CardOf(t)
    <2>1. \A t \in Sessions \ {s} : t \in main'.starred <=> t \in main.starred
      BY <1>3
    <2>. QED BY <1>3, <2>1, SameCard
  <1>6. CardOf(s).state \in {"live", "trashed"}
    BY <1>2 DEF CardOf
  <1>. QED BY <1>2, <1>4, <1>5, <1>6, OneCard DEF L!Star

LEMMA RemoveCards ==
    ASSUME IInv, NEW gone \in SUBSET Sessions, DeleteTrashed(gone) PROVE L!Remove(gone)
  <1>1. UNCHANGED file /\ gone \subseteq Trashed(main) /\ main \in DB
    BY DEF DeleteTrashed, IInv, TypeOK
  <1>2. /\ main'.rows = [s \in Sessions |-> IF s \in gone THEN NoRow ELSE main.rows[s]]
        /\ main'.starred = main.starred \ gone /\ main'.excluded = main.excluded \cup gone
    BY <1>1 DEF DeleteTrashed, Delete, DB
  <1>3. ASSUME NEW s \in gone PROVE Cards[s].state = "trashed"
    <2>1. s \in Sessions /\ main.rows[s].state = "trashed"
      BY <1>1 DEF Trashed
    <2>2. s \notin main.excluded
      BY <2>1, Typed DEF Kept
    <2>. QED BY <2>1, <2>2 DEF Cards, CardOf
  <1>4. ASSUME NEW s \in Sessions
        PROVE  CardOf(s)' = IF s \in gone THEN L!Blank("removed", 0) ELSE Cards[s]
    <2>1. CASE s \in gone
      <3>1. main'.rows[s] = NoRow /\ s \in main'.excluded /\ (s \in main'.starred) = FALSE
        BY <1>2, <2>1
      <3>2. NoRow.lines = 0 /\ NoRow.name = 0
        BY Empty
      <3>. QED BY <2>1, <3>1, <3>2 DEF CardOf, L!Blank
    <2>2. CASE s \notin gone
      <3>1. CardOf(s)' = CardOf(s)
        BY <1>2, <2>2, SameCard
      <3>. QED BY <2>2, <3>1 DEF Cards
    <2>. QED BY <2>1, <2>2
  <1>. QED BY <1>1, <1>3, <1>4 DEF L!Remove, Cards

-----------------------------------------------------------------------------
(* A card is made or brought up to date.                                   *)
LEMMA FreshCard ==
    ASSUME IInv, NEW s \in Sessions, main.rows[s].state = "none", s \notin main.excluded,
           main'.rows[s] \in Row, main'.rows[s].state = "live", main'.rows[s].name = 0,
           s \notin main'.starred, s \notin main'.excluded,
           file[s] > 0 => main'.rows[s].lines <= file[s]
    PROVE  L!Updated(CardOf(s), CardOf(s)', file[s])
  <1>1. CardOf(s) = L!Blank("none", 0)
    BY BlankCard
  <1>2. CardOf(s)' = L!Blank("live", main'.rows[s].lines)
    <2>1. (s \in main'.starred) = FALSE
      OBVIOUS
    <2>. QED BY <2>1 DEF CardOf, L!Blank
  <1>. QED BY <1>1, <1>2 DEF L!Updated, L!Blank

LEMMA GrownCard ==
    ASSUME IInv, NEW s \in Sessions, main.rows[s].state # "none",
           main'.rows[s] \in Row, main'.rows[s].state = main.rows[s].state,
           main'.rows[s].name = main.rows[s].name, main.rows[s].lines <= main'.rows[s].lines,
           s \in main'.starred <=> s \in main.starred, s \notin main'.excluded,
           file[s] > 0 => main'.rows[s].lines <= file[s]
    PROVE  L!Updated(CardOf(s), CardOf(s)', file[s])
  <1>1. main.rows[s] \in Row /\ s \notin main.excluded
    BY Typed DEF Kept
  <1>2. (s \in main'.starred) = (s \in main.starred)
    OBVIOUS
  <1>3. CardOf(s)' = [CardOf(s) EXCEPT !.lines = main'.rows[s].lines]
    BY <1>1, <1>2 DEF CardOf
  <1>4. CardOf(s).state \in {"live", "trashed"} /\ CardOf(s).lines = main.rows[s].lines
        /\ CardOf(s)'.lines = main'.rows[s].lines
    BY <1>1 DEF CardOf, Row
  <1>. QED BY <1>3, <1>4 DEF L!Updated

LEMMA UpdateCards ==
    ASSUME IInv, IInv', UNCHANGED file,
           \A s \in Sessions : CardOf(s)' = CardOf(s) \/ L!Updated(CardOf(s), CardOf(s)', file[s])
    PROVE  L!Update
  <1>1. Cards' \in [Sessions -> L!Card]
    <2>. SUFFICES ASSUME NEW s \in Sessions PROVE CardOf(s)' \in L!Card
      BY DEF Cards
    <2>1. main'.rows[s] \in Row
      BY DEF IInv, TypeOK, DB
    <2>. QED BY <2>1 DEF CardOf, L!Card, Row
  <1>. QED BY <1>1 DEF L!Update, Cards

(* A pass writes what it read.                                             *)
LEMMA WriteCard == ASSUME IInv, NEW s \in Sessions, WriteFile(s) PROVE L!Update
  <1>1. /\ job.step = "write" /\ job.of = {s} /\ job.lines \in Nat /\ UNCHANGED file /\ main \in DB
    BY DEF WriteFile, IInv, TypeOK, Job
  <1>2. IInv'
    BY WriteStep
  <1>3. CASE Rejects(main, s)
    <2>1. main' = main
      BY <1>3 DEF WriteFile
    <2>2. \A t \in Sessions : CardOf(t)' = CardOf(t)
      BY <2>1, SameCard
    <2>. QED BY <1>1, <1>2, <2>2, UpdateCards
  <1>4. CASE ~Rejects(main, s)
    <2>1. /\ main'.starred = main.starred /\ main'.excluded = main.excluded
          /\ \A t \in Sessions : t # s => main'.rows[t] = main.rows[t]
          /\ main'.rows[s].state = "live" /\ main'.rows[s].lines = job.lines
          /\ main'.rows[s].name = main.rows[s].name
      <3>1. main' = Written(main, s, job.lines)
        BY <1>4 DEF WriteFile
      <3>. QED BY <1>1, <3>1, WrittenRow DEF IInv
    <2>2. main.rows[s].state \in {"none", "live"} /\ s \notin main.excluded
      BY <1>4, Typed DEF Rejects, Row
    <2>3. main.rows[s].lines <= job.lines /\ (file[s] > 0 => job.lines <= file[s])
      BY <1>1, Typed DEF Behind
    <2>4. main'.rows[s] \in Row
      BY <1>2 DEF IInv, TypeOK, DB
    <2>5. L!Updated(CardOf(s), CardOf(s)', file[s])
      <3>1. CASE main.rows[s].state = "none"
        <4>1. main.rows[s].name = 0 /\ s \notin main.starred
          BY <3>1, Typed, Empty DEF Kept
        <4>. QED BY <2>1, <2>2, <2>3, <2>4, <3>1, <4>1, FreshCard
      <3>2. CASE main.rows[s].state = "live"
        BY <2>1, <2>2, <2>3, <2>4, <3>2, GrownCard
      <3>. QED BY <2>2, <3>1, <3>2
    <2>6. \A t \in Sessions : t # s => CardOf(t)' = CardOf(t)
      BY <2>1, SameCard
    <2>. QED BY <1>1, <1>2, <2>5, <2>6, UpdateCards
  <1>. QED BY <1>3, <1>4

(* The swap of a resync brings all cards up to date at once.               *)
LEMMA RenameCards == ASSUME IInv, Rename PROVE L!Update
  <1>1. job.step = "rename" /\ main' = temp /\ UNCHANGED file
    BY DEF Rename
  <1>2. IInv'
    BY RenameStep
  <1>3. ASSUME NEW s \in Sessions
        PROVE  CardOf(s)' = CardOf(s) \/ L!Updated(CardOf(s), CardOf(s)', file[s])
    <2>1. Kept(s) /\ Built(s) /\ Staged(s) /\ main.rows[s] \in Row /\ temp.rows[s] \in Row
      BY Typed
    <2>2. CASE main.rows[s].state # "none"
      <3>1. /\ temp.rows[s].state # "none" /\ s \notin temp.excluded
            /\ temp.rows[s].state = "trashed" <=> main.rows[s].state = "trashed"
            /\ temp.rows[s].name = main.rows[s].name /\ (s \in temp.starred <=> s \in main.starred)
        BY <1>1, <2>1, <2>2 DEF Staged, Built
      <3>2. temp.rows[s].state = main.rows[s].state
        BY <2>1, <2>2, <3>1 DEF Row
      <3>3. main.rows[s].lines <= temp.rows[s].lines /\ (file[s] > 0 => temp.rows[s].lines <= file[s])
        BY <2>1, <3>1 DEF Built
      <3>. QED BY <1>1, <2>1, <2>2, <3>1, <3>2, <3>3, GrownCard
    <2>3. CASE main.rows[s].state = "none" /\ temp.rows[s].state = "none"
      <3>1. main.rows[s] = NoRow /\ temp.rows[s] = NoRow
        BY <2>1, <2>3 DEF Kept, Built
      <3>2. (s \in temp.excluded <=> s \in main.excluded) /\ (s \in temp.starred <=> s \in main.starred)
        BY <1>1, <2>1 DEF Staged, Built
      <3>. QED BY <1>1, <3>1, <3>2, SameCard
    <2>4. CASE main.rows[s].state = "none" /\ temp.rows[s].state # "none"
      <3>1. s \notin main.excluded /\ s \notin temp.excluded /\ s \notin temp.starred
        BY <1>1, <2>1, <2>4 DEF Staged, Built, Kept
      <3>2. temp.rows[s].state = "live" /\ temp.rows[s].name = 0
        BY <2>1, <2>4, <3>1 DEF Built, Row
      <3>3. file[s] > 0 => temp.rows[s].lines <= file[s]
        BY <2>1, <2>4 DEF Built
      <3>. QED BY <1>1, <2>1, <2>4, <3>1, <3>2, <3>3, FreshCard
    <2>. QED BY <2>2, <2>3, <2>4
  <1>. QED BY <1>1, <1>2, <1>3, UpdateCards

-----------------------------------------------------------------------------
LEMMA NextIsOfALibrary == IInv /\ [Next]_vars => [L!Next]_<<file, Cards>>
  <1>. SUFFICES ASSUME IInv, [Next]_vars PROVE L!Next \/ UNCHANGED <<file, Cards>>
    OBVIOUS
  <1>1. ASSUME NEW s \in Sessions, Grow(s) \/ Vanish(s) PROVE L!Change(s)
    <2>1. file' = [file EXCEPT ![s] = file[s] + 1] \/ file' = [file EXCEPT ![s] = 0]
      BY <1>1 DEF Grow, Vanish
    <2>2. file \in [Sessions -> Nat] /\ (file'[s] = 0 \/ file[s] \in 1..file'[s])
      BY <1>1, <2>1 DEF IInv, TypeOK, Grow, Vanish
    <2>3. UNCHANGED Cards
      BY <1>1 DEF Grow, Vanish, Cards, CardOf
    <2>. QED BY <2>1, <2>2, <2>3 DEF L!Change
  <1>2. CASE Users
    BY <1>2, DecisionCard, StarCard, RemoveCards DEF Users, L!Next
  <1>3. ASSUME NEW s \in Sessions, WriteFile(s) PROVE L!Next
    BY <1>3, WriteCard DEF L!Next
  <1>4. CASE Rename
    BY <1>4, RenameCards DEF L!Next
  <1>5. CASE persistSkipCache
    <2>1. /\ main'.rows = main.rows /\ main'.starred = main.starred /\ main'.excluded = main.excluded
          /\ UNCHANGED file
      BY <1>5 DEF persistSkipCache, IInv, TypeOK, DB
    <2>. QED BY <2>1, SameCards
  <1>6. CASE \/ \E t \in Sessions : \/ ReadFile(t) \/ ParseFails(t)
                                    \/ SyncSkips(t) \/ SyncWrites(t) \/ SyncFails(t)
             \/ BeginResync \/ CopyExcludedFirst \/ CopyTrashedDataFrom \/ Decide \/ Abort
             \/ CopyExcludedAgain \/ CopyOrphanedDataFrom \/ CopySessionMetadataFrom \/ Reopen
             \/ Crash \/ Upgrade \/ UNCHANGED vars
    <2>1. main' = main /\ file' = file
      BY <1>6 DEF ReadFile, ParseFails, SyncSkips, SyncWrites, SyncFails, BeginResync,
                  CopyExcludedFirst, CopyTrashedDataFrom, Decide, Abort, GiveUp, CopyExcludedAgain,
                  CopyOrphanedDataFrom, CopySessionMetadataFrom, Reopen, Crash, Upgrade, Restart, vars
    <2>. QED BY <2>1, SameCards
  <1>. QED BY <1>1, <1>2, <1>3, <1>4, <1>5, <1>6 DEF Next, Pass, Resync, L!Next

LEMMA InitIsOfALibrary == Init => L!Init
  <1>. SUFFICES ASSUME Init PROVE L!Init
    OBVIOUS
  <1>. DEFINE row == [NoRow EXCEPT !.state = "live", !.lines = 1, !.version = 1]
              rows == [s \in Sessions |-> IF s \in world.stored THEN row ELSE NoRow]
  <1>1. IInv
    BY Initially
  <1>2. file \in [Sessions -> Nat] /\ Cards \in [Sessions -> L!Card]
    BY <1>1, CardsTyped DEF IInv, TypeOK
  <1>3. row.state = "live" /\ row.lines = 1 /\ row.name = 0
    BY DEF NoRow
  <1>4. main.rows = rows /\ main.starred = {} /\ main.excluded = {}
    <2>1. main = [EmptyDB EXCEPT !.rows = rows]
      BY DEF Init
    <2>. HIDE DEF rows
    <2>. QED BY <2>1, Empty DEF DB
  <1>5. ASSUME NEW s \in Sessions
        PROVE  Cards[s] \in {L!Blank("none", 0), L!Blank("live", Cards[s].lines)}
    <2>1. (s \in main.starred) = FALSE /\ s \notin main.excluded
      BY <1>4
    <2>2. CASE s \in world.stored
      <3>1. main.rows[s] = row
        BY <1>4, <2>2
      <3>. HIDE DEF row
      <3>2. CardOf(s) = L!Blank("live", 1) /\ CardOf(s).lines = 1
        BY <1>3, <2>1, <3>1 DEF CardOf, L!Blank
      <3>. QED BY <3>2 DEF Cards
    <2>3. CASE s \notin world.stored
      <3>1. main.rows[s] = NoRow
        BY <1>4, <2>3
      <3>2. CardOf(s) = L!Blank("none", 0)
        BY <1>1, <2>1, <3>1, Empty, BlankCard
      <3>. QED BY <3>2 DEF Cards
    <2>. QED BY <2>2, <2>3
  <1>. QED BY <1>2, <1>5 DEF L!Init

(* The archive implements the library: a resync, with its copies, aborts,  *)
(* crashes and the swap of the databases, shows in the database in use as  *)
(* one update of cards or not at all, and nothing but the user changes     *)
(* what the user decided.                                                  *)
THEOREM ArchiveIsALibrary == Spec => ResyncIsInvisible
  BY InitIsOfALibrary, NextIsOfALibrary, Invariance, PTL DEF Spec, ResyncIsInvisible, L!Spec
=============================================================================
