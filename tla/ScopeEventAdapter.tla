------------------------- MODULE ScopeEventAdapter -------------------------
(***************************************************************************)
(* NewScopeEventWatchFunc: turns "something changed" signals into source   *)
(* events by comparing two snapshots of the sessions table and reading the *)
(* messages that a session gained.  The sync engine writes to the database *)
(* while the adapter reads it, page by page and statement by statement.    *)
(*                                                                         *)
(* A session is its message_count and the time of its last change, which   *)
(* stands for every other field and orders the pages (most recent first).  *)
(* The adapter is one listener of Signal, which the Broadcaster implements:*)
(* signal counts the wake-ups on their way to it.  Deletion of sessions is *)
(* left out.                                                               *)
(* An event's "at" and adapter.mark are history: which state of the        *)
(* session the event told, and where in log the last refresh began.        *)
(***************************************************************************)
EXTENDS Integers, Sequences, FiniteSets

CONSTANTS
    Sessions,       \* session ids, in the order the adapter visits them
    SessionLimit,   \* MaxSessionLimit, the size of a page
    MessageLimit,   \* MaxMessageLimit, the size of a message window
    OutCap,         \* sourceEventBufferCap
    Ordinals,       \* the ordinals of each session's messages, some left out
    MaxWrites,      \* bound: passes that write a session
    MaxFaults       \* bound: failing reads and signals from before Watch

ASSUME AdapterAssumption ==
    /\ IsFiniteSet(Sessions)
    /\ Sessions \subseteq Nat \ {0}
    /\ {SessionLimit, MessageLimit, OutCap} \subseteq Nat \ {0}
    /\ Ordinals \in [Sessions -> SUBSET Nat]
    /\ \A s \in Sessions : IsFiniteSet(Ordinals[s])
    /\ {MaxWrites, MaxFaults} \subseteq Nat

VARIABLES
    table,          \* the sessions table
    rows,           \* the stored ordinals of each session
    writer,         \* the write in flight
    clock,          \* the time of the last change
    signal,         \* scope signals on their way to the adapter
    adapter,        \* where the adapter is, and its local variables
    log,            \* every event sent, in order
    read,           \* how many of them its reader has taken
    cancelled,      \* its context is cancelled
    faults,
    known           \* history: the first snapshot

dbVars == <<table, rows, writer, clock>>
outVars == <<log, read>>
vars == <<dbVars, signal, adapter, outVars, cancelled, faults, known>>

Missing == [count |-> 0, at |-> 0]
Empty == [s \in Sessions |-> Missing]
Has(snapshot, s) == snapshot[s].at > 0
NoWrite == [step |-> "idle", s |-> 0, new |-> {}]

Smallest(S) == CHOOSE x \in S : \A y \in S : x <= y
Largest(S) == CHOOSE x \in S : \A y \in S : x >= y
(* The n smallest members of S.                                            *)
Window(S, n) == {x \in S : Cardinality({y \in S : y < x}) < n}

-----------------------------------------------------------------------------
(* The sync engine.  A full parse writes the session row before its        *)
(* messages, an incremental one after them; a pass ends with an emit.      *)
(* pairAndFilter leaves out messages that only carry tool results and      *)
(* their ordinals with them, so a session may have gaps.                   *)

Later(s) == {o \in Ordinals[s] : \A p \in rows[s] : p < o}
NextOrdinals(s) == {Window(Later(s), n) : n \in 0..2}

Begin(s, new, step) ==
    /\ writer.step = "idle"
    /\ clock < MaxWrites
    /\ writer' = [step |-> step, s |-> s, new |-> new]

FullWrite(s, new) ==
    /\ Has(table, s) \/ new # {}
    /\ Begin(s, new, "messages")
    /\ table' = [table EXCEPT ![s] =
                    [count |-> Cardinality(rows[s] \cup new), at |-> clock + 1]]
    /\ clock' = clock + 1
    /\ UNCHANGED <<rows, signal, adapter, outVars, cancelled, faults, known>>

WriteMessages ==
    /\ writer.step = "messages"
    /\ rows' = [rows EXCEPT ![writer.s] = @ \cup writer.new]
    /\ writer' = [writer EXCEPT !.step = "emit"]
    /\ UNCHANGED <<table, clock, signal, adapter, outVars, cancelled, faults, known>>

IncrementalWrite(s, new) ==
    /\ Has(table, s)
    /\ new # {}
    /\ Begin(s, new, "session")
    /\ rows' = [rows EXCEPT ![s] = @ \cup new]
    /\ UNCHANGED <<table, clock, signal, adapter, outVars, cancelled, faults, known>>

UpdateSession ==
    /\ writer.step = "session"
    /\ table' = [table EXCEPT ![writer.s] =
                    [count |-> @.count + Cardinality(writer.new), at |-> clock + 1]]
    /\ clock' = clock + 1
    /\ writer' = [writer EXCEPT !.step = "emit"]
    /\ UNCHANGED <<rows, signal, adapter, outVars, cancelled, faults, known>>

(* Only a subscribed adapter is woken up.                                  *)
Emit ==
    /\ writer.step = "emit"
    /\ writer' = NoWrite
    /\ signal' = IF adapter.step = "new" THEN 0 ELSE signal + 1
    /\ UNCHANGED <<table, rows, clock, adapter, outVars, cancelled, faults, known>>

-----------------------------------------------------------------------------
(* Sending.  A send blocks while the channel is full.                      *)

SessionEvent(type, s, r) == [type |-> type, s |-> s, ord |-> r.count, at |-> r.at]
Created(s, r) == SessionEvent("created", s, r)
Updated(s, r) == SessionEvent("updated", s, r)
Appended(s, ord) == [type |-> "appended", s |-> s, ord |-> ord, at |-> 0]
Error(s) == [type |-> "error", s |-> s, ord |-> 0, at |-> 0]

Send(ev) ==
    /\ Len(log) - read < OutCap
    /\ log' = Append(log, ev)

(* The reader of the channel, SourceFeed's run.                            *)
Take ==
    /\ read < Len(log)
    /\ read' = read + 1
    /\ UNCHANGED <<dbVars, signal, adapter, log, cancelled, faults, known>>

-----------------------------------------------------------------------------
(* The adapter.                                                            *)

NewAdapter == [step |-> "new", previous |-> Empty, current |-> Empty,
               next |-> Empty, after |-> 0, id |-> 0, from |-> 0, batch |-> {},
               mark |-> 0]

Init ==
    /\ table = Empty
    /\ rows = [s \in Sessions |-> {}]
    /\ writer = NoWrite
    /\ clock = 0
    /\ signal = 0
    /\ adapter = NewAdapter
    /\ log = <<>>
    /\ read = 0
    /\ cancelled = FALSE
    /\ faults = MaxFaults
    /\ known = Empty

AdapterOnly == UNCHANGED <<dbVars, signal, outVars, cancelled, faults, known>>
Sends(ev) == Send(ev) /\ UNCHANGED <<dbVars, signal, read, cancelled, faults, known>>
Idle(previous) == [NewAdapter EXCEPT !.step = "idle", !.previous = previous,
                                     !.mark = adapter.mark]
Fault == faults > 0 /\ faults' = faults - 1

(* It subscribes to the signals first and then takes its first snapshot.   *)
(* What was emitted before may be held back by the rate limit until now.   *)
Watch ==
    /\ adapter.step = "new"
    /\ adapter' = [adapter EXCEPT !.step = "first page", !.after = clock + 1]
    /\ \/ signal' = 0 /\ UNCHANGED faults
       \/ signal' = 1 /\ clock > 0 /\ Fault
    /\ UNCHANGED <<dbVars, outVars, cancelled, known>>

(* Signals that came together may have been merged into one; otherwise     *)
(* others are behind it, in the buffer or held back by the rate limit.     *)
Receive ==
    /\ adapter.step = "idle"
    /\ signal > 0
    /\ signal' \in 0..(signal - 1)
    /\ adapter' = [adapter EXCEPT !.step = "page", !.current = Empty,
                                  !.after = clock + 1, !.mark = Len(log)]
    /\ UNCHANGED <<dbVars, outVars, cancelled, faults, known>>

(* One page of loadSessionSnapshot: the sessions after the cursor.         *)
Page == LET older == {s \in Sessions : table[s].at \in 1..(adapter.after - 1)}
        IN  {s \in older : Cardinality({t \in older : table[t].at > table[s].at})
                             < SessionLimit}
HasMore == \E s \in Sessions : \A t \in Page : table[s].at \in 1..(table[t].at - 1)
Loaded == [s \in Sessions |-> IF s \in Page THEN table[s] ELSE adapter.current[s]]

LoadPage ==
    /\ adapter.step \in {"page", "first page"}
    /\ adapter' =
         IF Page # {} /\ HasMore
         THEN [adapter EXCEPT !.current = Loaded,
                              !.after = Smallest({table[s].at : s \in Page})]
         ELSE IF adapter.step = "page"
         THEN [adapter EXCEPT !.step = "diff", !.current = Loaded, !.next = Empty,
                              !.id = 0]
         ELSE Idle(Loaded)
    /\ known' = IF adapter.step = "first page" /\ adapter'.step = "idle"
                THEN Loaded ELSE known
    /\ UNCHANGED <<dbVars, signal, outVars, cancelled, faults>>

(* A failed first snapshot fails the subscription; a later one is reported *)
(* and its signal is not tried again.                                      *)
LoadFails ==
    /\ Fault
    /\ \/ /\ adapter.step = "first page"
          /\ adapter' = [NewAdapter EXCEPT !.step = "done"]
          /\ UNCHANGED log
       \/ /\ adapter.step = "page"
          /\ Send(Error(0))
          /\ adapter' = Idle(adapter.previous)
    /\ UNCHANGED <<dbVars, signal, read, cancelled, known>>

(* advanceSnapshot visits the ids in order; adapter.id is the last visited.*)
Remaining == {s \in Sessions : s > adapter.id /\ Has(adapter.current, s)}

Keep(s, r) == [adapter EXCEPT !.step = "diff", !.id = s, !.next[s] = r]
EmitFrom(s, from) == [adapter EXCEPT !.step = "append", !.id = s, !.from = from]

VisitCreated(s, curr) ==
    /\ ~Has(adapter.previous, s)
    /\ Sends(Created(s, curr))
    /\ adapter' = EmitFrom(s, 0)

VisitUnchanged(s, curr) ==
    /\ adapter.previous[s] = curr
    /\ adapter' = Keep(s, curr)
    /\ AdapterOnly

VisitUpdated(s, curr) ==
    LET prev == adapter.previous[s] IN
    /\ Has(adapter.previous, s)
    /\ prev # curr
    /\ Sends(Updated(s, curr))
    /\ adapter' = IF curr.count > prev.count THEN EmitFrom(s, prev.count)
                                             ELSE Keep(s, curr)

Visit ==
    /\ adapter.step = "diff"
    /\ Remaining # {}
    /\ LET s == Smallest(Remaining)
           curr == adapter.current[s]
       IN  VisitCreated(s, curr) \/ VisitUnchanged(s, curr) \/ VisitUpdated(s, curr)

MutAdvance ==
    /\ adapter.step = "diff"
    /\ Remaining = {}
    /\ adapter' = Idle(adapter.next)
    /\ signal' = 0
    /\ UNCHANGED <<dbVars, outVars, cancelled, faults, known>>
Advance ==
    /\ adapter.step = "diff"
    /\ Remaining = {}
    /\ adapter' = Idle(adapter.next)
    /\ AdapterOnly

(* emitAppendedMessages, which takes message_count for an ordinal.  When   *)
(* the messages are not there yet the snapshot keeps what was delivered.   *)
Delivered(s) == [adapter.current[s] EXCEPT !.count = adapter.from]

MutGetMessages ==
    LET s == adapter.id
        curr == adapter.current[s]
        msgs == Window({o \in rows[s] : o >= adapter.from},
                       Smallest({MessageLimit, curr.count - adapter.from}))
    IN
    /\ adapter.step = "append"
    /\ adapter' = IF curr.count <= adapter.from \/ msgs = {} THEN Keep(s, curr)
                  ELSE [adapter EXCEPT !.step = "send", !.batch = msgs]
    /\ AdapterOnly
GetMessages ==
    LET s == adapter.id
        curr == adapter.current[s]
        msgs == Window({o \in rows[s] : o >= adapter.from},
                       Smallest({MessageLimit, curr.count - adapter.from}))
    IN
    /\ adapter.step = "append"
    /\ adapter' = IF curr.count <= adapter.from THEN Keep(s, curr)
                  ELSE IF msgs = {} THEN Keep(s, Delivered(s))
                  ELSE [adapter EXCEPT !.step = "send", !.batch = msgs]
    /\ AdapterOnly

GetMessagesFails ==
    /\ adapter.step = "append"
    /\ adapter.current[adapter.id].count > adapter.from
    /\ Fault
    /\ Send(Error(adapter.id))
    /\ adapter' = Keep(adapter.id, Delivered(adapter.id))
    /\ UNCHANGED <<dbVars, signal, read, cancelled, known>>

MutSendMessage ==
    LET ord == Smallest(adapter.batch) IN
    /\ adapter.step = "send"
    /\ Sends(Appended(adapter.id, ord))
    /\ adapter' = [adapter EXCEPT
                     !.from = ord, !.batch = @ \ {ord},
                     !.step = IF adapter.batch = {ord} THEN "append" ELSE "send"]
SendMessage ==
    LET ord == Smallest(adapter.batch) IN
    /\ adapter.step = "send"
    /\ Sends(Appended(adapter.id, ord))
    /\ adapter' = [adapter EXCEPT
                     !.from = ord + 1, !.batch = @ \ {ord},
                     !.step = IF adapter.batch = {ord} THEN "append" ELSE "send"]

(* The last client left or the server stops.                               *)
Cancel ==
    /\ adapter.step # "new"
    /\ ~cancelled
    /\ cancelled' = TRUE
    /\ UNCHANGED <<dbVars, signal, adapter, outVars, faults, known>>

Stop ==
    /\ cancelled
    /\ adapter.step # "done"
    /\ adapter' = [NewAdapter EXCEPT !.step = "done"]
    /\ AdapterOnly

-----------------------------------------------------------------------------
Writer == WriteMessages \/ UpdateSession \/ Emit
Adapter == Receive \/ LoadPage \/ Visit \/ Advance \/ GetMessages \/ SendMessage

Next ==
    \/ \E s \in Sessions : \E new \in NextOrdinals(s) :
          FullWrite(s, new) \/ IncrementalWrite(s, new)
    \/ Writer
    \/ Watch
    \/ Adapter
    \/ LoadFails
    \/ GetMessagesFails
    \/ Take
    \/ Cancel
    \/ Stop

(* A pass that began is finished, and the goroutines run on.               *)
Spec == Init /\ [][Next]_vars /\ WF_vars(Writer) /\ WF_vars(Adapter) /\ WF_vars(Take)

-----------------------------------------------------------------------------
Row == [count : Nat, at : Nat]
Event == [type : {"created", "updated", "appended", "error"},
          s : Sessions \cup {0}, ord : Nat, at : Nat]

(* Everything is well formed, and the channel never holds more than its    *)
(* capacity.                                                               *)
TypeOK ==
    /\ table \in [Sessions -> Row]
    /\ rows \in [Sessions -> SUBSET Nat]
    /\ writer \in [step : {"idle", "messages", "session", "emit"},
                   s : Sessions \cup {0}, new : SUBSET Nat]
    /\ clock \in Nat
    /\ signal \in Nat
    /\ adapter \in [step : {"new", "first page", "idle", "page", "diff", "append",
                            "send", "done"},
                    previous : [Sessions -> Row], current : [Sessions -> Row],
                    next : [Sessions -> Row], after : Nat,
                    id : Sessions \cup {0}, from : Nat, batch : SUBSET Nat,
                    mark : 0..Len(log)]
    /\ log \in Seq(Event)
    /\ read \in 0..Len(log)
    /\ Len(log) - read <= OutCap
    /\ cancelled \in BOOLEAN
    /\ faults \in Nat
    /\ known \in [Sessions -> Row]

Announced(s, o) == \E i \in DOMAIN log : log[i].type = "appended"
                                          /\ log[i].s = s /\ log[i].ord = o
(* The adapter takes a message_count for the next ordinal, so a message is *)
(* due once the count of its session has passed its ordinal, unless the    *)
(* count of the first snapshot had.  Of a session without gaps it owes all *)
(* messages beyond the first snapshot.                                     *)
Due(s) == {o \in rows[s] : known[s].count <= o /\ o < table[s].count}
Gap(s, o) == ~(0..(o - 1) \subseteq rows[s])
Failed(from) == \E i \in (from + 1)..Len(log) : log[i].type = "error"

(* The messages of a session are announced in order and once, from the     *)
(* last time the session was announced as new: neither the windows of      *)
(* emitAppendedMessages nor a refresh that was cut short repeats one.      *)
(* Behind a gap of its ordinals a message may come again, but only with a  *)
(* later refresh, which announces the session as updated first.            *)
AppendedInOrder ==
    \A i, j \in DOMAIN log :
        (/\ i < j
         /\ log[i].type = "appended" /\ log[j].type = "appended"
         /\ log[i].s = log[j].s
         /\ log[j].ord <= log[i].ord)
        => \E k \in i..j : /\ log[k].s = log[i].s
                          /\ \/ log[k].type = "created"
                             \/ log[k].type = "updated" /\ Gap(log[i].s, log[j].ord)

(* session.created is told once for a state of a session, and never for a  *)
(* state the first snapshot held: although a session that moves while the  *)
(* pages are read drops out of a snapshot, one that stays put never does,  *)
(* a failing refresh included.                                             *)
CreatedIsNews ==
    /\ \A i, j \in DOMAIN log :
          (log[i].type = "created" /\ log[j].type = "created" /\ i < j
             /\ log[i].s = log[j].s) => log[i].at < log[j].at
    /\ \A i \in DOMAIN log :
          log[i].type = "created" => known[log[i].s].at < log[i].at

(* What is told makes sense in the order it is told.                       *)
LogIsSound == AppendedInOrder /\ CreatedIsNews

(* Whenever no signal waits, no write is under way and the last refresh    *)
(* reported no error, the adapter has the table as it is and has announced *)
(* every message beyond its first snapshot: writes that land between two   *)
(* pages, or between a snapshot and its messages, were not lost.           *)
CaughtUp ==
    (adapter.step = "idle" /\ signal = 0 /\ writer.step = "idle" /\ ~Failed(adapter.mark))
    => /\ adapter.previous = table
       /\ \A s \in Sessions : \A o \in Due(s) : Announced(s, o)

(* A message stored while the adapter runs is announced, unless the feed   *)
(* stops or reports an error.                                              *)
EveryMessageIsAnnounced ==
    \A s \in Sessions : \A o \in Ordinals[s] :
        (o \in Due(s) /\ adapter.step \notin {"new", "first page", "done"})
        ~> (Announced(s, o) \/ Failed(0) \/ cancelled)

=============================================================================
