---------------------- MODULE ScopeEventAdapterProofs ----------------------
(***************************************************************************)
(* Safety of the event adapter, for every finite set of sessions, with and *)
(* without gaps in their ordinals, pages, message windows and a channel of *)
(* any size, and any number of writes and failing reads.                   *)
(***************************************************************************)
EXTENDS ScopeEventAdapter, FiniteSetTheorems, SequenceTheorems, WellFoundedInduction, TLAPS

-----------------------------------------------------------------------------
(* The database side of the inductive invariant.                           *)

N(s) == Cardinality(rows[s])

(* A row counts the messages of its session, with those that are about to  *)
(* be written and without those that were just written.                    *)
Counted(s) ==
    /\ IsFiniteSet(rows[s])
    /\ table[s].at <= clock
    /\ table[s].at = 0 => table[s].count = 0
    /\ writer.s # s \/ writer.step \in {"idle", "emit"} => table[s].count = N(s)

Writing ==
    /\ writer.step = "idle" => writer = NoWrite
    /\ writer.step # "idle" => writer.s \in Sessions /\ Has(table, writer.s)
    /\ writer.step = "messages" =>
          /\ IsFiniteSet(writer.new)
          /\ \A n \in writer.new : \A p \in rows[writer.s] : p < n
          /\ N(writer.s) <= table[writer.s].count
          /\ Cardinality(rows[writer.s] \cup writer.new) = table[writer.s].count
    /\ writer.step = "session" =>
          /\ IsFiniteSet(writer.new)
          /\ table[writer.s].count + Cardinality(writer.new) = N(writer.s)

(* A session grows behind its last message, so a hole in it stays one.     *)
Grows(s) ==
    /\ rows[s] \subseteq rows'[s]
    /\ \A n \in rows'[s] \ rows[s] : \A p \in rows[s] : p < n
Hole(s, g) == g \notin rows[s] /\ \E p \in rows[s] : g < p
HoleBelow(s, n) == \E g \in 0..(n - 1) : Hole(s, g)

-----------------------------------------------------------------------------
(* The adapter side, for one session.                                      *)

Paging == adapter.step \in {"first page", "page"}
Diffing == adapter.step \in {"diff", "append", "send"}
Sending(s) == adapter.step \in {"append", "send"} /\ adapter.id = s
Visited(s) == Diffing /\ (s < adapter.id \/ (s = adapter.id /\ adapter.step = "diff"))

(* What the adapter holds of a session: the snapshot it compares with, or  *)
(* the next one where it has been; and the ordinal it announces from.      *)
Base(s) == IF Visited(s) THEN adapter.next[s] ELSE adapter.previous[s]
Present(s) == Sending(s) \/ Base(s).at > 0
Floor(s) == IF Sending(s) THEN adapter.from ELSE Base(s).count

(* The snapshots are in the order they were taken, and behind the table.   *)
Snapshots(s) ==
    /\ adapter.previous[s].at <= table[s].at
    /\ adapter.previous[s].count <= table[s].count
    /\ adapter.current[s].at <= table[s].at
    /\ adapter.current[s].count <= table[s].count
    /\ adapter.next[s].at <= adapter.current[s].at
    /\ adapter.next[s].count <= adapter.current[s].count
    /\ (adapter.step = "page" \/ Diffing) /\ Has(adapter.current, s) =>
          adapter.previous[s].count <= adapter.current[s].count
    /\ Diffing =>
          IF Visited(s) /\ Has(adapter.current, s)
          THEN Has(adapter.next, s) ELSE adapter.next[s] = Missing

CreatedAt(i, s) == log[i].type = "created" /\ log[i].s = s
AppendedAt(i, s) == log[i].type = "appended" /\ log[i].s = s

(* No state of the session from the time "at" on was told or known.        *)
Newer(s, at) == known[s].at < at /\ \A i \in DOMAIN log : CreatedAt(i, s) => log[i].at < at

(* What was told and known of a session is not ahead of the table; what    *)
(* drops out of a snapshot has moved since.                                *)
Told(s) ==
    /\ known[s].at <= table[s].at
    /\ \A i \in DOMAIN log : CreatedAt(i, s) => log[i].at <= table[s].at
    /\ (Paging \/ adapter.step = "idle") /\ ~Has(adapter.previous, s) /\ Has(table, s) =>
          Newer(s, table[s].at)
    /\ Paging /\ Has(table, s) =>
          Has(adapter.current, s) \/ table[s].at < adapter.after \/ Newer(s, table[s].at)
    /\ (adapter.step = "page" \/ Diffing) /\ Has(adapter.current, s) /\ ~Has(adapter.previous, s)
          /\ ~Visited(s) /\ ~Sending(s) => Newer(s, adapter.current[s].at)
    /\ Diffing /\ ~Has(adapter.current, s) /\ Has(table, s) => Newer(s, table[s].at)

(* The messages announced since the session was told as new are below the  *)
(* floor, or the floor has fallen behind them at a hole; those below it    *)
(* that the first snapshot did not count are all among them; and no        *)
(* message will ever be stored below it.                                   *)
Retold(i, s) == \E k \in i..Len(log) : CreatedAt(k, s)
Below(s, floor) ==
    /\ \A i \in DOMAIN log :
          AppendedAt(i, s) =>
             \/ log[i].ord < floor
             \/ Retold(i, s)
             \/ \E g \in 0..floor : g < log[i].ord /\ Hole(s, g)
    /\ \A o \in rows[s] : known[s].count <= o /\ o < floor => Announced(s, o)
    /\ floor <= known[s].count \/ \E o \in rows[s] : floor <= o + 1
Ordered(s) == adapter.step # "done" /\ Present(s) => Below(s, Floor(s))

(* With no wake-up pending, what was read is what the table holds.         *)
Pending == signal > 0 \/ writer.step # "idle"
Current(s) ==
    ~Pending =>
       /\ Paging /\ Has(adapter.current, s) => adapter.current[s] = table[s]
       /\ Paging /\ Has(table, s) => Has(adapter.current, s) \/ table[s].at < adapter.after
       /\ Diffing => adapter.current[s] = table[s]
       /\ Visited(s) => adapter.next[s] = adapter.current[s] \/ Failed(adapter.mark)
       /\ adapter.step = "idle" => adapter.previous[s] = table[s] \/ Failed(adapter.mark)

Session(s) == Counted(s) /\ Snapshots(s) /\ Told(s) /\ Ordered(s) /\ Current(s)

(* The messages a refresh sends follow an event that tells the session.    *)
HeadAt(i, s) == log[i].type \in {"created", "updated"} /\ log[i].s = s
Headed(s, from) ==
    \A i \in DOMAIN log :
        AppendedAt(i, s) => log[i].ord < from \/ \E k \in i..Len(log) : HeadAt(k, s)

(* A window holds what is stored from its first message on, and reaches    *)
(* beyond the count only over a hole.                                      *)
Reading ==
    /\ adapter.step \in {"new", "first page"} =>
          log = <<>> /\ known = Empty /\ adapter.previous = Empty /\ adapter.mark = 0
    /\ adapter.step \in {"new", "idle"} => adapter.current = Empty
    /\ adapter.step \notin {"diff", "append", "send"} => adapter.next = Empty
    /\ adapter.step = "new" => signal = 0
    /\ Paging => adapter.after <= clock + 1
    /\ adapter.step \in {"append", "send"} =>
          /\ adapter.id \in Sessions
          /\ Has(adapter.current, adapter.id)
          /\ \/ adapter.from <= adapter.current[adapter.id].count
             \/ HoleBelow(adapter.id, adapter.current[adapter.id].count)
          /\ Headed(adapter.id, adapter.from)
    /\ adapter.step = "send" =>
          /\ adapter.batch # {}
          /\ \A o \in adapter.batch :
                /\ adapter.from <= o
                /\ o \in rows[adapter.id]
                /\ \/ o < adapter.current[adapter.id].count
                   \/ HoleBelow(adapter.id, adapter.current[adapter.id].count)
                /\ \A p \in rows[adapter.id] : adapter.from <= p /\ p <= o => p \in adapter.batch

(* Only stored messages are announced.                                     *)
Sound ==
    /\ LogIsSound
    /\ \A i \in DOMAIN log : log[i].type = "appended" =>
          log[i].s \in Sessions /\ log[i].ord \in rows[log[i].s]

IInv ==
    /\ TypeOK
    /\ Writing
    /\ Reading
    /\ Sound
    /\ \A s \in Sessions : Session(s)

-----------------------------------------------------------------------------
(* Numbers and windows.                                                    *)

LEMMA SmallestExists ==
    ASSUME NEW S \in SUBSET Nat, S # {}
    PROVE  Smallest(S) \in S /\ \A x \in S : Smallest(S) <= x
  <1>1. PICK m \in S : \A y \in S : ~(<<y, m>> \in OpToRel(<, Nat))
    BY WFMin, NatLessThanWellFounded
  <1>2. \A y \in S : ~(y < m)
    BY <1>1 DEF OpToRel
  <1>3. \A y \in S : m <= y
    BY <1>2
  <1>. QED BY <1>3 DEF Smallest

LEMMA TopExists ==
    ASSUME NEW S, S # {}, NEW f \in [S -> Nat], NEW b \in Nat, \A x \in S : f[x] <= b
    PROVE  \E x \in S : \A y \in S : f[y] <= f[x]
  <1> DEFINE T == {b - f[x] : x \in S}
  <1>1. T \subseteq Nat /\ T # {}
    <2>1. \A x \in S : b - f[x] \in Nat
      OBVIOUS
    <2>2. PICK x \in S : TRUE
      OBVIOUS
    <2>3. b - f[x] \in T
      OBVIOUS
    <2>. QED BY <2>1, <2>3
  <1>2. Smallest(T) \in T /\ \A u \in T : Smallest(T) <= u
    <2> HIDE DEF T
    <2>. QED BY <1>1, SmallestExists
  <1>3. PICK x \in S : Smallest(T) = b - f[x]
    BY <1>2
  <1>4. ASSUME NEW y \in S PROVE f[y] <= f[x]
    <2>1. b - f[y] \in T
      OBVIOUS
    <2>2. b - f[x] <= b - f[y]
      BY <1>2, <1>3, <2>1
    <2>. QED BY <2>2
  <1>. QED BY <1>4

LEMMA Interval ==
    ASSUME NEW n \in Nat
    PROVE  IsFiniteSet(0..(n - 1)) /\ Cardinality(0..(n - 1)) = n
  BY FS_Interval

(* A window holds the first members of a set, fewer than its size before   *)
(* each of them, and some if there are any.                                *)
LEMMA WindowFacts ==
    ASSUME NEW S \in SUBSET Nat, NEW k \in Nat, k # 0, IsFiniteSet(S)
    PROVE  /\ Window(S, k) \subseteq S
           /\ \A o \in Window(S, k) : Cardinality({y \in S : y < o}) < k
           /\ \A o \in Window(S, k), p \in S : p <= o => p \in Window(S, k)
           /\ S # {} => Window(S, k) # {}
  <1> DEFINE Under(x) == {y \in S : y < x}
  <1>1. Window(S, k) = {x \in S : Cardinality(Under(x)) < k}
    BY DEF Window
  <1>2. ASSUME NEW x \in Nat PROVE IsFiniteSet(Under(x)) /\ Cardinality(Under(x)) \in Nat
    <2>1. Under(x) \subseteq S
      OBVIOUS
    <2> HIDE DEF Under
    <2>2. IsFiniteSet(Under(x))
      BY <2>1, FS_Subset
    <2>. QED BY <2>2, FS_CardinalityType
  <1>3. ASSUME NEW o \in Window(S, k), NEW p \in S, p <= o PROVE p \in Window(S, k)
    <2>1. o \in S /\ o \in Nat /\ p \in Nat /\ Cardinality(Under(o)) < k
      BY <1>1
    <2>2. Under(p) \subseteq Under(o)
      <3>1. \A y \in S : y \in Nat /\ (y < p => y < o)
        BY <1>3, <2>1
      <3>. QED BY <3>1
    <2>3. Cardinality(Under(p)) <= Cardinality(Under(o))
      <3> HIDE DEF Under
      <3>. QED BY <1>2, <2>1, <2>2, FS_Subset
    <2>4. Cardinality(Under(p)) < k
      <3> HIDE DEF Under
      <3>. QED BY <1>2, <2>1, <2>3
    <2>. QED BY <1>1, <2>4
  <1>4. ASSUME S # {} PROVE Window(S, k) # {}
    <2>1. PICK m : m = Smallest(S)
      OBVIOUS
    <2>2. m \in S /\ \A x \in S : m <= x
      BY <1>4, <2>1, SmallestExists
    <2>3. Under(m) = {}
      <3>1. \A y \in S : y \in Nat /\ m \in Nat /\ ~(y < m)
        BY <2>2
      <3>. QED BY <3>1
    <2>4. Cardinality(Under(m)) = 0
      BY <2>3, FS_EmptySet
    <2>. QED BY <1>1, <2>2, <2>4
  <1>. QED BY <1>1, <1>3, <1>4

-----------------------------------------------------------------------------
(* Records.                                                                *)

Steps == {"new", "first page", "idle", "page", "diff", "append", "send", "done"}
Adapters == [step : Steps, previous : [Sessions -> Row], current : [Sessions -> Row],
             next : [Sessions -> Row], after : Nat, id : Sessions \cup {0},
             from : Nat, batch : SUBSET Nat, mark : Nat]

LEMMA MissingFacts ==
    /\ Missing \in Row /\ Missing.count = 0 /\ Missing.at = 0
    /\ Empty \in [Sessions -> Row] /\ \A s \in Sessions : Empty[s] = Missing
  BY DEF Missing, Row, Empty

LEMMA NoWriteFacts ==
    NoWrite.step = "idle" /\ NoWrite.s = 0
    /\ NoWrite \in [step : {"idle", "messages", "session", "emit"}, s : Sessions \cup {0}, new : SUBSET Nat]
  BY DEF NoWrite

LEMMA NewAdapterFacts ==
    /\ NewAdapter \in Adapters
    /\ NewAdapter.step = "new" /\ NewAdapter.previous = Empty /\ NewAdapter.current = Empty
    /\ NewAdapter.next = Empty /\ NewAdapter.after = 0 /\ NewAdapter.id = 0
    /\ NewAdapter.from = 0 /\ NewAdapter.batch = {} /\ NewAdapter.mark = 0
  BY MissingFacts DEF NewAdapter, Adapters, Steps

LEMMA IdleFacts ==
    ASSUME NEW p \in [Sessions -> Row], adapter \in Adapters
    PROVE  /\ Idle(p) \in Adapters
           /\ Idle(p).step = "idle" /\ Idle(p).previous = p /\ Idle(p).mark = adapter.mark
           /\ Idle(p).current = Empty /\ Idle(p).next = Empty /\ Idle(p).id = 0
           /\ Idle(p).batch = {}
  BY NewAdapterFacts DEF Idle, Adapters, Steps

LEMMA Typed ==
    ASSUME TypeOK
    PROVE  /\ table \in [Sessions -> Row] /\ rows \in [Sessions -> SUBSET Nat] /\ clock \in Nat
           /\ adapter \in Adapters /\ log \in Seq(Event) /\ Len(log) \in Nat /\ read \in Nat
           /\ DOMAIN log = 1..Len(log) /\ known \in [Sessions -> Row] /\ adapter.mark <= Len(log)
           /\ signal \in Nat /\ adapter.from \in Nat /\ adapter.after \in Nat /\ adapter.batch \in SUBSET Nat
           /\ adapter.previous \in [Sessions -> Row] /\ adapter.current \in [Sessions -> Row]
           /\ adapter.next \in [Sessions -> Row] /\ adapter.id \in Nat /\ adapter.mark \in Nat
           /\ \A s \in Sessions :
                 /\ s \in Nat /\ s # 0
                 /\ table[s] \in Row /\ table[s].at \in Nat /\ table[s].count \in Nat
                 /\ adapter.previous[s] \in Row /\ adapter.current[s] \in Row /\ adapter.next[s] \in Row
                 /\ adapter.previous[s].at \in Nat /\ adapter.previous[s].count \in Nat
                 /\ adapter.current[s].at \in Nat /\ adapter.current[s].count \in Nat
                 /\ adapter.next[s].at \in Nat /\ adapter.next[s].count \in Nat
                 /\ known[s].at \in Nat /\ known[s].count \in Nat
           /\ \A i \in DOMAIN log : log[i] \in Event /\ log[i].at \in Nat /\ log[i].ord \in Nat
  <1>1. Sessions \subseteq Nat \ {0}
    BY AdapterAssumption
  <1>2. log \in Seq(Event) /\ Len(log) \in Nat /\ DOMAIN log = 1..Len(log)
        /\ \A i \in DOMAIN log : log[i] \in Event
    <2>1. log \in Seq(Event)
      BY DEF TypeOK
    <2>2. Len(log) \in Nat /\ DOMAIN log = 1..Len(log)
      BY <2>1, LenProperties
    <2>. QED BY <2>1, <2>2, ElementOfSeq
  <1>3. \A i \in DOMAIN log : log[i].at \in Nat /\ log[i].ord \in Nat
    BY <1>2 DEF Event
  <1>4. adapter \in Adapters /\ adapter.mark \in 0..Len(log) /\ read \in Nat
    <2>1. 0..Len(log) \subseteq Nat
      BY <1>2
    <2>2. adapter.mark \in 0..Len(log) /\ read \in 0..Len(log)
      BY DEF TypeOK
    <2>. QED BY <2>1, <2>2 DEF TypeOK, Adapters, Steps
  <1>5. /\ adapter.previous \in [Sessions -> Row] /\ adapter.current \in [Sessions -> Row]
        /\ adapter.next \in [Sessions -> Row] /\ table \in [Sessions -> Row] /\ known \in [Sessions -> Row]
        /\ rows \in [Sessions -> SUBSET Nat] /\ clock \in Nat /\ adapter.mark \in Nat
        /\ adapter.from \in Nat /\ adapter.after \in Nat /\ adapter.batch \in SUBSET Nat /\ adapter.id \in Nat
    <2>1. table \in [Sessions -> Row] /\ known \in [Sessions -> Row]
          /\ rows \in [Sessions -> SUBSET Nat] /\ clock \in Nat
      BY DEF TypeOK
    <2>2. /\ adapter.previous \in [Sessions -> Row] /\ adapter.current \in [Sessions -> Row]
          /\ adapter.next \in [Sessions -> Row] /\ adapter.from \in Nat /\ adapter.after \in Nat
          /\ adapter.batch \in SUBSET Nat /\ adapter.mark \in Nat
      BY <1>4 DEF Adapters
    <2>3. adapter.id \in Nat
      <3>1. adapter.id \in Sessions \cup {0}
        BY <1>4 DEF Adapters
      <3>2. CASE adapter.id \in Sessions
        BY <1>1, <3>2
      <3>3. CASE adapter.id = 0
        BY <3>3
      <3>. QED BY <3>1, <3>2, <3>3
    <2>. QED BY <2>1, <2>2, <2>3
  <1>6. ASSUME NEW s \in Sessions
        PROVE  /\ table[s] \in Row /\ adapter.previous[s] \in Row /\ adapter.current[s] \in Row
               /\ adapter.next[s] \in Row /\ known[s] \in Row
    BY <1>5
  <1>7. \A r \in Row : r.at \in Nat /\ r.count \in Nat
    BY DEF Row
  <1>8. signal \in Nat
    BY DEF TypeOK
  <1>. QED BY <1>1, <1>2, <1>3, <1>4, <1>5, <1>6, <1>7, <1>8

-----------------------------------------------------------------------------
(* The sync engine.  What it writes is newer than all that was read of it. *)

LEMMA At ==
    ASSUME IInv, NEW t \in Sessions
    PROVE  /\ t \in Nat /\ t # 0 /\ clock \in Nat /\ N(t) \in Nat /\ adapter.after \in Nat /\ adapter.id \in Nat
           /\ table[t] \in Row /\ table[t].at \in Nat /\ table[t].count \in Nat
           /\ adapter.previous[t].at \in Nat /\ adapter.previous[t].count \in Nat
           /\ adapter.current[t].at \in Nat /\ adapter.current[t].count \in Nat
           /\ adapter.next[t].at \in Nat /\ adapter.next[t].count \in Nat
           /\ known[t].at \in Nat /\ known[t].count \in Nat
           /\ \A i \in DOMAIN log : log[i].at \in Nat /\ log[i].ord \in Nat
           /\ Counted(t) /\ Snapshots(t) /\ Told(t) /\ Ordered(t) /\ Current(t)
           /\ table[t].at <= clock /\ known[t].at <= table[t].at /\ known[t].at <= clock
           /\ \A i \in DOMAIN log : CreatedAt(i, t) => log[i].at <= table[t].at
           /\ \A i \in DOMAIN log : CreatedAt(i, t) => log[i].at <= clock
  <1>1. TypeOK /\ Session(t)
    BY DEF IInv
  <1>2. Counted(t) /\ Snapshots(t) /\ Told(t) /\ Ordered(t) /\ Current(t)
    BY <1>1 DEF Session
  <1>3. /\ t \in Nat /\ t # 0 /\ clock \in Nat /\ adapter.after \in Nat /\ adapter.id \in Nat
        /\ table[t] \in Row /\ table[t].at \in Nat /\ table[t].count \in Nat
        /\ adapter.previous[t].at \in Nat /\ adapter.previous[t].count \in Nat
        /\ adapter.current[t].at \in Nat /\ adapter.current[t].count \in Nat
        /\ adapter.next[t].at \in Nat /\ adapter.next[t].count \in Nat
        /\ known[t].at \in Nat /\ known[t].count \in Nat
        /\ \A i \in DOMAIN log : log[i].at \in Nat /\ log[i].ord \in Nat
    BY <1>1, Typed
  <1>4. N(t) \in Nat
    BY <1>2, FS_CardinalityType DEF Counted, N
  <1>5. table[t].at <= clock
    BY <1>2 DEF Counted
  <1>6. known[t].at <= table[t].at /\ \A i \in DOMAIN log : CreatedAt(i, t) => log[i].at <= table[t].at
    BY <1>2 DEF Told
  <1>7. known[t].at <= clock /\ \A i \in DOMAIN log : CreatedAt(i, t) => log[i].at <= clock
    BY <1>3, <1>5, <1>6
  <1>. QED BY <1>2, <1>3, <1>4, <1>5, <1>6, <1>7

LEMMA NewerThan ==
    ASSUME IInv, NEW t \in Sessions, UNCHANGED <<log, known>>, NEW at \in Nat, clock < at
    PROVE  Newer(t, at)'
  <1>1. known[t].at < at
    BY At
  <1>2. \A i \in DOMAIN log : CreatedAt(i, t) => log[i].at < at
    BY At
  <1>. QED BY <1>1, <1>2 DEF Newer, CreatedAt

LEMMA HoleStays ==
    ASSUME TypeOK, TypeOK', NEW t \in Sessions, Grows(t)
    PROVE  /\ \A g \in Nat : Hole(t, g) => Hole(t, g)'
           /\ \A n \in Nat : HoleBelow(t, n) => HoleBelow(t, n)'
  <1>1. rows[t] \in SUBSET Nat /\ rows'[t] \in SUBSET Nat
    BY DEF TypeOK
  <1>2. ASSUME NEW g \in Nat, Hole(t, g) PROVE Hole(t, g)'
    <2>1. PICK p \in rows[t] : g < p
      BY <1>2 DEF Hole
    <2>2. p \in rows'[t]
      BY DEF Grows
    <2>3. g \notin rows'[t]
      BY <1>1, <1>2, <2>1 DEF Grows, Hole
    <2>. QED BY <2>1, <2>2, <2>3 DEF Hole
  <1>3. ASSUME NEW n \in Nat, HoleBelow(t, n) PROVE HoleBelow(t, n)'
    <2>1. PICK g \in 0..(n - 1) : Hole(t, g)
      BY <1>3 DEF HoleBelow
    <2>. QED BY <1>2, <2>1 DEF HoleBelow
  <1>. QED BY <1>2, <1>3

LEMMA BelowGrows ==
    ASSUME TypeOK, TypeOK', UNCHANGED <<log, known>>, NEW t \in Sessions, Grows(t), NEW floor \in Nat, Below(t, floor)
    PROVE  Below(t, floor)'
  <1>1. /\ rows[t] \subseteq Nat /\ rows'[t] \subseteq Nat /\ known[t].count \in Nat /\ known' = known /\ log' = log
        /\ rows[t] \subseteq rows'[t] /\ \A n \in rows'[t] \ rows[t] : \A p \in rows[t] : p < n
    <2>1. rows[t] \in SUBSET Nat /\ known[t].count \in Nat
      BY Typed
    <2>2. rows'[t] \in SUBSET Nat
      BY DEF TypeOK
    <2>. QED BY <2>1, <2>2 DEF Grows
  <1>2. ASSUME NEW i \in DOMAIN log', AppendedAt(i, t)'
        PROVE  \/ log'[i].ord < floor
               \/ Retold(i, t)'
               \/ \E g \in 0..floor : g < log'[i].ord /\ Hole(t, g)'
    <2>1. i \in DOMAIN log /\ AppendedAt(i, t)
      BY <1>1, <1>2 DEF AppendedAt
    <2>2. Retold(i, t)' = Retold(i, t)
      BY <1>1 DEF Retold, CreatedAt
    <2>3. ASSUME NEW g \in 0..floor, Hole(t, g) PROVE Hole(t, g)'
      BY <2>3, HoleStays
    <2>. QED BY <1>1, <2>1, <2>2, <2>3 DEF Below
  <1>3. ASSUME NEW o \in rows'[t], known'[t].count <= o, o < floor PROVE Announced(t, o)'
    <2>1. o \in rows[t]
      <3> SUFFICES ASSUME o \notin rows[t] PROVE FALSE
        OBVIOUS
      <3>1. floor <= known[t].count \/ \E p \in rows[t] : floor <= p + 1
        BY DEF Below
      <3>. QED BY <1>1, <1>3, <3>1
    <2>2. Announced(t, o)
      BY <1>1, <1>3, <2>1 DEF Below
    <2>. QED BY <1>1, <2>2 DEF Announced
  <1>4. floor <= known'[t].count \/ \E o \in rows'[t] : floor <= o + 1
    BY <1>1 DEF Below
  <1>. QED BY <1>2, <1>3, <1>4 DEF Below

LEMMA TableGrows ==
    ASSUME IInv, TypeOK', UNCHANGED <<adapter, log, known>>, NEW t \in Sessions, Grows(t),
           \/ table'[t] = table[t]
           \/ /\ table'[t].at = clock + 1 /\ table'[t].count \in Nat
              /\ table[t].count <= table'[t].count,
           Pending' \/ adapter.step = "new"
    PROVE  Snapshots(t)' /\ Told(t)' /\ Ordered(t)' /\ Current(t)'
  <1>1. /\ Snapshots(t) /\ Told(t) /\ Ordered(t) /\ clock \in Nat
        /\ table[t].at \in Nat /\ table[t].count \in Nat /\ table[t].at <= clock
        /\ adapter.previous[t].at \in Nat /\ adapter.current[t].at \in Nat
        /\ adapter.previous[t].count \in Nat /\ adapter.current[t].count \in Nat
    BY At
  <1>2. Snapshots(t)'
    <2>1. table[t].at <= table'[t].at /\ table[t].count <= table'[t].count
          /\ table'[t].at \in Nat /\ table'[t].count \in Nat
      BY <1>1
    <2>2. /\ adapter.previous[t].at <= table[t].at /\ adapter.previous[t].count <= table[t].count
          /\ adapter.current[t].at <= table[t].at /\ adapter.current[t].count <= table[t].count
      BY <1>1 DEF Snapshots
    <2>3. /\ adapter.previous[t].at <= table'[t].at /\ adapter.previous[t].count <= table'[t].count
          /\ adapter.current[t].at <= table'[t].at /\ adapter.current[t].count <= table'[t].count
      BY <1>1, <2>1, <2>2
    <2>. QED BY <1>1, <2>3 DEF Snapshots, Diffing, Visited, Has
  <1>3. Told(t)'
    <2>1. CASE table'[t] = table[t]
      BY <1>1, <2>1 DEF Told, Newer, CreatedAt, Has, Paging, Diffing, Visited, Sending
    <2>2. CASE table'[t].at = clock + 1
      <3>1. \A at \in Nat : clock < at => Newer(t, at)'
        BY NewerThan
      <3>2. known[t].at <= clock + 1
        BY At
      <3>3. \A i \in DOMAIN log : CreatedAt(i, t) => log[i].at <= clock + 1
        BY At
      <3>4. Newer(t, adapter.current[t].at)' <=> Newer(t, adapter.current[t].at)
        BY DEF Newer, CreatedAt
      <3>5. Newer(t, table[t].at)'
        <4>1. table'[t].at \in Nat /\ clock < table'[t].at
          BY <1>1, <2>2
        <4>. QED BY <3>1, <4>1
      <3>6. (adapter.step = "page" \/ Diffing) /\ Has(adapter.current, t) /\ ~Has(adapter.previous, t)
              /\ ~Visited(t) /\ ~Sending(t) => Newer(t, adapter.current[t].at)'
        BY <1>1, <3>4 DEF Told
      <3>7. (known[t].at <= table[t].at)' /\ (\A i \in DOMAIN log : CreatedAt(i, t) => log[i].at <= table[t].at)'
        BY <2>2, <3>2, <3>3 DEF CreatedAt
      <3>. QED BY <3>5, <3>6, <3>7 DEF Told, Has, Paging, Diffing, Visited, Sending
    <2>. QED BY <2>1, <2>2
  <1>4. Ordered(t)'
    <2>1. Present(t)' = Present(t) /\ Floor(t)' = Floor(t) /\ Floor(t) \in Nat
      <3>1. adapter.from \in Nat /\ Base(t).count \in Nat
        BY Typed DEF IInv, Base
      <3>. QED BY <3>1 DEF Present, Floor, Base, Visited, Diffing, Sending
    <2>2. Below(t, Floor(t)) => Below(t, Floor(t))'
      <3>1. PICK f \in Nat : f = Floor(t)
        BY <2>1
      <3>2. Below(t, f) => Below(t, f)'
        BY BelowGrows DEF IInv
      <3>. QED BY <2>1, <3>1, <3>2
    <2>. QED BY <1>1, <2>1, <2>2 DEF Ordered
  <1>5. Current(t)'
    <2>1. CASE Pending'
      BY <2>1 DEF Current
    <2>2. CASE adapter.step = "new"
      BY <2>2 DEF Current, Paging, Diffing, Visited
    <2>. QED BY <2>1, <2>2
  <1>. QED BY <1>2, <1>3, <1>4, <1>5

(* A gap below a stored message is not filled either.                      *)
LEMMA GapStays ==
    ASSUME TypeOK, TypeOK', \A t \in Sessions : Grows(t),
           UNCHANGED log, Sound, NEW i \in DOMAIN log, NEW j \in DOMAIN log,
           log[j].type = "appended", log[i].s = log[j].s, Gap(log[i].s, log[j].ord)
    PROVE  Gap(log[i].s, log[j].ord)'
  <1>1. PICK t \in Sessions, o \in Nat : t = log[i].s /\ o = log[j].ord /\ o \in rows[t]
    BY Typed DEF Sound
  <1>2. PICK g \in 0..(o - 1) : g \notin rows[t]
    BY <1>1 DEF Gap
  <1>3. g < o
    OBVIOUS
  <1>4. g \notin rows'[t]
    BY <1>1, <1>2, <1>3 DEF Grows
  <1>5. log'[i].s = t /\ log'[j].ord = o
    BY <1>1
  <1>6. ~(0..(o - 1) \subseteq rows'[t])
    BY <1>4
  <1>. QED BY <1>5, <1>6 DEF Gap

LEMMA DbInv ==
    ASSUME IInv, TypeOK', UNCHANGED <<adapter, log, known>>, clock <= clock',
           \A t \in Sessions :
              /\ \/ table'[t] = table[t]
                 \/ /\ table'[t].at = clock + 1 /\ table'[t].count \in Nat
                    /\ table[t].count <= table'[t].count
              /\ Counted(t)'
              /\ Grows(t),
           Writing', Pending' \/ adapter.step = "new", adapter.step = "new" => signal' = 0
    PROVE  IInv'
  <1>1. Reading'
    <2>1. clock \in Nat /\ clock' \in Nat /\ adapter.after \in Nat
      BY Typed DEF IInv, TypeOK
    <2>2. Reading
      BY DEF IInv
    <2>3. Paging => adapter.after <= clock' + 1
      <3>1. Paging => adapter.after <= clock + 1
        BY <2>2 DEF Reading
      <3>. QED BY <2>1, <3>1
    <2>4. adapter.step \in {"new", "first page"} =>
             log = <<>> /\ known = Empty /\ adapter.previous = Empty /\ adapter.mark = 0
      BY <2>2 DEF Reading
    <2>5. /\ adapter.step \in {"new", "idle"} => adapter.current = Empty
          /\ adapter.step \notin {"diff", "append", "send"} => adapter.next = Empty
      BY <2>2 DEF Reading
    <2>6. adapter.step \in {"append", "send"} =>
             /\ adapter.id \in Sessions
             /\ Has(adapter.current, adapter.id)
             /\ \/ adapter.from <= adapter.current[adapter.id].count
                \/ HoleBelow(adapter.id, adapter.current[adapter.id].count)'
             /\ Headed(adapter.id, adapter.from)'
      <3> SUFFICES ASSUME adapter.step \in {"append", "send"}
                   PROVE  /\ adapter.id \in Sessions
                          /\ Has(adapter.current, adapter.id)
                          /\ \/ adapter.from <= adapter.current[adapter.id].count
                             \/ HoleBelow(adapter.id, adapter.current[adapter.id].count)'
                          /\ Headed(adapter.id, adapter.from)'
        OBVIOUS
      <3>1. /\ adapter.id \in Sessions /\ Has(adapter.current, adapter.id) /\ Headed(adapter.id, adapter.from)
            /\ \/ adapter.from <= adapter.current[adapter.id].count
               \/ HoleBelow(adapter.id, adapter.current[adapter.id].count)
        BY <2>2 DEF Reading
      <3>2. PICK c \in Nat : c = adapter.current[adapter.id].count
        BY <3>1, Typed DEF IInv
      <3>3. HoleBelow(adapter.id, c) => HoleBelow(adapter.id, c)'
        BY <3>1, HoleStays DEF IInv
      <3>4. Headed(adapter.id, adapter.from)'
        BY <3>1 DEF Headed, AppendedAt, HeadAt
      <3>. QED BY <3>1, <3>2, <3>3, <3>4
    <2>7. adapter.step = "send" =>
             /\ adapter.batch # {}
             /\ \A o \in adapter.batch :
                   /\ adapter.from <= o
                   /\ o \in rows'[adapter.id]
                   /\ \/ o < adapter.current[adapter.id].count
                      \/ HoleBelow(adapter.id, adapter.current[adapter.id].count)'
                   /\ \A p \in rows'[adapter.id] : adapter.from <= p /\ p <= o => p \in adapter.batch
      <3> SUFFICES ASSUME adapter.step = "send", NEW o \in adapter.batch
                   PROVE  /\ adapter.from <= o
                          /\ o \in rows'[adapter.id]
                          /\ \/ o < adapter.current[adapter.id].count
                             \/ HoleBelow(adapter.id, adapter.current[adapter.id].count)'
                          /\ \A p \in rows'[adapter.id] : adapter.from <= p /\ p <= o => p \in adapter.batch
        BY <2>2 DEF Reading
      <3>1. /\ adapter.id \in Sessions /\ adapter.from <= o /\ o \in rows[adapter.id]
            /\ \/ o < adapter.current[adapter.id].count
               \/ HoleBelow(adapter.id, adapter.current[adapter.id].count)
            /\ \A p \in rows[adapter.id] : adapter.from <= p /\ p <= o => p \in adapter.batch
        BY <2>2 DEF Reading
      <3>2. PICK c \in Nat : c = adapter.current[adapter.id].count
        BY <3>1, Typed DEF IInv
      <3>3. HoleBelow(adapter.id, c) => HoleBelow(adapter.id, c)'
        BY <3>1, HoleStays DEF IInv
      <3>4. /\ rows[adapter.id] \subseteq rows'[adapter.id]
            /\ \A n \in rows'[adapter.id] \ rows[adapter.id] : o < n
        BY <3>1 DEF Grows
      <3>5. rows'[adapter.id] \in SUBSET Nat /\ o \in Nat
        BY <3>1, <3>4 DEF TypeOK
      <3>6. ASSUME NEW q \in rows'[adapter.id], adapter.from <= q, q <= o PROVE q \in adapter.batch
        <4>1. q \in rows[adapter.id]
          BY <3>4, <3>5, <3>6
        <4>. QED BY <3>1, <3>6, <4>1
      <3>. QED BY <3>1, <3>2, <3>3, <3>4, <3>6
    <2>. QED BY <2>2, <2>3, <2>4, <2>5, <2>6, <2>7 DEF Reading, Paging, Has
  <1>2. Sound'
    <2>1. LogIsSound /\ CreatedIsNews
      BY DEF IInv, Sound, LogIsSound
    <2>2. ASSUME NEW i \in DOMAIN log', log'[i].type = "appended"
          PROVE  log'[i].s \in Sessions /\ log'[i].ord \in rows'[log'[i].s]
      <3>1. log[i].s \in Sessions /\ log[i].ord \in rows[log[i].s]
        BY <2>2 DEF IInv, Sound
      <3>. QED BY <3>1 DEF Grows
    <2>3. AppendedInOrder'
      <3> SUFFICES ASSUME NEW i \in DOMAIN log, NEW j \in DOMAIN log, i < j,
                          log[i].type = "appended", log[j].type = "appended", log[i].s = log[j].s,
                          log[j].ord <= log[i].ord
                   PROVE  \E k \in i..j : /\ log[k].s = log[i].s
                                          /\ \/ log[k].type = "created"
                                             \/ log[k].type = "updated" /\ Gap(log[i].s, log[j].ord)'
        BY DEF AppendedInOrder, Gap
      <3>1. PICK k \in i..j : /\ log[k].s = log[i].s
                             /\ \/ log[k].type = "created"
                                \/ log[k].type = "updated" /\ Gap(log[i].s, log[j].ord)
        BY <2>1 DEF LogIsSound, AppendedInOrder
      <3>2. Gap(log[i].s, log[j].ord) => Gap(log[i].s, log[j].ord)'
        BY GapStays DEF IInv
      <3>. QED BY <3>1, <3>2
    <2>4. CreatedIsNews'
      BY <2>1 DEF CreatedIsNews
    <2>. QED BY <2>2, <2>3, <2>4 DEF Sound, LogIsSound
  <1>3. ASSUME NEW t \in Sessions PROVE Session(t)'
    BY TableGrows DEF Session
  <1>. QED BY <1>1, <1>2, <1>3 DEF IInv

(* The ordinals a pass adds follow those that are there.                   *)
LEMMA NextMessages ==
    ASSUME IInv, NEW s \in Sessions, NEW new \in NextOrdinals(s)
    PROVE  /\ IsFiniteSet(new) /\ new \subseteq Nat /\ Cardinality(new) \in Nat /\ N(s) \in Nat
           /\ \A n \in new : \A p \in rows[s] : p < n
           /\ IsFiniteSet(rows[s] \cup new)
           /\ Cardinality(rows[s] \cup new) = N(s) + Cardinality(new)
  <1>1. /\ IsFiniteSet(rows[s]) /\ rows[s] \in SUBSET Nat /\ Ordinals[s] \in SUBSET Nat
        /\ IsFiniteSet(Ordinals[s]) /\ N(s) \in Nat
    BY At, Typed, AdapterAssumption DEF IInv, Counted
  <1>2. new \subseteq Later(s)
    BY DEF NextOrdinals, Window
  <1>3. new \subseteq Ordinals[s] /\ \A n \in new : \A p \in rows[s] : p < n
    BY <1>2 DEF Later
  <1>4. IsFiniteSet(new) /\ Cardinality(new) \in Nat /\ new \subseteq Nat
    BY <1>1, <1>3, FS_Subset, FS_CardinalityType
  <1>5. rows[s] \cap new = {}
    BY <1>1, <1>3
  <1>6. IsFiniteSet(rows[s] \cup new) /\ Cardinality(rows[s] \cup new) = Cardinality(rows[s]) + Cardinality(new)
    <2>1. IsFiniteSet(rows[s] \cup new)
          /\ Cardinality(rows[s] \cup new)
               = Cardinality(rows[s]) + Cardinality(new) - Cardinality(rows[s] \cap new)
      BY <1>1, <1>4, FS_Union
    <2>2. Cardinality(rows[s] \cap new) = 0
      BY <1>5, FS_EmptySet
    <2>. QED BY <1>1, <1>4, <2>1, <2>2, FS_CardinalityType
  <1>. QED BY <1>1, <1>3, <1>4, <1>6 DEF N

LEMMA WriterFacts ==
    ASSUME TypeOK
    PROVE  /\ writer \in [step : {"idle", "messages", "session", "emit"}, s : Sessions \cup {0}, new : SUBSET Nat]
           /\ writer.new \in SUBSET Nat
  BY DEF TypeOK

LEMMA FullWriteInv ==
    ASSUME IInv, NEW s \in Sessions, NEW new \in NextOrdinals(s), FullWrite(s, new)
    PROVE  IInv'
  <1> DEFINE c == Cardinality(rows[s] \cup new)
  <1>1. /\ TypeOK /\ writer.step = "idle" /\ UNCHANGED <<rows, signal, adapter, log, read, cancelled, faults, known>>
        /\ writer' = [step |-> "messages", s |-> s, new |-> new] /\ clock' = clock + 1
        /\ table' = [table EXCEPT ![s] = [count |-> c, at |-> clock + 1]]
    BY DEF FullWrite, Begin, IInv, outVars
  <1>2. /\ IsFiniteSet(new) /\ new \subseteq Nat /\ c \in Nat /\ N(s) <= c
        /\ \A n \in new : \A p \in rows[s] : p < n
    <2>1. /\ IsFiniteSet(new) /\ new \subseteq Nat /\ Cardinality(new) \in Nat /\ N(s) \in Nat
          /\ \A n \in new : \A p \in rows[s] : p < n
          /\ c = N(s) + Cardinality(new)
      BY NextMessages
    <2> HIDE DEF c
    <2>. QED BY <2>1
  <1> HIDE DEF c
  <1>3. /\ table'[s] = [count |-> c, at |-> clock + 1] /\ table'[s] \in Row /\ table'[s].count = c
        /\ table'[s].at = clock + 1 /\ clock \in Nat /\ clock + 1 \in Nat
        /\ \A t \in Sessions : t # s => table'[t] = table[t]
    <2>1. table \in [Sessions -> Row] /\ clock \in Nat
      BY <1>1, Typed
    <2>2. table'[s] = [count |-> c, at |-> clock + 1] /\ \A t \in Sessions : t # s => table'[t] = table[t]
      BY <1>1, <2>1
    <2>3. clock + 1 \in Nat
      BY <2>1
    <2>. QED BY <1>2, <2>1, <2>2, <2>3 DEF Row
  <1>4. TypeOK'
    <2>1. table' \in [Sessions -> Row]
      BY <1>1, <1>3, Typed
    <2>2. writer' \in [step : {"idle", "messages", "session", "emit"}, s : Sessions \cup {0}, new : SUBSET Nat]
      BY <1>1, <1>2
    <2>3. clock' \in Nat
      BY <1>1, <1>3
    <2>. QED BY <1>1, <2>1, <2>2, <2>3 DEF TypeOK
  <1>5. \A t \in Sessions : N(t)' = N(t)
    BY <1>1 DEF N
  <1>6. table[s].count = N(s)
    BY <1>1, At DEF Counted
  <1>7. ASSUME NEW t \in Sessions
        PROVE  /\ \/ table'[t] = table[t]
                  \/ /\ table'[t].at = clock + 1 /\ table'[t].count \in Nat
                     /\ table[t].count <= table'[t].count
               /\ Counted(t)'
               /\ Grows(t)
    <2>1. /\ Counted(t) /\ table[t].at \in Nat /\ clock \in Nat /\ table[t].at <= clock
      BY At
    <2>2. CASE t = s
      BY <1>1, <1>2, <1>3, <1>5, <1>6, <2>1, <2>2 DEF Counted, Grows
    <2>3. CASE t # s
      <3>1. table'[t] = table[t] /\ table[t].at <= clock + 1
        BY <1>3, <2>1, <2>3
      <3>2. table[t].count = N(t)
        BY <1>1, <2>1 DEF Counted
      <3>. QED BY <1>1, <1>5, <2>1, <3>1, <3>2 DEF Counted, Grows
    <2>. QED BY <2>2, <2>3
  <1>8. Writing'
    <2>1. writer'.step = "messages" /\ writer'.s = s /\ writer'.new = new
      BY <1>1
    <2>2. table'[s].at > 0
      BY <1>3
    <2>3. Cardinality(rows[s] \cup new) = c
      BY DEF c
    <2>. QED BY <1>1, <1>2, <1>3, <1>5, <2>1, <2>2, <2>3 DEF Writing, Has
  <1>9. clock <= clock' /\ Pending' /\ (adapter.step = "new" => signal' = 0)
    <2>1. clock <= clock'
      BY <1>1, <1>3
    <2>2. Pending'
      BY <1>1 DEF Pending
    <2>3. adapter.step = "new" => signal' = 0
      BY <1>1 DEF IInv, Reading
    <2>. QED BY <2>1, <2>2, <2>3
  <1>. QED BY <1>1, <1>4, <1>7, <1>8, <1>9, DbInv

LEMMA IncrementalWriteInv ==
    ASSUME IInv, NEW s \in Sessions, NEW new \in NextOrdinals(s), IncrementalWrite(s, new)
    PROVE  IInv'
  <1>1. /\ TypeOK /\ writer.step = "idle" /\ UNCHANGED <<table, clock, signal, adapter, log, read, cancelled, faults, known>>
        /\ writer' = [step |-> "session", s |-> s, new |-> new] /\ Has(table, s)
        /\ rows' = [rows EXCEPT ![s] = @ \cup new]
    BY DEF IncrementalWrite, Begin, IInv, outVars
  <1>2. /\ IsFiniteSet(new) /\ new \subseteq Nat /\ Cardinality(new) \in Nat /\ N(s) \in Nat
        /\ \A n \in new : \A p \in rows[s] : p < n
        /\ IsFiniteSet(rows[s] \cup new)
        /\ Cardinality(rows[s] \cup new) = N(s) + Cardinality(new)
    BY NextMessages
  <1>3. rows \in [Sessions -> SUBSET Nat]
    BY <1>1, Typed
  <1>4. rows'[s] = rows[s] \cup new /\ \A t \in Sessions : t # s => rows'[t] = rows[t]
    BY <1>1, <1>3
  <1>5. N(s)' = N(s) + Cardinality(new) /\ \A t \in Sessions : t # s => N(t)' = N(t)
    BY <1>2, <1>4 DEF N
  <1>6. TypeOK'
    <2>1. rows' \in [Sessions -> SUBSET Nat]
      BY <1>1, <1>2, <1>3
    <2>2. writer' \in [step : {"idle", "messages", "session", "emit"}, s : Sessions \cup {0}, new : SUBSET Nat]
      BY <1>1, <1>2
    <2>. QED BY <1>1, <2>1, <2>2 DEF TypeOK
  <1>7. ASSUME NEW t \in Sessions PROVE Counted(t)' /\ Grows(t)
    <2>1. Counted(t)
      BY At
    <2>2. CASE t = s
      BY <1>1, <1>2, <1>4, <2>1, <2>2 DEF Counted, Grows
    <2>3. CASE t # s
      <3>1. table[t].count = N(t)
        BY <1>1, <2>1 DEF Counted
      <3>. QED BY <1>1, <1>4, <1>5, <2>1, <2>3, <3>1 DEF Counted, Grows
    <2>. QED BY <2>2, <2>3
  <1>8. Writing'
    <2>1. writer'.step = "session" /\ writer'.s = s /\ writer'.new = new
      BY <1>1
    <2>2. table[s].count = N(s)
      BY <1>1, At DEF Counted
    <2>. QED BY <1>1, <1>2, <1>5, <2>1, <2>2 DEF Writing, Has
  <1>9. clock <= clock' /\ Pending' /\ (adapter.step = "new" => signal' = 0)
    <2>1. clock <= clock'
      BY <1>1, Typed
    <2>2. Pending'
      BY <1>1 DEF Pending
    <2>3. adapter.step = "new" => signal' = 0
      BY <1>1 DEF IInv, Reading
    <2>. QED BY <2>1, <2>2, <2>3
  <1>. QED BY <1>1, <1>6, <1>7, <1>8, <1>9, DbInv

LEMMA WriteMessagesInv ==
    ASSUME IInv, WriteMessages
    PROVE  IInv'
  <1>1. /\ TypeOK /\ writer.step = "messages" /\ UNCHANGED <<table, clock, signal, adapter, log, read, cancelled, faults, known>>
        /\ writer' = [writer EXCEPT !.step = "emit"]
        /\ rows' = [rows EXCEPT ![writer.s] = @ \cup writer.new]
    BY DEF WriteMessages, IInv, outVars
  <1>2. PICK s \in Sessions : s = writer.s
    BY <1>1 DEF IInv, Writing
  <1>3. /\ rows \in [Sessions -> SUBSET Nat] /\ writer.new \in SUBSET Nat
        /\ writer \in [step : {"idle", "messages", "session", "emit"}, s : Sessions \cup {0}, new : SUBSET Nat]
    BY <1>1, Typed, WriterFacts
  <1>4. rows'[s] = rows[s] \cup writer.new /\ \A t \in Sessions : t # s => rows'[t] = rows[t]
    BY <1>1, <1>2, <1>3
  <1>5. /\ Has(table, s) /\ IsFiniteSet(writer.new)
        /\ \A n \in writer.new : \A p \in rows[s] : p < n
        /\ Cardinality(rows[s] \cup writer.new) = table[s].count
    BY <1>1, <1>2 DEF IInv, Writing
  <1>6. N(s)' = table[s].count /\ \A t \in Sessions : t # s => N(t)' = N(t)
    BY <1>4, <1>5 DEF N
  <1>7. TypeOK'
    <2>1. rows' \in [Sessions -> SUBSET Nat]
      BY <1>1, <1>3
    <2>2. writer' \in [step : {"idle", "messages", "session", "emit"}, s : Sessions \cup {0}, new : SUBSET Nat]
      BY <1>1, <1>3
    <2>. QED BY <1>1, <2>1, <2>2 DEF TypeOK
  <1>8. writer'.step = "emit" /\ writer'.s = s
    BY <1>1, <1>2, <1>3
  <1>9. ASSUME NEW t \in Sessions PROVE Counted(t)' /\ Grows(t)
    <2>1. Counted(t)
      BY At
    <2>2. CASE t = s
      <3>1. IsFiniteSet(rows'[s])
        <4>1. IsFiniteSet(rows[s]) /\ IsFiniteSet(writer.new)
          BY <1>5, <2>1, <2>2 DEF Counted
        <4>2. IsFiniteSet(rows[s] \cup writer.new)
          BY <4>1, FS_Union
        <4>. QED BY <1>4, <4>2
      <3>. QED BY <1>1, <1>4, <1>5, <1>6, <2>1, <2>2, <3>1 DEF Counted, Grows
    <2>3. CASE t # s
      <3>1. table[t].count = N(t)
        BY <1>2, <2>1, <2>3 DEF Counted
      <3>. QED BY <1>1, <1>4, <1>6, <2>1, <2>3, <3>1 DEF Counted, Grows
    <2>. QED BY <2>2, <2>3
  <1>10. Writing'
    BY <1>1, <1>5, <1>8 DEF Writing, Has
  <1>11. clock <= clock' /\ Pending' /\ (adapter.step = "new" => signal' = 0)
    <2>1. clock <= clock'
      BY <1>1, Typed
    <2>2. Pending'
      BY <1>8 DEF Pending
    <2>3. adapter.step = "new" => signal' = 0
      BY <1>1 DEF IInv, Reading
    <2>. QED BY <2>1, <2>2, <2>3
  <1>. QED BY <1>1, <1>7, <1>9, <1>10, <1>11, DbInv

LEMMA UpdateSessionInv ==
    ASSUME IInv, UpdateSession
    PROVE  IInv'
  <1>1. /\ TypeOK /\ writer.step = "session" /\ UNCHANGED <<rows, signal, adapter, log, read, cancelled, faults, known>>
        /\ writer' = [writer EXCEPT !.step = "emit"] /\ clock' = clock + 1
        /\ table' = [table EXCEPT ![writer.s] =
                        [count |-> @.count + Cardinality(writer.new), at |-> clock + 1]]
    BY DEF UpdateSession, IInv, outVars
  <1>2. PICK s \in Sessions : s = writer.s
    BY <1>1 DEF IInv, Writing
  <1>3. /\ table \in [Sessions -> Row] /\ writer.new \in SUBSET Nat /\ clock \in Nat
        /\ writer \in [step : {"idle", "messages", "session", "emit"}, s : Sessions \cup {0}, new : SUBSET Nat]
    BY <1>1, Typed, WriterFacts
  <1>4. /\ IsFiniteSet(writer.new) /\ table[s].count + Cardinality(writer.new) = N(s)
        /\ N(s) \in Nat /\ table[s].count \in Nat /\ Cardinality(writer.new) \in Nat
    <2>1. IsFiniteSet(writer.new) /\ table[s].count + Cardinality(writer.new) = N(s)
      BY <1>1, <1>2 DEF IInv, Writing
    <2>2. N(s) \in Nat /\ table[s].count \in Nat
      BY At
    <2>. QED BY <2>1, <2>2, FS_CardinalityType
  <1>5. /\ table'[s] = [count |-> N(s), at |-> clock + 1] /\ table'[s] \in Row /\ table'[s].count = N(s)
        /\ table'[s].at = clock + 1 /\ clock + 1 \in Nat
        /\ \A t \in Sessions : t # s => table'[t] = table[t]
    <2>1. table'[s] = [count |-> table[s].count + Cardinality(writer.new), at |-> clock + 1]
          /\ \A t \in Sessions : t # s => table'[t] = table[t]
      BY <1>1, <1>2, <1>3
    <2>2. table'[s] = [count |-> N(s), at |-> clock + 1]
      BY <1>4, <2>1
    <2>3. clock + 1 \in Nat
      BY <1>3
    <2>. QED BY <1>4, <2>1, <2>2, <2>3 DEF Row
  <1>6. TypeOK'
    <2>1. table' \in [Sessions -> Row]
      BY <1>1, <1>2, <1>3, <1>5
    <2>2. writer' \in [step : {"idle", "messages", "session", "emit"}, s : Sessions \cup {0}, new : SUBSET Nat]
      BY <1>1, <1>3
    <2>3. clock' \in Nat
      BY <1>1, <1>5
    <2>. QED BY <1>1, <2>1, <2>2, <2>3 DEF TypeOK
  <1>7. writer'.step = "emit" /\ writer'.s = s /\ \A t \in Sessions : N(t)' = N(t)
    BY <1>1, <1>2, <1>3 DEF N
  <1>8. ASSUME NEW t \in Sessions
        PROVE  /\ \/ table'[t] = table[t]
                  \/ /\ table'[t].at = clock + 1 /\ table'[t].count \in Nat
                     /\ table[t].count <= table'[t].count
               /\ Counted(t)'
               /\ Grows(t)
    <2>1. Counted(t) /\ table[t].at \in Nat /\ table[t].at <= clock
      BY At
    <2>2. CASE t = s
      <3>1. table[s].count <= N(s)
        BY <1>4
      <3>. QED BY <1>1, <1>3, <1>4, <1>5, <1>7, <2>1, <2>2, <3>1 DEF Counted, Grows
    <2>3. CASE t # s
      <3>1. table'[t] = table[t] /\ table[t].at <= clock + 1
        BY <1>3, <1>5, <2>1, <2>3
      <3>2. table[t].count = N(t)
        BY <1>2, <2>1, <2>3 DEF Counted
      <3>. QED BY <1>1, <1>7, <2>1, <3>1, <3>2 DEF Counted, Grows
    <2>. QED BY <2>2, <2>3
  <1>9. Writing'
    <2>1. table'[s].at > 0
      BY <1>3, <1>5
    <2>. QED BY <1>7, <2>1 DEF Writing, Has
  <1>10. clock <= clock' /\ Pending' /\ (adapter.step = "new" => signal' = 0)
    <2>1. clock <= clock'
      BY <1>1, <1>3
    <2>2. Pending'
      BY <1>7 DEF Pending
    <2>3. adapter.step = "new" => signal' = 0
      BY <1>1 DEF IInv, Reading
    <2>. QED BY <2>1, <2>2, <2>3
  <1>. QED BY <1>1, <1>6, <1>8, <1>9, <1>10, DbInv

LEMMA EmitInv ==
    ASSUME IInv, Emit
    PROVE  IInv'
  <1>1. /\ TypeOK /\ writer.step = "emit" /\ UNCHANGED <<table, rows, clock, adapter, log, read, cancelled, faults, known>>
        /\ writer' = NoWrite /\ signal' = (IF adapter.step = "new" THEN 0 ELSE signal + 1)
    BY DEF Emit, IInv, outVars
  <1>2. TypeOK'
    <2>1. signal' \in Nat
      BY <1>1, Typed
    <2>. QED BY <1>1, <2>1, NoWriteFacts DEF TypeOK
  <1>3. ASSUME NEW t \in Sessions PROVE Counted(t)' /\ Grows(t)
    <2>1. Counted(t) /\ table[t].count = N(t)
      BY <1>1, At DEF Counted
    <2>. QED BY <1>1, <2>1 DEF Counted, N, Grows
  <1>4. Writing'
    BY <1>1, NoWriteFacts DEF Writing
  <1>5. clock <= clock' /\ (Pending' \/ adapter.step = "new") /\ (adapter.step = "new" => signal' = 0)
    <2>1. clock <= clock' /\ signal \in Nat
      BY <1>1, Typed
    <2>. QED BY <1>1, <2>1 DEF Pending
  <1>. QED BY <1>1, <1>2, <1>3, <1>4, <1>5, DbInv

-----------------------------------------------------------------------------
(* The adapter.  What every step of it shares.                             *)

LEMMA AdapterTyped ==
    ASSUME TypeOK, UNCHANGED dbVars, adapter' \in Adapters, adapter'.mark <= Len(log'),
           log' \in Seq(Event), read' \in 0..Len(log'), Len(log') - read' <= OutCap,
           signal' \in Nat, cancelled' \in BOOLEAN, faults' \in Nat, known' \in [Sessions -> Row]
    PROVE  TypeOK'
  <1>1. adapter' \in [step : Steps, previous : [Sessions -> Row], current : [Sessions -> Row],
                    next : [Sessions -> Row], after : Nat,
                    id : Sessions \cup {0}, from : Nat, batch : SUBSET Nat,
                    mark : 0..Len(log')]
    <2>1. adapter'.mark \in Nat /\ Len(log') \in Nat
      BY LenProperties DEF Adapters
    <2>2. adapter'.mark \in 0..Len(log')
      BY <2>1
    <2>. QED BY <2>2 DEF Adapters
  <1>. QED BY <1>1 DEF TypeOK, dbVars, Steps

LEMMA AdapterInv ==
    ASSUME IInv, UNCHANGED dbVars, TypeOK', Reading', Sound',
           \A t \in Sessions : Snapshots(t)' /\ Told(t)' /\ Ordered(t)' /\ Current(t)'
    PROVE  IInv'
  <1>1. Writing'
    BY DEF IInv, Writing, dbVars, Has, N
  <1>2. ASSUME NEW t \in Sessions PROVE Counted(t)'
    BY At DEF Counted, dbVars, N
  <1>. QED BY <1>1, <1>2 DEF IInv, Session

LEMMA SameLog ==
    ASSUME Sound, UNCHANGED <<log, known, rows>>
    PROVE  Sound'
  BY DEF Sound, LogIsSound, AppendedInOrder, CreatedIsNews, Gap

LEMMA BelowSame ==
    ASSUME UNCHANGED <<log, known, rows>>, NEW t \in Sessions
    PROVE  \A floor : Below(t, floor)' <=> Below(t, floor)
  <1> SUFFICES ASSUME NEW floor PROVE Below(t, floor)' <=> Below(t, floor)
    OBVIOUS
  <1>. QED BY DEF Below, AppendedAt, CreatedAt, Announced, Retold, Hole

(* A sent event, and what the events before it still say.                  *)
LEMMA Appends ==
    ASSUME TypeOK, NEW ev \in Event, log' = Append(log, ev)
    PROVE  /\ log' \in Seq(Event) /\ Len(log') = Len(log) + 1 /\ Len(log) \in Nat
           /\ DOMAIN log = 1..Len(log) /\ DOMAIN log' = 1..(Len(log) + 1)
           /\ \A i \in DOMAIN log : i \in DOMAIN log' /\ log'[i] = log[i]
           /\ \A i \in DOMAIN log' : i \in DOMAIN log \/ i = Len(log) + 1
           /\ Len(log) + 1 \in DOMAIN log' /\ log'[Len(log) + 1] = ev
  <1>1. log \in Seq(Event) /\ Len(log) \in Nat /\ DOMAIN log = 1..Len(log)
    BY Typed
  <1>2. /\ log' \in Seq(Event) /\ Len(log') = Len(log) + 1
        /\ \A i \in 1..Len(log) : log'[i] = log[i]
        /\ log'[Len(log) + 1] = ev
    BY <1>1, AppendProperties
  <1>3. DOMAIN log' = 1..(Len(log) + 1)
    BY <1>2, LenProperties
  <1>. QED BY <1>1, <1>2, <1>3

LEMMA NewsStays ==
    ASSUME TypeOK, NEW ev \in Event, log' = Append(log, ev), UNCHANGED known, NEW t \in Sessions,
           ~(ev.type = "created" /\ ev.s = t)
    PROVE  /\ \A i \in DOMAIN log' : CreatedAt(i, t)' => i \in DOMAIN log /\ CreatedAt(i, t) /\ log'[i].at = log[i].at
           /\ \A at \in Nat : Newer(t, at) => Newer(t, at)'
  <1>1. \A i \in DOMAIN log' : CreatedAt(i, t)' => i \in DOMAIN log /\ CreatedAt(i, t) /\ log'[i].at = log[i].at
    BY Appends DEF CreatedAt
  <1>2. ASSUME NEW at \in Nat, Newer(t, at) PROVE Newer(t, at)'
    BY <1>1, <1>2 DEF Newer
  <1>. QED BY <1>1, <1>2

LEMMA RetoldStays ==
    ASSUME TypeOK, NEW ev \in Event, log' = Append(log, ev), NEW t \in Sessions, NEW i \in DOMAIN log
    PROVE  /\ Retold(i, t) => Retold(i, t)'
           /\ (\E k \in i..Len(log) : HeadAt(k, t)) => (\E k \in i..Len(log) : HeadAt(k, t))'
  <1>1. /\ Len(log) \in Nat /\ DOMAIN log = 1..Len(log) /\ Len(log') = Len(log) + 1
        /\ \A k \in DOMAIN log : log'[k] = log[k]
    BY Appends
  <1>2. \A k \in i..Len(log) : k \in i..Len(log') /\ log'[k] = log[k]
    BY <1>1
  <1>. QED BY <1>2 DEF Retold, CreatedAt, HeadAt

LEMMA BelowStays ==
    ASSUME TypeOK, NEW ev \in Event, log' = Append(log, ev), UNCHANGED <<known, rows>>, NEW t \in Sessions,
           NEW floor \in Nat, ev.type = "appended" /\ ev.s = t => ev.ord < floor, Below(t, floor)
    PROVE  Below(t, floor)'
  <1>1. ASSUME NEW i \in DOMAIN log', AppendedAt(i, t)'
        PROVE  \/ log'[i].ord < floor
               \/ Retold(i, t)'
               \/ \E g \in 0..floor : g < log'[i].ord /\ Hole(t, g)'
    <2>1. CASE i \in DOMAIN log
      <3>1. AppendedAt(i, t) /\ log'[i] = log[i]
        BY <1>1, <2>1, Appends DEF AppendedAt
      <3>2. \A g : Hole(t, g)' <=> Hole(t, g)
        BY DEF Hole
      <3>. QED BY <2>1, <3>1, <3>2, RetoldStays DEF Below
    <2>2. CASE i = Len(log) + 1
      BY <1>1, <2>2, Appends DEF AppendedAt
    <2>. QED BY <2>1, <2>2, Appends
  <1>2. ASSUME NEW o \in rows'[t], known'[t].count <= o, o < floor PROVE Announced(t, o)'
    <2>1. PICK i \in DOMAIN log : log[i].type = "appended" /\ log[i].s = t /\ log[i].ord = o
      BY <1>2 DEF Below, Announced
    <2>. QED BY <2>1, Appends DEF Announced
  <1>. QED BY <1>1, <1>2 DEF Below

(* A floor that falls back does so at a hole.                              *)
LEMMA BelowFalls ==
    ASSUME TypeOK, NEW t \in Sessions, NEW f \in Nat, NEW c \in Nat, Below(t, f), c <= f,
           c < f => HoleBelow(t, c)
    PROVE  Below(t, c)
  <1>1. known[t].count \in Nat /\ rows[t] \in SUBSET Nat
    BY Typed
  <1>2. ASSUME NEW i \in DOMAIN log, AppendedAt(i, t)
        PROVE  \/ log[i].ord < c
               \/ Retold(i, t)
               \/ \E g \in 0..c : g < log[i].ord /\ Hole(t, g)
    <2>1. log[i].ord \in Nat
      BY Typed
    <2>2. CASE c = f
      BY <1>2, <2>2 DEF Below
    <2>3. CASE c < f /\ ~(log[i].ord < c)
      <3>1. PICK g \in 0..(c - 1) : Hole(t, g)
        BY <2>3 DEF HoleBelow
      <3>2. g \in 0..c /\ g < log[i].ord
        BY <2>1, <2>3
      <3>. QED BY <3>1, <3>2
    <2>. QED BY <2>2, <2>3
  <1>3. ASSUME NEW o \in rows[t], known[t].count <= o, o < c PROVE Announced(t, o)
    <2>1. o < f
      BY <1>1, <1>3
    <2>. QED BY <1>3, <2>1 DEF Below
  <1>4. c <= known[t].count \/ \E o \in rows[t] : c <= o + 1
    <2>1. CASE f <= known[t].count
      BY <1>1, <2>1
    <2>2. ASSUME NEW o \in rows[t], f <= o + 1 PROVE c <= o + 1
      BY <1>1, <2>2
    <2>. QED BY <2>1, <2>2 DEF Below
  <1>. QED BY <1>2, <1>3, <1>4 DEF Below

LEMMA FailedStays ==
    ASSUME TypeOK, NEW ev \in Event, log' = Append(log, ev)
    PROVE  /\ Failed(adapter.mark) => \E i \in (adapter.mark + 1)..Len(log') : log'[i].type = "error"
           /\ ev.type = "error" => \E i \in (adapter.mark + 1)..Len(log') : log'[i].type = "error"
  <1>1. adapter.mark \in Nat /\ adapter.mark <= Len(log) /\ Len(log) \in Nat /\ Len(log') = Len(log) + 1
        /\ DOMAIN log = 1..Len(log) /\ log'[Len(log) + 1] = ev
    BY Typed, Appends
  <1>2. ASSUME NEW i \in (adapter.mark + 1)..Len(log), log[i].type = "error"
        PROVE  i \in (adapter.mark + 1)..Len(log') /\ log'[i].type = "error"
    <2>1. i \in DOMAIN log
      BY <1>1
    <2>2. log'[i] = log[i]
      BY <2>1, Appends
    <2>. QED BY <1>1, <1>2, <2>2
  <1>3. Len(log) + 1 \in (adapter.mark + 1)..Len(log')
    BY <1>1
  <1>. QED BY <1>1, <1>2, <1>3 DEF Failed

(* What is told of a session must be news, or follow what was told.        *)
LEMMA SoundStays ==
    ASSUME TypeOK, Sound, NEW ev \in Event, log' = Append(log, ev), UNCHANGED <<known, rows>>,
           ev.type = "created" => Newer(ev.s, ev.at),
           ev.type = "appended" =>
              /\ ev.s \in Sessions /\ ev.ord \in rows[ev.s]
              /\ \E f \in Nat : f <= ev.ord /\ Below(ev.s, f) /\ Headed(ev.s, f)
    PROVE  Sound'
  <1> DEFINE n == Len(log) + 1
  <1>1. /\ Len(log) \in Nat /\ DOMAIN log = 1..Len(log) /\ DOMAIN log' = 1..n /\ n \in DOMAIN log' /\ log'[n] = ev
        /\ Len(log') = n
        /\ \A i \in DOMAIN log : i \in DOMAIN log' /\ log'[i] = log[i]
        /\ \A i \in DOMAIN log' : i \in DOMAIN log \/ i = n
    BY Appends
  <1>2. \A i \in DOMAIN log : i < n
    BY <1>1
  <1>3. AppendedInOrder'
    <2> SUFFICES ASSUME NEW i \in DOMAIN log', NEW j \in DOMAIN log', i < j,
                        log'[i].type = "appended", log'[j].type = "appended", log'[i].s = log'[j].s,
                        log'[j].ord <= log'[i].ord
                 PROVE  \E k \in i..j : /\ log'[k].s = log'[i].s
                                        /\ \/ log'[k].type = "created"
                                           \/ log'[k].type = "updated" /\ Gap(log'[i].s, log'[j].ord)
      BY DEF AppendedInOrder, Gap
    <2>1. i \in DOMAIN log
      BY <1>1
    <2>2. CASE j \in DOMAIN log
      <3>1. PICK k \in i..j : /\ log[k].s = log[i].s
                             /\ \/ log[k].type = "created"
                                \/ log[k].type = "updated" /\ Gap(log[i].s, log[j].ord)
        BY <1>1, <2>1, <2>2 DEF Sound, LogIsSound, AppendedInOrder
      <3>2. k \in DOMAIN log
        BY <1>1, <2>1, <2>2
      <3>. QED BY <1>1, <2>1, <2>2, <3>1, <3>2
    <2>3. CASE j = n
      <3>1. PICK o \in Nat, t \in Sessions : o = ev.ord /\ t = ev.s
        BY <1>1, <2>3 DEF Event
      <3>2. /\ ev.type = "appended" /\ log[i].s = t /\ AppendedAt(i, t) /\ log[i].ord \in Nat
            /\ o <= log[i].ord /\ o \in rows[t]
        <4>1. log'[i] = log[i] /\ log'[j] = ev
          BY <1>1, <2>1, <2>3
        <4>. QED BY <2>1, <3>1, <4>1, Typed DEF AppendedAt
      <3>3. PICK f \in Nat : f <= o /\ Below(t, f) /\ Headed(t, f)
        BY <3>1, <3>2
      <3>4. ~(log[i].ord < f)
        BY <3>2, <3>3
      <3>5. ASSUME NEW k \in i..Len(log) PROVE k \in i..j /\ log'[k] = log[k]
        BY <1>1, <2>1, <2>3
      <3>6. CASE Retold(i, t)
        BY <1>1, <2>1, <3>2, <3>5, <3>6 DEF Retold, CreatedAt
      <3>7. ASSUME NEW g \in 0..f, Hole(t, g)
            PROVE  \E k \in i..j : /\ log'[k].s = log'[i].s
                                   /\ \/ log'[k].type = "created"
                                      \/ log'[k].type = "updated" /\ Gap(log'[i].s, log'[j].ord)
        <4>1. g \in 0..(o - 1) /\ g \notin rows[t]
          <5>1. g # o /\ g \notin rows[t]
            BY <3>2, <3>7 DEF Hole
          <5>. QED BY <3>3, <5>1
        <4>2. Gap(log'[i].s, log'[j].ord)
          BY <1>1, <2>1, <2>3, <3>1, <3>2, <4>1 DEF Gap
        <4>3. PICK k \in i..Len(log) : HeadAt(k, t)
          BY <2>1, <3>2, <3>3, <3>4 DEF Headed
        <4>. QED BY <1>1, <2>1, <3>2, <3>5, <4>2, <4>3 DEF HeadAt
      <3>. QED BY <2>1, <3>2, <3>3, <3>4, <3>6, <3>7 DEF Below
    <2>. QED BY <1>1, <2>2, <2>3
  <1>4. CreatedIsNews'
    <2>1. ASSUME NEW i \in DOMAIN log', NEW j \in DOMAIN log', log'[i].type = "created",
                 log'[j].type = "created", i < j, log'[i].s = log'[j].s
          PROVE  log'[i].at < log'[j].at
      <3>1. i \in DOMAIN log
        BY <1>1, <2>1
      <3>2. CASE j \in DOMAIN log
        BY <1>1, <2>1, <3>1, <3>2 DEF Sound, LogIsSound, CreatedIsNews
      <3>3. CASE j = n
        BY <1>1, <2>1, <3>1, <3>3 DEF Newer, CreatedAt
      <3>. QED BY <1>1, <3>2, <3>3
    <2>2. ASSUME NEW i \in DOMAIN log', log'[i].type = "created"
          PROVE  known[log'[i].s].at < log'[i].at
      <3>1. CASE i \in DOMAIN log
        BY <1>1, <2>2, <3>1 DEF Sound, LogIsSound, CreatedIsNews
      <3>2. CASE i = n
        BY <1>1, <2>2, <3>2 DEF Newer
      <3>. QED BY <1>1, <3>1, <3>2
    <2>. QED BY <2>1, <2>2 DEF CreatedIsNews
  <1>5. ASSUME NEW i \in DOMAIN log', log'[i].type = "appended"
        PROVE  log'[i].s \in Sessions /\ log'[i].ord \in rows'[log'[i].s]
    <2>1. CASE i \in DOMAIN log
      BY <1>1, <1>5, <2>1 DEF Sound
    <2>2. CASE i = n
      BY <1>1, <1>5, <2>2
    <2>. QED BY <1>1, <2>1, <2>2
  <1>. QED BY <1>3, <1>4, <1>5 DEF Sound, LogIsSound

-----------------------------------------------------------------------------
(* Subscribing, waking up and stopping.                                    *)

LEMMA WatchInv ==
    ASSUME IInv, Watch
    PROVE  IInv'
  <1>1. /\ TypeOK /\ Reading /\ adapter.step = "new" /\ signal' \in 0..1
        /\ UNCHANGED <<table, rows, writer, clock, log, read, cancelled, known>>
        /\ adapter' = [adapter EXCEPT !.step = "first page", !.after = clock + 1]
    BY DEF Watch, IInv, dbVars, outVars
  <1>2. log = <<>> /\ known = Empty /\ adapter.previous = Empty /\ adapter.mark = 0
        /\ adapter.current = Empty /\ adapter.next = Empty
    BY <1>1 DEF Reading
  <1>3. /\ adapter' \in Adapters /\ adapter'.step = "first page" /\ adapter'.previous = Empty
        /\ adapter'.current = Empty /\ adapter'.next = Empty /\ adapter'.after = clock + 1
        /\ adapter'.mark = 0 /\ adapter'.id = adapter.id /\ clock \in Nat
    <2>1. adapter \in Adapters /\ clock \in Nat
      BY <1>1, Typed
    <2>2. clock + 1 \in Nat
      BY <2>1
    <2>. QED BY <1>1, <1>2, <2>1, <2>2 DEF Adapters, Steps
  <1>4. TypeOK'
    <2>1. signal' \in Nat
      BY <1>1
    <2>2. faults' \in Nat
      <3>1. faults \in Nat
        BY <1>1 DEF TypeOK
      <3>2. faults' = faults \/ (faults > 0 /\ faults' = faults - 1)
        BY DEF Watch, Fault
      <3>. QED BY <3>1, <3>2
    <2>. QED BY <1>1, <1>2, <1>3, <2>1, <2>2, Typed, AdapterTyped DEF TypeOK, dbVars
  <1>5. Reading'
    BY <1>1, <1>2, <1>3 DEF Reading, Paging
  <1>6. Sound'
    BY <1>1, SameLog DEF IInv
  <1>7. ASSUME NEW t \in Sessions PROVE Snapshots(t)' /\ Told(t)' /\ Ordered(t)' /\ Current(t)'
    <2>1. /\ table[t].at \in Nat /\ table[t].count \in Nat /\ table[t].at <= clock
          /\ Empty[t].at = 0 /\ Empty[t].count = 0 /\ Empty[t] = Missing
      BY At, MissingFacts
    <2>2. ~Visited(t)' /\ ~Sending(t)' /\ Paging' /\ ~Diffing'
      BY <1>3 DEF Visited, Sending, Paging, Diffing
    <2>3. Snapshots(t)'
      BY <1>1, <1>3, <2>1, <2>2 DEF Snapshots, Has
    <2>4. table[t].at > 0 => Newer(t, table[t].at)'
      BY <1>1, <1>2, <2>1 DEF Newer
    <2>5. Told(t)'
      BY <1>1, <1>2, <1>3, <2>1, <2>2, <2>4 DEF Told, Has
    <2>6. Ordered(t)'
      <3>1. Base(t)' = Empty[t]
        BY <1>3, <2>2 DEF Base
      <3>. QED BY <2>1, <2>2, <3>1 DEF Ordered, Present
    <2>7. Current(t)'
      BY <1>1, <1>3, <2>1, <2>2 DEF Current, Has
    <2>. QED BY <2>3, <2>5, <2>6, <2>7
  <1>. QED BY <1>1, <1>4, <1>5, <1>6, <1>7, AdapterInv DEF dbVars

LEMMA ReceiveInv ==
    ASSUME IInv, Receive
    PROVE  IInv'
  <1>1. /\ TypeOK /\ Reading /\ adapter.step = "idle" /\ signal > 0 /\ signal' \in 0..(signal - 1)
        /\ UNCHANGED <<table, rows, writer, clock, log, read, cancelled, faults, known>>
        /\ adapter' = [adapter EXCEPT !.step = "page", !.current = Empty,
                                      !.after = clock + 1, !.mark = Len(log)]
    BY DEF Receive, IInv, Reading, dbVars, outVars
  <1>2. adapter.current = Empty /\ adapter.next = Empty
    BY <1>1 DEF Reading
  <1>3. /\ adapter' \in Adapters /\ adapter'.step = "page" /\ adapter'.previous = adapter.previous
        /\ adapter'.current = Empty /\ adapter'.next = Empty /\ adapter'.after = clock + 1
        /\ adapter'.mark = Len(log) /\ clock \in Nat /\ Len(log) \in Nat
    <2>1. adapter \in Adapters /\ clock \in Nat /\ Len(log) \in Nat
      BY <1>1, Typed
    <2>2. clock + 1 \in Nat
      BY <2>1
    <2>. QED BY <1>1, <1>2, <2>1, <2>2, MissingFacts DEF Adapters, Steps
  <1>4. TypeOK'
    <2>1. adapter'.mark <= Len(log') /\ UNCHANGED dbVars /\ log' \in Seq(Event) /\ known' \in [Sessions -> Row]
      BY <1>1, <1>3, Typed DEF dbVars
    <2>2. /\ read' \in 0..Len(log') /\ Len(log') - read' <= OutCap
          /\ cancelled' \in BOOLEAN /\ faults' \in Nat
      BY <1>1 DEF TypeOK
    <2>3. signal' \in Nat
      BY <1>1, Typed
    <2>. QED BY <1>1, <1>3, <2>1, <2>2, <2>3, AdapterTyped
  <1>5. Reading'
    BY <1>1, <1>2, <1>3 DEF Reading, Paging
  <1>6. Sound'
    BY <1>1, SameLog DEF IInv
  <1>7. ASSUME NEW t \in Sessions PROVE Snapshots(t)' /\ Told(t)' /\ Ordered(t)' /\ Current(t)'
    <2>1. /\ table[t].at \in Nat /\ table[t].count \in Nat /\ table[t].at <= clock
          /\ Empty[t].at = 0 /\ Empty[t].count = 0 /\ Empty[t] = Missing
          /\ Snapshots(t) /\ Told(t) /\ Ordered(t)
      BY At, MissingFacts
    <2>2. ~Visited(t)' /\ ~Sending(t)' /\ Paging' /\ ~Diffing' /\ ~Visited(t) /\ ~Sending(t)
      BY <1>1, <1>3 DEF Visited, Sending, Paging, Diffing
    <2>3. Snapshots(t)'
      BY <1>1, <1>3, <2>1, <2>2 DEF Snapshots, Has
    <2>4. ~Has(adapter.previous, t) /\ Has(table, t) => Newer(t, table[t].at)
      BY <1>1, <2>1 DEF Told
    <2>5. Newer(t, table[t].at)' <=> Newer(t, table[t].at)
      BY <1>1 DEF Newer, CreatedAt
    <2>6. Told(t)'
      <3>1. table[t].at < adapter'.after
        BY <1>3, <2>1
      <3>2. (known[t].at <= table[t].at)' /\ (\A i \in DOMAIN log : CreatedAt(i, t) => log[i].at <= table[t].at)'
        BY <1>1, <2>1 DEF Told, CreatedAt
      <3>. QED BY <1>1, <1>3, <2>1, <2>2, <2>4, <2>5, <3>1, <3>2 DEF Told, Has
    <2>7. Ordered(t)'
      <3>1. Present(t)' = Present(t) /\ Floor(t)' = Floor(t)
        BY <1>3, <2>2 DEF Present, Floor, Base
      <3>2. \A f : Below(t, f)' <=> Below(t, f)
        BY <1>1, BelowSame
      <3>. QED BY <1>1, <1>3, <2>1, <3>1, <3>2 DEF Ordered
    <2>8. Current(t)'
      BY <1>1, <1>3, <2>1, <2>2 DEF Current, Has
    <2>. QED BY <2>3, <2>6, <2>7, <2>8
  <1>. QED BY <1>1, <1>4, <1>5, <1>6, <1>7, AdapterInv DEF dbVars

LEMMA DoneInv ==
    ASSUME IInv, adapter' = [NewAdapter EXCEPT !.step = "done"],
           UNCHANGED <<table, rows, writer, clock, signal, log, read, cancelled, known>>, faults' \in Nat
    PROVE  IInv'
  <1>1. TypeOK /\ Sound
    BY DEF IInv
  <1>2. /\ adapter' \in Adapters /\ adapter'.step = "done" /\ adapter'.previous = Empty
        /\ adapter'.current = Empty /\ adapter'.next = Empty /\ adapter'.mark = 0
    BY NewAdapterFacts DEF Adapters, Steps
  <1>3. TypeOK'
    <2>1. adapter'.mark <= Len(log') /\ UNCHANGED dbVars /\ log' \in Seq(Event) /\ known' \in [Sessions -> Row]
      BY <1>1, <1>2, Typed DEF dbVars
    <2>2. /\ read' \in 0..Len(log') /\ Len(log') - read' <= OutCap
          /\ signal' \in Nat /\ cancelled' \in BOOLEAN
      BY <1>1 DEF TypeOK
    <2>. QED BY <1>1, <1>2, <2>1, <2>2, AdapterTyped
  <1>4. Reading'
    BY <1>2 DEF Reading, Paging
  <1>5. Sound'
    BY <1>1, SameLog
  <1>6. ASSUME NEW t \in Sessions PROVE Snapshots(t)' /\ Told(t)' /\ Ordered(t)' /\ Current(t)'
    <2>1. /\ table[t].at \in Nat /\ table[t].count \in Nat
          /\ Empty[t].at = 0 /\ Empty[t].count = 0 /\ Empty[t] = Missing /\ Told(t)
      BY At, MissingFacts
    <2>2. ~Visited(t)' /\ ~Sending(t)' /\ ~Paging' /\ ~Diffing'
      BY <1>2 DEF Visited, Sending, Paging, Diffing
    <2>3. Snapshots(t)'
      BY <1>2, <2>1, <2>2 DEF Snapshots, Has
    <2>4. Told(t)'
      BY <1>2, <2>1, <2>2 DEF Told, CreatedAt
    <2>5. Ordered(t)' /\ Current(t)'
      BY <1>2, <2>2 DEF Ordered, Current
    <2>. QED BY <2>3, <2>4, <2>5
  <1>. QED BY <1>3, <1>4, <1>5, <1>6, AdapterInv DEF dbVars

LEMMA StopInv ==
    ASSUME IInv, Stop
    PROVE  IInv'
  BY DoneInv DEF Stop, AdapterOnly, dbVars, outVars, IInv, TypeOK

(* Steps of the reader and of the context leave the rest as it is.         *)
LEMMA SameInv ==
    ASSUME IInv, TypeOK', UNCHANGED <<table, rows, writer, clock, signal, adapter, log, known>>
    PROVE  IInv'
  <1>1. Reading'
    <2>1. Headed(adapter.id, adapter.from)' <=> Headed(adapter.id, adapter.from)
      BY DEF Headed, HeadAt, AppendedAt
    <2>2. /\ HoleBelow(adapter.id, adapter.current[adapter.id].count)'
               <=> HoleBelow(adapter.id, adapter.current[adapter.id].count)
          /\ (Paging' <=> Paging) /\ UNCHANGED rows
      BY DEF HoleBelow, Hole, Paging
    <2>. QED BY <2>1, <2>2 DEF IInv, Reading, Has
  <1>2. Sound'
    BY SameLog DEF IInv
  <1>3. ASSUME NEW t \in Sessions PROVE Snapshots(t)' /\ Told(t)' /\ Ordered(t)' /\ Current(t)'
    <2>1. Snapshots(t)'
      BY At DEF Snapshots, Has, Diffing, Visited
    <2>2. Told(t)'
      BY At DEF Told, Newer, CreatedAt, Has, Paging, Diffing, Visited, Sending
    <2>3. Ordered(t)'
      <3>1. Present(t)' = Present(t) /\ Floor(t)' = Floor(t)
        BY DEF Present, Floor, Base, Visited, Diffing, Sending
      <3>. QED BY <3>1, At, BelowSame DEF Ordered
    <2>4. Current(t)'
      BY At DEF Current, Pending, Paging, Diffing, Visited, Has, Failed
    <2>. QED BY <2>1, <2>2, <2>3, <2>4
  <1>. QED BY <1>1, <1>2, <1>3, AdapterInv DEF dbVars

LEMMA TakeInv ==
    ASSUME IInv, Take
    PROVE  IInv'
  <1>1. /\ TypeOK /\ read < Len(log) /\ read' = read + 1
        /\ UNCHANGED <<table, rows, writer, clock, signal, adapter, log, cancelled, faults, known>>
    BY DEF Take, IInv, dbVars
  <1>2. read \in Nat /\ Len(log) \in Nat /\ Len(log) - read <= OutCap /\ OutCap \in Nat
    BY <1>1, Typed, AdapterAssumption DEF TypeOK
  <1>3. read' \in 0..Len(log) /\ Len(log) - read' <= OutCap
    BY <1>1, <1>2
  <1>4. TypeOK'
    BY <1>1, <1>3 DEF TypeOK
  <1>. QED BY <1>1, <1>4, SameInv

LEMMA CancelInv ==
    ASSUME IInv, Cancel
    PROVE  IInv'
  <1>1. TypeOK /\ cancelled' = TRUE
        /\ UNCHANGED <<table, rows, writer, clock, signal, adapter, log, read, faults, known>>
    BY DEF Cancel, IInv, dbVars, outVars
  <1>2. TypeOK'
    BY <1>1 DEF TypeOK
  <1>. QED BY <1>1, <1>2, SameInv

-----------------------------------------------------------------------------
(* Reading the pages of a snapshot.                                        *)

Older(s) == Has(table, s) /\ table[s].at < adapter.after

(* A page holds the most recent of the sessions after the cursor, some of  *)
(* them if there are any, and the rest is older than all of the page.      *)
LEMMA PageFacts ==
    ASSUME TypeOK
    PROVE  /\ Page \subseteq Sessions
           /\ \A s \in Page : Older(s)
           /\ \A s \in Sessions : Older(s) /\ s \notin Page => \A t \in Page : table[s].at < table[t].at
           /\ \A s \in Sessions : Older(s) => Page # {}
  <1> DEFINE older == {s \in Sessions : table[s].at \in 1..(adapter.after - 1)}
             Above(s) == {t \in older : table[t].at > table[s].at}
  <1>1. /\ \A s \in Sessions : table[s].at \in Nat
        /\ adapter.after \in Nat /\ SessionLimit \in Nat /\ SessionLimit # 0
    BY Typed, AdapterAssumption
  <1>2. \A s \in Sessions : s \in older <=> Older(s)
    BY <1>1 DEF Older, Has
  <1>3. Page = {s \in older : Cardinality(Above(s)) < SessionLimit}
    BY DEF Page
  <1>4. ASSUME NEW s \in Sessions PROVE IsFiniteSet(Above(s)) /\ Cardinality(Above(s)) \in Nat
    <2>1. Above(s) \subseteq Sessions
      OBVIOUS
    <2>2. IsFiniteSet(Above(s))
      BY <2>1, AdapterAssumption, FS_Subset
    <2>. QED BY <2>2, FS_CardinalityType
  <1>5. ASSUME NEW s \in Sessions, Older(s), s \notin Page, NEW t \in Page
        PROVE  table[s].at < table[t].at
    <2>1. t \in older /\ t \in Sessions /\ Cardinality(Above(t)) < SessionLimit
      BY <1>3
    <2>2. ~(Cardinality(Above(s)) < SessionLimit)
      BY <1>2, <1>3, <1>5
    <2>3. ASSUME table[t].at <= table[s].at PROVE FALSE
      <3>1. Above(s) \subseteq Above(t)
        BY <1>1, <2>1, <2>3
      <3>2. Cardinality(Above(s)) <= Cardinality(Above(t))
        <4> HIDE DEF Above
        <4>. QED BY <1>4, <2>1, <3>1, FS_Subset
      <3>. QED BY <1>1, <1>4, <2>1, <2>2, <3>2
    <2>. QED BY <1>1, <2>1, <2>3
  <1>6. ASSUME NEW s \in Sessions, Older(s) PROVE Page # {}
    <2> DEFINE f == [t \in older |-> table[t].at]
    <2>1. older # {} /\ f \in [older -> Nat] /\ \A x \in older : f[x] <= adapter.after
      <3>1. \A x \in older : table[x].at <= adapter.after
        BY <1>1
      <3>. QED BY <1>1, <1>2, <1>6, <3>1
    <2>2. PICK x \in older : \A y \in older : f[y] <= f[x]
      <3> HIDE DEF f, older
      <3>. QED BY <1>1, <2>1, TopExists
    <2>3. Above(x) = {}
      <3>1. \A y \in older : f[y] = table[y].at /\ table[y].at \in Nat
        BY <1>1
      <3>2. \A y \in older : ~(table[y].at > table[x].at)
        <4> HIDE DEF f, older
        <4>1. ASSUME NEW y \in older PROVE ~(table[y].at > table[x].at)
          <5>1. table[y].at \in Nat /\ table[x].at \in Nat /\ table[y].at <= table[x].at
            BY <2>2, <3>1
          <5>. QED BY <5>1
        <4>. QED BY <4>1
      <3>. QED BY <3>2
    <2>4. Cardinality(Above(x)) = 0
      BY <2>3, FS_EmptySet
    <2>5. x \in Page
      BY <1>1, <1>3, <2>2, <2>4
    <2>. QED BY <2>5
  <1>. QED BY <1>2, <1>3, <1>5, <1>6

(* The cursor moves down to the last of the page.                          *)
LEMMA CursorFacts ==
    ASSUME TypeOK, Page # {}, NEW m, m = Smallest({table[s].at : s \in Page})
    PROVE  /\ m \in Nat /\ m <= adapter.after
           /\ \A s \in Sessions : Older(s) /\ s \notin Page => table[s].at < m
  <1>1. /\ \A s \in Sessions : table[s].at \in Nat
        /\ adapter.after \in Nat
    BY Typed
  <1>2. {table[s].at : s \in Page} \in SUBSET Nat /\ {table[s].at : s \in Page} # {}
    BY <1>1, PageFacts
  <1>3. m \in {table[s].at : s \in Page}
    BY <1>2, SmallestExists
  <1>4. PICK s \in Page : m = table[s].at
    BY <1>3
  <1>5. s \in Sessions /\ Older(s)
    BY PageFacts
  <1>6. m \in Nat /\ m <= adapter.after
    BY <1>1, <1>4, <1>5 DEF Older
  <1>7. \A t \in Sessions : Older(t) /\ t \notin Page => table[t].at < m
    BY <1>4, PageFacts
  <1>. QED BY <1>6, <1>7

(* What a page adds to the snapshot.                                       *)
LEMMA LoadedFacts ==
    ASSUME IInv
    PROVE  /\ Loaded \in [Sessions -> Row]
           /\ \A t \in Sessions :
                 /\ Loaded[t] = IF t \in Page THEN table[t] ELSE adapter.current[t]
                 /\ Loaded[t].at \in Nat /\ Loaded[t].count \in Nat
                 /\ Loaded[t].at <= table[t].at /\ Loaded[t].count <= table[t].count
                 /\ Has(Loaded, t) <=> t \in Page \/ Has(adapter.current, t)
  <1>1. TypeOK /\ table \in [Sessions -> Row] /\ adapter.current \in [Sessions -> Row]
    BY Typed DEF IInv
  <1>2. Loaded \in [Sessions -> Row]
    BY <1>1 DEF Loaded
  <1>3. ASSUME NEW t \in Sessions
        PROVE  /\ Loaded[t] = IF t \in Page THEN table[t] ELSE adapter.current[t]
               /\ Loaded[t].at \in Nat /\ Loaded[t].count \in Nat
               /\ Loaded[t].at <= table[t].at /\ Loaded[t].count <= table[t].count
               /\ Has(Loaded, t) <=> t \in Page \/ Has(adapter.current, t)
    <2>1. Loaded[t] = IF t \in Page THEN table[t] ELSE adapter.current[t]
      BY DEF Loaded
    <2>2. /\ table[t].at \in Nat /\ table[t].count \in Nat
          /\ adapter.current[t].at \in Nat /\ adapter.current[t].count \in Nat
          /\ adapter.current[t].at <= table[t].at /\ adapter.current[t].count <= table[t].count
      BY At DEF Snapshots
    <2>3. t \in Page => table[t].at > 0
      BY <1>1, PageFacts DEF Older, Has
    <2>. QED BY <2>1, <2>2, <2>3 DEF Has
  <1>. QED BY <1>2, <1>3

IsFirst == adapter.step = "first page"
IsLast == ~(Page # {} /\ HasMore)

(* After the last page only a session that moved is missing, and only with *)
(* a wake-up pending.                                                      *)
LEMMA LastPage ==
    ASSUME IInv, Paging, IsLast, NEW t \in Sessions
    PROVE  /\ Has(table, t) => Has(Loaded, t) \/ Newer(t, table[t].at)
           /\ ~Pending => Loaded[t] = table[t]
  <1>1. TypeOK /\ Told(t) /\ Current(t) /\ Snapshots(t) /\ Counted(t)
    BY At DEF IInv
  <1>2. Older(t) => t \in Page
    <2> SUFFICES ASSUME Older(t), t \notin Page PROVE FALSE
      OBVIOUS
    <2>1. Page # {} /\ \A s \in Page : table[t].at < table[s].at
      BY <1>1, PageFacts
    <2>2. /\ table[t].at \in Nat /\ table[t].at > 0 /\ Page \subseteq Sessions
          /\ \A s \in Sessions : table[s].at \in Nat
      BY <1>1, Typed, PageFacts DEF Older, Has
    <2>3. \A s \in Page : table[t].at \in 1..(table[s].at - 1)
      BY <2>1, <2>2
    <2>. QED BY <2>1, <2>3 DEF HasMore, IsLast
  <1>3. Has(table, t) => Has(adapter.current, t) \/ Older(t) \/ Newer(t, table[t].at)
    BY <1>1 DEF Told, Older
  <1>4. ASSUME ~Pending PROVE Loaded[t] = table[t]
    <2>1. CASE t \in Page
      BY <2>1, LoadedFacts
    <2>2. CASE t \notin Page /\ Has(table, t)
      <3>1. Has(adapter.current, t)
        BY <1>1, <1>2, <1>4, <2>2 DEF Current, Older
      <3>2. adapter.current[t] = table[t]
        BY <1>1, <1>4, <3>1 DEF Current
      <3>. QED BY <2>2, <3>2, LoadedFacts
    <2>3. CASE ~Has(table, t)
      <3>1. t \notin Page
        BY <1>1, <2>3, PageFacts DEF Older
      <3>2. /\ table[t].at \in Nat /\ table[t].count \in Nat
            /\ adapter.current[t].at \in Nat /\ adapter.current[t].count \in Nat
            /\ adapter.current[t].at <= table[t].at /\ adapter.current[t].count <= table[t].count
            /\ table[t] \in Row /\ adapter.current[t] \in Row
        BY <1>1, At, Typed DEF Snapshots
      <3>3. table[t].at = 0 /\ table[t].count = 0
        BY <1>1, <2>3, <3>2 DEF Has, Counted
      <3>4. adapter.current[t].at = 0 /\ adapter.current[t].count = 0
        BY <3>2, <3>3
      <3>5. adapter.current[t] = table[t]
        BY <3>2, <3>3, <3>4 DEF Row
      <3>. QED BY <3>1, <3>5, LoadedFacts
    <2>. QED BY <2>1, <2>2, <2>3
  <1>. QED BY <1>2, <1>3, <1>4, LoadedFacts

LEMMA LoadMoreInv ==
    ASSUME IInv, Paging, LoadPage, Page # {}, HasMore
    PROVE  IInv'
  <1> DEFINE m == Smallest({table[s].at : s \in Page})
  <1>1. /\ TypeOK /\ Reading
        /\ UNCHANGED <<table, rows, writer, clock, signal, log, read, cancelled, faults>>
        /\ adapter' = [adapter EXCEPT !.current = Loaded, !.after = m]
        /\ known' = IF adapter.step = "first page" /\ adapter'.step = "idle" THEN Loaded ELSE known
    BY DEF LoadPage, IInv, Reading, dbVars, outVars
  <1>2. m \in Nat /\ m <= adapter.after /\ \A s \in Sessions : Older(s) /\ s \notin Page => table[s].at < m
    BY <1>1, CursorFacts
  <1> HIDE DEF m
  <1>3. /\ adapter' \in Adapters /\ adapter'.step = adapter.step /\ adapter'.previous = adapter.previous
        /\ adapter'.current = Loaded /\ adapter'.next = adapter.next /\ adapter'.after = m
        /\ adapter'.mark = adapter.mark /\ adapter'.id = adapter.id /\ adapter'.from = adapter.from
    BY <1>1, <1>2, Typed, LoadedFacts DEF Adapters, Steps
  <1>4. known' = known
    BY <1>1, <1>3 DEF Paging
  <1>5. TypeOK'
    BY <1>1, <1>3, <1>4, Typed, AdapterTyped DEF TypeOK, dbVars
  <1>6. Reading'
    <2>1. adapter.after <= clock + 1 /\ adapter.after \in Nat /\ clock \in Nat
      BY <1>1, Typed DEF Reading
    <2>2. m <= clock + 1
      BY <1>2, <2>1
    <2>. QED BY <1>1, <1>3, <1>4, <2>2 DEF Reading, Paging
  <1>7. Sound'
    BY <1>1, <1>4, SameLog DEF IInv
  <1>8. ASSUME NEW t \in Sessions PROVE Snapshots(t)' /\ Told(t)' /\ Ordered(t)' /\ Current(t)'
    <2>1. /\ table[t].at \in Nat /\ table[t].count \in Nat
          /\ Snapshots(t) /\ Told(t) /\ Ordered(t) /\ Current(t)
      BY At
    <2>2. ~Visited(t)' /\ ~Sending(t)' /\ Paging' /\ ~Diffing' /\ ~Visited(t) /\ ~Sending(t) /\ ~Diffing
      BY <1>3 DEF Visited, Sending, Paging, Diffing
    <2>3. /\ Loaded[t] = IF t \in Page THEN table[t] ELSE adapter.current[t]
          /\ Loaded[t].at \in Nat /\ Loaded[t].count \in Nat
          /\ Loaded[t].at <= table[t].at /\ Loaded[t].count <= table[t].count
          /\ Has(Loaded, t) <=> t \in Page \/ Has(adapter.current, t)
      BY LoadedFacts
    <2>4. adapter.next[t].at <= Loaded[t].at /\ adapter.next[t].count <= Loaded[t].count
      <3>1. adapter.next[t].at = 0 /\ adapter.next[t].count = 0
        BY <1>1, MissingFacts DEF Reading, Paging
      <3>. QED BY <2>3, <3>1
    <2>5. Snapshots(t)'
      <3>1. /\ adapter.previous[t].at <= table[t].at /\ adapter.previous[t].count <= table[t].count
            /\ (adapter.step = "page" \/ Diffing) /\ Has(adapter.current, t) =>
                 adapter.previous[t].count <= adapter.current[t].count
        BY <2>1 DEF Snapshots
      <3>2. (adapter.step = "page" \/ Diffing) /\ Has(Loaded, t) =>
                 adapter.previous[t].count <= Loaded[t].count
        BY <2>3, <3>1
      <3>. QED BY <1>1, <1>3, <2>2, <2>3, <2>4, <3>1, <3>2 DEF Snapshots, Has
    <2>6. \A at : Newer(t, at)' <=> Newer(t, at)
      BY <1>1, <1>4 DEF Newer, CreatedAt
    <2>7. Has(table, t) => Has(adapter.current, t) \/ table[t].at < adapter.after \/ Newer(t, table[t].at)
      BY <2>1 DEF Told
    <2>8. table[t].at < adapter.after /\ Has(table, t) => t \in Page \/ table[t].at < m
      BY <1>2 DEF Older
    <2>9. Told(t)'
      <3>1. (known[t].at <= table[t].at)' /\ (\A i \in DOMAIN log : CreatedAt(i, t) => log[i].at <= table[t].at)'
        BY <1>1, <1>4, <2>1 DEF Told, CreatedAt
      <3>2. ~Has(adapter.previous, t) /\ Has(table, t) => Newer(t, table[t].at)'
        BY <1>1, <2>1, <2>6 DEF Told
      <3>3. Has(table, t) => Has(Loaded, t) \/ table[t].at < m \/ Newer(t, table[t].at)'
        BY <1>1, <2>3, <2>6, <2>7, <2>8
      <3>4. adapter.step = "page" /\ Has(Loaded, t) /\ ~Has(adapter.previous, t) => Newer(t, Loaded[t].at)
        <4>1. t \in Page => Has(table, t)
          BY <1>1, PageFacts DEF Older
        <4>. QED BY <2>1, <2>2, <2>3, <4>1 DEF Told
      <3>5. adapter.step = "page" /\ Has(adapter.current, t)' /\ ~Has(adapter.previous, t)' => Newer(t, adapter.current[t].at)'
        BY <1>3, <2>6, <3>4 DEF Has
      <3>. QED BY <1>1, <1>3, <2>2, <3>1, <3>2, <3>3, <3>5 DEF Told, Has
    <2>10. Ordered(t)'
      <3>1. Present(t)' = Present(t) /\ Floor(t)' = Floor(t)
        BY <1>3, <2>2 DEF Present, Floor, Base
      <3>2. \A f : Below(t, f)' <=> Below(t, f)
        BY <1>1, <1>4, BelowSame
      <3>. QED BY <1>1, <1>3, <2>1, <3>1, <3>2 DEF Ordered
    <2>11. Current(t)'
      <3>1. ~Pending /\ Has(adapter.current, t) => adapter.current[t] = table[t]
        BY <2>1 DEF Current
      <3>2. ~Pending /\ Has(table, t) => Has(adapter.current, t) \/ table[t].at < adapter.after
        BY <2>1 DEF Current
      <3>3. ~Pending /\ Has(Loaded, t) => Loaded[t] = table[t]
        BY <2>3, <3>1
      <3>4. ~Pending /\ Has(table, t) => Has(Loaded, t) \/ table[t].at < m
        BY <2>3, <2>8, <3>2
      <3>5. Pending' <=> Pending
        BY <1>1 DEF Pending
      <3>. QED BY <1>1, <1>3, <2>2, <3>3, <3>4, <3>5 DEF Current, Has, Paging
    <2>. QED BY <2>5, <2>9, <2>10, <2>11
  <1>. QED BY <1>1, <1>5, <1>6, <1>7, <1>8, AdapterInv DEF dbVars

LEMMA LoadLastInv ==
    ASSUME IInv, adapter.step = "page", LoadPage, IsLast
    PROVE  IInv'
  <1>1. /\ TypeOK /\ Reading
        /\ UNCHANGED <<table, rows, writer, clock, signal, log, read, cancelled, faults, known>>
        /\ adapter' = [adapter EXCEPT !.step = "diff", !.current = Loaded, !.next = Empty, !.id = 0]
    BY DEF LoadPage, IsLast, IInv, Reading, dbVars, outVars
  <1>2. /\ adapter' \in Adapters /\ adapter'.step = "diff" /\ adapter'.previous = adapter.previous
        /\ adapter'.current = Loaded /\ adapter'.next = Empty /\ adapter'.id = 0
        /\ adapter'.mark = adapter.mark
    BY <1>1, Typed, LoadedFacts, MissingFacts DEF Adapters, Steps
  <1>3. TypeOK'
    BY <1>1, <1>2, Typed, AdapterTyped DEF TypeOK, dbVars
  <1>4. Reading'
    BY <1>2 DEF Reading, Paging
  <1>5. Sound'
    BY <1>1, SameLog DEF IInv
  <1>6. ASSUME NEW t \in Sessions PROVE Snapshots(t)' /\ Told(t)' /\ Ordered(t)' /\ Current(t)'
    <2>1. /\ table[t].at \in Nat /\ table[t].count \in Nat /\ t \in Nat /\ t # 0
          /\ Snapshots(t) /\ Told(t) /\ Ordered(t) /\ Current(t)
          /\ Empty[t] = Missing /\ Empty[t].at = 0 /\ Empty[t].count = 0
      BY At, MissingFacts
    <2>2. ~Visited(t)' /\ ~Sending(t)' /\ ~Paging' /\ Diffing' /\ ~Visited(t) /\ ~Sending(t) /\ ~Diffing /\ Paging
      BY <1>2, <2>1 DEF Visited, Sending, Paging, Diffing
    <2>3. /\ Loaded[t] = IF t \in Page THEN table[t] ELSE adapter.current[t]
          /\ Loaded[t].at \in Nat /\ Loaded[t].count \in Nat
          /\ Loaded[t].at <= table[t].at /\ Loaded[t].count <= table[t].count
          /\ Has(Loaded, t) <=> t \in Page \/ Has(adapter.current, t)
      BY LoadedFacts
    <2>4. /\ Has(table, t) => Has(Loaded, t) \/ Newer(t, table[t].at)
          /\ ~Pending => Loaded[t] = table[t]
      BY <2>2, LastPage
    <2>5. Snapshots(t)'
      <3>1. /\ adapter.previous[t].at <= table[t].at /\ adapter.previous[t].count <= table[t].count
            /\ Has(adapter.current, t) => adapter.previous[t].count <= adapter.current[t].count
        BY <2>1 DEF Snapshots
      <3>2. Has(Loaded, t) => adapter.previous[t].count <= Loaded[t].count
        BY <2>3, <3>1
      <3>. QED BY <1>1, <1>2, <2>1, <2>2, <2>3, <3>1, <3>2 DEF Snapshots, Has
    <2>6. \A at : Newer(t, at)' <=> Newer(t, at)
      BY <1>1 DEF Newer, CreatedAt
    <2>7. Told(t)'
      <3>1. (known[t].at <= table[t].at)' /\ (\A i \in DOMAIN log : CreatedAt(i, t) => log[i].at <= table[t].at)'
        BY <1>1, <2>1 DEF Told, CreatedAt
      <3>2. Has(table, t) => Has(Loaded, t) \/ Newer(t, table[t].at)'
        BY <1>1, <2>4, <2>6
      <3>3. Has(Loaded, t) /\ ~Has(adapter.previous, t) => Newer(t, Loaded[t].at)
        <4>1. t \in Page => Has(table, t)
          BY <1>1, PageFacts DEF Older
        <4>. QED BY <2>1, <2>2, <2>3, <4>1 DEF Told
      <3>4. Has(adapter.current, t)' /\ ~Has(adapter.previous, t)' => Newer(t, adapter.current[t].at)'
        BY <1>2, <2>6, <3>3 DEF Has
      <3>. QED BY <1>1, <1>2, <2>2, <3>1, <3>2, <3>4 DEF Told, Has
    <2>8. Ordered(t)'
      <3>1. Present(t)' = Present(t) /\ Floor(t)' = Floor(t)
        BY <1>2, <2>2 DEF Present, Floor, Base
      <3>2. \A f : Below(t, f)' <=> Below(t, f)
        BY <1>1, BelowSame
      <3>. QED BY <1>1, <1>2, <2>1, <3>1, <3>2 DEF Ordered
    <2>9. Current(t)'
      <3>1. Pending' <=> Pending
        BY <1>1 DEF Pending
      <3>. QED BY <1>1, <1>2, <2>2, <2>4, <3>1 DEF Current
    <2>. QED BY <2>5, <2>7, <2>8, <2>9
  <1>. QED BY <1>1, <1>3, <1>4, <1>5, <1>6, AdapterInv DEF dbVars

LEMMA LoadFirstInv ==
    ASSUME IInv, IsFirst, LoadPage, IsLast
    PROVE  IInv'
  <1>1. /\ TypeOK /\ Reading /\ adapter' = Idle(Loaded)
        /\ UNCHANGED <<table, rows, writer, clock, signal, log, read, cancelled, faults>>
        /\ adapter'.step = "idle" => known' = Loaded
    BY IdleFacts DEF LoadPage, IsFirst, IsLast, IInv, Reading, dbVars, outVars
  <1>2. /\ adapter' \in Adapters /\ adapter'.step = "idle" /\ adapter'.previous = Loaded
        /\ adapter'.current = Empty /\ adapter'.next = Empty /\ adapter'.mark = adapter.mark
    BY <1>1, Typed, LoadedFacts, IdleFacts
  <1>3. known' = Loaded /\ log = <<>> /\ DOMAIN log = {} /\ Len(log) = 0 /\ DOMAIN log' = {}
    <2>1. known' = Loaded /\ log = <<>> /\ log' = log
      BY <1>1, <1>2 DEF Reading, IsFirst
    <2>2. Len(log) = 0 /\ DOMAIN log = 1..Len(log)
      BY <1>1, <2>1, Typed
    <2>. QED BY <2>1, <2>2
  <1>4. TypeOK'
    BY <1>1, <1>2, <1>3, Typed, LoadedFacts, AdapterTyped DEF TypeOK, dbVars
  <1>5. Reading'
    BY <1>2 DEF Reading, Paging
  <1>6. Sound'
    BY <1>3 DEF Sound, LogIsSound, AppendedInOrder, CreatedIsNews
  <1>7. ASSUME NEW t \in Sessions PROVE Snapshots(t)' /\ Told(t)' /\ Ordered(t)' /\ Current(t)'
    <2>1. /\ table[t].at \in Nat /\ table[t].count \in Nat
          /\ Snapshots(t) /\ Told(t) /\ Ordered(t) /\ Current(t)
          /\ Empty[t] = Missing /\ Empty[t].at = 0 /\ Empty[t].count = 0
      BY At, MissingFacts
    <2>2. ~Visited(t)' /\ ~Sending(t)' /\ ~Paging' /\ ~Diffing' /\ Paging
      BY <1>2 DEF Visited, Sending, Paging, Diffing, IsFirst
    <2>3. /\ Loaded[t].at \in Nat /\ Loaded[t].count \in Nat
          /\ Loaded[t].at <= table[t].at /\ Loaded[t].count <= table[t].count
      BY LoadedFacts
    <2>4. ~Pending => Loaded[t] = table[t]
      BY <2>2, LastPage
    <2>5. Snapshots(t)'
      <3>1. adapter.previous[t].at <= table[t].at /\ adapter.previous[t].count <= table[t].count
        BY <2>1 DEF Snapshots
      <3>2. /\ (adapter.previous[t].at <= table[t].at)' /\ (adapter.previous[t].count <= table[t].count)'
            /\ (adapter.current[t].at <= table[t].at)' /\ (adapter.current[t].count <= table[t].count)'
            /\ (adapter.next[t].at <= adapter.current[t].at)' /\ (adapter.next[t].count <= adapter.current[t].count)'
        BY <1>1, <1>2, <2>1, <2>3
      <3>. QED BY <1>2, <2>2, <3>2 DEF Snapshots
    <2>6. Told(t)'
      <3>1. ~Has(Loaded, t) /\ Has(table, t) => Newer(t, table[t].at)'
        <4>1. ~(Loaded[t].at > 0) /\ table[t].at > 0 => Loaded[t].at < table[t].at
          <5>1. table[t].at \in Nat /\ Loaded[t].at \in Nat
            BY <2>1, <2>3
          <5>. QED BY <5>1
        <4>. QED BY <1>1, <1>3, <4>1 DEF Has, Newer
      <3>. QED BY <1>1, <1>2, <1>3, <2>2, <2>3, <3>1 DEF Told, Has
    <2>7. Ordered(t)'
      <3>1. Floor(t)' = Loaded[t].count
        BY <1>2, <2>2 DEF Floor, Base
      <3>2. /\ \A o \in rows'[t] : ~(known'[t].count <= o /\ o < Loaded[t].count)
            /\ Loaded[t].count <= known'[t].count
        <4>1. known'[t].count = Loaded[t].count /\ Loaded[t].count \in Nat /\ rows'[t] \in SUBSET Nat
          BY <1>1, <1>3, <2>3, Typed
        <4>. QED BY <4>1
      <3>3. \A f : f = Loaded[t].count => Below(t, f)'
        BY <1>3, <3>2 DEF Below
      <3>. QED BY <3>1, <3>3 DEF Ordered
    <2>8. Current(t)'
      <3>1. Pending' <=> Pending
        BY <1>1 DEF Pending
      <3>. QED BY <1>1, <1>2, <2>2, <2>4, <3>1 DEF Current
    <2>. QED BY <2>5, <2>6, <2>7, <2>8
  <1>. QED BY <1>1, <1>4, <1>5, <1>6, <1>7, AdapterInv DEF dbVars

LEMMA LoadPageInv ==
    ASSUME IInv, LoadPage
    PROVE  IInv'
  <1>1. adapter.step = "page" \/ adapter.step = "first page"
    BY DEF LoadPage
  <1>. QED BY <1>1, LoadMoreInv, LoadLastInv, LoadFirstInv DEF Paging, IsFirst, IsLast

-----------------------------------------------------------------------------
(* Failing reads of a snapshot.                                            *)

(* What an event of another kind or session leaves true of a session.      *)
Extends(t) ==
    /\ \A at \in Nat : Newer(t, at) => Newer(t, at)'
    /\ \A floor \in Nat : Below(t, floor) => Below(t, floor)'
    /\ \A i \in DOMAIN log' : CreatedAt(i, t)' => log'[i].at <= table[t].at
    /\ known'[t] = known[t]
    /\ Failed(adapter.mark) => Failed(adapter.mark)'

LEMMA ExtendsSame ==
    ASSUME IInv, UNCHANGED <<log, known, rows>>, adapter'.mark = adapter.mark, NEW t \in Sessions
    PROVE  Extends(t)
  <1>1. \A floor \in Nat : Below(t, floor) => Below(t, floor)'
    BY BelowSame
  <1>2. \A at \in Nat : Newer(t, at) => Newer(t, at)'
    BY DEF Newer, CreatedAt
  <1>3. \A i \in DOMAIN log' : CreatedAt(i, t)' => log'[i].at <= table[t].at
    BY At DEF CreatedAt
  <1>4. Failed(adapter.mark) => Failed(adapter.mark)'
    BY DEF Failed
  <1>. QED BY <1>1, <1>2, <1>3, <1>4 DEF Extends

LEMMA FailedSent ==
    ASSUME IInv, NEW ev \in Event, log' = Append(log, ev), adapter'.mark = adapter.mark
    PROVE  /\ Failed(adapter.mark) => Failed(adapter.mark)'
           /\ ev.type = "error" => Failed(adapter.mark)'
  <1>1. TypeOK
    BY DEF IInv
  <1>2. Failed(adapter.mark)' <=> \E i \in (adapter.mark + 1)..Len(log') : log'[i].type = "error"
    BY DEF Failed
  <1>. QED BY <1>1, <1>2, FailedStays

LEMMA ExtendsSent ==
    ASSUME IInv, NEW ev \in Event, log' = Append(log, ev), UNCHANGED <<known, rows>>,
           adapter'.mark = adapter.mark, NEW t \in Sessions, ev.type \in {"created", "appended"} => ev.s # t
    PROVE  Extends(t)
  <1>1. TypeOK
    BY DEF IInv
  <1>2. \A floor \in Nat : Below(t, floor) => Below(t, floor)'
    BY <1>1, BelowStays
  <1>3. /\ \A i \in DOMAIN log' : CreatedAt(i, t)' => i \in DOMAIN log /\ CreatedAt(i, t) /\ log'[i].at = log[i].at
        /\ \A at \in Nat : Newer(t, at) => Newer(t, at)'
    BY <1>1, NewsStays
  <1>4. \A i \in DOMAIN log' : CreatedAt(i, t)' => log'[i].at <= table[t].at
    BY <1>3, At
  <1>. QED BY <1>2, <1>3, <1>4, FailedSent DEF Extends

LEMMA ErrorFacts ==
    ASSUME NEW s \in Sessions \cup {0}
    PROVE  Error(s) \in Event /\ Error(s).type = "error"
  BY DEF Error, Event

LEMMA LoadFailsInv ==
    ASSUME IInv, LoadFails
    PROVE  IInv'
  <1>1. /\ TypeOK /\ UNCHANGED <<table, rows, writer, clock, signal, read, cancelled, known>>
        /\ faults \in Nat /\ faults > 0 /\ faults' = faults - 1
    BY DEF LoadFails, Fault, IInv, dbVars, TypeOK
  <1>2. faults' \in Nat
    BY <1>1
  <1>3. CASE adapter' = [NewAdapter EXCEPT !.step = "done"] /\ UNCHANGED log
    BY <1>1, <1>2, <1>3, DoneInv
  <1>4. CASE adapter.step = "page" /\ Send(Error(0)) /\ adapter' = Idle(adapter.previous)
    <2>1. log' = Append(log, Error(0)) /\ Len(log) - read < OutCap /\ Error(0) \in Event
          /\ Error(0).type = "error"
      BY <1>4, ErrorFacts DEF Send
    <2>2. /\ adapter' \in Adapters /\ adapter'.step = "idle" /\ adapter'.previous = adapter.previous
          /\ adapter'.current = Empty /\ adapter'.next = Empty /\ adapter'.mark = adapter.mark
      BY <1>1, <1>4, Typed, IdleFacts
    <2>3. log' \in Seq(Event) /\ Len(log') = Len(log) + 1 /\ Len(log) \in Nat
      BY <1>1, <2>1, Appends
    <2>4. TypeOK'
      <3>1. adapter.mark <= Len(log) /\ adapter.mark \in Nat /\ read \in 0..Len(log) /\ OutCap \in Nat
        BY <1>1, Typed, AdapterAssumption DEF TypeOK
      <3>2. adapter'.mark <= Len(log') /\ read' \in 0..Len(log') /\ Len(log') - read' <= OutCap
        BY <1>1, <2>1, <2>2, <2>3, <3>1
      <3>3. signal' \in Nat /\ cancelled' \in BOOLEAN /\ known' \in [Sessions -> Row]
        BY <1>1 DEF TypeOK
      <3>. QED BY <1>1, <1>2, <2>2, <2>3, <3>2, <3>3, AdapterTyped DEF dbVars
    <2>5. Reading'
      BY <2>2 DEF Reading, Paging
    <2>6. Sound'
      BY <1>1, <2>1, SoundStays DEF IInv
    <2>7. ASSUME NEW t \in Sessions PROVE Snapshots(t)' /\ Told(t)' /\ Ordered(t)' /\ Current(t)'
      <3>1. /\ table[t].at \in Nat /\ table[t].count \in Nat /\ known[t].at <= table[t].at
            /\ adapter.previous[t].count \in Nat
            /\ Snapshots(t) /\ Told(t) /\ Ordered(t) /\ Current(t)
            /\ Empty[t] = Missing /\ Empty[t].at = 0 /\ Empty[t].count = 0
        BY At, MissingFacts
      <3>2. ~Visited(t)' /\ ~Sending(t)' /\ ~Paging' /\ ~Diffing' /\ ~Visited(t) /\ ~Sending(t)
        BY <1>4, <2>2 DEF Visited, Sending, Paging, Diffing
      <3>3. Extends(t)
        BY <1>1, <2>1, <2>2, ExtendsSent
      <3>4. Snapshots(t)'
        BY <1>1, <2>2, <3>1, <3>2 DEF Snapshots, Has
      <3>5. Told(t)'
        <4>1. ~Has(adapter.previous, t) /\ Has(table, t) => Newer(t, table[t].at)
          BY <1>4, <3>1 DEF Told, Paging
        <4>2. Newer(t, table[t].at) => Newer(t, table[t].at)'
          BY <1>1, <3>1, <3>3 DEF Extends
        <4>3. (known[t].at <= table[t].at)' /\ (\A i \in DOMAIN log : CreatedAt(i, t) => log[i].at <= table[t].at)'
          BY <1>1, <3>1, <3>3 DEF Extends
        <4>. QED BY <1>1, <2>2, <3>2, <4>1, <4>2, <4>3 DEF Told, Has
      <3>6. Ordered(t)'
        <4>1. Present(t)' = Present(t) /\ Floor(t)' = Floor(t) /\ Floor(t) \in Nat
          BY <2>2, <3>1, <3>2 DEF Present, Floor, Base
        <4>2. \A f \in Nat : Below(t, f) => Below(t, f)'
          BY <3>3 DEF Extends
        <4>3. Present(t) => Below(t, Floor(t))
          BY <1>4, <3>1 DEF Ordered
        <4>. QED BY <4>1, <4>2, <4>3 DEF Ordered
      <3>7. Current(t)'
        <4>1. Failed(adapter.mark)'
          BY <2>1, <2>2, FailedSent
        <4>. QED BY <2>2, <3>2, <4>1 DEF Current
      <3>. QED BY <3>4, <3>5, <3>6, <3>7
    <2>. QED BY <1>1, <2>4, <2>5, <2>6, <2>7, AdapterInv DEF dbVars
  <1>. QED BY <1>3, <1>4 DEF LoadFails

-----------------------------------------------------------------------------
(* Visiting the sessions of the snapshot in order.                         *)

(* The adapter comes to a session: the others are where they were, or are  *)
(* passed over because the snapshot does not have them.                    *)
Reached(s) ==
    /\ Diffing /\ s \in Sessions /\ Has(adapter.current, s) /\ ~Visited(s)
    /\ \A t \in Sessions \ {s} :
          /\ ~Sending(t)
          /\ (Visited(t) <=> t < s) \/ (t < s /\ ~Visited(t) /\ ~Has(adapter.current, t))

LEMMA NextReached ==
    ASSUME IInv, adapter.step = "diff", Remaining # {}
    PROVE  Reached(Smallest(Remaining)) /\ ~Sending(Smallest(Remaining))
  <1> DEFINE s == Smallest(Remaining)
  <1>1. TypeOK /\ adapter.id \in Nat /\ \A t \in Sessions : t \in Nat
    BY Typed DEF IInv
  <1>2. Remaining \in SUBSET Nat
    BY <1>1 DEF Remaining
  <1>3. s \in Remaining /\ \A x \in Remaining : s <= x
    BY <1>2, SmallestExists
  <1> HIDE DEF s
  <1>4. s \in Sessions /\ s \in Nat /\ s > adapter.id /\ Has(adapter.current, s)
    BY <1>1, <1>3 DEF Remaining
  <1>5. \A t \in Sessions : ~Sending(t) /\ (Visited(t) <=> t < adapter.id \/ t = adapter.id)
    BY DEF Sending, Visited, Diffing
  <1>6. ASSUME NEW t \in Sessions \ {s}
        PROVE  (Visited(t) <=> t < s) \/ (t < s /\ ~Visited(t) /\ ~Has(adapter.current, t))
    <2>1. t \in Nat /\ (t > adapter.id /\ Has(adapter.current, t) => s <= t)
      BY <1>1, <1>3 DEF Remaining
    <2>. QED BY <1>1, <1>4, <1>5, <1>6, <2>1
  <1>7. ~Visited(s) /\ Diffing
    BY <1>1, <1>4, <1>5 DEF Diffing
  <1>. QED BY <1>4, <1>5, <1>6, <1>7 DEF Reached, s

LEMMA SendReached ==
    ASSUME IInv, adapter.step \in {"append", "send"}
    PROVE  Reached(adapter.id) /\ Sending(adapter.id)
  <1>1. TypeOK /\ adapter.id \in Nat /\ \A t \in Sessions : t \in Nat
    BY Typed DEF IInv
  <1>2. adapter.id \in Sessions /\ Has(adapter.current, adapter.id)
    BY DEF IInv, Reading
  <1>3. \A t \in Sessions : Visited(t) <=> t < adapter.id
    BY DEF Visited, Diffing
  <1>4. Diffing /\ Sending(adapter.id) /\ ~Visited(adapter.id) /\ \A t \in Sessions \ {adapter.id} : ~Sending(t)
    BY <1>1, <1>2, <1>3 DEF Diffing, Sending
  <1>. QED BY <1>2, <1>3, <1>4 DEF Reached

(* What a step about session s leaves alone.                               *)
About(s) ==
    /\ adapter' \in Adapters
    /\ adapter'.step \in {"diff", "append", "send"}
    /\ adapter'.id = s
    /\ adapter'.previous = adapter.previous
    /\ adapter'.current = adapter.current
    /\ adapter'.mark = adapter.mark
    /\ \A t \in Sessions \ {s} : adapter'.next[t] = adapter.next[t] /\ Extends(t)
    /\ UNCHANGED <<table, rows, writer, clock, signal, read, known, cancelled>>

(* The other sessions.                                                     *)
LEMMA OthersInv ==
    ASSUME IInv, NEW s, Reached(s), About(s), NEW t \in Sessions \ {s}
    PROVE  Snapshots(t)' /\ Told(t)' /\ Ordered(t)' /\ Current(t)'
  <1>1. /\ table[t].at \in Nat /\ table[t].count \in Nat /\ known[t].at <= table[t].at
        /\ adapter.previous[t].count \in Nat /\ adapter.next[t].count \in Nat /\ adapter.current[t].at \in Nat
        /\ adapter.current[t].count \in Nat
        /\ Snapshots(t) /\ Told(t) /\ Ordered(t) /\ Current(t) /\ Counted(t)
    BY At
  <1>2. /\ adapter'.step \in {"diff", "append", "send"} /\ adapter'.id = s
        /\ adapter'.previous = adapter.previous /\ adapter'.current = adapter.current
        /\ adapter'.mark = adapter.mark /\ adapter'.next[t] = adapter.next[t] /\ Extends(t)
        /\ UNCHANGED <<table, writer, signal, known>>
    BY DEF About
  <1>3. Diffing /\ Diffing' /\ ~Paging /\ ~Paging' /\ adapter'.step # "idle" /\ adapter'.step # "done"
        /\ ~Sending(t)' /\ ~Sending(t) /\ adapter.step # "idle" /\ adapter.step # "done"
    BY <1>2 DEF Reached, Diffing, Paging, Sending
  <1>4. Visited(t)' <=> t < s
    BY <1>2 DEF Visited, Diffing
  <1>5. (Visited(t)' <=> Visited(t)) \/ (Visited(t)' /\ ~Visited(t) /\ ~Has(adapter.current, t))
    BY <1>4 DEF Reached
  <1>6. Snapshots(t)'
    <2>1. IF Visited(t)' /\ Has(adapter.current, t)
          THEN Has(adapter.next, t) ELSE adapter.next[t] = Missing
      BY <1>1, <1>3, <1>5 DEF Snapshots
    <2>. QED BY <1>1, <1>2, <1>3, <2>1 DEF Snapshots, Has
  <1>7. Told(t)'
    <2>1. Has(adapter.current, t) /\ ~Has(adapter.previous, t) /\ ~Visited(t)' => Newer(t, adapter.current[t].at)
      BY <1>1, <1>3, <1>5 DEF Told
    <2>2. ~Has(adapter.current, t) /\ Has(table, t) => Newer(t, table[t].at)
      BY <1>1, <1>3 DEF Told
    <2>3. \A at \in Nat : Newer(t, at) => Newer(t, at)'
      BY <1>2 DEF Extends
    <2>4. (known[t].at <= table[t].at)' /\ (\A i \in DOMAIN log : CreatedAt(i, t) => log[i].at <= table[t].at)'
      BY <1>1, <1>2 DEF Extends
    <2>5. (Has(adapter.current, t) /\ ~Has(adapter.previous, t))' /\ ~Visited(t)' => Newer(t, adapter.current[t].at)'
      BY <1>1, <1>2, <2>1, <2>3 DEF Has
    <2>6. (~Has(adapter.current, t) /\ Has(table, t))' => Newer(t, table[t].at)'
      BY <1>1, <1>2, <2>2, <2>3 DEF Has
    <2>. QED BY <1>3, <2>4, <2>5, <2>6 DEF Told
  <1>8. Ordered(t)'
    <2>1. CASE Visited(t)' <=> Visited(t)
      <3>1. Base(t)' = Base(t) /\ Base(t).count \in Nat
        BY <1>1, <1>2, <2>1 DEF Base
      <3>2. Present(t)' = Present(t) /\ Floor(t)' = Floor(t) /\ Floor(t) \in Nat
        BY <1>3, <3>1 DEF Present, Floor
      <3>3. \A f \in Nat : Below(t, f) => Below(t, f)'
        BY <1>2 DEF Extends
      <3>4. Present(t) => Below(t, Floor(t))
        BY <1>1, <1>3 DEF Ordered
      <3>. QED BY <3>2, <3>3, <3>4 DEF Ordered
    <2>2. CASE Visited(t)' /\ ~Visited(t) /\ ~Has(adapter.current, t)
      <3>1. adapter.next[t] = Missing
        BY <1>1, <1>3, <2>2 DEF Snapshots
      <3>2. Base(t)' = Missing
        BY <1>2, <2>2, <3>1 DEF Base
      <3>3. ~Present(t)'
        BY <1>3, <3>2, MissingFacts DEF Present
      <3>. QED BY <3>3 DEF Ordered
    <2>. QED BY <1>5, <2>1, <2>2
  <1>9. Current(t)'
    <2>1. Pending' <=> Pending
      BY <1>2 DEF Pending
    <2>2. ~Pending => adapter.current[t] = table[t]
      BY <1>1, <1>3 DEF Current
    <2>3. ~Pending /\ Visited(t) => adapter.next[t] = adapter.current[t] \/ Failed(adapter.mark)
      BY <1>1 DEF Current
    <2>4. ~Pending /\ ~Visited(t) /\ ~Has(adapter.current, t) => adapter.next[t] = adapter.current[t]
      <3> SUFFICES ASSUME ~Pending, ~Visited(t), ~Has(adapter.current, t) PROVE adapter.next[t] = adapter.current[t]
        OBVIOUS
      <3>1. adapter.next[t] = Missing
        BY <1>1, <1>3 DEF Snapshots
      <3>2. adapter.current[t].at = 0
        BY <1>1 DEF Has
      <3>3. adapter.current[t].count = 0
        BY <1>1, <2>2, <3>2 DEF Counted
      <3>4. adapter.current[t] \in Row
        BY Typed DEF IInv
      <3>. QED BY <3>1, <3>2, <3>3, <3>4 DEF Row, Missing
    <2>5. ~Pending /\ Visited(t)' => adapter.next[t] = adapter.current[t] \/ Failed(adapter.mark)'
      BY <1>2, <1>5, <2>3, <2>4 DEF Extends
    <2>. QED BY <1>2, <1>3, <2>1, <2>2, <2>5 DEF Current
  <1>. QED BY <1>6, <1>7, <1>8, <1>9

(* The session itself, when the adapter is done with it.                   *)
LEMMA KeptInv ==
    ASSUME IInv, NEW s, Reached(s), About(s), adapter'.step = "diff",
           NEW r \in Row, adapter'.next[s] = r, r.at = adapter.current[s].at,
           r.count <= adapter.current[s].count, Below(s, r.count)',
           \A i \in DOMAIN log' : CreatedAt(i, s)' => log'[i].at <= table[s].at,
           ~Pending => r = adapter.current[s] \/ Failed(adapter.mark)'
    PROVE  Snapshots(s)' /\ Told(s)' /\ Ordered(s)' /\ Current(s)'
  <1>1. /\ s \in Sessions /\ table[s].at \in Nat /\ table[s].count \in Nat /\ known[s].at <= table[s].at
        /\ adapter.current[s].at \in Nat /\ adapter.current[s].at > 0
        /\ Snapshots(s) /\ Told(s) /\ Current(s)
    BY At DEF Reached, Has
  <1>2. /\ adapter'.id = s
        /\ adapter'.previous = adapter.previous /\ adapter'.current = adapter.current
        /\ adapter'.mark = adapter.mark
        /\ UNCHANGED <<table, writer, signal, known>>
    BY DEF About
  <1>3. Diffing /\ Diffing' /\ ~Paging /\ ~Paging' /\ adapter'.step # "idle" /\ adapter'.step # "done"
        /\ ~Sending(s)' /\ Visited(s)' /\ adapter.step # "idle"
    BY <1>2 DEF Reached, Diffing, Paging, Sending, Visited
  <1>4. Snapshots(s)'
    BY <1>1, <1>2, <1>3 DEF Snapshots, Has
  <1>5. Told(s)'
    <2>1. (known[s].at <= table[s].at)' /\ (\A i \in DOMAIN log : CreatedAt(i, s) => log[i].at <= table[s].at)'
      BY <1>1, <1>2
    <2>2. Has(adapter.current, s)'
      BY <1>1, <1>2 DEF Has
    <2>. QED BY <1>3, <2>1, <2>2 DEF Told
  <1>6. Ordered(s)'
    <2>1. Floor(s)' = r.count
      BY <1>3 DEF Floor, Base
    <2>. QED BY <2>1 DEF Ordered
  <1>7. Current(s)'
    <2>1. Pending' <=> Pending
      BY <1>2 DEF Pending
    <2>2. ~Pending => adapter.current[s] = table[s]
      BY <1>1, <1>3 DEF Current
    <2>. QED BY <1>2, <1>3, <2>1, <2>2 DEF Current
  <1>. QED BY <1>4, <1>5, <1>6, <1>7

(* The session itself, while its messages are sent.                        *)
LEMMA SendingInv ==
    ASSUME IInv, NEW s, Reached(s), About(s), adapter'.step \in {"append", "send"},
           adapter'.next[s] = adapter.next[s], Below(s, adapter.from)',
           \A i \in DOMAIN log' : CreatedAt(i, s)' => log'[i].at <= table[s].at
    PROVE  Snapshots(s)' /\ Told(s)' /\ Ordered(s)' /\ Current(s)'
  <1>1. /\ s \in Sessions /\ s \in Nat /\ table[s].at \in Nat /\ table[s].count \in Nat /\ known[s].at <= table[s].at
        /\ adapter.current[s].at \in Nat /\ adapter.current[s].at > 0 /\ ~Visited(s)
        /\ Snapshots(s) /\ Told(s) /\ Current(s)
    BY At DEF Reached, Has
  <1>2. /\ adapter'.id = s
        /\ adapter'.previous = adapter.previous /\ adapter'.current = adapter.current
        /\ adapter'.mark = adapter.mark
        /\ UNCHANGED <<table, writer, signal, known>>
    BY DEF About
  <1>3. Diffing /\ Diffing' /\ ~Paging /\ ~Paging' /\ adapter'.step # "idle" /\ adapter'.step # "done"
        /\ Sending(s)' /\ ~Visited(s)' /\ adapter.step # "idle"
    <2>1. Diffing /\ Diffing' /\ Sending(s)' /\ adapter'.step # "diff"
      BY <1>2 DEF Reached, Diffing, Sending
    <2>2. ~Visited(s)'
      BY <1>1, <1>2, <2>1 DEF Visited
    <2>. QED BY <2>1, <2>2 DEF Diffing, Paging
  <1>4. Snapshots(s)'
    BY <1>1, <1>2, <1>3 DEF Snapshots, Has
  <1>5. Told(s)'
    <2>1. (known[s].at <= table[s].at)' /\ (\A i \in DOMAIN log : CreatedAt(i, s) => log[i].at <= table[s].at)'
      BY <1>1, <1>2
    <2>2. Has(adapter.current, s)'
      BY <1>1, <1>2 DEF Has
    <2>. QED BY <1>3, <2>1, <2>2 DEF Told
  <1>6. Ordered(s)'
    <2>1. Floor(s)' = adapter'.from
      BY <1>3 DEF Floor
    <2>. QED BY <2>1 DEF Ordered
  <1>7. Current(s)'
    <2>1. Pending' <=> Pending
      BY <1>2 DEF Pending
    <2>2. ~Pending => adapter.current[s] = table[s]
      BY <1>1, <1>3 DEF Current
    <2>. QED BY <1>2, <1>3, <2>1, <2>2 DEF Current
  <1>. QED BY <1>4, <1>5, <1>6, <1>7

LEMMA KeepFacts ==
    ASSUME adapter \in Adapters, NEW s \in Sessions, NEW r \in Row
    PROVE  /\ Keep(s, r) \in Adapters
           /\ Keep(s, r).step = "diff" /\ Keep(s, r).id = s /\ Keep(s, r).mark = adapter.mark
           /\ Keep(s, r).previous = adapter.previous /\ Keep(s, r).current = adapter.current
           /\ Keep(s, r).next[s] = r
           /\ \A t \in Sessions \ {s} : Keep(s, r).next[t] = adapter.next[t]
  BY DEF Keep, Adapters, Steps

LEMMA EmitFromFacts ==
    ASSUME adapter \in Adapters, NEW s \in Sessions, NEW from \in Nat
    PROVE  /\ EmitFrom(s, from) \in Adapters
           /\ EmitFrom(s, from).step = "append" /\ EmitFrom(s, from).id = s /\ EmitFrom(s, from).from = from
           /\ EmitFrom(s, from).previous = adapter.previous /\ EmitFrom(s, from).current = adapter.current
           /\ EmitFrom(s, from).next = adapter.next /\ EmitFrom(s, from).mark = adapter.mark
  BY DEF EmitFrom, Adapters, Steps

(* A step about one session, that sends nothing or one event.              *)
LEMMA AboutInv ==
    ASSUME IInv, NEW s, Reached(s), About(s), faults' \in Nat,
           (log' = log) \/ \E ev \in Event : Send(ev),
           Sound', Reading', Snapshots(s)', Told(s)', Ordered(s)', Current(s)'
    PROVE  IInv'
  <1>1. TypeOK /\ UNCHANGED dbVars
    BY DEF IInv, About, dbVars
  <1>2. /\ Len(log) \in Nat /\ adapter.mark <= Len(log) /\ adapter.mark \in Nat /\ read \in Nat
        /\ log \in Seq(Event) /\ OutCap \in Nat
    BY <1>1, Typed, AdapterAssumption
  <1>3. log' \in Seq(Event) /\ Len(log') \in Nat /\ Len(log) <= Len(log') /\ Len(log') - read <= OutCap
    <2>1. CASE log' = log
      <3>1. Len(log) - read <= OutCap
        BY <1>1 DEF TypeOK
      <3>. QED BY <1>2, <2>1, <3>1
    <2>2. ASSUME NEW ev \in Event, Send(ev)
          PROVE  log' \in Seq(Event) /\ Len(log') \in Nat /\ Len(log) <= Len(log') /\ Len(log') - read <= OutCap
      <3>1. log' = Append(log, ev) /\ Len(log) - read < OutCap
        BY <2>2 DEF Send
      <3>2. log' \in Seq(Event) /\ Len(log') = Len(log) + 1
        BY <1>1, <3>1, Appends
      <3>. QED BY <1>2, <3>1, <3>2
    <2>. QED BY <2>1, <2>2
  <1>4. TypeOK'
    <2>1. /\ adapter' \in Adapters /\ adapter'.mark = adapter.mark /\ read' = read
          /\ UNCHANGED <<signal, cancelled, known>>
      BY DEF About
    <2>2. read \in 0..Len(log) /\ signal \in Nat /\ cancelled \in BOOLEAN /\ known \in [Sessions -> Row]
      BY <1>1 DEF TypeOK
    <2>3. read' \in 0..Len(log') /\ Len(log') - read' <= OutCap /\ adapter'.mark <= Len(log')
      BY <1>2, <1>3, <2>1, <2>2
    <2>. QED BY <1>1, <1>3, <2>1, <2>2, <2>3, AdapterTyped
  <1>5. ASSUME NEW t \in Sessions PROVE Snapshots(t)' /\ Told(t)' /\ Ordered(t)' /\ Current(t)'
    BY OthersInv
  <1>. QED BY <1>1, <1>4, <1>5, AdapterInv

LEMMA FloorBelow ==
    ASSUME IInv, NEW s, Reached(s)
    PROVE  /\ ~Sending(s) /\ Has(adapter.previous, s) => Below(s, adapter.previous[s].count)
           /\ Sending(s) => Below(s, adapter.from)
           /\ adapter.previous[s].count <= adapter.current[s].count
           /\ ~Pending => adapter.current[s] = table[s]
           /\ ~Has(adapter.previous, s) /\ ~Sending(s) => Newer(s, adapter.current[s].at)
  <1>1. Ordered(s) /\ Snapshots(s) /\ Current(s) /\ Told(s) /\ s \in Sessions
    BY At DEF Reached
  <1>2. Diffing /\ ~Visited(s) /\ Has(adapter.current, s) /\ adapter.step # "done"
    BY DEF Reached, Diffing
  <1>3. ~Sending(s) /\ Has(adapter.previous, s) => Below(s, adapter.previous[s].count)
    BY <1>1, <1>2 DEF Ordered, Present, Floor, Base, Has
  <1>4. Sending(s) => Below(s, adapter.from)
    BY <1>1, <1>2 DEF Ordered, Present, Floor
  <1>5. adapter.previous[s].count <= adapter.current[s].count
    BY <1>1, <1>2 DEF Snapshots
  <1>6. ~Pending => adapter.current[s] = table[s]
    BY <1>1, <1>2 DEF Current
  <1>7. ~Has(adapter.previous, s) /\ ~Sending(s) => Newer(s, adapter.current[s].at)
    BY <1>1, <1>2 DEF Told
  <1>. QED BY <1>3, <1>4, <1>5, <1>6, <1>7

LEMMA EventFacts ==
    ASSUME NEW s \in Sessions, NEW r \in Row
    PROVE  /\ Created(s, r) \in Event /\ Created(s, r).type = "created" /\ Created(s, r).s = s
           /\ Created(s, r).at = r.at
           /\ Updated(s, r) \in Event /\ Updated(s, r).type = "updated" /\ Updated(s, r).s = s
  BY DEF Created, Updated, SessionEvent, Event, Row

LEMMA VisitUnchangedInv ==
    ASSUME IInv, NEW s, NEW r, Reached(s), ~Sending(s), r = adapter.current[s], VisitUnchanged(s, r)
    PROVE  IInv'
  <1>1. /\ TypeOK /\ adapter \in Adapters /\ s \in Sessions /\ r \in Row /\ r.at > 0 /\ r.count \in Nat
        /\ adapter.previous[s] = r /\ adapter' = Keep(s, r)
        /\ UNCHANGED <<table, rows, writer, clock, signal, log, read, cancelled, faults, known>>
    BY Typed DEF IInv, VisitUnchanged, AdapterOnly, dbVars, outVars, Reached, Has
  <1>2. /\ adapter' \in Adapters
        /\ adapter'.step = "diff" /\ adapter'.id = s /\ adapter'.mark = adapter.mark
        /\ adapter'.previous = adapter.previous /\ adapter'.current = adapter.current
        /\ adapter'.next[s] = r /\ \A t \in Sessions \ {s} : adapter'.next[t] = adapter.next[t]
    BY <1>1, KeepFacts
  <1>3. \A t \in Sessions : Extends(t)
    BY <1>1, <1>2, ExtendsSame
  <1>4. About(s)
    BY <1>1, <1>2, <1>3 DEF About
  <1>5. Below(s, r.count)'
    <2>1. Below(s, r.count)
      BY <1>1, FloorBelow DEF Has
    <2>. QED BY <1>1, <1>3, <2>1 DEF Extends
  <1>6. r.at = adapter.current[s].at /\ r.count <= adapter.current[s].count
    BY <1>1
  <1>7. Snapshots(s)' /\ Told(s)' /\ Ordered(s)' /\ Current(s)'
    <2>1. \A i \in DOMAIN log' : CreatedAt(i, s)' => log'[i].at <= table[s].at
      BY <1>1, <1>3 DEF Extends
    <2>. QED BY <1>1, <1>2, <1>4, <1>5, <1>6, <2>1, KeptInv
  <1>8. Reading'
    BY <1>2 DEF Reading, Paging
  <1>9. Sound'
    BY <1>1, SameLog DEF IInv
  <1>10. faults' \in Nat
    BY <1>1 DEF TypeOK
  <1>. QED BY <1>1, <1>4, <1>7, <1>8, <1>9, <1>10, AboutInv

LEMMA VisitCreatedInv ==
    ASSUME IInv, NEW s, NEW r, Reached(s), ~Sending(s), r = adapter.current[s], VisitCreated(s, r)
    PROVE  IInv'
  <1> DEFINE ev == Created(s, r)
  <1>1. /\ TypeOK /\ adapter \in Adapters /\ s \in Sessions /\ r \in Row /\ r.at > 0 /\ r.count \in Nat
        /\ ~Has(adapter.previous, s) /\ adapter' = EmitFrom(s, 0) /\ Send(ev) /\ log' = Append(log, ev)
        /\ UNCHANGED <<table, rows, writer, clock, signal, read, cancelled, faults, known>>
        /\ known[s].count \in Nat /\ known[s].at \in Nat
    BY Typed DEF IInv, VisitCreated, Sends, Send, dbVars, outVars, Reached, Has
  <1>2. /\ adapter' \in Adapters
        /\ adapter'.step = "append" /\ adapter'.id = s /\ adapter'.mark = adapter.mark /\ adapter'.from = 0
        /\ adapter'.previous = adapter.previous /\ adapter'.current = adapter.current
        /\ adapter'.next = adapter.next
    BY <1>1, EmitFromFacts
  <1>3. ev \in Event /\ ev.type = "created" /\ ev.s = s /\ ev.at = r.at
    BY <1>1, EventFacts
  <1> HIDE DEF ev
  <1>4. \A t \in Sessions \ {s} : Extends(t)
    BY <1>1, <1>2, <1>3, ExtendsSent
  <1>5. About(s)
    BY <1>1, <1>2, <1>4 DEF About
  <1>6. Sound'
    <2>1. Newer(s, r.at)
      BY <1>1, FloorBelow
    <2>. QED BY <1>1, <1>3, <2>1, SoundStays DEF IInv
  <1>7. PICK n \in Nat :
           /\ DOMAIN log' = 1..n /\ n \in DOMAIN log' /\ log'[n] = ev /\ Len(log') = n
           /\ \A i \in DOMAIN log' : (i \in DOMAIN log /\ log'[i] = log[i]) \/ i = n
    <2>1. Len(log) + 1 \in Nat
      BY <1>1, Typed
    <2>. QED BY <1>1, <1>3, <2>1, Appends
  <1>8. Below(s, 0)'
    <2>1. CreatedAt(n, s)'
      BY <1>3, <1>7 DEF CreatedAt
    <2>2. \A i \in DOMAIN log' : n \in i..Len(log')
      BY <1>7
    <2>3. 0 <= known'[s].count /\ \A o \in rows'[s] : ~(o < 0)
      <3>1. rows'[s] \in SUBSET Nat
        BY <1>1, Typed
      <3>. QED BY <1>1, <3>1
    <2>. QED BY <2>1, <2>2, <2>3 DEF Below, Retold
  <1>9. \A i \in DOMAIN log' : CreatedAt(i, s)' => log'[i].at <= table[s].at
    <2>1. r.at <= table[s].at /\ \A i \in DOMAIN log : CreatedAt(i, s) => log[i].at <= table[s].at
      BY <1>1, At DEF Snapshots
    <2>. QED BY <1>3, <1>7, <2>1 DEF CreatedAt
  <1>10. Below(s, adapter.from)'
    BY <1>2, <1>8
  <1>11. Snapshots(s)' /\ Told(s)' /\ Ordered(s)' /\ Current(s)'
    BY <1>2, <1>5, <1>9, <1>10, SendingInv
  <1>12. Reading'
    <2>1. 0 <= adapter.current[s].count /\ Has(adapter.current, s)
      BY <1>1 DEF Has
    <2>2. Headed(s, 0)'
      <3>1. HeadAt(n, s)'
        BY <1>3, <1>7 DEF HeadAt
      <3>2. \A i \in DOMAIN log' : n \in i..Len(log')
        BY <1>7
      <3>. QED BY <3>1, <3>2 DEF Headed
    <2>3. Headed(adapter.id, adapter.from)'
      BY <1>2, <2>2
    <2>. QED BY <1>1, <1>2, <2>1, <2>3 DEF Reading, Paging, Has
  <1>13. faults' \in Nat
    BY <1>1 DEF TypeOK
  <1>. QED BY <1>1, <1>3, <1>5, <1>6, <1>11, <1>12, <1>13, AboutInv

LEMMA VisitUpdatedInv ==
    ASSUME IInv, NEW s, NEW r, Reached(s), ~Sending(s), r = adapter.current[s], VisitUpdated(s, r)
    PROVE  IInv'
  <1> DEFINE ev == Updated(s, r)
  <1>1. /\ TypeOK /\ adapter \in Adapters /\ s \in Sessions /\ r \in Row /\ r.at > 0 /\ r.count \in Nat
        /\ Has(adapter.previous, s) /\ Send(ev) /\ log' = Append(log, ev)
        /\ adapter' = IF r.count > adapter.previous[s].count THEN EmitFrom(s, adapter.previous[s].count)
                                                             ELSE Keep(s, r)
        /\ UNCHANGED <<table, rows, writer, clock, signal, read, cancelled, faults, known>>
        /\ adapter.previous[s].count \in Nat
    BY Typed DEF IInv, VisitUpdated, Sends, Send, dbVars, outVars, Reached, Has
  <1>2. ev \in Event /\ ev.type = "updated" /\ ev.s = s
    BY <1>1, EventFacts
  <1> HIDE DEF ev
  <1>3. /\ Below(s, adapter.previous[s].count) /\ adapter.previous[s].count <= r.count
        /\ ~Pending => r = table[s]
    BY <1>1, FloorBelow
  <1>4. Sound'
    BY <1>1, <1>2, SoundStays DEF IInv
  <1>5. faults' \in Nat
    BY <1>1 DEF TypeOK
  <1>6. CASE r.count > adapter.previous[s].count
    <2>1. PICK f \in Nat : f = adapter.previous[s].count
      BY <1>1
    <2>2. /\ adapter' \in Adapters
          /\ adapter'.step = "append" /\ adapter'.id = s /\ adapter'.mark = adapter.mark /\ adapter'.from = f
          /\ adapter'.previous = adapter.previous /\ adapter'.current = adapter.current
          /\ adapter'.next = adapter.next
      BY <1>1, <1>6, <2>1, EmitFromFacts
    <2>3. \A t \in Sessions : Extends(t)
      BY <1>1, <1>2, <2>2, ExtendsSent
    <2>4. About(s)
      BY <1>1, <2>2, <2>3 DEF About
    <2>5. Below(s, f)'
      BY <1>1, <1>3, <2>1, <2>3 DEF Extends
    <2>6. Below(s, adapter.from)'
      BY <2>2, <2>5
    <2>7. Snapshots(s)' /\ Told(s)' /\ Ordered(s)' /\ Current(s)'
      <3>1. \A i \in DOMAIN log' : CreatedAt(i, s)' => log'[i].at <= table[s].at
        BY <1>1, <2>3 DEF Extends
      <3>. QED BY <2>2, <2>4, <2>6, <3>1, SendingInv
    <2>8. Reading'
      <3>1. f <= adapter.current[s].count /\ Has(adapter.current, s)
        BY <1>1, <1>3, <2>1 DEF Has
      <3>2. PICK n \in Nat :
               /\ DOMAIN log' = 1..n /\ n \in DOMAIN log' /\ log'[n] = ev /\ Len(log') = n
        <4>1. Len(log) + 1 \in Nat
          BY <1>1, Typed
        <4>. QED BY <1>1, <1>2, <4>1, Appends
      <3>3. Headed(s, f)'
        <4>1. HeadAt(n, s)'
          BY <1>2, <3>2 DEF HeadAt
        <4>2. \A i \in DOMAIN log' : n \in i..Len(log')
          BY <3>2
        <4>. QED BY <4>1, <4>2 DEF Headed
      <3>4. Headed(adapter.id, adapter.from)'
        BY <2>2, <3>3
      <3>. QED BY <1>1, <2>2, <3>1, <3>4 DEF Reading, Paging, Has
    <2>. QED BY <1>1, <1>2, <1>4, <1>5, <2>4, <2>7, <2>8, AboutInv
  <1>7. CASE ~(r.count > adapter.previous[s].count)
    <2>1. /\ adapter' \in Adapters
          /\ adapter'.step = "diff" /\ adapter'.id = s /\ adapter'.mark = adapter.mark
          /\ adapter'.previous = adapter.previous /\ adapter'.current = adapter.current
          /\ adapter'.next[s] = r /\ \A t \in Sessions \ {s} : adapter'.next[t] = adapter.next[t]
      BY <1>1, <1>7, KeepFacts
    <2>2. \A t \in Sessions : Extends(t)
      BY <1>1, <1>2, <2>1, ExtendsSent
    <2>3. About(s)
      BY <1>1, <2>1, <2>2 DEF About
    <2>4. r.count = adapter.previous[s].count
      BY <1>1, <1>3, <1>7
    <2>5. Below(s, r.count)'
      BY <1>1, <1>3, <2>2, <2>4 DEF Extends
    <2>6. r.at = adapter.current[s].at /\ r.count <= adapter.current[s].count
      BY <1>1
    <2>7. Snapshots(s)' /\ Told(s)' /\ Ordered(s)' /\ Current(s)'
      <3>1. \A i \in DOMAIN log' : CreatedAt(i, s)' => log'[i].at <= table[s].at
        BY <1>1, <2>2 DEF Extends
      <3>. QED BY <1>1, <2>1, <2>3, <2>5, <2>6, <3>1, KeptInv
    <2>8. Reading'
      BY <2>1 DEF Reading, Paging
    <2>. QED BY <1>1, <1>2, <1>4, <1>5, <2>3, <2>7, <2>8, AboutInv
  <1>. QED BY <1>6, <1>7

LEMMA VisitInv ==
    ASSUME IInv, Visit
    PROVE  IInv'
  <1>1. adapter.step = "diff" /\ Remaining # {}
    BY DEF Visit
  <1>2. PICK s : s = Smallest(Remaining)
    OBVIOUS
  <1>3. PICK r : r = adapter.current[s]
    OBVIOUS
  <1>4. Reached(s) /\ ~Sending(s)
    BY <1>1, <1>2, NextReached
  <1>5. VisitCreated(s, r) \/ VisitUnchanged(s, r) \/ VisitUpdated(s, r)
    BY <1>2, <1>3 DEF Visit
  <1>. QED BY <1>3, <1>4, <1>5, VisitCreatedInv, VisitUnchangedInv, VisitUpdatedInv

LEMMA AdvanceInv ==
    ASSUME IInv, Advance
    PROVE  IInv'
  <1>1. /\ TypeOK /\ Reading /\ adapter.step = "diff" /\ Remaining = {} /\ adapter' = Idle(adapter.next)
        /\ UNCHANGED <<table, rows, writer, clock, signal, log, read, cancelled, faults, known>>
    BY DEF Advance, AdapterOnly, IInv, Reading, dbVars, outVars
  <1>2. /\ adapter' \in Adapters /\ adapter'.step = "idle" /\ adapter'.previous = adapter.next
        /\ adapter'.current = Empty /\ adapter'.next = Empty /\ adapter'.mark = adapter.mark
    BY <1>1, Typed, IdleFacts
  <1>3. TypeOK'
    BY <1>1, <1>2, Typed, AdapterTyped DEF TypeOK, dbVars
  <1>4. Reading'
    BY <1>2 DEF Reading, Paging
  <1>5. Sound'
    BY <1>1, SameLog DEF IInv
  <1>6. ASSUME NEW t \in Sessions PROVE Snapshots(t)' /\ Told(t)' /\ Ordered(t)' /\ Current(t)'
    <2>1. /\ table[t].at \in Nat /\ table[t].count \in Nat /\ adapter.next[t].at \in Nat /\ adapter.next[t].count \in Nat
          /\ adapter.current[t].at \in Nat /\ adapter.current[t].count \in Nat
          /\ Snapshots(t) /\ Told(t) /\ Ordered(t) /\ Current(t) /\ Counted(t)
          /\ Empty[t] = Missing /\ Empty[t].at = 0 /\ Empty[t].count = 0
      BY At, MissingFacts
    <2>2. ~Visited(t)' /\ ~Sending(t)' /\ ~Paging' /\ ~Diffing' /\ Diffing /\ ~Sending(t)
      BY <1>1, <1>2 DEF Visited, Sending, Paging, Diffing
    <2>3. ~Visited(t) => ~Has(adapter.current, t)
      <3>1. t \in Nat /\ adapter.id \in Nat
        BY At
      <3>2. ~Visited(t) => t > adapter.id
        BY <1>1, <2>2, <3>1 DEF Visited
      <3>. QED BY <1>1, <3>2 DEF Remaining
    <2>4. IF Visited(t) /\ Has(adapter.current, t)
          THEN Has(adapter.next, t) ELSE adapter.next[t] = Missing
      BY <2>1, <2>2 DEF Snapshots
    <2>5. ~Has(adapter.next, t) => ~Has(adapter.current, t)
      BY <2>3, <2>4
    <2>6. Snapshots(t)'
      <3>1. /\ adapter.next[t].at <= adapter.current[t].at /\ adapter.next[t].count <= adapter.current[t].count
            /\ adapter.current[t].at <= table[t].at /\ adapter.current[t].count <= table[t].count
        BY <2>1 DEF Snapshots
      <3>2. adapter.next[t].at <= table[t].at /\ adapter.next[t].count <= table[t].count
        BY <2>1, <3>1
      <3>. QED BY <1>1, <1>2, <2>1, <2>2, <3>2 DEF Snapshots
    <2>7. Told(t)'
      <3>1. (known[t].at <= table[t].at)' /\ (\A i \in DOMAIN log : CreatedAt(i, t) => log[i].at <= table[t].at)'
        BY <1>1, <2>1 DEF Told, CreatedAt
      <3>2. ~Has(adapter.current, t) /\ Has(table, t) => Newer(t, table[t].at)
        BY <2>1, <2>2 DEF Told
      <3>3. (~Has(adapter.previous, t) /\ Has(table, t))' => Newer(t, table[t].at)'
        BY <1>1, <1>2, <2>5, <3>2 DEF Has, Newer, CreatedAt
      <3>. QED BY <1>2, <2>2, <3>1, <3>3 DEF Told
    <2>8. Ordered(t)'
      <3>1. Base(t)' = adapter.next[t]
        BY <1>2, <2>2 DEF Base
      <3>2. CASE Visited(t)
        <4>1. Present(t)' = Present(t) /\ Floor(t)' = Floor(t)
          BY <2>2, <3>1, <3>2 DEF Present, Floor, Base
        <4>2. Present(t) => Below(t, Floor(t))
          BY <1>1, <2>1 DEF Ordered
        <4>3. \A f : Below(t, f)' <=> Below(t, f)
          BY <1>1, BelowSame
        <4>. QED BY <4>1, <4>2, <4>3 DEF Ordered
      <3>3. CASE ~Visited(t)
        <4>1. ~Present(t)'
          BY <2>2, <2>4, <3>1, <3>3, MissingFacts DEF Present
        <4>. QED BY <4>1 DEF Ordered
      <3>. QED BY <3>2, <3>3
    <2>9. Current(t)'
      <3>1. Pending' <=> Pending
        BY <1>1 DEF Pending
      <3>2. ~Pending => adapter.current[t] = table[t]
        BY <2>1, <2>2 DEF Current
      <3>3. ~Pending /\ Visited(t) => adapter.next[t] = table[t] \/ Failed(adapter.mark)
        BY <2>1, <3>2 DEF Current
      <3>4. ~Pending /\ ~Visited(t) => adapter.next[t] = table[t]
        <4> SUFFICES ASSUME ~Pending, ~Visited(t) PROVE adapter.next[t] = table[t]
          OBVIOUS
        <4>1. adapter.next[t] = Missing /\ ~Has(adapter.current, t)
          BY <2>3, <2>4
        <4>2. table[t].at = 0
          BY <2>1, <3>2, <4>1 DEF Has
        <4>3. table[t].count = 0
          BY <2>1, <4>2 DEF Counted
        <4>4. table[t] \in Row
          BY At
        <4>. QED BY <4>1, <4>2, <4>3, <4>4 DEF Row, Missing
      <3>5. Failed(adapter.mark)' <=> Failed(adapter.mark)
        BY <1>1, <1>2 DEF Failed
      <3>. QED BY <1>1, <1>2, <2>2, <3>1, <3>3, <3>4, <3>5 DEF Current
    <2>. QED BY <2>6, <2>7, <2>8, <2>9
  <1>. QED BY <1>1, <1>3, <1>4, <1>5, <1>6, AdapterInv DEF dbVars

-----------------------------------------------------------------------------
(* The messages of a session.                                              *)

LEMMA DeliveredFacts ==
    ASSUME TypeOK, NEW s \in Sessions
    PROVE  /\ Delivered(s) \in Row /\ Delivered(s).at = adapter.current[s].at
           /\ Delivered(s).count = adapter.from
  <1>1. adapter.current[s] \in Row /\ adapter.from \in Nat
    BY Typed
  <1>. QED BY <1>1 DEF Delivered, Row

(* The adapter leaves a session with what it has told of it.               *)
LEMMA KeepInv ==
    ASSUME IInv, NEW s, Reached(s), Sending(s), NEW r \in Row, r.at = adapter.current[s].at,
           r.count <= adapter.from, r.count < adapter.from => HoleBelow(s, r.count),
           r.count <= adapter.current[s].count, adapter' = Keep(s, r),
           (log' = log) \/ Send(Error(s)),
           UNCHANGED <<table, rows, writer, clock, signal, read, cancelled, known>>, faults' \in Nat,
           ~Pending => r = adapter.current[s] \/ log' # log
    PROVE  IInv'
  <1>1. /\ TypeOK /\ Sound /\ adapter \in Adapters /\ s \in Sessions /\ adapter.from \in Nat
    <2>1. TypeOK /\ Sound /\ s \in Sessions
      BY DEF IInv, Reached
    <2>. QED BY <2>1, Typed
  <1>2. /\ adapter' \in Adapters
        /\ adapter'.step = "diff" /\ adapter'.id = s /\ adapter'.mark = adapter.mark
        /\ adapter'.previous = adapter.previous /\ adapter'.current = adapter.current
        /\ adapter'.next[s] = r /\ \A t \in Sessions \ {s} : adapter'.next[t] = adapter.next[t]
    BY <1>1, KeepFacts
  <1>3. Error(s) \in Event /\ Error(s).type = "error"
    BY <1>1, ErrorFacts
  <1>4. \A t \in Sessions : Extends(t)
    BY <1>2, <1>3, ExtendsSame, ExtendsSent DEF Send
  <1>5. About(s)
    BY <1>2, <1>4 DEF About
  <1>6. Below(s, r.count)'
    <2>1. r.count \in Nat
      BY DEF Row
    <2>2. Below(s, r.count)
      BY <1>1, <2>1, FloorBelow, BelowFalls
    <2>. QED BY <1>1, <1>4, <2>1, <2>2 DEF Extends
  <1>7. Sound'
    BY <1>1, <1>3, SameLog, SoundStays DEF Send
  <1>8. Snapshots(s)' /\ Told(s)' /\ Ordered(s)' /\ Current(s)'
    <2>1. \A i \in DOMAIN log' : CreatedAt(i, s)' => log'[i].at <= table[s].at
      BY <1>1, <1>4 DEF Extends
    <2>2. log' # log => Failed(adapter.mark)'
      BY <1>2, <1>3, FailedSent DEF Send
    <2>. QED BY <1>1, <1>2, <1>5, <1>6, <2>1, <2>2, KeptInv
  <1>9. Reading'
    BY <1>2 DEF Reading, Paging
  <1>. QED BY <1>1, <1>3, <1>5, <1>7, <1>8, <1>9, AboutInv

LEMMA GetMessagesInv ==
    ASSUME IInv, GetMessages
    PROVE  IInv'
  <1>1. PICK s : s = adapter.id
    OBVIOUS
  <1>2. Reached(s) /\ Sending(s) /\ adapter.step = "append"
    BY <1>1, SendReached DEF GetMessages
  <1>3. /\ TypeOK /\ s \in Sessions /\ adapter \in Adapters /\ adapter.from \in Nat
        /\ adapter.current[s] \in Row /\ adapter.current[s].count \in Nat /\ N(s) \in Nat
        /\ Counted(s) /\ rows[s] \in SUBSET Nat
        /\ adapter.from <= adapter.current[s].count \/ HoleBelow(s, adapter.current[s].count)
        /\ Headed(s, adapter.from)
        /\ ~Pending => adapter.current[s] = table[s]
        /\ Has(adapter.current, s)
    <2>1. TypeOK /\ s \in Sessions /\ Has(adapter.current, s)
      BY <1>2 DEF IInv, Reached
    <2>2. N(s) \in Nat /\ Counted(s)
      BY <2>1, At
    <2>3. /\ adapter.from <= adapter.current[s].count \/ HoleBelow(s, adapter.current[s].count)
          /\ Headed(s, adapter.from)
      BY <1>1, <1>2 DEF IInv, Reading
    <2>4. ~Pending => adapter.current[s] = table[s]
      BY <1>2, FloorBelow
    <2>. QED BY <2>1, <2>2, <2>3, <2>4, Typed
  <1>4. PICK f \in Nat, n \in Nat, r \in Row :
           f = adapter.from /\ n = N(s) /\ r = adapter.current[s]
    BY <1>3
  <1>5. r.count \in Nat /\ r.at > 0
    BY <1>3, <1>4 DEF Has
  <1> DEFINE S == {o \in rows[s] : o >= f}
             k == Smallest({MessageLimit, r.count - f})
             msgs == Window(S, k)
  <1>6. /\ adapter' = IF r.count <= f THEN Keep(s, r)
                      ELSE IF msgs = {} THEN Keep(s, Delivered(s))
                      ELSE [adapter EXCEPT !.step = "send", !.batch = msgs]
        /\ UNCHANGED <<table, rows, writer, clock, signal, log, read, cancelled, faults, known>>
    BY <1>1, <1>4 DEF GetMessages, AdapterOnly, dbVars, outVars
  <1>7. faults' \in Nat
    BY <1>3, <1>6 DEF TypeOK
  <1>8. CASE r.count <= f
    <2>1. r.count < f => HoleBelow(s, r.count)
      BY <1>3, <1>4, <1>5
    <2>. QED BY <1>2, <1>4, <1>5, <1>6, <1>7, <1>8, <2>1, KeepInv
  <1>9. CASE ~(r.count <= f)
    <2>1. k \in Nat /\ 1 <= k /\ k <= r.count - f
      <3>1. MessageLimit \in Nat /\ MessageLimit # 0
        BY AdapterAssumption
      <3>2. r.count - f \in Nat /\ r.count - f # 0
        BY <1>4, <1>5, <1>9
      <3>3. {MessageLimit, r.count - f} \in SUBSET Nat /\ {MessageLimit, r.count - f} # {}
        BY <3>1, <3>2
      <3>4. k \in {MessageLimit, r.count - f} /\ \A x \in {MessageLimit, r.count - f} : k <= x
        BY <3>3, SmallestExists
      <3> HIDE DEF k
      <3>. QED BY <3>1, <3>2, <3>4
    <2>2. S \in SUBSET Nat /\ IsFiniteSet(S)
      BY <1>3, FS_Subset DEF Counted
    <2>3. /\ msgs \subseteq S
          /\ \A o \in msgs : Cardinality({y \in S : y < o}) < k
          /\ \A o \in msgs, p \in S : p <= o => p \in msgs
          /\ S # {} => msgs # {}
      <3> HIDE DEF S, k
      <3>. QED BY <2>1, <2>2, WindowFacts
    <2>10. ASSUME NEW o \in msgs
           PROVE  f <= o /\ o \in rows[s] /\ (o < r.count \/ HoleBelow(s, r.count))
      <3>1. o \in S /\ o \in Nat /\ o \in rows[s] /\ f <= o
        BY <2>2, <2>3
      <3>2. ASSUME ~(o < r.count) PROVE HoleBelow(s, r.count)
        <4> DEFINE U == {y \in S : y < o}
        <4>1. IsFiniteSet(U) /\ Cardinality(U) \in Nat /\ Cardinality(U) < k
          <5>1. U \subseteq S
            OBVIOUS
          <5>2. Cardinality(U) < k
            BY <2>3
          <5> HIDE DEF U, S, k
          <5>. QED BY <2>2, <5>1, <5>2, FS_Subset, FS_CardinalityType
        <4>2. IsFiniteSet(f..(r.count - 1)) /\ Cardinality(f..(r.count - 1)) = r.count - f
          <5>1. f \in Int /\ r.count - 1 \in Int
            BY <1>4, <1>5
          <5>2. /\ IsFiniteSet(f..(r.count - 1))
                /\ Cardinality(f..(r.count - 1)) = IF f > r.count - 1 THEN 0 ELSE (r.count - 1) - f + 1
            BY <5>1, FS_Interval
          <5>. QED BY <1>4, <1>5, <1>9, <5>2
        <4>3. ~(f..(r.count - 1) \subseteq U)
          <5> SUFFICES ASSUME f..(r.count - 1) \subseteq U PROVE FALSE
            OBVIOUS
          <5>1. Cardinality(f..(r.count - 1)) <= Cardinality(U)
            <6> HIDE DEF U
            <6>. QED BY <4>1, <4>2, FS_Subset
          <5> HIDE DEF U, k
          <5>. QED BY <1>4, <1>5, <2>1, <4>1, <4>2, <5>1
        <4>4. PICK g \in f..(r.count - 1) : g \notin U
          BY <4>3
        <4>5. g \in 0..(r.count - 1) /\ g < o /\ f <= g
          BY <1>4, <1>5, <3>1, <3>2, <4>4
        <4>6. g \notin rows[s]
          BY <4>4, <4>5
        <4>. QED BY <3>1, <4>5, <4>6 DEF HoleBelow, Hole
      <3>. QED BY <3>1, <3>2
    <2>11. \A p \in rows[s] : f <= p => p \in S
      BY <1>3, <1>4
    <2> HIDE DEF msgs, k, S
    <2>4. CASE msgs = {}
      <3>1. PICK d \in Row : d = Delivered(s)
        BY <1>3, DeliveredFacts
      <3>2. d.at = adapter.current[s].at /\ d.count = adapter.from
        BY <1>3, <3>1, DeliveredFacts
      <3>3. ASSUME ~Pending PROVE FALSE
        <4>1. table[s].count = N(s) /\ r = table[s]
          BY <1>3, <1>4, <3>3 DEF Counted, Pending
        <4>2. f < n
          BY <1>4, <1>5, <1>9, <4>1
        <4>3. rows[s] \subseteq 0..(f - 1)
          BY <1>3, <1>4, <2>3, <2>4, <2>11
        <4>4. IsFiniteSet(0..(f - 1)) /\ Cardinality(0..(f - 1)) = f
          BY <1>4, Interval
        <4>5. Cardinality(rows[s]) <= f
          BY <4>3, <4>4, FS_Subset
        <4>. QED BY <1>3, <1>4, <4>2, <4>5 DEF N
      <3>4. d.count < adapter.current[s].count
        BY <1>4, <1>5, <1>9, <3>2
      <3>5. d.count <= adapter.from /\ ~(d.count < adapter.from) /\ d.count <= adapter.current[s].count
        BY <1>3, <3>2, <3>4
      <3>. QED BY <1>2, <1>6, <1>7, <1>9, <2>4, <3>1, <3>2, <3>3, <3>5, KeepInv
    <2>5. CASE msgs # {}
      <3>1. msgs \in SUBSET Nat
        BY <2>2, <2>3
      <3>2. /\ adapter' \in Adapters
            /\ adapter'.step = "send" /\ adapter'.id = s /\ adapter'.mark = adapter.mark
            /\ adapter'.previous = adapter.previous /\ adapter'.current = adapter.current
            /\ adapter'.next = adapter.next /\ adapter'.from = f /\ adapter'.batch = msgs
        BY <1>1, <1>3, <1>4, <1>6, <1>9, <2>5, <3>1 DEF Adapters, Steps
      <3>3. \A t \in Sessions : Extends(t)
        BY <1>6, <3>2, ExtendsSame
      <3>4. About(s)
        BY <1>6, <3>2, <3>3 DEF About
      <3>5. Below(s, f)'
        <4>1. Below(s, f)
          BY <1>2, <1>4, FloorBelow
        <4>. QED BY <1>3, <1>4, <3>3, <4>1 DEF Extends
      <3>6. Below(s, adapter.from)'
        BY <3>2, <3>5
      <3>7. Snapshots(s)' /\ Told(s)' /\ Ordered(s)' /\ Current(s)'
        <4>1. \A i \in DOMAIN log' : CreatedAt(i, s)' => log'[i].at <= table[s].at
          BY <1>3, <3>3 DEF Extends
        <4>. QED BY <1>2, <3>2, <3>4, <3>6, <4>1, SendingInv
      <3>8. \A o \in msgs : \A p \in rows[s] : f <= p /\ p <= o => p \in msgs
        BY <2>3, <2>11
      <3>9. Reading'
        <4>1. Headed(s, f)'
          BY <1>3, <1>4, <1>6 DEF Headed, AppendedAt, HeadAt
        <4>2. Headed(adapter.id, adapter.from)'
          BY <3>2, <4>1
        <4>3. \A c : HoleBelow(s, c)' <=> HoleBelow(s, c)
          BY <1>6 DEF HoleBelow, Hole
        <4>4. (adapter.from <= adapter.current[adapter.id].count \/ HoleBelow(adapter.id, adapter.current[adapter.id].count))'
          BY <1>3, <1>4, <1>5, <1>9, <3>2
        <4>5. \A o \in msgs : /\ f <= o /\ o \in rows'[s]
                              /\ o < r.count \/ HoleBelow(s, r.count)'
                              /\ \A p \in rows'[s] : f <= p /\ p <= o => p \in msgs
          <5>1. rows' = rows
            BY <1>6
          <5>. QED BY <2>10, <3>8, <4>3, <5>1
        <4>6. (adapter.step = "send" =>
                 /\ adapter.batch # {}
                 /\ \A o \in adapter.batch :
                       /\ adapter.from <= o
                       /\ o \in rows[adapter.id]
                       /\ \/ o < adapter.current[adapter.id].count
                          \/ HoleBelow(adapter.id, adapter.current[adapter.id].count)
                       /\ \A p \in rows[adapter.id] : adapter.from <= p /\ p <= o => p \in adapter.batch)'
          BY <1>4, <2>5, <3>2, <4>5
        <4>7. adapter'.id \in Sessions /\ Has(adapter.current, adapter.id)'
          BY <1>3, <3>2 DEF Has
        <4>. QED BY <3>2, <4>2, <4>4, <4>6, <4>7 DEF Reading, Paging
      <3>10. Sound'
        BY <1>6, SameLog DEF IInv
      <3>. QED BY <1>2, <1>6, <1>7, <3>4, <3>7, <3>9, <3>10, AboutInv
    <2>. QED BY <2>4, <2>5
  <1>. QED BY <1>8, <1>9

LEMMA GetMessagesFailsInv ==
    ASSUME IInv, GetMessagesFails
    PROVE  IInv'
  <1>1. PICK s : s = adapter.id
    OBVIOUS
  <1>2. Reached(s) /\ Sending(s) /\ adapter.step = "append" /\ TypeOK /\ s \in Sessions
    BY <1>1, SendReached DEF GetMessagesFails, IInv, Reached
  <1>3. /\ adapter' = Keep(s, Delivered(s)) /\ Send(Error(s)) /\ log' = Append(log, Error(s))
        /\ UNCHANGED <<table, rows, writer, clock, signal, read, cancelled, known>>
        /\ faults > 0 /\ faults' = faults - 1
    BY <1>1 DEF GetMessagesFails, Send, Fault, dbVars, outVars
  <1>4. faults' \in Nat
    <2>1. faults \in Nat
      BY <1>2 DEF TypeOK
    <2>. QED BY <1>3, <2>1
  <1>5. log' # log
    <2>1. Len(log') = Len(log) + 1 /\ Len(log) \in Nat
      BY <1>2, <1>3, Appends, ErrorFacts
    <2>2. Len(log') # Len(log)
      BY <2>1
    <2>. QED BY <2>2
  <1>6. PICK d \in Row : d = Delivered(s)
    BY <1>2, DeliveredFacts
  <1>7. d.at = adapter.current[s].at /\ d.count = adapter.from
    BY <1>2, <1>6, DeliveredFacts
  <1>8. d.count <= adapter.from /\ ~(d.count < adapter.from) /\ d.count <= adapter.current[s].count
    <2>1. adapter.from \in Nat /\ adapter.current[s].count \in Nat /\ adapter.current[s].count > adapter.from
      BY <1>1, <1>2, Typed DEF GetMessagesFails
    <2>. QED BY <1>7, <2>1
  <1>. QED BY <1>2, <1>3, <1>4, <1>5, <1>6, <1>7, <1>8, KeepInv

LEMMA SendMessageInv ==
    ASSUME IInv, SendMessage
    PROVE  IInv'
  <1>1. PICK s : s = adapter.id
    OBVIOUS
  <1>2. PICK b : b = adapter.batch
    OBVIOUS
  <1>3. Reached(s) /\ Sending(s) /\ adapter.step = "send"
    BY <1>1, SendReached DEF SendMessage
  <1>4. /\ TypeOK /\ s \in Sessions /\ adapter \in Adapters /\ adapter.from \in Nat
        /\ adapter.current[s].count \in Nat /\ Has(adapter.current, s) /\ known[s].count \in Nat
        /\ rows[s] \in SUBSET Nat
    <2>1. TypeOK /\ s \in Sessions /\ Has(adapter.current, s)
      BY <1>3 DEF IInv, Reached
    <2>. QED BY <2>1, Typed
  <1>5. PICK f \in Nat, c \in Nat : f = adapter.from /\ c = adapter.current[s].count
    BY <1>4
  <1>6. /\ b \in SUBSET Nat /\ b # {} /\ Headed(s, f)
        /\ \A o \in b : /\ f <= o /\ o \in rows[s]
                        /\ o < c \/ HoleBelow(s, c)
                        /\ \A p \in rows[s] : f <= p /\ p <= o => p \in b
    <2>1. b \in SUBSET Nat
      BY <1>2, <1>4, Typed
    <2>. QED BY <1>1, <1>2, <1>3, <1>5, <2>1 DEF IInv, Reading
  <1>7. PICK m : m = Smallest(b)
    OBVIOUS
  <1>8. /\ m \in b /\ m \in Nat /\ f <= m /\ m \in rows[s] /\ (m < c \/ HoleBelow(s, c))
        /\ \A x \in b : m <= x
        /\ \A p \in rows[s] : f <= p /\ p <= m => p = m
    <2>1. m \in b /\ \A x \in b : m <= x
      BY <1>6, <1>7, SmallestExists
    <2>2. ASSUME NEW p \in rows[s], f <= p, p <= m PROVE p = m
      <3>1. p \in b /\ m <= p
        BY <1>6, <2>1, <2>2
      <3>. QED BY <1>4, <1>6, <2>1, <2>2, <3>1
    <2>. QED BY <1>6, <2>1, <2>2
  <1> DEFINE ev == Appended(s, m)
  <1>9. /\ Send(ev) /\ log' = Append(log, ev)
        /\ adapter' = [adapter EXCEPT !.from = m + 1, !.batch = b \ {m},
                                      !.step = IF b = {m} THEN "append" ELSE "send"]
        /\ UNCHANGED <<table, rows, writer, clock, signal, read, cancelled, faults, known>>
    BY <1>1, <1>2, <1>3, <1>7 DEF SendMessage, Sends, Send, dbVars, outVars
  <1>10. ev \in Event /\ ev.type = "appended" /\ ev.s = s /\ ev.ord = m
    BY <1>4, <1>8 DEF Appended, Event
  <1> HIDE DEF ev
  <1>11. /\ adapter' \in Adapters /\ adapter'.id = s /\ adapter'.mark = adapter.mark
         /\ adapter'.step = IF b = {m} THEN "append" ELSE "send"
         /\ adapter'.previous = adapter.previous /\ adapter'.current = adapter.current
         /\ adapter'.next = adapter.next /\ adapter'.from = m + 1 /\ adapter'.batch = b \ {m}
    <2>1. m + 1 \in Nat /\ b \ {m} \in SUBSET Nat
      <3>1. m \in Nat /\ b \in SUBSET Nat
        BY <1>6, <1>8
      <3>2. m + 1 \in Nat
        BY <3>1, SMT
      <3>3. b \ {m} \in SUBSET Nat
        BY <3>1, Zenon
      <3>. QED BY <3>2, <3>3
    <2>. QED BY <1>1, <1>4, <1>9, <2>1 DEF Adapters, Steps
  <1>12. \A t \in Sessions \ {s} : Extends(t)
    BY <1>9, <1>10, <1>11, ExtendsSent
  <1>13. About(s)
    BY <1>9, <1>11, <1>12 DEF About
  <1>14. Below(s, f)
    BY <1>3, <1>5, FloorBelow
  <1>15. Sound'
    BY <1>4, <1>6, <1>8, <1>9, <1>10, <1>14, SoundStays DEF IInv
  <1>16. PICK n \in Nat :
           /\ DOMAIN log' = 1..n /\ n \in DOMAIN log' /\ log'[n] = ev /\ Len(log') = n
           /\ DOMAIN log = 1..Len(log) /\ Len(log) + 1 = n /\ Len(log) \in Nat
           /\ \A i \in DOMAIN log : i \in DOMAIN log' /\ log'[i] = log[i]
           /\ \A i \in DOMAIN log' : i \in DOMAIN log \/ i = n
    <2>1. Len(log) + 1 \in Nat
      BY <1>4, Typed
    <2>. QED BY <1>4, <1>9, <1>10, <2>1, Appends
  <1>17. ASSUME NEW i \in DOMAIN log', AppendedAt(i, s)'
         PROVE  /\ \/ log'[i].ord < m + 1
                   \/ Retold(i, s)'
                   \/ \E g \in 0..(m + 1) : g < log'[i].ord /\ Hole(s, g)'
                /\ \/ log'[i].ord < m + 1
                   \/ (\E k \in i..Len(log) : HeadAt(k, s))'
    <2>1. CASE i = n
      BY <1>8, <1>10, <1>16, <2>1
    <2>2. CASE i \in DOMAIN log
      <3>1. AppendedAt(i, s) /\ log'[i] = log[i] /\ log[i].ord \in Nat
        BY <1>4, <1>16, <1>17, <2>2, Typed DEF AppendedAt
      <3>2. log[i].ord < f => log[i].ord < m + 1
        BY <1>8, <3>1
      <3>3. \A g : Hole(s, g)' <=> Hole(s, g)
        BY <1>9 DEF Hole
      <3>4. 0..f \subseteq 0..(m + 1)
        BY <1>8
      <3>5. \/ log[i].ord < f
            \/ Retold(i, s)
            \/ \E g \in 0..f : g < log[i].ord /\ Hole(s, g)
        BY <1>14, <2>2, <3>1 DEF Below
      <3>6. log[i].ord < f \/ \E k \in i..Len(log) : HeadAt(k, s)
        BY <1>6, <2>2, <3>1 DEF Headed
      <3>7. /\ Retold(i, s) => Retold(i, s)'
            /\ (\E k \in i..Len(log) : HeadAt(k, s)) => (\E k \in i..Len(log) : HeadAt(k, s))'
        BY <1>4, <1>9, <1>10, <2>2, RetoldStays
      <3>8. (\E g \in 0..f : g < log[i].ord /\ Hole(s, g))
               => \E g \in 0..(m + 1) : g < log'[i].ord /\ Hole(s, g)'
        BY <3>1, <3>3, <3>4
      <3>. QED BY <3>1, <3>2, <3>5, <3>6, <3>7, <3>8
    <2>. QED BY <1>16, <2>1, <2>2
  <1>18. ASSUME NEW o \in rows[s], known[s].count <= o, o < m + 1 PROVE Announced(s, o)'
    <2>1. CASE o = m
      BY <1>10, <1>16, <2>1 DEF Announced
    <2>2. CASE o # m
      <3>1. o < f
        BY <1>4, <1>8, <1>18, <2>2
      <3>2. PICK i \in DOMAIN log : log[i].type = "appended" /\ log[i].s = s /\ log[i].ord = o
        BY <1>14, <1>18, <3>1 DEF Below, Announced
      <3>. QED BY <1>16, <3>2 DEF Announced
    <2>. QED BY <2>1, <2>2
  <1>19. Below(s, adapter.from)'
    <2>1. adapter'.from = m + 1 /\ known' = known /\ rows' = rows
      BY <1>9, <1>11
    <2>2. \E o \in rows[s] : m + 1 <= o + 1
      BY <1>8
    <2>. QED BY <1>17, <1>18, <2>1, <2>2 DEF Below
  <1>20. Snapshots(s)' /\ Told(s)' /\ Ordered(s)' /\ Current(s)'
    <2>1. \A i \in DOMAIN log' : CreatedAt(i, s)' => log'[i].at <= table[s].at
      <3>1. \A i \in DOMAIN log : CreatedAt(i, s) => log[i].at <= table[s].at
        BY <1>4, At
      <3>. QED BY <1>10, <1>16, <3>1 DEF CreatedAt
    <2>. QED BY <1>3, <1>11, <1>13, <1>19, <2>1, SendingInv
  <1>21. Reading'
    <2>1. \A x : HoleBelow(s, x)' <=> HoleBelow(s, x)
      BY <1>9 DEF HoleBelow, Hole
    <2>2. (adapter.from <= adapter.current[adapter.id].count \/ HoleBelow(adapter.id, adapter.current[adapter.id].count))'
      <3>1. m + 1 <= c \/ HoleBelow(s, c)
        BY <1>8
      <3>. QED BY <1>5, <1>11, <2>1, <3>1
    <2>3. Headed(adapter.id, adapter.from)'
      <3>1. adapter'.id = s /\ adapter'.from = m + 1
        BY <1>11
      <3>. QED BY <1>17, <3>1 DEF Headed
    <2>4. \A o \in b \ {m} : /\ m + 1 <= o /\ o \in rows'[s]
                             /\ o < c \/ HoleBelow(s, c)'
                             /\ \A p \in rows'[s] : m + 1 <= p /\ p <= o => p \in b \ {m}
      <3>1. TAKE o \in b \ {m}
      <3>2. o \in Nat /\ m <= o /\ o # m /\ o \in rows[s] /\ (o < c \/ HoleBelow(s, c))
        BY <1>6, <1>8, <3>1
      <3>3. ASSUME NEW p \in rows[s], m + 1 <= p, p <= o PROVE p \in b \ {m}
        <4>1. f <= p /\ p # m
          BY <1>4, <1>8, <3>3
        <4>. QED BY <1>6, <3>1, <3>3, <4>1
      <3>4. rows' = rows /\ m + 1 <= o
        BY <1>8, <1>9, <3>2
      <3>. QED BY <2>1, <3>2, <3>3, <3>4
    <2>5. (adapter.step = "send" =>
             /\ adapter.batch # {}
             /\ \A o \in adapter.batch :
                   /\ adapter.from <= o
                   /\ o \in rows[adapter.id]
                   /\ \/ o < adapter.current[adapter.id].count
                      \/ HoleBelow(adapter.id, adapter.current[adapter.id].count)
                   /\ \A p \in rows[adapter.id] : adapter.from <= p /\ p <= o => p \in adapter.batch)'
      <3>1. b # {m} => b \ {m} # {}
        BY <1>8
      <3>. QED BY <1>5, <1>11, <2>4, <3>1
    <2>6. adapter'.id \in Sessions /\ Has(adapter.current, adapter.id)'
      BY <1>4, <1>11 DEF Has
    <2>. QED BY <1>11, <2>2, <2>3, <2>5, <2>6 DEF Reading, Paging
  <1>22. faults' \in Nat
    BY <1>4, <1>9 DEF TypeOK
  <1>. QED BY <1>3, <1>9, <1>10, <1>13, <1>15, <1>20, <1>21, <1>22, AboutInv

-----------------------------------------------------------------------------
(* The invariant.                                                          *)

LEMMA InitInv ==
    ASSUME Init
    PROVE  IInv
  <1>1. /\ table = Empty /\ rows = [s \in Sessions |-> {}] /\ writer = NoWrite /\ clock = 0
        /\ signal = 0 /\ adapter = NewAdapter /\ log = <<>> /\ read = 0 /\ cancelled = FALSE
        /\ faults = MaxFaults /\ known = Empty
    BY DEF Init
  <1>2. log \in Seq(Event) /\ Len(log) = 0 /\ DOMAIN log = {}
    <2>1. log \in Seq(Event) /\ Len(log) = 0
      BY <1>1
    <2>. QED BY <2>1, LenProperties
  <1>3. TypeOK
    <2>1. adapter \in [step : Steps, previous : [Sessions -> Row], current : [Sessions -> Row],
                       next : [Sessions -> Row], after : Nat, id : Sessions \cup {0},
                       from : Nat, batch : SUBSET Nat, mark : 0..Len(log)]
      <3>1. 0 \in 0..Len(log)
        BY <1>2
      <3>. QED BY <1>1, <3>1, NewAdapterFacts DEF Adapters
    <2>2. table \in [Sessions -> Row] /\ known \in [Sessions -> Row] /\ rows \in [Sessions -> SUBSET Nat]
      BY <1>1, MissingFacts
    <2>3. faults \in Nat /\ OutCap \in Nat /\ clock \in Nat
      BY <1>1, AdapterAssumption
    <2>4. read \in 0..Len(log) /\ Len(log) - read <= OutCap
      BY <1>1, <1>2, <2>3
    <2>. QED BY <1>1, <1>2, <2>1, <2>2, <2>3, <2>4, NoWriteFacts DEF TypeOK, Steps
  <1>4. Writing
    BY <1>1, NoWriteFacts DEF Writing
  <1>5. Reading
    BY <1>1, NewAdapterFacts DEF Reading, Paging
  <1>6. Sound
    BY <1>2 DEF Sound, LogIsSound, AppendedInOrder, CreatedIsNews
  <1>7. ASSUME NEW s \in Sessions PROVE Session(s)
    <2>1. /\ table[s] = Missing /\ known[s] = Missing /\ rows[s] = {}
          /\ adapter.previous[s] = Missing /\ adapter.current[s] = Missing /\ adapter.next[s] = Missing
      BY <1>1, MissingFacts, NewAdapterFacts
    <2>2. ~Paging /\ ~Diffing /\ ~Visited(s) /\ ~Sending(s) /\ adapter.step = "new"
      BY <1>1, NewAdapterFacts DEF Paging, Diffing, Visited, Sending
    <2>3. Counted(s)
      <3>1. IsFiniteSet({}) /\ Cardinality({}) = 0
        BY FS_EmptySet
      <3>. QED BY <1>1, <2>1, <3>1, MissingFacts DEF Counted, N
    <2>4. Snapshots(s)
      BY <2>1, <2>2, MissingFacts DEF Snapshots
    <2>5. Told(s)
      BY <1>2, <2>1, <2>2, MissingFacts DEF Told, Has
    <2>6. Ordered(s)
      BY <2>1, <2>2, MissingFacts DEF Ordered, Present, Base
    <2>7. Current(s)
      BY <2>2 DEF Current
    <2>. QED BY <2>3, <2>4, <2>5, <2>6, <2>7 DEF Session
  <1>. QED BY <1>3, <1>4, <1>5, <1>6, <1>7 DEF IInv

LEMMA NextInv ==
    ASSUME IInv, [Next]_vars
    PROVE  IInv'
  <1>1. CASE UNCHANGED vars
    <2>1. TypeOK'
      BY <1>1 DEF IInv, TypeOK, vars, dbVars, outVars
    <2>. QED BY <1>1, <2>1, SameInv DEF vars, dbVars, outVars
  <1>2. ASSUME NEW s \in Sessions, NEW new \in NextOrdinals(s), FullWrite(s, new) \/ IncrementalWrite(s, new)
        PROVE  IInv'
    BY <1>2, FullWriteInv, IncrementalWriteInv
  <1>3. CASE Writer
    BY <1>3, WriteMessagesInv, UpdateSessionInv, EmitInv DEF Writer
  <1>4. CASE Watch
    BY <1>4, WatchInv
  <1>5. CASE Adapter
    BY <1>5, ReceiveInv, LoadPageInv, VisitInv, AdvanceInv, GetMessagesInv, SendMessageInv DEF Adapter
  <1>6. CASE LoadFails
    BY <1>6, LoadFailsInv
  <1>7. CASE GetMessagesFails
    BY <1>7, GetMessagesFailsInv
  <1>8. CASE Take
    BY <1>8, TakeInv
  <1>9. CASE Cancel
    BY <1>9, CancelInv
  <1>10. CASE Stop
    BY <1>10, StopInv
  <1>. QED BY <1>1, <1>2, <1>3, <1>4, <1>5, <1>6, <1>7, <1>8, <1>9, <1>10 DEF Next

LEMMA InvCaughtUp ==
    ASSUME IInv
    PROVE  CaughtUp
  <1> SUFFICES ASSUME adapter.step = "idle", signal = 0, writer.step = "idle", ~Failed(adapter.mark)
               PROVE  /\ adapter.previous = table
                      /\ \A s \in Sessions : \A o \in Due(s) : Announced(s, o)
    BY DEF CaughtUp
  <1>1. TypeOK /\ table \in [Sessions -> Row] /\ adapter.previous \in [Sessions -> Row]
    BY Typed DEF IInv
  <1>2. ASSUME NEW s \in Sessions PROVE adapter.previous[s] = table[s]
    BY At DEF Current, Pending
  <1>3. adapter.previous = table
    BY <1>1, <1>2
  <1>4. ASSUME NEW s \in Sessions, NEW o \in Due(s) PROVE Announced(s, o)
    <2>1. /\ o \in rows[s] /\ o \in Nat /\ known[s].count <= o /\ o < table[s].count /\ table[s].count \in Nat
          /\ Counted(s) /\ Ordered(s) /\ table[s].at \in Nat
      <3>1. o \in rows[s] /\ known[s].count <= o /\ o < table[s].count /\ rows[s] \in SUBSET Nat
        BY <1>1, Typed DEF Due
      <3>. QED BY <3>1, At
    <2>2. ~Visited(s) /\ ~Sending(s)
      BY DEF Visited, Sending, Diffing
    <2>3. table[s].at # 0
      BY <2>1 DEF Counted
    <2>4. Base(s) = table[s]
      BY <1>3, <2>2 DEF Base
    <2>5. Present(s) /\ Floor(s) = table[s].count
      BY <2>1, <2>2, <2>3, <2>4 DEF Present, Floor
    <2>6. Below(s, table[s].count)
      BY <2>5, <2>1 DEF Ordered
    <2>. QED BY <2>1, <2>6 DEF Below
  <1>. QED BY <1>3, <1>4

-----------------------------------------------------------------------------
(* Everything is well formed and the channel holds no more than its        *)
(* capacity, whatever the sizes of the pages, the windows and the channel. *)
THEOREM TypeCorrect == Spec => []TypeOK
  <1>1. Init => IInv
    BY InitInv
  <1>2. IInv /\ [Next]_vars => IInv'
    BY NextInv
  <1>3. IInv => TypeOK
    BY DEF IInv
  <1>. QED BY <1>1, <1>2, <1>3, PTL DEF Spec

(* The messages of a session are told in order, again only after it was    *)
(* told as new or, behind a gap of its ordinals, as updated; and it is     *)
(* told as new once for each of its states: no other interleaving of the   *)
(* pages, the message windows and the writes makes the adapter repeat.     *)
THEOREM EventsAreSound == Spec => []LogIsSound
  <1>1. Init => IInv
    BY InitInv
  <1>2. IInv /\ [Next]_vars => IInv'
    BY NextInv
  <1>3. IInv => LogIsSound
    BY DEF IInv, Sound
  <1>. QED BY <1>1, <1>2, <1>3, PTL DEF Spec

(* An adapter that waits, with no signal and no write pending and no error *)
(* since its last refresh began, has told everything the table holds.      *)
THEOREM NothingIsLost == Spec => []CaughtUp
  <1>1. Init => IInv
    BY InitInv
  <1>2. IInv /\ [Next]_vars => IInv'
    BY NextInv
  <1>3. IInv => CaughtUp
    BY InvCaughtUp
  <1>. QED BY <1>1, <1>2, <1>3, PTL DEF Spec

=============================================================================
