--------------------------- MODULE SessionIngest ---------------------------
(***************************************************************************)
(* One Claude transcript file and the rows the sync engine keeps for it:   *)
(* stat, skip check, incremental or full parse, and the separate database  *)
(* writes of writeBatch and writeIncremental, against an agent process     *)
(* that appends to the file, write failures and crashes.                   *)
(*                                                                         *)
(* Passes hold syncMu, so one pass is in flight; its steps are separated   *)
(* wherever the file may change, a write may fail or the process may die.  *)
(*                                                                         *)
(* A line of the file is its kind, and sizes count half lines: a line      *)
(* written without its end is a partial tail of size one.                  *)
(*   "user"    a prompt                 "asst"   a new assistant response  *)
(*   "chunk"   more of that response, under the same message.id            *)
(*   "result"  a user line that holds only a tool_result for it            *)
(*   "command" a /clear or /effort envelope: a prompt without a preview    *)
(*   "meta"    a line that yields no message (progress, metadata)          *)
(***************************************************************************)
EXTENDS Integers, Sequences, FiniteSets

CONSTANT Worlds     \* what may happen around the engine, see World

Kinds == {"user", "asst", "chunk", "result", "command", "meta"}

Steps == {"idle", "incRead", "incMessages", "incUpdate",
          "fullStat", "fullRead", "upsert", "messages", "version"}

(* "files" are the contents the file may be discovered with, "kinds" and   *)
(* "maxLines" bound its growth, "grow" are the steps of a pass during      *)
(* which it may grow, and "partials" says whether writes may stop inside a *)
(* line.  "mishaps" are the steps at which a read or write may fail or the *)
(* process be killed, and whether the file may be touched without a change *)
(* of content and the parser upgraded.  The other fields bound how often.  *)
World == [files : SUBSET Seq(Kinds), kinds : SUBSET Kinds, maxLines : Nat,
          grow : SUBSET Steps, partials : {"never", "once stored", "always"},
          mishaps : SUBSET (Steps \cup {"touch", "upgrade"}),
          replacements : SUBSET Seq(Kinds), touches : Nat, replaces : Nat,
          upgrades : Nat, faults : Nat, crashes : Nat]

Entries(ls, a) == {i \in a..Len(ls) : ls[i] # "meta"}

(* A chunk continues the entry before it, as the agent writes it.          *)
WellFormed(ls) ==
    \A i \in Entries(ls, 1) : ls[i] = "chunk" =>
        \E j \in Entries(ls, 1) : /\ j < i /\ ls[j] \in {"asst", "chunk"}
                                  /\ \A k \in Entries(ls, 1) : k < i => k <= j

ASSUME WorldsAssumption ==
    \A w \in Worlds : /\ w \in World
                      /\ \A ls \in w.files \cup w.replacements : WellFormed(ls)

VARIABLES
    lines,      \* the complete lines of the file
    half,       \* the kind of its partial tail, or "none"
    inode,      \* the identity of the file
    mtime,      \* its modification time: every write changes it
    sess,       \* the sessions row
    rows,       \* the messages rows of the session
    cached,     \* skipCache[path], 0 when absent
    saved,      \* the skip cache as persisted
    job,        \* the pass in flight
    world       \* the world, with what remains of its bounds

fileVars == <<lines, half, inode, mtime>>
dbVars == <<sess, rows>>
skipVars == <<cached, saved>>
vars == <<fileVars, dbVars, skipVars, job, world>>

Size == 2 * Len(lines) + (IF half = "none" THEN 0 ELSE 1)
Largest(S) == CHOOSE n \in S : \A m \in S : m <= n

-----------------------------------------------------------------------------
(* The parser, over lines a..Len(ls).                                      *)

(* A chunk joins the assistant entry before it, if that was read as well.  *)
Merged(ls, a, i) ==
    /\ ls[i] = "chunk"
    /\ \E j \in Entries(ls, a) : j < i

Starts(ls, a) == {i \in Entries(ls, a) : ~Merged(ls, a, i)}
OrdinalOf(ls, a, i, ord) == ord + Cardinality({j \in Starts(ls, a) : j < i})

Answers(ls, a) == {i \in Starts(ls, a) : ls[i] \in {"asst", "chunk"}}
LastBefore(S, i) == {j \in S : j <= i /\ \A k \in S : k <= i => k <= j}

(* The message parsed from the entry at i; "at" and "chunks" are the lines *)
(* it holds, "results" the tool results pairToolResults gave it, and       *)
(* "reply" its provider message id.                                        *)
Message(ls, a, i, ord, ino) ==
    [ino |-> ino, ord |-> OrdinalOf(ls, a, i, ord), at |-> i,
     chunks |-> {c \in Entries(ls, a) :
                   ls[c] = "chunk" /\ c # i /\ LastBefore(Starts(ls, a), c) = {i}},
     results |-> {r \in Entries(ls, a) :
                   ls[r] = "result" /\ LastBefore(Answers(ls, a), r) = {i}},
     reply |-> IF ls[i] \in {"asst", "chunk"}
               THEN LastBefore({j \in 1..Len(ls) : ls[j] = "asst"}, i) ELSE {}]

(* toDBMessages: every entry takes an ordinal, then pairAndFilter drops the *)
(* user messages that held only tool results.                               *)
Parse(ls, a, ord, ino) ==
    {Message(ls, a, i, ord, ino) : i \in {j \in Starts(ls, a) : ls[j] # "result"}}

-----------------------------------------------------------------------------
(* The database.                                                           *)

MaxOrdinal == IF rows = {} THEN -1 ELSE Largest({r.ord : r \in rows})

LastClaudeMessageID ==
    LET replies == {r \in rows : r.reply # {}}
        last == {r \in replies : \A q \in replies : q.ord <= r.ord}
    IN  {<<r.ino, r.reply>> : r \in last}

(* writeMessages: append what lies past the highest stored ordinal.        *)
MutAppendAll(msgs) == rows \cup msgs
Appended(msgs) == rows \cup {m \in msgs : \A r \in rows : r.ord < m.ord}

(* The prompts among the messages of a parse, and those with a preview.    *)
Prompts(msgs) == {m \in msgs : lines[m.at] \in {"user", "command"}}
Previews(msgs) == {m \in msgs : lines[m.at] = "user"}

(* "asked" is user_message_count > 0, "preview" first_message # "".        *)
NoSession == [stored |-> FALSE, size |-> 0, mtime |-> 0, inode |-> 0, count |-> 0,
              asked |-> FALSE, preview |-> FALSE, version |-> "none"]

NoJob == [step |-> "idle", seen |-> 0, size |-> 0, mtime |-> 0, inode |-> 0,
          force |-> FALSE, stale |-> FALSE, msgs |-> {}]

Init ==
    /\ world \in Worlds
    /\ lines \in world.files
    /\ half = "none"
    /\ inode = 1
    /\ mtime = 1
    /\ sess = NoSession
    /\ rows = {}
    /\ cached = 0
    /\ saved = 0
    /\ job = NoJob

Spend(what) ==
    /\ world[what] > 0
    /\ world' = [world EXCEPT ![what] = @ - 1]

-----------------------------------------------------------------------------
(* The agent that writes the transcript.                                   *)

MayFollow(ls, k) ==
    LET said == Entries(ls, 1) IN
    /\ k = "chunk" =>
         said # {} /\ ls[Largest(said)] \in {"asst", "chunk"}
    /\ k = "result" => \E i \in said : ls[i] = "asst"

AppendLine(k) ==
    /\ job.step \in world.grow
    /\ half = "none"
    /\ Len(lines) < world.maxLines
    /\ MayFollow(lines, k)
    /\ lines' = Append(lines, k)
    /\ mtime' = mtime + 1
    /\ UNCHANGED <<half, inode, dbVars, skipVars, job, world>>

AppendHalf(k) ==
    /\ world.partials # "never"
    /\ world.partials = "once stored" => sess.stored
    /\ job.step \in world.grow
    /\ half = "none"
    /\ Len(lines) < world.maxLines
    /\ MayFollow(lines, k)
    /\ half' = k
    /\ mtime' = mtime + 1
    /\ UNCHANGED <<lines, inode, dbVars, skipVars, job, world>>

CompleteLine ==
    /\ job.step \in world.grow
    /\ half # "none"
    /\ lines' = Append(lines, half)
    /\ half' = "none"
    /\ mtime' = mtime + 1
    /\ UNCHANGED <<inode, dbVars, skipVars, job, world>>

Touch ==
    /\ job.step = "idle"
    /\ "touch" \in world.mishaps
    /\ Spend("touches")
    /\ mtime' = mtime + 1
    /\ UNCHANGED <<lines, half, inode, dbVars, skipVars, job>>

Replace(ls) ==
    /\ job.step = "idle"
    /\ Spend("replaces")
    /\ lines' = ls
    /\ half' = "none"
    /\ inode' = inode + 1
    /\ mtime' = mtime + 1
    /\ UNCHANGED <<dbVars, skipVars, job>>

-----------------------------------------------------------------------------
(* A pass over the file.  A file that is skipped changes nothing.          *)

shouldSkipFile ==
    /\ sess.stored
    /\ sess.size = Size
    /\ sess.mtime = mtime
    /\ sess.version = "current"

CanIncrement ==
    /\ sess.stored
    /\ sess.size > 0
    /\ sess.version = "current"
    /\ sess.asked => sess.preview
    /\ Size > sess.size
    /\ inode = sess.inode
    /\ MaxOrdinal >= 0

processFile ==
    /\ job.step = "idle"
    /\ cached # mtime
    /\ ~shouldSkipFile
    /\ job' = [NoJob EXCEPT !.step = IF CanIncrement THEN "incRead" ELSE "fullStat",
                            !.seen = mtime, !.mtime = mtime, !.inode = inode]
    /\ UNCHANGED <<fileVars, dbVars, skipVars, world>>

(* A file that parses leaves the skip cache, in memory and on disk.        *)
clearSkip ==
    /\ cached' = 0
    /\ saved' = 0

(* persistSkipCache at the end of a pass.                                  *)
EndPass(skip) ==
    /\ job' = NoJob
    /\ cached' = skip
    /\ saved' = skip

(* tryIncrementalJSONL reads from the stored size to the end of the file.  *)
FirstUnread == ((sess.size + 1) \div 2) + 1

NeedsFullParse(a) ==
    \/ \E i \in Entries(lines, a) : Merged(lines, a, i)
    \/ LET first == {i \in Entries(lines, a) : \A j \in Entries(lines, a) : i <= j}
       IN  \E i \in first :
             /\ lines[i] \in {"asst", "chunk"}
             /\ LastClaudeMessageID =
                  {<<inode, Message(lines, a, i, 0, inode).reply>>}

ReadAppended(force) ==
    LET a == FirstUnread IN
    /\ job.step = "incRead"
    /\ CASE NeedsFullParse(a) ->
              /\ job' = [job EXCEPT !.step = "fullStat", !.force = force]
              /\ UNCHANGED skipVars
         [] ~NeedsFullParse(a) /\ a > Len(lines) ->
              EndPass(cached)
         [] OTHER ->
              /\ job' = [job EXCEPT !.step = "incMessages",
                           !.size = 2 * Len(lines),
                           !.msgs = Parse(lines, a, MaxOrdinal + 1, inode)]
              /\ clearSkip
    /\ UNCHANGED <<fileVars, dbVars, world>>

MutIncReadNoForce == ReadAppended(FALSE)
incRead == ReadAppended(TRUE)

(* writeIncremental: messages first, then the new offset.                  *)
MutIncReplaces ==
    /\ job.step = "incMessages"
    /\ rows' = job.msgs
    /\ job' = [job EXCEPT !.step = "incUpdate"]
    /\ UNCHANGED <<fileVars, sess, skipVars, world>>
incMessages ==
    /\ job.step = "incMessages"
    /\ rows' = Appended(job.msgs)
    /\ job' = [job EXCEPT !.step = "incUpdate"]
    /\ UNCHANGED <<fileVars, sess, skipVars, world>>

(* The preview stays what it was.                                          *)
AdvanceSession(count) ==
    /\ job.step = "incUpdate"
    /\ sess' = [sess EXCEPT !.size = job.size, !.mtime = job.mtime, !.count = count,
                            !.asked = @ \/ Prompts(job.msgs) # {}]
    /\ EndPass(cached)
    /\ UNCHANGED <<fileVars, rows, world>>

UpdateSessionIncremental == AdvanceSession(sess.count + Cardinality(job.msgs))

(* ParseClaudeSession takes its own stat, then reads to the end.           *)
fullStat ==
    /\ job.step = "fullStat"
    /\ job' = [job EXCEPT !.step = "fullRead", !.size = Size, !.mtime = mtime]
    /\ UNCHANGED <<fileVars, dbVars, skipVars, world>>

fullRead ==
    /\ job.step = "fullRead"
    /\ job' = [job EXCEPT !.step = "upsert",
                          !.msgs = Parse(lines, 1, 0, inode)]
    /\ clearSkip
    /\ UNCHANGED <<fileVars, dbVars, world>>

(* writeBatch.  UpsertSession leaves data_version alone.                   *)
WriteSession(version) ==
    /\ job.step = "upsert"
    /\ sess' = [stored |-> TRUE, size |-> job.size, mtime |-> job.mtime,
                inode |-> job.inode, count |-> Cardinality(job.msgs),
                asked |-> Prompts(job.msgs) # {}, preview |-> Previews(job.msgs) # {},
                version |-> version]
    /\ job' = [job EXCEPT !.step = "messages", !.stale = sess.version = "stale"]
    /\ UNCHANGED <<fileVars, rows, skipVars, world>>

MutUpsertStamps == WriteSession("current")
UpsertSession == WriteSession(IF sess.stored THEN sess.version ELSE "none")

writeMessages ==
    /\ job.step = "messages"
    /\ rows' = IF job.force \/ job.stale THEN job.msgs ELSE Appended(job.msgs)
    /\ job' = [job EXCEPT !.step = "version"]
    /\ UNCHANGED <<fileVars, sess, skipVars, world>>

SetSessionDataVersion ==
    /\ job.step = "version"
    /\ sess' = [sess EXCEPT !.version = "current"]
    /\ EndPass(cached)
    /\ UNCHANGED <<fileVars, rows, world>>

-----------------------------------------------------------------------------
(* Failures.                                                               *)

(* A write fails and is rolled back: the pass counts it and moves on.      *)
WriteFails ==
    /\ job.step \in {"incMessages", "incUpdate", "upsert", "messages", "version"}
    /\ job.step \in world.mishaps
    /\ Spend("faults")
    /\ EndPass(cached)
    /\ UNCHANGED <<fileVars, dbVars>>

(* The file cannot be read: it is not tried again until its mtime changes. *)
ParseFails ==
    /\ job.step \in {"fullStat", "fullRead"}
    /\ job.step \in world.mishaps
    /\ Spend("faults")
    /\ EndPass(job.seen)
    /\ UNCHANGED <<fileVars, dbVars>>

(* The process dies and is started again: the skip cache is reloaded.      *)
Crash ==
    /\ job.step # "idle"
    /\ job.step \in world.mishaps
    /\ Spend("crashes")
    /\ job' = NoJob
    /\ cached' = saved
    /\ UNCHANGED <<fileVars, dbVars, saved>>

(* A release with a newer parser: stored rows are of an older data version.*)
Upgrade ==
    /\ job.step = "idle"
    /\ "upgrade" \in world.mishaps
    /\ sess.version = "current"
    /\ Spend("upgrades")
    /\ sess' = [sess EXCEPT !.version = "stale"]
    /\ UNCHANGED <<fileVars, rows, skipVars, job>>

-----------------------------------------------------------------------------
Agent ==
    \/ \E k \in world.kinds : AppendLine(k) \/ AppendHalf(k)
    \/ CompleteLine
    \/ Touch
    \/ \E ls \in world.replacements : Replace(ls)

Pass ==
    \/ processFile
    \/ incRead
    \/ incMessages
    \/ UpdateSessionIncremental
    \/ fullStat
    \/ fullRead
    \/ UpsertSession
    \/ writeMessages
    \/ SetSessionDataVersion

Failure == WriteFails \/ ParseFails \/ Crash

Next == Agent \/ Pass \/ Failure \/ Upgrade

(* The watcher and the periodic SyncAll keep coming back to the file, and  *)
(* a pass under syncMu runs to its end; an agent ends the line it started. *)
Spec == Init /\ [][Next]_vars /\ WF_vars(Pass) /\ WF_vars(CompleteLine)

-----------------------------------------------------------------------------
Row == [ino : Nat, ord : Nat, at : Nat \ {0}, chunks : SUBSET Nat,
        results : SUBSET Nat, reply : SUBSET Nat]

TypeOK ==
    /\ lines \in Seq(Kinds)
    /\ half \in Kinds \cup {"none"}
    /\ {inode, mtime, cached, saved} \subseteq Nat
    /\ sess \in [stored : BOOLEAN, size : Nat, mtime : Nat, inode : Nat,
                 count : Nat, asked : BOOLEAN, preview : BOOLEAN,
                 version : {"none", "stale", "current"}]
    /\ rows \in SUBSET Row
    /\ job \in [step : Steps, seen : Nat, size : Nat, mtime : Nat, inode : Nat,
                force : BOOLEAN, stale : BOOLEAN, msgs : SUBSET Row]
    /\ world \in World

LinesOf(r) == {<<r.ino, i>> : i \in {r.at} \cup r.chunks}
StoredLines == UNION {LinesOf(r) : r \in rows}

(* Whether no result comes to a file that grows: a call and its result are *)
(* paired only when one parse reads both.                                  *)
Holds(w, k) == \E ls \in w.files : \E i \in 1..Len(ls) : ls[i] = k
Paired(w) == w.kinds = {} \/ ~("result" \in w.kinds \/ Holds(w, "result"))

(* The stored messages hold the lines that a parse of the whole file would *)
(* give them, and the results.                                             *)
InSync ==
    LET whole == Parse(lines, 1, 0, inode) IN
    /\ {LinesOf(r) : r \in rows} = {LinesOf(r) : r \in whole}
    /\ Paired(world) => {<<LinesOf(r), r.results>> : r \in rows}
                          = {<<LinesOf(r), r.results>> : r \in whole}

(* UNIQUE(session_id, ordinal) of the schema is never what makes an insert *)
(* fail: no path of the engine writes a second row under a stored ordinal. *)
OrdinalsAreUnique == \A r, q \in rows : r.ord = q.ord => r = q

(* The worlds in which the engine can follow the file (see README).  It is *)
(* not replaced, nothing is written while a full parse measures and reads, *)
(* and no line is half written at the first parse.  While it grows, a pass *)
(* is not cut between its two writes, and a preview came with the first.   *)
(* With results the stored ordinals fall behind those of a full parse: the *)
(* mtime of what was read has to be the one that is stored.  With parts of *)
(* lines nothing but the first pass may need a full parse.                 *)
Speaks(ls, n) == \E i \in 1..n : ls[i] = "user"
InPieces(w) == w.kinds # {} /\ w.partials # "never"
Follows(w) ==
    /\ w.mishaps \cap {"incUpdate", "messages", "version"} = {}
    /\ \A ls \in w.files : Speaks(ls, Len(ls))
    /\ ~Paired(w) => "incRead" \notin w.grow /\ "touch" \notin w.mishaps
    /\ InPieces(w) => "chunk" \notin w.kinds /\ "upgrade" \notin w.mishaps

Gentle ==
    /\ world.replacements = {}
    /\ world.grow \cap {"fullStat", "fullRead"} = {} /\ world.partials # "always"
    /\ world.kinds # {} => Follows(world)

(* A file the engine would skip has nothing left to tell: every complete   *)
(* line is stored and merged as a parse of the whole file would.           *)
SkippedIsComplete == job.step = "idle" /\ shouldSkipFile => InSync

(* No line of the transcript is shown in two messages.                     *)
NoLineTwice == \A r, q \in rows : r # q => LinesOf(r) \cap LinesOf(q) = {}

(* message_count, which the event adapter and the lists rely on, agrees    *)
(* with the rows of a file that is up to date.                             *)
CountIsRows ==
    job.step = "idle" /\ shouldSkipFile => sess.count = Cardinality(rows)

(* What the engine shows and counts is what the file says: after growth,   *)
(* upgrades, failed passes and crashes, and with tool results arriving.    *)
RowsFollowTheFile == Gentle => SkippedIsComplete /\ NoLineTwice /\ CountIsRows

(* No pass, not even one that replaces all rows, loses a line it had.      *)
LinesAreKept == [][Gentle => StoredLines \subseteq StoredLines']_vars

(* When the agent stops writing, the rows catch up with the file, unless   *)
(* it could not be read and waits for its mtime to change.                 *)
CatchesUp == <>[](Gentle => InSync \/ cached = mtime)

=============================================================================
