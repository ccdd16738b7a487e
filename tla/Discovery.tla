----------------------------- MODULE Discovery -----------------------------
(***************************************************************************)
(* How a file an agent writes becomes a session of the archive, and which  *)
(* file the archive reads when there is a choice.                          *)
(*                                                                         *)
(* The engine knows every layout three times over: Discover lists the      *)
(* files of a full pass (parser/discovery.go and the parsers), Classify    *)
(* decides what a changed path means (classifyOnePath), and Find goes from *)
(* a session id back to its file (the registry's FindSourceFunc).  This    *)
(* module states the three for every file-based agent over a tree of       *)
(* paths, and puts them to work: the watcher (internal/sync/watcher.go)    *)
(* turns writes into batches of paths, SyncPaths classifies a batch,       *)
(* SyncAll discovers everything, SyncSingleSession finds one file; each    *)
(* skips a file whose stamp it has already stored.                         *)
(*                                                                         *)
(* A path is a sequence of names below the agent's root, a name the record *)
(* of its prefix, its stem and its extension, which is all the code looks  *)
(* at.  A file is its modification time; what a session was read from is   *)
(* the set of files and times it was read at.                              *)
(***************************************************************************)
EXTENDS Naturals, Sequences, FiniteSets, FiniteSetsExt

CONSTANTS Homes,        \* agent roots to try: [agent, files, start]
          Unfit,        \* stems that are not valid session ids
          Headless,     \* stems of files without a Pi session header
          Split,        \* stems of Cortex sessions that keep their history in a file of its own
          PartSession,  \* stems of OpenCode parts that name their session -> its stem
          Digits,       \* directory names made of digits
          MaxTime,      \* bound: writes by the agent
          MaxFlushes    \* bound: batches lost or single syncs asked for

VARIABLES home,      \* the agent root of this behaviour
          tree,      \* [home.files -> time of the last write, 0 when absent]
          dirs,      \* directories that exist
          now,       \* the clock: counts the writes
          watched,   \* directories with an inotify watch
          events,    \* paths in fsnotify's queue
          pending,   \* Watcher.pending: paths waiting for the debounce
          unseen,    \* paths changed since the last full pass with no event left
          rows,      \* session id -> the row's file, project, stamp and reads
          skips,     \* the skip cache: pairs of a path and a time
          spent      \* lost events and single syncs so far

vars == <<home, tree, dirs, now, watched, events, pending, unseen, rows, skips, spent>>

----------------------------------------------------------------------------
(* Names and paths. *)

Name(pre, stem, ext) == [pre |-> pre, stem |-> stem, ext |-> ext]
Dir(stem) == Name("", stem, "")
Base(p) == p[Len(p)]
Parent(p) == SubSeq(p, 1, Len(p) - 1)
Ancestors(p) == {SubSeq(p, 1, n) : n \in 0..(Len(p) - 1)}
Present == {p \in home.files : tree[p] > 0}
Places == UNION {Ancestors(p) : p \in home.files} \ {<<>>}

IsValidSessionID(n) == n.stem \notin Unfit
IsDigits(n) == n.ext = "" /\ n.stem \in Digits
Beside(p, n) == Append(Parent(p), n)
With(p, ext) == Beside(p, [Base(p) EXCEPT !.ext = ext])
Archives == {".jsonl.deleted.1", ".jsonl.reset.2", ".jsonl.full.bak"}
openClawArchiveTime(ext) ==
    CASE ext = ".jsonl.deleted.1" -> 1 [] ext = ".jsonl.reset.2" -> 2 [] OTHER -> 0

Source(path, project) == [path |-> path, project |-> project]
\* agents whose parser takes the project from the working directory it reads
Cwd == "cwd"

----------------------------------------------------------------------------
(* Discover: the files of a full pass over the tree T. *)

DiscoverClaudeProjects(T) ==
    {Source(p, p[1].stem) : p \in {q \in T : Base(q).ext = ".jsonl" /\
        \/ Len(q) = 2 /\ q[2].pre # "agent-"
        \/ Len(q) = 4 /\ q[3] = Dir("subagents") /\ q[4].pre = "agent-"}}

isCodexSessionFilename(n) == n.pre = "rollout-" /\ n.ext = ".jsonl"
CodexLayout(p) ==
    CASE Len(p) = 1 -> "flat"
      [] Len(p) = 4 /\ \A i \in 1..3 : IsDigits(p[i]) -> "dated"
      [] OTHER -> "none"
DiscoverCodexSessions(T) ==
    {Source(p, Cwd) : p \in {q \in T : isCodexSessionFilename(Base(q)) /\ CodexLayout(q) # "none"}}

\* <id>/events.jsonl, or <id>.jsonl when there is no such directory
DiscoverCopilotSessions(T) ==
    {Source(p, Cwd) : p \in {q \in T : q[1] = Dir("session-state") /\
        \/ Len(q) = 3 /\ q[3] = Name("", "events", ".jsonl")
        \/ /\ Len(q) = 2 /\ q[2].ext = ".jsonl"
           /\ <<q[1], Dir(q[2].stem), Name("", "events", ".jsonl")>> \notin T}}

isGeminiSessionFilename(n) == n.pre = "session-" /\ n.ext \in {".json", ".jsonl"}
DiscoverGeminiSessions(T) ==
    {Source(p, p[2].stem) : p \in {q \in T :
        Len(q) = 4 /\ q[1] = Dir("tmp") /\ q[3] = Dir("chats") /\ isGeminiSessionFilename(q[4])}}

DiscoverOpenCodeSessions(T) ==
    {Source(p, Cwd) : p \in {q \in T :
        Len(q) = 4 /\ q[1] = Dir("storage") /\ q[2] = Dir("session") /\ q[4].ext = ".json"}}

\* a conversation is its directory, once it has an events directory
isOpenHandsSessionDir(T, d) == \E p \in T : Len(p) = 3 /\ p[1] = d /\ p[2] = Dir("events")
DiscoverOpenHandsSessions(T) ==
    {Source(<<d>>, Cwd) : d \in {e \in {q[1] : q \in T} :
                                   IsValidSessionID(e) /\ isOpenHandsSessionDir(T, e)}}

IsCursorTranscriptExt(n) == n.ext \in {".txt", ".jsonl"}
CursorLayout(p) ==
    /\ Len(p) \in 3..4 /\ p[2] = Dir("agent-transcripts") /\ IsCursorTranscriptExt(Base(p))
    /\ Len(p) = 4 => p[4].stem = p[3].stem
\* one transcript for each stem of a project, a .jsonl before a .txt
DiscoverCursorSessions(T) ==
    {Source(p, p[1].stem) : p \in {q \in T : CursorLayout(q) /\
        (Base(q).ext = ".txt" =>
            ~\E r \in T : CursorLayout(r) /\ r[1] = q[1] /\ Base(r) = [Base(q) EXCEPT !.ext = ".jsonl"])}}

\* the workspace's name, or "empty-window" for the global stores
ChatStore(p) ==
    \/ Len(p) = 4 /\ p[1] = Dir("workspaceStorage") /\ p[3] = Dir("chatSessions")
    \/ Len(p) = 3 /\ p[1] = Dir("globalStorage")
       /\ p[2].stem \in {"emptyWindowChatSessions", "transferredChatSessions"}
Workspace(p) == IF Len(p) = 4 THEN p[2].stem ELSE "empty-window"
DiscoverVSCodeCopilotSessions(T) ==
    {Source(p, Workspace(p)) : p \in {q \in T : ChatStore(q) /\
        \/ Base(q).ext = ".jsonl"
        \/ Base(q).ext = ".json" /\ With(q, ".jsonl") \notin T}}
DiscoverPositronSessions(T) ==
    {Source(p, Workspace(p)) : p \in {q \in T :
        ChatStore(q) /\ Len(q) = 4 /\ Base(q).ext \in {".json", ".jsonl"}}}

IsOpenClawSessionFile(n) == n.ext = ".jsonl" \/ n.ext \in Archives
\* the better of two files of a session: active, newest archive, newest file
Better(p, q) ==
    LET a == openClawArchiveTime(Base(p).ext)
        b == openClawArchiveTime(Base(q).ext)
    IN CASE Base(p).ext = ".jsonl" \/ Base(q).ext = ".jsonl" -> Base(p).ext = ".jsonl"
         [] a > 0 \/ b > 0 -> a >= b
         [] OTHER -> tree[p] >= tree[q]
OpenClawLayout(p) == Len(p) = 3 /\ p[2] = Dir("sessions") /\ IsOpenClawSessionFile(p[3])
bestOpenClawEntry(T, p) ==
    CHOOSE q \in T : /\ OpenClawLayout(q) /\ q[1] = p[1] /\ Base(q).stem = Base(p).stem
                     /\ \A r \in T : OpenClawLayout(r) /\ r[1] = p[1] /\ Base(r).stem = Base(p).stem
                                       => Better(q, r)
DiscoverOpenClawSessions(T) ==
    {Source(p, Cwd) : p \in {q \in T :
        OpenClawLayout(q) /\ IsValidSessionID(q[1]) /\ bestOpenClawEntry(T, q) = q}}

IsAmpThreadFileName(n) == n.pre = "T-" /\ n.ext = ".json" /\ IsValidSessionID(n)
\* the first line of the file is a session header
IsPiSessionFile(p) == Base(p).stem \notin Headless
IsCortexSessionFile(n) == n.ext = ".json" /\ IsValidSessionID(n)
DiscoverCortexSessions(T) ==
    {Source(p, Cwd) : p \in {q \in T : Len(q) = 1 /\ IsCortexSessionFile(q[1])}}
DiscoverAmpSessions(T) ==
    {Source(p, Cwd) : p \in {q \in T : Len(q) = 1 /\ IsAmpThreadFileName(q[1])}}
DiscoverZencoderSessions(T) ==
    {Source(p, Cwd) : p \in {q \in T : Len(q) = 1 /\ q[1].ext = ".jsonl"}}
DiscoverPiSessions(T) ==
    {Source(p, Cwd) : p \in {q \in T : Len(q) = 2 /\ q[2].ext = ".jsonl" /\ IsPiSessionFile(q)}}
DiscoverIflowProjects(T) ==
    {Source(p, p[1].stem) : p \in {q \in T : Len(q) = 2 /\ q[2].pre = "session-" /\ q[2].ext = ".jsonl"}}
DiscoverKimiSessions(T) ==
    {Source(p, p[1].stem) : p \in {q \in T : Len(q) = 3 /\ q[3] = Name("", "wire", ".jsonl")}}
DiscoverKiroSessions(T) == {Source(p, Cwd) : p \in {q \in T : Len(q) = 1 /\ q[1].ext = ".jsonl"}}
DiscoverKiroIDESessions(T) ==
    {Source(p, Cwd) : p \in {q \in T :
        \/ Len(q) = 2 /\ q[2].ext = ".chat"
           /\ q[1].stem \notin {"default", "dev_data", "index", "workspace-sessions"}
        \/ Len(q) = 3 /\ q[1] = Dir("workspace-sessions") /\ q[3].ext = ".json"
           /\ q[3].stem # "sessions"}}
\* a .jsonl, or a session_*.json that no .jsonl of the same id covers
DiscoverHermesSessions(T) ==
    {Source(p, Cwd) : p \in {q \in T : Len(q) = 1 /\
        \/ q[1].ext = ".jsonl"
        \/ /\ q[1].ext = ".json" /\ q[1].pre = "session_"
           /\ ~\E r \in T : Len(r) = 1 /\ r[1].ext = ".jsonl" /\ r[1].stem = q[1].stem}}

Discover(T) ==
    CASE home.agent = "claude"    -> DiscoverClaudeProjects(T)
      [] home.agent = "codex"     -> DiscoverCodexSessions(T)
      [] home.agent = "copilot"   -> DiscoverCopilotSessions(T)
      [] home.agent = "gemini"    -> DiscoverGeminiSessions(T)
      [] home.agent = "opencode"  -> DiscoverOpenCodeSessions(T)
      [] home.agent = "openhands" -> DiscoverOpenHandsSessions(T)
      [] home.agent = "cursor"    -> DiscoverCursorSessions(T)
      [] home.agent = "vscode"    -> DiscoverVSCodeCopilotSessions(T)
      [] home.agent = "positron"  -> DiscoverPositronSessions(T)
      [] home.agent = "openclaw"  -> DiscoverOpenClawSessions(T)
      [] home.agent = "cortex"    -> DiscoverCortexSessions(T)
      [] home.agent = "kimi"      -> DiscoverKimiSessions(T)
      [] home.agent = "amp"       -> DiscoverAmpSessions(T)
      [] home.agent = "zencoder"  -> DiscoverZencoderSessions(T)
      [] home.agent = "pi"        -> DiscoverPiSessions(T)
      [] home.agent = "iflow"     -> DiscoverIflowProjects(T)
      [] home.agent = "kiro"      -> DiscoverKiroSessions(T)
      [] home.agent = "kiro-ide"  -> DiscoverKiroIDESessions(T)
      [] home.agent = "hermes"    -> DiscoverHermesSessions(T)

----------------------------------------------------------------------------
(* Sessions: the id a file is stored under, the files it is read from, and *)
(* the time that decides whether it is read again.                         *)

SessionID(p) ==
    CASE home.agent = "openhands" -> <<p[1].stem>>
      [] home.agent = "openclaw" -> <<p[1].stem, Base(p).stem>>
      [] home.agent = "kimi" -> <<p[1].stem, p[2].stem>>
      [] home.agent = "copilot" -> <<p[2].stem>>
      [] home.agent = "kiro-ide" /\ Len(p) = 2 -> <<p[1].stem, p[2].stem>>
      [] home.agent = "claude" -> <<Base(p).pre, Base(p).stem>>
      [] OTHER -> <<Base(p).stem>>

\* the files besides p whose content ends up in the session read from path p
CopilotParts(T, p) ==
    {q \in T : Base(p).stem = "events" /\ q = Beside(p, Name("", "workspace", ".yaml"))}
CortexParts(T, p) == {q \in T : q = With(p, ".history.jsonl")}
KiroParts(T, p) == {q \in T : q = With(p, ".json")}
OpenHandsSnapshot(T, p) == {q \in T : q[1] = p[1]}
OpenCodeParts(T, p) ==
    LET messages == {m \in T : Len(m) = 4 /\ m[2] = Dir("message") /\ m[3].stem = Base(p).stem}
    IN messages \cup {q \in T : Len(q) = 4 /\ q[2] = Dir("part") /\ \E m \in messages : m[4].stem = q[3].stem}
Parts(T, p) ==
    (T \cap {p}) \cup CASE home.agent = "copilot"   -> CopilotParts(T, p)
                         [] home.agent = "cortex"    -> CortexParts(T, p)
                         [] home.agent = "kiro"      -> KiroParts(T, p)
                         [] home.agent = "openhands" -> OpenHandsSnapshot(T, p)
                         [] home.agent = "opencode"  -> OpenCodeParts(T, p)
                         [] OTHER                    -> {}

\* the parts whose times the stored stamp is made of: not a Cortex history, nor Kiro's metadata
Stamped(T, p) == {q \in Parts(T, p) : home.agent \in {"cortex", "kiro"} => q = p}
\* Mutant: the stamp is the time of the named file, whatever its companions.
MutStamp(T, p) == IF p \in T THEN tree[p] ELSE 0
\* the newest of them: copilotEffectiveMtime, OpenHandsSnapshot, OpenCodeSourceMtime, or the file's own
Stamp(T, p) == Max({0} \cup {tree[q] : q \in Stamped(T, p)})
\* what the skip cache compares: the time of the path itself, and of an OpenHands snapshot
FileTime(T, p) == IF home.agent = "openhands" THEN Stamp(T, p)
                  ELSE IF p \in T THEN tree[p] ELSE 0
Read(T, p) == {<<q, tree[q]>> : q \in Parts(T, p)}
Exists(T, p) == IF home.agent = "openhands" THEN isOpenHandsSessionDir(T, p[1]) ELSE p \in T

----------------------------------------------------------------------------
(* Classify: the source a changed path stands for, if any. *)

classifyClaude(T, p) ==
    IF p \in T /\ Base(p).ext = ".jsonl"
       /\ (\/ Len(p) = 2 /\ Base(p).pre # "agent-"
           \/ Len(p) = 4 /\ p[3] = Dir("subagents") /\ Base(p).pre = "agent-")
    THEN {Source(p, p[1].stem)} ELSE {}

CodexSessionPathInfo(p) ==
    /\ Len(p) \in {1, 4} /\ isCodexSessionFilename(Base(p))
    /\ Len(p) = 4 => \A i \in 1..3 : IsDigits(p[i])
classifyCodex(T, p) == IF p \in T /\ CodexSessionPathInfo(p) THEN {Source(p, Cwd)} ELSE {}

\* Mutant: a change of workspace.yaml is no change of a session.
MutClassifyCopilot(T, p) ==
    IF p \in T /\ p[1] = Dir("session-state") /\ Len(p) = 3 /\ p[3] = Name("", "events", ".jsonl")
    THEN {Source(p, Cwd)} ELSE {}
\* a change of workspace.yaml stands for the events file beside it
classifyCopilot(T, p) ==
    IF p \notin T \/ p[1] # Dir("session-state") THEN {}
    ELSE LET log == Name("", "events", ".jsonl")
         IN CASE Len(p) = 2 /\ p[2].ext = ".jsonl" /\ <<p[1], Dir(p[2].stem), log>> \notin T
                   -> {Source(p, Cwd)}
              [] Len(p) = 3 /\ p[3] = log -> {Source(p, Cwd)}
              [] Len(p) = 3 /\ p[3] = Name("", "workspace", ".yaml") /\ Beside(p, log) \in T
                   -> {Source(Beside(p, log), Cwd)}
              [] OTHER -> {}

classifyGemini(T, p) ==
    IF p \in T /\ Len(p) = 4 /\ p[1] = Dir("tmp") /\ p[3] = Dir("chats") /\ isGeminiSessionFilename(p[4])
    THEN {Source(p, p[2].stem)} ELSE {}

classifyOpenHands(T, p) ==
    IF /\ p \in T /\ IsValidSessionID(p[1])
       /\ \/ Len(p) = 2 /\ p[2] \in {Name("", "base_state", ".json"), Name("", "TASKS", ".json")}
          \/ Len(p) = 3 /\ p[2] = Dir("events") /\ p[3].ext = ".json"
    THEN {Source(<<p[1]>>, Cwd)} ELSE {}

classifyCursor(T, p) == IF p \in T /\ CursorLayout(p) THEN {Source(p, p[1].stem)} ELSE {}

vscodeJSONLSiblingExists(T, p) == Base(p).ext = ".json" /\ With(p, ".jsonl") \in T
\* Mutant: the classifier forgets the .jsonl beside a .json.
MutClassifyVSCode(T, p) ==
    IF p \in T /\ ChatStore(p) /\ Base(p).ext \in {".json", ".jsonl"} THEN {Source(p, Workspace(p))} ELSE {}
classifyVSCode(T, p) ==
    IF p \in T /\ ChatStore(p) /\ Base(p).ext \in {".json", ".jsonl"} /\ ~vscodeJSONLSiblingExists(T, p)
    THEN {Source(p, Workspace(p))} ELSE {}

\* an archived transcript stands for its session only as long as it is the best file of it
classifyOpenClaw(T, p) ==
    IF /\ p \in T /\ OpenClawLayout(p) /\ IsValidSessionID(p[1])
       /\ Base(p).ext # ".jsonl" => /\ With(p, ".jsonl") \notin T
                                    /\ IsValidSessionID(Base(p)) /\ bestOpenClawEntry(T, p) = p
    THEN {Source(p, Cwd)} ELSE {}

\* a history file stands for the metadata file beside it
classifyCortex(T, p) ==
    IF p \notin T \/ Len(p) # 1 THEN {}
    ELSE IF p[1].ext = ".history.jsonl" /\ IsCortexSessionFile(Base(With(p, ".json")))
         THEN {Source(With(p, ".json"), Cwd)}
         ELSE IF IsCortexSessionFile(p[1]) THEN {Source(p, Cwd)} ELSE {}

classifyKimi(T, p) ==
    IF p \in T /\ Len(p) = 3 /\ p[3] = Name("", "wire", ".jsonl") THEN {Source(p, p[1].stem)} ELSE {}

classifyAmp(T, p) ==
    IF p \in T /\ Len(p) = 1 /\ IsAmpThreadFileName(p[1]) THEN {Source(p, Cwd)} ELSE {}
classifyZencoder(T, p) == IF p \in T /\ Len(p) = 1 /\ p[1].ext = ".jsonl" THEN {Source(p, Cwd)} ELSE {}
classifyPi(T, p) ==
    IF p \in T /\ Len(p) = 2 /\ p[2].ext = ".jsonl" /\ IsPiSessionFile(p) THEN {Source(p, Cwd)} ELSE {}
classifyIflow(T, p) ==
    IF p \in T /\ Len(p) = 2 /\ p[2].pre = "session-" /\ p[2].ext = ".jsonl"
    THEN {Source(p, p[1].stem)} ELSE {}

FindOpenCodeSourceFile(T, stem) ==
    {p \in T : Len(p) = 4 /\ p[1] = Dir("storage") /\ p[2] = Dir("session") /\ p[4] = Name("", stem, ".json")}
\* the session of a message: the directory that has a file of the message's name
findOpenCodeStorageSessionIDByMessageID(T, message) ==
    {m[3].stem : m \in {r \in T : /\ Len(r) = 4 /\ r[1] = Dir("storage") /\ r[2] = Dir("message")
                                  /\ r[4] = Name("", message, ".json")}}
\* the session a part names itself, while it is there, or else the one its message belongs to
SessionOfPart(T, p) ==
    IF p \in T /\ Base(p).stem \in DOMAIN PartSession THEN {PartSession[Base(p).stem]}
    ELSE findOpenCodeStorageSessionIDByMessageID(T, p[3].stem)
\* a message, a part and a removed directory of them stand for the session they belong to; a root's
\* opencode.db is no file of these trees
classifyOpenCodePath(T, p) ==
    LET file == Len(p) = 4 /\ Base(p).ext = ".json"
        gone == Len(p) = 3 /\ p \notin T \cup dirs
        sources(ids) == {Source(q, Cwd) : q \in UNION {FindOpenCodeSourceFile(T, id) : id \in ids}}
    IN IF Len(p) < 3 \/ p[1] # Dir("storage") THEN {}
       ELSE CASE
            p[2] = Dir("session") /\ file /\ p \in T -> {Source(p, Cwd)}
         [] p[2] = Dir("message") /\ (file \/ gone)  -> sources({p[3].stem})
         [] p[2] = Dir("part") /\ (file \/ gone)     -> sources(SessionOfPart(T, p))
         [] OTHER -> {}

\* agents no branch of classifyOnePath knows: only a full pass reads them
PolledAgents == {"kiro", "kiro-ide", "hermes", "positron"}
classifyOnePath(T, p) ==
    CASE home.agent = "claude"    -> classifyClaude(T, p)
      [] home.agent = "codex"     -> classifyCodex(T, p)
      [] home.agent = "copilot"   -> classifyCopilot(T, p)
      [] home.agent = "gemini"    -> classifyGemini(T, p)
      [] home.agent = "opencode"  -> classifyOpenCodePath(T, p)
      [] home.agent = "openhands" -> classifyOpenHands(T, p)
      [] home.agent = "cursor"    -> classifyCursor(T, p)
      [] home.agent = "vscode"    -> classifyVSCode(T, p)
      [] home.agent = "openclaw"  -> classifyOpenClaw(T, p)
      [] home.agent = "cortex"    -> classifyCortex(T, p)
      [] home.agent = "kimi"      -> classifyKimi(T, p)
      [] home.agent = "amp"       -> classifyAmp(T, p)
      [] home.agent = "zencoder"  -> classifyZencoder(T, p)
      [] home.agent = "pi"        -> classifyPi(T, p)
      [] home.agent = "iflow"     -> classifyIflow(T, p)
      [] home.agent \in PolledAgents -> {}

\* of two Codex files of one session, the dated one
dedupeDiscoveredFiles(F) ==
    {f \in F : home.agent = "codex" /\ CodexLayout(f.path) = "flat" =>
                 ~\E g \in F : CodexLayout(g.path) = "dated" /\ SessionID(g.path) = SessionID(f.path)}
classifyPaths(T, P) == dedupeDiscoveredFiles(UNION {classifyOnePath(T, p) : p \in P})

----------------------------------------------------------------------------
(* Find: from a session id back to a file of the tree T. *)

\* the candidates ranked first by ext, among those that satisfy the layout
Ranked(C, first) == LET best == {p \in C : Base(p).ext = first} IN IF best # {} THEN best ELSE C

\* W: the files of T that share the id
FindClaudeSourceFile(W, id) ==
    {p \in W : Base(p).ext = ".jsonl" /\
        \/ Len(p) = 2
        \/ Len(p) = 4 /\ id[1] = "agent-" /\ p[3] = Dir("subagents")}
FindCodexSourceFile(W) ==
    LET C == {p \in W : isCodexSessionFilename(Base(p)) /\ CodexLayout(p) # "none"}
        live == {p \in C : CodexLayout(p) = "dated"}
    IN IF live # {} THEN live ELSE C
FindCopilotSourceFile(W) ==
    LET C == {p \in W : Base(p).ext = ".jsonl"}
        deep == {p \in C : Len(p) = 3}
    IN IF deep # {} THEN deep ELSE C
FindGeminiSourceFile(W) == {p \in W : Len(p) = 4 /\ isGeminiSessionFilename(p[4])}
FindOpenHandsSourceFile(T, stem) == {<<Dir(d)>> : d \in {e \in {stem} : isOpenHandsSessionDir(T, Dir(e))}}
FindCursorSourceFile(W) ==
    LET C == Ranked({p \in W : CursorLayout(p)}, ".jsonl")
        nested == {p \in C : Len(p) = 4}
    IN IF nested # {} THEN nested ELSE C
FindVSCodeCopilotSourceFile(W) == Ranked({p \in W : ChatStore(p)}, ".jsonl")
FindPositronSourceFile(W) == Ranked({p \in W : ChatStore(p)}, ".jsonl")
FindOpenClawSourceFile(T, W) == {bestOpenClawEntry(T, p) : p \in {q \in W : OpenClawLayout(q)}}
FindCortexSourceFile(W) == {p \in W : p[1].ext = ".json"}
FindKimiSourceFile(W) == {p \in W : Base(p) = Name("", "wire", ".jsonl")}
FindAmpSourceFile(W) == {p \in W : IsAmpThreadFileName(Base(p))}
FindZencoderSourceFile(W) == {p \in W : Base(p).ext = ".jsonl"}
FindPiSourceFile(W) == {p \in W : Base(p).ext = ".jsonl"}
FindIflowSourceFile(W) == {p \in W : Base(p).ext = ".jsonl"}
FindKiroSourceFile(W) == {p \in W : Base(p).ext = ".jsonl"}
FindKiroIDESourceFile(W) == W
FindHermesSourceFile(W) == Ranked(W, ".jsonl")

FindSourceFile(T, id) ==
    LET stem == id[Len(id)]
        with == {p \in T : SessionID(p) = id}
    IN CASE \E i \in 1..Len(id) : id[i] \in Unfit -> {}
         [] home.agent = "claude"    -> FindClaudeSourceFile(with, id)
         [] home.agent = "codex"     -> FindCodexSourceFile(with)
         [] home.agent = "copilot"   -> FindCopilotSourceFile(with)
         [] home.agent = "gemini"    -> FindGeminiSourceFile(with)
         [] home.agent = "opencode"  -> FindOpenCodeSourceFile(T, stem)
         [] home.agent = "openhands" -> FindOpenHandsSourceFile(T, stem)
         [] home.agent = "cursor"    -> FindCursorSourceFile(with)
         [] home.agent = "vscode"    -> FindVSCodeCopilotSourceFile(with)
         [] home.agent = "positron"  -> FindPositronSourceFile(with)
         [] home.agent = "openclaw"  -> FindOpenClawSourceFile(T, with)
         [] home.agent = "cortex"    -> FindCortexSourceFile(with)
         [] home.agent = "kimi"      -> FindKimiSourceFile(with)
         [] home.agent = "amp"       -> FindAmpSourceFile(with)
         [] home.agent = "zencoder"  -> FindZencoderSourceFile(with)
         [] home.agent = "pi"        -> FindPiSourceFile(with)
         [] home.agent = "iflow"     -> FindIflowSourceFile(with)
         [] home.agent = "kiro"      -> FindKiroSourceFile(with)
         [] home.agent = "kiro-ide"  -> FindKiroIDESourceFile(with)
         [] home.agent = "hermes"    -> FindHermesSourceFile(with)

----------------------------------------------------------------------------
(* Reading files: what a pass over the files F stores. *)

\* a split Cortex session is no session before it has a history
Yields(T, p) == home.agent = "cortex" /\ Base(p).stem \in Split => With(p, ".history.jsonl") \in T
\* processCursor passes over a .txt beside a .jsonl
Outranked(T, p) == home.agent = "cursor" /\ Base(p).ext = ".txt" /\ With(p, ".jsonl") \in T
Cached(T, p) == <<p, FileTime(T, p)>> \in skips
\* the stored row already has this file's time: of the session for Claude and Cursor, of the path else
StoredByID(T, p) == SessionID(p) \in DOMAIN rows /\ rows[SessionID(p)].stamp = Stamp(T, p)
StoredByPath(T, p) == \E id \in DOMAIN rows : rows[id].path = p /\ rows[id].stamp = Stamp(T, p)
Stored(T, p) == IF home.agent \in {"cursor", "claude"} THEN StoredByID(T, p) ELSE StoredByPath(T, p)
\* the whole file is read, and its stamp with it
processFile(T, f) == [id |-> SessionID(f.path), path |-> f.path, project |-> f.project,
                      stamp |-> Stamp(T, f.path), read |-> Read(T, f.path)]

\* the files of F that are parsed, and what becomes of the rows and the skip cache; of two files of
\* one session written in a pass, either may be written last
Sync(T, F) ==
    LET tried  == {f \in F : Exists(T, f.path) /\ ~Cached(T, f.path) /\ ~Outranked(T, f.path)
                               /\ ~Stored(T, f.path)}
        empty  == {f \in tried : ~Yields(T, f.path)}
        full   == {processFile(T, f) : f \in tried \ empty}
        ids    == {r.id : r \in full}
        paths  == {f.path : f \in tried}
    IN /\ \E last \in {w \in SUBSET full : \A id \in ids : Cardinality({r \in w : r.id = id}) = 1} :
            rows' = [id \in DOMAIN rows \cup ids |->
                       IF id \in ids THEN CHOOSE r \in last : r.id = id ELSE rows[id]]
       /\ skips' = {s \in skips : s[1] \notin paths} \cup {<<f.path, FileTime(T, f.path)>> : f \in empty}

----------------------------------------------------------------------------
(* The agent and the watcher. *)

WatchRoots ==
    CASE home.agent = "copilot" -> {<<Dir("session-state")>>}
      [] home.agent = "gemini" -> {<<Dir("tmp")>>}
      [] home.agent = "opencode" -> {<<Dir("storage")>>}
      [] home.agent = "vscode" -> {<<Dir("workspaceStorage")>>, <<Dir("globalStorage")>>}
      [] home.agent = "positron" -> {<<Dir("workspaceStorage")>>}
      [] OTHER -> {<<>>}
ShallowWatch == home.agent = "openhands"
Below(root, d) == Len(d) >= Len(root) /\ SubSeq(d, 1, Len(root)) = root
\* the directories startFileWatcher puts a watch on: those that exist when it runs
StartFileWatcher(D) ==
    {d \in D : \E root \in WatchRoots : IF ShallowWatch THEN d = root ELSE Below(root, d)}

Init == /\ home \in Homes
        /\ tree = [p \in home.files |-> IF p \in home.start THEN 1 ELSE 0]
        /\ dirs = {<<>>} \cup UNION {Ancestors(p) : p \in home.start}
        /\ now = 1
        /\ watched = StartFileWatcher(dirs)
        /\ events = {} /\ pending = {}
        /\ unseen = home.start
        /\ rows = [id \in {} |-> {}] /\ skips = {} /\ spent = 0

\* fsnotify reports a change of path p when its directory is watched
Notify(p) ==
    IF Parent(p) \in watched THEN events' = events \cup {p} /\ UNCHANGED unseen
    ELSE UNCHANGED events /\ unseen' = unseen \cup {p}

MakeDir(d) ==
    /\ d \notin dirs /\ Parent(d) \in dirs
    /\ dirs' = dirs \cup {d}
    /\ events' = IF Parent(d) \in watched THEN events \cup {d} ELSE events
    /\ UNCHANGED <<home, tree, now, watched, pending, unseen, rows, skips, spent>>

WriteFile(p) ==
    /\ now < MaxTime /\ Parent(p) \in dirs
    /\ now' = now + 1 /\ tree' = [tree EXCEPT ![p] = now + 1]
    /\ Notify(p)
    /\ UNCHANGED <<home, dirs, watched, pending, rows, skips, spent>>

\* a removed file can leave another one in charge of its session, for which there is no event
\* (OpenCode and OpenHands sessions lose no files here)
RemoveFile(p) ==
    /\ now < MaxTime /\ p \in Present /\ home.agent \notin {"opencode", "openhands"}
    /\ now' = now + 1 /\ tree' = [tree EXCEPT ![p] = 0]
    /\ events' = IF Parent(p) \in watched THEN events \cup {p} ELSE events
    /\ unseen' = unseen \cup {f.path : f \in {g \in Discover(Present \ {p}) : SessionID(g.path) = SessionID(p)}}
    /\ UNCHANGED <<home, dirs, watched, pending, rows, skips, spent>>

\* a created directory is watched from now on; what was put into it before stays unseen
handleEvent(e) ==
    /\ e \in events
    /\ events' = events \ {e} /\ pending' = pending \cup {e}
    /\ watched' = IF e \in dirs THEN watched \cup {e} ELSE watched
    /\ UNCHANGED <<home, tree, dirs, now, unseen, rows, skips, spent>>

\* fsnotify's queue overflows: the watcher logs the error and goes on
LoseEvent(e) ==
    /\ e \in events /\ spent < MaxFlushes /\ spent' = spent + 1
    /\ events' = events \ {e} /\ unseen' = unseen \cup {e}
    /\ UNCHANGED <<home, tree, dirs, now, watched, pending, rows, skips>>

\* the debounce of some pending paths is over: SyncPaths
flush(ready) ==
    /\ ready # {} /\ pending' = pending \ ready
    /\ Sync(Present, classifyPaths(Present, ready))
    /\ UNCHANGED <<home, tree, dirs, now, watched, events, unseen, spent>>

SyncAll ==
    /\ Sync(Present, dedupeDiscoveredFiles(Discover(Present)))
    /\ unseen' = {}
    /\ UNCHANGED <<home, tree, dirs, now, watched, events, pending, spent>>

\* the project SyncSingleSession parses with, when it sets one
SingleProject(id, p) ==
    CASE home.agent \in {"claude", "iflow"} -> IF id \in DOMAIN rows THEN rows[id].project ELSE Parent(p)[Len(p) - 1].stem
      [] home.agent \in {"cursor", "kimi"} -> p[1].stem
      [] home.agent \in {"gemini", "vscode", "positron"} -> ""
      [] OTHER -> Cwd

\* the file of the row while it exists, else the one Find finds; the skip cache is cleared for it
SyncSingleSession(id) ==
    LET kept == IF id \in DOMAIN rows /\ Exists(Present, rows[id].path) THEN {rows[id].path} ELSE {}
    IN /\ spent < MaxFlushes /\ spent' = spent + 1
       /\ \E p \in (IF kept # {} THEN kept ELSE FindSourceFile(Present, id)) :
            /\ skips' = {s \in skips : s[1] # p}
            /\ IF Stored(Present, p) \/ Outranked(Present, p) THEN UNCHANGED rows
               ELSE LET r == processFile(Present, Source(p, SingleProject(id, p)))
                    IN rows' = IF Yields(Present, p)
                               THEN [i \in DOMAIN rows \cup {r.id} |-> IF i = r.id THEN r ELSE rows[i]]
                               ELSE rows
       /\ UNCHANGED <<home, tree, dirs, now, watched, events, pending, unseen>>

Next == \/ \E p \in home.files : WriteFile(p) \/ RemoveFile(p)
        \/ \E d \in Places : MakeDir(d)
        \/ \E e \in events : handleEvent(e) \/ LoseEvent(e)
        \/ \E ready \in SUBSET pending : flush(ready)
        \/ SyncAll
        \/ \E id \in {SessionID(f.path) : f \in Discover(Present)} : SyncSingleSession(id)

\* the watcher's loop runs, its ticker flushes, and the periodic pass of main.go comes round
Fairness == /\ WF_vars(\E e \in events : handleEvent(e))
            /\ WF_vars(\E ready \in SUBSET pending : flush(ready))
            /\ WF_vars(SyncAll)
Spec == Init /\ [][Next]_vars /\ Fairness
----------------------------------------------------------------------------
(* Properties. *)

\* the row of a source is what its stamped files hold now
Current(f) ==
    LET id == SessionID(f.path)
        S  == Stamped(Present, f.path)
    IN /\ id \in DOMAIN rows /\ rows[id].path = f.path
       /\ {r \in rows[id].read : r[1] \in S} = {<<q, tree[q]>> : q \in S}

\* A change on disk, and a path that is not or no longer there, is read as a source a full pass would
\* read, with the same project, if it means a source at all; and every
\* source a full pass reads is announced by some change of one of its files (except the agents that
\* classifyOnePath leaves to the periodic pass).
WatcherAgreesWithDiscovery ==
    LET found == Discover(Present)
    IN /\ \A p \in home.files \cup Places : \A f \in classifyOnePath(Present, p) :
              Exists(Present, f.path) /\ ~Outranked(Present, f.path) => f \in found
       /\ home.agent \notin PolledAgents =>
              \A f \in found : \E p \in Parts(Present, f.path) : f \in classifyOnePath(Present, p)

\* The id of a session leads back to a file a full pass would read for that session.
SourceIsFound ==
    LET found == dedupeDiscoveredFiles(Discover(Present))
    IN \A f \in found : LET id == SessionID(f.path)
                            paths == FindSourceFile(Present, id)
                        IN (\A i \in 1..Len(id) : id[i] \notin Unfit) =>
                             /\ paths # {}
                             /\ paths \subseteq {g.path : g \in {h \in found : SessionID(h.path) = id}}

\* The three ways to a source agree: a change on disk, a full pass, and the id of its session.
WaysAgree == WatcherAgreesWithDiscovery /\ SourceIsFound

\* Once every event is handled and every batch flushed, each source whose changes were all announced
\* is stored as it is on disk in the files its stamp is made of, whatever the skip cache and the
\* twins of Homes did in between.  (Of a Codex session kept both live and archived, the copy that
\* changed last may be the row's until the next full pass.  A companion outside the stamp, engine.go
\* 3292 for Cortex and Kiro's metadata, and a Cursor transcript with twins in two directories,
\* 3413-3417, can be lost: the first is left out by Stamped and Split, the second by Homes.)
AnnouncedIsRead ==
    LET found == Discover(Present)
        single == {f \in found : home.agent = "codex" => \A g \in found : SessionID(g.path) = SessionID(f.path) => g = f}
    IN events = {} /\ pending = {} /\ home.agent \notin PolledAgents =>
        \A f \in single : Parts(Present, f.path) \cap unseen = {} /\ Yields(Present, f.path) => Current(f)

\* Whatever the watcher missed, the periodic pass stores every source in the end.
EverySourceIsRead ==
    <>[](\A f \in dedupeDiscoveredFiles(Discover(Present)) : Yields(Present, f.path) => Current(f))
============================================================================
