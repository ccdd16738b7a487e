-------------------------- MODULE ClaudeTranscript --------------------------
(***************************************************************************)
(* The parser of Claude Code files.  Entries name their parent, so a file  *)
(* is a tree: a long branch becomes a session of its own (a fork), a short *)
(* one was a retry and is left out.  Snapshots of one response are merged  *)
(* first.  Appended lines are parsed on their own, or not at all.          *)
(*                                                                         *)
(* A line is [type, id, parent, time, kind, mid, blocks, results, links,   *)
(* ended]: the type is "user", "assistant" or "queued" (a prompt typed     *)
(* while a tool ran); "kind" tells the lines that are no plain message     *)
(* ("meta", "summary", "notice", "noise"); "mid" names the response a      *)
(* snapshot belongs to (0 for none).  A block is [type, key, size]; texts  *)
(* of one key are prefixes of each other, a tool's key is its call.        *)
(***************************************************************************)
EXTENDS Integers, Sequences, FiniteSets
LOCAL INSTANCE SequencesExt
LOCAL INSTANCE FiniteSetsExt

CONSTANT forkThreshold      \* user turns a branch may have and be a retry

Main == 0                   \* the session named by the file; a fork is
                            \* named by its first entry
(* What f makes of the elements of s, one after the other.                 *)
Each(f(_), s) == FoldLeft(LAMBDA done, e : done \o f(e), <<>>, s)

-----------------------------------------------------------------------------
(* Merging the snapshots of a response.                                    *)

claudeBlocksAlign(a, b) ==
    /\ a.type = b.type
    /\ IF a.type \in {"text", "tool_use"} THEN a.key = b.key ELSE a = b

pickClaudeLatestBlock(existing, candidate) ==
    IF \/ candidate.type = "tool_use"
       \/ candidate.type = "text" /\ candidate.size >= existing.size
    THEN candidate ELSE existing

claudeBlockExistsIn(b, blocks) ==
    \E c \in ToSet(blocks) : IF b.type = "tool_use" THEN c.type = b.type /\ c.key = b.key
                                                    ELSE c = b

claudeSnapshotIsCumulative(merged, snapshot) ==
    \A i \in DOMAIN merged \cap DOMAIN snapshot : claudeBlocksAlign(merged[i], snapshot[i])

MutMergeClaudeSnapshot(merged, snapshot, ended) ==
    IF ~ended
    THEN [i \in 1..Max({Len(merged), Len(snapshot)}) |->
             IF i > Len(snapshot) THEN merged[i]
             ELSE IF i > Len(merged) THEN snapshot[i]
             ELSE pickClaudeLatestBlock(merged[i], snapshot[i])]
    ELSE merged \o SelectSeq(snapshot, LAMBDA b : ~claudeBlockExistsIn(b, merged))

mergeClaudeSnapshot(merged, snapshot, ended) ==
    IF ~ended /\ claudeSnapshotIsCumulative(merged, snapshot)
    THEN [i \in 1..Max({Len(merged), Len(snapshot)}) |->
             IF i > Len(snapshot) THEN merged[i]
             ELSE IF i > Len(merged) THEN snapshot[i]
             ELSE pickClaudeLatestBlock(merged[i], snapshot[i])]
    ELSE merged \o SelectSeq(snapshot, LAMBDA b : ~claudeBlockExistsIn(b, merged))

mergeClaudeAssistantRun(run) ==
    LET take(s, e) == [blocks |-> mergeClaudeSnapshot(s.blocks, e.blocks, s.ended),
                       ended  |-> s.ended \/ e.ended]
    IN  [Last(run) EXCEPT
            !.blocks = FoldLeft(take, [blocks |-> <<>>, ended |-> FALSE], run).blocks]

SameResponse(es, i) ==
    /\ i > 1
    /\ es[i].type = "assistant" /\ es[i - 1].type = "assistant"
    /\ es[i].mid # 0 /\ es[i].mid = es[i - 1].mid

mergeClaudeAssistantMessageChunks(es) ==
    LET first(i) == Max({j \in 1..i : ~SameResponse(es, j)})
        ends == SelectSeq([i \in DOMAIN es |-> i],
                          LAMBDA i : i = Len(es) \/ ~SameResponse(es, i + 1))
    IN  Each(LAMBDA e : <<mergeClaudeAssistantRun(SubSeq(es, first(e), e))>>, ends)

-----------------------------------------------------------------------------
(* Messages.                                                               *)

ClaudeMessage(e, role, sys) ==
    [role |-> role, sys |-> sys, boundary |-> e.kind = "summary", text |-> e.blocks,
     calls |-> IF sys THEN <<>> ELSE SelectSeq(e.blocks, LAMBDA b : b.type = "tool_use"),
     results |-> IF sys THEN <<>> ELSE e.results, mid |-> IF sys THEN 0 ELSE e.mid,
     time |-> e.time, from |-> e.id]

extractMessages(es) ==
    LET emit(e) ==
            CASE e.kind = "summary" -> <<ClaudeMessage(e, "assistant", TRUE)>>
              [] e.type = "user" /\ e.kind = "notice" -> <<ClaudeMessage(e, "user", TRUE)>>
              [] e.type = "user" /\ e.kind \in {"meta", "noise"} -> <<>>
              [] e.blocks = <<>> /\ e.results = <<>> -> <<>>
              [] OTHER -> <<ClaudeMessage(e, e.type, FALSE)>>
    IN  Each(emit, es)

(* Queued prompts go where their time puts them.                           *)
mergeQueuedCommands(msgs, queued) ==
    SortSeq(msgs \o Each(LAMBDA q : <<ClaudeMessage(q, "user", FALSE)>>, queued),
            LAMBDA m, n : m.time < n.time)

IsQueued(l) == l.type = "queued"
IsEntry(l)  == l.type \in {"user", "assistant"}

-----------------------------------------------------------------------------
(* The tree.                                                               *)

Children(es, i) == SelectSeq([j \in DOMAIN es |-> j], LAMBDA j : es[j].parent = es[i].id)

RECURSIVE countUserTurns(_, _)
countUserTurns(es, i) ==
    (IF es[i].type = "user" THEN 1 ELSE 0)
        + FoldLeft(LAMBDA n, k : n + countUserTurns(es, k), 0, Children(es, i))

(* A walk is the path it shows and the forks it leaves behind, each with   *)
(* the session it left.                                                    *)
RECURSIVE walkBranch(_, _, _)
walkBranch(es, i, owner) ==
    LET kids  == Children(es, i)
        on(k) == LET w == walkBranch(es, k, owner) IN [w EXCEPT !.path = <<i>> \o @]
        fork(k) == LET w == walkBranch(es, k, es[k].id)
                   IN  Append(w.forks, [path |-> w.path, owner |-> owner])
    IN  IF kids = <<>> THEN [path |-> <<i>>, forks |-> <<>>]
        ELSE IF Len(kids) = 1 \/ countUserTurns(es, kids[1]) <= forkThreshold
        THEN on(Last(kids))
        ELSE LET w == on(kids[1])
             IN  [w EXCEPT !.forks = Each(fork, Tail(kids)) \o @]

parseLinear(es) == <<[id |-> Main, parent |-> Main, msgs |-> extractMessages(es)]>>

(* One root and no dangling parent, or the file is read as a list.         *)
IsTree(es) ==
    /\ Cardinality({i \in DOMAIN es : es[i].parent = 0}) = 1
    /\ \A i \in DOMAIN es : es[i].parent = 0 \/ \E j \in DOMAIN es : es[j].id = es[i].parent

parseDAG(es) ==
    LET root == CHOOSE i \in DOMAIN es : es[i].parent = 0
        walk == walkBranch(es, root, Main)
        shown(path) == extractMessages(Each(LAMBDA i : <<es[i]>>, path))
    IN  IF ~IsTree(es) THEN parseLinear(es)
        ELSE <<[id |-> Main, parent |-> Main, msgs |-> shown(walk.path)]>>
             \o Each(LAMBDA f : <<[id |-> es[f.path[1]].id, parent |-> f.owner,
                                   msgs |-> shown(f.path)]>>, walk.forks)

(* The sessions of a file, the main one first.                             *)
ParseClaudeSession(lines) ==
    LET es     == mergeClaudeAssistantMessageChunks(SelectSeq(lines, IsEntry))
        parsed == parseDAG(es)
    IN  [parsed EXCEPT ![1].msgs = mergeQueuedCommands(@, SelectSeq(lines, IsQueued))]

-----------------------------------------------------------------------------
(* Appended lines: "append" with their messages, or a full parse, which    *)
(* replaces what is stored only when it is asked to.                       *)

hasDAGFork(es) == \E i \in DOMAIN es : i > 1 /\ es[i].parent # es[i - 1].id

MutNeedsClaudeFullParse(es) ==
    \E i \in DOMAIN es : es[i].type = "user" /\ es[i].links

needsClaudeFullParse(es) ==
    \E i \in DOMAIN es : \/ es[i].type = "user" /\ es[i].links
                         \/ SameResponse(es, i)

ParseClaudeSessionFrom(lines, offset) ==
    LET tail == SubSeq(lines, offset + 1, Len(lines))
        es   == SelectSeq(tail, IsEntry)
    IN  CASE hasDAGFork(es) -> [how |-> "full", msgs |-> <<>>]
          [] needsClaudeFullParse(es) -> [how |-> "replace", msgs |-> <<>>]
          [] OTHER -> [how |-> "append",
                       msgs |-> mergeQueuedCommands(extractMessages(es), SelectSeq(tail, IsQueued))]

=============================================================================
