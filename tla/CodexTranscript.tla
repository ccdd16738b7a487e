-------------------------- MODULE CodexTranscript --------------------------
(***************************************************************************)
(* The parser of Codex rollout files: codexSessionBuilder, which attaches  *)
(* what subagents report to the calls that spawned or awaited them, and    *)
(* the incremental parser, which reads appended lines with a new builder.  *)
(*                                                                         *)
(* A line is a record:                                                     *)
(*   [type |-> "context", model]           a turn_context                  *)
(*   [type |-> "user" | "assistant", text] a message with visible text     *)
(*   [type |-> "system"]                   an injected user message        *)
(*   [type |-> "notice", agent, status]    a <subagent_notification>       *)
(*   [type |-> "call", id, tool, agents]   a function_call; the agents are *)
(*                                         those a "wait" names            *)
(*   [type |-> "output", id, reports]      its output: the subagent it     *)
(*                                         spawned, or what it waited for  *)
(*   [type |-> "spawned", id, agent]       collab_agent_spawn_end          *)
(*   [type |-> "usage", tokens]            token_count                     *)
(*   [type |-> "task"]                     task_started, task_complete...  *)
(* A report is [agent, status]; its text is told by its status.            *)
(***************************************************************************)
EXTENDS Integers, Sequences, FiniteSets
LOCAL INSTANCE SequencesExt
LOCAL INSTANCE FiniteSetsExt

None == "none"
NoTokens == -1

NewBuilder(ordinal, model) ==
    [msgs |-> <<>>, ord |-> ordinal, model |-> model, usage |-> NoTokens,
     tools |-> <<>>, spawned |-> <<>>, waited |-> <<>>, pending |-> <<>>]

CodexMessage(b, role, text, calls) ==
    [ord |-> b.ord, role |-> role, text |-> text, calls |-> calls,
     model |-> b.model, tokens |-> NoTokens]

addMessage(b, role, text, calls) ==
    [b EXCEPT !.msgs = Append(@, CodexMessage(b, role, text, calls)), !.ord = @ + 1]

(* The last entry of <<agent or call, value>> pairs for a key.             *)
Lookup(pairs, key) ==
    LET hits == SelectSeq(pairs, LAMBDA p : p[1] = key)
    IN  IF hits = <<>> THEN None ELSE Last(hits)[2]

-----------------------------------------------------------------------------
(* What subagents report.                                                  *)

(* callRefs: the message that holds the call, 0 when none does.            *)
callRef(b, id) ==
    LET holds == {i \in DOMAIN b.msgs : \E c \in DOMAIN b.msgs[i].calls :
                                           b.msgs[i].calls[c].id = id}
    IN  IF holds = {} THEN 0 ELSE Max(holds)

setCallSubagentSessionID(b, id, agent) ==
    LET i == callRef(b, id) IN
    IF i = 0 THEN b ELSE [b EXCEPT !.msgs[i].calls[1].agent = agent]

appendCallResultEvent(b, id, report) ==
    LET i == callRef(b, id) IN
    IF i = 0 \/ report \in ToSet(b.msgs[i].calls[1].events)
    THEN b ELSE [b EXCEPT !.msgs[i].calls[1].events = Append(@, report)]

OfAgent(b, agent) == SelectSeq(b.pending, LAMBDA p : p.agent = agent)

claimPendingAgentEvents(b, id, agent) ==
    [FoldLeft(LAMBDA c, p : appendCallResultEvent(c, id, [agent |-> p.agent, status |-> p.status]),
              b, OfAgent(b, agent))
        EXCEPT !.pending = SelectSeq(@, LAMBDA p : p.agent # agent)]

(* A report of an agent no call waits for yet keeps its place.             *)
handleSubagentNotification(b, l) ==
    LET waiting == Lookup(b.waited, l.agent) IN
    IF waiting # None
    THEN appendCallResultEvent(b, waiting, [agent |-> l.agent, status |-> l.status])
    ELSE [b EXCEPT !.pending = Append(@, [agent |-> l.agent, status |-> l.status, ord |-> b.ord]),
                   !.ord = @ + 1]

handleFunctionCall(b, l) ==
    LET called == [addMessage(b, "assistant", <<l.id>>,
                     <<[id |-> l.id, tool |-> l.tool, agent |-> None, events |-> <<>>]>>)
                     EXCEPT !.tools = Append(@, <<l.id, l.tool>>)]
        wait(c, agent) == claimPendingAgentEvents(
                              [c EXCEPT !.waited = Append(@, <<agent, l.id>>)], l.id, agent)
    IN  IF l.tool = "wait" THEN FoldLeft(wait, called, l.agents) ELSE called

handleFunctionCallOutput(b, l) ==
    LET tool == Lookup(b.tools, l.id)
        spawn(c, r) == setCallSubagentSessionID(
                           [c EXCEPT !.spawned = Append(@, <<r.agent, l.id>>)], l.id, r.agent)
    IN  CASE tool = "spawn" -> FoldLeft(spawn, b, l.reports)
          [] tool = "wait"  -> FoldLeft(LAMBDA c, r : appendCallResultEvent(c, l.id, r),
                                        b, l.reports)
          [] OTHER          -> b

handleCollabAgentSpawnEnd(b, l) ==
    setCallSubagentSessionID([b EXCEPT !.spawned = Append(@, <<l.agent, l.id>>)], l.id, l.agent)

(* Tokens go to the last assistant message of the turn that has none.      *)
handleTokenCountEvent(b, l) ==
    LET turn == {i \in DOMAIN b.msgs : \A j \in i..Len(b.msgs) : b.msgs[j].role # "user"}
        bare == {i \in turn : b.msgs[i].tokens = NoTokens}
    IN  IF l.tokens = b.usage THEN b
        ELSE IF bare = {} THEN [b EXCEPT !.usage = l.tokens]
        ELSE [b EXCEPT !.usage = l.tokens, !.msgs[Max(bare)].tokens = l.tokens]

processLine(b, l) ==
    CASE l.type = "context" -> [b EXCEPT !.model = l.model]
      [] l.type \in {"user", "assistant"} -> addMessage(b, l.type, <<l.text>>, <<>>)
      [] l.type = "notice"  -> handleSubagentNotification(b, l)
      [] l.type = "call"    -> handleFunctionCall(b, l)
      [] l.type = "output"  -> handleFunctionCallOutput(b, l)
      [] l.type = "spawned" -> handleCollabAgentSpawnEnd(b, l)
      [] l.type = "usage"   -> handleTokenCountEvent(b, l)
      [] OTHER              -> b

-----------------------------------------------------------------------------
(* The end of a parse.                                                     *)

insertMessage(b, m) ==
    LET after == {i \in DOMAIN b.msgs : b.msgs[i].ord > m.ord}
        at    == IF after = {} THEN Len(b.msgs) + 1 ELSE Min(after)
    IN  [b EXCEPT !.msgs = InsertAt(@, at, m)]

(* Reports nobody waited for go to the call that spawned their agent, and  *)
(* those of unknown agents become messages, the same report only once.     *)
flushOrphans(b, agent) ==
    LET ps    == OfAgent(b, agent)
        first == SelectSeq(ps, LAMBDA p : \A q \in ToSet(ps) : q.status = p.status => p.ord <= q.ord)
        insert(c, p) == insertMessage(c, [ord |-> p.ord, role |-> "user",
                            text |-> <<p.agent, p.status>>, calls |-> <<>>,
                            model |-> b.model, tokens |-> NoTokens])
    IN  [FoldLeft(insert, b, first)
            EXCEPT !.pending = SelectSeq(@, LAMBDA p : p.agent # agent)]

flushPendingAgentResults(b) ==
    LET flush(c, agent) ==
            IF Lookup(c.waited, agent) # None
            THEN claimPendingAgentEvents(c, Lookup(c.waited, agent), agent)
            ELSE IF Lookup(c.spawned, agent) # None
            THEN claimPendingAgentEvents(c, Lookup(c.spawned, agent), agent)
            ELSE flushOrphans(c, agent)
    IN  FoldLeft(flush, b, SetToSeq({p.agent : p \in ToSet(b.pending)}))

normalizeOrdinals(b) ==
    LET sorted == SortSeq(b.msgs, LAMBDA m, n : m.ord < n.ord)
    IN  [b EXCEPT !.msgs = [i \in DOMAIN sorted |-> [sorted[i] EXCEPT !.ord = i - 1]]]

ParseCodexSession(lines) ==
    normalizeOrdinals(flushPendingAgentResults(
        FoldLeft(processLine, NewBuilder(0, None), lines)))

(* Appended lines may tell of calls that are already stored.               *)
MutCodexIncrementalNeedsFullParse(l) ==
    \/ l.type = "spawned"
    \/ l.type = "output" /\ l.reports # <<>>
    \/ l.type = "notice"

codexIncrementalNeedsFullParse(l) ==
    \/ l.type = "spawned"
    \/ l.type = "call" /\ l.tool = "wait"
    \/ l.type = "output" /\ l.reports # <<>>
    \/ l.type = "notice"

readCodexModelAtOffset(lines, offset) ==
    LET turns == {i \in 1..offset : lines[i].type = "context"}
    IN  IF turns = {} THEN None ELSE lines[Max(turns)].model

ParseCodexSessionFrom(lines, offset, ordinal) ==
    flushPendingAgentResults(
        FoldLeft(processLine,
                 NewBuilder(ordinal, readCodexModelAtOffset(lines, offset)),
                 SubSeq(lines, offset + 1, Len(lines))))

=============================================================================
