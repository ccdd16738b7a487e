------------------------- MODULE AgentTranscripts -------------------------
(***************************************************************************)
(* The parsers of the agents that write one message per record, and what   *)
(* toDBMessages makes of the messages of any parser: results are put on    *)
(* the calls they answer, and user messages that held nothing else go.     *)
(*                                                                         *)
(* A record is [type, id, text, notice, calls, results, parent, soon]:     *)
(* "text" and "notice" are sequences of pieces of text, those of the       *)
(* speaker and those the agent injected; "calls" are the tool calls made   *)
(* ([id, tool]) and "results" the answers to calls ([id, says]); "parent"  *)
(* and "soon" place a record in a burst of snapshots less than a second    *)
(* apart.                                                                  *)
(***************************************************************************)
EXTENDS Integers, Sequences, FiniteSets
LOCAL INSTANCE SequencesExt
LOCAL INSTANCE FiniteSetsExt
LOCAL INSTANCE Functions

Record(type) == [type |-> type, id |-> 0, text |-> <<>>, notice |-> <<>>, calls |-> <<>>,
                 results |-> <<>>, parent |-> 0, soon |-> FALSE]

AgentMessage(role, r) ==
    [role |-> role, sys |-> FALSE, text |-> r.text, calls |-> r.calls, results |-> r.results]
Injected(text) ==
    [role |-> "user", sys |-> TRUE, text |-> text, calls |-> <<>>, results |-> <<>>]

(* A call is shown as a line of text, so only a record without text and    *)
(* calls is blank.                                                         *)
Blank(r) == r.text = <<>> /\ r.calls = <<>>

One(m) == <<m>>
When(condition, m) == IF condition THEN <<m>> ELSE <<>>

(* What f makes of the elements of s, one after the other.                 *)
Each(f(_), s) == FoldLeft(LAMBDA done, e : done \o f(e), <<>>, s)

-----------------------------------------------------------------------------
(* Agents whose records are messages.                                      *)

(* A file without any content is no session.                               *)
ParseCopilotSession(records) ==
    LET emit(r) ==
            CASE r.type = "user.message" -> When(r.text # <<>>, AgentMessage("user", r))
              [] r.type = "assistant.message" -> When(~Blank(r), AgentMessage("assistant", r))
              [] r.type = "tool.execution_complete" ->
                     When(r.results # <<>>, AgentMessage("user", r))
              [] OTHER -> <<>>      \* session.start, reasoning, model_change, skills
        msgs == Each(emit, records)
    IN  IF \A i \in DOMAIN msgs : Blank(msgs[i]) THEN <<>> ELSE msgs

ParseOpenClawSession(records) ==
    LET emit(r) ==
            CASE r.type \in {"user", "assistant"} ->
                     When(~Blank(r) \/ r.results # <<>>, AgentMessage(r.type, r))
              [] r.type = "toolResult" -> When(r.results # <<>>, AgentMessage("user", r))
              [] OTHER -> <<>>      \* session, compaction, model_change, custom
    IN  Each(emit, records)

(* Pi keeps a message even when it is blank.                               *)
ParsePiSession(records) ==
    LET emit(r) ==
            CASE r.type \in {"user", "assistant"} -> One(AgentMessage(r.type, r))
              [] r.type = "toolResult" -> One(AgentMessage("user", r))
              [] OTHER -> <<>>
    IN  Each(emit, records)

ParseAmpSession(records) ==
    LET emit(r) == When(/\ r.type \in {"user", "assistant"}
                        /\ ~Blank(r) \/ r.results # <<>>,
                        AgentMessage(r.type, r))
    IN  Each(emit, records)

(* What Zencoder injects into a turn becomes a message of its own.         *)
ParseZencoderSession(records) ==
    LET emit(r) ==
            CASE r.type = "system" -> When(r.notice # <<>>, Injected(r.notice))
              [] r.type = "user" -> When(r.text # <<>>, AgentMessage("user", r))
                                    \o When(r.notice # <<>>, Injected(r.notice))
              [] r.type = "assistant" -> When(~Blank(r), AgentMessage("assistant", r))
              [] r.type = "tool" /\ r.results # <<>> ->
                     One(AgentMessage("user", r)) \o When(r.notice # <<>>, Injected(r.notice))
              [] r.type = "finish" -> One(Injected(<<"finish">>))
              [] OTHER -> <<>>      \* permission
    IN  Each(emit, records)

(* Hermes, in both of its formats.                                         *)
parseHermesSession(records) ==
    LET emit(r) ==
            CASE r.type = "user" -> When(r.text # <<>>, AgentMessage("user", r))
              [] r.type = "assistant" -> When(~Blank(r), AgentMessage("assistant", r))
              [] r.type = "tool" -> When(r.results # <<>>, AgentMessage("user", r))
              [] OTHER -> <<>>      \* session_meta
    IN  Each(emit, records)

(* An OpenHands observation answers a call, or is shown as it is.          *)
parseOpenHandsEvent(r) ==
    CASE r.type \in {"user", "assistant"} ->
             When(~Blank(r) \/ r.results # <<>>, AgentMessage(r.type, r))
      [] r.type = "action" -> When(r.calls # <<>>, AgentMessage("assistant", r))
      [] r.type = "observation" /\ r.results # <<>> ->
             One(AgentMessage("user", [r EXCEPT !.text = <<>>]))
      [] r.type = "observation" /\ r.results = <<>> ->
             When(r.text # <<>>, AgentMessage("user", r))
      [] OTHER -> <<>>

ParseOpenHandsSession(records) == Each(parseOpenHandsEvent, records)

ParseKiroSession(records) ==
    LET emit(r) ==
            CASE r.type = "Prompt" -> When(r.text # <<>>, AgentMessage("user", r))
              [] r.type = "AssistantMessage" -> When(~Blank(r), AgentMessage("assistant", r))
              [] r.type = "ToolResults" -> When(r.results # <<>>, AgentMessage("user", r))
              [] OTHER -> <<>>
        msgs == Each(emit, records)
    IN  IF \A i \in DOMAIN msgs : Blank(msgs[i]) THEN <<>> ELSE msgs

(* Kiro IDE: a tool's answer is part of what its assistant logged.         *)
parseKiroIDENewFormat(records) ==
    LET emit(r) ==
            CASE r.type = "user" -> When(r.text # <<>>, AgentMessage("user", r))
              [] r.type = "assistant" -> When(~Blank(r), AgentMessage("assistant", r))
              [] OTHER -> <<>>
        msgs == Each(emit, records)
    IN  IF \A i \in DOMAIN msgs : msgs[i].text = <<>> THEN <<>> ELSE msgs

(* Cortex: the first turn may be reminders alone, which are not shown; a   *)
(* message of results is shown by their number.                            *)
parseCortexMessages(history) ==
    LET shown(r) == IF Blank(r) /\ r.results # <<>> THEN [r EXCEPT !.text = <<"results">>] ELSE r
        emit(i) == LET r == history[i] IN
            When(/\ r.type \in {"user", "assistant"}
                 /\ ~(r.type = "user" /\ i = 1 /\ r.text = <<>>)
                 /\ ~Blank(shown(r)),
                 AgentMessage(r.type, shown(r)))
    IN  Each(emit, [i \in DOMAIN history |-> i])

parseCursorJSONL(records) ==
    LET emit(r) ==
            CASE r.type = "user" -> When(r.text # <<>>, AgentMessage("user", [r EXCEPT !.results = <<>>]))
              [] r.type = "assistant" -> When(~Blank(r) \/ r.results # <<>>, AgentMessage("assistant", r))
              [] OTHER -> <<>>
    IN  Each(emit, records)

-----------------------------------------------------------------------------
(* VS Code and Positron: a log of operations on a document of requests.    *)

(* A request is pushed, at "parent" if it is spliced in; an answer is      *)
(* pushed into the response of request "id".                               *)
jsonlPush(requests, r) ==
    LET at == IF r.parent = 0 THEN Len(requests) ELSE Min({r.parent - 1, Len(requests)})
    IN  CASE r.type = "request" ->
                 SubSeq(requests, 1, at) \o <<[text |-> r.text, response |-> <<>>]>>
                     \o SubSeq(requests, at + 1, Len(requests))
          [] r.type = "response" /\ r.id \in DOMAIN requests ->
                 [requests EXCEPT ![r.id].response = Append(@, r)]
          [] OTHER -> requests

(* A snapshot starts the document anew.                                    *)
reconstructJSONL(records) ==
    FoldLeft(LAMBDA requests, r : IF r.type = "initial" THEN <<>> ELSE jsonlPush(requests, r),
             <<>>, records)

parseVSCodeCopilotResponse(items) ==
    [Record("response") EXCEPT !.text = Each(LAMBDA r : r.text, items),
                               !.calls = Each(LAMBDA r : r.calls, items)]

parseVSCodeCopilotData(requests) ==
    LET emit(q) == LET answer == parseVSCodeCopilotResponse(q.response) IN
            When(q.text # <<>>, AgentMessage("user", [Record("request") EXCEPT !.text = q.text]))
            \o When(~Blank(answer), AgentMessage("assistant", answer))
    IN  Each(emit, requests)

-----------------------------------------------------------------------------
(* Gemini: a later record with the same id takes the place of the earlier. *)

InPlace(records) ==
    LET said(r) == r.type \in {"user", "gemini"}
        put(kept, r) ==
            LET same == {i \in DOMAIN kept : r.id # 0 /\ kept[i].id = r.id}
            IN  IF same = {} THEN Append(kept, r) ELSE [kept EXCEPT ![Min(same)] = r]
    IN  FoldLeft(put, <<>>, SelectSeq(records, said))

ParseGeminiSession(records) ==
    LET emit(r) == When(~Blank(r), AgentMessage(IF r.type = "gemini" THEN "assistant" ELSE "user", r))
    IN  Each(emit, InPlace(records))

-----------------------------------------------------------------------------
(* Kimi: the parts of a turn are gathered until something else follows.    *)

Gathered(turn, r) ==
    [turn EXCEPT !.text = @ \o r.text, !.calls = @ \o r.calls]

flushAssistantTurn(s) ==
    [msgs |-> s.msgs \o When(~Blank(s.turn), AgentMessage("assistant", s.turn)),
     turn |-> Record("turn")]

ParseKimiSession(records) ==
    LET put(s, r) ==
            CASE r.type = "TurnBegin" ->
                     LET f == flushAssistantTurn(s)
                     IN  [f EXCEPT !.msgs = @ \o When(r.text # <<>>, AgentMessage("user", r))]
              [] r.type \in {"ContentPart", "ToolCall"} -> [s EXCEPT !.turn = Gathered(@, r)]
              [] r.type = "ToolResult" ->
                     LET f == flushAssistantTurn(s)
                     IN  [f EXCEPT !.msgs = Append(@, AgentMessage("user", r))]
              [] r.type = "TurnEnd" -> flushAssistantTurn(s)
              [] OTHER -> s         \* metadata, StepBegin, StatusUpdate
    IN  flushAssistantTurn(
            FoldLeft(put, [msgs |-> <<>>, turn |-> Record("turn")], records)).msgs

-----------------------------------------------------------------------------
(* iFlow: the snapshots of a burst are merged into the last of them.       *)

(* A record extends the burst of the line before it.                       *)
Extends(records, i) ==
    /\ i > 1
    /\ records[i].type = "assistant" /\ records[i - 1].type = "assistant"
    /\ records[i].parent # 0 /\ records[i].parent = records[i - 1].parent
    /\ records[i].soon

Burst(records, i) ==
    LET first == Max({j \in 1..i : ~Extends(records, j)})
    IN  [k \in 1..(i - first + 1) |-> records[first + k - 1]]

(* Text is kept from every snapshot, a call from the first that shows it.  *)
mergeIflowBurst(burst) ==
    LET unseen(calls, more) == SelectSeq(more, LAMBDA c : c \notin ToSet(calls))
    IN  [Last(burst) EXCEPT
            !.text = Each(LAMBDA r : r.text, burst),
            !.calls = FoldLeft(LAMBDA calls, r : calls \o unseen(calls, r.calls), <<>>, burst)]

deduplicateIflowEntries(records) ==
    Each(LAMBDA i : When(i = Len(records) \/ ~Extends(records, i + 1),
                         mergeIflowBurst(Burst(records, i))),
         [i \in DOMAIN records |-> i])

ParseIflowSession(records) ==
    LET emit(r) == When(/\ r.type \in {"user", "assistant"}
                        /\ ~Blank(r) \/ r.results # <<>>,
                        AgentMessage(r.type, r))
    IN  Each(emit, deduplicateIflowEntries(records))

-----------------------------------------------------------------------------
(* toDBMessages.                                                           *)

Parsers(agent, records) ==
    CASE agent = "copilot"  -> ParseCopilotSession(records)
      [] agent = "openclaw" -> ParseOpenClawSession(records)
      [] agent = "pi"       -> ParsePiSession(records)
      [] agent = "amp"      -> ParseAmpSession(records)
      [] agent = "zencoder" -> ParseZencoderSession(records)
      [] agent = "gemini"   -> ParseGeminiSession(records)
      [] agent = "kimi"     -> ParseKimiSession(records)
      [] agent = "iflow"    -> ParseIflowSession(records)
      [] agent = "hermes"   -> parseHermesSession(records)
      [] agent = "openhands" -> ParseOpenHandsSession(records)
      [] agent = "kiro"     -> ParseKiroSession(records)
      [] agent = "kiro-ide" -> parseKiroIDENewFormat(records)
      [] agent = "cortex"   -> parseCortexMessages(records)
      [] agent = "cursor"   -> parseCursorJSONL(records)
      [] agent = "vscode"   -> parseVSCodeCopilotData(reconstructJSONL(records))

(* The last call of an id is the one results are put on; the last result   *)
(* of an id is the one it keeps.                                           *)
CallAt(msgs, id) ==
    Max({0} \cup {i \in DOMAIN msgs : \E c \in ToSet(msgs[i].calls) : c.id = id})

ResultsOf(msgs, id) ==
    SelectSeq(Each(LAMBDA m : m.results, msgs), LAMBDA r : r.id = id)

pairToolResults(msgs) ==
    LET answered(c, i) ==
            LET answers == ResultsOf(msgs, c.id)
            IN  <<[id |-> c.id, tool |-> c.tool,
                   says |-> IF answers = <<>> \/ CallAt(msgs, c.id) # i
                            THEN {} ELSE Last(answers).says]>>
    IN  Each(LAMBDA i : <<[msgs[i] EXCEPT !.calls = Each(LAMBDA c : answered(c, i), @)]>>,
             [i \in DOMAIN msgs |-> i])

=============================================================================
