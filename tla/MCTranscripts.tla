--------------------------- MODULE MCTranscripts ---------------------------
EXTENDS Transcripts

World(agent, next, maxLines) ==
    [agent |-> agent, next |-> next, maxLines |-> maxLines, found |-> 1,
     jobs |-> FALSE, crashes |-> 0]

-----------------------------------------------------------------------------
(* Codex: an agent is spawned, reports, and is waited for.                 *)

Said(type, text)  == [type |-> type, text |-> text]
Call(id, tool)    == [type |-> "call", id |-> id, tool |-> tool, agents |-> {}]
SpawnCall == [type |-> "call", id |-> "s", tool |-> "spawn", agents |-> <<>>]
WaitCall  == [type |-> "call", id |-> "w", tool |-> "wait", agents |-> <<"kid">>]
Spawned   == [type |-> "output", id |-> "s", reports |-> <<[agent |-> "kid", status |-> "running"]>>]
SpawnEnd  == [type |-> "spawned", id |-> "s", agent |-> "kid"]
Waited    == [type |-> "output", id |-> "w", reports |-> <<[agent |-> "kid", status |-> "completed"]>>]
Notice    == [type |-> "notice", agent |-> "kid", status |-> "completed"]
Usage     == [type |-> "usage", tokens |-> 95]
Model     == [type |-> "context", model |-> "m1"]
Task      == [type |-> "task"]
System    == [type |-> "system"]

CodexLines == {Said("user", "hi"), SpawnCall, Spawned, WaitCall, Waited, Notice}
CodexOther == {Said("user", "hi"), Said("assistant", "ok"), Usage, Model, Task, System, SpawnEnd, SpawnCall}

-----------------------------------------------------------------------------
(* Claude.                                                                 *)

Line(type) == [type |-> type, id |-> 0, parent |-> 0, time |-> 0, kind |-> "plain", mid |-> 0,
               blocks |-> <<>>, results |-> <<>>, links |-> FALSE, ended |-> FALSE]
Text(key, size) == [type |-> "text", key |-> key, size |-> size]
Use(id) == [type |-> "tool_use", key |-> id, size |-> 0]
From(ls, n) == {[l EXCEPT !.parent = p] : l \in ls, p \in 0..n}

Prompt == [Line("user") EXCEPT !.blocks = <<Text("p", 1)>>]
Chunk(blocks, ended) == [Line("assistant") EXCEPT !.blocks = blocks, !.mid = 7, !.ended = ended]

Chunks == {Chunk(<<Text("a", 1)>>, FALSE), Chunk(<<Text("a", 2)>>, FALSE),
           Chunk(<<Text("a", 2), Use("t")>>, FALSE), Chunk(<<Text("b", 1)>>, TRUE),
           Chunk(<<Use("t")>>, FALSE)}
Queued == [Line("queued") EXCEPT !.blocks = <<Text("q", 1)>>]
Answer == [Line("user") EXCEPT !.results = <<"t">>, !.links = TRUE]
Odd == {[Prompt EXCEPT !.kind = "notice"], [Prompt EXCEPT !.kind = "meta"],
        [Line("assistant") EXCEPT !.kind = "summary"]}

-----------------------------------------------------------------------------
(* The other agents.                                                       *)

R(type) == [type |-> type, id |-> 0, text |-> <<>>, notice |-> <<>>, calls |-> <<>>,
            results |-> <<>>, parent |-> 0, soon |-> FALSE]
Say(type, text) == [R(type) EXCEPT !.text = <<text>>]
Bash(id) == [id |-> id, tool |-> "Bash"]
Runs3 == [R("assistant") EXCEPT !.calls = <<Bash("c1"), [id |-> "c2", tool |-> "Zsh"],
                                            [id |-> "c3", tool |-> "Fish"]>>]
Fails(type) == [R(type) EXCEPT !.results = <<[id |-> "c1", says |-> {"crash"}],
                                            [id |-> "c2", says |-> {"crash"}],
                                            [id |-> "c3", says |-> {"crash"}]>>]
Calls(type) == [R(type) EXCEPT !.calls = <<Bash("c1")>>]
Answers(type) == [R(type) EXCEPT !.results = <<[id |-> "c1", says |-> {}]>>]
Msg(role, id) == [R(role) EXCEPT !.id = id]
Part(id, of, text) == [R("text") EXCEPT !.id = id, !.parent = of, !.text = text]
Tool(id, of) == [R("tool") EXCEPT !.id = id, !.parent = of, !.calls = <<Bash("c1")>>]
Noted(r) == [r EXCEPT !.notice = <<"note">>]

MCWorlds == {
    World("codex", CodexLines, 4), World("codex", CodexOther, 3),
    [World("claude", From({Prompt}, 6), 7) EXCEPT !.found = 6],
    World("claude", From({Prompt, Answer, Queued} \cup Odd, 2), 3),
    [World("claude", From({Prompt} \cup Chunks, 3), 4) EXCEPT !.found = 2],
    World("copilot", {Say("user.message", "p"), Say("assistant.message", "a"), R("assistant.message"),
                      Answers("tool.execution_complete")}, 3),
    World("openclaw", {Say("user", "p"), Calls("assistant"), Answers("toolResult"), R("user")}, 3),
    World("amp", {Say("user", "p"), Calls("assistant"), Answers("user"), R("assistant")}, 3),
    World("zencoder", {Noted(Say("user", "p")), Calls("assistant"), Noted(Answers("tool")),
                       Noted(R("system")), R("finish")}, 3),
    World("gemini", {Say("user", "p"), [Say("gemini", "a") EXCEPT !.id = 1],
                     [R("gemini") EXCEPT !.id = 1, !.text = <<"a", "b">>],
                     [Say("gemini", "c") EXCEPT !.id = 2]}, 4),
    World("kimi", {Say("TurnBegin", "p"), Say("ContentPart", "a"), Calls("ToolCall"),
                   Answers("ToolResult"), R("TurnEnd")}, 4),
    World("iflow", {Say("user", "p"), [Say("assistant", "a") EXCEPT !.parent = 1],
                    [Calls("assistant") EXCEPT !.parent = 1, !.soon = TRUE],
                    [Say("assistant", "b") EXCEPT !.parent = 1, !.soon = TRUE]}, 4),
    World("hermes", {Say("user", "p"), Calls("assistant"), Answers("tool"), R("session_meta")}, 3),
    World("openhands", {Say("user", "p"), Calls("action"), Answers("observation"),
                        Say("observation", "o")}, 3),
    World("kiro", {Say("Prompt", "p"), Calls("AssistantMessage"), Answers("ToolResults")}, 3),
    World("kiro-ide", {Say("user", "p"), Calls("assistant"), Say("assistant", "a"), Answers("tool")}, 3),
    World("cortex", {R("user"), Say("user", "p"), Calls("assistant"), Answers("user")}, 3),
    World("cursor", {Say("user", "p"), Calls("assistant"), Say("assistant", "a")}, 3),
    World("vscode", {Say("request", "p"), [Say("request", "q") EXCEPT !.parent = 9],
                     [Say("response", "a") EXCEPT !.id = 1], [Calls("response") EXCEPT !.id = 2]}, 4),
    [World("opencode", {Msg("user", 1), Msg("assistant", 2), Part(3, 1, <<"p">>),
                        Part(4, 2, <<"a">>), Part(4, 2, <<"a", "b">>), Tool(5, 2),
                        [R("gone") EXCEPT !.id = 4], [R("gone") EXCEPT !.id = 2]}, 5)
        EXCEPT !.found = 2],
    [World("pi", {Say("user", "p"), Runs3, Fails("toolResult"), Say("assistant", "a")}, 4)
        EXCEPT !.crashes = 1],
    [World("codex", {Said("user", "hi"), Said("assistant", "sorry")}, 4)
        EXCEPT !.jobs = TRUE, !.crashes = 1]}

CodexWorlds == {World("codex", CodexLines, 4)}

MCTools == [t \in {"Bash", "Zsh", "Fish", "Read", "spawn", "wait"} |->
              [category |-> IF t \in {"Bash", "Zsh", "Fish"} THEN "Bash" ELSE "Other",
               input |-> t, path |-> ""]]
MCWindows == [m \in {"m1"} |-> 100]
=============================================================================
