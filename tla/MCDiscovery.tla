---- MODULE MCDiscovery ----
EXTENDS Discovery

CONSTANT Agents

F(pre, stem, ext) == Name(pre, stem, ext)
Home(agent, files, start) == [agent |-> agent, files |-> files, start |-> start]
state == Dir("session-state")
store == Dir("workspaceStorage")
chats == Dir("chatSessions")
open == Dir("storage")

AllHomes == {
  Home("claude",
    {<<Dir("p"), F("", "s", ".jsonl")>>, <<Dir("p"), Dir("s"), Dir("subagents"), F("agent-", "a", ".jsonl")>>},
    {<<Dir("p"), F("", "s", ".jsonl")>>}),
  Home("codex",
    {<<F("rollout-", "u", ".jsonl")>>, <<Dir("2026"), Dir("01"), Dir("02"), F("rollout-", "u", ".jsonl")>>},
    {}),
  Home("copilot",
    {<<state, F("", "c", ".jsonl")>>, <<state, Dir("c"), F("", "events", ".jsonl")>>,
     <<state, Dir("c"), F("", "workspace", ".yaml")>>},
    {<<state, F("", "c", ".jsonl")>>}),
  Home("gemini",
    {<<Dir("tmp"), Dir("g"), Dir("chats"), F("session-", "u", ".json")>>,
     <<Dir("tmp"), Dir("g"), F("", "logs", ".json")>>},
    {<<Dir("tmp"), Dir("g"), F("", "logs", ".json")>>}),
  Home("opencode",
    {<<open, Dir("session"), Dir("p"), F("", "o", ".json")>>, <<open, Dir("message"), Dir("o"), F("", "m", ".json")>>,
     <<open, Dir("part"), Dir("m"), F("", "q", ".json")>>},
    {<<open, Dir("session"), Dir("p"), F("", "o", ".json")>>, <<open, Dir("message"), Dir("o"), F("", "m", ".json")>>}),
  Home("openhands",
    {<<Dir("h"), F("", "base_state", ".json")>>, <<Dir("h"), Dir("events"), F("", "e1", ".json")>>,
     <<Dir("h"), Dir("events"), F("", "e2", ".json")>>},
    {}),
  Home("cursor",
    {<<Dir("p"), Dir("agent-transcripts"), F("", "u", ".txt")>>,
     <<Dir("p"), Dir("agent-transcripts"), F("", "u", ".jsonl")>>},
    {<<Dir("p"), Dir("agent-transcripts"), F("", "u", ".txt")>>}),
  Home("vscode",
    {<<store, Dir("w"), chats, F("", "v", ".json")>>, <<store, Dir("w"), chats, F("", "v", ".jsonl")>>,
     <<Dir("globalStorage"), Dir("emptyWindowChatSessions"), F("", "x", ".json")>>},
    {<<store, Dir("w"), chats, F("", "v", ".json")>>}),
  Home("positron",
    {<<store, Dir("w"), chats, F("", "v", ".json")>>},
    {<<store, Dir("w"), chats, F("", "v", ".json")>>}),
  Home("openclaw",
    {<<Dir("a"), Dir("sessions"), F("", "s", ".jsonl")>>, <<Dir("a"), Dir("sessions"), F("", "s", ".jsonl.reset.2")>>,
     <<Dir("a"), Dir("sessions"), F("", "s", ".jsonl.full.bak")>>},
    {<<Dir("a"), Dir("sessions"), F("", "s", ".jsonl")>>}),
  Home("cortex", {<<F("", "k", ".json")>>, <<F("", "k", ".history.jsonl")>>}, {<<F("", "k", ".json")>>}),
  Home("kimi", {<<Dir("h"), Dir("u"), F("", "wire", ".jsonl")>>, <<Dir("h"), Dir("u"), F("", "context", ".jsonl")>>}, {}),
  Home("amp", {<<F("T-", "t", ".json")>>, <<F("", "t", ".json")>>}, {<<F("T-", "t", ".json")>>}),
  Home("zencoder", {<<F("", "z", ".jsonl")>>}, {}),
  Home("pi", {<<Dir("d"), F("", "i", ".jsonl")>>, <<Dir("d"), F("", "plain", ".jsonl")>>}, {}),
  Home("iflow", {<<Dir("p"), F("session-", "u", ".jsonl")>>, <<Dir("p"), F("", "notes", ".jsonl")>>}, {}),
  Home("kiro", {<<F("", "r", ".jsonl")>>, <<F("", "r", ".json")>>}, {<<F("", "r", ".jsonl")>>}),
  Home("kiro-ide",
    {<<Dir("w"), F("", "c", ".chat")>>, <<Dir("workspace-sessions"), Dir("b"), F("", "n", ".json")>>},
    {<<Dir("w"), F("", "c", ".chat")>>}),
  Home("hermes", {<<F("", "h", ".jsonl")>>, <<F("session_", "h", ".json")>>}, {<<F("session_", "h", ".json")>>})}

\* the part says that it is of session o
MCPartSession == [q \in {"q"} |-> "o"]
MCHomes == {h \in AllHomes : h.agent \in Agents}
====
