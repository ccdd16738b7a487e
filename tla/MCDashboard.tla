---------------------------- MODULE MCDashboard ----------------------------
(***************************************************************************)
(* Three sessions: a conversation, one that replays its messages (a        *)
(* resumed session or a fork), and one that is the first one's subagent or *)
(* another agent's own.  Their times lie around the midnights of UTC, of   *)
(* the easternmost and westernmost zones and of a zone whose clock changes.*)
(***************************************************************************)
EXTENDS Dashboard

MCSessionIds == 1 .. 3
Hours(n) == n * HourLength
Day(n) == n * DayLength

MCRates == [big |-> [fresh |-> 5, cached |-> 1], small |-> [fresh |-> 1, cached |-> 0]]
UTC == [before |-> 0, after |-> 0, change |-> 0]
East == [before |-> 14, after |-> 14, change |-> 0]
West == [before |-> -12, after |-> -12, change |-> 0]
Spring == [before |-> -5, after |-> -4, change |-> Day(77) + Hours(7)]

Word == <<"s", "y", "n", "c">>
Text == Word \o <<" ">> \o Word \o <<"e", "d", " ">> \o Word \o Word \o <<" ", "n", " ", "n", " ", "n">>
MCTerms == <<{Word}, {}, {<<"n", " ", "n">>, <<"n", " ">>}>>

Call(name, cat, sub) == [name |-> name, cat |-> cat, sub |-> sub, skill |-> ""]
Plain(ts, role) ==
    [ts |-> ts, role |-> role, sys |-> FALSE, thinking |-> FALSE, tools |-> <<>>, len |-> 3,
     model |-> "", hasUsage |-> FALSE, tokens |-> [fresh |-> 0, cached |-> 0], key |-> NoKey,
     text |-> Text]
Asked(ts) == Plain(ts, "user")
Answered(ts, model, fresh, key, tools) ==
    [Plain(ts, "assistant") EXCEPT !.model = model, !.hasUsage = TRUE, !.key = key,
        !.tokens = [fresh |-> fresh, cached |-> 2], !.tools = tools, !.thinking = tools # <<>>]

Base(started, ended, msgs) ==
    [exists |-> TRUE, project |-> 1, agent |-> 1, machine |-> "m1", started |-> started,
     ended |-> ended, created |-> Day(77), kind |-> "", deleted |-> FALSE, automated |-> FALSE,
     userMsgs |-> 2, outTokens |-> 4, peak |-> 60, msgs |-> msgs,
     sig |-> [score |-> 80, grade |-> "B", outcome |-> "completed", failures |-> 1,
              compactions |-> 0, pressure |-> 85, retries |-> 1, churn |-> 0]]
Bare(r) == [r EXCEPT !.outTokens = None, !.peak = None,
                     !.sig = [@ EXCEPT !.score = None, !.grade = "", !.outcome = "unknown",
                                       !.failures = 0, !.pressure = None]]

(* The conversation: over midnight in UTC. *)
Evening == Day(77) - 3
First2 == <<Asked(Evening), Answered(Evening + 1, "big", 3, 1, <<Call("Read", "Read", None)>>)>>
Later == <<Asked(Evening + 20),
           Answered(Evening + 21, "small", 4, 2,
                    <<Call("Task", "Task", 3), Call("Read", "Read", None), Call("Edit", "Edit", None)>>)>>
Conversation == {Base(Evening, Evening + 2, First2),
                 Base(Evening, Evening + 24, First2 \o Later)}

(* It is resumed: the new file begins with the messages of the old one; or   *)
(* it is forked, and the copies are stamped on the next day.                 *)
NextDay == <<Asked(Day(77) + 1), Answered(Day(77) + 2, "big", 3, 1, <<>>),
             Answered(Day(77) + 3, "big", 1, 4, <<>>)>>
Resumed == First2 \o <<Answered(Day(77) + Hours(10), "big", 1, 3, <<>>)>>
Replay == {Base(Evening, Day(77) + Hours(11), Resumed),
           [Base(Evening, None, Resumed) EXCEPT !.kind = "fork", !.machine = "m2"],
           [Base(Day(77) + 1, Day(77) + 3, NextDay) EXCEPT !.kind = "fork"]}

(* A subagent's own session, and one of another agent without stamps. *)
Sub == <<Asked(Day(77)), Answered(Day(77) + 1, "big", 1, NoKey, <<>>)>>
Unstamped == <<Plain(None, "user"), Plain(Day(78) + Hours(11) + 2, "user"),
               Answered(None, "big", 1, NoKey, <<Call("Skill", "Tool", None)>>)>>
Other == {[Base(Day(77), Day(77) + 1, Sub) EXCEPT !.kind = "subagent"],
          [Bare(Base(None, None, Unstamped)) EXCEPT !.agent = 2, !.project = 2, !.automated = TRUE,
              !.userMsgs = 1, !.created = Day(78) + Hours(11)],
          [Bare(Base(Day(77), Day(77) + 12, Sub)) EXCEPT !.agent = 2, !.userMsgs = 1,
              !.machine = "m2"]}

MCParsed(s) == CASE s = 1 -> Conversation [] s = 2 -> Replay [] OTHER -> Other

Q == [from |-> 76, to |-> 77, zone |-> UTC, agents |-> {}, machines |-> {}, minUser |-> 0,
      since |-> None, automated |-> TRUE, project |-> None, dow |-> None, hour |-> None,
      oneShot |-> "true", exAgents |-> {}, models |-> {}]
MCQueries ==
    {[Q EXCEPT !.from = d[1], !.to = d[2], !.zone = z]:
        d \in {<<76, 76>>, <<77, 77>>, <<75, 78>>}, z \in {UTC, East, West, Spring}}
    \cup {Q, [Q EXCEPT !.from = None, !.to = None], [Q EXCEPT !.from = 78, !.to = 77],
          [Q EXCEPT !.hour = 0], [Q EXCEPT !.dow = 6, !.zone = Spring],
          [Q EXCEPT !.agents = {2}, !.to = 78], [Q EXCEPT !.machines = {"m1"}],
          [Q EXCEPT !.machines = {"m1", "m2"}], [Q EXCEPT !.project = 2, !.to = 78],
          [Q EXCEPT !.automated = FALSE, !.oneShot = ""], [Q EXCEPT !.oneShot = "false"],
          [Q EXCEPT !.minUser = 2, !.models = {"small"}],
          [Q EXCEPT !.since = Day(77) + Hours(1)], [Q EXCEPT !.exAgents = {2}, !.to = 78]}
=============================================================================
