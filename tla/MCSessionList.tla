--------------------------- MODULE MCSessionList ---------------------------
EXTENDS SessionList

Short == [NoRow EXCEPT !.stored = TRUE, !.project = "p", !.machine = "m", !.agent = "a",
                       !.created = 1, !.ended = 1, !.count = 1, !.humans = 1,
                       !.ordinals = {0}]
Long == [Short EXCEPT !.started = 1, !.count = 3, !.humans = 2, !.hit = 1, !.named = TRUE,
                      !.status = "tool_call_pending", !.ordinals = {0, 1, 2}]
Gappy == [Long EXCEPT !.ordinals = {0, 1, 4}, !.hit = 2, !.project = "q",
                      !.automated = TRUE, !.status = "clean", !.outcome = "completed",
                      !.machine = "n"]
Undated == [Short EXCEPT !.ended = 0, !.agent = "", !.named = TRUE, !.automated = TRUE]
Caller(s) == [Long EXCEPT !.calls = {s}]
Spawned(s) == [Short EXCEPT !.parent = s, !.kind = "subagent"]
Resumed(s) == [Short EXCEPT !.parent = s, !.kind = "continuation"]

MCSessions == 1..3
MCRows == {Caller(2), Resumed(1)}
MCArchives ==
    {[store |-> "sqlite", rows |-> <<Undated, Long, Gappy>>],
     [store |-> "postgres", rows |-> <<Undated, Spawned(1), Resumed(2)>>],
     [store |-> "sqlite", rows |-> <<Caller(2), Resumed(1), Spawned(2)>>]}
MCFilters ==
    {NoFilter,
     [NoFilter EXCEPT !.children = TRUE, !.oneShots = FALSE],
     [NoFilter EXCEPT !.states = {"active", "unclean"}, !.children = TRUE],
     [NoFilter EXCEPT !.oneShots = FALSE, !.automated = FALSE, !.project = "p"]}
=============================================================================
