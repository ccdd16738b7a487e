-------------------------- MODULE MCSessionIngest --------------------------
EXTENDS SessionIngest

Prompt == <<"user">>
NotInFullParse == Steps \ {"fullStat", "fullRead"}
NotBetweenWrites == {"incRead", "incMessages", "fullStat", "fullRead", "upsert"}

Calm == [files |-> {Prompt}, kinds |-> {}, maxLines |-> 0,
         grow |-> NotInFullParse, partials |-> "never",
         mishaps |-> {"touch", "upgrade"}, replacements |-> {},
         touches |-> 0, replaces |-> 0, upgrades |-> 0, faults |-> 0, crashes |-> 0]

(* A file that grows while passes fail and the process dies: one without   *)
(* tool results, and one with them.                                        *)
Growing == [Calm EXCEPT !.kinds = {"user", "asst", "chunk", "meta"}, !.maxLines = 5,
                        !.mishaps = NotBetweenWrites \cup {"touch", "upgrade"},
                        !.touches = 1, !.upgrades = 1, !.faults = 1, !.crashes = 1]
Talking == [Calm EXCEPT !.kinds = {"user", "asst", "chunk", "result", "command"},
                        !.maxLines = 5, !.grow = NotInFullParse \ {"incRead"},
                        !.mishaps = NotBetweenWrites \cup {"upgrade"},
                        !.upgrades = 1, !.faults = 1, !.crashes = 1]

(* A finished file under failures, and one written in parts of lines.      *)
Finished == [Calm EXCEPT !.files = {<<"user", "asst", "result">>,
                                    <<"user", "asst", "chunk", "meta", "user">>,
                                    <<"user", "asst", "result", "asst">>},
                         !.mishaps = Steps \cup {"touch", "upgrade"},
                         !.touches = 2, !.upgrades = 2, !.faults = 2, !.crashes = 2]
InParts == [Calm EXCEPT !.kinds = {"user", "asst", "result"}, !.maxLines = 5,
                        !.grow = NotInFullParse \ {"incRead"},
                        !.partials = "once stored", !.mishaps = NotBetweenWrites,
                        !.faults = 1]

(* Everything at once, replacement and growth at every step included.      *)
Storm == [Calm EXCEPT !.files = {Prompt, <<"command">>},
                      !.kinds = {"asst", "chunk", "result"},
                      !.maxLines = 3, !.grow = Steps, !.partials = "always",
                      !.mishaps = Steps \cup {"touch", "upgrade"},
                      !.replacements = {<<"user", "user">>}, !.replaces = 1,
                      !.upgrades = 1, !.faults = 1, !.crashes = 1]

MCWorlds == {Growing, Talking, Finished, InParts, Storm}
=============================================================================
