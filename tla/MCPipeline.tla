----------------------------- MODULE MCPipeline -----------------------------
EXTENDS Pipeline

MCStores == <<"warp">>

(* Who runs together: a pass for named files beside a full one with a      *)
(* cutoff, and the watch of a session beside each pass that may overtake   *)
(* it; alone, the watch, the periodic pass, and the one that may be        *)
(* cancelled.                                                              *)
MCProcesses ==
    {{"request"}, {"watcher", "quick"},
     {"periodic", "session"}, {"watcher", "session"}, {"session"}, {"periodic"}}

(* Two changes after the first for the watch beside the watcher, and for   *)
(* the watch and the periodic pass alone.                                  *)
MCMaxTime == [P \in MCProcesses |-> IF P \in {{"watcher", "session"}, {"session"}, {"periodic"}} THEN 3 ELSE 2]
=============================================================================
