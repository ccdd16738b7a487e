------------------------ MODULE MCScopeEventAdapter ------------------------
(* The second session's messages are numbered without a gap; the first one *)
(* lacks ordinal 1, which carried a tool result.                           *)
EXTENDS ScopeEventAdapter

MCOrdinals == <<{0, 2, 3}, {0}>>
=============================================================================
