----------------------------- MODULE MCArchive -----------------------------
EXTENDS Archive

CONSTANTS s1, s2

Calm == [stored |-> {s1}, maxLines |-> 1, trashings |-> 0, restores |-> 0,
         deletions |-> 0, edits |-> 0, pinnings |-> 0, losses |-> 0,
         failures |-> 0, crashes |-> 0, aborts |-> 0, resyncs |-> 0,
         upgrades |-> 0]

(* The user trashes, restores and deletes during passes and resyncs.       *)
Bin == [Calm EXCEPT !.maxLines = 2, !.trashings = 2, !.restores = 1,
                    !.deletions = 2, !.resyncs = 1, !.crashes = 1]

(* The user edits during resyncs that crash, abort and find files gone.    *)
Edits == [Calm EXCEPT !.stored = {s1, s2}, !.trashings = 1, !.restores = 1,
                      !.deletions = 1, !.edits = 2, !.losses = 1, !.failures = 1,
                      !.crashes = 1, !.aborts = 1, !.resyncs = 2]

(* The parser is upgraded.                                                 *)
Upgraded == [Calm EXCEPT !.maxLines = 2, !.pinnings = 1, !.trashings = 1,
                         !.failures = 1, !.crashes = 1, !.upgrades = 1,
                         !.resyncs = 1]

SafeWorlds == {Bin, Edits, Upgraded}
=============================================================================
