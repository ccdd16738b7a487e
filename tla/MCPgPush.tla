------------------------------ MODULE MCPgPush ------------------------------
EXTENDS PgPush

Calm == [batch |-> 2, filters |-> {Sessions}, stored |-> Sessions,
         dies |-> {}, appends |-> 0, edits |-> 0, fulls |-> 0,
         interrupts |-> 0, failures |-> 0, resets |-> 0]

(* Files grow while pushes run, and passes die between two writes of an    *)
(* incremental update.                                                     *)
Busy == [Calm EXCEPT !.stored = {1}, !.appends = 1, !.dies = {"update"}]

(* Pushes are interrupted and transactions fail.                           *)
Faulty == [Calm EXCEPT !.edits = 2, !.interrupts = 1, !.failures = 2]

(* Filtered, full and failing pushes are mixed.                            *)
Mixed == [Calm EXCEPT !.batch = 1, !.filters = {Sessions, {1}}, !.edits = 2,
                      !.fulls = 1, !.failures = 1, !.interrupts = 1]

(* PostgreSQL is reset between unfiltered pushes that succeed.             *)
Rebuilt == [Calm EXCEPT !.edits = 2, !.fulls = 1, !.resets = 1]

PassWorlds == {Busy, Faulty, Mixed, Rebuilt}
=============================================================================
