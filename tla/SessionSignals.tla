--------------------------- MODULE SessionSignals ---------------------------
(***************************************************************************)
(* The health of a session, computed from its messages alone: failed,      *)
(* retried and churning tool calls, compactions, context pressure, the     *)
(* outcome, and the score they make.                                       *)
(*                                                                         *)
(* A row is [ord, role, sys, boundary, calls, tokens, model, quits]; a     *)
(* call is [tool, category, input, path, status, says], where "says" are   *)
(* the marks of its result: "crash" (a trace, "command not found",         *)
(* "Permission denied"), "exit" (a non-zero exit status), "cause" (an      *)
(* error that explains it) and "FAILED".                                   *)
(***************************************************************************)
EXTENDS Integers, Sequences, FiniteSets
LOCAL INSTANCE SequencesExt
LOCAL INSTANCE FiniteSetsExt

CONSTANT contextWindowSizes     \* a function from models to tokens

NoTokens == -1
NoStatus == "none"

-----------------------------------------------------------------------------
(* Tool health.                                                            *)

isBashFailure(says) == "crash" \in says \/ {"exit", "cause"} \subseteq says

isContentFailure(category, says) ==
    \/ category = "Bash" /\ isBashFailure(says)
    \/ category \in {"Edit", "Write"} /\ "FAILED" \in says

IsFailure(c) ==
    IF c.status # NoStatus THEN c.status \in {"errored", "cancelled"}
                           ELSE isContentFailure(c.category, c.says)

(* Runs: the maximal stretches of the calls that satisfy Together with     *)
(* their predecessor; each is told by its first and last call.             *)
Runs(calls, Together(_)) ==
    {r \in (DOMAIN calls) \X (DOMAIN calls) :
        /\ r[1] <= r[2]
        /\ \A i \in (r[1] + 1)..r[2] : Together(i)
        /\ r[1] = 1 \/ ~Together(r[1])
        /\ r[2] = Len(calls) \/ ~Together(r[2] + 1)}

countFailures(calls) == Quantify(DOMAIN calls, LAMBDA i : IsFailure(calls[i]))

maxStreak(calls) ==
    Max({0} \cup {r[2] - r[1] + 1 : r \in {q \in (DOMAIN calls) \X (DOMAIN calls) :
                      \A i \in q[1]..q[2] : IsFailure(calls[i])}})

computeFinalStreak(calls) ==
    Max({n \in 0..Len(calls) : \A i \in (Len(calls) - n + 1)..Len(calls) : IsFailure(calls[i])})

countRetries(calls) ==
    LET again(i) == /\ calls[i].tool = calls[i - 1].tool
                    /\ calls[i].input = calls[i - 1].input
        long == {r \in Runs(calls, again) : r[2] - r[1] >= 2}
    IN  MapThenSumSet(LAMBDA r : r[2] - r[1], long)

hasChurnWindow(ords) ==
    \E i \in 1..(Len(ords) - 2) :
        LET window == {ords[j] : j \in i..(i + 2)} IN Max(window) - Min(window) < 10

countEditChurn(calls) ==
    LET edits(p) == SelectSeq(calls, LAMBDA c : c.category \in {"Edit", "Write"} /\ c.path = p)
        paths == {c.path : c \in ToSet(calls)} \ {""}
    IN  Quantify(paths, LAMBDA p :
            hasChurnWindow([k \in DOMAIN edits(p) |-> edits(p)[k].ord]))

-----------------------------------------------------------------------------
(* The context.                                                            *)

Firsts(s, n) == SubSeq(s, 1, Min({n, Len(s)}))
Lasts(s, n)  == SubSeq(s, Max({1, Len(s) - n + 1}), Len(s))

(* Work that goes on under the same tools was interrupted.                 *)
CountMidTaskCompactions(boundaries, calls) ==
    LET before(b) == Lasts(SelectSeq(calls, LAMBDA c : c.ord < b), 10)
        after(b)  == Firsts(SelectSeq(calls, LAMBDA c : c.ord > b), 5)
        names(cs) == {c.tool : c \in ToSet(cs)}
    IN  Quantify(boundaries, LAMBDA b : Cardinality(names(before(b)) \cap names(after(b))) >= 2)

countCompactions(tokens) ==
    Quantify({i \in DOMAIN tokens : i > 1},
             LAMBDA i : tokens[i - 1] > 0 /\ 10 * tokens[i] < 7 * tokens[i - 1])

(* Whether the peak is above nine tenths of the model's window.            *)
HighPressure(peak, model) ==
    /\ peak > 0 /\ model \in DOMAIN contextWindowSizes
    /\ 10 * peak > 9 * contextWindowSizes[model]

-----------------------------------------------------------------------------
(* The outcome and the score.                                              *)

Verdict(outcome, confidence, recent) ==
    [outcome |-> outcome, confidence |-> confidence, recent |-> recent]

ClassifyOutcome(automated, count, role, streak, quits, recent) ==
    CASE automated -> Verdict("unknown", "low", FALSE)
      [] ~automated /\ count = 2 /\ role = "assistant" -> Verdict("completed", "medium", FALSE)
      [] ~automated /\ count < 3 /\ ~(count = 2 /\ role = "assistant") ->
             Verdict("unknown", "low", FALSE)
      [] ~automated /\ count >= 3 /\ recent -> Verdict("unknown", "low", TRUE)
      [] ~automated /\ count >= 3 /\ ~recent ->
             CASE role = "user" ->
                      Verdict("abandoned", IF count >= 10 THEN "high" ELSE "medium", FALSE)
               [] role # "user" /\ streak >= 3 -> Verdict("errored", "medium", FALSE)
               [] role = "assistant" /\ streak < 3 ->
                      Verdict("completed", IF quits THEN "low" ELSE "medium", FALSE)
               [] OTHER -> Verdict("unknown", "low", FALSE)

capPenalty(raw, most) == Min({raw, most})

computePenalties(s) ==
    (CASE s.outcome = "errored" -> 30 [] s.outcome = "abandoned" -> 15 [] OTHER -> 0)
    + capPenalty(s.failures * 3, 30) + capPenalty(s.retries * 5, 25)
    + capPenalty(s.churn * 4, 20) + (IF s.streak >= 3 THEN 10 ELSE 0)
    + (IF s.compactions >= 2 THEN capPenalty((s.compactions - 1) * 5, 15) ELSE 0)
    + capPenalty(s.midtask * 8, 18) + (IF s.pressed THEN 10 ELSE 0)

(* A session of unknown outcome is scored for its tools or its context.    *)
canScore(s) ==
    s.outcome # "unknown" \/ s.confidence # "low" \/ s.hasCalls \/ s.hasContext

gradeFromScore(score) ==
    CASE score >= 90 -> "A" [] score \in 75..89 -> "B" [] score \in 60..74 -> "C"
      [] score \in 40..59 -> "D" [] OTHER -> "F"

ComputeHealthScore(s) ==
    LET score == Max({0, 100 - computePenalties(s)})
    IN  IF canScore(s) THEN [score |-> score, grade |-> gradeFromScore(score)]
                       ELSE [score |-> -1, grade |-> ""]

-----------------------------------------------------------------------------
(* From the messages of a session.                                         *)

extractToolCallRows(rows) ==
    LET row(r, c) == [tool |-> c.tool, category |-> c.category, input |-> c.input,
                      path |-> c.path, status |-> c.status, says |-> c.says, ord |-> r.ord]
    IN  FoldLeft(LAMBDA done, r : FoldLeft(LAMBDA d, c : Append(d, row(r, c)), done, r.calls),
                 <<>>, rows)

Assistants(rows) == SelectSeq(rows, LAMBDA r : r.role = "assistant")

extractContextTokens(rows) ==
    LET known == SelectSeq(Assistants(rows), LAMBDA r : r.tokens # NoTokens)
    IN  [i \in DOMAIN known |-> known[i].tokens]

extractCompactBoundaryOrdinals(rows) == {r.ord : r \in {q \in ToSet(rows) : q.boundary}}

(* The model of most assistant messages, the one seen first among equals.  *)
extractMostCommonModel(rows) ==
    LET named == SelectSeq(Assistants(rows), LAMBDA r : r.model # "")
        uses(m) == Quantify(DOMAIN named, LAMBDA i : named[i].model = m)
        best == {i \in DOMAIN named :
                    \A j \in DOMAIN named : uses(named[j].model) <= uses(named[i].model)}
    IN  IF named = <<>> THEN "" ELSE named[Min(best)].model

extractLastMessageRole(rows) ==
    LET said == SelectSeq(rows, LAMBDA r : ~r.sys)
    IN  IF said = <<>> THEN [role |-> "", quits |-> FALSE] ELSE Last(said)

computeSignalsFromMessages(rows, automated, recent) ==
    LET calls  == extractToolCallRows(rows)
        tokens == extractContextTokens(rows)
        bounds == extractCompactBoundaryOrdinals(rows)
        last   == extractLastMessageRole(rows)
        final  == computeFinalStreak(calls)
        verdict == ClassifyOutcome(automated, Len(rows), last.role, final, last.quits, recent)
        s == [outcome |-> verdict.outcome, confidence |-> verdict.confidence,
              role |-> last.role, final |-> final,
              hasCalls |-> calls # <<>>, hasContext |-> tokens # <<>>,
              failures |-> countFailures(calls), streak |-> maxStreak(calls),
              retries |-> countRetries(calls), churn |-> countEditChurn(calls),
              compactions |-> IF bounds # {} THEN Cardinality(bounds)
                              ELSE countCompactions(tokens),
              midtask |-> CountMidTaskCompactions(bounds, calls),
              pressed |-> HighPressure(Max({0} \cup ToSet(tokens)),
                                       extractMostCommonModel(rows))]
    IN  [signals |-> s, health |-> ComputeHealthScore(s), pending |-> verdict.recent]

=============================================================================
