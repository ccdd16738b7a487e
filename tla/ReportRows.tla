----------------------------- MODULE ReportRows -----------------------------
(***************************************************************************)
(* The rows the reports of the archive read, and the filters, calendars    *)
(* and arithmetic they share (internal/db/analytics.go, usage.go and the   *)
(* ports of both in internal/postgres).                                    *)
(*                                                                         *)
(* Time is counted in ticks, HourLength to the hour; a date is the number  *)
(* of a day.  A zone is the pair of its offsets before and after one       *)
(* change of the clock.  The archive is a function from session ids to     *)
(* rows, and a row holds its messages, so that a report is an operator     *)
(* over the archive and a filter.                                          *)
(***************************************************************************)
EXTENDS Integers, Sequences, FiniteSets, SequencesExt, Ordering

CONSTANTS HourLength, \* ticks to the hour
          Pad         \* hours by which the SQL bounds are widened

None == -1            \* an absent time, date, hour or day
Absent == [exists |-> FALSE, msgs |-> <<>>]
DayLength == 24 * HourLength

(* The sum of a function's values over a set. *)
Summed(f, S) == MapThenSumSet(LAMBDA x: f[x], S)

(* math.Round(a/b * scale) as a whole number of 1/scale. *)
Rounded(a, b, scale) == (2 * a * scale + b) \div (2 * b)

(* The values of a column over some rows, ascending, with their repetitions. *)
Column(value(_), rows) ==
    LET in == SetToSeq(rows)
    IN SortSeq([i \in 1 .. Len(in) |-> value(in[i])], <)

(* percentileFloat and medianInt of an ascending list; the percentile is in  *)
(* tenths.                                                                   *)
Percentile(sorted, pct) ==
    IF sorted = <<>> THEN 0
    ELSE LET at == (Len(sorted) * pct) \div 10
         IN sorted[IF at >= Len(sorted) THEN Len(sorted) ELSE at + 1]
medianInt(sorted) ==
    LET n == Len(sorted)
    IN IF n = 0 THEN 0
       ELSE IF n % 2 = 0 THEN (sorted[n \div 2] + sorted[n \div 2 + 1]) \div 2
       ELSE sorted[n \div 2 + 1]

-----------------------------------------------------------------------------
(* Local dates. *)

Offset(zone, t) == (IF t < zone.change THEN zone.before ELSE zone.after) * HourLength
localTime(t, zone) == t + Offset(zone, t)
localDate(t, zone) == localTime(t, zone) \div DayLength
Hour(local) == (local % DayLength) \div HourLength
DayOfWeek(local) == (local \div DayLength) % 7

(* The bounds of the SQL query, in UTC: the first and the last date widened *)
(* by the padding.  A bound the filter leaves open is not applied.          *)
MutLowerBound(from) == from * DayLength
LowerBound(from) == from * DayLength - Pad * HourLength
UpperBound(to) == (to + 1) * DayLength - 1 + Pad * HourLength
utcRange(f, t) ==
    /\ f.from # None => t >= LowerBound(f.from)
    /\ f.to # None => t <= UpperBound(f.to)

inDateRange(date, f) ==
    /\ f.from # None => date >= f.from
    /\ f.to # None => date <= f.to

(* The first day of the bucket a date belongs to; the months of the model   *)
(* have four weeks.  Day 0 is a Monday.                                     *)
bucketDate(date, granularity) ==
    CASE granularity = "week"  -> date - (date % 7)
      [] granularity = "month" -> date - (date % 28)
      [] OTHER                 -> date

-----------------------------------------------------------------------------
(* The session a report row belongs to. *)

Live(db) == {s \in DOMAIN db: db[s].exists}
StartOrCreated(r) == IF r.started # None THEN r.started ELSE r.created
LastActive(r) ==
    IF r.ended # None THEN r.ended
    ELSE IF r.started # None THEN r.started ELSE r.created

(* A filter on a column that takes several values; the empty set is no filter. *)
Picks(set, value) == set = {} \/ value \in set
=============================================================================
