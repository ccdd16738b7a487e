------------------------------- MODULE Trends -------------------------------
(***************************************************************************)
(* The term trends: how often the words a user asks for occur in the       *)
(* messages of each day, week or month (internal/db/trends.go, and its     *)
(* port internal/postgres/trends.go, which shares everything but the       *)
(* query).  A text is a sequence of characters, already in lower case; a   *)
(* character is a word character unless it is in Blanks.                   *)
(***************************************************************************)
EXTENDS Analytics

CONSTANTS Blanks,               \* the characters that are no word characters
          MaxTrendTerms, MaxTrendTermVariants

(* A single word takes a plural unless it ends in s. *)
isSingleWordMatcher(word) == word # <<>> /\ ToSet(word) \cap Blanks = {}
simpleTrendPlural(word) ==
    IF Last(word) = "s" \/ ToSet(word) \cap Blanks # {} THEN {} ELSE {Append(word, "s")}
(* A word of three letters or more that ends in c is taken for a stem. *)
simpleSilentEStemMatchers(word) ==
    IF Len(word) < 3 \/ ~isSingleWordMatcher(word) \/ Last(word) # "c" THEN {}
    ELSE {word \o end: end \in {<<"e">>, <<"e", "s">>, <<"e", "d">>, <<"i", "n", "g">>}}

(* A term is the set of its variants; a term without one is dropped, too     *)
(* many variants or terms, or no term at all, is an error.                   *)
Matchers(variants) ==
    UNION {{v} \cup simpleTrendPlural(v) \cup simpleSilentEStemMatchers(v): v \in variants}
ParseTrendTerms(values) ==
    LET filled(variants) == variants # {}
        terms == SelectSeq(values, filled)
    IN IF \/ \E i \in DOMAIN terms: Cardinality(terms[i]) > MaxTrendTermVariants
          \/ terms = <<>> \/ Len(terms) > MaxTrendTerms
       THEN <<>>
       ELSE [i \in DOMAIN terms |-> Matchers(terms[i])]

(* The spans of a text a matcher covers, <<first, past the last>>; a matcher *)
(* of one word must stand at word boundaries.                                *)
hasWordBoundaries(text, start, end) ==
    /\ start > 1 => text[start - 1] \in Blanks
    /\ end <= Len(text) => text[end] \in Blanks
collectTrendSpans(text, matcher) ==
    {span \in {<<i, i + Len(matcher)>>: i \in DOMAIN text}:
        /\ span[2] <= Len(text) + 1
        /\ SubSeq(text, span[1], span[2] - 1) = matcher
        /\ isSingleWordMatcher(matcher) => hasWordBoundaries(text, span[1], span[2])}

(* Ascending spans are merged into runs; a span that begins where the run    *)
(* ends begins a run of its own, and the runs are counted.                   *)
MutMergeCountSpans(spans) ==
    Cardinality({a[1]: a \in spans})
mergeCountSpans(spans) ==
    LET Before(a, b) == a[1] < b[1] \/ (a[1] = b[1] /\ a[2] < b[2])
        step(span, run) ==
            IF span[1] >= run.end THEN [count |-> run.count + 1, end |-> span[2]]
            ELSE [run EXCEPT !.end = IF span[2] > @ THEN span[2] ELSE @]
    IN FoldLeft(LAMBDA run, span: step(span, run), [count |-> 0, end |-> -1],
                SetToSortSeq(spans, Before)).count
CountTrendOccurrences(text, matchers) ==
    mergeCountSpans(UNION {collectTrendSpans(text, m): m \in matchers})

-----------------------------------------------------------------------------

(* The first days of the buckets from the first date to the last. *)
TrendBucketRange(from, to, granularity) ==
    IF from = None \/ to = None THEN {}
    ELSE {d \in bucketDate(from, granularity) .. bucketDate(to, granularity):
            bucketDate(d, granularity) = d}

(* The local time of a message, of its session's start, or of its creation. *)
trendMessageLocalTime(r, m, zone) ==
    localTime(IF m.ts # None THEN m.ts ELSE StartOrCreated(r), zone)

(* The messages the trends read: the session's own dates are not bounded. *)
TrendMessages(db, f, store) ==
    UNION {{<<s, i>>: i \in {i \in DOMAIN db[s].msgs:
                /\ db[s].msgs[i].role \in {"user", "assistant"}
                /\ ~db[s].msgs[i].sys}}:
           s \in {s \in Live(db): Where(f, db[s], store)}}

GetTrendsTermsOf(db, f, terms, granularity, messages) ==
    LET Local(x) == trendMessageLocalTime(db[x[1]], db[x[1]].msgs[x[2]], f.zone)
        DayOf(x) == Local(x) \div DayLength
        buckets == TrendBucketRange(f.from, f.to, granularity)
        counted == {x \in messages:
                      /\ HasTimeFilter(f) => matchesTimeFilter(f, Local(x))
                      /\ inDateRange(DayOf(x), f)
                      /\ bucketDate(DayOf(x), granularity) \in buckets}
        In(b) == {x \in counted: bucketDate(DayOf(x), granularity) = b}
        Points(matchers) ==
            LET Hits(x) == CountTrendOccurrences(db[x[1]].msgs[x[2]].text, matchers)
            IN [b \in buckets |-> MapThenSumSet(Hits, In(b))]
    IN [messages |-> [b \in buckets |-> Cardinality(In(b))],
        series |-> [i \in DOMAIN terms |-> Points(terms[i])]]
GetTrendsTerms(db, f, terms, granularity) ==
    GetTrendsTermsOf(db, f, terms, granularity, TrendMessages(db, f, "sqlite"))
pgGetTrendsTerms(db, f, terms, granularity) ==
    GetTrendsTermsOf(db, f, terms, granularity, TrendMessages(db, f, "postgres"))
=============================================================================
