------------------------------- MODULE Reports --------------------------------
(***************************************************************************)
(* Every small store of events, indexed in part or not at all, and what    *)
(* siemctl answers of it: search, stats, the trend table and the digest.   *)
(***************************************************************************)
EXTENDS Digest

CONSTANTS
    Moments,       \* bound: the seconds at which events and alerts come
    Rules,         \* the rules that raise alerts
    Sizes,         \* bound: the most events and alerts there are together
    MaxBehind,     \* bound: received and not indexed
    Queries,       \* [text, predicate, group, limit]: a query and what it is made of
    Caps,          \* the --limit of the command line, if any
    Spans,         \* the hours <<after, before>> that are asked for
    Epochs,        \* the calendar hours that hour 0 may be
    Intervals,     \* hours of a trend column
    Windows,       \* [start, end] of a digest, whole minutes
    SparkInterval  \* seconds of a sparkline column, whole minutes

VARIABLES
    events,    \* the raw files: [second, kind], in the order they were received
    indexed,   \* which of them have a row
    alerts     \* the files under data/alerts: [second, rule, file]

vars == <<events, indexed, alerts>>
store == [events |-> events, indexed |-> indexed]

Init == events = << >> /\ indexed = {} /\ alerts = << >>

Latest(s) == IF s = << >> THEN 0 ELSE Last(s).second
Room(e, a) == \E size \in Sizes : e <= size[1] /\ a <= size[2]

Receive(second, kind) ==
    /\ Room(Len(events) + 1, Len(alerts)) /\ second >= Latest(events)
    /\ Len(events) < Cardinality(indexed) + MaxBehind
    /\ events' = Append(events, [second |-> second, kind |-> kind])
    /\ UNCHANGED <<indexed, alerts>>

\* indexd, which may be behind in any way.
Index(i) ==
    /\ i \notin indexed
    /\ indexed' = indexed \cup {i}
    /\ UNCHANGED <<events, alerts>>

\* ruled and correlated write an alert, siemctl an acknowledgement.
Files == {"alerts", "correlated", "ack"}
Raise(second, rule, file) ==
    /\ Room(Len(events), Len(alerts) + 1) /\ second >= Latest(alerts)
    /\ alerts' = Append(alerts, [second |-> second, rule |-> rule, file |-> file])
    /\ UNCHANGED <<events, indexed>>

Next ==
    \/ \E second \in Moments, kind \in Kind : Receive(second, kind)
    \/ \E i \in DOMAIN events : Index(i)
    \/ \E second \in Moments, rule \in Rules, file \in Files : Raise(second, rule, file)

Spec == Init /\ [][Next]_vars

-------------------------------------------------------------------------------
(* What a comparison means, by definition.  Beyond the guide, and as the code *)
(* has it: a field that an event lacks is empty, and a value is a pattern.    *)

\* The value spells the whole text: letter by letter, but that "_" spells any letter and
\* "%" any stretch.
Spells(value, text) ==
    \E at \in [1..(Len(value) + 1) -> 0..Len(text)] :
        /\ at[1] = 0 /\ at[Len(value) + 1] = Len(text)
        /\ \A i \in DOMAIN value :
             \/ value[i] = "%" /\ at[i] <= at[i + 1]
             \/ at[i + 1] = at[i] + 1 /\ value[i] \in {"_", text[at[i + 1]]}
SpellsIn(value, text, starts, ends) ==
    \E i \in starts, j \in ends : i <= j /\ Spells(Folded(value), SubSeq(Folded(text), i + 1, j))

Comparison ==
    [tok \in DOMAIN Leaf |-> {k \in Kind :
        LET leaf == Leaf[tok]
            text == Column(k, leaf.field)
            n == Len(text)
        IN CASE leaf.mode = "exact" -> text = leaf.value
             [] leaf.mode = "not exact" -> text # leaf.value
             [] leaf.mode = "startswith" -> SpellsIn(leaf.value, text, {0}, 0..n)
             [] leaf.mode = "endswith" -> SpellsIn(leaf.value, text, 0..n, {n})
             [] leaf.mode = "contains" -> SpellsIn(leaf.value, text, 0..n, 0..n)
             [] leaf.mode = "any" -> text # << >>
             [] leaf.mode = "raw" -> \E f \in DOMAIN k : Within(leaf.value, k[f])}]

\* The first n of a sequence, or all of it.
First(s, n) == IF n = {} THEN s ELSE SubSeq(s, 1, Min({Len(s), CHOOSE m \in n : TRUE}))

\* The answer to a query over the events of `hits`, which are in order of time.
Answer(q, cap, hits) ==
    LET limit == IF q.limit = {} THEN cap ELSE q.limit
        K(i) == [n \in DOMAIN q.group |-> Column(events[i].kind, q.group[n])]
        Count(key) == Cardinality({i \in hits : K(i) = key})
    IN IF q.group = << >> THEN First(SetToSortSeq(hits, <), limit)
       ELSE First(SetToSortSeq({<<K(i), Count(K(i))>> : i \in hits},
                    LAMBDA a, b : a[2] > b[2] \/ (a[2] = b[2] /\ KeyBefore(a[1], b[1]))), limit)

InHours(i, a, b) == Hour(events[i].second) \in a..b
OfKind(set, w) == {i \in set : events[i].kind \in w}

\* The comparisons of a query, and those that SQL makes with LIKE.
Asked(q) == {Leaf[tok] : tok \in ToSet(q.predicate) \cap DOMAIN Leaf}
Liked(q) == {leaf \in Asked(q) : leaf.mode \in {"startswith", "endswith", "contains"}}
NoWildcard(q) == \A leaf \in Liked(q) : ToSet(leaf.value) \cap {"%", "_"} = {}

\* A search finds every indexed event of the hours asked for that its condition, read
\* by the guide's grammar, holds for, and only those: wherever in the calendar the
\* hours lie, and however many buckets a GROUP BY, an order and a LIMIT are taken
\* over.  Of startswith, endswith and contains: case does not count in ASCII letters, and
\* does in all others.  The guide gives them a value (docs/user-guide.md:355), the code a
\* pattern: a "_" in it is found by any letter, and a "%" by any text.
\* (query.rs Parser, to_sql, run_query, bucket_pruned; db.rs fold_group_sql.)
SearchIsExact ==
    \A q \in Queries, span \in Spans, cap \in Caps :
        \A epoch \in (IF q.limit = {} /\ q.group = << >> THEN Epochs
                      ELSE {CHOOSE e \in Epochs : TRUE}) :
            SearchIndex(store, q.text, epoch, BucketAt(epoch, span[1]), BucketAt(epoch, span[2]), cap)
            = {Answer(q, cap, {i \in OfKind(indexed, w) : InHours(i, span[1], span[2])}) :
                    w \in Meaning(q.predicate, Comparison, Kind)}

\* One language, two interpreters: a query over the alert files, which evaluates JSON,
\* answers as one over an index of the same records does, as long as the records have the
\* fields it asks for, none of its LIKE values has a % or _, and no letter beyond ASCII is
\* compared in them.  The comment of eval_json claims it without these conditions, that
\* its comparisons "mirror to_sql's SQL exactly" (query.rs:543-550), and an absent field
\* is NULL to it, where the index has the empty text.
\* (query.rs eval_json, resolve_json_field; alerts.rs run_query; indexd db.rs column_defs.)
AlertsAnswerLikeSearch ==
    \A q \in {q \in Queries : NoWildcard(q)} :
        LET fields == {leaf.field : leaf \in {l \in Asked(q) : l.mode # "raw"}} \cup ToSet(q.group)
            plain(s) == Folded(s) = Lowercase(s)
        IN (\A i \in DOMAIN events : LET event == events[i].kind IN
                /\ fields \subseteq DOMAIN event
                /\ \A leaf \in Liked(q) : plain(leaf.value) /\ plain(event[leaf.field]))
           => SearchAlerts(events, q.text)
              = {Answer(q, {}, OfKind(DOMAIN events, w)) : w \in Meaning(q.predicate, Sql, Kind)}

\* For one source, what the columns of the trend table hold of a type of event is what
\* `stats` counts of it.
TypesAddUp(epoch, after, before, interval, span) ==
    \A source \in {Column(events[i].kind, SourceType) : i \in indexed} :
        LET types == Stats(store, epoch, after, before, {source})
            typed == Trend(store, epoch, after, before, interval, {source})
        IN \A key \in DOMAIN types :
            /\ types[key] = Cardinality({i \in indexed : InHours(i, span[1], span[2]) /\
                    Key(events[i].kind, <<SourceType, EventType>>) = <<source>> \o key})
            /\ key # << << >> >> => types[key] = FoldLeft(+, 0, [k \in DOMAIN typed |->
                    IF key \in DOMAIN typed[k] THEN typed[k][key] ELSE 0])

\* Every indexed event of the hours asked for is in exactly one column of the trend
\* table, the one whose hours hold it, across the ends of months and leap years; the
\* rows, and for one source its types, add up to what `stats` says, and a walk over
\* the directories of the range, which counts its steps by another calendar, visits
\* just these hours.
\* (time.rs advance, days_in_month, to_datetime, dirs_in_range_under; main.rs cmd_stats_trend, cmd_stats.)
TrendShowsEveryEvent ==
    \A epoch \in Epochs, span \in Spans, interval \in Intervals :
        LET after == BucketAt(epoch, span[1])
            before == BucketAt(epoch, span[2])
            trend == Trend(store, epoch, after, before, interval, {})
            Cell(key, k) == IF key \in DOMAIN trend[k] THEN trend[k][key] ELSE 0
            total == Stats(store, epoch, after, before, {})
            From(k) == span[1] + (k - 1) * interval
            Held(key, a, b) == Cardinality(
                {i \in indexed : InHours(i, a, b) /\ Key(events[i].kind, <<SourceType>>) = key})
        IN /\ \A key \in DOMAIN total : total[key] = Held(key, span[1], span[2])
           /\ {Key(events[i].kind, <<SourceType>>) : i \in {i \in indexed :
                    InHours(i, span[1], span[2])}} = DOMAIN total
           /\ HoursInRange(after, before)
                = [n \in 1..(span[2] - span[1] + 1) |-> BucketAt(epoch, span[1] + n - 1)]
           /\ \A field \in {SourceType, EventType} :
                FieldCoverage(store, epoch, after, before, {}, field)
                = Cardinality({i \in indexed : InHours(i, span[1], span[2])
                                               /\ Column(events[i].kind, field) # << >>})
           /\ epoch = (CHOOSE e \in Epochs : TRUE) =>
                TypesAddUp(epoch, after, before, interval, span)
           /\ From(Len(trend)) + interval > span[2]
           /\ \A k \in DOMAIN trend : \A key \in DOMAIN total \cup DOMAIN trend[k] :
                Cell(key, k) = Held(key, From(k), Min({From(k) + interval - 1, span[2]}))

-------------------------------------------------------------------------------
(* The digest of a window of whole seconds.                                 *)

Between(set, from, to) == {i \in set : from <= events[i].second /\ events[i].second < to}
InPeriod(win, w) == OfKind(Between(indexed, Second(win.start), Second(win.end)), w)
Sized(set, field, text) == Cardinality({i \in set : Column(events[i].kind, field) = text})

Records(files, from, to) ==
    {n \in DOMAIN alerts : /\ alerts[n].file \in files
                           /\ from <= alerts[n].second /\ alerts[n].second < to}
RulesOf(set) == {alerts[n].rule : n \in set}

\* Each indexed event of the window, or of the equally long one before it, counts once,
\* in the period it lies in; a source gone silent is flagged, however few its events, when
\* a drop of all of them is over the threshold; each blocked packet is in the sparkline
\* column of its time; a destination is new exactly when it is.  Of a rule, every record
\* of the window counts, and it is there for the first time exactly when it is; the
\* records are those of ack.jsonl too, which walk_alert_files takes for alerts although
\* the comment of build_alerts speaks of alert files (digest.rs:787).
\* (digest.rs build_volume, build_network_with_interval, build_alerts;
\* digest_query.rs group_count_in_range, bucket_series, first_seen_in_range.)
DigestAddsUp == \A win \in Windows :
    LET report == BuildReport(store, alerts, win, SparkInterval)
        base == Baseline(win)
        start == Second(win.start)
        both == InPeriod(win, Kind) \cup InPeriod(base, Kind)
        slot(k) == Between(InPeriod(win, Blocked), start + (k - 1) * SparkInterval,
                           start + k * SparkInterval)
        sent == InPeriod(win, Outbound)
        dst(i) == Column(events[i].kind, "dst_ip")
        first(i) == \A j \in sent : dst(j) = dst(i) => events[j].second >= events[i].second
        named(a, b) == Records({"alerts", "ack"}, a, b)
    IN /\ DOMAIN report.volume = {<<Column(events[i].kind, SourceType)>> : i \in both}
       /\ \A key \in DOMAIN report.volume : LET row == report.volume[key] IN
            /\ row.count = Sized(InPeriod(win, Kind), SourceType, key[1])
            /\ row.baseline = Sized(InPeriod(base, Kind), SourceType, key[1])
            /\ row.count = 0 /\ Config.spike_threshold_pct < 100 => row.flag = "drop"
            /\ row.flag = "new" => row.baseline = 0 /\ row.count > 0
       /\ \A k \in DOMAIN report.network.block_trend :
            report.network.block_trend[k] = Cardinality(slot(k))
       /\ UNION {slot(k) : k \in DOMAIN report.network.block_trend} = InPeriod(win, Blocked)
       /\ {<<new.key[1], new.first_seen>> : new \in report.network.new_destinations}
          = {<<dst(i), events[i].second>> : i \in {i \in sent :
                first(i) /\ \A j \in InPeriod(base, Outbound) : dst(j) # dst(i)}}
       /\ report.alerts.total = Cardinality(named(start, Second(win.end)))
       /\ report.alerts.first_time_rules
          = RulesOf(named(start, Second(win.end))) \ RulesOf(named(0, start))

\* A bucket is reported incomplete exactly when an event of the window that lies in it
\* is in the raw files and not in the index, whatever else the index holds.
\* (digest_query.rs completeness_in_range, raw_files_in_range.)
Short(win) ==
    {Hour(events[i].second) : i \in Between(DOMAIN events \ indexed,
                                            Second(win.start), Second(win.end))}
IncompleteBucketsAreReal ==
    \A win \in Windows : BuildCoverage(store, win).incomplete_buckets = Short(win)

\* Every unit that changed state in the window is listed or is in one boot storm; the
\* units of a storm are enough and no unit outside it is close to one of them in time.
\* (digest.rs collapse_boot_storms, service_restarts.)
StormsKeepEveryUnit == \A win \in Windows :
    LET all == ServiceRestarts(store, win)
        listed == BuildNotable(store, win).restarts
        seen(u) == all[u].first_seen
        apart(u, v) == \/ seen(u) - seen(v) > Config.boot_storm_gap_seconds
                       \/ seen(v) - seen(u) > Config.boot_storm_gap_seconds
        changed == {<<Column(events[i].kind, "unit")>> : i \in InPeriod(win, Transitions)}
        sets == {s.units : s \in listed.storms} \cup {{u} : u \in listed.kept}
    IN /\ UNION sets = changed /\ \A s, r \in sets : s = r \/ s \cap r = {}
       /\ \A s \in listed.storms : /\ Cardinality(s.units) >= Config.boot_storm_min_units
                                   /\ \A u \in s.units, v \in changed \ s.units : apart(u, v)
       /\ \A c \in SUBSET listed.kept :
            Cardinality(c) >= Config.boot_storm_min_units => \E u, v \in c : apart(u, v)
===============================================================================
