-------------------------------- MODULE Digest --------------------------------
(***************************************************************************)
(* siemctl digest (siemctl/src/digest.rs, digest_query.rs): the report of  *)
(* a window, of what the index and the raw files hold.  A store is that of *)
(* Search; the raw files hold all its events.  A word is a text of one     *)
(* character.                                                              *)
(***************************************************************************)
EXTENDS Search

CONSTANT Config   \* digest.toml merged with the defaults, and the compiled-in bounds

-------------------------------------------------------------------------------
(* digest_query.rs: the rows of a window.                                   *)

HourBucketFiles(store, win) ==
    Buckets(store) \cap (Hour(Second(win.start)) .. Hour(Second(win.end)))

InRange(store, win, where) ==
    {i \in store.indexed : LET e == store.events[i] IN
        /\ Hour(e.second) \in HourBucketFiles(store, win)
        /\ InRawFileRange(e.second, win)
        /\ e.kind \in where}

GroupCountInRange(store, win, fields, where) ==
    Tally([i \in InRange(store, win, where) |-> Key(store.events[i].kind, fields)])

\* The counts whose key's first part is not empty.
Labelled(counts) == [key \in {k \in DOMAIN counts : k[1] # << >>} |-> counts[key]]

MinuteCounts(store, win, where) ==
    Tally([i \in InRange(store, win, where) |-> Minute(store.events[i].second)])

\* bucket_series: a minute counts for the instant it begins at.
BucketSeries(counts, win, interval) ==
    LET wide == Duration(win) \div TicksPerSecond
        n == FoldLeft(LAMBDA a, b : IF a > b THEN a ELSE b, 1,
                      << (wide + interval - 1) \div interval >>)
        At(m) == m * SecondsPerMinute * TicksPerSecond
        Slot(m) == Min({((At(m) - win.start) \div TicksPerSecond) \div interval + 1, n})
        kept == {m \in DOMAIN counts : win.start <= At(m) /\ At(m) < win.end}
    IN [k \in 1..n |-> FoldSet(LAMBDA m, sum : sum + counts[m], 0, {m \in kept : Slot(m) = k})]

Seconds(store, hits) == {store.events[i].second : i \in hits}
FirstSeen(store, win, where) == Min(Seconds(store, InRange(store, win, where)))
LastSeen(store, win, where) == Max(Seconds(store, InRange(store, win, where)))

\* select_rows_in_range, sorted by time as each of its callers does.
SelectRows(store, win, where) ==
    SetToSortSeq(InRange(store, win, where),
                 LAMBDA i, j : \/ store.events[i].second < store.events[j].second
                               \/ store.events[i].second = store.events[j].second /\ i < j)

RawFilesInRange(store, win) ==
    {i \in DOMAIN store.events : LET s == store.events[i].second IN
        /\ Hour(s) \in Hour(Second(win.start)) .. Hour(Second(win.end))
        /\ TimeInWindow(s, win)}

\* Mutant: the rows of the whole bucket.
AllRows(store, win) == store.indexed
RowsToCompare(store, win) == InRange(store, win, Kind)

\* completeness_in_range: the buckets with more raw lines than rows.
Completeness(store, win) ==
    LET OfHour(S, h) == Cardinality({i \in S : Hour(store.events[i].second) = h})
        raw == RawFilesInRange(store, win)
    IN {h \in {Hour(store.events[i].second) : i \in raw} :
            OfHour(RowsToCompare(store, win), h) < OfHour(raw, h)}

\* The second of the first and of the last directory, and of the last row of the last
\* bucket; in a set, or none.
EarliestRaw(store) ==
    IF store.events = << >> THEN {} ELSE {Min(Seconds(store, DOMAIN store.events))}
LatestRaw(store) ==
    IF store.events = << >> THEN {} ELSE {Max(Seconds(store, DOMAIN store.events))}
NewestIndexed(store) ==
    IF store.indexed = {} THEN {} ELSE
    LET bucket == Max(Buckets(store))
    IN {Max({s \in Seconds(store, store.indexed) : Hour(s) = bucket})}

-------------------------------------------------------------------------------
(* Coverage and volume.                                                     *)

\* Less than half of the baseline lies after the first raw event.
ColdStart(store, baseline) ==
    \E earliest \in EarliestRaw(store) :
        LET wide == Max({Duration(baseline) \div TicksPerSecond, 1})
            from == Max({earliest * TicksPerSecond, baseline.start})
            covered == IF baseline.end < from THEN 0
                       ELSE (baseline.end - from) \div TicksPerSecond
        IN 2 * covered < wide

Sources(store, win) == DOMAIN Labelled(GroupCountInRange(store, win, <<SourceType>>, Kind))

UnparsedHighVolume(store, win) ==
    LET Of(i) == store.events[i].kind
        unparsed == {i \in RawFilesInRange(store, win) :
                        Column(Of(i), "_normalized") = <<"false">>}
        App(i) == IF "app_name" \in DOMAIN Of(i) THEN Of(i)["app_name"]
                  ELSE <<"(unknown)">>
        counts == Tally([i \in unparsed |-> <<App(i)>>])
    IN Ordered([app \in {a \in DOMAIN counts : counts[a] > Config.unparsed_min_events}
                    |-> counts[app]])

BuildCoverage(store, win) ==
    LET long == Lookback(win, Config.lookback)
        cold == ColdStart(store, Baseline(long))
        now == Sources(store, long)
        earlier == Sources(store, Baseline(long))
    IN [sources_reporting |-> Cardinality(Sources(store, win)),
        gone_silent |-> earlier \ now,
        new_sources |-> IF cold THEN {} ELSE now \ earlier,
        unparsed_high_volume |-> UnparsedHighVolume(store, win),
        index_lag_seconds |-> {r - i : r \in LatestRaw(store), i \in NewestIndexed(store)},
        incomplete_buckets |-> Completeness(store, win)]

Flag(count, baseline, cold) ==
    LET few == baseline < Config.volume_min_count /\ count < Config.volume_min_count
        change == 100 * (count - baseline)
        threshold == Config.spike_threshold_pct * baseline
    IN CASE baseline = 0 -> IF ~cold /\ Config.new_source_always_flag /\ count > 0
                            THEN "new" ELSE "none"
         [] baseline > 0 /\ change > threshold -> IF few THEN "none" ELSE "spike"
         [] baseline > 0 /\ change < -threshold ->
                IF count = 0 \/ ~few THEN "drop" ELSE "none"
         [] OTHER -> "none"

BuildVolume(store, win) ==
    LET counts == Labelled(GroupCountInRange(store, win, <<SourceType>>, Kind))
        before == Labelled(GroupCountInRange(store, Baseline(win), <<SourceType>>, Kind))
        cold == ColdStart(store, Baseline(win))
        Of(f, key) == IF key \in DOMAIN f THEN f[key] ELSE 0
    IN [key \in DOMAIN counts \cup DOMAIN before |->
           [count |-> Of(counts, key), baseline |-> Of(before, key),
            flag |-> Flag(Of(counts, key), Of(before, key), cold)]]

-------------------------------------------------------------------------------
(* Network and authentication.                                              *)

Having(field, words) == {k \in Kind : \E w \in words : Column(k, field) = <<w>>}
Filterlog(field, word) == Having(SourceType, {"filterlog"}) \cap Having(field, {word})
Blocked == Filterlog("action", "BLOCK")
Inbound == Filterlog("action", "ALLOW") \cap Having("interface", {Config.wan_interface})
Outbound == Filterlog("direction", "out")

\* Destinations, with their ports, of an address the baseline has nothing sent to.
NewDestinations(store, win) ==
    LET counts == Labelled(GroupCountInRange(store, win, <<"dst_ip", "dst_port">>, Outbound))
        known == DOMAIN GroupCountInRange(store, Baseline(win), <<"dst_ip">>, Outbound)
    IN {[key |-> key, count |-> counts[key],
         first_seen |-> FirstSeen(store, win,
                            {k \in Outbound : Column(k, "dst_ip") = key[1]})] :
            key \in {key \in DOMAIN counts : <<key[1]>> \notin known}}

BuildNetwork(store, win, interval) ==
    [block_trend |-> BucketSeries(MinuteCounts(store, win, Blocked), win, interval),
     top_blocked |->
        Cut(Ordered(Labelled(GroupCountInRange(store, win, <<"src_ip", "protocol">>, Blocked))),
            {Config.top_blocked_limit}),
     inbound |-> Ordered(Labelled(GroupCountInRange(store, win,
                            <<"src_ip", "dst_ip", "dst_port">>, Inbound))),
     new_destinations |-> IF Config.new_destination_always_flag
                          THEN NewDestinations(store, win) ELSE {}]

AuthFailures == Having(EventType, {"ssh_auth_failure", "ssh_auth_timeout",
                                   "vpn_auth_failure", "vpn_tls_error"})

\* The failures of an address, by source and type, and their sum.
BuildAuth(store, win) ==
    LET counts == Labelled(GroupCountInRange(store, win,
                            <<"src_ip", SourceType, EventType>>, AuthFailures))
        Of(ip) == {key \in DOMAIN counts : key[1] = ip}
    IN [failures |-> Ordered([ip \in {<<key[1]>> : key \in DOMAIN counts} |->
                        FoldSet(LAMBDA key, sum : sum + counts[key], 0, Of(ip[1]))]),
        successes |-> SelectRows(store, win, Having(EventType, {"ssh_auth_success"})),
        sudo |-> SelectRows(store, win, Having(SourceType, {"sudo"})
                                        \cap Having(EventType, {"sudo_command"}))]

-------------------------------------------------------------------------------
(* Alerts and notable events.                                               *)

\* Every record with a rule_id in the tree but for its correlated/ part: the alerts of
\* ruled, and the acknowledgements, whose ack.jsonl lies there too.
BuildAlerts(alerts, win) ==
    LET ruled == {i \in DOMAIN alerts : alerts[i].file # "correlated"}
        start == Second(win.start)
        before == {alerts[i].rule : i \in {i \in ruled : alerts[i].second < start}}
        within == {i \in ruled : start <= alerts[i].second /\ alerts[i].second < Second(win.end)}
        by_rule == Ordered(Tally([i \in within |-> << <<alerts[i].rule>> >>]))
    IN [total |-> Cardinality(within),
        by_rule |-> by_rule,
        first_time_rules |-> {by_rule[n][1][1][1] : n \in DOMAIN by_rule} \ before,
        concentration |-> /\ by_rule # << >>
                          /\ 100 * by_rule[1][2]
                                > Config.concentration_threshold_pct * Cardinality(within)]

Transitions == Having(SourceType, {"systemd"})
               \cap Having(EventType, {"unit_started", "unit_stopped",
                                       "unit_stopping", "unit_failed"})

ServiceRestarts(store, win) ==
    LET counts == Labelled(GroupCountInRange(store, win, <<"unit">>, Transitions))
        Of(key) == {k \in Transitions : Column(k, "unit") = key[1]}
    IN [key \in DOMAIN counts |-> [count |-> counts[key],
                                   first_seen |-> FirstSeen(store, win, Of(key)),
                                   last_seen |-> LastSeen(store, win, Of(key))]]

Gap(rows, units, i) == rows[units[i]].first_seen - rows[units[i - 1]].first_seen
\* Mutant: a cluster ends at a gap of the allowed length.
SplitAtGap(rows, units) ==
    {i \in DOMAIN units : i > 1 => Gap(rows, units, i) >= Config.boot_storm_gap_seconds}
ClusterStarts(rows, units) ==
    {i \in DOMAIN units : i > 1 => Gap(rows, units, i) > Config.boot_storm_gap_seconds}

\* Units in order of first_seen make a cluster as long as each is close to the one
\* before it; a cluster of enough units is a storm, the others' are kept.
CollapseBootStorms(rows) ==
    LET units == SetToSortSeq(DOMAIN rows,
                    LAMBDA u, v : \/ rows[u].first_seen < rows[v].first_seen
                                  \/ rows[u].first_seen = rows[v].first_seen /\ KeyBefore(u, v))
        starts == ClusterStarts(rows, units)
        Cluster(i) == LET after == {j \in starts : j > i}
                          stop == IF after = {} THEN Len(units) ELSE Min(after) - 1
                      IN {units[j] : j \in i..stop}
        storms == {c \in {Cluster(i) : i \in starts} :
                        Cardinality(c) >= Config.boot_storm_min_units}
    IN [kept |-> DOMAIN rows \ UNION storms,
        storms |-> {[units |-> c, first_seen |-> Min({rows[u].first_seen : u \in c}),
                     last_seen |-> Max({rows[u].last_seen : u \in c})] : c \in storms}]

BuildNotable(store, win) ==
    [restarts |-> CollapseBootStorms(ServiceRestarts(store, win)),
     config_changes |-> SelectRows(store, win, Having(EventType, {"pfsense_config_change"})),
     critical_events |-> SelectRows(store, win, Having("severity", {"critical", "emergency"}))]

BuildReport(store, alerts, win, interval) ==
    [coverage |-> BuildCoverage(store, win), volume |-> BuildVolume(store, win),
     network |-> BuildNetwork(store, win, interval), auth |-> BuildAuth(store, win),
     alerts |-> BuildAlerts(alerts, win), notable |-> BuildNotable(store, win)]
===============================================================================
