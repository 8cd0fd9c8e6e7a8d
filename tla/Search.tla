-------------------------------- MODULE Search --------------------------------
(***************************************************************************)
(* siemctl's query language and the readers of the index and of the alert  *)
(* files that use it (siemctl/src/query.rs, db.rs, alerts.rs and the stats *)
(* and search commands of main.rs).                                        *)
(*                                                                         *)
(* An event is a function from the fields it has to texts, which are       *)
(* sequences of characters.  A store is [events, indexed]: what was        *)
(* received, each event with the second of its directory, and which of     *)
(* that the index holds.  A comparison `field op value` is one token of a  *)
(* query, and so are "select", "where", "group by" and "limit" with what   *)
(* follows them.                                                           *)
(***************************************************************************)
EXTENDS Conditions, HourBuckets, SequencesExt, FiniteSetsExt

CONSTANTS
    Kind,        \* the events told apart
    SourceType,  \* the field _source_type
    EventType,   \* the field event_type
    Leaf,        \* token -> [field, mode, value]
    Clause,      \* token -> its argument, for "group by" and "limit" tokens
    Lower,       \* what to_lowercase makes of a character
    AsciiLower,  \* what SQLite's LIKE makes of it: it folds the letters of ASCII only
    Rank         \* the order of characters

Lowercase(s) == [i \in DOMAIN s |-> Lower[s[i]]]
Within(s, t) == \E i \in 0..(Len(t) - Len(s)) : SubSeq(t, i + 1, i + Len(s)) = s

\* The order of strings.
TextBefore(s, t) ==
    \/ IsStrictPrefix(s, t)
    \/ \E i \in DOMAIN s \cap DOMAIN t :
          SubSeq(s, 1, i - 1) = SubSeq(t, 1, i - 1) /\ Rank[s[i]] < Rank[t[i]]
KeyBefore(k, l) ==
    \E i \in DOMAIN k : SubSeq(k, 1, i - 1) = SubSeq(l, 1, i - 1) /\ TextBefore(k[i], l[i])

-------------------------------------------------------------------------------
(* One comparison: Condition::to_sql and Condition::eval_json.              *)

\* SQLite's LIKE: % is any text, _ any character, and the case of ASCII letters does
\* not count.
Folded(s) == [i \in DOMAIN s |-> AsciiLower[s[i]]]
Like(pattern, s) ==
    LET p == Folded(pattern)
        t == Folded(s)
        L[i \in 1..(Len(p) + 1), j \in 1..(Len(t) + 1)] ==
            IF i > Len(p) THEN j > Len(t)
            ELSE IF p[i] = "%" THEN \E k \in j..(Len(t) + 1) : L[i + 1, k]
            ELSE j <= Len(t) /\ p[i] \in {"_", t[j]} /\ L[i + 1, j + 1]
    IN L[1, 1]

\* A column is NOT NULL DEFAULT '': a field the event lacks is empty.
\* The indexer calls a source that is not named "unknown".
Column(event, field) ==
    CASE field \in DOMAIN event -> event[field]
      [] field \notin DOMAIN event /\ field = SourceType -> <<"unknown">>
      [] OTHER -> << >>

\* How many of its arguments a function takes to each value.
Tally(keys) == [key \in Range(keys) |-> Cardinality({i \in DOMAIN keys : keys[i] = key})]

\* The value goes into the pattern as it is: a % or _ in it is LIKE's.
SqlHolds(leaf, event) ==
    LET column == Column(event, leaf.field)
    IN CASE leaf.mode = "exact"      -> column = leaf.value
         [] leaf.mode = "not exact"  -> column # leaf.value
         [] leaf.mode = "startswith" -> Like(leaf.value \o <<"%">>, column)
         [] leaf.mode = "endswith"   -> Like(<<"%">> \o leaf.value, column)
         [] leaf.mode = "contains"   -> Like(<<"%">> \o leaf.value \o <<"%">>, column)
         [] leaf.mode = "any"        -> column # << >>
         [] leaf.mode = "raw"        -> \E f \in DOMAIN event : Within(leaf.value, event[f])

\* Mutant: to_lowercase forgotten.
CaseSensitive(leaf, event) ==
    /\ leaf.field \in DOMAIN event
    /\ LET s == event[leaf.field]
       IN \/ leaf.mode = "startswith" /\ IsPrefix(leaf.value, s)
          \/ leaf.mode = "endswith" /\ IsSuffix(leaf.value, s)
          \/ leaf.mode \in {"contains", "raw"} /\ Within(leaf.value, s)
          \/ leaf.mode = "exact" /\ s = leaf.value
          \/ leaf.mode = "not exact" /\ s # leaf.value
          \/ leaf.mode = "any" /\ s # << >>

\* resolve_json_field: the alert's own key, then its event's; an alert has the same
\* keys as its event, save for those of its own.
JsonHolds(leaf, event) ==
    \/ leaf.mode = "raw" /\ \E f \in DOMAIN event : Within(leaf.value, event[f])
    \/ /\ leaf.field \in DOMAIN event
       /\ LET resolved == event[leaf.field]
              low == Lowercase(resolved)
          IN \/ leaf.mode = "exact" /\ resolved = leaf.value
             \/ leaf.mode = "not exact" /\ resolved # leaf.value
             \/ leaf.mode = "startswith" /\ IsPrefix(Lowercase(leaf.value), low)
             \/ leaf.mode = "endswith" /\ IsSuffix(Lowercase(leaf.value), low)
             \/ leaf.mode = "contains" /\ Within(Lowercase(leaf.value), low)
             \/ leaf.mode = "any" /\ resolved # << >>

Sql  == [tok \in DOMAIN Leaf |-> {k \in Kind : SqlHolds(Leaf[tok], k)}]
Json == [tok \in DOMAIN Leaf |-> {k \in Kind : JsonHolds(Leaf[tok], k)}]

-------------------------------------------------------------------------------
(* A query: parse_query.                                                    *)

Clauses(t) == {i \in DOMAIN t : t[i] \in DOMAIN Clause}

\* The predicate is what is between an optional SELECT and WHERE and the first
\* clause; nothing there is every event.  A GROUP BY comes before a LIMIT, each at
\* most once.  The query, with `leaves` for its comparisons, in a set; or no query.
ParseQuery(t, leaves) ==
    LET start == IF t # << >> /\ t[1] = "select"
                 THEN IF Len(t) > 1 /\ t[2] = "where" THEN 3 ELSE 2
                 ELSE IF t # << >> /\ t[1] = "where" THEN 2 ELSE 1
        stop  == IF Clauses(t) = {} THEN Len(t) ELSE Min(Clauses(t)) - 1
        tail  == SubSeq(t, stop + 1, Len(t))
        Is(i, kind) == i \in DOMAIN tail /\ tail[i] \in DOMAIN Clause
                           /\ Clause[tail[i]].kind = kind
        grouped == IF Is(1, "group") THEN 1 ELSE 0
        limited == IF Is(grouped + 1, "limit") THEN 1 ELSE 0
        where == IF start > stop THEN {Kind} ELSE Descent(SubSeq(t, start, stop), leaves, Kind)
    IN IF Len(tail) # grouped + limited THEN {}
       ELSE {[where |-> w,
              group |-> IF grouped = 1 THEN {Clause[tail[1]].fields} ELSE {},
              limit |-> IF limited = 1 THEN {Clause[tail[grouped + 1]].n} ELSE {}] : w \in where}

-------------------------------------------------------------------------------
(* The index.                                                               *)

\* The bucket files, in order: index_buckets with bucket_pruned.  Buckets are
\* numbered by hour; `epoch` is the calendar hour of number 0.
BucketAt(epoch, h) == AdvanceBy(epoch, h)
Buckets(store) == {Hour(store.events[i].second) : i \in store.indexed}
\* Mutant: the last hour is left out.
PrunedAtEnd(b, after, before) == Before(b, after) \/ ~Before(b, before)
Pruned(b, after, before) == Before(b, after) \/ Before(before, b)
BucketFiles(store, epoch, after, before) ==
    SetToSortSeq({h \in Buckets(store) : ~Pruned(BucketAt(epoch, h), after, before)}, <)

\* SELECT * of one bucket: rows in the order of their insertion.
Rows(store, h, where) ==
    SetToSortSeq({i \in store.indexed : /\ Hour(store.events[i].second) = h
                                        /\ store.events[i].kind \in where}, <)

Cut(s, limits) == IF limits = {} THEN s ELSE SubSeq(s, 1, Min({Len(s)} \cup limits))

\* run_rows: each bucket is asked for at most LIMIT rows, the renderer stops at LIMIT.
RunRows(store, files, q) ==
    Cut(FlattenSeq([n \in DOMAIN files |-> Cut(Rows(store, files[n], q.where), q.limit)]), q.limit)

\* fold_group_sql over the buckets: the count of each key.
Key(event, fields) == [n \in DOMAIN fields |-> Column(event, fields[n])]
GroupCounts(store, files, where, fields) ==
    Tally([i \in UNION {ToSet(Rows(store, files[n], where)) : n \in DOMAIN files} |->
              Key(store.events[i].kind, fields)])

\* run_group, of the index and of the alerts: the largest counts first, ties in the
\* order of the keys, and LIMIT taken of the whole.
Ordered(counts) ==
    SetToSortSeq({<<key, counts[key]>> : key \in DOMAIN counts},
                 LAMBDA a, b : a[2] > b[2] \/ (a[2] = b[2] /\ KeyBefore(a[1], b[1])))
RunGroup(counts, q) == Cut(Ordered(counts), q.limit)

\* cmd_search: a query without LIMIT has that of the command line, if any.
SearchIndex(store, t, epoch, after, before, cap) ==
    {LET files == BucketFiles(store, epoch, after, before)
         capped == IF q.limit = {} THEN [q EXCEPT !.limit = cap] ELSE q
     IN IF q.group = {} THEN RunRows(store, files, capped)
        ELSE RunGroup(GroupCounts(store, files, q.where, CHOOSE f \in q.group : TRUE), capped) :
     q \in ParseQuery(t, Sql)}

\* run_query of alerts.rs, over records read already.  An absent field is an empty part
\* of a key, and no limit but the query's own applies.
JsonKey(event, fields) ==
    [n \in DOMAIN fields |-> IF fields[n] \in DOMAIN event THEN event[fields[n]] ELSE << >>]
SearchAlerts(events, t) ==
    {LET hits == {i \in DOMAIN events : events[i].kind \in q.where}
         K == [i \in hits |-> JsonKey(events[i].kind, CHOOSE f \in q.group : TRUE)]
     IN IF q.group = {} THEN Cut(SetToSortSeq(hits, <), q.limit)
        ELSE RunGroup(Tally(K), q) :
     q \in ParseQuery(t, Json)}

-------------------------------------------------------------------------------
(* siemctl stats.                                                           *)

OfSource(source) == {k \in Kind : \A s \in source : Column(k, SourceType) = s}

\* cmd_stats: events per source, or per type of the one source given, and the
\* number of events with each field.
Stats(store, epoch, after, before, source) ==
    GroupCounts(store, BucketFiles(store, epoch, after, before), OfSource(source),
                IF source = {} THEN <<SourceType>> ELSE <<EventType>>)
FieldCoverage(store, epoch, after, before, source, field) ==
    LET files == BucketFiles(store, epoch, after, before)
    IN FoldLeft(+, 0, [n \in DOMAIN files |->
           Cardinality({i \in ToSet(Rows(store, files[n], OfSource(source))) :
                            Column(store.events[i].kind, field) # << >>})])

\* cmd_stats_trend: the starts of its columns, and its cells.  A column begins every
\* `interval` hours until one begins at `before` or later.
Columns(after, before, interval) ==
    LET Start(k) == AdvanceBy(after, (k - 1) * interval)
        Count[n \in Nat \ {0}] == IF Before(Start(n), before) THEN Count[n + 1] ELSE n
    IN [k \in 1..Count[1] |-> Start(k)]

ColumnOf(b, after, interval) == (ToHours(b) - ToHours(after)) \div interval + 1

\* An event with an empty key has no row, unless the source asked for has no other.
Trend(store, epoch, after, before, interval, source) ==
    LET files == BucketFiles(store, epoch, after, before)
        columns == Columns(after, before, interval)
        field == <<IF source = {} THEN SourceType ELSE EventType>>
        Of(k) == SelectSeq(files, LAMBDA h : ColumnOf(BucketAt(epoch, h), after, interval) = k)
        cells == [k \in DOMAIN columns |-> GroupCounts(store, Of(k), OfSource(source), field)]
        keys == UNION {DOMAIN cells[k] : k \in DOMAIN columns}
        rows == IF source # {} /\ keys = {<< << >> >>} THEN keys ELSE keys \ {<< << >> >>}
    IN [k \in DOMAIN columns |-> [key \in rows \cap DOMAIN cells[k] |-> cells[k][key]]]
===============================================================================
