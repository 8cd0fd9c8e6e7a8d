------------------------------- MODULE Parsers --------------------------------
(***************************************************************************)
(* The parsers of `normalized` (normalized/src/parsers): each takes a text *)
(* to the set of the events it may be, empty if it is not of the format.   *)
(*                                                                         *)
(* An event keeps what a parser lifts out of its fields in `env`, a        *)
(* function from the envelope keys that are present.  The classic          *)
(* timestamp `Mon DD HH:MM:SS` is three tokens, of one byte each.          *)
(***************************************************************************)
EXTENDS Texts, TLC

CONSTANTS
    Letters,   \* the tokens of letters a key may have, "_" and "." among them
    Number,    \* a token of digits -> its value
    Month,     \* the tokens that are the name of a month
    IsoTime,   \* the tokens that are an ISO 8601 time
    Wide       \* the tokens of two bytes

Digits  == DOMAIN Number \cup IsoTime
KeyChar == Letters \cup DOMAIN Number

\* The outcome of slicing a str inside a character.
Panic == [format |-> "panic"]

-------------------------------------------------------------------------------
\* The first of some names that is a key of the fields: {} or its singleton.
FirstOf(names, fields) ==
    LET i == SelectInSeq(names, LAMBDA n : <<n>> \in DOMAIN fields)
    IN IF i = 0 THEN {} ELSE {<<names[i]>>}

\* The `fields.remove(a).or_else(|| fields.remove(b))` of the parsers: each key of
\* the table takes the first of its names out of the fields.
Lifted(format, raw, fields, key, env, message) ==
    LET found  == {slot \in DOMAIN key : key[slot] # {}}
        lifted == [slot \in found |-> fields[CHOOSE k \in key[slot] : TRUE]]
    IN [format  |-> format,
        raw     |-> raw,
        fields  |-> Without(fields, UNION {key[slot] : slot \in found}),
        env     |-> Without(lifted, {"message"}) @@ env,
        message |-> IF "message" \in found THEN lifted["message"] ELSE message,
        force_severity |-> FALSE]
Event(format, raw, fields, table, env, message) ==
    Lifted(format, raw, fields, [slot \in DOMAIN table |-> FirstOf(table[slot], fields)], env, message)

SeverityName == <<"emergency", "alert", "critical", "error", "warning", "notice",
                  "informational", "debug">>
FromCode(n) == <<SeverityName[(n % 8) + 1]>>
Optional(slot, found) == [s \in When(found # {}, {slot}) |-> CHOOSE t \in found : TRUE]

\* severity_from_word and level_to_severity, the words they share.
SeverityWord == [w \in ToSet(SeverityName) |-> <<w>>] @@ ("err" :> <<"error">>)
LevelOf(level) == When(Len(level) = 1, {SeverityWord[w] : w \in ToSet(level) \cap DOMAIN SeverityWord})

\* str::parse::<u8>, and the bands a format divides its own scale in.
ParseNumber(t) == When(Len(t) = 1, {Number[d] : d \in ToSet(t) \cap DOMAIN Number})
Banded(t, low, medium, high) ==
    {FromCode(CASE n <= low -> 7 [] n \in (low + 1)..medium -> 5
                [] n \in (medium + 1)..high -> 4 [] OTHER -> 3) : n \in ParseNumber(t)}

-------------------------------------------------------------------------------
(* Plain text and logfmt.                                                   *)

ParsePlain(raw) == {Event("plain", raw, << >>, << >>, << >>, Trim(raw))}

RECURSIVE ParsePairs(_)
ParsePairs(text) ==
    LET rest  == TrimLeft(text)
        eq    == Find(rest, {"="})
        after == From(rest, eq + 1)
        quoted == Quoted(Tail(after), LogfmtEscape)
        Bare(s) == Before(s, FindOrEnd(s, Blank))
        Past(s) == From(s, FindOrEnd(s, Blank))
        Pair(key, value) == IF key = << >> THEN << >> ELSE key :> value
    IN CASE rest = << >> -> << >>
         [] rest # << >> /\ eq = 0 -> ParsePairs(Past(rest)) @@ (Bare(rest) :> <<"true">>)
         [] eq > 0 /\ IsPrefix(<<"\"">>, after) ->
                ParsePairs(quoted.tail) @@ Pair(Trim(Before(rest, eq)), quoted.value)
         [] OTHER -> ParsePairs(Past(after)) @@ Pair(Trim(Before(rest, eq)), Bare(after))

LogfmtTable == [message   |-> <<"msg", "message", "text">>,
                timestamp |-> <<"ts", "time", "timestamp">>,
                hostname  |-> <<"host", "hostname">>,
                app_name  |-> <<"app", "service", "caller">>,
                proc_id   |-> <<"pid">>]

LogfmtEvent(raw, fields) ==
    LET level == UNION {LevelOf(fields[k]) : k \in FirstOf(<<"level", "severity", "lvl">>, fields)}
    IN When(DOMAIN fields # {},
            {Event("logfmt", raw, fields, LogfmtTable, Optional("severity", level), << >>)})
ParseLogfmt(raw) == LogfmtEvent(raw, ParsePairs(Trim(raw)))

-------------------------------------------------------------------------------
(* JSON.                                                                    *)

\* The parts between the commas outside strings and brackets.
SplitJsonValues(s) ==
    LET Step(a, c) ==
            LET next == CASE a.escape -> [a EXCEPT !.escape = FALSE]
                          [] c = "\\" /\ a.string -> [a EXCEPT !.escape = TRUE]
                          [] c = "\"" /\ ~a.escape -> [a EXCEPT !.string = ~@]
                          [] c \in {"{", "["} /\ ~a.string -> [a EXCEPT !.depth = @ + 1]
                          [] c \in {"}", "]"} /\ ~a.string -> [a EXCEPT !.depth = @ - 1]
                          [] OTHER -> a
            IN IF c = "," /\ ~a.string /\ a.depth = 0
               THEN [next EXCEPT !.items = Append(@, << >>)]
               ELSE [next EXCEPT !.items[Len(a.items)] = Append(@, c)]
        Ended(items) == IF Last(items) = << >> THEN Front(items) ELSE items
    IN Ended(FoldLeft(Step, [items |-> << << >> >>, depth |-> 0, string |-> FALSE,
                             escape |-> FALSE], s).items)

ScalarToString(text) ==
    LET Unquoted(s, q) == IF IsPrefix(<<"\"">>, s) /\ q.closed THEN q.value ELSE s
    IN Unquoted(Trim(text), Quoted(Tail(Trim(text)), JsonEscape))

\* The fields found before the first pair that is none, and whether there was one.
RECURSIVE ParseObj(_, _)
ParseObj(text, prefix) ==
    LET Under(a, inner) == [fields |-> inner.fields @@ a.fields, ok |-> inner.ok]
        Put(a, key, value) ==
            IF IsPrefix(<<"{">>, value) THEN Under(a, ParseObj(value, key))
            ELSE [a EXCEPT !.fields = (key :> IF IsPrefix(<<"[">>, value) THEN value
                                              ELSE ScalarToString(value)) @@ @]
        Add(a, pair, q) ==
            CASE ~a.ok \/ pair = << >> -> a
              [] a.ok /\ pair # << >>
                      /\ ~(pair[1] = "\"" /\ q.closed /\ IsPrefix(<<":">>, TrimLeft(q.tail))) ->
                    [a EXCEPT !.ok = FALSE]
              [] OTHER -> Put(a, IF prefix = << >> THEN q.value ELSE prefix \o <<".">> \o q.value,
                              TrimLeft(Tail(TrimLeft(q.tail))))
        AddPart(a, p) == Add(a, Trim(p), Quoted(Tail(Trim(p)), JsonEscape))
        Object(s) ==
            IF Len(s) >= 2 /\ s[1] = "{" /\ Last(s) = "}"
            THEN FoldLeft(AddPart, [fields |-> << >>, ok |-> TRUE],
                          SplitJsonValues(SubSeq(s, 2, Len(s) - 1)))
            ELSE [fields |-> << >>, ok |-> FALSE]
    IN Object(Trim(text))

JsonTable == [message   |-> <<"message", "msg", "text">>,
              timestamp |-> <<"timestamp", "time", "@timestamp">>,
              hostname  |-> <<"hostname", "host">>,
              app_name  |-> <<"app_name", "appname", "application">>,
              proc_id   |-> <<"pid", "proc_id">>]

ParseObject(raw) ==
    LET Whole(obj) == When(obj.ok, {Event("json", raw, obj.fields, JsonTable, << >>, << >>)})
    IN Whole(ParseObj(raw, << >>))

ArrayEvent(raw, items) ==
    LET Item(item, i) == IF IsPrefix(<<"{">>, item) THEN ParseObj(item, i).fields
                         ELSE i :> ScalarToString(item)
    IN Event("json_array", raw,
             FoldLeft(LAMBDA f, i : Item(Trim(items[i]), <<ToString(i - 1)>>) @@ f,
                      << >>, [i \in DOMAIN items |-> i]),
             << >>, << >>, <<ToString(Len(items)), "JSON array elements">>)
ParseArray(raw) ==
    When(Len(Trim(raw)) >= 2 /\ Trim(raw)[1] = "[" /\ Last(Trim(raw)) = "]",
         {ArrayEvent(raw, SplitJsonValues(Trim(SubSeq(Trim(raw), 2, Len(Trim(raw)) - 1))))})

-------------------------------------------------------------------------------
(* CEF and LEEF.                                                            *)

\* The header fields up to the seventh bar, and what is after it.
RECURSIVE CefHeaders(_, _)
CefHeaders(done, s) ==
    LET h == Scan(s, {"|"}, HeaderEscape)
    IN CASE ~h.closed -> Append(done, h.value)
         [] h.closed /\ Len(done) = 6 -> done \o <<h.value, h.tail>>
         [] OTHER -> CefHeaders(Append(done, h.value), h.tail)

\* Mutant: the values keep their escapes.
UnescapeCefNot(s) == s

\* unescape_cef
UnescapeCef(s) == Scan(s, {}, CefEscape).value

\* A key is the run of key characters before a "=", and its value ends one short of
\* the next key; the later of two equal keys wins.
ParseExtension(s) ==
    LET Start(eq) == 1 + Max({0} \cup {p \in 1..(eq - 1) : s[p] \notin KeyChar})
        keys == {eq \in DOMAIN s : s[eq] = "=" /\ Start(eq) < eq}
        End(eq) == IF \E k \in keys : k > eq THEN Start(Min({k \in keys : k > eq})) - 2 ELSE Len(s)
        kept == {eq \in keys : End(eq) >= eq}
        Name(eq) == SubSeq(s, Start(eq), eq - 1)
    IN [name \in {Name(eq) : eq \in kept} |->
            LET eq == Max({k \in kept : Name(k) = name})
            IN UnescapeCef(SubSeq(s, eq + 1, End(eq)))]

CefEvent(raw, h) ==
    LET extension == IF Len(h) = 8 THEN h[8] ELSE << >>
        fields == (<<"cef.signature_id">> :> h[5]) @@ (<<"cef.name">> :> h[6])
                  @@ (<<"cef.severity">> :> h[7]) @@ (<<"cef.vendor">> :> h[2])
                  @@ (<<"cef.product">> :> h[3]) @@ (<<"cef.device_version">> :> h[4])
                  @@ ParseExtension(extension)
    IN When(IsPrefix(<<"CEF", ":">>, raw) /\ Len(h) >= 7,
            {Event("cef", raw, fields, [timestamp |-> <<"rt", "end">>, hostname |-> <<"dhost">>],
                   [app_name |-> h[3], msg_id |-> h[5]]
                       @@ Optional("severity", Banded(h[7], 3, 6, 8)),
                   h[6])})
ParseCef(raw) == CefEvent(raw, CefHeaders(<< >>, From(raw, 3)))

\* `identifier=` at the start or after a blank begins a key; its value runs to the next.
ParseKvBoundary(s) ==
    LET Eq(b) == {e \in b + 1..Len(s) : s[e] = "=" /\ \A p \in b..(e - 1) : s[p] \in KeyChar}
        keys  == {b \in DOMAIN s : /\ b = 1 \/ s[b - 1] \in Blank
                                   /\ s[b] \in Letters \ {"."} /\ Eq(b) # {}}
        Name(b) == SubSeq(s, b, Min(Eq(b)) - 1)
        End(b) == IF \E k \in keys : k > b THEN Min({k \in keys : k > b}) - 1 ELSE Len(s)
    IN [name \in {Name(b) : b \in keys} |->
            LET b == Max({k \in keys : Name(k) = name})
            IN Trim(SubSeq(s, Min(Eq(b)) + 1, End(b)))]

ParseAttributes(s, delimiter) ==
    LET Add(f, part) ==
            LET token == Trim(part)
                eq    == Find(token, {"="})
                key   == Trim(Before(token, eq))
            IN IF eq = 0 \/ key = << >> THEN f ELSE (key :> Trim(From(token, eq + 1))) @@ f
    IN IF delimiter \in ToSet(s) THEN FoldLeft(Add, << >>, SplitOn(s, delimiter))
       ELSE ParseKvBoundary(s)

\* The parts are version, vendor, product, version, event id, and the attributes.
LeefFields(parts) ==
    LET rest(n) == FoldLeft(LAMBDA t, p : t \o <<"|">> \o p, parts[n], From(parts, n + 1))
        stated == parts[1] \in {<<"2.0">>, <<"2">>} /\ Len(parts) > 6
        sign  == IF IsPrefix(<<"^">>, parts[6]) THEN Tail(parts[6]) ELSE parts[6]
        delimiter == IF stated /\ sign # << >> THEN sign[1] ELSE TAB
    IN (<<"leef.vendor">> :> parts[2]) @@ (<<"leef.product">> :> parts[3])
       @@ (<<"leef.event_id">> :> parts[5])
       @@ ParseAttributes(rest(IF stated THEN 7 ELSE 6), delimiter)

LeefEvent(raw, parts, fields) ==
    LET level == UNION {Banded(fields[k], 2, 5, 8) : k \in FirstOf(<<"sev", "severity">>, fields)}
    IN When(IsPrefix(<<"LEEF", ":">>, raw) /\ Len(parts) > 5,
            {Event("leef", raw, fields,
                   [message |-> <<"msg", "message">>, timestamp |-> <<"devTime">>,
                    hostname |-> <<"srcName">>],
                   [app_name |-> parts[3], msg_id |-> parts[5]] @@ Optional("severity", level),
                   parts[5])})
ParseLeef(raw) ==
    LET Parted(parts) == LeefEvent(raw, parts, LeefFields(parts)) IN Parted(SplitOn(From(raw, 3), "|"))
===============================================================================
