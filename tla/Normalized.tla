------------------------------ MODULE Normalized ------------------------------
(***************************************************************************)
(* What `normalized` makes of a line: the override rules and the chain of  *)
(* formats (parsers/mod.rs), the rsyslog envelope, the source label, the   *)
(* extract rules and the flat record (main.rs handle, event.rs).           *)
(***************************************************************************)
EXTENDS Syslog, Markup

CONSTANTS
    Addr,      \* the sender address of the line, a text
    Now,       \* the receive time, a text
    Instant    \* a time stamp that parses (a text) -> its instant

Mentions(s, t) == t = << >> \/ FindText(s, t) > 0

-------------------------------------------------------------------------------
(* The chain.                                                               *)

LooksLikeLogfmt(s) ==
    LET words == SplitOn([i \in DOMAIN s |-> IF s[i] \in Blank THEN " " ELSE s[i]], " ")
        Key(w) == Before(w, Find(w, {"="}))
    IN Cardinality({i \in DOMAIN words :
            /\ Find(words[i], {"="}) > 1 /\ words[i][1] \notin Digits
            /\ ToSet(Key(words[i])) \subseteq KeyChar \cup {"-"}}) >= 2

LooksLikeXml(text) ==
    LET s == TrimLeft(text)
    IN \/ IsPrefix(<<"<", "?", "xml">>, s) \/ IsPrefix(<<"<", "!", "-", "-">>, s)
       \/ IsPrefix(<<"<">>, s) /\ Len(s) > 1 /\ s[2] \in (Letters \ {".", "_"}) \cup {"/"}

LooksLikeYaml(s) ==
    \/ IsPrefix(<<"-", "-", "-">>, s)
    \/ \E line \in ToSet(Lines(s)) :
            LET key == Trim(Before(line, Find(line, {":"})))
            IN /\ Find(line, {":"}) > 0
               /\ key # << >> /\ " " \notin ToSet(key) /\ key[1] \notin {"#", "-"}

\* run_chain: the first parser that claims the line, its newlines at the end left off.
RunChain(raw) ==
    LET text == {i \in DOMAIN raw : raw[i] # NL}
        t == IF text = {} THEN raw ELSE SubSeq(raw, 1, Max(text))
        Starts(p) == IsPrefix(p, t)
    IN When(Starts(<<"<">>), ParseRfc5424(t) ?? ParseRfc3164(t))
       ?? When(Starts(<<"{">>), ParseObject(t))
       ?? When(Starts(<<"[">>), ParseArray(t))
       ?? ParseCef(t) ?? ParseLeef(t)
       ?? ParseRfc3164(t)
       ?? When(LooksLikeLogfmt(t), ParseLogfmt(t))
       ?? ParseCsv(t)
       ?? When(LooksLikeXml(t), ParseXml(t))
       ?? When(LooksLikeYaml(t), ParseYaml(t))
       ?? ParsePlain(raw)

\* force_parse
ForceParse(format, raw) ==
    CASE format = "rfc5424" -> ParseRfc5424(raw)    [] format = "rfc3164" -> ParseRfc3164(raw)
      [] format = "json" -> ParseObject(raw)        [] format = "json_array" -> ParseArray(raw)
      [] format = "cef" -> ParseCef(raw)            [] format = "leef" -> ParseLeef(raw)
      [] format = "logfmt" -> ParseLogfmt(raw)      [] format = "csv" -> ParseCsv(raw)
      [] format = "xml" -> ParseXml(raw)            [] format = "yaml" -> ParseYaml(raw)
      [] format = "filterlog" -> ParseFilterlog(raw)
      [] OTHER -> ParsePlain(raw)

-------------------------------------------------------------------------------
(* Override rules and the second pass.  An optional setting of a rule is    *)
(* the set of its values, {} if it is not there.                            *)

RuleMatches(rule, text) ==
    /\ \A ip \in rule.source_ip : IsPrefix(ip, Addr)
    /\ \A s \in rule.starts_with : IsPrefix(s, text)
    /\ \A s \in rule.contains : Mentions(text, s)

\* apply_remap: the renames are done one by one, in any order (a HashMap's).
RECURSIVE ApplyRemap(_, _)
ApplyRemap(fields, remap) ==
    IF DOMAIN remap = {} THEN {fields}
    ELSE UNION {ApplyRemap(IF old \in DOMAIN fields
                           THEN (remap[old] :> fields[old]) @@ Without(fields, {old}) ELSE fields,
                           Without(remap, {old})) : old \in DOMAIN remap}

Marker == [f \in {"cef", "leef"} |-> IF f = "cef" THEN <<"CEF", ":">> ELSE <<"LEEF", ":">>]
At(raw, format) == From(raw, FindText(raw, Marker[format]))

\* detect_wrapped: the formats are looked for in this order, and the first that is
\* there is the only one tried.
DetectWrapped(ev) ==
    When(Mentions(ev.raw, Marker["cef"]), {[format |-> "cef", payload |-> At(ev.raw, "cef")]})
    ?? When(Mentions(ev.raw, Marker["leef"]), {[format |-> "leef", payload |-> At(ev.raw, "leef")]})
    ?? When(IsPrefix(<<"{">>, TrimLeft(ev.message)),
            {[format |-> "json", payload |-> TrimLeft(ev.message)]})

LocatePayload(ev, format) ==
    IF format \in DOMAIN Marker /\ Mentions(ev.raw, Marker[format]) THEN At(ev.raw, format) ELSE ev.message

\* Mutant: what the transport says of severity and fields wins.
MergeUnder(outer, inner) ==
    [outer EXCEPT !.format = inner.format,
                  !.fields = @ @@ inner.fields @@ (<<"_transport">> :> <<outer.format>>),
                  !.env = @ @@ inner.env]

\* merge_reparsed
MergeReparsed(outer, inner) ==
    LET Of(keys) == [k \in DOMAIN inner.env \cap keys |-> inner.env[k]]
    IN [outer EXCEPT
            !.format = inner.format,
            !.fields = inner.fields @@ (<<"_transport">> :> <<outer.format>>) @@ @,
            !.env = Of({"severity", "msg_id"}) @@ @ @@ Of({"hostname", "app_name", "timestamp"}),
            !.message = IF inner.message = << >> THEN @ ELSE inner.message]

ReparseInto(ev, format, payload) ==
    {IF inner = Panic THEN Panic ELSE MergeReparsed(ev, inner) :
        inner \in When(payload # << >>, ForceParse(format, payload))}
    ?? {ev}

SecondPass(ev, formats) ==
    (UNION {ReparseInto(ev, w.format, w.payload) :
        w \in {[format |-> f, payload |-> LocatePayload(ev, f)] : f \in formats} ?? DetectWrapped(ev)})
    ?? {ev}

\* What a line gets that no rule matches: the parsers, and for syslog a second pass.
NoRule == [force_format |-> {}, remap |-> << >>, reparse |-> FALSE, reparse_as |-> {}, source |-> {}]
AutoReparsed(ev) == ev.format \in {"rfc3164", "rfc5424"}

FirstPass(raw, rule) ==
    IF rule.force_format = {} THEN RunChain(raw)
    ELSE (UNION {ForceParse(f, raw) : f \in rule.force_format}) ?? ParsePlain(raw)
Outcomes(ev, rule) ==
    UNION {IF rule.reparse \/ AutoReparsed(ev)
           THEN SecondPass([ev EXCEPT !.fields = f], When(rule.reparse, rule.reparse_as))
           ELSE {[ev EXCEPT !.fields = f]} : f \in ApplyRemap(ev.fields, rule.remap)}

\* parse: the events a line may be and its source, by the first rule that matches.
ParseBy(rule, raw) ==
    [events |-> UNION {IF ev = Panic THEN {ev} ELSE Outcomes(ev, rule) : ev \in FirstPass(raw, rule)},
     source |-> rule.source]
Parse(raw, rules) ==
    LET i == SelectInSeq(rules, LAMBDA r : RuleMatches(r, raw))
    IN ParseBy(IF i = 0 THEN NoRule ELSE rules[i], raw)

-------------------------------------------------------------------------------
(* The envelope, the source label and the extract rules.                    *)

\* envelope::unwrap: {} if the line is no JSON object with a `_raw`.
Unwrap(line) ==
    {ev \in When(IsPrefix(<<"{">>, TrimLeft(line)), ParseObject(line)) : <<"_raw">> \in DOMAIN ev.fields}
Sidecar(envelope, keys) ==
    UNION {{ev.fields[k] : k \in FirstOf(keys, ev.fields)} : ev \in envelope}

CanonicalAppName ==
    (<<"sshd-session">> :> <<"sshd">>) @@ (<<"sshd-auth">> :> <<"sshd">>) @@ (<<"CRON">> :> <<"cron">>)

SelfDescribing == {"filterlog", "csv", "plain"}

SanitizeSource(s) ==
    LET cleaned == [i \in DOMAIN s |-> IF s[i] \in KeyChar \cup {"-"} THEN s[i] ELSE "_"]
        trimmed == TrimOf(cleaned, {"_"})
    IN IF ToSet(trimmed) \subseteq {"."} THEN <<"unknown">> ELSE trimmed

\* derive_source, for an optional override.
DeriveSource(ev, override) ==
    LET Said(t) == {s \in t : Trim(s) # << >>}
        env(k)  == Said({ev.env[s] : s \in DOMAIN ev.env \cap {k}})
        resolved == Said(override) ?? env("app_name")
                    ?? When(ev.format \in SelfDescribing, {<<ev.format>>})
                    ?? env("hostname") ?? {<<"unknown">>}
    IN SanitizeSource(Trim(CHOOSE s \in resolved : TRUE))

FieldValue(ev, source, name) ==
    CASE name = <<"message">> -> {ev.message}
      [] name = <<"_raw">> -> {ev.raw}
      [] name \in {<<"source">>, <<"_source_type">>} -> {source}
      [] name = <<"source_addr">> -> {Addr}
      [] name = <<"_format">> -> {<<ev.format>>}
      [] name \in {<<k>> : k \in {"app_name", "hostname", "proc_id", "msg_id", "severity", "timestamp"}} ->
            {ev.env[k] : k \in DOMAIN ev.env \cap ToSet(name)}
      [] OTHER -> {ev.fields[k] : k \in DOMAIN ev.fields \cap {name}}

\* extract::apply.  A pattern here captures, under a name, the token after a text.
ApplyExtract(rules, event, source) ==
    LET Apply(ev, rule) ==
            LET matched == \A c \in rule.conditions : c.want \in FieldValue(ev, source, c.field)
                hay == FieldValue(ev, source, rule.from)
                Ends(p, h) == {i \in Len(p.after) + 1..Len(h) :
                                SubSeq(h, i - Len(p.after), i - 1) = p.after}
                Capture(f, p) == [k \in UNION {When(Ends(p, h) # {}, {p.name}) : h \in hay} |->
                                    LET h == CHOOSE t \in hay : TRUE IN <<h[Min(Ends(p, h))]>>]
                captured == FoldLeft(LAMBDA f, p : f @@ Capture(f, p), ev.fields, rule.patterns)
            IN IF matched /\ hay # {}
               THEN [ev EXCEPT !.fields = rule.set @@ captured,
                               !.force_severity = @ \/ rule.force_severity]
               ELSE ev
    IN FoldLeft(Apply, event, rules)

-------------------------------------------------------------------------------
(* The record.                                                              *)

SynonymTarget == (<<"src">> :> <<"src_ip">>) @@ (<<"dst">> :> <<"dst_ip">>)
                 @@ (<<"spt">> :> <<"src_port">>) @@ (<<"dpt">> :> <<"dst_port">>)

\* flatten: the envelope over the fields, a canonical name over its synonym.
Flatten(ev, source) ==
    LET plain   == Without(ev.fields, DOMAIN SynonymTarget)
        synonym == [t \in {SynonymTarget[k] : k \in DOMAIN ev.fields \ DOMAIN plain} |->
                        ev.fields[CHOOSE k \in DOMAIN ev.fields \ DOMAIN plain : SynonymTarget[k] = t]]
        env == [k \in {<<e>> : e \in DOMAIN ev.env \ When(ev.force_severity, {"severity"})} |-> ev.env[k[1]]]
        blank == <<"timestamp">> \notin DOMAIN env \/ Trim(env[<<"timestamp">>]) = << >>
    IN (<<"_raw">> :> Trim(ev.raw)) @@ (<<"_received">> :> Now) @@ (<<"_source_type">> :> source)
       @@ (<<"_format">> :> <<ev.format>>) @@ (<<"source_addr">> :> Addr)
       @@ (<<"_normalized">> :> IF ev.format = "plain" THEN <<"false">> ELSE <<"true">>)
       @@ (IF ev.message = << >> THEN << >> ELSE <<"message">> :> ev.message)
       @@ (IF blank THEN <<"timestamp">> :> Now ELSE << >>)
       @@ env @@ plain @@ synonym

\* in_time_range, by the time stamp of the event itself.
InTimeRange(ev, config) ==
    LET own == {Instant[t] : t \in {ev.env[k] : k \in DOMAIN ev.env \cap {"timestamp"}} \cap DOMAIN Instant}
    IN \/ config.since \cup config.until = {}
       \/ own = {} /\ ~config.drop_undated
       \/ \E t \in own : /\ \A s \in config.since : s <= t
                         /\ \A u \in config.until : t <= u

\* strip_octet_count: TCP lines lose a count of octets in front.
StripOctetCount(s) ==
    IF s[1] \in DOMAIN Number /\ Find(s, {" "}) = 2 THEN From(s, 3) ELSE s

\* Processor::handle: the records (one, or none) a line may become.
Labelled(parsed, envelope, config) ==
    LET Side(keys) == Sidecar(envelope, keys)
        severity == UNION {LevelOf(Trim(t)) : t \in Side(<<"_severity">>)}
        Filled(ev) ==
            LET app == DOMAIN ev.env \cap {"app_name"}
                canonical == [k \in {a \in app : ev.env[a] \in DOMAIN CanonicalAppName} |->
                                CanonicalAppName[ev.env[k]]]
            IN [ev EXCEPT !.env = canonical @@ @ @@ Optional("timestamp", Side(<<"_timestamp">>))
                                  @@ Optional("hostname", Side(<<"_host">>))
                                  @@ Optional("severity", severity)]
        Record(ev) ==
            LET source == DeriveSource(ev, config.force_source ?? (parsed.source
                                           ?? Side(<<"_source_type", "_source">>)))
                event  == ApplyExtract(config.extract, ev, source)
            IN When(InTimeRange(event, config), {Flatten(event, source)})
    IN UNION {Record(Filled(ev)) : ev \in parsed.events \ {Panic}}
Opened(envelope, line, config) ==
    Labelled(Parse(IF envelope = {} THEN line ELSE (CHOOSE e \in envelope : TRUE).fields[<<"_raw">>],
                   config.rules),
             envelope, config)
Handle(line, config) == Opened(Unwrap(line), line, config)
===============================================================================
