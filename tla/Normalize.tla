------------------------------ MODULE Normalize -------------------------------
(***************************************************************************)
(* What `normalized` makes of every line a producer can write: pairs of a  *)
(* key and a value grow token by token, are written in one of the formats, *)
(* travel in one of the transports, and are read under one of the          *)
(* configurations.                                                         *)
(***************************************************************************)
EXTENDS NormalizedConfig

CONSTANTS
    Styles,      \* the [format, transport] that are written
    Setups,      \* [files, extra, cli, since, drop_undated, tag, sidecar]: the files of --config-dir
                 \* by name and that of --config, --source, --since and --drop-undated, and
                 \* what the transport adds
    Default,     \* the setup without rules
    Firewall,    \* the setup with the rule for filterlog, and its tag
    KeyPairs,    \* the sequences of keys that are written
    Marks,       \* the tokens the values are made of
    MaxMarks,    \* bound: tokens in all values together
    MaxInSetup   \* bound: the same, under another setup than Default

VARIABLES style, setup, keys, values

vars == <<style, setup, keys, values>>

Init ==
    /\ style \in Styles /\ setup \in Setups /\ keys \in KeyPairs
    /\ values = [k \in DOMAIN keys |-> << >>]

\* The producer adds a token to a value; the values are filled from the first on.
Write(k, mark) ==
    /\ FoldLeft(LAMBDA n, v : n + Len(v), 1, values)
            <= IF setup = Default THEN MaxMarks ELSE MaxInSetup
    /\ \A j \in DOMAIN keys : j > k => values[j] = << >>
    /\ values' = [values EXCEPT ![k] = Append(@, mark)]
    /\ UNCHANGED <<style, setup, keys>>

Next == \E k \in DOMAIN keys, mark \in Marks : Write(k, mark)
Spec == Init /\ [][Next]_vars

-------------------------------------------------------------------------------
(* The producer, by the rules of the formats.                               *)

Escaped(v, escape) ==
    FoldLeft(LAMBDA s, c : s \o (IF c \in DOMAIN escape THEN escape[c] ELSE <<c>>), << >>, v)
Slashed(toks) == [c \in toks |-> <<"\\", c>>]
JsonText(v) == <<"\"">> \o Escaped(v, Slashed({"\"", "\\"}) @@ (NL :> <<"\\", "n">>) @@ (TAB :> <<"\\", "t">>))
                        \o <<"\"">>
Joined(parts, d) == FoldLeft(LAMBDA s, p : IF s = << >> THEN p ELSE s \o d \o p, << >>, parts)
Each(Item(_, _)) == [i \in DOMAIN keys |-> Item(keys[i], values[i])]
Equals(k, v) == k \o <<"=">> \o v

\* The header the CEF and LEEF devices put in front: product "p|q", event 7, severity 9.
CefHeader  == <<"CEF", ":", "0", "|", "v", "|", "p", "\\", "|", "q", "|", "1", "|", "7", "|", "name", "|", "9", "|">>
LeefHeader(version) == <<"LEEF", ":", version, "|", "v", "|", "p", "|", "1", "|", "7", "|">>

Firewalled == style.format \in {"filterlog", "filterlog6"}

\* The columns of filterlog, as pf writes them: the values are the two addresses.
FilterlogText ==
    LET start(version) == <<"7">> \o <<",", ",", ",", "9", ",", "re1", ",", "x", ",", "block", ",", "in", ",", version>>
    IN IF style.format = "filterlog"
       THEN start("4") \o <<",", "0", ",", ",", "9", ",", "1", ",", "0", ",", "x", ",", "6", ",", "tcp", ",", "9", ",">>
            \o values[1] \o <<",">> \o values[2] \o <<",", "7", ",", "9", ",", "0">>
       ELSE start("6") \o <<",", "0", ",", "0", ",", "9", ",", "ICMPv6", ",", "7", ",", "9", ",">>
            \o values[1] \o <<",">> \o values[2] \o <<",">>

Payload ==
    CASE Firewalled -> FilterlogText
      [] style.format = "logfmt" ->
            Joined(Each(LAMBDA k, v : Equals(k, <<"\"">> \o Escaped(v, Slashed({"\"", "\\"}) @@ (NL :> <<"\\", "n">>))
                                               \o <<"\"">>)), <<" ">>)
      [] style.format = "json" ->
            <<"{">> \o Joined(Each(LAMBDA k, v : JsonText(k) \o <<":">> \o JsonText(v)), <<",">>) \o <<"}">>
      [] style.format = "cef" ->
            CefHeader \o Joined(Each(LAMBDA k, v : Equals(k, Escaped(v, Slashed({"=", "\\"}) @@ (NL :> <<"\\", "n">>)))),
                                <<" ">>)
      [] style.format = "leef" -> LeefHeader("1.0") \o Joined(Each(Equals), <<TAB>>)
      [] style.format = "leef2" -> LeefHeader("2.0") \o <<";", "|">> \o Joined(Each(Equals), <<";">>)
      [] style.format = "csv" -> Joined(keys, <<",">>) \o <<NL>> \o Joined(values, <<",">>)
      [] style.format = "yaml" ->
            <<"-", "-", "-", NL>> \o Joined(Each(LAMBDA k, v : k \o <<":", " ">> \o v), <<NL>>)
      [] style.format = "xml" ->
            <<"<", "ev", ">">> \o Joined(Each(LAMBDA k, v : <<"<">> \o k \o <<">">> \o v \o <<"<", "/">> \o k \o <<">">>), << >>)
            \o <<"<", "/", "ev", ">">>
      [] style.format = "plain" -> Joined(values, << >>)
      [] OTHER -> << >>

\* Structured data of RFC 5424 is a part of the transport.
SdElement == IF style.format # "sd" THEN <<"-">>
             ELSE <<"[", "x", " ">> \o Joined(Each(LAMBDA k, v : Equals(k, <<"\"">> \o Escaped(v, Slashed({"\"", "\\", "]"}))
                                                                       \o <<"\"">>)), <<" ">>) \o <<"]">>

Stamp == <<"Jan", " ", "1">>
Sent ==
    CASE style.transport = "bare" -> Payload
      [] style.transport = "rfc3164" -> Stamp \o <<" ", "h", " ">> \o setup.tag \o <<":", " ">> \o Payload
      [] style.transport \in {"rfc5424", "framed"} ->
            <<"<", "9", ">", "1", " ", "iso", " ", "h", " ">> \o setup.tag \o <<" ", "-", " ", "-", " ">> \o SdElement
            \o <<" ">> \o Payload
      [] style.transport = "envelope" ->
            <<"{">> \o Joined([i \in DOMAIN setup.sidecar |->
                                JsonText(<<setup.sidecar[i][1]>>) \o <<":">> \o JsonText(setup.sidecar[i][2])]
                              \o << JsonText(<<"_raw">>) \o <<":">> \o JsonText(Payload) >>, <<",">>) \o <<"}">>

\* A framed line comes over TCP, behind the count of its octets.
Received == IF style.transport = "framed" THEN StripOctetCount(<<"7", " ">> \o Sent) ELSE Sent

\* A file is a sequence of rules, [section, settings], as its author writes it.
Text(file) == FoldLeft(LAMBDA s, r : s \o <<[section |-> r.section]>> \o r.settings, << >>, file)

Config == LoadConfig([i \in DOMAIN setup.files |-> [toml |-> setup.files[i].toml,
                                                   lines |-> Text(setup.files[i].rules)]],
                     Text(setup.extra))
          @@ [force_source |-> setup.cli, since |-> setup.since, until |-> {}, drop_undated |-> setup.drop_undated]
Records == Handle(Received, Config)

-------------------------------------------------------------------------------
(* Properties.                                                              *)

\* What the property is about: values that need no quoting in CSV, YAML and XML, whose
\* quotes and entities the producer here does not write, none that LEEF, CSV or filterlog
\* have no way to write, and none for which an earlier parser of the chain claims the line.
Marked(toks) == \E i \in DOMAIN values : ToSet(values[i]) \cap toks # {}
Carried ==
    CASE style.format \in {"logfmt", "json", "cef", "sd"} -> TRUE
      [] style.format \in {"leef", "leef2"} -> ~Marked({";", NL, TAB}) /\ \A i \in DOMAIN values : Trim(values[i]) = values[i]
      [] style.format \in {"csv", "yaml", "xml"} ->
            /\ ~Marked({",", ";", "|", "=", "\"", "<", ">", TAB, NL})
            /\ \A i \in DOMAIN values : values[i] # << >> /\ Trim(values[i]) = values[i]
      [] Firewalled -> ~Marked({",", NL})
      [] OTHER -> FALSE

\* The second pass is for CEF, LEEF and JSON in syslog; the rest of a syslog line is
\* its message.
Read == Firewalled \/ style.format \in {"cef", "leef", "leef2", "json", "sd"} \/ style.transport \in {"bare", "envelope"}

FirewallFields ==
    (<<"action">> :> <<"BLOCK">>) @@ (<<"direction">> :> <<"in">>) @@ (<<"interface">> :> <<"re1">>)
    @@ (IF style.format = "filterlog6" THEN <<"protocol">> :> <<"ICMPV6">>
        ELSE (<<"protocol">> :> <<"TCP">>) @@ (<<"src_port">> :> <<"7">>) @@ (<<"dst_port">> :> <<"9">>))
    @@ (IF values[1] = << >> THEN << >> ELSE <<"src_ip">> :> values[1])
    @@ (IF values[2] = << >> THEN << >> ELSE <<"dst_ip">> :> values[2])

Documented ==
    IF Firewalled THEN FirewallFields ELSE
    LET Name(k) == CASE style.format = "xml" -> IF k = <<"msg">> THEN <<"message">> ELSE <<"ev", ".">> \o k
                     [] k = <<"msg">> /\ style.format \notin {"xml", "cef", "csv", "sd"} -> <<"message">>
                     [] k \in DOMAIN SynonymTarget /\ style.format # "xml" -> SynonymTarget[k]
                     [] OTHER -> k
        Of(n)   == {i \in DOMAIN keys : Name(keys[i]) = n}
        Says(n) == IF \E i \in Of(n) : keys[i] = n THEN CHOOSE i \in Of(n) : keys[i] = n
                   ELSE CHOOSE i \in Of(n) : TRUE
        names   == {n \in {Name(k) : k \in ToSet(keys)} : n # <<"message">> \/ values[Says(n)] # << >>}
    IN [n \in names |-> values[Says(n)]]

Bookkeeping == {<<k>> : k \in {"timestamp", "_received", "_source_type", "_format", "source_addr", "_normalized",
                               "_raw", "hostname", "app_name", "proc_id", "msg_id", "severity", "facility",
                               "message", "_transport", "cef.signature_id", "cef.name", "cef.severity", "cef.vendor",
                               "cef.product", "cef.device_version", "leef.vendor", "leef.product", "leef.event_id"}}

AreReadBack(records, documented) ==
    /\ records # {}
    /\ \A r \in records :
        /\ \A n \in DOMAIN documented : n \in DOMAIN r /\ r[n] = documented[n]
        /\ DOMAIN r \ Bookkeeping \subseteq DOMAIN documented
        /\ r[<<"_format">>] = <<CASE style.format = "leef2" -> "leef"
                                      [] style.format = "sd" -> "rfc5424"
                                      [] style.format = "filterlog6" -> "filterlog" [] OTHER -> style.format>>

\* What a producer wrote in a format is what the record says: every value under its
\* documented name (a canonical name over its synonym), no field that was not written,
\* and the one parser the format is for, in whatever transport it came.
\* (parsers/*.rs, mod.rs run_chain and merge_reparsed, envelope.rs unwrap, event.rs flatten.)
FieldsAreReadBack ==
    setup = (IF Firewalled THEN Firewall ELSE Default) /\ Carried /\ Read =>
        AreReadBack(Records, Documented)

\* The rules in force by the guide: those of the *.toml files in the order of their
\* names, then those of --config; and of one, what it says of a key.
RulesOf(section) ==
    SelectSeq(FoldLeft(LAMBDA all, f : IF f.toml THEN all \o f.rules ELSE all, << >>, setup.files) \o setup.extra,
              LAMBDA r : r.section = section)
Says(rule, key) == {rule.settings[i].value : i \in {j \in DOMAIN rule.settings : rule.settings[j].key = key}}
Inner == IF style.transport = "envelope" THEN Payload ELSE Received
FirstFit(rules, text) ==
    LET fits(i) == /\ \A v \in Says(rules[i], "source_ip") : IsPrefix(v.text, Addr)
                   /\ \A v \in Says(rules[i], "starts_with") : IsPrefix(v.text, text)
                   /\ \A v \in Says(rules[i], "contains") : \E at \in DOMAIN text : IsPrefix(v.text, From(text, at))
    IN {rules[i] : i \in {f \in DOMAIN rules : fits(f) /\ \A g \in 1..(f - 1) : ~fits(g)}}
FirstOverride == FirstFit(RulesOf("overrides.rule"), Inner)

InEnvelope(key) == {setup.sidecar[i][2] : i \in {j \in DOMAIN setup.sidecar :
                        style.transport = "envelope" /\ setup.sidecar[j][1] = key}}
Syslog5424 == style.transport \in {"rfc5424", "framed"}
InSyslog(value) == When(Syslog5424 \/ style.transport = "rfc3164", {value})
SameDaemon == (<<"sshd-session">> :> <<"sshd">>) @@ (<<"CRON">> :> <<"cron">>)

\* The steps of the source label.  The last three are the code's: a CSV, plain or
\* filterlog line goes by its format, any other by its host.
SourceInOrder(format, overrides) ==
    LET app == IF setup.tag \in DOMAIN SameDaemon THEN SameDaemon[setup.tag] ELSE setup.tag
    IN setup.cli
       ?? (UNION {{v.text : v \in Says(r, "source")} : r \in overrides})
       ?? InEnvelope("_source_type") ?? InEnvelope("_source")
       ?? When(setup.tag # <<"-">>, InSyslog(app))
       ?? When(format = <<"cef">>, {<<"p", "|", "q">>}) ?? When(format = <<"leef">>, {<<"p">>})
       ?? When(format \in {<<"csv">>, <<"plain">>}, {format})
       ?? InSyslog(<<"h">>) ?? InEnvelope("_host") ?? {<<"unknown">>}

DocumentedTime == (IF Syslog5424 THEN {<<"iso">>} ELSE InSyslog(Stamp)) ?? InEnvelope("_timestamp")

DocumentedSeverity(format) ==
    When(format = <<"cef">>, {<<"error">>}) ?? When(Syslog5424, {<<"alert">>})
    ?? {SeverityWord[w[1]] : w \in InEnvelope("_severity")}

FollowTheOrder(records, first, documented) ==
    /\ records # {} <=> \A from \in setup.since :
            IF DocumentedTime = {} THEN ~setup.drop_undated
            ELSE \A t \in DocumentedTime : Instant[t] >= from
    /\ \A r \in records :
           LET Is(key, said) == IF said = {} THEN <<key>> \notin DOMAIN r
                                ELSE <<key>> \in DOMAIN r /\ r[<<key>>] \in said
               source == r[<<"_source_type">>]
               extracts == {e \in ToSet(RulesOf("extract.rule")) :
                               \A v \in Says(e, "source") : v.text = source}
               sets == FoldSet(LAMBDA e, f : FoldSet(LAMBDA v, g : v.map @@ g, f, Says(e, "set")), << >>, extracts)
           IN /\ source \in {SanitizeSource(s) : s \in SourceInOrder(r[<<"_format">>], first)}
              /\ source # << >> /\ ToSet(source) \subseteq KeyChar \cup {"-"} /\ ToSet(source) # {"."}
              /\ Is("timestamp", DocumentedTime ?? {Now})
              /\ Is("hostname", InSyslog(<<"h">>) ?? InEnvelope("_host"))
              /\ Is("severity", IF <<"severity">> \in DOMAIN sets THEN {sets[<<"severity">>]}
                                ELSE DocumentedSeverity(r[<<"_format">>]))
              /\ \A k \in DOMAIN sets : r[k] = sets[k]
              /\ Carried /\ Read /\ first = {} /\ ~Firewalled =>
                   \A n \in DOMAIN documented \ DOMAIN sets : r[n] = documented[n]
              /\ r[<<"_raw">>] = Trim(Inner)

\* Whatever the line and its transport, the record is labelled by the first there is of
\* --source, first override rule, envelope tag, program, then the format of a CSV, plain
\* or filterlog line, then the host, then "unknown"; this is the order of event.rs:168-171
\* and not that of docs/normalized-usage.md:213-217, where there is no host, and the
\* detected format is the last label whichever it is.  The label is one component of a
\* path, the payload says the severity, and time and host come from the transport before
\* the envelope.  An extract rule for the label sets its fields, and what it captures
\* clobbers nothing the producer wrote.  Only --since keeps a line from being recorded, by
\* the time it carries.
\* (main.rs handle, mod.rs parse and merge_reparsed, event.rs derive_source,
\* sanitize_source and flatten, extract.rs apply, config.rs parse and merge.)
LabelsKeepTheirOrder == FollowTheOrder(Records, FirstOverride, Documented)

\* The guide: every line is claimed by exactly one parser, and nothing is ever
\* dropped.  Without --since every line has a record.
\* (mod.rs run_chain tries rfc3164 on every line; rfc3164.rs try_parse_timestamp.)
NothingIsDropped == setup = Default => Records # {}
===============================================================================
