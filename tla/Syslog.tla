-------------------------------- MODULE Syslog --------------------------------
(***************************************************************************)
(* The syslog parsers of `normalized`: RFC 3164, RFC 5424 and the pfSense  *)
(* filterlog that travels in it.                                           *)
(***************************************************************************)
EXTENDS Parsers

\* Facility(pri >> 3) and Severity::from_code(pri); a facility by its number.
Priority(n) == [facility |-> <<ToString(n \div 8)>>, severity |-> FromCode(n)]

\* `<N>`: the numbers a text may begin with, as the priority of a syslog line.
Pri(s) == When(IsPrefix(<<"<">>, s) /\ Find(s, {">"}) > 0,
               ParseNumber(SubSeq(s, 2, Find(s, {">"}) - 1)))
AfterPri(s) == From(s, Find(s, {">"}) + 1)

-------------------------------------------------------------------------------
(* RFC 3164.                                                                *)

\* The tokens that make up the first n bytes: {} if byte n is inside a character.
Bytes(s) == Len(s) + Cardinality({i \in DOMAIN s : s[i] \in Wide})
CutAt(s, n) == {i \in 0..Len(s) : Bytes(SubSeq(s, 1, i)) = n}

\* The lengths of a month and of a timestamp (3 and 15 in the code).
MonthLength == 1
ClassicLength == 3

\* try_parse_timestamp: the timestamp and the text after it.
IsoTimestamp(s) ==
    LET sp == Find(s, {" "})
    IN When(sp = 2 /\ s[1] \in IsoTime, {[time |-> <<s[1]>>, rest |-> From(s, 3)]})
TryParseTimestamp(s) ==
    LET month == CutAt(s, MonthLength)
        whole == CutAt(s, ClassicLength)
        classic == \E m \in month : s[m] \in Month /\ s[m + 1] = " "
        Split(i) == [time |-> SubSeq(s, 1, i), rest |-> From(s, i + 1)]
    IN CASE Bytes(s) >= ClassicLength /\ month = {} -> {Panic}
         [] Bytes(s) >= ClassicLength /\ classic -> {Split(i) : i \in whole} ?? {Panic}
         [] OTHER -> IsoTimestamp(s)

\* parse_tag_and_msg: a blank before the end of the tag means there is none.
ParseTagAndMsg(s) ==
    LET colon   == Find(s, {":"})
        bracket == Find(s, {"["})
        sp      == Find(s, Blank)
        ends    == {colon, bracket} \ {0}
        close   == Find(From(s, bracket + 1), {"]"})
        app_name == [app_name |-> Before(s, Min(ends))]
        proc_id == [p \in When(close > 0, {"proc_id"}) |-> SubSeq(s, bracket + 1, bracket + close - 1)]
        tagless == (sp > 0 /\ \A e \in ends : sp < e) \/ colon = 0
    IN IF tagless THEN [env |-> << >>, message |-> s]
       ELSE [env |-> IF bracket \in 1..colon THEN app_name @@ proc_id ELSE [app_name |-> Before(s, colon)],
             message |-> TrimLeft(From(s, colon + 1))]

ParseRfc3164(raw) ==
    LET pri  == {Priority(n) : n \in Pri(raw)}
        Host(t) == TrimLeft(t.rest)
        Tag(t)  == ParseTagAndMsg(TrimLeft(From(Host(t), FindOrEnd(Host(t), {" "}))))
        envs == pri ?? {<< >>}
    IN {IF t = Panic THEN Panic
        ELSE Event("rfc3164", raw, << >>, << >>,
                   [timestamp |-> t.time, hostname |-> Before(Host(t), FindOrEnd(Host(t), {" "}))]
                       @@ Tag(t).env @@ (CHOOSE e \in envs : TRUE),
                   Tag(t).message) :
        t \in TryParseTimestamp(IF pri = {} THEN raw ELSE AfterPri(raw))}

-------------------------------------------------------------------------------
(* RFC 5424.                                                                *)

\* The parameters of one `[id key="value" ...]` block, from behind the id.
RECURSIVE Params(_, _)
Params(text, fields) ==
    LET Quote(key, q) == Params(q.tail, (key :> q.value) @@ fields)
        Bare(key, after, end) == Params(From(after, end), (key :> Before(after, end)) @@ fields)
        Param(key, after) ==
            IF IsPrefix(<<"\"">>, after)
            THEN Quote(key, Quoted(Tail(after), [c \in ToSet(after) |-> <<c>>]))
            ELSE Bare(key, after, FindOrEnd(after, {" ", "]"}))
        Inner(inner, eq) ==
            CASE IsPrefix(<<"]">>, inner) -> [fields |-> fields, rest |-> Tail(inner)]
              [] ~IsPrefix(<<"]">>, inner) /\ eq = 0 -> [fields |-> fields, rest |-> inner]
              [] OTHER -> Param(Before(inner, eq), From(inner, eq + 1))
        Unblanked(s) == Inner(s, Find(s, {"="}))
    IN Unblanked(FromFirst(text, ToSet(text) \ {" "}))

RECURSIVE ParseStructuredData(_, _)
ParseStructuredData(s, fields) ==
    LET After(block) ==
            ParseStructuredData(IF IsPrefix(<<" ">>, block.rest) THEN Tail(block.rest) ELSE block.rest,
                                block.fields)
    IN IF IsPrefix(<<"[">>, s) THEN After(Params(From(s, FindOrEnd(s, {" ", "]"})), fields))
       ELSE [fields |-> fields, rest |-> s]

\* The five words of the header, `-` for one that is nil, and what follows them.
HeaderSlots == <<"timestamp", "hostname", "app_name", "proc_id", "msg_id">>

StructuredData(rest) ==
    IF IsPrefix(<<"-">>, rest) THEN [fields |-> << >>, rest |-> Tail(rest)]
    ELSE ParseStructuredData(rest, << >>)
Rfc5424Event(raw, words, sd) ==
    LET env  == [i \in {j \in 1..5 : words[j] # <<"-">>} |-> words[i]]
    IN {Event("rfc5424", raw, sd.fields, << >>,
              [s \in {HeaderSlots[i] : i \in DOMAIN env} |->
                    env[CHOOSE i \in DOMAIN env : HeaderSlots[i] = s]] @@ Priority(n),
              FromFirst(sd.rest, ToSet(sd.rest) \ {" "})) :
        n \in When(IsPrefix(<<"1", " ">>, AfterPri(raw)) /\ Len(words) > 5, Pri(raw))}

ParseRfc5424(raw) ==
    LET words == SplitOn(From(AfterPri(raw), 3), " ")
    IN Rfc5424Event(raw, words,
                    StructuredData(FoldLeft(LAMBDA t, w : t \o <<" ">> \o w, words[6], From(words, 7))))

-------------------------------------------------------------------------------
\* filterlog: the positions of a version's columns, counted from 0 as in pf.
Columns == ("4" :> [protocol |-> 16, src_ip |-> 18, dst_ip |-> 19, src_port |-> 20, dst_port |-> 21])
           @@ ("6" :> [protocol |-> 12, src_ip |-> 15, dst_ip |-> 16, src_port |-> 17, dst_port |-> 18])

ParseFilterlog(raw) ==
    LET cols == SplitOn(Trim(raw), ",")
        Col(i) == cols[i + 1]
        col == Columns[Col(8)[1]]
        Upper(t) == [i \in DOMAIN t |-> CASE t[i] = "tcp" -> "TCP" [] t[i] = "udp" -> "UDP"
                                           [] t[i] = "ICMPv6" -> "ICMPV6" [] OTHER -> t[i]]
        ported == /\ Upper(Col(col.protocol)) \in {<<"TCP">>, <<"UDP">>}
                  /\ Len(cols) > col.dst_port
        Value(c) == CASE c = "protocol" -> Upper(Col(col[c]))
                      [] c \in {"src_port", "dst_port"} -> Trim(Col(col[c]))
                      [] OTHER -> Col(col[c])
        named == {c \in {"protocol", "src_ip", "dst_ip"}
                        \cup When(ported, {"src_port", "dst_port"}) : Value(c) # << >>}
    IN When(/\ Len(cols) > 8 /\ Col(6) \in {<<"block">>, <<"pass">>} /\ Col(8) \in {<<"4">>, <<"6">>}
            /\ Len(cols) > col.dst_ip,
            {Event("filterlog", raw,
                   (<<"action">> :> IF Col(6) = <<"pass">> THEN <<"ALLOW">> ELSE <<"BLOCK">>)
                   @@ (<<"direction">> :> Col(7)) @@ (<<"interface">> :> Col(4))
                   @@ [k \in {<<c>> : c \in named} |-> Value(k[1])],
                   << >>, << >>, << >>)})
===============================================================================
