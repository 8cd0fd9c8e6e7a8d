-------------------------------- MODULE Markup --------------------------------
(***************************************************************************)
(* The parsers of `normalized` for tables and markup: CSV, YAML, XML.      *)
(***************************************************************************)
EXTENDS Parsers

Lines(s) == SplitOn(s, NL)

-------------------------------------------------------------------------------
(* CSV.                                                                     *)

Candidates == <<TAB, "|", ",", ";">>

\* detect_delimiter: of those every line has as often (or not at all) as the first,
\* the most frequent, and the earlier of equals.
DetectDelimiter(lines) ==
    LET Count(l, d) == Cardinality({i \in DOMAIN l : l[i] = d})
        first(d) == Count(lines[1], d)
        fit == {c \in DOMAIN Candidates :
                    /\ first(Candidates[c]) >= 1
                    /\ \A i \in DOMAIN lines :
                            Count(lines[i], Candidates[c]) \in {0, first(Candidates[c])}}
    IN {Candidates[c] : c \in {f \in fit : \A g \in fit :
            \/ first(Candidates[f]) > first(Candidates[g])
            \/ first(Candidates[f]) = first(Candidates[g]) /\ f <= g}}

\* split_csv: `prev` is that the last token was a quote inside quotes.  The quotes
\* are still open when the delimiter after a closing quote is read, so it is kept.
SplitCsv(s, d) ==
    LET Step(a, c) ==
            CASE c = "\"" /\ a.quoted /\ a.prev ->
                        [a EXCEPT !.cells[Len(a.cells)] = Append(@, c), !.prev = FALSE]
              [] c = "\"" /\ a.quoted /\ ~a.prev -> [a EXCEPT !.prev = TRUE]
              [] c = "\"" /\ ~a.quoted -> [a EXCEPT !.quoted = TRUE]
              [] c = d /\ ~a.quoted -> [a EXCEPT !.cells = Append(@, << >>)]
              [] OTHER -> [a EXCEPT !.cells[Len(a.cells)] = Append(@, c),
                                    !.quoted = @ /\ ~a.prev, !.prev = FALSE]
        cells == FoldLeft(Step, [cells |-> << << >> >>, quoted |-> FALSE, prev |-> FALSE], s).cells
    IN [i \in DOMAIN cells |-> Trim(cells[i])]

Col(i) == <<"col_", ToString(i - 1)>>

CsvEvent(raw, rows) ==
    LET width  == Len(rows[1])
        header == Len(rows) > 1 /\ \E i \in 1..width : ParseNumber(rows[1][i]) = {}
        data   == IF header THEN Tail(rows) ELSE rows
        Key(r, c) == (IF Len(data) > 1 THEN <<"[", ToString(r - 1), "]", ".">> ELSE << >>)
                     \o (IF header /\ c <= width THEN rows[1][c] ELSE Col(c))
        Add(f, r) == FoldLeft(LAMBDA g, c : (Key(r, c) :> data[r][c]) @@ g,
                              f, [c \in DOMAIN data[r] |-> c])
    IN Event("csv", raw, FoldLeft(Add, << >>, [r \in DOMAIN data |-> r]),
             [timestamp |-> <<"timestamp", "time">>, hostname |-> <<"hostname", "host">>], << >>,
             <<ToString(Len(data)), "rows", ToString(width), "cols">>)

ParseCsv(raw) ==
    LET lines == SelectSeq(Lines(raw), LAMBDA l : Trim(l) # << >>)
        Rows(d) == [i \in DOMAIN lines |-> SplitCsv(lines[i], d)]
        fits(rows) == /\ Len(rows[1]) >= 2
                      /\ \A r \in ToSet(rows) : Len(r) - Len(rows[1]) \in {-1, 0, 1}
    IN {CsvEvent(raw, rows) : rows \in
            {r \in {Rows(d) : d \in When(lines # << >>, DetectDelimiter(lines))} : fits(r)}}

-------------------------------------------------------------------------------
(* YAML.                                                                    *)

RECURSIVE AfterSeparators(_)
AfterSeparators(s) ==
    IF IsPrefix(<<"-", "-", "-">>, s) THEN AfterSeparators(From(s, 4)) ELSE s

ParseYaml(raw) ==
    LET Add(a, text) ==
            LET line  == Trim(text)
                colon == FindText(line, <<":", " ">>)
                Put(key, value) == IF key = << >> THEN a ELSE [a EXCEPT !.fields = (key :> value) @@ @]
            IN CASE line \in {<< >>, <<"-", "-", "-">>, <<".", ".", ".">>} \/ IsPrefix(<<"#">>, line) -> a
                 [] IsPrefix(<<"-", " ">>, line) ->
                        [items  |-> a.items + 1,
                         fields |-> (<<"[", ToString(a.items), "]">> :> Trim(From(line, 3))) @@ a.fields]
                 [] line # << >> /\ ~IsPrefix(<<"#">>, line) /\ ~IsPrefix(<<"-", " ">>, line) ->
                        CASE colon > 0 -> Put(Trim(Before(line, colon)), Trim(From(line, colon + 2)))
                          [] colon = 0 /\ Last(line) = ":" -> Put(Trim(Front(line)), << >>)
                          [] OTHER -> a
        fields == FoldLeft(Add, [items |-> 0, fields |-> << >>],
                           Lines(Trim(AfterSeparators(raw)))).fields
    IN When(DOMAIN fields # {},
            {Event("yaml", raw, fields,
                   [message |-> <<"message", "msg">>, timestamp |-> <<"timestamp", "time">>,
                    hostname |-> <<"hostname", "host">>, app_name |-> <<"app_name", "service">>],
                   << >>, << >>)})

-------------------------------------------------------------------------------
(* XML.                                                                     *)

\* find_closing_angle: the ">" that ends the tag at i, 0 if there is none.
FindClosingAngle(s, i) ==
    LET Comment(end) == IF end = 0 THEN 0 ELSE i + end + 1
        Step(a, p) == CASE a.found > 0 -> a
                        [] a.found = 0 /\ a.quote # "" ->
                                IF s[p] = a.quote THEN [a EXCEPT !.quote = ""] ELSE a
                        [] a.found = 0 /\ a.quote = "" /\ s[p] \in {"\"", "'"} -> [a EXCEPT !.quote = s[p]]
                        [] a.found = 0 /\ a.quote = "" /\ s[p] = ">" -> [a EXCEPT !.found = p]
                        [] OTHER -> a
    IN IF IsPrefix(<<"<", "!", "-", "-">>, From(s, i))
       THEN Comment(FindText(From(s, i), <<"-", "-", ">">>))
       ELSE FoldLeft(Step, [found |-> 0, quote |-> ""], [k \in 1..(Len(s) - i + 1) |-> i + k - 1]).found

RECURSIVE ExtractAttributes(_, _)
ExtractAttributes(text, path) ==
    LET Put(key, value) == IF key = << >> THEN << >> ELSE path \o <<".", "@">> \o key :> value
        Value(key, body, end, next) == ExtractAttributes(From(body, next), path) @@ Put(key, Before(body, end))
        Quote(key, q, body) == Value(key, body, FindOrEnd(body, {q}), FindOrEnd(body, {q}) + 1)
        Attribute(key, after) ==
            IF after # << >> /\ after[1] \in {"\"", "'"} THEN Quote(key, after[1], Tail(after))
            ELSE Value(key, after, FindOrEnd(after, Blank), FindOrEnd(after, Blank))
        At(eq) == Attribute(Trim(Before(text, eq)), From(text, eq + 1))
    IN IF "=" \in ToSet(text) THEN At(Find(text, {"="})) ELSE << >>

\* extract_fields from position i, below the elements of the stack (their path, each
\* with its dot).  Text is what stands between a start tag and the next "<".
RECURSIVE ExtractFields(_, _, _)
ExtractFields(s, i, stack) ==
    LET Go(from, below) == ExtractFields(s, from, below)
        TextIn(rest) == IF "<" \in ToSet(rest) THEN Trim(Before(rest, Find(rest, {"<"}))) ELSE << >>
        Path(name) == FoldLeft(LAMBDA p, e : p \o e \o <<".">>, << >>, stack) \o name
        Element(path, name, self, rest, text) ==
            (IF self \/ text = << >> THEN << >> ELSE path :> text) @@ ExtractAttributes(rest, path)
        Start(body, name, self, end) ==
            IF name = << >> THEN Go(end + 1, stack)
            ELSE Go(end + 1, IF self THEN stack ELSE Append(stack, name))
                 @@ Element(Path(name), name, self, From(body, Len(name) + 1), TextIn(From(s, end + 1)))
        Body(body, self, end) == Start(body, Before(body, FindOrEnd(body, Blank)), self, end)
        InTag(tag, end) ==
            CASE tag # << >> /\ tag[1] \in {"!", "?"} -> Go(end + 1, stack)
              [] tag # << >> /\ tag[1] = "/" ->
                    Go(end + 1, IF stack = << >> THEN stack ELSE Front(stack))
              [] tag # << >> /\ Last(tag) = "/" /\ tag[1] \notin {"!", "?", "/"} -> Body(Front(tag), TRUE, end)
              [] OTHER -> Body(tag, FALSE, end)
        At(end) == IF end = 0 THEN << >> ELSE InTag(SubSeq(s, i + 1, end - 1), end)
    IN CASE i > Len(s) -> << >>
         [] i <= Len(s) /\ s[i] # "<" -> Go(i + 1, stack)
         [] OTHER -> At(FindClosingAngle(s, i))

\* find_root_element, behind an XML declaration.
RootElement(text) ==
    LET s   == IF IsPrefix(<<"<", "?">>, text) THEN TrimLeft(From(text, Find(text, {">"}) + 1)) ELSE text
        end == Find(From(s, 2), Blank \cup {">", "/"})
    IN IF IsPrefix(<<"<">>, s) /\ end > 0 THEN SubSeq(s, 2, end) ELSE <<"xml">>

\* A message below the root may be any of those there are: fields is a HashMap.
XmlEvent(raw, s, fields) ==
    LET direct == FirstOf(<<"message", "msg", "text">>, fields)
        dotted == {k \in DOMAIN fields : \E w \in {"message", "msg", "text"} : IsSuffix(<<".", w>>, k)}
        table  == [timestamp |-> <<"timestamp", "time", "datetime">>,
                   hostname |-> <<"hostname", "host">>, app_name |-> <<"app_name", "application">>]
    IN When(IsPrefix(<<"<">>, s) /\ DOMAIN fields # {},
            {Event("xml", raw, Without(fields, {k}), table, << >>, fields[k]) : k \in direct ?? dotted}
            ?? {Event("xml", raw, fields, table, << >>, RootElement(s))})
ParseXml(raw) == XmlEvent(raw, Trim(raw), ExtractFields(Trim(raw), 1, << >>))
===============================================================================
