------------------------------ MODULE SigmaRules ------------------------------
(***************************************************************************)
(* The Sigma rules of `ruled` (ruled/src/rules.rs): loading a rule file    *)
(* and matching a rule against an event.                                   *)
(*                                                                         *)
(* A text is a sequence of characters.  A JSON value is [kind, text], its  *)
(* text the one serde prints; an event is a function from the fields it    *)
(* has.  A YAML scalar is a value too, and a selection is the sequence of  *)
(* its [field, modifier, value] items in file order.  A condition is a     *)
(* sequence of tokens (see Conditions) among which "1 of them" and the     *)
(* "1 of p" are one token each, the pattern p being the sequence of the    *)
(* texts between its stars.                                                *)
(***************************************************************************)
EXTENDS Conditions, SequencesExt

CONSTANTS
    Event,       \* the events told apart
    SourceType,  \* the field _source_type
    Lower,       \* what to_lowercase makes of a character
    Patterns,    \* "1 of p" token -> p
    SelName      \* selection name (a token) -> its text

ASSUME SigmaAssumption ==
    /\ DOMAIN Patterns \cap DOMAIN SelName = {}
    /\ Symbols \cap (DOMAIN Patterns \cup DOMAIN SelName) = {}

Scalar == {"string", "number", "bool"}
Lowercase(s) == [i \in DOMAIN s |-> Lower[s[i]]]
Within(s, t) == \E i \in 0..(Len(t) - Len(s)) : SubSeq(t, i + 1, i + Len(s)) = s

-------------------------------------------------------------------------------
(* Matching: Rule::matches and what it calls.                               *)

\* FieldMatch is an item of the selection.  An unknown modifier stays part of the
\* name of the field, and no event has such a field.
EvalFieldMatch(fm, event) ==
    /\ fm.field \in DOMAIN event
    /\ LET v == event[fm.field]
       IN IF fm.modifier = "equals"
          THEN v.kind \in Scalar /\ v.text = fm.value.text
          ELSE /\ v.kind = "string"
               /\ \/ /\ fm.modifier = "contains"
                     /\ Within(Lowercase(fm.value.text), Lowercase(v.text))
                  \/ fm.modifier = "startswith" /\ IsPrefix(fm.value.text, v.text)
                  \/ fm.modifier = "endswith" /\ IsSuffix(fm.value.text, v.text)

\* The set of events a selection (a set of field matches) holds for.
EvalSelection(sel) == {e \in Event : \A fm \in sel : EvalFieldMatch(fm, e)}

\* The event is searched as JSON text: here, in each of its values.
EvalKeywords(keywords) ==
    {e \in Event : \E kw \in keywords, f \in DOMAIN e :
                        Within(Lowercase(kw), Lowercase(e[f].text))}

\* Each of service, product and category that is given is part of the source type.
LogsourceMatches(ls, event) ==
    \A part \in ls : Within(part, IF SourceType \in DOMAIN event
                                      /\ event[SourceType].kind = "string"
                                   THEN event[SourceType].text ELSE << >>)

\* glob_match: the name loses the first part at its start, then each middle part
\* at its first occurrence; the last part must end what is left.
GlobMatch(parts, name) ==
    LET n == Len(parts)
        First(s, rest) ==
            CHOOSE i \in 0..Len(rest) :
                /\ SubSeq(rest, i + 1, i + Len(s)) = s
                /\ \A k \in 0..(i - 1) : SubSeq(rest, k + 1, k + Len(s)) # s
        Left[i \in 0..n] ==     \* the possible remaining texts: one, or none
            IF i = 0 THEN {name}
            ELSE {CASE parts[i] = << >> -> rest
                    [] parts[i] # << >> /\ i = n -> rest
                    [] OTHER -> SubSeq(rest, First(parts[i], rest) + Len(parts[i]) + 1, Len(rest)) :
                  rest \in {r \in Left[i - 1] :
                            IF i = 1 THEN IsPrefix(parts[1], r)
                            ELSE IF i = n THEN IsSuffix(parts[n], r)
                            ELSE Within(parts[i], r)}}
    IN IF n = 1 THEN parts[1] = name ELSE Left[n] # {}

\* The patterns that end in a star.  Only these are globs to parse_condition: any
\* other "1 of p" is taken for the name of a selection, which no selection has.
StarEnded == {p \in DOMAIN Patterns : Last(Patterns[p]) = << >>}

\* What the names in a condition stand for.
Named(detection) ==
    LET sels == detection.selections
        AnyOf(names) == UNION {EvalSelection(sels[s]) : s \in names}
    IN [n \in DOMAIN sels |-> EvalSelection(sels[n])]
       @@ [p \in StarEnded |->
               AnyOf({s \in DOMAIN sels : GlobMatch(Patterns[p], SelName[s])})]
       @@ ("1 of them" :> AnyOf(DOMAIN sels))
       @@ ("keywords" :> EvalKeywords(detection.keywords))

-------------------------------------------------------------------------------
(* parse_condition.  It has no grammar: it splits the text at the first `or`
   outside parentheses, else at the first `and`, else takes a leading `not`
   off, else the parentheses at both ends, else takes what is left for the name
   of a selection.  Before all that, a text that starts with "1 of " and ends
   with a star is one pattern, whatever is between.                         *)

\* find_outer_operator, among the tokens i..j.  An operator has a space, and so
\* a token, on both sides.
AnyOperators(t, op, i, j) == {k \in (i + 1)..(j - 1) : t[k] = op}   \* mutant

OuterOperators(t, op, i, j) ==
    LET Count(paren, k) == Cardinality({x \in i..k : t[x] = paren})
    IN {k \in (i + 1)..(j - 1) : t[k] = op /\ Count("(", k) = Count(")", k)}

ParseSigma(t, names) ==
    LET First(S) == CHOOSE k \in S : \A l \in S : k <= l
        OneOf == {"1 of them"} \cup DOMAIN Patterns
        P[i \in 1..(Len(t) + 1), j \in 0..Len(t)] ==
            LET ors == OuterOperators(t, "or", i, j)
                ands == OuterOperators(t, "and", i, j)
            IN IF i > j THEN {}
               ELSE IF i < j /\ t[i] \in OneOf /\ t[j] \in StarEnded THEN {{}}
               ELSE IF ors # {}
               THEN LET k == First(ors) IN Either(P[i, k - 1], P[k + 1, j])
               ELSE IF ands # {}
               THEN LET k == First(ands) IN Both(P[i, k - 1], P[k + 1, j])
               ELSE IF i < j /\ t[i] = "not" THEN Neither(P[i + 1, j], Event)
               ELSE IF i < j /\ t[i] = "(" /\ t[j] = ")" THEN P[i + 1, j - 1]
               ELSE IF i = j /\ t[i] \in DOMAIN names THEN {names[t[i]]}
               ELSE {{}}
    IN P[1, Len(t)]

-------------------------------------------------------------------------------
(* Loading.                                                                 *)

\* parse_selection: an item whose value is a list, a map or null is passed over.
ParseSelection(items) ==
    {items[i] : i \in {i \in DOMAIN items : items[i].value.kind \in Scalar}}

\* parse_rule, parse_logsource and parse_detection: the rule in a set, or none.
\* kind is "bad" for a section of the wrong YAML type.
ParseRule(raw) ==
    LET detection ==
            [selections |-> [s \in DOMAIN raw.selections |-> ParseSelection(raw.selections[s])],
             keywords   |-> raw.keywords]
    IN IF raw.id = "" \/ raw.title = "" \/ raw.kind = "bad" THEN {}
       ELSE {[id |-> raw.id, status |-> raw.status, logsource |-> raw.logsource,
              condition |-> c] : c \in ParseSigma(raw.condition, Named(detection))}

\* load_rules.  A file that cannot be read ends the program; one that is not a
\* rule, or is deprecated, is passed over.
LoadRules(files) ==
    IF \E f \in files : f.ext \in {"yml", "yaml"} /\ ~f.readable THEN {}
    ELSE {{rule \in UNION {ParseRule(f.raw) : f \in {f \in files : f.ext \in {"yml", "yaml"}}} :
                rule.status # "deprecated"}}

Matches(rule, event) == LogsourceMatches(rule.logsource, event) /\ event \in rule.condition
===============================================================================
