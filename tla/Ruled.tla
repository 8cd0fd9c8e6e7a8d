-------------------------------- MODULE Ruled ---------------------------------
(***************************************************************************)
(* What `ruled` makes of every condition its user can write: a text grows  *)
(* token by token, and each is tried as the condition of a rule and as the *)
(* condition of a suppression.                                             *)
(***************************************************************************)
EXTENDS Suppression

CONSTANTS
    Detection,   \* the selections and keywords of the rule
    Logsource,   \* the parts of its logsource
    FreeLength,  \* bound: up to this length the text is any sequence of tokens
    MaxLength,   \* bound
    LateNames    \* bound: the names a longer text may go on with

VARIABLES text, language

SigmaNames == DOMAIN Detection.selections \cup DOMAIN Patterns \cup {"1 of them", "keywords"}

Vocabulary(l) == Symbols \cup (IF l = "sigma" THEN SigmaNames ELSE DOMAIN Comparison)

Init == text = << >> /\ language \in {"sigma", "suppress"}

\* After an operand comes an operator or ")"; after an operator an operand; and
\* there is room to close what is open.
Fits(tok) ==
    LET operand == text # << >> /\ Last(text) \notin Symbols \ {")"}
        opened == Cardinality({i \in DOMAIN text : text[i] = "("})
                    - Cardinality({i \in DOMAIN text : text[i] = ")"})
    IN /\ operand <=> tok \in {"and", "or", ")"}
       /\ tok = ")" => opened > 0
       /\ tok = "(" => opened + 3 <= MaxLength - Len(text)
       /\ tok \in Symbols \cup LateNames

Write(tok) ==
    /\ Len(text) < MaxLength
    /\ Len(text) < FreeLength \/ Fits(tok)
    /\ text' = Append(text, tok)
    /\ UNCHANGED language

Next == \E tok \in Vocabulary(language) : Write(tok)

vars == <<text, language>>
Spec == Init /\ [][Next]_vars

-------------------------------------------------------------------------------
(* Properties.                                                              *)

TheRule == [ext |-> "yml", readable |-> TRUE,
            raw |-> [id |-> "r", title |-> "t", kind |-> "ok", status |-> "stable",
                     logsource |-> Logsource, condition |-> text,
                     selections |-> Detection.selections, keywords |-> Detection.keywords]]
\* Beside it: a rule no longer in use, a file that is no rule, and suppress.toml.
Neighbours == {[TheRule EXCEPT !.raw.id = "d", !.raw.status = "deprecated"],
               [TheRule EXCEPT !.raw.id = ""],
               [TheRule EXCEPT !.raw.id = "s", !.ext = "toml", !.readable = FALSE]}

TheSuppression == [rule_id |-> "r", condition |-> text]

\* Glob by its definition: the parts occur in the text in order, the first at its
\* start and the last at its end.
Globs(parts, s) ==
    IF Len(parts) = 1 THEN parts[1] = s
    ELSE \E at \in [DOMAIN parts -> 0..Len(s)] :
            /\ at[1] = 0 /\ at[Len(parts)] = Len(s) - Len(Last(parts))
            /\ \A i \in DOMAIN parts :
                    /\ SubSeq(s, at[i] + 1, at[i] + Len(parts[i])) = parts[i]
                    /\ i < Len(parts) => at[i] + Len(parts[i]) <= at[i + 1]

\* The names by the guide, save that a "1 of p" with a p that does not end in a star
\* matches nothing.
DocumentedNames ==
    LET sels == Detection.selections
        Of(names) == UNION {EvalSelection(ParseSelection(sels[s])) : s \in names}
    IN [n \in DOMAIN sels |-> Of({n})]
       @@ [p \in DOMAIN Patterns |->
               Of({s \in DOMAIN sels : p \in StarEnded /\ Globs(Patterns[p], SelName[s])})]
       @@ ("1 of them" :> Of(DOMAIN sels))
       @@ ("keywords" :> EvalKeywords(Detection.keywords))

\* Every Sigma condition loads, whatever lies beside its file, and means what the guide's
\* grammar says: `or` binds looser than `and`, `and` looser than `not`, parentheses group,
\* "1 of p" is any selection the glob matches.  In two respects it is what the code does
\* and not what the guide says: "1 of p" with a p that does not end in a star matches
\* nothing, where the guide takes any glob (docs/user-guide.md:298), and conditions with
\* two "1 of" are left out, as the parser may take them for one pattern.
\* (rules.rs parse_condition, find_outer_operator, glob_match, eval_condition.)
SigmaMeansWhatItSays ==
    language = "sigma" /\ Meaning(text, DocumentedNames, Event) # {}
        /\ Cardinality({i \in DOMAIN text : text[i] \in {"1 of them"} \cup DOMAIN Patterns}) <= 1
    => {{e \in Event : Raised(rules, {}, e) # {}} : rules \in LoadRules({TheRule} \cup Neighbours)}
       = {{e \in m : LogsourceMatches(Logsource, e)} : m \in Meaning(text, DocumentedNames, Event)}

\* The addresses a network holds, by arithmetic: the aligned block it lies in.
InBlock(cidr, octets) ==
    LET block == 2^(Width - cidr.len)
    IN \E net \in Ipv4(cidr.net), ip \in Ipv4(octets) : ip \div block = net \div block

DocumentedComparisons ==
    [n \in DOMAIN Comparison |->
        LET c == Comparison[n]
        IN {e \in Event :
                /\ c.field \in DOMAIN e /\ e[c.field].kind \in Scalar
                /\ CASE c.op = "==" -> e[c.field].text = c.value
                     [] c.op = "!=" -> e[c.field].text # c.value
                     [] c.op = "cidr" -> InBlock(c.value, DottedParts[e[c.field].text])}]

\* A suppression drops exactly the alerts its condition, read by the grammar of Conditions,
\* holds for: one that is not a sentence of the grammar drops nothing, a comparison with a
\* field the event lacks is false, a network is the aligned block of its prefix length,
\* /0 included.  That grammar is not quite the one at the head of suppress.rs, whose
\* not_expr is [ "NOT" ] primary: parse_not calls itself, and here too a NOT may repeat.
\* (suppress.rs parse_or .. parse_primary, Expr::eval, cidr_contains; main.rs loop.)
SuppressionDropsWhatItSays ==
    language = "suppress" =>
        LET rule == [id |-> "r", logsource |-> {}, condition |-> Event]
            dropped == {e \in Event :
                           "r" \notin Raised({rule}, LoadSuppressions({TheSuppression}), e)}
        IN dropped = UNION Meaning(text, DocumentedComparisons, Event)
===============================================================================
