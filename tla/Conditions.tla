------------------------------ MODULE Conditions ------------------------------
(***************************************************************************)
(* Boolean conditions as the documentation gives them, for the three       *)
(* languages of the repository: Sigma conditions and suppressions of       *)
(* `ruled`, queries of `siemctl`.  `or` binds looser than `and`, `and`     *)
(* looser than `not`, and parentheses group:                               *)
(*                                                                         *)
(*     or  ::= and | or "or" and          not  ::= atom | "not" not        *)
(*     and ::= not | and "and" not        atom ::= name | "(" or ")"       *)
(*                                                                         *)
(* A text is a sequence of tokens.  Its meaning is the set of records for  *)
(* which it holds; the meaning of a text is a set with that one member, or *)
(* the empty set when the text is not a condition.                         *)
(***************************************************************************)
EXTENDS Integers, Sequences, FiniteSets

Symbols == {"(", ")", "and", "or", "not"}

Either(P, Q) == {a \cup b : a \in P, b \in Q}
Both(P, Q)   == {a \cap b : a \in P, b \in Q}
Neither(P, all) == {all \ a : a \in P}

\* The grammar, over the tokens from i to j; names is the meaning of the names.
Meaning(t, names, all) ==
    LET G[nt \in {"or", "and", "not", "atom"}, i \in 1..(Len(t) + 1), j \in 0..Len(t)] ==
            CASE nt = "or" ->
                    G["and", i, j] \cup
                    UNION {Either(G["or", i, k - 1], G["and", k + 1, j]) :
                                k \in {k \in i..j : t[k] = "or"}}
              [] nt = "and" ->
                    G["not", i, j] \cup
                    UNION {Both(G["and", i, k - 1], G["not", k + 1, j]) :
                                k \in {k \in i..j : t[k] = "and"}}
              [] nt = "not" ->
                    G["atom", i, j] \cup
                    (IF i < j /\ t[i] = "not" THEN Neither(G["not", i + 1, j], all) ELSE {})
              [] nt = "atom" ->
                    IF i = j THEN {names[t[i]] : n \in {t[i]} \cap DOMAIN names}
                    ELSE IF i < j /\ t[i] = "(" /\ t[j] = ")" THEN G["or", i + 1, j - 1]
                    ELSE {}
    IN G["or", 1, Len(t)]

\* A recursive-descent parser over the same grammar, as suppress.rs and query.rs
\* have it: what parse_or, parse_and, parse_not and parse_primary return from
\* position p on, a meaning and the next position.  The loops of the first two
\* are the steps "or..." and "and...", whose third argument is `left`.
Descent(t, names, all) ==
    LET At(p) == IF p <= Len(t) THEN t[p] ELSE "end"
        D[nt \in {"or", "or...", "and", "and...", "not", "primary"},
          p \in 1..(Len(t) + 2), left \in SUBSET SUBSET all] ==
            CASE nt = "or" ->
                    LET a == D["and", p, {}] IN D["or...", a.pos, a.val]
              [] nt = "or..." ->
                    IF left # {} /\ At(p) = "or"
                    THEN LET b == D["and", p + 1, {}]
                         IN D["or...", b.pos, Either(left, b.val)]
                    ELSE [val |-> left, pos |-> p]
              [] nt = "and" ->
                    LET a == D["not", p, {}] IN D["and...", a.pos, a.val]
              [] nt = "and..." ->
                    IF left # {} /\ At(p) = "and"
                    THEN LET b == D["not", p + 1, {}]
                         IN D["and...", b.pos, Both(left, b.val)]
                    ELSE [val |-> left, pos |-> p]
              [] nt = "not" ->
                    IF At(p) = "not"
                    THEN LET a == D["not", p + 1, {}]
                         IN [val |-> Neither(a.val, all), pos |-> a.pos]
                    ELSE D["primary", p, {}]
              [] nt = "primary" ->
                    IF At(p) = "("
                    THEN LET a == D["or", p + 1, {}]
                         IN IF At(a.pos) = ")" THEN [val |-> a.val, pos |-> a.pos + 1]
                            ELSE [val |-> {}, pos |-> a.pos]
                    ELSE IF At(p) \in DOMAIN names
                    THEN [val |-> {names[At(p)]}, pos |-> p + 1]
                    ELSE [val |-> {}, pos |-> p]
        r == D["or", 1, {}]
    IN IF r.pos = Len(t) + 1 THEN r.val ELSE {}
===============================================================================
