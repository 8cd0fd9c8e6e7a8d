-------------------------------- MODULE Texts ---------------------------------
(***************************************************************************)
(* Texts, and the scanning that the parsers of `normalized` share.  A text *)
(* is a sequence of tokens: a punctuation mark or blank is one, and so is  *)
(* a run of letters or digits nothing looks into.  A map from texts to     *)
(* texts stands for a HashMap<String, String>.                             *)
(***************************************************************************)
EXTENDS Integers, SequencesExt

TAB == "\t"
NL  == "\n"
Blank == {" ", TAB, NL}

From(s, i)   == SubSeq(s, i, Len(s))
Before(s, i) == SubSeq(s, 1, i - 1)

\* The first position of a token of the set; 0 if there is none.
Find(s, toks) == SelectInSeq(s, LAMBDA c : c \in toks)
FindOrEnd(s, toks) == IF Find(s, toks) = 0 THEN Len(s) + 1 ELSE Find(s, toks)
\* From the first token of the set on.
FromFirst(s, toks) == IF Find(s, toks) = 0 THEN << >> ELSE From(s, Find(s, toks))
\* The first position a text occurs at; 0 if there is none.
FindText(s, t) == SelectInSeq([i \in 1..(Len(s) - Len(t) + 1) |-> SubSeq(s, i, i + Len(t) - 1)],
                              LAMBDA part : part = t)

TrimOf(s, toks) ==
    LET kept == {i \in DOMAIN s : s[i] \notin toks}
    IN IF kept = {} THEN << >> ELSE SubSeq(s, Min(kept), Max(kept))
Trim(s)     == TrimOf(s, Blank)
TrimLeft(s) == LET kept == {i \in DOMAIN s : s[i] \notin Blank}
               IN IF kept = {} THEN << >> ELSE From(s, Min(kept))

RECURSIVE SplitOn(_, _)
SplitOn(s, d) ==
    LET Cut(i) == IF i = 0 THEN <<s>> ELSE <<Before(s, i)>> \o SplitOn(From(s, i + 1), d)
    IN Cut(Find(s, {d}))

\* The first of two sets of outcomes that is not empty, as in a chain of parsers.
a ?? b == IF a # {} THEN a ELSE b
When(c, s) == IF c THEN s ELSE {}

Without(map, keys) == [k \in DOMAIN map \ keys |-> map[k]]

-------------------------------------------------------------------------------
(* Escapes: what a backslash and the token after it stand for.  Of a pair   *)
(* that is no escape both are kept.                                         *)

Keep(toks) == [c \in toks |-> <<c>>]
LogfmtEscape == Keep({"\"", "\\"}) @@ ("n" :> <<NL>>)
JsonEscape   == Keep({"\"", "\\", "/"}) @@ ("n" :> <<NL>>) @@ ("t" :> <<TAB>>)
CefEscape    == Keep({"\\", "="}) @@ ("n" :> <<NL>>)
HeaderEscape == Keep({"\\", "|"})

\* A text read up to the first unescaped token of `stop`: its value, the text after
\* it, and whether the token was there.  A backslash that ends an unclosed quoted
\* value is lost.
RECURSIVE Scan(_, _, _)
Scan(s, stop, escape) ==
    IF s = << >> THEN [value |-> << >>, tail |-> << >>, closed |-> FALSE]
    ELSE IF s[1] \in stop THEN [value |-> << >>, tail |-> Tail(s), closed |-> TRUE]
    ELSE LET escaped == s[1] = "\\" /\ Len(s) > 1
             out == IF escaped THEN IF s[2] \in DOMAIN escape THEN escape[s[2]] ELSE <<s[1], s[2]>>
                    ELSE IF s[1] = "\\" /\ stop = {"\""} THEN << >>
                    ELSE <<s[1]>>
             rest == Scan(From(s, IF escaped THEN 3 ELSE 2), stop, escape)
         IN [rest EXCEPT !.value = out \o @]
Quoted(s, escape) == Scan(s, {"\""}, escape)
===============================================================================
