--------------------------------- MODULE Lines ---------------------------------
(***************************************************************************)
(* A text file as a sequence of units, cut into lines the way the readers  *)
(* of headless-siem do with str::lines.  What is taken in order out of a   *)
(* text or a list is taken by rank, so that it needs no sorted copy.       *)
(***************************************************************************)
EXTENDS Integers, Sequences, FiniteSets

Newline == 0

\* How many numbers of S are not above e.
Rank(S, e) == Cardinality({x \in S : x <= e})

\* The numbers of a finite set, smallest first.
Ascending(S) == [k \in 1..Cardinality(S) |-> CHOOSE e \in S : Rank(S, e) = k]

\* The elements of s at some of its positions, in order.
Pick(s, at) == [k \in DOMAIN Ascending(at) |-> s[Ascending(at)[k]]]

Newlines(s) == {i \in DOMAIN s : s[i] = Newline}

\* What lies before, between and up to the given ends, the ends excluded.
Cut(s, ends) ==
    LET e == Ascending(ends)
    IN  [k \in DOMAIN e |-> SubSeq(s, (IF k = 1 THEN 0 ELSE e[k - 1]) + 1, e[k] - 1)]
===============================================================================
