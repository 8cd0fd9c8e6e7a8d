----------------------------- MODULE Suppression ------------------------------
(***************************************************************************)
(* The suppressions of `ruled` (ruled/src/suppress.rs), and the part of    *)
(* its main loop that decides which alerts an event raises.  A comparison  *)
(* `field == value`, `field != value` or `cidr_match(field, net/len)` is   *)
(* one token of a condition.                                               *)
(***************************************************************************)
EXTENDS SigmaRules

CONSTANTS
    Comparison,   \* token -> [field, op, value], value a text or [net, len]
    DottedParts,  \* a text -> the numbers between its dots, << >> if one is no number
    OctetBits,    \* 8
    OctetCount    \* 4

ASSUME SuppressionAssumption ==
    /\ OctetBits \in Nat \ {0} /\ OctetCount \in Nat \ {0}
    /\ Symbols \cap DOMAIN Comparison = {}

Width == OctetBits * OctetCount

\* field_as_string: in a set, empty for an absent field, null, a list or a map.
FieldAsString(event, field) ==
    {event[f].text : f \in {f \in {field} \cap DOMAIN event : event[f].kind \in Scalar}}

\* ipv4_to_u32.
Ipv4(octets) ==
    IF Len(octets) = OctetCount /\ \A i \in DOMAIN octets : octets[i] < 2^OctetBits
    THEN {FoldLeft(LAMBDA a, o : a * 2^OctetBits + o, 0, octets)}
    ELSE {}

\* !0u32 << n, and the bitwise and of a number with it: the shift of an optimised
\* build takes n modulo the width.
Masked(x, n) == x - (x % 2^(n % Width))

\* Mutant: no case of its own for a prefix of length 0.
CidrByMask(cidr, octets) ==
    /\ cidr.len <= Width
    /\ \E net \in Ipv4(cidr.net), ip \in Ipv4(octets) :
           Masked(ip, Width - cidr.len) = Masked(net, Width - cidr.len)

\* cidr_contains, its errors false.
CidrContains(cidr, octets) ==
    /\ cidr.len <= Width
    /\ \E net \in Ipv4(cidr.net), ip \in Ipv4(octets) :
           \/ cidr.len = 0
           \/ Masked(ip, Width - cidr.len) = Masked(net, Width - cidr.len)

\* Expr::eval of one comparison.
Satisfies(event, c) ==
    \E actual \in FieldAsString(event, c.field) :
        \/ c.op = "==" /\ actual = c.value
        \/ c.op = "!=" /\ actual # c.value
        \/ c.op = "cidr" /\ CidrContains(c.value, DottedParts[actual])

Comparisons == [c \in DOMAIN Comparison |-> {e \in Event : Satisfies(e, Comparison[c])}]

\* load: a suppression whose condition does not parse is passed over, one that
\* has expired is kept.
LoadSuppressions(entries) ==
    UNION {{[rule_id |-> s.rule_id, condition |-> c] :
                c \in Descent(s.condition, Comparisons, Event)} : s \in entries}

IsSuppressed(set, id, event) ==
    \E s \in set : s.rule_id = id /\ event \in s.condition

\* The rules whose alerts an event reaches the router with.
Raised(rules, set, event) ==
    {r.id : r \in {r \in rules : Matches(r, event) /\ ~IsSuppressed(set, r.id, event)}}
===============================================================================
