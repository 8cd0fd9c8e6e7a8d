------------------------------- MODULE MCRuled --------------------------------
(***************************************************************************)
(* Eleven events that lie in every region of three overlapping selections, *)
(* a field of each JSON kind among them, and addresses of four bits.       *)
(***************************************************************************)
EXTENDS Ruled

Str(t)  == [kind |-> "string", text |-> t]
Num(t)  == [kind |-> "number", text |-> t]
Bool(t) == [kind |-> "bool", text |-> t]
Null    == [kind |-> "null", text |-> <<"n">>]

SrcIp(bits) == "src" :> Str(bits)
E(type, user, ip) == [type |-> Str(type), user |-> Str(user)] @@ SrcIp(ip)
Sourced(e) == ("_source_type" :> Str(<<"x", "s", "h">>)) @@ e

MCEvents == {Sourced(e) : e \in {
    E(<<"x", "b">>, <<"b", "y">>, <<"0", "0", "0", "0">>),
    E(<<"x", "B">>, <<"b", "c">>, <<"0", "1", "0", "0">>),
    E(<<"x">>,      <<"b", "c">>, <<"0", "1", "1", "0">>),
    E(<<"x">>,      <<"b">>,      <<"1", "1", "1", "1">>),
    E(<<"B", "x">>, <<"y", "c">>, <<"1", "0", "0", "1">>),
    E(<<"b">>,      <<"y">>,      <<"0", "1", "1", "1">>),
    E(<<"y">>,      <<"y", "c">>, <<"0", "1">>),
    E(<<"y">>,      <<"y">>,      <<"2", "0", "0", "0">>),
    [type |-> Bool(<<"b">>), user |-> Num(<<"1">>)],
    [type |-> Null]}}
    \cup {E(<<"b">>, <<"b">>, <<"0", "0", "0", "1">>)}

MCLower == [ch \in {"B"} |-> "b"]
           @@ [ch \in {"b", "c", "x", "y", "n", "s", "h", "0", "1", "2"} |-> ch]

MCPatterns == ("1 of a*" :> << <<"a">>, << >> >>) @@ ("1 of a*a" :> << <<"a">>, <<"a">> >>)
              @@ ("1 of *" :> << << >>, << >> >>)
MCSelNames == ("aa" :> <<"a", "a">>) @@ ("a" :> <<"a">>) @@ ("b" :> <<"b">>)

Item(f, m, v) == [field |-> f, modifier |-> m, value |-> v]
List == [kind |-> "list", text |-> << >>]

MCDetection ==
    [selections |-> ("aa" :> <<Item("type", "contains", Str(<<"B">>))>>)
                    @@ ("a" :> <<Item("user", "startswith", Str(<<"b">>)),
                                 Item("type", "equals", List)>>)
                    @@ ("b" :> <<Item("user", "endswith", Str(<<"c">>))>>),
     keywords |-> {<<"B", "x">>, <<"1">>}]
MCLateNames == {"aa", "a", "b", "1 of a*", "user==bc", "user!=1", "src/1"}
MCLogsource == {<<"s">>, <<"h">>}

Cmp(f, o, v) == [field |-> f, op |-> o, value |-> v]
Cidr(bits, n) == Cmp("src", "cidr", [net |-> bits, len |-> n])
MCComparisons ==
    ("user==bc" :> Cmp("user", "==", <<"b", "c">>))
    @@ ("user!=1" :> Cmp("user", "!=", <<"1">>))
    @@ ("src/0" :> Cidr(<<1, 0, 1, 0>>, 0)) @@ ("src/1" :> Cidr(<<0, 1, 1, 0>>, 1))
    @@ ("src/3" :> Cidr(<<0, 1, 1, 1>>, 3)) @@ ("src/4" :> Cidr(<<0, 1, 1, 0>>, 4))

Digit == [d \in {"0", "1", "2"} |-> CASE d = "0" -> 0 [] d = "1" -> 1 [] d = "2" -> 2]
MCDottedParts ==
    [t \in UNION {{e[f].text : f \in DOMAIN e} : e \in MCEvents} |->
        IF \A i \in DOMAIN t : t[i] \in DOMAIN Digit
        THEN [i \in DOMAIN t |-> Digit[t[i]]] ELSE << >>]
===============================================================================
