------------------------------ MODULE MCReports -------------------------------
(***************************************************************************)
(* Hours of four seconds, counted in half seconds; a window is an hour.    *)
(***************************************************************************)
EXTENDS Reports

W(word) == <<word>>
Blk == [_source_type |-> W("filterlog"), event_type |-> << >>, src_ip |-> <<"A", "x">>,
        action |-> W("BLOCK"), protocol |-> W("x")]
Out == [_source_type |-> W("filterlog"), event_type |-> << >>, direction |-> W("out"),
        dst_ip |-> <<"x">>, dst_port |-> <<"a">>]
Auth == [_source_type |-> W("sshd"), event_type |-> W("ssh_auth_failure"),
         src_ip |-> <<"x", "a">>, username |-> <<"E'", "a">>]
Unit(u) == [_source_type |-> W("systemd"), event_type |-> W("unit_started"), unit |-> W(u)]

MCKinds == {Blk, Out, Auth, Unit("a"), Unit("b"), Unit("x")}

\* E' and e' are a letter beyond ASCII, in its two cases.
Alphabet == <<"A", "BLOCK", "E'", "a", "b", "e'", "filterlog", "out", "r", "s", "ssh_auth_failure", "sshd",
              "systemd", "unit_started", "unknown", "x">>
MCRank == [ch \in ToSet(Alphabet) |-> CHOOSE n \in DOMAIN Alphabet : Alphabet[n] = ch]
MCAsciiLower == [ch \in {"A"} |-> "a"] @@ [ch \in ToSet(Alphabet) \cup {"%", "_"} |-> ch]
MCLower == ("E'" :> "e'") @@ MCAsciiLower

L(field, mode, value) == [field |-> field, mode |-> mode, value |-> value]
MCLeaf ==
    ("src_ip~a*" :> L("src_ip", "startswith", <<"a">>))
    @@ ("src_ip~*a" :> L("src_ip", "endswith", <<"A">>))
    @@ ("src_ip~x" :> L("src_ip", "contains", <<"x">>))
    @@ ("src_ip~_x*" :> L("src_ip", "startswith", <<"_", "x">>))
    @@ ("username~e'*" :> L("username", "startswith", <<"e'">>))
    @@ ("username~*A" :> L("username", "endswith", <<"A">>))
    @@ ("raw~sshd" :> L("", "raw", W("sshd")))
    @@ ("type!=sshd" :> L("_source_type", "not exact", W("sshd")))
    @@ ("type=filterlog" :> L("_source_type", "exact", W("filterlog")))
    @@ ("event_type" :> L("event_type", "any", << >>))

MCClause == ("by src" :> [kind |-> "group", fields |-> <<"_source_type">>])
            @@ ("by src, type" :> [kind |-> "group", fields |-> <<"_source_type", "event_type">>])
            @@ ("limit 1" :> [kind |-> "limit", n |-> 1])
            @@ ("limit 2" :> [kind |-> "limit", n |-> 2])

Q(head, predicate, tail, group, limit) ==
    [text |-> head \o predicate \o tail, predicate |-> predicate, group |-> group,
     limit |-> limit]
MCQueries == {
    Q(<< >>, <<"type!=sshd", "or", "src_ip~x", "and", "not", "event_type">>, << >>, << >>, {}),
    Q(<<"select", "where">>, <<"not", "(", "src_ip~a*", "or", "type=filterlog", ")">>,
      <<"limit 2">>, << >>, {2}),
    Q(<<"where">>, <<"src_ip~*a", "or", "not", "src_ip~a*">>,
      <<"by src", "limit 1">>, <<"_source_type">>, {1}),
    Q(<< >>, <<"raw~sshd", "or", "type!=sshd">>, <<"by src, type">>,
      <<"_source_type", "event_type">>, {}),
    Q(<< >>, <<"username~*A", "and", "not", "username~e'*">>, << >>, << >>, {}),
    Q(<< >>, <<"src_ip~_x*">>, << >>, << >>, {}),
    Q(<< >>, <<"event_type", "or">>, <<"limit 1">>, << >>, {1})}

Cal(y, m, d) == Bucket(y, m, d, 23)
MCEpochs == {Cal(2023, 12, 31), Cal(2024, 2, 28), Cal(2100, 2, 28),
             Cal(2000, 2, 28), Cal(2024, 4, 30)}
MCSpans == {<<0, 2>>, <<1, 1>>}
MCSizes == {<<3, 0>>, <<1, 2>>}

MCWindows == {[start |-> 8, end |-> 16], [start |-> 12, end |-> 20]}

MCConfig == [lookback |-> 16, unparsed_min_events |-> 0, spike_threshold_pct |-> 50,
             volume_min_count |-> 2, new_source_always_flag |-> TRUE,
             new_destination_always_flag |-> TRUE, wan_interface |-> "re1",
             top_blocked_limit |-> 1, concentration_threshold_pct |-> 80,
             boot_storm_gap_seconds |-> 1, boot_storm_min_units |-> 2]
===============================================================================
