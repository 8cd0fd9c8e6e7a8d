----------------------------- MODULE MCNormalize ------------------------------
(***************************************************************************)
(* Two pairs of a key and a value, of up to two tokens that every format   *)
(* has to escape or to keep, and a setup for every step of the precedence. *)
(***************************************************************************)
EXTENDS Normalize

MCLetters == {"a", "b", "src", "src_ip", "msg", "x", "n", "h", "p", "q", "v", "ev", "name", "app", "sshd", "cron",
              "sd-pam", "fw", "cli", "plain", "csv", "filterlog", "re1", "tcp", "udp", "block", "pass", "in", "unknown", "CEF", "LEEF", "host", "true", "_raw", "_", "."}
MCNumber == ("0" :> 0) @@ ("1" :> 1) @@ ("4" :> 4) @@ ("6" :> 6) @@ ("7" :> 7) @@ ("9" :> 9)
MCAddr == <<"10", ".", "0", ".", "7">>
MCNow  == <<"now">>
MCIsoTime == {"iso"}
MCInstant == (<<"iso">> :> 5) @@ (<<"Jan", " ", "1">> :> 3)
MCMonth == {"Jan"}

MCStyles ==
    {[format |-> f, transport |-> t] :
        f \in {"logfmt", "json", "cef", "leef", "csv", "yaml", "xml", "plain"}, t \in {"bare", "envelope"}}
    \cup {[format |-> f, transport |-> t] :
        f \in {"json", "cef", "leef", "plain"}, t \in {"rfc3164", "rfc5424"}}
    \cup {[format |-> "leef2", transport |-> "bare"], [format |-> "json", transport |-> "framed"]}
    \cup {[format |-> f, transport |-> "rfc5424"] : f \in {"sd", "filterlog", "filterlog6"}}

MCKeyPairs == { << <<"a">>, <<"msg">> >>, << <<"src">>, <<"src_ip">> >> }
MCMarks == {"n", " ", "=", "\"", "\\", NL, ",", "]", ":"}

Value(t) == [text |-> t, map |-> << >>]
Set(k, t) == [key |-> k, value |-> Value(t)]
Table(k, f) == [key |-> k, value |-> [text |-> << >>, map |-> f]]
Override(settings) == [section |-> "overrides.rule", settings |-> settings]
Extract(settings)  == [section |-> "extract.rule", settings |-> settings]
Listen == [section |-> "listen", settings |-> <<Set("bind", <<"0">>)>>]

MCDefault == [files |-> << >>, extra |-> << >>, cli |-> {}, since |-> {}, drop_undated |-> FALSE, tag |-> <<"app">>, sidecar |-> << >>]

\* The rule the shipped normalized.toml has for the firewall.
MCFirewall == [MCDefault EXCEPT !.tag = <<"filterlog">>,
                    !.extra = <<Override(<<Set("contains", <<" ", "filterlog", " ">>), Set("reparse", <<"true">>),
                                           Set("reparse_as", <<"filterlog">>)>>)>>]

FromFw   == Override(<<Set("source_ip", <<"10", ".">>), Set("source", <<"fw">>)>>)
FromElse == Override(<<Set("source_ip", <<"11">>), Set("source", <<"h">>)>>)
WithX    == Override(<<Set("contains", <<"n", "=">>), Set("source", <<"x", "/", "n">>),
                       Table("remap", <<"a">> :> <<"b">>)>>)
ForSshd  == Extract(<<Set("source", <<"sshd">>),
                      [key |-> "pattern", value |-> Value([after |-> <<"n">>, name |-> <<"a">>])],
                      Table("set", (<<"event">> :> <<"auth">>) @@ (<<"severity">> :> <<"high">>)),
                      Set("force_severity", <<"true">>)>>)
File(rules) == [toml |-> TRUE, rules |-> rules]
Spare(rules) == [toml |-> FALSE, rules |-> rules]

FullSidecar == << <<"_source_type", <<"sshd">>>>, <<"_host", <<"h", ".", "x">>>>,
                  <<"_severity", <<"err">>>>, <<"_timestamp", <<"iso">>>> >>

MCSetups ==
    {MCDefault, MCFirewall,
     [MCDefault EXCEPT !.cli = {<<"cli">>}, !.since = {4}, !.drop_undated = TRUE, !.extra = <<FromFw>>, !.sidecar = FullSidecar],
     [MCDefault EXCEPT !.files = <<Spare(<<FromFw>>), File(<<FromElse, WithX>>), File(<<Listen>>)>>,
                       !.extra = <<FromFw>>, !.sidecar = FullSidecar],
     [MCDefault EXCEPT !.files = <<File(<<ForSshd>>)>>, !.sidecar = FullSidecar, !.tag = <<"sshd-session">>],
     [MCDefault EXCEPT !.since = {4}, !.sidecar = << <<"_source", <<".", ".">>>> >>, !.tag = <<"-">>],
     [MCDefault EXCEPT !.sidecar = << <<"_host", <<"h">>>> >>, !.tag = <<"(", "sd-pam", ")">>]}

\* Prose in which a token is a letter of two bytes.
MCProse == {[format |-> "plain", transport |-> "bare"]}
MCProseMarks == {"n", " ", "umlaut"}
MCWide == {"umlaut"}
===============================================================================
