-------------------------------- MODULE AckLog --------------------------------
(***************************************************************************)
(* siemctl alerts, siemctl alerts ack and the part of siemctl retention    *)
(* that concerns them (siemctl/src/alerts.rs, main.rs).  An ack is a line  *)
(* of data/alerts/ack.jsonl: a watermark that hides the alerts of a rule   *)
(* up to a whole second.  Several analysts append to the file; retention   *)
(* removes alert files (one per hour) and the ack file by modification     *)
(* time, then reads the ack file, drops old lines and writes it back.      *)
(* All of them stamp and compare with the wall clock (SystemTime::now),    *)
(* which may be set back, and any of them may be killed between two steps. *)
(*                                                                         *)
(* The ack file is a sequence of units, the number of an ack for its text  *)
(* and Newline: a line reaches the file in two writes.  `gen` tells one    *)
(* ack file from the next, for those who still have a removed one open.    *)
(***************************************************************************)
EXTENDS Lines, SequencesExt

CONSTANTS
    Rule,          \* rule ids
    NoRule,        \* "rule" of a correlated alert, which has no rule_id
    Analyst,       \* processes that may run `alerts ack`
    HourLength,    \* seconds in an hour
    Days,          \* retention periods, in seconds
    MaxNow,        \* bound: seconds
    MaxTroubles,   \* bound: kills and set-backs of the clock, together
    MaxAlerts, MaxAcks, MaxRetention

ASSUME AckLogAssumption ==
    /\ NoRule \notin Rule
    /\ HourLength \in Nat \ {0}
    /\ Days \subseteq Nat
    /\ {MaxNow, MaxTroubles, MaxAlerts, MaxAcks, MaxRetention} \subseteq Nat

Hour(t) == t \div HourLength

VARIABLES
    now,
    epoch,     \* how often the clock has been set back
    alerts,    \* every alert fired: its rule, timestamp and epoch
    deleted,   \* alerts whose file retention has removed
    log,       \* the content of ack.jsonl, << >> when absent
    gen,       \* how many ack files there have been
    exists,    \* is there one
    touched,   \* its modification time
    acker,     \* each analyst's progress through ack()
    ret,       \* progress of retention
    runs, kills

\* History.
VARIABLES
    acks,      \* every ack given: rule, timestamp, epoch, alerts fired by then
    done,      \* acks whose command has returned
    disturbed, \* acks in flight at the same time as another or as retention
    killed,    \* acks whose command was killed
    glued,     \* acks whose text continues the line of a killed one
    swept,     \* acks removed with the whole file though younger than the cutoff
    cutoffs    \* of the retention runs so far

clock == <<now, epoch>>
file == <<log, gen, exists, touched>>
lost == <<disturbed, killed, glued, swept>>
vars == <<clock, alerts, deleted, file, acker, ret, runs, kills,
          acks, done, lost, cutoffs>>

NotAcking == [at |-> "idle", ack |-> 0, gen |-> 0]
NoRun == [at |-> "idle", cutoff |-> 0, hours |-> {}, log |-> FALSE, keep |-> << >>]

Init ==
    /\ now = 0 /\ epoch = 0 /\ alerts = << >> /\ deleted = {}
    /\ log = << >> /\ gen = 0 /\ exists = FALSE /\ touched = 0
    /\ acker = [p \in Analyst |-> NotAcking]
    /\ ret = NoRun /\ runs = 0 /\ kills = 0
    /\ acks = << >> /\ done = {} /\ disturbed = {} /\ cutoffs = {}
    /\ killed = {} /\ glued = {} /\ swept = {}

InFlight == {acker[p].ack : p \in Analyst} \ {0}

-------------------------------------------------------------------------------
(* Reading the file.                                                        *)

\* str::lines, the empty ones skipped; the last may lack its newline.
LogLines(s) ==
    LET cut == Cut(s, Newlines(s) \cup {Len(s) + 1})
    IN  Pick(cut, {k \in DOMAIN cut : cut[k] # << >>})

\* One text is JSON, two on one line are not.
Parses(line) == Len(line) = 1 /\ line[1] \in DOMAIN acks
Timestamp(line) == acks[line[1]].ts

\* load_ack_watermarks: the latest timestamp per rule.
Marks(r) == {Timestamp(line) : line \in
                {x \in ToSet(LogLines(log)) : Parses(x) /\ acks[x[1]].rule = r}}

\* Mutant: an alert a second after the ack is hidden too.
HiddenLate(i) == \E t \in Marks(alerts[i].rule) : alerts[i].ts <= t + 1

\* filter_acked: a correlated alert, or a rule never acked, is always kept.
Hidden(i) == \E t \in Marks(alerts[i].rule) : alerts[i].ts <= t

-------------------------------------------------------------------------------
(* ruled and the clock.                                                     *)

Fire(r) == /\ Len(alerts) < MaxAlerts
           /\ alerts' = Append(alerts, [rule |-> r, ts |-> now, epoch |-> epoch])
           /\ UNCHANGED <<clock, deleted, file, acker, ret, runs, kills, acks, done,
                          lost, cutoffs>>

Tick == /\ now < MaxNow /\ now' = now + 1
        /\ UNCHANGED <<epoch, alerts, deleted, file, acker, ret, runs, kills, acks, done,
                       lost, cutoffs>>

\* The clock is set back, by an operator or by NTP.
SetBack == /\ kills + epoch < MaxTroubles /\ epoch' = epoch + 1
           /\ \E t \in 0..(now - 1) : now' = t
           /\ UNCHANGED <<alerts, deleted, file, acker, ret, runs, kills, acks, done,
                          lost, cutoffs>>

-------------------------------------------------------------------------------
(* cmd_alerts_ack and ack.                                                  *)

\* What is in flight together is disturbed.
Meet(inFlight, retention) ==
    disturbed' = IF retention \/ Cardinality(inFlight) > 1
                 THEN disturbed \cup inFlight ELSE disturbed

\* The clock is read before the file is opened.
AckBegin(p, r) ==
    /\ acker[p].at = "idle" /\ Len(acks) < MaxAcks
    /\ acks' = Append(acks, [rule |-> r, ts |-> now, epoch |-> epoch,
                             upto |-> Len(alerts)])
    /\ acker' = [acker EXCEPT ![p] = [at |-> "open", ack |-> Len(acks) + 1, gen |-> 0]]
    /\ Meet(InFlight \cup {Len(acks) + 1}, ret.at # "idle")
    /\ UNCHANGED <<clock, alerts, deleted, file, ret, runs, kills, done, killed,
                   glued, swept, cutoffs>>

AckOpen(p) ==
    /\ acker[p].at = "open"
    /\ exists' = TRUE
    /\ gen' = IF exists THEN gen ELSE gen + 1
    /\ log' = IF exists THEN log ELSE << >>
    /\ touched' = IF exists THEN touched ELSE now
    /\ acker' = [acker EXCEPT ![p].at = "text", ![p].gen = gen']
    /\ UNCHANGED <<clock, alerts, deleted, ret, runs, kills, acks, done, lost, cutoffs>>

\* The two writes of writeln!; into nowhere when the file has been removed.
AckWrite(p) ==
    /\ acker[p].at \in {"text", "newline"}
    /\ IF exists /\ acker[p].gen = gen
       THEN /\ log' = Append(log, IF acker[p].at = "text" THEN acker[p].ack ELSE Newline)
            /\ touched' = now
            /\ glued' = IF log # << >> /\ Last(log) \in killed
                        THEN glued \cup {acker[p].ack} ELSE glued
       ELSE UNCHANGED <<log, touched, glued>>
    /\ IF acker[p].at = "text"
       THEN acker' = [acker EXCEPT ![p].at = "newline"] /\ UNCHANGED done
       ELSE /\ acker' = [acker EXCEPT ![p] = NotAcking]
            /\ done' = done \cup {acker[p].ack}
    /\ UNCHANGED <<clock, alerts, deleted, gen, exists, ret, runs, kills, acks,
                   disturbed, killed, swept, cutoffs>>

\* The command is killed; what it has written stays, a text without its newline too.
AckKill(p) ==
    /\ acker[p].at # "idle" /\ kills + epoch < MaxTroubles
    /\ kills' = kills + 1
    /\ killed' = killed \cup {acker[p].ack}
    /\ acker' = [acker EXCEPT ![p] = NotAcking]
    /\ UNCHANGED <<clock, alerts, deleted, file, ret, runs, acks, done, disturbed,
                   glued, swept, cutoffs>>

-------------------------------------------------------------------------------
(* cmd_retention: the files to remove, then compact_ack_log.                *)

\* The alert appended last to the file of an hour is its modification time.
InHour(h) == {i \in DOMAIN alerts \ deleted : Hour(alerts[i].ts) = h}
OldHours(cutoff) ==
    {h \in {Hour(alerts[i].ts) : i \in DOMAIN alerts \ deleted} :
        \A i \in InHour(h) : (\A j \in InHour(h) : j <= i) => alerts[i].ts < cutoff}

\* Lines to keep: young enough, or not understood.
Keeps(line, cutoff) == Parses(line) => Timestamp(line) >= cutoff
\* Mutant: a line must be younger than the hour after the cutoff to be kept.
SurvivorsShifted(cutoff) ==
    LET lines == LogLines(log)
    IN  Pick(lines, {k \in DOMAIN lines : Keeps(lines[k], cutoff + HourLength)})

Survivors(cutoff) ==
    LET lines == LogLines(log)
    IN  Pick(lines, {k \in DOMAIN lines : Keeps(lines[k], cutoff)})

\* The run ends here when nothing is old.
Collect(days) ==
    /\ ret.at = "idle" /\ runs < MaxRetention
    /\ runs' = runs + 1
    /\ LET cutoff == now - days
           old == OldHours(cutoff)
           logOld == exists /\ touched < cutoff
           stale == Survivors(cutoff) # LogLines(log)
       IN IF old = {} /\ ~logOld /\ ~stale
          THEN UNCHANGED <<ret, disturbed, cutoffs>>
          ELSE /\ ret' = [NoRun EXCEPT !.at = "delete", !.cutoff = cutoff,
                                       !.hours = old, !.log = logOld]
               /\ Meet(InFlight, TRUE)
               /\ cutoffs' = cutoffs \cup {cutoff}
    /\ UNCHANGED <<clock, alerts, deleted, file, acker, kills, acks, done, killed,
                   glued, swept>>

\* Alerts that were appended since the files were listed go with them.
Delete ==
    /\ ret.at = "delete"
    /\ deleted' = deleted \cup UNION {InHour(h) : h \in ret.hours}
    /\ IF ret.log /\ exists
       THEN /\ exists' = FALSE /\ log' = << >>
            /\ swept' = swept \cup {k \in ToSet(log) \cap DOMAIN acks :
                                        acks[k].ts >= ret.cutoff}
       ELSE UNCHANGED <<exists, log, swept>>
    /\ ret' = [ret EXCEPT !.at = "read"]
    /\ UNCHANGED <<clock, alerts, gen, touched, acker, runs, kills, acks, done,
                   disturbed, killed, glued, cutoffs>>

CompactRead ==
    /\ ret.at = "read"
    /\ LET keep == Survivors(ret.cutoff)
       IN ret' = IF ~exists \/ keep = LogLines(log) THEN NoRun
                 ELSE [ret EXCEPT !.at = IF keep = << >> THEN "remove" ELSE "truncate",
                                  !.keep = keep]
    /\ UNCHANGED <<clock, alerts, deleted, file, acker, runs, kills, acks, done,
                   lost, cutoffs>>

\* Nothing survives: remove_file.
CompactRemove ==
    /\ ret.at = "remove"
    /\ exists' = FALSE /\ log' = << >>
    /\ ret' = NoRun
    /\ UNCHANGED <<clock, alerts, deleted, gen, touched, acker, runs, kills, acks, done,
                   lost, cutoffs>>

\* fs::write truncates, then writes.
CompactTruncate ==
    /\ ret.at = "truncate"
    /\ log' = << >> /\ touched' = now
    /\ IF exists THEN UNCHANGED <<exists, gen>> ELSE exists' = TRUE /\ gen' = gen + 1
    /\ ret' = [ret EXCEPT !.at = "write"]
    /\ UNCHANGED <<clock, alerts, deleted, acker, runs, kills, acks, done, lost, cutoffs>>

\* At the position of the truncating descriptor: over what was appended since.
CompactWrite ==
    /\ ret.at = "write"
    /\ LET text == FlattenSeq([k \in DOMAIN ret.keep |-> Append(ret.keep[k], Newline)])
       IN log' = text \o SubSeq(log, Len(text) + 1, Len(log))
    /\ touched' = now
    /\ ret' = NoRun
    /\ UNCHANGED <<clock, alerts, deleted, gen, exists, acker, runs, kills, acks, done,
                   lost, cutoffs>>

\* Retention is interrupted; after the truncation every ack is gone.
Kill ==
    /\ ret.at # "idle" /\ kills + epoch < MaxTroubles
    /\ kills' = kills + 1
    /\ ret' = NoRun
    /\ disturbed' = IF ret.at = "write" THEN disturbed \cup DOMAIN acks ELSE disturbed
    /\ UNCHANGED <<clock, alerts, deleted, file, acker, runs, acks, done, killed,
                   glued, swept, cutoffs>>

-------------------------------------------------------------------------------
Next == \/ \E r \in Rule \cup {NoRule} : Fire(r)
        \/ Tick \/ SetBack
        \/ \E p \in Analyst : \/ \E r \in Rule : AckBegin(p, r)
                              \/ AckOpen(p) \/ AckWrite(p) \/ AckKill(p)
        \/ \E days \in Days : Collect(days)
        \/ Delete \/ CompactRead \/ CompactRemove \/ CompactTruncate \/ CompactWrite
        \/ Kill

Spec == Init /\ [][Next]_vars

-------------------------------------------------------------------------------
(* Properties.                                                              *)

\* The alerts of k's rule that fired before k, or in its second, or that fired after
\* the clock was set back below it.
Answers(k, i) ==
    \/ i <= acks[k].upto
    \/ acks[k].ts = alerts[i].ts
    \/ acks[k].epoch < alerts[i].epoch

\* An alert that fires after an ack is shown, as cmd_alerts_ack promises, unless it
\* fires within the very second of the ack, or the clock was set back in between and
\* has not come past the watermark again.
NewAlertsAreShown ==
    \A i \in DOMAIN alerts :
        Hidden(i) => \E k \in DOMAIN acks : acks[k].rule = alerts[i].rule /\ Answers(k, i)

\* The alert fired before the clock was set back to the time of the ack.
NeverCovered(k, i) == alerts[i].ts > acks[k].ts /\ alerts[i].epoch < acks[k].epoch

\* What an analyst has acked does not come back, however the log is compacted:
\* the log forgets an ack only when it is older than a cutoff, and then the
\* alerts it hid are removed too, but those in the hour the cutoff falls in,
\* whose file goes on to the end of the hour.  What can lose a younger ack is:
\* two commands at one time, a kill of retention between truncation and write, a kill
\* of the ack before it between text and newline, whose line it then continues, or a
\* clock set back, after which the whole file seems old by its modification time.
AckedStaysHidden ==
    ret.at = "idle" =>
        \A k \in done \ (disturbed \cup glued) : \A i \in 1..acks[k].upto :
            \/ alerts[i].rule # acks[k].rule
            \/ i \in deleted
            \/ Hidden(i)
            \/ NeverCovered(k, i)
            \/ k \in swept /\ acks[k].epoch < epoch
            \/ \E c \in cutoffs : acks[k].ts < c /\ Hour(alerts[i].ts) = Hour(c)
===============================================================================
