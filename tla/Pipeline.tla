------------------------------- MODULE Pipeline -------------------------------
(***************************************************************************)
(* The live path of an event: normalized, ruled and correlated, connected  *)
(* by two FIFOs and kept alive by systemd (config/systemd/*.service).      *)
(* normalized takes events from its listener threads, writes each to the   *)
(* first FIFO and then stores it under data/raw/; ruled matches it against *)
(* the Sigma rules, drops repeats, and sends each alert into the second    *)
(* FIFO and then to data/alerts/; correlated feeds it to its engine.       *)
(*                                                                         *)
(* Which rules an event matches (rules.rs, suppress.rs) is a constant, and *)
(* the engine is module Correlation: here `fed` is what reaches it.        *)
(***************************************************************************)
EXTENDS Integers, Sequences, FiniteSets

CONSTANTS
    Thread,       \* listener threads of normalized
    NoThread,     \* nobody holds the output lock
    Rule,         \* Sigma rules
    Detections,   \* rules an event matches, suppressed ones left out, in file order
    Key,          \* deduplication keys
    DedupKey,     \* build_dedup_key of each event
    DedupWindow,  \* --dedup-window
    Word,         \* 2^64: what unsigned subtraction wraps around
    NoTime,       \* no entry in the dedup cache
    PipeSize,     \* lines a FIFO holds
    MaxEvents,    \* bound: events received
    MaxTime,      \* bound: the clock, which may be set at any moment
    MaxKills,     \* bound: units killed, or restarted by hand
    MaxErrors     \* bound: file system errors

Event == 1..MaxEvents

ASSUME PipelineAssumption ==
    /\ IsFiniteSet(Thread) /\ NoThread \notin Thread
    /\ Detections \in [Event -> Seq(Rule)]
    /\ \A e \in Event : \A i, j \in DOMAIN Detections[e] :
           Detections[e][i] = Detections[e][j] => i = j
    /\ DedupKey \in [Event -> Key]
    /\ DedupWindow \in Nat
    /\ MaxTime \in Nat /\ NoTime \notin 0..MaxTime
    /\ Word \in Nat /\ Word > MaxTime + DedupWindow
    /\ PipeSize \in Nat \ {0}
    /\ MaxEvents \in Nat /\ MaxKills \in Nat /\ MaxErrors \in Nat

Unit == {"normalized", "ruled", "correlated"}
Alert == Event \X Rule

VARIABLES
    unit,      \* "down", or how far systemd and the program have got
    taken,     \* events received so far
    hand,      \* hand[t]: the event thread t is handling, 0 when it has none
    lock,      \* the thread inside the lock, between FIFO and store
    events,    \* normalized-out.pipe
    lines,     \* lines ruled has read ahead
    todo,      \* rules still to evaluate for the event at hand
    current,   \* that event
    stage,     \* of the first rule of todo: "check", "send" or "file"
    cache,     \* the dedup cache
    kept,      \* an alert whose write failed, still in ruled's stdout buffer
    alerts,    \* ruled-out.pipe
    pending,   \* alerts correlated has read ahead
    kills, errors

\* What has come out so far, and history.
VARIABLES
    stored,     \* events under data/raw/
    emitted,    \* emissions of ruled in order: alert, time, life of ruled
    dropped,    \* repeats: alert, time, life of ruled
    sent,       \* alerts that entered the second FIFO, in order
    filed,      \* alerts under data/alerts/, in order
    fed,        \* alerts given to the correlation engine, in order
    exits       \* exits[u]: times u ended by itself

normalized == <<taken, hand, lock>>
ruled      == <<lines, todo, current, stage, cache, kept>>
outcome    == <<stored, emitted, dropped, sent, filed, fed, exits>>
vars == <<unit, normalized, events, ruled, alerts, pending, kills, errors, outcome>>

NoCache == [rk \in Rule \X Key |-> NoTime]

Init ==
    /\ unit = [u \in Unit |-> "down"]
    /\ taken = 0 /\ hand = [t \in Thread |-> 0] /\ lock = NoThread
    /\ events = << >> /\ alerts = << >>
    /\ lines = << >> /\ todo = << >> /\ current = 0 /\ stage = "check"
    /\ cache = NoCache /\ kept = << >>
    /\ pending = << >>
    /\ kills = [u \in Unit |-> 0] /\ errors = 0
    /\ stored = {} /\ emitted = << >> /\ dropped = {}
    /\ sent = << >> /\ filed = << >> /\ fed = << >>
    /\ exits = [u \in Unit |-> 0]

-------------------------------------------------------------------------------
(* The FIFOs.  An end counts as open while its process waits for the other *)
(* end, and a FIFO that nobody has open is empty.                          *)

EventsWriter(s) == s["normalized"] \in {"output", "run"}
EventsReader(s) == s["ruled"] \in {"input", "output", "run"}
AlertsWriter(s) == s["ruled"] \in {"output", "run"}
AlertsReader(s) == s["correlated"] \in {"input", "run"}

\* What becomes of the FIFOs, which now hold es and as, when unit u ends.
Closed(u, es, as) ==
    LET s == [unit EXCEPT ![u] = "down"] IN
    /\ unit' = s
    /\ events' = IF EventsWriter(s) \/ EventsReader(s) THEN es ELSE << >>
    /\ alerts' = IF AlertsWriter(s) \/ AlertsReader(s) THEN as ELSE << >>

(* systemd: Restart=always, five seconds after any exit.                   *)

\* Mutant: Restart=on-failure.
StartOnFailure(u) ==
    /\ unit[u] = "down" /\ exits[u] = 0
    /\ unit' = [unit EXCEPT ![u] = IF u = "normalized" THEN "output" ELSE "input"]
    /\ UNCHANGED <<normalized, events, ruled, alerts, pending, kills, errors, outcome>>

Start(u) ==
    /\ unit[u] = "down"
    /\ unit' = [unit EXCEPT ![u] = IF u = "normalized" THEN "output" ELSE "input"]
    /\ UNCHANGED <<normalized, events, ruled, alerts, pending, kills, errors, outcome>>

\* Opening one end of a FIFO waits for somebody at the other; stdin comes
\* before stdout.
Open(u) ==
    /\ \/ u = "normalized" /\ unit[u] = "output" /\ EventsReader(unit)
       \/ u = "ruled" /\ unit[u] = "input" /\ EventsWriter(unit)
       \/ u = "ruled" /\ unit[u] = "output" /\ AlertsReader(unit)
       \/ u = "correlated" /\ unit[u] = "input" /\ AlertsWriter(unit)
    /\ unit' = [unit EXCEPT ![u] = IF u = "ruled" /\ @ = "input" THEN "output" ELSE "run"]
    /\ UNCHANGED <<normalized, events, ruled, alerts, pending, kills, errors, outcome>>

-------------------------------------------------------------------------------
(* normalized: Processor::handle, called by every listener thread.         *)

Receive(t) ==
    /\ unit["normalized"] = "run" /\ hand[t] = 0 /\ taken < MaxEvents
    /\ taken' = taken + 1
    /\ hand' = [hand EXCEPT ![t] = taken + 1]
    /\ UNCHANGED <<unit, lock, events, ruled, alerts, pending, kills, errors, outcome>>

WritePipe(t) ==
    /\ unit["normalized"] = "run" /\ hand[t] # 0 /\ lock = NoThread
    /\ EventsReader(unit) /\ Len(events) < PipeSize
    /\ lock' = t
    /\ events' = Append(events, hand[t])
    /\ UNCHANGED <<unit, taken, hand, ruled, alerts, pending, kills, errors, outcome>>

\* Mutant: a broken pipe ends the handling of the event, not the process.
BrokenPipeReturns(t) ==
    /\ unit["normalized"] = "run" /\ hand[t] # 0 /\ lock = NoThread
    /\ ~ EventsReader(unit)
    /\ hand' = [hand EXCEPT ![t] = 0]
    /\ UNCHANGED <<unit, taken, lock, events, ruled, alerts, pending, kills, errors,
                   outcome>>

\* process::exit(0), before anything of the event is stored; the events of the
\* other threads go with it.
BrokenPipe(t) ==
    /\ unit["normalized"] = "run" /\ hand[t] # 0 /\ lock = NoThread
    /\ ~ EventsReader(unit)
    /\ Closed("normalized", events, alerts)
    /\ hand' = [x \in Thread |-> 0]
    /\ exits' = [exits EXCEPT !["normalized"] = @ + 1]
    /\ UNCHANGED <<taken, lock, ruled, pending, kills, errors,
                   stored, emitted, dropped, sent, filed, fed>>

\* OutputRouter::write; its error is logged and the event is gone.
Store(t) ==
    /\ unit["normalized"] = "run" /\ lock = t
    /\ \/ stored' = stored \cup {hand[t]} /\ UNCHANGED errors
       \/ errors < MaxErrors /\ errors' = errors + 1 /\ UNCHANGED stored
    /\ hand' = [hand EXCEPT ![t] = 0]
    /\ lock' = NoThread
    /\ UNCHANGED <<unit, taken, events, ruled, alerts, pending, kills,
                   emitted, dropped, sent, filed, fed, exits>>

-------------------------------------------------------------------------------
(* ruled: the main loop and AlertRouter::emit.                             *)

Ruled == unit["ruled"] = "run"
Resting == Ruled /\ todo = << >> /\ lines = << >>

\* A read takes whatever is in the FIFO.
ReadEvents ==
    /\ Resting /\ events # << >>
    /\ lines' = events /\ events' = << >>
    /\ UNCHANGED <<unit, normalized, todo, current, stage, cache, kept, alerts, pending, kills,
                   errors, outcome>>

\* Mutant: an empty FIFO is taken for the end of the file.
RuledEofEarly ==
    /\ Resting /\ events = << >>
    /\ Closed("ruled", events, alerts)
    /\ cache' = NoCache /\ kept' = << >>
    /\ exits' = [exits EXCEPT !["ruled"] = @ + 1]
    /\ UNCHANGED <<normalized, lines, todo, current, stage, pending, kills, errors,
                   stored, emitted, dropped, sent, filed, fed>>

\* End of file: the loop ends, and what stdout still buffers is tried again.
RuledEof ==
    /\ Resting /\ events = << >> /\ ~ EventsWriter(unit)
    /\ LET retry == kept # << >> /\ AlertsReader(unit) IN
       /\ retry => Len(alerts) < PipeSize
       /\ Closed("ruled", events, IF retry THEN alerts \o kept ELSE alerts)
       /\ sent' = IF retry THEN sent \o kept ELSE sent
    /\ cache' = NoCache /\ kept' = << >>
    /\ exits' = [exits EXCEPT !["ruled"] = @ + 1]
    /\ UNCHANGED <<normalized, lines, todo, current, stage, pending, kills, errors,
                   stored, emitted, dropped, filed, fed>>

Evaluate ==
    /\ Ruled /\ todo = << >> /\ lines # << >>
    /\ current' = Head(lines) /\ lines' = Tail(lines)
    /\ todo' = Detections[Head(lines)] /\ stage' = "check"
    /\ UNCHANGED <<unit, normalized, events, cache, kept, alerts, pending, kills,
                   errors, outcome>>

Subject == <<current, Head(todo)>>
CacheKey == <<Head(todo), DedupKey[current]>>

\* Mutant: saturating subtraction, as in correlated.
RepeatSaturating(now) ==
    /\ DedupWindow > 0
    /\ cache[CacheKey] # NoTime
    /\ now - cache[CacheKey] < DedupWindow

\* now - last_seen < window, on unsigned 64-bit integers.
Repeat(now) ==
    /\ DedupWindow > 0
    /\ cache[CacheKey] # NoTime
    /\ (now - cache[CacheKey]) % Word < DedupWindow

Stamp(now) == [alert |-> Subject, at |-> now, life |-> exits["ruled"] + kills["ruled"]]

\* Mutant: a repeat ends the evaluation of the event.
DropRepeatBreaks(now) ==
    /\ Ruled /\ todo # << >> /\ stage = "check" /\ Repeat(now)
    /\ dropped' = dropped \cup {Stamp(now)}
    /\ todo' = << >>
    /\ UNCHANGED <<unit, normalized, events, lines, current, stage, cache, kept, alerts,
                   pending, kills, errors, stored, emitted, sent, filed, fed,
                   exits>>

DropRepeat(now) ==
    /\ Ruled /\ todo # << >> /\ stage = "check" /\ Repeat(now)
    /\ dropped' = dropped \cup {Stamp(now)}
    /\ todo' = Tail(todo)
    /\ UNCHANGED <<unit, normalized, events, lines, current, stage, cache, kept, alerts,
                   pending, kills, errors, stored, emitted, sent, filed, fed,
                   exits>>

\* The cache is updated before anything is written.
Emit(now) ==
    /\ Ruled /\ todo # << >> /\ stage = "check" /\ ~ Repeat(now)
    /\ cache' = IF DedupWindow > 0 THEN [cache EXCEPT ![CacheKey] = now] ELSE cache
    /\ emitted' = Append(emitted, Stamp(now))
    /\ stage' = "send"
    /\ UNCHANGED <<unit, normalized, events, lines, todo, current, kept, alerts, pending, kills,
                   errors, stored, dropped, sent, filed, fed, exits>>

\* A line that an earlier write left in the buffer goes first.
Flush ==
    /\ Ruled /\ stage = "send" /\ kept # << >>
    /\ AlertsReader(unit) /\ Len(alerts) < PipeSize
    /\ alerts' = alerts \o kept /\ sent' = sent \o kept
    /\ kept' = << >>
    /\ UNCHANGED <<unit, normalized, events, lines, todo, current, stage, cache, pending, kills,
                   errors, stored, emitted, dropped, filed, fed, exits>>

Send ==
    /\ Ruled /\ stage = "send" /\ kept = << >>
    /\ AlertsReader(unit) /\ Len(alerts) < PipeSize
    /\ alerts' = Append(alerts, Subject) /\ sent' = Append(sent, Subject)
    /\ stage' = "file"
    /\ UNCHANGED <<unit, normalized, events, lines, todo, current, cache, kept, pending, kills,
                   errors, stored, emitted, dropped, filed, fed, exits>>

\* Mutant: the alert is filed although it could not be sent.
SendFailsAndFiles ==
    /\ Ruled /\ stage = "send" /\ ~ AlertsReader(unit)
    /\ stage' = "file"
    /\ UNCHANGED <<unit, normalized, events, lines, todo, current, cache, kept, alerts,
                   pending, kills, errors, outcome>>

\* Broken pipe: emit returns before the file is written, and its error is
\* ignored.  A line shorter than the buffer stays in it.
SendFails ==
    /\ Ruled /\ stage = "send" /\ ~ AlertsReader(unit)
    /\ kept' \in IF kept = << >> THEN {<< >>, <<Subject>>} ELSE {kept}
    /\ todo' = Tail(todo) /\ stage' = "check"
    /\ UNCHANGED <<unit, normalized, events, lines, current, cache, alerts, pending, kills,
                   errors, outcome>>

\* write_to_filesystem, whose error is ignored as well.
FileAlert ==
    /\ Ruled /\ stage = "file"
    /\ \/ filed' = Append(filed, Subject) /\ UNCHANGED errors
       \/ errors < MaxErrors /\ errors' = errors + 1 /\ UNCHANGED filed
    /\ todo' = Tail(todo) /\ stage' = "check"
    /\ UNCHANGED <<unit, normalized, events, lines, current, cache, kept, alerts, pending,
                   kills, stored, emitted, dropped, sent, fed, exits>>

-------------------------------------------------------------------------------
(* correlated: the main loop.                                              *)

ReadAlerts ==
    /\ unit["correlated"] = "run" /\ pending = << >> /\ alerts # << >>
    /\ pending' = alerts /\ alerts' = << >>
    /\ UNCHANGED <<unit, normalized, events, ruled, kills, errors, outcome>>

FeedEngine ==
    /\ unit["correlated"] = "run" /\ pending # << >>
    /\ fed' = Append(fed, Head(pending)) /\ pending' = Tail(pending)
    /\ UNCHANGED <<unit, normalized, events, ruled, alerts, kills, errors,
                   stored, emitted, dropped, sent, filed, exits>>

CorrelatedEof ==
    /\ unit["correlated"] = "run" /\ pending = << >> /\ alerts = << >>
    /\ ~ AlertsWriter(unit)
    /\ Closed("correlated", events, alerts)
    /\ exits' = [exits EXCEPT !["correlated"] = @ + 1]
    /\ UNCHANGED <<normalized, ruled, pending, kills, errors,
                   stored, emitted, dropped, sent, filed, fed>>

-------------------------------------------------------------------------------
Killed == kills["normalized"] + kills["ruled"] + kills["correlated"]

\* A unit dies, or is restarted by hand, at any point; what it had read ahead
\* or held in memory dies with it.
Kill(u) ==
    /\ unit[u] # "down" /\ Killed < MaxKills
    /\ kills' = [kills EXCEPT ![u] = @ + 1]
    /\ Closed(u, events, alerts)
    /\ IF u = "normalized"
       THEN hand' = [t \in Thread |-> 0] /\ lock' = NoThread
       ELSE UNCHANGED <<hand, lock>>
    /\ IF u = "ruled"
       THEN /\ lines' = << >> /\ todo' = << >> /\ current' = 0 /\ stage' = "check"
            /\ cache' = NoCache /\ kept' = << >>
       ELSE UNCHANGED ruled
    /\ pending' = IF u = "correlated" THEN << >> ELSE pending
    /\ UNCHANGED <<taken, errors, stored, emitted, dropped, sent, filed, fed, exits>>

Listeners == \E t \in Thread : WritePipe(t) \/ BrokenPipe(t) \/ Store(t)

RuledLoop == \/ ReadEvents \/ RuledEof \/ Evaluate
             \/ \E now \in 0..MaxTime : DropRepeat(now) \/ Emit(now)
             \/ Flush \/ Send \/ SendFails \/ FileAlert

CorrelatedLoop == ReadAlerts \/ FeedEngine \/ CorrelatedEof

Next == \/ \E u \in Unit : Start(u) \/ Open(u) \/ Kill(u)
        \/ \E t \in Thread : Receive(t)
        \/ Listeners
        \/ RuledLoop
        \/ CorrelatedLoop

Spec == Init /\ [][Next]_vars

\* systemd restarts every unit, and each program keeps running; nothing is
\* assumed of the senders or of who kills what.
FairSpec == /\ Spec
            /\ \A u \in Unit : WF_vars(Start(u)) /\ WF_vars(Open(u))
            /\ WF_vars(Listeners) /\ WF_vars(RuledLoop) /\ WF_vars(CorrelatedLoop)
-------------------------------------------------------------------------------
AtHand == {hand[t] : t \in Thread} \ {0}

\* Events that are neither stored nor ever will be.
Lost == (1..taken) \ (stored \cup AtHand)

Deaths(u) == kills[u] + exits[u]

\* What restarts can cost: normalized loses the events its threads are handling
\* when it dies, it ends by itself at most once for each time ruled has ended,
\* and nothing else but a file system error keeps an event out of data/raw/.
LossIsBounded ==
    Cardinality(Lost) <=
        Cardinality(Thread) * (kills["normalized"] + Deaths("ruled")) + errors

\* One unit's end may pull down its neighbours through the FIFOs, but the
\* cascade dies out: the units do not keep restarting one another.
CascadeDiesOut ==
    \A u \in Unit : exits[u] <= Killed

\* An alert is dropped as a repeat only if the same rule and key produced one
\* less than a window before, in the same life of ruled, on a clock that may
\* have been set back in between.
RepeatsHaveATwin ==
    \A d \in dropped : \E i \in DOMAIN emitted :
        LET m == emitted[i] IN
        /\ m.life = d.life
        /\ m.alert[2] = d.alert[2] /\ DedupKey[m.alert[1]] = DedupKey[d.alert[1]]
        /\ m.at <= d.at /\ d.at - m.at < DedupWindow

\* s is made of elements of t, none of them twice, in the order of t.
Follows(s, t) ==
    /\ \A i \in DOMAIN s : \E a \in DOMAIN t : t[a] = s[i]
    /\ \A i, j \in DOMAIN s : \A a, b \in DOMAIN t :
           i < j /\ t[a] = s[i] /\ t[b] = s[j] => a < b

\* Whatever restarts and failed writes do, alerts come out in the order in
\* which ruled produced them and none comes out twice, and every alert on file
\* had been sent to correlated before.
SinksFollowDetection ==
    LET produced == [i \in DOMAIN emitted |-> emitted[i].alert] IN
    /\ Follows(sent, produced)
    /\ Follows(fed, sent)
    /\ Follows(filed, sent)

\* While nothing is killed and no write fails, full FIFOs delay but never lose
\* or block: each event is stored, and each of its alerts is filed and fed to
\* the engine unless it is a repeat.
UndisturbedDelivery ==
    \A e \in Event :
        taken >= e ~>
            \/ Killed > 0
            \/ errors > 0
            \/ /\ e \in stored
               /\ \A i \in DOMAIN Detections[e] :
                    LET a == <<e, Detections[e][i]>> IN
                    \/ \E d \in dropped : d.alert = a
                    \/ /\ \E n \in DOMAIN fed : fed[n] = a
                       /\ \E n \in DOMAIN filed : filed[n] = a

\* However the units are killed, the pipeline comes up again and stays up.
PipelineRecovers == <>[](\A u \in Unit : unit[u] = "run")
===============================================================================
