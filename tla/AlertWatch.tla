------------------------------ MODULE AlertWatch ------------------------------
(***************************************************************************)
(* config/notify/alert-watch.sh: the notifier beside the pipeline.  Two    *)
(* processes of the script, the inotify loop ("reactive") and the periodic *)
(* sweep ("sweep"), run process_file on the same alert files and share one *)
(* offset file per alert file, without a lock, while `ruled` and           *)
(* `correlated` append.                                                    *)
(*                                                                         *)
(* A line reaches its file in two writes, its text and its newline         *)
(* (writeln! on an unbuffered File), so a size is counted in such units:   *)
(* the k-th line of a file is text unit 2k-1 and newline unit 2k.          *)
(***************************************************************************)
EXTENDS Integers, Sequences, FiniteSets

CONSTANTS
    File,            \* alert files
    CorrelatedFile,  \* those under alerts/correlated/
    Level,           \* the level field of each alert, "" when it has none
    Threshold,       \* ALERT_WATCH_LEVEL
    MaxLines,        \* bound: alerts written
    MaxRestarts,     \* bound: restarts of the script
    MaxTruncated     \* bound: files emptied by someone else

Line == 1..MaxLines

ASSUME AlertWatchAssumption ==
    /\ CorrelatedFile \subseteq File
    /\ Level \in [Line -> STRING]
    /\ Threshold \in STRING
    /\ MaxLines \in Nat /\ MaxRestarts \in Nat /\ MaxTruncated \in Nat

LevelRank(v) == CASE v = "critical" -> 4
                  [] v = "high"     -> 3
                  [] v = "medium"   -> 2
                  [] v = "low"      -> 1
                  [] OTHER          -> 0

\* handle_line forwards the line.
Notifies(f, l) == \/ f \in CorrelatedFile
                  \/ /\ Level[l] # ""
                     /\ LevelRank(Level[l]) >= LevelRank(Threshold)

Watcher == {"reactive", "sweep"}

VARIABLES
    content,   \* content[f]: the lines in f
    torn,      \* torn[f]: the last line of f still lacks its newline
    written,   \* number of alerts written so far
    saved,     \* f's offset file; 0 while it is absent or empty
    watched,   \* files whose directory inotifywait watches
    events,    \* events[f]: paths inotifywait has printed, not yet read
    pass,      \* files the current sweep has yet to visit
    recent,    \* files modified within the sweep's lookback
    listed,    \* files a sweep has found since they were last written
    proc,      \* each watcher's progress through process_file
    restarts, truncated

\* History.
VARIABLES
    handled,   \* notifications per alert: 0, 1, or 2 for several
    cut,       \* alerts whose text was read, and dropped, without its newline
    late,      \* alerts read beyond the size measured by the same call
    skipped,   \* alerts in their file when the script restarted
    overlaps   \* files that both watchers were processing at once

history == <<handled, cut, late, skipped, overlaps>>
files   == <<content, torn, written, recent, listed, truncated>>
vars    == <<files, saved, watched, events, pass, proc, restarts, history>>

\* stat -c%s, in units.
Size(f) == 2 * Len(content[f]) - (IF torn[f] THEN 1 ELSE 0)

Idle == [pc |-> "idle"]

Init ==
    /\ content = [f \in File |-> << >>] /\ torn = [f \in File |-> FALSE]
    /\ written = 0
    /\ saved = [f \in File |-> 0]
    /\ watched = {} /\ events = [f \in File |-> 0]
    /\ pass = {} /\ recent = {} /\ listed = {}
    /\ proc = [w \in Watcher |-> Idle]
    /\ restarts = 0 /\ truncated = {}
    /\ handled = [l \in Line |-> 0]
    /\ cut = {} /\ late = {} /\ skipped = {} /\ overlaps = {}

-------------------------------------------------------------------------------
(* The writers: one process appends to a file.                             *)

Modified(f) == recent' = recent \cup {f} /\ listed' = listed \ {f}

AppendText(f) ==
    /\ written < MaxLines /\ ~ torn[f]
    /\ written' = written + 1
    /\ content' = [content EXCEPT ![f] = Append(@, written + 1)]
    /\ torn' = [torn EXCEPT ![f] = TRUE]
    /\ Modified(f)
    /\ UNCHANGED <<saved, watched, events, pass, proc, restarts, truncated, history>>

\* The newline, and the close of the file, which inotifywait reports if it
\* watches the directory by now.
AppendNewline(f) ==
    /\ torn[f]
    /\ torn' = [torn EXCEPT ![f] = FALSE]
    /\ events' = [events EXCEPT ![f] = IF f \in watched THEN @ + 1 ELSE @]
    /\ Modified(f)
    /\ UNCHANGED <<content, written, saved, watched, pass, proc, restarts,
                   truncated, history>>

Truncate(f) ==
    /\ Cardinality(truncated) < MaxTruncated
    /\ f \notin truncated /\ content[f] # << >> /\ ~ torn[f]
    /\ truncated' = truncated \cup {f}
    /\ content' = [content EXCEPT ![f] = << >>]
    /\ Modified(f)
    /\ UNCHANGED <<torn, written, saved, watched, events, pass, proc, restarts, history>>

\* A file leaves the lookback.  The lookback is fifteen sweep intervals, so a
\* sweep has found the file by then.
Age(f) ==
    /\ f \in recent \cap listed
    /\ recent' = recent \ {f}
    /\ UNCHANGED <<content, torn, written, listed, truncated, saved, watched,
                   events, pass, proc, restarts, history>>

-------------------------------------------------------------------------------
(* inotifywait -r reaches the directory of f, sooner or later or never.    *)
InstallWatch(f) ==
    /\ f \notin watched
    /\ watched' = watched \cup {f}
    /\ UNCHANGED <<files, saved, events, pass, proc, restarts, history>>

(* process_file, by watcher w.                                             *)

Start(w, f) ==
    /\ proc[w] = Idle
    /\ proc' = [proc EXCEPT ![w] = [pc |-> "read", file |-> f]]
    /\ overlaps' = IF \E v \in Watcher \ {w} : proc[v] # Idle /\ proc[v].file = f
                   THEN overlaps \cup {f} ELSE overlaps

TakeEvent(f) ==
    /\ events[f] > 0
    /\ events' = [events EXCEPT ![f] = @ - 1]
    /\ Start("reactive", f)
    /\ UNCHANGED <<files, saved, watched, pass, restarts, handled, cut, late, skipped>>

\* Mutant: the sweep looks only where inotify looks.
SweepFindWatched ==
    /\ proc["sweep"] = Idle /\ pass = {}
    /\ pass' = recent \cap watched
    /\ listed' = listed \cup recent
    /\ UNCHANGED <<content, torn, written, recent, truncated, saved, watched,
                   events, proc, restarts, history>>

SweepFind ==
    /\ proc["sweep"] = Idle /\ pass = {}
    /\ pass' = recent
    /\ listed' = listed \cup recent
    /\ UNCHANGED <<content, torn, written, recent, truncated, saved, watched,
                   events, proc, restarts, history>>

SweepNext(f) ==
    /\ f \in pass
    /\ pass' = pass \ {f}
    /\ Start("sweep", f)
    /\ UNCHANGED <<files, saved, watched, events, restarts, handled, cut, late, skipped>>

ReadOffset(w) ==
    /\ proc[w].pc = "read"
    /\ proc' = [proc EXCEPT ![w] = [pc |-> "stat", file |-> @.file,
                                    off |-> saved[@.file]]]
    /\ UNCHANGED <<files, saved, watched, events, pass, restarts, history>>

\* The size is measured before the lines are read; a shrunken file is read
\* from its start.
Stat(w) ==
    /\ proc[w].pc = "stat"
    /\ LET p   == proc[w]
           n   == Size(p.file)
           off == IF n < p.off THEN 0 ELSE p.off
       IN  proc' = [proc EXCEPT ![w] =
                        IF n > off
                        THEN [pc |-> "tail", file |-> p.file, off |-> off, size |-> n]
                        ELSE [pc |-> "open", file |-> p.file, size |-> n]]
    /\ UNCHANGED <<files, saved, watched, events, pass, restarts, history>>

\* Lines of f whose text starts beyond unit `off` and that are complete.  A
\* tail that starts at a newline yields an empty line first, which is ignored.
TailLines(f, off) == SubSeq(content[f], (off + 1) \div 2 + 1, Size(f) \div 2)

\* `tail` reads to the end of the file as it is now, not as it was measured;
\* `read` fails on a last line without newline, and its text is dropped.
ReadLines(w) ==
    /\ proc[w].pc = "tail"
    /\ LET p == proc[w]
           c == content[p.file]
       IN  /\ proc' = [proc EXCEPT ![w] = [pc |-> "handle", file |-> p.file, size |-> p.size,
                                           todo |-> TailLines(p.file, p.off)]]
           /\ cut' = IF torn[p.file] /\ p.size >= Size(p.file)
                     THEN cut \cup {c[Len(c)]} ELSE cut
           /\ late' = late \cup {c[k] : k \in {i \in 1..(Size(p.file) \div 2) :
                                                  2 * i - 1 > p.size}}
    /\ UNCHANGED <<files, saved, watched, events, pass, restarts, handled, skipped, overlaps>>

\* handle_line; what the notify script returns is logged and changes nothing.
HandleLine(w) ==
    /\ proc[w].pc = "handle" /\ proc[w].todo # << >>
    /\ LET l == Head(proc[w].todo) IN
       handled' = [handled EXCEPT ![l] =
                      IF Notifies(proc[w].file, l) /\ @ < 2 THEN @ + 1 ELSE @]
    /\ proc' = [proc EXCEPT ![w].todo = Tail(@)]
    /\ UNCHANGED <<files, saved, watched, events, pass, restarts, cut, late, skipped, overlaps>>

\* `printf > state` empties the offset file before it writes it.
OpenState(w) ==
    /\ \/ proc[w].pc = "open"
       \/ proc[w].pc = "handle" /\ proc[w].todo = << >>
    /\ saved' = [saved EXCEPT ![proc[w].file] = 0]
    /\ proc' = [proc EXCEPT ![w] = [pc |-> "write", file |-> @.file, size |-> @.size]]
    /\ UNCHANGED <<files, watched, events, pass, restarts, history>>

\* Mutant: the size is measured again after the lines were handled.
WriteStateNow(w) ==
    /\ proc[w].pc = "write"
    /\ saved' = [saved EXCEPT ![proc[w].file] = Size(proc[w].file)]
    /\ proc' = [proc EXCEPT ![w] = Idle]
    /\ UNCHANGED <<files, watched, events, pass, restarts, history>>

\* Mutant: the size is added to the offset.
WriteStateAdded(w) ==
    /\ proc[w].pc = "write"
    /\ saved' = [saved EXCEPT ![proc[w].file] = @ + proc[w].size]
    /\ proc' = [proc EXCEPT ![w] = Idle]
    /\ UNCHANGED <<files, watched, events, pass, restarts, history>>

WriteState(w) ==
    /\ proc[w].pc = "write"
    /\ saved' = [saved EXCEPT ![proc[w].file] = proc[w].size]
    /\ proc' = [proc EXCEPT ![w] = Idle]
    /\ UNCHANGED <<files, watched, events, pass, restarts, history>>

ProcessFile(w) == \/ ReadOffset(w) \/ Stat(w) \/ ReadLines(w) \/ HandleLine(w)
                  \/ OpenState(w) \/ WriteState(w)

-------------------------------------------------------------------------------
\* Mutant: the script starts without a baseline.
RestartWithoutBaseline ==
    /\ restarts < MaxRestarts
    /\ restarts' = restarts + 1
    /\ watched' = {} /\ events' = [f \in File |-> 0]
    /\ pass' = {} /\ listed' = {}
    /\ proc' = [w \in Watcher |-> Idle]
    /\ UNCHANGED <<content, torn, written, recent, truncated, saved, history>>

(* The script is stopped, with its whole process group, and started again: *)
(* the baseline takes every existing file as read.                         *)
Restart ==
    /\ restarts < MaxRestarts
    /\ restarts' = restarts + 1
    /\ saved' = [f \in File |-> Size(f)]
    /\ skipped' = skipped \cup UNION {{content[f][k] : k \in DOMAIN content[f]} : f \in File}
    /\ watched' = {} /\ events' = [f \in File |-> 0]
    /\ pass' = {} /\ listed' = {}
    /\ proc' = [w \in Watcher |-> Idle]
    /\ UNCHANGED <<content, torn, written, recent, truncated, handled, cut, late, overlaps>>

Reactive == (\E f \in File : TakeEvent(f)) \/ ProcessFile("reactive")

Sweep == SweepFind \/ (\E f \in File : SweepNext(f)) \/ ProcessFile("sweep")

Next == \/ \E f \in File : \/ AppendText(f) \/ AppendNewline(f) \/ Truncate(f)
                           \/ Age(f) \/ InstallWatch(f)
        \/ Reactive
        \/ Sweep
        \/ Restart

Spec == Init /\ [][Next]_vars

\* Both processes of the script keep running.  Nothing is assumed of the
\* writers, nor that inotifywait ever gets to watch a directory.
FairSpec == Spec /\ WF_vars(Reactive) /\ WF_vars(Sweep)

-------------------------------------------------------------------------------
Process == {Idle}
    \cup [pc : {"read"}, file : File]
    \cup [pc : {"stat"}, file : File, off : 0..2*MaxLines]
    \cup [pc : {"tail"}, file : File, off : 0..2*MaxLines, size : 0..2*MaxLines]
    \cup [pc : {"handle"}, file : File, size : 0..2*MaxLines, todo : Seq(Line)]
    \cup [pc : {"open", "write"}, file : File, size : 0..2*MaxLines]

\* Every variable holds a value of its type.
TypeOK ==
    /\ content \in [File -> Seq(Line)] /\ torn \in [File -> BOOLEAN]
    /\ written \in 0..MaxLines
    /\ saved \in [File -> 0..2*MaxLines]
    /\ watched \subseteq File /\ events \in [File -> Nat]
    /\ pass \subseteq File /\ recent \subseteq File /\ listed \subseteq File
    /\ proc \in [Watcher -> Process]
    /\ restarts \in 0..MaxRestarts /\ truncated \subseteq File
    /\ handled \in [Line -> 0..2]
    /\ cut \subseteq Line /\ late \subseteq Line /\ skipped \subseteq Line
    /\ overlaps \subseteq File

\* An alert in f that will not be lost sight of: notified, below the threshold,
\* or one of the two known ways of missing it.
Settled(f, l) == handled[l] > 0 \/ ~ Notifies(f, l) \/ l \in cut \cup skipped

\* The offset never passes an alert that nobody has dealt with, however the
\* two watchers interleave: in a file that only grows, an alert whose text lies
\* before the saved offset has been notified, needs no notification, was read
\* while its newline was missing, or preceded a restart.
OffsetCoversHandled ==
    \A f \in File \ truncated : \A k \in DOMAIN content[f] :
        saved[f] >= 2 * k - 1 => Settled(f, content[f][k])

\* An alert is notified twice only if it was appended between the measuring and
\* the reading of its file, or both watchers were in the file at once, or the
\* file was truncated: restarts and repeated events alone never duplicate.
DuplicatesHaveACause ==
    \A f \in File \ (overlaps \cup truncated) : \A k \in DOMAIN content[f] :
        handled[content[f][k]] > 1 => content[f][k] \in late

\* Every complete alert of a file that is not truncated is eventually dealt
\* with, even if inotify never reports the file: the sweep is a real backstop.
EveryAlertIsSettled ==
    \A f \in File, l \in Line :
        (\E k \in 1..(Size(f) \div 2) : content[f][k] = l)
            ~> Settled(f, l) \/ f \in truncated
===============================================================================
