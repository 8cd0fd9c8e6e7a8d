------------------------------- MODULE RawStore -------------------------------
(***************************************************************************)
(* One bucket file of data/raw/, raw/YYYY/MM/DD/HH/MM/SS/<source>.jsonl,   *)
(* and the three programs that touch it without a lock: `normalized`       *)
(* (several processes: nothing keeps a second one from running) appends to *)
(* it or creates it by temp file and rename, `siemctl retention` removes   *)
(* it and its empty directories, `siemctl tail` follows it by byte offset. *)
(*                                                                         *)
(* A file has a name and an inode, because whoever has it open goes on     *)
(* writing when the name is gone or names another inode.  An inode is      *)
(* called after the write that creates it.  A line is two writes, its text *)
(* and its newline (writeln! on an unbuffered File); a text unit is the    *)
(* number of its line.  `depth` counts the directories of the path that    *)
(* exist: the innermost two, 0, 1 or 2.                                    *)
(***************************************************************************)
EXTENDS Lines, SequencesExt

CONSTANTS
    Writer,        \* normalized processes
    LineUnits,     \* length of each line's text; its length bounds the lines
    MaxNow,        \* bound: ticks of the clock
    Days,          \* retention periods an operator may ask for, in ticks
    MaxRetention,  \* bound: retention runs
    MaxKills       \* bound: writers killed

ASSUME RawStoreAssumption ==
    /\ LineUnits \in Seq(Nat \ {0})
    /\ MaxNow \in Nat /\ MaxRetention \in Nat /\ MaxKills \in Nat
    /\ Days \subseteq Nat

Line == DOMAIN LineUnits
None == 0                       \* no inode, no line
Nul == Len(LineUnits) + 1       \* what a write past the end leaves behind
Untracked == -1                 \* a path that tail has no offset for

VARIABLES
    depth,    \* directories of the path that exist
    path,     \* the inode named <source>.jsonl
    tmp,      \* the inode named <source>.jsonl.tmp
    data,     \* inode contents
    mtime,    \* inode modification times
    next,     \* the next line to arrive
    w,        \* each writer's progress through OutputRouter::write
    now,
    ret,      \* progress of `siemctl retention`
    runs,
    follow,   \* is `siemctl tail` running
    offset,   \* its offset in the file
    out,      \* the lines it has printed
    kills

\* History.
VARIABLES
    stored,     \* lines whose write returned Ok
    failed,     \* lines whose write returned an error
    killed,     \* lines whose writer was killed
    overlapped, \* lines whose write overlapped another writer's
    pruned,     \* lines whose write saw retention remove something
    late,       \* lines put in place since the latest retention run had listed
    wrote,      \* when each line's text was written
    purged,     \* lines in a file when retention removed it ...
    unripe,     \* ... although they were written after its cutoff and listed
    seen        \* inodes the path has named since tail tracks it, oldest first

store == <<depth, path, tmp, data, mtime>>
tail == <<follow, offset, out, seen>>
blame == <<overlapped, pruned>>
vars == <<store, next, w, now, ret, runs, tail, kills,
          stored, failed, killed, blame, late, wrote, purged, unripe>>

Text(l) == [i \in 1..LineUnits[l] |-> l]

\* write(2) at a position; a hole is filled with NULs.
WriteAt(s, pos, units) ==
    [i \in 1..(IF pos + Len(units) > Len(s) THEN pos + Len(units) ELSE Len(s)) |->
        IF i > pos /\ i <= pos + Len(units) THEN units[i - pos]
        ELSE IF i <= Len(s) THEN s[i] ELSE Nul]

\* The complete lines of s.
LineEnds(s) == Ascending(Newlines(s))
CompleteLines(s) == Cut(s, Newlines(s))

Idle == [at |-> "idle", line |-> None, ino |-> None, pos |-> None, fresh |-> FALSE]
NoRun == [at |-> "idle", cutoff |-> 0, list |-> {}]

Init ==
    /\ depth = 0 /\ path = None /\ tmp = None
    /\ data = [l \in Line |-> << >>] /\ mtime = [l \in Line |-> 0]
    /\ next = 1 /\ w = [p \in Writer |-> Idle] /\ now = 0
    /\ ret = NoRun /\ runs = 0
    /\ follow = FALSE /\ offset = Untracked /\ out = << >> /\ seen = << >>
    /\ kills = 0
    /\ stored = {} /\ failed = {} /\ killed = {}
    /\ overlapped = {} /\ pruned = {} /\ late = {}
    /\ wrote = [l \in Line |-> 0] /\ purged = {} /\ unripe = {}

InFlight == {w[p].line : p \in Writer} \ {None}

-------------------------------------------------------------------------------
(* normalized: OutputRouter::write and append_or_create.                   *)

Step(p, at) == w' = [w EXCEPT ![p].at = at]
Fails(p) == /\ failed' = failed \cup {w[p].line}
            /\ w' = [w EXCEPT ![p] = Idle]

Receive(p) ==
    /\ w[p].at = "idle" /\ next \in Line
    /\ w' = [w EXCEPT ![p] = [Idle EXCEPT !.at = "mkdir", !.line = next]]
    /\ next' = next + 1
    /\ overlapped' = IF InFlight = {} THEN overlapped
                     ELSE overlapped \cup InFlight \cup {next}
    /\ UNCHANGED <<store, now, ret, runs, tail, kills, stored, failed, killed,
                   pruned, late, wrote, purged, unripe>>

\* Mutant: create_dir instead of create_dir_all.
MakeLeafOnly(p) ==
    /\ w[p].at = "mkdir"
    /\ IF depth > 0 THEN depth' = 2 /\ Step(p, "exists") /\ UNCHANGED failed
       ELSE Fails(p) /\ UNCHANGED depth
    /\ UNCHANGED <<path, tmp, data, mtime, next, now, ret, runs, tail, kills,
                   stored, killed, blame, late, wrote, purged, unripe>>

\* create_dir_all: the leaf, or else its parent and then the leaf once more.
MakeDir(p) ==
    /\ w[p].at \in {"mkdir", "mkparent", "mkleaf"}
    /\ CASE w[p].at = "mkparent" ->
                /\ depth' = IF depth = 0 THEN 1 ELSE depth
                /\ Step(p, "mkleaf") /\ UNCHANGED failed
         [] w[p].at # "mkparent" /\ depth > 0 ->
                depth' = 2 /\ Step(p, "exists") /\ UNCHANGED failed
         [] w[p].at = "mkdir" /\ depth = 0 ->
                Step(p, "mkparent") /\ UNCHANGED <<depth, failed>>
         [] w[p].at = "mkleaf" /\ depth = 0 ->
                Fails(p) /\ UNCHANGED depth
    /\ UNCHANGED <<path, tmp, data, mtime, next, now, ret, runs, tail, kills,
                   stored, killed, blame, late, wrote, purged, unripe>>

\* Mutant: every line goes through the temp file.
NeverExists(p) ==
    /\ w[p].at = "exists"
    /\ Step(p, "create")
    /\ UNCHANGED <<store, next, now, ret, runs, tail, kills, stored, failed, killed,
                   blame, late, wrote, purged, unripe>>

Exists(p) ==
    /\ w[p].at = "exists"
    /\ Step(p, IF path # None THEN "append" ELSE "create")
    /\ UNCHANGED <<store, next, now, ret, runs, tail, kills, stored, failed, killed,
                   blame, late, wrote, purged, unripe>>

\* Both opens fail when a directory of the path is gone.
OpenFails(p) ==
    /\ w[p].at \in {"append", "create"} /\ depth < 2
    /\ Fails(p)
    /\ UNCHANGED <<store, next, now, ret, runs, tail, kills, stored, killed,
                   blame, late, wrote, purged, unripe>>

Opened(p, ino, fresh) ==
    w' = [w EXCEPT ![p].at = "text", ![p].ino = ino, ![p].fresh = fresh]

\* create(true).append(true): makes the file anew if it is gone by now.
OpenAppend(p) ==
    /\ w[p].at = "append" /\ depth = 2
    /\ LET l == w[p].line
       IN IF path # None
          THEN Opened(p, path, FALSE) /\ UNCHANGED <<path, mtime, seen>>
          ELSE /\ Opened(p, l, FALSE) /\ path' = l
               /\ mtime' = [mtime EXCEPT ![l] = now]
               /\ seen' = IF offset # Untracked THEN Append(seen, l) ELSE seen
    /\ UNCHANGED <<depth, tmp, data, next, now, ret, runs, follow, offset, out,
                   kills, stored, failed, killed, blame, late, wrote, purged, unripe>>

\* create(true).truncate(true) of the temp file, which is the same for every
\* process: a second one empties what the first has written.
OpenTmp(p) ==
    /\ w[p].at = "create" /\ depth = 2
    /\ LET ino == IF tmp = None THEN w[p].line ELSE tmp
       IN /\ Opened(p, ino, TRUE)
          /\ tmp' = ino
          /\ data' = [data EXCEPT ![ino] = << >>]
          /\ mtime' = [mtime EXCEPT ![ino] = now]
    /\ UNCHANGED <<depth, path, next, now, ret, runs, tail, kills, stored, failed,
                   killed, blame, late, wrote, purged, unripe>>

Late(ls) == IF ret.at = "idle" THEN late ELSE late \cup ls

Write(p, units) ==
    LET ino == w[p].ino
        pos == IF w[p].fresh THEN w[p].pos ELSE Len(data[ino])
    IN /\ data' = [data EXCEPT ![ino] = WriteAt(@, pos, units)]
       /\ mtime' = [mtime EXCEPT ![ino] = now]

WriteText(p) ==
    /\ w[p].at = "text"
    /\ Write(p, Text(w[p].line))
    /\ w' = [w EXCEPT ![p].at = "newline", ![p].pos = @ + LineUnits[w[p].line]]
    /\ wrote' = [wrote EXCEPT ![w[p].line] = now]
    /\ late' = Late({w[p].line})
    /\ UNCHANGED <<depth, path, tmp, next, now, ret, runs, tail, kills, stored, failed,
                   killed, blame, purged, unripe>>

WriteNewline(p) ==
    /\ w[p].at = "newline"
    /\ Write(p, <<Newline>>)
    /\ IF w[p].fresh
       THEN Step(p, "rename") /\ UNCHANGED stored
       ELSE w' = [w EXCEPT ![p] = Idle] /\ stored' = stored \cup {w[p].line}
    /\ UNCHANGED <<depth, path, tmp, next, now, ret, runs, tail, kills, failed, killed,
                   blame, late, wrote, purged, unripe>>

\* The name moves whatever it names by now, over whatever is there.
Rename(p) ==
    /\ w[p].at = "rename"
    /\ IF tmp = None
       THEN Fails(p) /\ UNCHANGED <<path, tmp, stored, seen, late>>
       ELSE /\ path' = tmp /\ tmp' = None
            /\ late' = Late(ToSet(data[tmp]) \cap Line)
            /\ seen' = IF offset # Untracked THEN Append(seen, tmp) ELSE seen
            /\ w' = [w EXCEPT ![p] = Idle]
            /\ stored' = stored \cup {w[p].line}
            /\ UNCHANGED failed
    /\ UNCHANGED <<depth, data, mtime, next, now, ret, runs, follow, offset, out,
                   kills, killed, blame, wrote, purged, unripe>>

\* SIGKILL or a crash: systemd starts the process again.
Kill(p) ==
    /\ w[p].at # "idle" /\ kills < MaxKills
    /\ kills' = kills + 1
    /\ killed' = killed \cup {w[p].line}
    /\ w' = [w EXCEPT ![p] = Idle]
    /\ UNCHANGED <<store, next, now, ret, runs, tail, stored, failed, blame, late,
                   wrote, purged, unripe>>

Tick == /\ now < MaxNow /\ now' = now + 1
        /\ UNCHANGED <<store, next, w, ret, runs, tail, kills, stored, failed, killed,
                       blame, late, wrote, purged, unripe>>

-------------------------------------------------------------------------------
(* siemctl retention: cmd_retention, collect_old_files, prune_empty_dirs.   *)

Old(ino, cutoff) == ino # None /\ mtime[ino] < cutoff

\* Mutant: every file of the directory is listed.
CollectAll(days) ==
    /\ ret.at = "idle" /\ runs < MaxRetention
    /\ runs' = runs + 1
    /\ ret' = [at |-> "delete", cutoff |-> now - days,
               list |-> (IF path # None THEN {"path"} ELSE {})
                        \cup (IF tmp # None THEN {"tmp"} ELSE {})]
    /\ late' = {}
    /\ UNCHANGED <<store, next, w, now, tail, kills, stored, failed, killed,
                   blame, wrote, purged, unripe>>

\* cutoff and collect_old_files.  The run goes on without a file of this
\* directory too: there are others.  Asking for days 0 stands for --yes.
Collect(days) ==
    /\ ret.at = "idle" /\ runs < MaxRetention
    /\ runs' = runs + 1
    /\ LET cutoff == now - days
       IN ret' = [at |-> "delete", cutoff |-> cutoff,
                  list |-> (IF Old(path, cutoff) THEN {"path"} ELSE {})
                           \cup (IF Old(tmp, cutoff) THEN {"tmp"} ELSE {})]
    /\ late' = {}
    /\ UNCHANGED <<store, next, w, now, tail, kills, stored, failed, killed,
                   blame, wrote, purged, unripe>>

\* remove_file of each listed name, whatever it names by now.
DeleteListed ==
    /\ ret.at = "delete"
    /\ IF ret.list = {}
       THEN /\ ret' = [ret EXCEPT !.at = "prune"]
            /\ UNCHANGED <<path, tmp, pruned, purged, unripe>>
       ELSE \E n \in ret.list :
            LET ino == IF n = "path" THEN path ELSE tmp
                gone == IF ino = None THEN {} ELSE ToSet(data[ino]) \cap Line
            IN /\ ret' = [ret EXCEPT !.list = @ \ {n}]
               /\ path' = IF n = "path" THEN None ELSE path
               /\ tmp' = IF n = "tmp" THEN None ELSE tmp
               /\ pruned' = pruned \cup InFlight
               /\ purged' = purged \cup gone
               /\ unripe' = unripe \cup ({l \in gone : wrote[l] >= ret.cutoff} \ late)
    /\ UNCHANGED <<depth, data, mtime, next, w, now, runs, tail, kills, stored, failed,
                   killed, overlapped, late, wrote>>

\* prune_empty_dirs, inside out, until nothing is removed.
Prune ==
    /\ ret.at = "prune"
    /\ LET empty == depth = 1 \/ (depth = 2 /\ path = None /\ tmp = None)
       IN IF empty
          THEN depth' = depth - 1 /\ pruned' = pruned \cup InFlight /\ UNCHANGED ret
          ELSE ret' = NoRun /\ UNCHANGED <<depth, pruned>>
    /\ UNCHANGED <<path, tmp, data, mtime, next, w, now, runs, tail, kills, stored,
                   failed, killed, overlapped, late, wrote, purged, unripe>>

-------------------------------------------------------------------------------
(* siemctl tail: cmd_tail in follow mode.                                   *)

\* Files that exist are followed from their end on.
Seed == /\ ~follow
        /\ follow' = TRUE
        /\ IF path = None THEN UNCHANGED <<offset, seen>>
           ELSE offset' = Len(data[path]) /\ seen' = <<path>>
        /\ UNCHANGED <<store, next, w, now, ret, runs, out, kills, stored, failed,
                       killed, blame, late, wrote, purged, unripe>>

\* or_insert(0): a path already tracked keeps its offset, also when it names
\* another file by now.
Discover == /\ follow /\ path # None /\ offset = Untracked
            /\ offset' = 0 /\ seen' = <<path>>
            /\ UNCHANGED <<store, next, w, now, ret, runs, follow, out, kills, stored,
                           failed, killed, blame, late, wrote, purged, unripe>>

\* Mutant: a partial line is printed and skipped.
PollPartial ==
        /\ follow /\ offset # Untracked /\ path # None
        /\ Len(data[path]) > offset
        /\ out' = Append(out, SubSeq(data[path], offset + 1, Len(data[path])))
        /\ offset' = Len(data[path])
        /\ UNCHANGED <<store, next, w, now, ret, runs, follow, seen, kills, stored,
                       failed, killed, blame, late, wrote, purged, unripe>>

\* The complete lines past the offset; a partial one is left for the next poll.
Poll == /\ follow /\ offset # Untracked /\ path # None
        /\ LET rest == SubSeq(data[path], offset + 1, Len(data[path]))
               ends == LineEnds(rest)
           IN /\ ends # << >>
              /\ out' = out \o CompleteLines(rest)
              /\ offset' = offset + Last(ends)
        /\ UNCHANGED <<store, next, w, now, ret, runs, follow, seen, kills, stored,
                       failed, killed, blame, late, wrote, purged, unripe>>

-------------------------------------------------------------------------------
WriterStep(p) == \/ Receive(p) \/ MakeDir(p) \/ Exists(p) \/ OpenFails(p)
                 \/ OpenAppend(p) \/ OpenTmp(p) \/ WriteText(p) \/ WriteNewline(p)
                 \/ Rename(p) \/ Kill(p)

Next == \/ \E p \in Writer : WriterStep(p)
        \/ Tick
        \/ \E days \in Days : Collect(days)
        \/ DeleteListed \/ Prune
        \/ Seed \/ Discover \/ Poll

Spec == Init /\ [][Next]_vars

-------------------------------------------------------------------------------
(* Properties.                                                              *)

\* Unit e of s ends a line that consists of the text of l, whole, and before it of
\* nothing but what the writers of torn lines have left without a newline.
EndsAt(s, l, e, torn) ==
    /\ s[e] = Newline /\ e > LineUnits[l]
    /\ \A i \in (e - LineUnits[l])..(e - 1) : s[i] = l
    /\ \A i \in 1..(e - 1 - LineUnits[l]) :
           s[i] \in torn \/ \E j \in i..(e - 1) : s[j] = Newline

\* l can be read back: it has a line of its own, one JSON object.
Readable(l) == path # None /\ \E e \in DOMAIN data[path] : EndsAt(data[path], l, e, {})

\* The text of l is there, but behind the text of a writer that was killed before
\* its newline: the line is no JSON and every reader skips it.
Glued(l) ==
    /\ path # None
    /\ \E e \in DOMAIN data[path] :
           /\ EndsAt(data[path], l, e, killed)
           /\ e - 1 > LineUnits[l] /\ data[path][e - 1 - LineUnits[l]] \in killed

\* A line that a write reported as stored stays readable until retention
\* removes its file, before or while it is written; otherwise it takes a second
\* writer at the same moment to lose it (the shared temp file, the rename over
\* a file just created, two writes for one line), or a writer that was killed
\* before it between the two writes of a line: append_or_create looks at nothing,
\* so the next line continues the torn one and is lost with it.  (The head of output.rs
\* promises more: "one JSON object per line", appends "atomic for small writes".)
StoredLinesStay ==
    \A l \in stored \ (purged \cup pruned \cup overlapped) : Readable(l) \/ Glued(l)

\* A write is refused only to one that retention or a second writer disturbed:
\* create_dir_all and open are the only guards against the pruning.
RefusedForAReason == failed \subseteq pruned \cup overlapped

\* Retention takes a line younger than its cutoff only when it was written, or
\* renamed into place, after the files were listed.
RetentionTakesTheOld == unripe = {}

\* tail prints no line twice, and none but what a writer ended with a newline: the
\* whole text of a line, behind what killed writers may have left before it. This
\* holds as long as its path has named one file only and no two writers met; the
\* first line may be the rest of one half written when tail started.
TailIsFaithful ==
    Len(seen) <= 1 /\ overlapped = {} =>
        \A i \in DOMAIN out :
            \/ i = 1
            \/ /\ \E l \in Line : /\ IsSuffix(Text(l), out[i])
                                  /\ ToSet(out[i]) \subseteq {l} \cup killed
               /\ \A j \in 1..(i - 1) : out[j] # out[i]
===============================================================================
