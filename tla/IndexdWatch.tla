----------------------------- MODULE IndexdWatch ------------------------------
(***************************************************************************)
(* The daemon of src/indexd/src/main.rs: how it finds out, through inotify *)
(* watches it adds one directory at a time, about the files `normalized`   *)
(* writes under data/raw/ while directories appear, the queue of the       *)
(* kernel overflows, the tree is wiped and the daemon is killed.  What     *)
(* becomes of a line once it is read is IndexDb's business: here `read`    *)
(* counts the lines of a file that index_file has taken.                   *)
(*                                                                         *)
(* The recursive functions add_recursive_watches and scan_existing are the *)
(* sets of calls still to be made, taken in any order; everything pending  *)
(* of the first comes before the second, as in the source.                 *)
(***************************************************************************)
EXTENDS Integers, Sequences, FiniteSets

CONSTANTS
    Dir,         \* directories: data/ and everything below data/raw/
    Data, Root,  \* data/ and data/raw/
    Parent,      \* the directory a directory is in
    File,        \* .jsonl files
    DirOf,       \* the directory a file is in
    MaxLines,    \* bound: lines written to a file
    QueueLimit,  \* events the kernel queues (fs.inotify.max_queued_events)
    WatchLimit,  \* watches a user may have (fs.inotify.max_user_watches)
    MaxWipes,    \* bound: `siemctl retention --days 0`
    MaxKills     \* bound: kills of the daemon

ASSUME TreeAssumption ==
    /\ Data \in Dir /\ Root \in Dir /\ Data # Root
    /\ Parent \in [Dir \ {Data} -> Dir] /\ Parent[Root] = Data
    /\ \A d \in Dir \ {Data} : Parent[d] = Data => d = Root
    /\ DirOf \in [File -> Dir \ {Data}]
    /\ File \cap Dir = {}

ASSUME BoundsAssumption ==
    /\ MaxLines \in Nat /\ QueueLimit \in Nat /\ WatchLimit \in Nat
    /\ MaxWipes \in Nat /\ MaxKills \in Nat

NoInode == -1

VARIABLES
    dirs, files,   \* what exists
    lines,         \* lines[f]: lines in f
    gen,           \* wipes so far: the inode of data/raw/, when it exists
    fresh,         \* directories and files whose mtime is within the lookback
    checked,       \* those a sweep has come after, since they were modified
    watch,         \* directories of the current tree the kernel watches
    queue,         \* inotify events not yet read
    known,         \* watch_paths: <<inode generation, directory>>
    phase,         \* "off", "boot", "loop" or "created"
    identity,      \* raw_dir_identity
    adding,        \* pending calls of add_recursive_watches
    listing,       \* directories it has watched and not yet read
    scanning,      \* pending calls of scan_existing
    indexing,      \* files it found, pending calls of index_file
    read,          \* read[f]: lines of f that index_file has taken
    kills,
    trouble        \* history: what went wrong in this life of the daemon

tree   == <<dirs, files, lines, gen, fresh, checked>>
work   == <<adding, listing, scanning, indexing>>
daemon == <<known, phase, identity, work, read>>
vars   == <<tree, watch, queue, daemon, kills, trouble>>

Children(d) == {c \in dirs \ {Data} : Parent[c] = d}
FilesIn(d) == {f \in files : DirOf[f] = d}
Inode == IF Root \in dirs THEN gen ELSE NoInode
Wd(d) == <<IF d = Data THEN 0 ELSE gen, d>>

\* The directories from d up to Root, Root excluded: those in every set that
\* holds d and goes on to the parent.
Upward(S) == \A x \in S \ {Data, Root} : Parent[x] \in S
Above == [d \in Dir |-> {x \in Dir \ {Data, Root} :
                            \A S \in SUBSET Dir : d \in S /\ Upward(S) => x \in S}]

Init ==
    /\ dirs = {Data} /\ files = {} /\ lines = [f \in File |-> 0] /\ gen = 0
    /\ fresh = {} /\ checked = {} /\ watch = {} /\ queue = << >>
    /\ known = {} /\ phase = "off" /\ identity = NoInode
    /\ adding = {} /\ listing = {} /\ scanning = {} /\ indexing = {}
    /\ read = [f \in File |-> 0]
    /\ kills = 0 /\ trouble = {}

-------------------------------------------------------------------------------
(* The kernel.  An event that does not fit is dropped, and the overflow     *)
(* marker that replaces it matches no branch of the daemon's loop.          *)

Post(d, e) ==
    IF d \notin watch THEN UNCHANGED <<queue, trouble>>
    ELSE IF Len(queue) < QueueLimit
    THEN queue' = Append(queue, e) /\ UNCHANGED trouble
    ELSE trouble' = trouble \cup {"overflow"} /\ UNCHANGED queue

\* No sweep looks at the mtime of data/ or data/raw/.
Modified(xs) == fresh' = fresh \cup (xs \ {Data, Root}) /\ checked' = checked \ xs

(* normalized: create_dir_all, then temp + rename or append.               *)

\* Watching data/ for a data/raw/ that has just been created is too late.
Mkdir(d) ==
    /\ d \notin dirs /\ Parent[d] \in dirs
    /\ dirs' = dirs \cup {d}
    /\ Modified({d, Parent[d]})
    /\ IF d = Root /\ phase = "boot" /\ Data \in adding
       THEN trouble' = trouble \cup {"replaced"} /\ UNCHANGED queue
       ELSE Post(Parent[d], [kind |-> "create", wd |-> Wd(Parent[d]), name |-> d])
    /\ UNCHANGED <<files, lines, gen, watch, daemon, kills>>

\* The rename of the temporary file: IN_MOVED_TO.
CreateFile(f) ==
    /\ f \notin files /\ DirOf[f] \in dirs
    /\ files' = files \cup {f}
    /\ lines' = [lines EXCEPT ![f] = 1]
    /\ Modified({f, DirOf[f]})
    /\ Post(DirOf[f], [kind |-> "file", wd |-> Wd(DirOf[f]), name |-> f])
    /\ UNCHANGED <<dirs, gen, watch, daemon, kills>>

\* An append leaves the directory's mtime alone: IN_CLOSE_WRITE.
AppendLine(f) ==
    /\ f \in files /\ lines[f] < MaxLines
    /\ lines' = [lines EXCEPT ![f] = @ + 1]
    /\ Modified({f})
    /\ Post(DirOf[f], [kind |-> "file", wd |-> Wd(DirOf[f]), name |-> f])
    /\ UNCHANGED <<dirs, files, gen, watch, daemon, kills>>

\* `siemctl retention --days 0`: every file, then every directory that is
\* empty, data/raw/ included.  Watches die with their inodes.
Wipe ==
    /\ Root \in dirs /\ gen < MaxWipes
    /\ gen' = gen + 1
    /\ dirs' = {Data} /\ files' = {}
    /\ lines' = [f \in File |-> 0] /\ read' = [f \in File |-> 0]
    /\ fresh' = {} /\ checked' = {}
    /\ watch' = watch \cap {Data}
    /\ trouble' = IF phase \in {"boot", "created"}
                  THEN trouble \cup {"replaced"} ELSE trouble
    /\ UNCHANGED <<queue, known, phase, identity, work, kills>>

\* Fifteen minutes without a change.  A daemon in its loop sweeps three times
\* in that time.
Age(x) ==
    /\ x \in fresh
    /\ x \in File => x \in checked
    /\ fresh' = fresh \ {x}
    /\ UNCHANGED <<dirs, files, lines, gen, checked, watch, queue, daemon, kills, trouble>>

-------------------------------------------------------------------------------
(* The daemon.                                                             *)

Boot ==
    /\ phase = "off"
    /\ phase' = "boot"
    /\ adding' = {IF Root \in dirs THEN Root ELSE Data}
    /\ UNCHANGED <<tree, watch, queue, known, identity, listing, scanning,
                   indexing, read, kills, trouble>>

\* A watch that is refused ends the call: nothing below is watched either.
WatchDir(d) ==
    /\ d \in adding
    /\ adding' = adding \ {d}
    /\ IF d \notin dirs THEN UNCHANGED <<watch, known, listing, trouble>>
       ELSE IF d \notin watch /\ Cardinality(watch) >= WatchLimit
       THEN /\ trouble' = trouble \cup {"refused"}
            /\ UNCHANGED <<watch, known, listing>>
       ELSE /\ watch' = watch \cup {d}
            /\ known' = known \cup {Wd(d)}
            /\ listing' = IF d = Data THEN listing ELSE listing \cup {d}
            /\ UNCHANGED trouble
    /\ UNCHANGED <<tree, queue, phase, identity, scanning, indexing, read, kills>>

ListDir(d) ==
    /\ d \in listing
    /\ listing' = listing \ {d}
    /\ adding' = adding \cup Children(d)
    /\ UNCHANGED <<tree, watch, queue, known, phase, identity, scanning, indexing,
                   read, kills, trouble>>

Watched == adding = {} /\ listing = {}

ScanDir(d) ==
    /\ Watched /\ d \in scanning
    /\ scanning' = (scanning \ {d}) \cup Children(d)
    /\ indexing' = indexing \cup FilesIn(d)
    /\ UNCHANGED <<tree, watch, queue, known, phase, identity, adding, listing,
                   read, kills, trouble>>

\* index_file reads to the end of the file.
IndexFile(f) ==
    /\ Watched /\ f \in indexing
    /\ indexing' = indexing \ {f}
    /\ read' = [read EXCEPT ![f] = lines[f]]
    /\ UNCHANGED <<tree, watch, queue, known, phase, identity, adding, listing,
                   scanning, kills, trouble>>

Scanned == Watched /\ scanning = {} /\ indexing = {}

\* dir_identity: after the watches and before the scan at startup, after both
\* when the directory was announced by an event.
Identify ==
    /\ \/ phase = "boot" /\ Watched /\ scanning' = {Root}
       \/ phase = "created" /\ Scanned /\ UNCHANGED scanning
    /\ identity' = Inode
    /\ phase' = "loop"
    /\ UNCHANGED <<tree, watch, queue, known, adding, listing, indexing, read,
                   kills, trouble>>

Idle == phase = "loop" /\ Scanned

\* Mutant: a new directory is watched and not scanned.
HandleCreateWatchOnly ==
    /\ Idle /\ queue # << >> /\ Head(queue).kind = "create"
    /\ LET d == Head(queue).name
           found == d \in dirs /\ (Head(queue).wd \in known \/ Parent[d] = Root)
       IN  /\ adding' = IF found THEN {d} ELSE {}
           /\ phase' = IF found /\ d = Root THEN "created" ELSE phase
    /\ queue' = Tail(queue)
    /\ UNCHANGED <<tree, watch, known, identity, listing, scanning, indexing, read,
                   kills, trouble>>

\* The path of a new directory is its watch descriptor's, or data/raw/'s.
HandleCreate ==
    /\ Idle /\ queue # << >> /\ Head(queue).kind = "create"
    /\ LET d == Head(queue).name
           found == d \in dirs /\ (Head(queue).wd \in known \/ Parent[d] = Root)
       IN  /\ adding' = IF found THEN {d} ELSE {}
           /\ scanning' = adding'
           /\ phase' = IF found /\ d = Root THEN "created" ELSE phase
    /\ queue' = Tail(queue)
    /\ UNCHANGED <<tree, watch, known, identity, listing, indexing, read, kills, trouble>>

\* Without a known descriptor the first file of that name is taken instead.
HandleFile ==
    /\ Idle /\ queue # << >> /\ Head(queue).kind = "file"
    /\ \E f \in IF Head(queue).wd \in known \/ files = {} THEN {Head(queue).name} ELSE files :
          read' = [read EXCEPT ![f] = lines[f]]
    /\ queue' = Tail(queue)
    /\ UNCHANGED <<tree, watch, known, phase, identity, work, kills, trouble>>

\* The loop comes to the sweep and to the health check when read_events would block;
\* after the poll, and while they are at work, events may wait again.

\* scan_recent: a directory is entered only if its own mtime is recent.
SweptFiles == {f \in files \cap fresh : Above[DirOf[f]] \subseteq fresh}

Sweep ==
    /\ Idle
    /\ read' = [f \in File |-> IF f \in SweptFiles THEN lines[f] ELSE read[f]]
    /\ checked' = checked \cup (files \cap fresh)
    /\ UNCHANGED <<dirs, files, lines, gen, fresh, watch, queue, known, phase,
                   identity, work, kills, trouble>>

\* Mutant: the new data/raw/ is watched and not scanned.
HealthCheckWatchOnly ==
    /\ Idle /\ identity # Inode
    /\ identity' = Inode
    /\ IF Root \in dirs
       THEN known' = {} /\ adding' = {Root} /\ UNCHANGED watch
       ELSE known' = {Wd(Data)} /\ watch' = watch \cup {Data} /\ UNCHANGED adding
    /\ UNCHANGED <<tree, queue, phase, listing, scanning, indexing, read, kills, trouble>>

HealthCheck ==
    /\ Idle /\ identity # Inode
    /\ identity' = Inode
    /\ IF Root \in dirs
       THEN /\ known' = {} /\ adding' = {Root} /\ scanning' = {Root}
            /\ UNCHANGED watch
       ELSE /\ known' = {Wd(Data)} /\ watch' = watch \cup {Data}
            /\ UNCHANGED <<adding, scanning>>
    /\ UNCHANGED <<tree, queue, phase, listing, indexing, read, kills, trouble>>

\* SIGKILL, which is also how systemd stops the daemon.  What was committed to
\* the index stays; the next life scans everything.
Kill ==
    /\ phase # "off" /\ kills < MaxKills
    /\ kills' = kills + 1
    /\ phase' = "off" /\ watch' = {} /\ queue' = << >> /\ known' = {}
    /\ adding' = {} /\ listing' = {} /\ scanning' = {} /\ indexing' = {}
    /\ trouble' = {}
    /\ UNCHANGED <<tree, identity, read>>

Normalized == (\E d \in Dir \ {Data} : Mkdir(d))
              \/ (\E f \in File : CreateFile(f) \/ AppendLine(f))

Indexd == \/ Boot \/ Identify \/ HandleCreate \/ HandleFile
          \/ \E d \in Dir : WatchDir(d) \/ ListDir(d) \/ ScanDir(d)
          \/ \E f \in File : IndexFile(f)

Next == \/ Normalized
        \/ Indexd
        \/ Sweep
        \/ HealthCheck
        \/ Wipe
        \/ \E x \in Dir \cup File : Age(x)
        \/ Kill

Spec == Init /\ [][Next]_vars

\* The loop keeps running, and with it the check of data/raw/ when there is no event
\* to read; nothing is assumed of the writers.
FairSpec == Spec /\ WF_vars(Indexd) /\ WF_vars(HealthCheck /\ queue = << >>)

-------------------------------------------------------------------------------
Queued(k, x) == \E i \in DOMAIN queue : queue[i].kind = k /\ queue[i].name = x

\* f's directory or one above it is still to be scanned, or to be announced.
ScanPending(f) == \E d \in {Root} \cup Above[DirOf[f]] :
                      d \in scanning \/ Queued("create", d)

\* Watching a directory before looking into it leaves no gap, whatever
\* normalized does in between: a line the daemon has not read is in a file it
\* was told about or is about to scan, or data/raw/ is not the directory it
\* remembers.  Only a dropped event, a refused watch, or a data/raw/ replaced
\* before its identity was recorded can make it forget a line.
NoForgottenLine ==
    trouble = {} /\ phase \in {"loop", "created"} =>
        \A f \in files : read[f] < lines[f] =>
            \/ Queued("file", f)
            \/ f \in indexing
            \/ ScanPending(f)
            \/ phase = "loop" /\ identity # Inode

\* Every line is eventually read, across kills and a wipe of the tree, unless
\* one of the three troubles occurred or the file is gone.
EveryLineIsRead ==
    \A f \in File : \A n \in 1..MaxLines :
        lines[f] >= n ~> read[f] >= n \/ lines[f] < n \/ trouble # {}
===============================================================================
