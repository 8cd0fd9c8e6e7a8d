------------------------------- MODULE IndexDb --------------------------------
(***************************************************************************)
(* The per-hour SQLite databases below data/index/: src/indexd/src/db.rs   *)
(* and parser.rs, the daemon that keeps connections to them, and the       *)
(* one-shot commands of src/indexd/src/main.rs (--clear, --reindex-all,    *)
(* --reindex-new, --backfill, --no-watch), which another process of the    *)
(* same program runs over the same files.  siemctl reads a database and    *)
(* its retention command removes files.                                    *)
(*                                                                         *)
(* A file has a name and an inode: whoever unlinks the name leaves the     *)
(* inode to those who have it open, and with the last of them it is gone.  *)
(* raw and disk are the names, files and db the inodes.  One raw file      *)
(* stands for an hour; a line is its number in the order of writing, its   *)
(* byte offset its position in the file.                                   *)
(* When a file event is due is IndexdWatch's business, and so are the      *)
(* sweep and the health check, which read files again as an event does.    *)
(***************************************************************************)
EXTENDS Integers, Sequences, FiniteSets, FiniteSetsExt, Functions

CONSTANTS
    Hour,         \* hour buckets, ordered
    MaxLines,     \* bound: lines written for an hour
    Malformed,    \* numbers of the lines parse_line rejects
    BatchSize,    \* lines to a transaction
    MaxCommands,  \* bound: one-shot commands
    MaxTroubles   \* bound: kills, signals, failures, removals, readers

ASSUME BoundsAssumption ==
    /\ Hour \subseteq Nat \ {0} /\ IsFiniteSet(Hour)
    /\ MaxLines \in [Hour -> Nat] /\ Malformed \subseteq Nat
    /\ BatchSize \in Nat \ {0}
    /\ MaxCommands \in Nat /\ MaxTroubles \in Nat

Process == {"daemon", "tool"}
None == 0      \* no file of this name, no connection
NoJob == [hour |-> None, file |-> None, pos |-> 0]

VARIABLES
    raw, files,   \* the raw file of an hour; the lines of each inode
    written,      \* lines written for an hour so far
    disk, db,     \* the database of an hour; rows and journal mode of each inode
    conn,         \* connections: the inode a process has open for an hour
    phase,        \* the daemon: "down", "scan" or "watch"
    pending,      \* hours whose file has an event the daemon has not read
    todo, job,    \* hours a process has still to scan; the index_file it is in
    command,      \* what the tool was told to do
    unlink,       \* hours whose database the tool has still to clear
    stop,         \* the tool's shutdown flag
    reader,       \* the database siemctl has open
    commands, troubles,
    excuse,       \* history: why an hour's index may lack lines
    outlived,     \* history: hours whose index may hold lines of an older file
    stranded      \* history: how databases were left without a connection

daemon  == <<phase, pending>>
tool    == <<command, unlink, stop, commands>>
store   == <<raw, files, written>>
work    == <<todo, job>>
history == <<excuse, outlived, stranded>>
vars    == <<store, disk, db, conn, daemon, work, tool, reader, troubles, history>>

EmptyFcn == [i \in {} |-> i]

Init ==
    /\ raw = [h \in Hour |-> None] /\ files = EmptyFcn /\ written = [h \in Hour |-> 0]
    /\ disk = [h \in Hour |-> None] /\ db = EmptyFcn
    /\ conn = [p \in Process |-> [h \in Hour |-> None]]
    /\ phase = "down" /\ pending = {}
    /\ todo = [p \in Process |-> {}] /\ job = [p \in Process |-> NoJob]
    /\ command = "none" /\ unlink = {} /\ stop = FALSE
    /\ reader = None
    /\ commands = 0 /\ troubles = 0
    /\ excuse = [h \in Hour |-> {}] /\ outlived = {} /\ stranded = {}

Present == {h \in Hour : raw[h] # None}
Indexed == {h \in Hour : disk[h] # None}
OpenBy(p) == {h \in Hour : conn[p][h] # None}
Rows(h) == IF disk[h] = None THEN {} ELSE db[disk[h]].rows
Excused(h, why) == excuse' = [excuse EXCEPT ![h] = @ \cup {why}]
\* The inodes somebody names or has open, and a number that is none.
LiveFiles == ({raw[h] : h \in Hour} \cup {job[p].file : p \in Process}) \ {None}
LiveDbs == ({disk[h] : h \in Hour} \cup {conn[p][h] : p \in Process, h \in Hour} \cup {reader})
               \ {None}
NewInode(of) == CHOOSE n \in 1..Cardinality(DOMAIN of) + 1 : n \notin DOMAIN of
With(of, i, new) == [k \in DOMAIN of \cup {i} |-> IF k = i THEN new ELSE of[k]]
Trouble == troubles < MaxTroubles /\ troubles' = troubles + 1

-------------------------------------------------------------------------------
(* normalized and retention.                                                *)

\* A line is appended to the hour's file, which is created if need be.
Store(h) ==
    /\ written[h] < MaxLines[h]
    /\ written' = [written EXCEPT ![h] = @ + 1]
    /\ IF raw[h] = None
       THEN /\ files' = With(files, NewInode(files), <<written'[h]>>)
            /\ raw' = [raw EXCEPT ![h] = NewInode(files)]
       ELSE files' = [files EXCEPT ![raw[h]] = Append(@, written'[h])] /\ UNCHANGED raw
    /\ pending' = IF phase = "down" THEN pending ELSE pending \cup {h}
    /\ UNCHANGED <<disk, db, conn, phase, work, tool, reader, troubles, history>>

\* A database nobody names any more; what is in it cannot be searched.
Unlink(h, why) ==
    /\ UNCHANGED <<conn, reader>>
    /\ disk' = [disk EXCEPT ![h] = None]
    /\ db' = Restrict(db, LiveDbs')
    /\ IF h \in Indexed THEN Excused(h, why) ELSE UNCHANGED excuse
    /\ outlived' = IF \E p \in Process : job[p].hour = h THEN outlived ELSE outlived \ {h}
    /\ stranded' = {s \in stranded : s[1] # h}

\* Files are old each by its own mtime: either can go without the other.
RemoveRaw(h) ==
    /\ h \in Present /\ Trouble
    /\ raw' = [raw EXCEPT ![h] = None]
    /\ UNCHANGED work /\ files' = Restrict(files, LiveFiles')
    /\ outlived' = IF h \in Indexed \/ \E p \in Process : job[p].hour = h
                   THEN outlived \cup {h} ELSE outlived
    /\ UNCHANGED <<written, disk, db, conn, daemon, tool, reader, excuse, stranded>>

RemoveDb(h) ==
    /\ h \in Indexed /\ Trouble /\ Unlink(h, "removed")
    /\ UNCHANGED <<store, daemon, work, tool>>

(* siemctl.                                                                 *)

ReaderOpen(h) ==
    /\ reader = None /\ h \in Indexed /\ Trouble /\ reader' = disk[h]
    /\ UNCHANGED <<store, disk, db, conn, daemon, work, tool, history>>

ReaderClose ==
    /\ reader # None /\ reader' = None
    /\ UNCHANGED <<disk, conn>> /\ db' = Restrict(db, LiveDbs')
    /\ UNCHANGED <<store, daemon, work, tool, troubles, history>>

-------------------------------------------------------------------------------
(* index_file, by either process.                                           *)

\* The file is closed.
EndFile(p) ==
    /\ job' = [job EXCEPT ![p] = NoJob]
    /\ UNCHANGED <<raw, written>> /\ files' = Restrict(files, LiveFiles')

\* The next file of a scan, or of an event.
Take(p, h) ==
    /\ job[p] = NoJob
    /\ \/ /\ h \in todo[p] /\ (p = "tool" => command = "backfill" \/ unlink = {})
          /\ todo' = [todo EXCEPT ![p] = @ \ {h}] /\ UNCHANGED pending
       \/ /\ p = "daemon" /\ phase = "watch" /\ todo[p] = {} /\ h \in pending
          /\ pending' = pending \ {h} /\ UNCHANGED todo
    /\ UNCHANGED <<phase, tool>>

\* A file that has gone in the meantime is skipped.
SkipFile(p, h) ==
    /\ Take(p, h) /\ h \notin Present
    /\ UNCHANGED <<store, disk, db, conn, job, reader, troubles, history>>

\* File::open and open_bucket: the cached connection, or one to a new or an
\* existing database, which is switched to WAL.
BeginFile(p, h) ==
    /\ Take(p, h) /\ h \in Present
    /\ job' = [job EXCEPT ![p] = [hour |-> h, file |-> raw[h], pos |-> 0]]
    /\ \/ conn[p][h] # None /\ UNCHANGED <<disk, db, conn, stranded>>
       \/ /\ conn[p][h] = None /\ disk[h] = None
          /\ db' = With(db, NewInode(db), [rows |-> {}, wal |-> TRUE])
          /\ disk' = [disk EXCEPT ![h] = NewInode(db)]
          /\ conn' = [conn EXCEPT ![p][h] = NewInode(db)]
          /\ UNCHANGED stranded
       \/ /\ conn[p][h] = None /\ disk[h] # None
          /\ db' = [db EXCEPT ![disk[h]].wal = TRUE]
          /\ conn' = [conn EXCEPT ![p][h] = disk[h]]
          /\ stranded' = {s \in stranded : s[1] # h}
          /\ UNCHANGED disk
    /\ UNCHANGED <<store, reader, troubles, excuse, outlived>>

\* A reader keeps a rollback-mode database from being switched to WAL, and
\* after the busy timeout index_file gives up.
OpenBucketFails(p, h) ==
    /\ Take(p, h) /\ h \in Present
    /\ conn[p][h] = None /\ disk[h] # None
    /\ ~db[disk[h]].wal /\ reader = disk[h]
    /\ Excused(h, "failed")
    /\ UNCHANGED <<store, disk, db, conn, job, reader, troubles, outlived, stranded>>

\* parse_line accepts the line at this offset.
Parsed(f, o) == files[f][o] \notin Malformed

\* Mutant: the offset counts the lines parsed and not those read.
OffsetOfParsed(f, o) == Cardinality({k \in 1..o : Parsed(f, k)})

\* byte_offset of a line: all the lines before it count.
Offset(f, o) == o

Batch(j, to) == {[at |-> Offset(j.file, o), line |-> files[j.file][o]] :
                     o \in {k \in j.pos + 1..to : Parsed(j.file, k)}}

\* The line that fills the batch, if there are so many.
Full(j) == {to \in j.pos + 1..Len(files[j.file]) :
                Parsed(j.file, to) /\ Cardinality(Batch(j, to)) = BatchSize}

\* INSERT OR IGNORE under UNIQUE(raw_file, byte_offset).
Insert(rows, new) == rows \cup {r \in new : \A s \in rows : s.at # r.at}

FlushBatch(p) ==
    LET j == job[p] IN
    /\ j # NoJob
    /\ \E to \in Full(j) :
          /\ db' = [db EXCEPT ![conn[p][j.hour]].rows = Insert(@, Batch(j, to))]
          /\ job' = [job EXCEPT ![p].pos = to]
    /\ UNCHANGED <<store, disk, conn, daemon, todo, tool, reader, troubles, history>>

\* A transaction that fails ends index_file; the file waits for the next
\* event or scan.
FlushFails(p) ==
    LET j == job[p] IN
    /\ j # NoJob /\ Batch(j, Len(files[j.file])) # {} /\ Trouble
    /\ EndFile(p)
    /\ Excused(j.hour, "failed")
    /\ UNCHANGED <<disk, db, conn, daemon, todo, tool, reader, outlived, stranded>>

\* Mutant: the last, incomplete batch is forgotten.
FinishFileUnflushed(p) ==
    LET j == job[p] IN
    /\ j # NoJob /\ Full(j) = {}
    /\ EndFile(p)
    /\ excuse' = [excuse EXCEPT ![j.hour] =
                      IF conn[p][j.hour] # disk[j.hour] THEN @ \cup {"orphan"}
                      ELSE IF j.file = raw[j.hour] THEN {} ELSE @]
    /\ UNCHANGED <<disk, db, conn, daemon, todo, tool, reader, troubles, outlived, stranded>>

\* End of file: the last batch is flushed.  Having read the whole file into the
\* database of that name makes up for all that went wrong before.
FinishFile(p) ==
    LET j == job[p] IN
    /\ j # NoJob /\ Full(j) = {}
    /\ db' = [db EXCEPT ![conn[p][j.hour]].rows = Insert(@, Batch(j, Len(files[j.file])))]
    /\ EndFile(p)
    /\ excuse' = [excuse EXCEPT ![j.hour] =
                      IF conn[p][j.hour] # disk[j.hour] THEN @ \cup {"orphan"}
                      ELSE IF j.file = raw[j.hour] THEN {} ELSE @]
    /\ UNCHANGED <<disk, conn, daemon, todo, tool, reader, troubles, outlived, stranded>>

IndexFile(p) == \/ \E h \in Hour : SkipFile(p, h) \/ BeginFile(p, h) \/ OpenBucketFails(p, h)
                \/ FlushBatch(p) \/ FlushFails(p) \/ FinishFile(p)

-------------------------------------------------------------------------------
(* evict_idle and close_all.                                                *)

\* PRAGMA journal_mode=DELETE needs the database to itself.
Busy(p, i) == reader = i \/ \E q \in Process \ {p} : \E h \in Hour : conn[q][h] = i

\* Mutant: eviction checkpoints and leaves the database in WAL mode.
CloseCheckpointed(p, K) ==
    /\ UNCHANGED <<disk, reader>>
    /\ conn' = [conn EXCEPT ![p] = [h \in Hour |-> IF h \in K THEN None ELSE @[h]]]
    /\ db' = Restrict(db, LiveDbs')
    /\ stranded' = stranded \cup {<<h, "busy">> :
                        h \in {k \in K : conn[p][k] = disk[k] /\ Busy(p, disk[k])}}

\* Out of WAL mode if that is possible, and the connection dropped anyway.
Close(p, K) ==
    LET of == {conn[p][h] : h \in K} IN
    /\ UNCHANGED <<disk, reader>>
    /\ conn' = [conn EXCEPT ![p] = [h \in Hour |-> IF h \in K THEN None ELSE @[h]]]
    /\ db' = [i \in LiveDbs' |-> [db[i] EXCEPT !.wal = @ /\ (i \notin of \/ Busy(p, i))]]
    /\ stranded' = stranded \cup {<<h, "busy">> :
                        h \in {k \in K : conn[p][k] = disk[k] /\ Busy(p, disk[k])}}

\* A process that dies converts nothing.
Drop(p) ==
    /\ UNCHANGED <<disk, reader, raw, written>>
    /\ conn' = [conn EXCEPT ![p] = [h \in Hour |-> None]]
    /\ db' = Restrict(db, LiveDbs')
    /\ job' = [job EXCEPT ![p] = NoJob]
    /\ files' = Restrict(files, LiveFiles')
    /\ todo' = [todo EXCEPT ![p] = {}]
    /\ stranded' = stranded \cup {<<h, p>> : h \in {k \in OpenBy(p) : conn[p][k] = disk[k]}}

-------------------------------------------------------------------------------
(* The daemon.                                                              *)

Idle(p) == job[p] = NoJob /\ todo[p] = {}

\* systemd, and the initial scan of all of data/raw/.
Start ==
    /\ phase = "down" /\ phase' = "scan"
    /\ todo' = [todo EXCEPT !["daemon"] = Present]
    /\ UNCHANGED <<store, disk, db, conn, pending, job, tool, reader, troubles, history>>

ScanDone ==
    /\ phase = "scan" /\ Idle("daemon") /\ phase' = "watch"
    /\ UNCHANGED <<store, disk, db, conn, pending, work, tool, reader, troubles, history>>

\* The connections that nothing was written to for IDLE_EVICT_AFTER.
EvictIdle(K) ==
    /\ phase = "watch" /\ Idle("daemon") /\ K # {} /\ K \subseteq OpenBy("daemon")
    /\ Close("daemon", K)
    /\ UNCHANGED <<store, daemon, work, tool, troubles, excuse, outlived>>

\* KillSignal=SIGKILL: so does `systemctl restart` end it.
Kill ==
    /\ phase # "down" /\ Trouble /\ phase' = "down" /\ pending' = {}
    /\ Drop("daemon")
    /\ UNCHANGED <<tool, excuse, outlived>>

Daemon == Start \/ ScanDone \/ IndexFile("daemon")

-------------------------------------------------------------------------------
(* The one-shot commands.                                                   *)

\* newest_indexed_bucket and the hours from there on; the boundary is cleared
\* only if it can be indexed again.
Newest == Max(Indexed)
Eligible == {h \in Present : h >= Newest}

Invoke ==
    /\ command = "none" /\ commands < MaxCommands /\ commands' = commands + 1
    /\ \/ command' \in {"clear", "all"} /\ unlink' = Indexed /\ UNCHANGED todo
       \/ /\ command' = "scan" /\ unlink' = {}
          /\ todo' = [todo EXCEPT !["tool"] = Present]
       \/ /\ command' = "new" /\ Indexed # {}
          /\ unlink' = {Newest} \cap Present
          /\ todo' = [todo EXCEPT !["tool"] = Eligible]
       \/ /\ command' = "new" /\ Indexed = {} /\ unlink' = {}
          /\ todo' = [todo EXCEPT !["tool"] = Present]
       \/ /\ command' = "backfill" /\ unlink' \in SUBSET Hour \ {{}} /\ UNCHANGED todo
    /\ UNCHANGED <<store, disk, db, conn, daemon, job, stop, reader, troubles, history>>

\* clear_indexes, one bucket's files after the other; clear_bucket.
ClearIndex(h) ==
    /\ command \in {"clear", "all", "new"} /\ h \in unlink
    /\ unlink' = unlink \ {h} /\ Unlink(h, "cleared")
    /\ UNCHANGED <<store, daemon, work, command, stop, commands, troubles>>

\* --reindex-all goes on as --no-watch does.
ListRaw ==
    /\ command = "all" /\ unlink = {} /\ command' = "scan"
    /\ todo' = [todo EXCEPT !["tool"] = Present]
    /\ UNCHANGED <<store, disk, db, conn, daemon, job, unlink, stop, commands, reader, troubles,
                   history>>

\* --backfill: the next bucket, if it has a directory.  The flag that a signal
\* sets is not looked at here but in scan_existing.
ClearBucket(h) ==
    /\ command = "backfill" /\ h \in unlink /\ Idle("tool")
    /\ unlink' = unlink \ {h}
    /\ IF h \in Present
       THEN /\ Unlink(h, "cleared")
            /\ todo' = [todo EXCEPT !["tool"] = IF stop THEN {} ELSE {h}]
       ELSE UNCHANGED <<disk, db, conn, reader, history, todo>>
    /\ UNCHANGED <<store, daemon, job, command, stop, commands, troubles>>

\* SIGINT or SIGTERM: the file at hand is still indexed.
Interrupt ==
    /\ command \in {"new", "backfill", "scan"} /\ ~stop /\ Trouble
    /\ stop' = TRUE /\ todo' = [todo EXCEPT !["tool"] = {}]
    /\ UNCHANGED <<store, disk, db, conn, daemon, job, command, unlink, commands, reader, history>>

\* close_all, and the report that the command is complete.
Exit ==
    /\ command \notin {"none", "all"} /\ unlink = {} /\ Idle("tool")
    /\ command' = "none" /\ stop' = FALSE
    /\ Close("tool", OpenBy("tool"))
    /\ UNCHANGED <<store, daemon, work, unlink, commands, troubles, excuse, outlived>>

KillTool ==
    /\ command # "none" /\ Trouble
    /\ command' = "none" /\ stop' = FALSE /\ unlink' = {}
    /\ Drop("tool")
    /\ UNCHANGED <<daemon, commands, excuse, outlived>>

Tool == \/ IndexFile("tool") \/ ListRaw \/ Exit
        \/ \E h \in Hour : ClearIndex(h) \/ ClearBucket(h)

-------------------------------------------------------------------------------
Next ==
    \/ \E h \in Hour : Store(h) \/ RemoveRaw(h) \/ RemoveDb(h) \/ ReaderOpen(h)
    \/ ReaderClose
    \/ Daemon \/ Kill
    \/ \E K \in SUBSET Hour : EvictIdle(K)
    \/ Tool \/ Invoke \/ Interrupt \/ KillTool

Spec == Init /\ [][Next]_vars

-------------------------------------------------------------------------------
\* Nothing that concerns this hour is still to be done.
Quiet(h) ==
    /\ phase = "watch" /\ h \notin pending \cup unlink
    /\ \A p \in Process : h \notin todo[p] /\ job[p].hour # h

\* Whatever the daemon and the commands do to each other, once an hour is quiet
\* each line of its file that can be parsed has its row in the database siemctl
\* finds, unless since the last complete pass over the file the database was
\* removed or cleared, a transaction failed, or the daemon indexed lines into a
\* database that had already been unlinked.
NothingMissing ==
    \A h \in Present : Quiet(h) /\ excuse[h] = {} =>
        {o \in DOMAIN files[raw[h]] : Parsed(raw[h], o)} \subseteq {r.at : r \in Rows(h)}

\* byte_offset leads siemctl to the line the row was made from, unless the file
\* was removed before its database, and written anew.
RowsPointAtTheirLine ==
    \A h \in Present \ outlived : \A r \in Rows(h) :
        r.at \in DOMAIN files[raw[h]] /\ files[raw[h]][r.at] = r.line

\* A database that nobody has open is in rollback mode, as a reader without
\* write permission needs it, unless somebody else was using it when it was
\* closed, or the process that had it open was killed.  Killing the daemon
\* strands no database whose raw file is still there: the initial scan of the
\* next life opens it again, for the eviction to convert.
UnattendedIsRollback ==
    \A h \in Indexed :
        db[disk[h]].wal /\ (\A p \in Process : conn[p][h] # disk[h]) =>
            \/ <<h, "busy">> \in stranded
            \/ <<h, "tool">> \in stranded
            \/ <<h, "daemon">> \in stranded /\ (phase # "watch" \/ h \notin Present \/ h \in pending)
===============================================================================
