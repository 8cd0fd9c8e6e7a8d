---------------------------- MODULE IndexDb_proofs -----------------------------
(***************************************************************************)
(* The per-hour databases, for any hours, lines and batch size, and any    *)
(* number of commands, kills, failures, removals and readers: rows lead to *)
(* the line they were made from, no parsed line of a quiet hour is without *)
(* a row, and no database is left in WAL mode without a reason.            *)
(***************************************************************************)
EXTENDS IndexDb, TLAPS, FiniteSetTheorems

Row == [at : Nat, line : Nat]
Database == [rows : SUBSET Row, wal : BOOLEAN]

Why == {"removed", "cleared", "failed", "orphan"}

TypeInv ==
    /\ raw \in [Hour -> Nat] /\ disk \in [Hour -> Nat] /\ written \in [Hour -> Nat]
    /\ files \in [DOMAIN files -> Seq(Nat)] /\ IsFiniteSet(DOMAIN files)
    /\ db \in [DOMAIN db -> Database] /\ IsFiniteSet(DOMAIN db)
    /\ conn \in [Process -> [Hour -> Nat]]
    /\ todo \in [Process -> SUBSET Hour]
    /\ job \in [Process -> [hour : Hour \cup {None}, file : Nat, pos : Nat]]
    /\ reader \in Nat /\ excuse \in [Hour -> SUBSET Why]

\* An inode that is named or open exists, and none serves two hours.
InodeInv ==
    /\ \A h \in Hour : raw[h] # None => raw[h] \in DOMAIN files
    /\ \A p \in Process : job[p].file # None => job[p].file \in DOMAIN files
    /\ \A h \in Hour : disk[h] # None => disk[h] \in DOMAIN db
    /\ \A p \in Process, h \in Hour : conn[p][h] # None => conn[p][h] \in DOMAIN db
    /\ reader # None => reader \in DOMAIN db
    /\ \A g, h \in Hour : raw[g] # None /\ raw[g] = raw[h] => g = h
    /\ \A p \in Process, h \in Hour : job[p].file # None /\ job[p].file = raw[h] => job[p].hour = h
    /\ \A g, h \in Hour : disk[g] # None /\ disk[g] = disk[h] => g = h
    /\ \A p \in Process, g, h \in Hour : conn[p][g] # None /\ conn[p][g] = disk[h] => g = h

\* What index_file has read has its rows in the database it has open.
Reading(p) == job[p].hour # None
Entered(j, rows) ==
    \A o \in 1..j.pos : o \in DOMAIN files[j.file]
                      /\ (Parsed(j.file, o) => \E r \in rows : r.at = o)
InJob(p) ==
    /\ ~ Reading(p) => job[p] = NoJob
    /\ Reading(p) => /\ job[p].file # None /\ conn[p][job[p].hour] # None
                     /\ Entered(job[p], db[conn[p][job[p].hour]].rows)
JobInv == \A p \in Process : InJob(p)

\* Unless the raw file was removed first, an hour's rows and whoever is about to
\* add some are of the file of that name.
RowsInv ==
    \A h \in Hour \ outlived :
        /\ raw[h] = None => disk[h] = None
        /\ \A p \in Process : job[p].hour = h => job[p].file = raw[h]
        /\ raw[h] # None => \A r \in Rows(h) :
                r.at \in DOMAIN files[raw[h]] /\ files[raw[h]][r.at] = r.line

\* An hour without an excuse is complete, or the daemon will read it once more.
Complete(h) == \A o \in DOMAIN files[raw[h]] : Parsed(raw[h], o) => \E r \in Rows(h) : r.at = o
Ahead(h) ==
    \/ h \in pending \/ h \in todo["daemon"]
    \/ job["daemon"].hour = h /\ job["daemon"].file = raw[h]
CoverInv ==
    phase # "down" =>
        \A h \in Present : excuse[h] = {} => Complete(h) \/ Ahead(h)

\* A database in WAL mode is open, or there is a reason that is still valid.
Attended(h) == \E p \in Process : conn[p][h] = disk[h]
WillReopen(h) ==
    \/ phase = "down"
    \/ phase = "scan" /\ h \in todo["daemon"]
    \/ h \notin Present \/ h \in pending
RollbackInv ==
    \A h \in Hour :
        /\ disk[h] # None /\ db[disk[h]].wal /\ ~ Attended(h) =>
              \/ <<h, "busy">> \in stranded
              \/ <<h, "tool">> \in stranded
              \/ <<h, "daemon">> \in stranded /\ WillReopen(h)
        /\ <<h, "daemon">> \in stranded => conn["daemon"][h] = None
        /\ \A s \in stranded : s[1] = h => disk[h] # None

IInv == TypeInv /\ InodeInv /\ JobInv /\ RowsInv /\ CoverInv /\ RollbackInv

(***************************************************************************)
(* Inodes.                                                                 *)
(***************************************************************************)

LEMMA NewInodes ==
  ASSUME NEW of, IsFiniteSet(DOMAIN of)
  PROVE  NewInode(of) \in Nat \ {None} /\ NewInode(of) \notin DOMAIN of
<1> DEFINE n == Cardinality(DOMAIN of)
<1>1. n \in Nat
  BY FS_CardinalityType
<1>2. Cardinality(1..n + 1) = n + 1
  BY <1>1, FS_Interval
<1>3. \E k \in 1..n + 1 : k \notin DOMAIN of
  <2>1. SUFFICES ASSUME 1..n + 1 \in SUBSET (DOMAIN of) PROVE FALSE
    OBVIOUS
  <2>2. n + 1 <= n
    BY <1>2, <2>1, FS_Subset
  <2>3. QED
    BY <1>1, <2>2
<1>4. NewInode(of) \in 1..n + 1 /\ NewInode(of) \notin DOMAIN of
  BY <1>3 DEF NewInode
<1>5. QED
  BY <1>1, <1>4 DEF None

LEMMA Withs ==
  ASSUME NEW of, IsFiniteSet(DOMAIN of), NEW i, NEW new
  PROVE  /\ DOMAIN With(of, i, new) = DOMAIN of \cup {i}
         /\ IsFiniteSet(DOMAIN With(of, i, new))
  BY FS_AddElement DEF With

LEMMA WithsType ==
  ASSUME NEW S, NEW of, of \in [DOMAIN of -> S], NEW i, NEW new \in S
  PROVE  With(of, i, new) \in [DOMAIN With(of, i, new) -> S]
<1>1. With(of, i, new) = [k \in DOMAIN of \cup {i} |-> IF k = i THEN new ELSE of[k]]
  BY DEF With
<1>2. \A k \in DOMAIN of \cup {i} : (IF k = i THEN new ELSE of[k]) \in S
  OBVIOUS
<1>3. QED
  BY <1>1, <1>2

\* Dropping names and connections keeps what the others name or have open.
LEMMA FilesLive ==
  ASSUME TypeInv, InodeInv,
         \A h \in Hour : raw'[h] = raw[h] \/ raw'[h] = None,
         \A p \in Process : job'[p].file = job[p].file \/ job'[p].file = None,
         files' = Restrict(files, LiveFiles')
  PROVE  /\ DOMAIN files' \subseteq DOMAIN files /\ IsFiniteSet(DOMAIN files')
         /\ \A i \in DOMAIN files' : files'[i] = files[i]
         /\ files' \in [DOMAIN files' -> Seq(Nat)]
         /\ \A h \in Hour : raw'[h] # None => raw'[h] \in DOMAIN files'
         /\ \A p \in Process : job'[p].file # None => job'[p].file \in DOMAIN files'
<1>1. /\ \A h \in Hour : raw'[h] # None => raw'[h] \in LiveFiles'
      /\ \A p \in Process : job'[p].file # None => job'[p].file \in LiveFiles'
      /\ \A i \in LiveFiles' : (\E h \in Hour : i = raw'[h]) \/ (\E p \in Process : i = job'[p].file)
  BY DEF LiveFiles
<1>2. None \notin LiveFiles'
  BY DEF LiveFiles
<1>3. LiveFiles' \in SUBSET DOMAIN files
  BY <1>1, <1>2 DEF InodeInv
<1>4. /\ DOMAIN files' = LiveFiles'
      /\ \A i \in DOMAIN files' : files'[i] = files[i]
  BY DEF Restrict
<1>5. IsFiniteSet(DOMAIN files')
  BY <1>3, <1>4, FS_Subset DEF TypeInv
<1>6. files' \in [DOMAIN files' -> Seq(Nat)]
  BY <1>3, <1>4 DEF TypeInv, Restrict
<1>7. QED
  BY <1>1, <1>3, <1>4, <1>5, <1>6

LEMMA DbsLive ==
  ASSUME TypeInv, InodeInv,
         \A h \in Hour : disk'[h] = disk[h] \/ disk'[h] = None,
         \A p \in Process, h \in Hour : conn'[p][h] = conn[p][h] \/ conn'[p][h] = None,
         reader' = reader \/ reader' = None
  PROVE  /\ LiveDbs' \subseteq DOMAIN db /\ IsFiniteSet(LiveDbs')
         /\ \A h \in Hour : disk'[h] # None => disk'[h] \in LiveDbs'
         /\ \A p \in Process, h \in Hour : conn'[p][h] # None => conn'[p][h] \in LiveDbs'
         /\ reader' # None => reader' \in LiveDbs'
<1>1. /\ \A h \in Hour : disk'[h] # None => disk'[h] \in LiveDbs'
      /\ \A p \in Process, h \in Hour : conn'[p][h] # None => conn'[p][h] \in LiveDbs'
      /\ reader' # None => reader' \in LiveDbs'
      /\ \A i \in LiveDbs' : i # None /\ \/ \E h \in Hour : i = disk'[h]
                                         \/ \E p \in Process, h \in Hour : i = conn'[p][h]
                                         \/ i = reader'
  BY DEF LiveDbs
<1>2. LiveDbs' \in SUBSET DOMAIN db
  BY <1>1 DEF InodeInv
<1>3. IsFiniteSet(LiveDbs')
  BY <1>2, FS_Subset DEF TypeInv
<1>4. QED
  BY <1>1, <1>2, <1>3

(***************************************************************************)
(* normalized and retention.                                               *)
(***************************************************************************)

LEMMA StoreKeeps ==
  ASSUME IInv, NEW h \in Hour, Store(h)
  PROVE  IInv'
<1> USE DEF IInv
<1>1. /\ written' = [written EXCEPT ![h] = @ + 1]
      /\ pending' = IF phase = "down" THEN pending ELSE pending \cup {h}
      /\ disk' = disk /\ db' = db /\ conn' = conn /\ phase' = phase /\ todo' = todo
      /\ job' = job /\ reader' = reader /\ excuse' = excuse /\ outlived' = outlived
      /\ stranded' = stranded
  BY DEF Store, work, history
<1>2. written'[h] \in Nat /\ written' \in [Hour -> Nat]
  BY <1>1 DEF TypeInv
<1>3. \/ /\ raw[h] = None
         /\ files' = With(files, NewInode(files), <<written'[h]>>)
         /\ raw' = [raw EXCEPT ![h] = NewInode(files)]
      \/ /\ raw[h] # None
         /\ files' = [files EXCEPT ![raw[h]] = Append(@, written'[h])] /\ raw' = raw
  BY DEF Store
<1>4. NewInode(files) \in Nat \ {None} /\ NewInode(files) \notin DOMAIN files
  BY NewInodes DEF TypeInv
<1>5. /\ raw' \in [Hour -> Nat] /\ files' \in [DOMAIN files' -> Seq(Nat)]
      /\ IsFiniteSet(DOMAIN files')
      /\ raw'[h] # None /\ \A g \in Hour \ {h} : raw'[g] = raw[g]
      /\ raw[h] # None => raw' = raw
      /\ \A g \in Hour : raw'[g] # None => raw'[g] \in DOMAIN files'
      /\ \A i \in DOMAIN files : i # raw[h] => files'[i] = files[i]
      /\ \A i \in DOMAIN files :
            /\ i \in DOMAIN files'
            /\ \A o \in DOMAIN files[i] : o \in DOMAIN files'[i] /\ files'[i][o] = files[i][o]
  <2>1. CASE raw[h] = None
    <3> DEFINE n == NewInode(files)  new == <<written'[h]>>
    <3>1. files' = With(files, n, new) /\ raw' = [raw EXCEPT ![h] = n]
      BY <1>3, <2>1
    <3>2. new \in Seq(Nat)
      BY <1>2
    <3>3. n \in Nat \ {None} /\ n \notin DOMAIN files
      BY <1>4
    <3> HIDE DEF n, new
    <3>4. /\ DOMAIN files' = DOMAIN files \cup {n} /\ IsFiniteSet(DOMAIN files')
          /\ files'[n] = new
          /\ \A k \in DOMAIN files \ {n} : files'[k] = files[k]
      BY <3>1, Withs DEF TypeInv, With
    <3>5. files' \in [DOMAIN files' -> Seq(Nat)]
      <4>1. files \in [DOMAIN files -> Seq(Nat)]
        BY DEF TypeInv
      <4>2. With(files, n, new) \in [DOMAIN With(files, n, new) -> Seq(Nat)]
        BY <3>2, <4>1, WithsType
      <4>3. QED
        BY <3>1, <4>2
    <3>6. QED
      BY <2>1, <3>1, <3>3, <3>4, <3>5 DEF TypeInv, InodeInv
  <2>2. CASE raw[h] # None
    <3>1. raw[h] \in DOMAIN files /\ files[raw[h]] \in Seq(Nat)
      BY <2>2 DEF TypeInv, InodeInv
    <3>2. /\ Append(files[raw[h]], written'[h]) \in Seq(Nat)
          /\ \A o \in DOMAIN files[raw[h]] :
                /\ o \in DOMAIN Append(files[raw[h]], written'[h])
                /\ Append(files[raw[h]], written'[h])[o] = files[raw[h]][o]
      BY <1>2, <3>1
    <3>3. QED
      BY <1>3, <2>2, <3>1, <3>2 DEF TypeInv, InodeInv
  <2>3. QED
    BY <2>1, <2>2
<1>6. TypeInv'
  BY <1>1, <1>2, <1>5 DEF TypeInv
<1>7. InodeInv'
  <2>1. raw[h] = None => raw'[h] \notin DOMAIN files
    BY <1>3, <1>4 DEF TypeInv
  <2>2. /\ \A g \in Hour : raw[g] # None => raw[g] \in DOMAIN files
        /\ \A p \in Process : job[p].file # None => job[p].file \in DOMAIN files
    BY DEF InodeInv
  <2>3. \A g, k \in Hour : raw'[g] # None /\ raw'[g] = raw'[k] => g = k
    BY <1>5, <2>1, <2>2 DEF InodeInv
  <2>4. \A p \in Process, g \in Hour : job[p].file # None /\ job[p].file = raw'[g] => job[p].hour = g
    BY <1>5, <2>1, <2>2 DEF InodeInv
  <2>5. QED
    BY <1>1, <1>5, <2>2, <2>3, <2>4 DEF InodeInv
<1>8. JobInv'
  BY <1>1, <1>5 DEF JobInv, InJob, Entered, InodeInv, Reading, Parsed
<1>9. ASSUME NEW g \in Hour, g # h \/ raw[h] # None
      PROVE  raw'[g] = raw[g]
  BY <1>5, <1>9
<1>10. RowsInv'
  <2> SUFFICES ASSUME NEW g \in Hour \ outlived
               PROVE  /\ raw'[g] = None => disk[g] = None
                      /\ \A p \in Process : job[p].hour = g => job[p].file = raw'[g]
                      /\ raw'[g] # None => \A r \in Rows(g) :
                            r.at \in DOMAIN files'[raw'[g]] /\ files'[raw'[g]][r.at] = r.line
    BY <1>1 DEF RowsInv, Rows
  <2>1. CASE g # h \/ raw[h] # None
    BY <1>5, <1>9, <2>1 DEF RowsInv, InodeInv
  <2>2. CASE g = h /\ raw[h] = None
    <3>1. disk[g] = None /\ \A p \in Process : job[p].hour = g => job[p].file = None
      BY <2>2 DEF RowsInv
    <3>2. \A p \in Process : job[p].hour # g
      BY <3>1, BoundsAssumption DEF JobInv, InJob, Reading, None
    <3>3. QED
      BY <1>5, <2>2, <3>1, <3>2 DEF Rows
  <2>3. QED
    BY <2>1, <2>2
<1>11. CoverInv'
  <2> SUFFICES ASSUME phase # "down", NEW g \in Hour, raw'[g] # None, excuse[g] = {}
               PROVE  Complete(g)' \/ Ahead(g)'
    BY <1>1 DEF CoverInv, Present
  <2>1. CASE g = h
    BY <1>1, <2>1 DEF Ahead
  <2>2. CASE g # h
    <3>1. raw'[g] = raw[g] /\ files'[raw[g]] = files[raw[g]]
      BY <1>5, <2>2 DEF InodeInv
    <3>2. Complete(g) \/ Ahead(g)
      BY <3>1 DEF CoverInv, Present
    <3>3. QED
      BY <1>1, <3>1, <3>2 DEF Complete, Ahead, Parsed, Rows
  <2>3. QED
    BY <2>1, <2>2
<1>12. RollbackInv'
  <2>1. ASSUME NEW g \in Hour, WillReopen(g) PROVE WillReopen(g)'
    BY <1>1, <1>5, <2>1 DEF WillReopen, Present
  <2>2. \A g \in Hour : Attended(g)' = Attended(g)
    BY <1>1 DEF Attended
  <2>3. QED
    BY <1>1, <2>1, <2>2 DEF RollbackInv
<1>13. QED
  BY <1>6, <1>7, <1>8, <1>10, <1>11, <1>12

(***************************************************************************)
(* Steps that only give names and connections up.                          *)
(***************************************************************************)

Less(old, new) == new = old \/ new = None

\* What is still named or open stays as it was.
Releases ==
    /\ \A h \in Hour : Less(raw[h], raw'[h]) /\ Less(disk[h], disk'[h])
    /\ \A p \in Process, h \in Hour : Less(conn[p][h], conn'[p][h])
    /\ Less(reader, reader')
    /\ \A p \in Process : \/ job'[p] = job[p] /\ conn'[p] = conn[p]
                          \/ job'[p] = NoJob
    /\ files' = files \/ files' = Restrict(files, LiveFiles')
    /\ \/ db' = db
       \/ /\ db' \in [LiveDbs' -> Database]
          /\ \A i \in LiveDbs' : db'[i].rows = db[i].rows /\ (db'[i].wal => db[i].wal)

LEMMA Released ==
  ASSUME IInv, Releases,
         raw' \in [Hour -> Nat], disk' \in [Hour -> Nat], written' \in [Hour -> Nat],
         conn' \in [Process -> [Hour -> Nat]], todo' \in [Process -> SUBSET Hour],
         job' \in [Process -> [hour : Hour \cup {None}, file : Nat, pos : Nat]],
         excuse' \in [Hour -> SUBSET Why]
  PROVE  /\ TypeInv' /\ InodeInv' /\ JobInv'
         /\ \A h \in Hour : raw'[h] # None => files'[raw'[h]] = files[raw[h]]
         /\ \A h \in Hour : disk'[h] # None =>
               Rows(h)' = Rows(h) /\ (db'[disk'[h]].wal => db[disk[h]].wal)
<1> USE DEF IInv
<1>1. /\ \A h \in Hour : Less(raw[h], raw'[h]) /\ Less(disk[h], disk'[h])
      /\ \A p \in Process, h \in Hour : Less(conn[p][h], conn'[p][h])
      /\ Less(reader, reader')
      /\ \A p \in Process : (job'[p] = job[p] /\ conn'[p] = conn[p]) \/ job'[p] = NoJob
  BY DEF Releases
<1>2. /\ DOMAIN files' \subseteq DOMAIN files /\ IsFiniteSet(DOMAIN files')
      /\ \A i \in DOMAIN files' : files'[i] = files[i]
      /\ files' \in [DOMAIN files' -> Seq(Nat)]
      /\ \A h \in Hour : raw'[h] # None => raw'[h] \in DOMAIN files'
      /\ \A p \in Process : job'[p].file # None => job'[p].file \in DOMAIN files'
  <2>1. /\ \A h \in Hour : raw'[h] = raw[h] \/ raw'[h] = None
        /\ \A p \in Process : job'[p].file = job[p].file \/ job'[p].file = None
    BY <1>1 DEF Less, NoJob
  <2>2. CASE files' = Restrict(files, LiveFiles')
    BY <2>1, <2>2, FilesLive
  <2>3. CASE files' = files
    BY <2>1, <2>3 DEF TypeInv, InodeInv
  <2>4. QED
    BY <2>2, <2>3 DEF Releases
<1>3. /\ DOMAIN db' \subseteq DOMAIN db /\ IsFiniteSet(DOMAIN db')
      /\ db' \in [DOMAIN db' -> Database]
      /\ \A i \in DOMAIN db' : db'[i].rows = db[i].rows /\ (db'[i].wal => db[i].wal)
      /\ \A h \in Hour : disk'[h] # None => disk'[h] \in DOMAIN db'
      /\ \A p \in Process, h \in Hour : conn'[p][h] # None => conn'[p][h] \in DOMAIN db'
      /\ reader' # None => reader' \in DOMAIN db'
  <2>1. /\ LiveDbs' \subseteq DOMAIN db /\ IsFiniteSet(LiveDbs')
        /\ \A h \in Hour : disk'[h] # None => disk'[h] \in LiveDbs'
        /\ \A p \in Process, h \in Hour : conn'[p][h] # None => conn'[p][h] \in LiveDbs'
        /\ reader' # None => reader' \in LiveDbs'
    BY <1>1, DbsLive DEF Less
  <2>2. CASE db' = db
    BY <2>1, <2>2 DEF TypeInv
  <2>3. CASE /\ db' \in [LiveDbs' -> Database]
             /\ \A i \in LiveDbs' : db'[i].rows = db[i].rows /\ (db'[i].wal => db[i].wal)
    <3>1. DOMAIN db' = LiveDbs'
      BY <2>3
    <3>2. QED
      BY <2>1, <2>3, <3>1
  <2>4. QED
    BY <2>2, <2>3 DEF Releases
<1>4. TypeInv'
  BY <1>1, <1>2, <1>3 DEF TypeInv, Less, None
<1>5. InodeInv'
  <2>1. \A g, h \in Hour : raw'[g] # None /\ raw'[g] = raw'[h] => g = h
    <3>1. \A h \in Hour : raw'[h] # None => raw'[h] = raw[h]
      BY <1>1 DEF Less
    <3>2. QED
      BY <3>1 DEF InodeInv
  <2>2. \A p \in Process, h \in Hour : job'[p].file # None /\ job'[p].file = raw'[h] => job'[p].hour = h
    <3>1. /\ \A h \in Hour : raw'[h] # None => raw'[h] = raw[h]
          /\ \A p \in Process : job'[p].file # None => job'[p] = job[p]
      BY <1>1 DEF Less, NoJob
    <3>2. \A p \in Process, h \in Hour : job[p].file # None /\ job[p].file = raw[h] => job[p].hour = h
      BY DEF InodeInv
    <3>3. QED
      BY <3>1, <3>2
  <2>3. \A g, h \in Hour : disk'[g] # None /\ disk'[g] = disk'[h] => g = h
    <3>1. \A h \in Hour : disk'[h] # None => disk'[h] = disk[h]
      BY <1>1 DEF Less
    <3>2. QED
      BY <3>1 DEF InodeInv
  <2>4. \A p \in Process, g, h \in Hour : conn'[p][g] # None /\ conn'[p][g] = disk'[h] => g = h
    BY <1>1 DEF InodeInv, Less
  <2>5. QED
    BY <1>2, <1>3, <2>1, <2>2, <2>3, <2>4 DEF InodeInv
<1>6. JobInv'
  <2> SUFFICES ASSUME NEW p \in Process PROVE InJob(p)'
    BY DEF JobInv
  <2>1. CASE job'[p] = NoJob
    BY <2>1 DEF InJob, Reading, NoJob
  <2>2. CASE job'[p] = job[p] /\ conn'[p] = conn[p] /\ ~ Reading(p)
    BY <2>2 DEF JobInv, InJob, Reading
  <2>3. CASE job'[p] = job[p] /\ conn'[p] = conn[p] /\ Reading(p)
    <3>1. job[p].hour \in Hour /\ job[p].file # None /\ conn[p][job[p].hour] # None
      BY <2>3 DEF JobInv, InJob, TypeInv, Reading
    <3>2. /\ files'[job[p].file] = files[job[p].file]
          /\ db'[conn[p][job[p].hour]].rows = db[conn[p][job[p].hour]].rows
      BY <1>2, <1>3, <2>3, <3>1
    <3>3. Entered(job[p], db[conn[p][job[p].hour]].rows)
      BY <2>3 DEF JobInv, InJob
    <3>4. Entered(job[p], db[conn[p][job[p].hour]].rows)'
      BY <2>3, <3>2, <3>3 DEF Entered, Parsed
    <3>5. QED
      BY <2>3, <3>1, <3>4 DEF InJob, Reading
  <2>4. QED
    BY <1>1, <2>1, <2>2, <2>3
<1>7. \A h \in Hour : raw'[h] # None => files'[raw'[h]] = files[raw[h]]
  BY <1>1, <1>2 DEF Less
<1>8. \A h \in Hour : disk'[h] # None => Rows(h)' = Rows(h) /\ (db'[disk'[h]].wal => db[disk[h]].wal)
  BY <1>1, <1>3 DEF Less, Rows
<1>9. QED
  BY <1>4, <1>5, <1>6, <1>7, <1>8

\* Steps that change what is to be done and nothing else.
LEMMA ControlKeeps ==
  ASSUME IInv, UNCHANGED <<store, disk, db, conn, job, reader, outlived, stranded>>,
         todo' \in [Process -> SUBSET Hour], excuse' \in [Hour -> SUBSET Why],
         \A h \in Hour : excuse'[h] = {} => excuse[h] = {},
         \A h \in Present : excuse'[h] = {} /\ phase' # "down" =>
             (phase # "down" /\ (Ahead(h) => Ahead(h)')) \/ Ahead(h)',
         \A h \in Hour : disk[h] # None /\ db[disk[h]].wal /\ WillReopen(h) => WillReopen(h)'
  PROVE  IInv'
<1> USE DEF IInv
<1>1. /\ raw' = raw /\ files' = files /\ written' = written /\ disk' = disk /\ db' = db
      /\ conn' = conn /\ job' = job /\ reader' = reader /\ outlived' = outlived
      /\ stranded' = stranded
  BY DEF store
<1>2. TypeInv' /\ InodeInv' /\ JobInv' /\ RowsInv'
  BY <1>1 DEF TypeInv, InodeInv, JobInv, InJob, Reading, Entered, Parsed, RowsInv, Rows
<1>3. CoverInv'
  <2>1. \A h \in Hour : Complete(h)' = Complete(h)
    BY <1>1 DEF Complete, Parsed, Rows
  <2>2. QED
    BY <1>1, <2>1 DEF CoverInv, Present
<1>4. RollbackInv'
  <2>1. \A h \in Hour : Attended(h)' = Attended(h)
    BY <1>1 DEF Attended
  <2>2. QED
    BY <1>1, <2>1 DEF RollbackInv
<1>5. QED
  BY <1>2, <1>3, <1>4

LEMMA ExcusedHour ==
  ASSUME TypeInv, NEW h \in Hour, NEW why \in Why, Excused(h, why)
  PROVE  /\ excuse' \in [Hour -> SUBSET Why] /\ excuse'[h] # {}
         /\ \A g \in Hour \ {h} : excuse'[g] = excuse[g]
<1>1. /\ excuse \in [Hour -> SUBSET Why]
      /\ excuse' = [excuse EXCEPT ![h] = excuse[h] \cup {why}]
  BY DEF TypeInv, Excused
<1>2. excuse[h] \cup {why} \in SUBSET Why
  BY <1>1
<1>3. QED
  BY <1>1, <1>2

LEMMA Taken ==
  ASSUME TypeInv, NEW p \in Process, NEW h \in Hour, Take(p, h)
  PROVE  /\ todo' \in [Process -> SUBSET Hour] /\ phase' = phase /\ job[p] = NoJob
         /\ \A g \in Hour \ {h} : (g \in pending => g \in pending')
                                  /\ (g \in todo["daemon"] => g \in todo'["daemon"])
         /\ p = "tool" => pending' = pending /\ todo'["daemon"] = todo["daemon"]
  BY DEF Take, TypeInv, Process

LEMMA SkipFileKeeps ==
  ASSUME IInv, NEW p \in Process, NEW h \in Hour, SkipFile(p, h)
  PROVE  IInv'
<1>1. /\ Take(p, h) /\ h \notin Present
      /\ UNCHANGED <<store, disk, db, conn, job, reader, outlived, stranded>> /\ excuse' = excuse
  BY DEF SkipFile, history
<1>2. \A g \in Present : Ahead(g) => Ahead(g)'
  BY <1>1, Taken DEF Ahead, Present, IInv, store
<1>3. \A g \in Hour : WillReopen(g) => WillReopen(g)'
  BY <1>1, Taken DEF WillReopen, Present, IInv, store
<1>4. todo' \in [Process -> SUBSET Hour] /\ phase' = phase
  BY <1>1, Taken DEF IInv
<1>5. QED
  BY <1>1, <1>2, <1>3, <1>4, ControlKeeps DEF IInv, TypeInv

\* The hour has an excuse, and the database is in rollback mode.
LEMMA OpenBucketFailsKeeps ==
  ASSUME IInv, NEW p \in Process, NEW h \in Hour, OpenBucketFails(p, h)
  PROVE  IInv'
<1>1. /\ Take(p, h) /\ ~ db[disk[h]].wal
      /\ UNCHANGED <<store, disk, db, conn, job, reader, outlived, stranded>>
      /\ Excused(h, "failed")
  BY DEF OpenBucketFails
<1>2. \A g \in Hour \ {h} : Ahead(g) => Ahead(g)'
  BY <1>1, Taken DEF Ahead, IInv, store
<1>3. \A g \in Hour \ {h} : WillReopen(g) => WillReopen(g)'
  BY <1>1, Taken DEF WillReopen, Present, IInv, store
<1>4. todo' \in [Process -> SUBSET Hour] /\ phase' = phase
  BY <1>1, Taken DEF IInv
<1>5. /\ excuse' \in [Hour -> SUBSET Why] /\ excuse'[h] # {}
      /\ \A g \in Hour : excuse'[g] = {} => excuse[g] = {}
  <2>1. "failed" \in Why
    BY DEF Why
  <2>2. excuse'[h] # {} /\ excuse' \in [Hour -> SUBSET Why]
    BY <1>1, <2>1, ExcusedHour DEF IInv
  <2>3. \A g \in Hour \ {h} : excuse'[g] = excuse[g]
    BY <1>1, <2>1, ExcusedHour DEF IInv
  <2>4. QED
    BY <2>2, <2>3
<1>6. \A g \in Hour : db[disk[g]].wal => g # h
  BY <1>1
<1>7. QED
  BY <1>1, <1>2, <1>3, <1>4, <1>5, <1>6, ControlKeeps DEF Present

LEMMA StartKeeps ==
  ASSUME IInv, Start
  PROVE  IInv'
<1>1. /\ phase = "down" /\ phase' = "scan" /\ todo' = [todo EXCEPT !["daemon"] = Present]
      /\ UNCHANGED <<store, disk, db, conn, job, reader, outlived, stranded>> /\ excuse' = excuse
  BY DEF Start, history
<1>2. todo' \in [Process -> SUBSET Hour] /\ todo'["daemon"] = Present
  BY <1>1 DEF IInv, TypeInv, Process, Present
<1>3. \A h \in Present : Ahead(h)'
  BY <1>2 DEF Ahead
<1>4. \A h \in Hour : WillReopen(h)'
  BY <1>1, <1>2 DEF WillReopen, Present, store
<1>5. QED
  BY <1>1, <1>2, <1>3, <1>4, ControlKeeps DEF IInv, TypeInv

\* The daemon goes on with what it had to do.
LEMMA ToolControlKeeps ==
  ASSUME IInv, UNCHANGED <<store, disk, db, conn, job, reader, history, pending>>,
         todo' \in [Process -> SUBSET Hour], todo'["daemon"] = todo["daemon"],
         phase' = phase \/ (phase' = "watch" /\ phase = "scan" /\ todo["daemon"] = {})
  PROVE  IInv'
<1>1. \A h \in Hour : Ahead(h) => Ahead(h)'
  BY DEF Ahead, store
<1>2. \A h \in Hour : WillReopen(h) => WillReopen(h)'
  BY DEF WillReopen, Present, store
<1>3. QED
  BY <1>1, <1>2, ControlKeeps DEF Present, history, IInv, TypeInv

LEMMA CommandKeeps ==
  ASSUME IInv, ScanDone \/ Invoke \/ ListRaw \/ Interrupt
  PROVE  IInv'
<1>1. /\ UNCHANGED <<store, disk, db, conn, job, reader, history, pending>>
      /\ phase' = phase \/ (phase' = "watch" /\ phase = "scan" /\ todo["daemon"] = {})
      /\ todo' = todo \/ \E S \in SUBSET Hour : todo' = [todo EXCEPT !["tool"] = S]
  BY DEF ScanDone, Invoke, ListRaw, Interrupt, Idle, daemon, work, Present, Eligible
<1>2. todo' \in [Process -> SUBSET Hour] /\ todo'["daemon"] = todo["daemon"]
  BY <1>1 DEF IInv, TypeInv, Process
<1>3. QED
  BY <1>1, <1>2, ToolControlKeeps

LEMMA RestrictedDb ==
  ASSUME TypeInv, InodeInv,
         \A h \in Hour : Less(disk[h], disk'[h]),
         \A p \in Process, h \in Hour : Less(conn[p][h], conn'[p][h]),
         Less(reader, reader'),
         db' = Restrict(db, LiveDbs')
  PROVE  /\ db' \in [LiveDbs' -> Database]
         /\ \A i \in LiveDbs' : db'[i] = db[i]
<1>1. LiveDbs' \subseteq DOMAIN db
  BY DbsLive DEF Less
<1>2. db \in [DOMAIN db -> Database]
  BY DEF TypeInv
<1>3. db' = [i \in LiveDbs' |-> db[i]]
  BY DEF Restrict
<1>4. QED
  BY <1>1, <1>2, <1>3

\* Without its file an hour has nothing to be complete about.
LEMMA RemoveRawKeeps ==
  ASSUME IInv, NEW h \in Hour, RemoveRaw(h)
  PROVE  IInv'
<1> USE DEF IInv
<1>1. /\ raw' = [raw EXCEPT ![h] = None] /\ files' = Restrict(files, LiveFiles')
      /\ outlived' = IF h \in Indexed \/ \E p \in Process : job[p].hour = h
                     THEN outlived \cup {h} ELSE outlived
      /\ written' = written /\ disk' = disk /\ db' = db /\ conn' = conn /\ phase' = phase
      /\ pending' = pending /\ todo' = todo /\ job' = job /\ reader' = reader
      /\ excuse' = excuse /\ stranded' = stranded
  BY DEF RemoveRaw, daemon, work
<1>2. raw' \in [Hour -> Nat] /\ raw'[h] = None /\ \A g \in Hour \ {h} : raw'[g] = raw[g]
  BY <1>1 DEF TypeInv, None
<1>3. Releases
  BY <1>1, <1>2 DEF Releases, Less
<1>4. /\ TypeInv' /\ InodeInv' /\ JobInv'
      /\ \A g \in Hour : raw'[g] # None => files'[raw'[g]] = files[raw[g]]
  BY <1>1, <1>2, <1>3, Released DEF TypeInv
<1>5. \A g \in Hour : Rows(g)' = Rows(g) /\ Attended(g)' = Attended(g)
  BY <1>1 DEF Rows, Attended
<1>6. RowsInv'
  <2> SUFFICES ASSUME NEW g \in Hour, g \notin outlived'
               PROVE  /\ raw'[g] = None => disk[g] = None
                      /\ \A p \in Process : job[p].hour = g => job[p].file = raw'[g]
                      /\ raw'[g] # None => \A r \in Rows(g) :
                           r.at \in DOMAIN files'[raw'[g]] /\ files'[raw'[g]][r.at] = r.line
    BY <1>1, <1>5 DEF RowsInv
  <2>1. CASE g = h
    BY <1>1, <1>2, <2>1 DEF Indexed
  <2>2. CASE g # h
    BY <1>1, <1>2, <1>4, <2>2 DEF RowsInv
  <2>3. QED
    BY <2>1, <2>2
<1>7. CoverInv'
  <2> SUFFICES ASSUME phase # "down", NEW g \in Hour, raw'[g] # None, excuse[g] = {}
               PROVE  Complete(g)' \/ Ahead(g)'
    BY <1>1 DEF CoverInv, Present
  <2>1. raw'[g] = raw[g] /\ files'[raw[g]] = files[raw[g]]
    BY <1>2, <1>4
  <2>2. Complete(g) \/ Ahead(g)
    BY <2>1 DEF CoverInv, Present
  <2>3. QED
    BY <1>1, <1>5, <2>1, <2>2 DEF Complete, Ahead, Parsed
<1>8. RollbackInv'
  <2>1. \A g \in Hour : WillReopen(g) => WillReopen(g)'
    BY <1>1, <1>2 DEF WillReopen, Present
  <2>2. QED
    BY <1>1, <1>5, <2>1 DEF RollbackInv
<1>9. QED
  BY <1>4, <1>6, <1>7, <1>8

LEMMA UnlinkKeeps ==
  ASSUME IInv, NEW h \in Hour, NEW why \in Why, Unlink(h, why),
         UNCHANGED <<store, phase, pending, job>>,
         todo' \in [Process -> SUBSET Hour], todo'["daemon"] = todo["daemon"]
  PROVE  IInv'
<1> USE DEF IInv
<1>1. /\ raw' = raw /\ files' = files /\ written' = written /\ conn' = conn /\ reader' = reader
      /\ phase' = phase /\ pending' = pending /\ job' = job
      /\ disk' = [disk EXCEPT ![h] = None] /\ db' = Restrict(db, LiveDbs')
      /\ IF h \in Indexed THEN Excused(h, why) ELSE excuse' = excuse
      /\ outlived' = IF \E p \in Process : job[p].hour = h THEN outlived ELSE outlived \ {h}
      /\ stranded' = {s \in stranded : s[1] # h}
  BY DEF Unlink, store
<1>2. /\ disk' \in [Hour -> Nat] /\ disk'[h] = None
      /\ \A g \in Hour \ {h} : disk'[g] = disk[g]
  BY <1>1 DEF TypeInv, None
<1>3. /\ excuse' \in [Hour -> SUBSET Why] /\ (h \in Indexed => excuse'[h] # {})
      /\ \A g \in Hour : g # h \/ h \notin Indexed => excuse'[g] = excuse[g]
  BY <1>1, ExcusedHour DEF TypeInv
<1>4. Releases
  <2>1. /\ \A g \in Hour : Less(raw[g], raw'[g]) /\ Less(disk[g], disk'[g])
        /\ \A p \in Process, g \in Hour : Less(conn[p][g], conn'[p][g])
        /\ Less(reader, reader')
    BY <1>1, <1>2 DEF Less
  <2>2. db' \in [LiveDbs' -> Database] /\ \A i \in LiveDbs' : db'[i] = db[i]
    BY <1>1, <2>1, RestrictedDb
  <2>3. QED
    BY <1>1, <2>1, <2>2 DEF Releases
<1>5. /\ TypeInv' /\ InodeInv' /\ JobInv'
      /\ \A g \in Hour : disk'[g] # None =>
            Rows(g)' = Rows(g) /\ (db'[disk'[g]].wal => db[disk[g]].wal)
  BY <1>1, <1>2, <1>3, <1>4, Released DEF TypeInv
<1>6. \A g \in Hour : g # h \/ h \notin Indexed => Rows(g)' = Rows(g)
  BY <1>1, <1>2, <1>5 DEF Rows, Indexed
<1>7. RowsInv'
  <2> SUFFICES ASSUME NEW g \in Hour, g \notin outlived'
               PROVE  /\ raw[g] = None => disk'[g] = None
                      /\ \A p \in Process : job[p].hour = g => job[p].file = raw[g]
                      /\ raw[g] # None => \A r \in Rows(g)' :
                           r.at \in DOMAIN files[raw[g]] /\ files[raw[g]][r.at] = r.line
    BY <1>1 DEF RowsInv
  <2>1. CASE g # h
    BY <1>1, <1>2, <1>6, <2>1 DEF RowsInv
  <2>2. CASE g = h
    BY <1>1, <1>2, <2>2 DEF RowsInv, Rows
  <2>3. QED
    BY <2>1, <2>2
<1>8. CoverInv'
  <2> SUFFICES ASSUME phase # "down", NEW g \in Hour, raw[g] # None, excuse'[g] = {}
               PROVE  Complete(g)' \/ Ahead(g)'
    BY <1>1 DEF CoverInv, Present
  <2>1. g # h \/ h \notin Indexed
    BY <1>3
  <2>2. Complete(g) \/ Ahead(g)
    BY <1>3, <2>1 DEF CoverInv, Present
  <2>3. QED
    BY <1>1, <1>6, <2>1, <2>2 DEF Complete, Ahead, Parsed
<1>9. RollbackInv'
  <2>1. \A g \in Hour : WillReopen(g)' = WillReopen(g)
    BY <1>1 DEF WillReopen, Present
  <2>2. \A g \in Hour \ {h} : Attended(g)' = Attended(g)
    BY <1>1, <1>2 DEF Attended
  <2>3. \A g \in Hour \ {h} : \A x : <<g, x>> \in stranded' <=> <<g, x>> \in stranded
    BY <1>1
  <2>4. QED
    BY <1>1, <1>2, <1>5, <2>1, <2>2, <2>3 DEF RollbackInv
<1>10. QED
  BY <1>5, <1>7, <1>8, <1>9

LEMMA ClearKeeps ==
  ASSUME IInv, NEW h \in Hour, RemoveDb(h) \/ ClearIndex(h) \/ ClearBucket(h)
  PROVE  IInv'
<1>1. "removed" \in Why /\ "cleared" \in Why
  BY DEF Why
<1>2. CASE RemoveDb(h) \/ ClearIndex(h)
  BY <1>1, <1>2, UnlinkKeeps DEF RemoveDb, ClearIndex, daemon, work, IInv, TypeInv
<1>3. CASE ClearBucket(h) /\ h \in Present
  <2>1. Unlink(h, "cleared") /\ todo' = [todo EXCEPT !["tool"] = IF stop THEN {} ELSE {h}]
    BY <1>3 DEF ClearBucket
  <2>2. todo' \in [Process -> SUBSET Hour] /\ todo'["daemon"] = todo["daemon"]
    BY <2>1 DEF IInv, TypeInv, Process
  <2>3. QED
    BY <1>1, <1>3, <2>1, <2>2, UnlinkKeeps DEF ClearBucket, daemon
<1>4. CASE ClearBucket(h) /\ h \notin Present
  BY <1>4, ToolControlKeeps DEF ClearBucket, daemon, IInv, TypeInv
<1>5. QED
  BY <1>2, <1>3, <1>4

LEMMA ReaderOpenKeeps ==
  ASSUME IInv, NEW h \in Hour, ReaderOpen(h)
  PROVE  IInv'
<1> USE DEF IInv
<1>1. /\ raw' = raw /\ files' = files /\ written' = written /\ disk' = disk /\ db' = db
      /\ conn' = conn /\ phase' = phase /\ pending' = pending /\ todo' = todo /\ job' = job
      /\ excuse' = excuse /\ outlived' = outlived /\ stranded' = stranded
      /\ disk[h] # None /\ reader' = disk[h]
  BY DEF ReaderOpen, store, daemon, work, history, Indexed
<1>2. TypeInv' /\ InodeInv'
  BY <1>1 DEF TypeInv, InodeInv
<1>3. JobInv' /\ RowsInv' /\ CoverInv'
  BY <1>1 DEF JobInv, InJob, Reading, Entered, Parsed, RowsInv, Rows, CoverInv, Present,
              Complete, Ahead
<1>4. RollbackInv'
  BY <1>1 DEF RollbackInv, Attended, WillReopen, Present
<1>5. QED
  BY <1>2, <1>3, <1>4

LEMMA ReaderCloseKeeps ==
  ASSUME IInv, ReaderClose
  PROVE  IInv'
<1> USE DEF IInv
<1>1. /\ raw' = raw /\ files' = files /\ written' = written /\ disk' = disk
      /\ conn' = conn /\ phase' = phase /\ pending' = pending /\ todo' = todo /\ job' = job
      /\ excuse' = excuse /\ outlived' = outlived /\ stranded' = stranded
      /\ reader' = None /\ db' = Restrict(db, LiveDbs')
  BY DEF ReaderClose, store, daemon, work, history
<1>2. db' \in [LiveDbs' -> Database] /\ \A i \in LiveDbs' : db'[i] = db[i]
  BY <1>1, RestrictedDb DEF Less
<1>3. Releases
  BY <1>1, <1>2 DEF Releases, Less
<1>4. /\ TypeInv' /\ InodeInv' /\ JobInv'
      /\ \A g \in Hour : disk[g] # None =>
            Rows(g)' = Rows(g) /\ (db'[disk[g]].wal => db[disk[g]].wal)
  BY <1>1, <1>3, Released DEF TypeInv
<1>5. \A g \in Hour : Rows(g)' = Rows(g)
  BY <1>1, <1>4 DEF Rows
<1>6. RowsInv'
  BY <1>1, <1>5 DEF RowsInv
<1>7. CoverInv'
  BY <1>1, <1>5 DEF CoverInv, Present, Complete, Ahead, Parsed
<1>8. RollbackInv'
  <2>1. \A g \in Hour : WillReopen(g)' = WillReopen(g) /\ Attended(g)' = Attended(g)
    BY <1>1 DEF WillReopen, Present, Attended
  <2>2. QED
    BY <1>1, <1>4, <2>1 DEF RollbackInv
<1>9. QED
  BY <1>4, <1>6, <1>7, <1>8

(***************************************************************************)
(* Connections that are closed, by a process in no file, or dropped.       *)
(***************************************************************************)

LEMMA CloseKeeps ==
  ASSUME IInv, NEW p \in Process, NEW K \in SUBSET OpenBy(p), Close(p, K), Idle(p),
         UNCHANGED <<store, daemon, work, excuse, outlived>>
  PROVE  IInv'
<1> USE DEF IInv
<1>1. /\ raw' = raw /\ files' = files /\ written' = written /\ disk' = disk /\ reader' = reader
      /\ phase' = phase /\ pending' = pending /\ todo' = todo /\ job' = job
      /\ excuse' = excuse /\ outlived' = outlived
      /\ conn' = [conn EXCEPT ![p] = [h \in Hour |-> IF h \in K THEN None ELSE conn[p][h]]]
      /\ stranded' = stranded \cup {<<h, "busy">> :
                        h \in {k \in K : conn[p][k] = disk[k] /\ Busy(p, disk[k])}}
  BY DEF Close, store, daemon, work
<1>2. db' = [i \in LiveDbs' |->
                [db[i] EXCEPT !.wal = @ /\ (i \notin {conn[p][h] : h \in K} \/ Busy(p, i))]]
  BY DEF Close
<1>3. /\ conn' \in [Process -> [Hour -> Nat]]
      /\ \A h \in Hour : conn'[p][h] = IF h \in K THEN None ELSE conn[p][h]
      /\ \A q \in Process \ {p} : conn'[q] = conn[q]
  BY <1>1 DEF TypeInv, None
<1>4. LiveDbs' \subseteq DOMAIN db
  BY <1>1, <1>3, DbsLive
<1>5. /\ db' \in [LiveDbs' -> Database]
      /\ \A i \in LiveDbs' :
            /\ db'[i].rows = db[i].rows
            /\ db'[i].wal => db[i].wal /\ (i \notin {conn[p][h] : h \in K} \/ Busy(p, i))
  <2>1. ASSUME NEW i \in LiveDbs', NEW b \in BOOLEAN
        PROVE  /\ [db[i] EXCEPT !.wal = b] \in Database
               /\ [db[i] EXCEPT !.wal = b].rows = db[i].rows
               /\ [db[i] EXCEPT !.wal = b].wal = b
    <3>1. db[i] \in Database
      BY <1>4, <2>1 DEF TypeInv
    <3>2. QED
      BY <2>1, <3>1 DEF Database
  <2>2. QED
    BY <1>2, <2>1
<1>6. Releases
  <2>1. \A q \in Process, h \in Hour : Less(conn[q][h], conn'[q][h])
    BY <1>3 DEF Less
  <2>2. \A q \in Process : (job'[q] = job[q] /\ conn'[q] = conn[q]) \/ job'[q] = NoJob
    BY <1>1, <1>3 DEF Idle
  <2>3. QED
    BY <1>1, <1>5, <2>1, <2>2 DEF Releases, Less
<1>7. /\ TypeInv' /\ InodeInv' /\ JobInv'
      /\ \A h \in Hour : disk[h] # None =>
            Rows(h)' = Rows(h) /\ (db'[disk[h]].wal => db[disk[h]].wal)
  BY <1>1, <1>3, <1>6, Released DEF TypeInv
<1>8. \A h \in Hour : Rows(h)' = Rows(h)
  BY <1>1, <1>7 DEF Rows
<1>9. RowsInv'
  BY <1>1, <1>8 DEF RowsInv
<1>10. CoverInv'
  BY <1>1, <1>8 DEF CoverInv, Present, Complete, Ahead, Parsed
<1>11. RollbackInv'
  <2> SUFFICES ASSUME NEW h \in Hour
               PROVE  /\ disk[h] # None /\ db'[disk[h]].wal /\ ~ Attended(h)' =>
                            \/ <<h, "busy">> \in stranded'
                            \/ <<h, "tool">> \in stranded'
                            \/ <<h, "daemon">> \in stranded' /\ WillReopen(h)
                      /\ <<h, "daemon">> \in stranded' => conn'["daemon"][h] = None
                      /\ \A s \in stranded' : s[1] = h => disk[h] # None
    BY <1>1 DEF RollbackInv, WillReopen, Present
  <2>1. ASSUME disk[h] # None, db'[disk[h]].wal, ~ Attended(h)', Attended(h)
        PROVE  <<h, "busy">> \in stranded'
    <3>1. h \in K /\ conn[p][h] = disk[h]
      BY <1>1, <1>3, <2>1 DEF Attended
    <3>2. disk[h] \in LiveDbs'
      BY <1>1, <2>1 DEF LiveDbs
    <3>3. Busy(p, disk[h])
      BY <1>5, <2>1, <3>1, <3>2
    <3>4. QED
      BY <1>1, <3>1, <3>3
  <2>2. <<h, "daemon">> \in stranded' => <<h, "daemon">> \in stranded
    BY <1>1
  <2>3. <<h, "daemon">> \in stranded' => conn'["daemon"][h] = None
    BY <1>3, <2>2 DEF RollbackInv, Process
  <2>4. ASSUME NEW s \in stranded', s[1] = h PROVE disk[h] # None
    <3>1. CASE s \in stranded
      BY <2>4, <3>1 DEF RollbackInv
    <3>2. CASE s \notin stranded
      <4>1. PICK k \in K : s = <<k, "busy">> /\ conn[p][k] = disk[k]
        BY <1>1, <2>4, <3>2
      <4>2. k = h /\ conn[p][k] # None
        BY <2>4, <4>1 DEF OpenBy
      <4>3. QED
        BY <4>1, <4>2
    <3>3. QED
      BY <3>1, <3>2
  <2>5. ASSUME disk[h] # None, db'[disk[h]].wal, ~ Attended(h)
        PROVE  \/ <<h, "busy">> \in stranded'
               \/ <<h, "tool">> \in stranded'
               \/ <<h, "daemon">> \in stranded' /\ WillReopen(h)
    <3>1. db[disk[h]].wal /\ stranded \subseteq stranded'
      BY <1>1, <1>7, <2>5
    <3>2. QED
      BY <2>5, <3>1 DEF RollbackInv
  <2>6. QED
    BY <2>1, <2>3, <2>4, <2>5
<1>12. QED
  BY <1>7, <1>9, <1>10, <1>11

LEMMA EvictIdleKeeps ==
  ASSUME IInv, NEW K \in SUBSET Hour, EvictIdle(K)
  PROVE  IInv'
  BY CloseKeeps DEF EvictIdle, Process

LEMMA ExitKeeps ==
  ASSUME IInv, Exit
  PROVE  IInv'
<1>1. OpenBy("tool") \in SUBSET OpenBy("tool") /\ "tool" \in Process
  BY DEF Process
<1>2. QED
  BY <1>1, CloseKeeps DEF Exit

LEMMA DropKeeps ==
  ASSUME IInv, NEW p \in Process, Drop(p), excuse' = excuse, outlived' = outlived,
         \/ p = "daemon" /\ phase' = "down"
         \/ p = "tool" /\ phase' = phase /\ pending' = pending
  PROVE  IInv'
<1> USE DEF IInv
<1>1. /\ raw' = raw /\ written' = written /\ disk' = disk /\ reader' = reader
      /\ conn' = [conn EXCEPT ![p] = [h \in Hour |-> None]]
      /\ db' = Restrict(db, LiveDbs') /\ job' = [job EXCEPT ![p] = NoJob]
      /\ files' = Restrict(files, LiveFiles') /\ todo' = [todo EXCEPT ![p] = {}]
      /\ stranded' = stranded \cup {<<h, p>> : h \in {k \in OpenBy(p) : conn[p][k] = disk[k]}}
  BY DEF Drop
<1>2. /\ conn' \in [Process -> [Hour -> Nat]]
      /\ \A h \in Hour : conn'[p][h] = None
      /\ \A q \in Process \ {p} : conn'[q] = conn[q]
  BY <1>1 DEF TypeInv, None
<1>3. /\ job' \in [Process -> [hour : Hour \cup {None}, file : Nat, pos : Nat]]
      /\ job'[p] = NoJob /\ \A q \in Process \ {p} : job'[q] = job[q]
  BY <1>1 DEF TypeInv, NoJob, None
<1>4. todo' \in [Process -> SUBSET Hour] /\ \A q \in Process \ {p} : todo'[q] = todo[q]
  BY <1>1 DEF TypeInv
<1>5. Releases
  <2>1. /\ \A h \in Hour : Less(disk[h], disk'[h]) /\ Less(raw[h], raw'[h])
        /\ \A q \in Process, h \in Hour : Less(conn[q][h], conn'[q][h])
        /\ Less(reader, reader')
    BY <1>1, <1>2 DEF Less
  <2>2. db' \in [LiveDbs' -> Database] /\ \A i \in LiveDbs' : db'[i] = db[i]
    BY <1>1, <2>1, RestrictedDb
  <2>3. \A q \in Process : (job'[q] = job[q] /\ conn'[q] = conn[q]) \/ job'[q] = NoJob
    BY <1>2, <1>3
  <2>4. QED
    BY <1>1, <2>1, <2>2, <2>3 DEF Releases
<1>6. /\ TypeInv' /\ InodeInv' /\ JobInv'
      /\ \A h \in Hour : raw[h] # None => files'[raw[h]] = files[raw[h]]
      /\ \A h \in Hour : disk[h] # None =>
            Rows(h)' = Rows(h) /\ (db'[disk[h]].wal => db[disk[h]].wal)
  BY <1>1, <1>2, <1>3, <1>4, <1>5, Released DEF TypeInv
<1>7. \A h \in Hour : Rows(h)' = Rows(h)
  BY <1>1, <1>6 DEF Rows
<1>8. RowsInv'
  <2>1. \A q \in Process, h \in Hour : job'[q].hour = h => job'[q] = job[q]
    BY <1>3, BoundsAssumption DEF NoJob, None
  <2>2. QED
    BY <1>1, <1>6, <1>7, <2>1 DEF RowsInv
<1>9. CoverInv'
  <2>1. CASE p = "daemon"
    BY <2>1 DEF CoverInv
  <2>2. CASE p = "tool" /\ phase' = phase /\ pending' = pending
    <3>1. \A h \in Hour : Ahead(h)' = Ahead(h)
      BY <1>1, <1>3, <1>4, <2>2 DEF Ahead, Process
    <3>2. QED
      BY <1>1, <1>6, <1>7, <2>2, <3>1 DEF CoverInv, Present, Complete, Parsed
  <2>3. QED
    BY <2>1, <2>2
<1>10. RollbackInv'
  <2>1. \A h \in Hour : WillReopen(h) => WillReopen(h)'
    BY <1>1, <1>4 DEF WillReopen, Present, Process
  <2> SUFFICES ASSUME NEW h \in Hour
               PROVE  /\ disk[h] # None /\ db'[disk[h]].wal /\ ~ Attended(h)' =>
                            \/ <<h, "busy">> \in stranded'
                            \/ <<h, "tool">> \in stranded'
                            \/ <<h, "daemon">> \in stranded' /\ WillReopen(h)'
                      /\ <<h, "daemon">> \in stranded' => conn'["daemon"][h] = None
                      /\ \A s \in stranded' : s[1] = h => disk[h] # None
    BY <1>1 DEF RollbackInv
  <2>2. ASSUME disk[h] # None, ~ Attended(h)', Attended(h)
        PROVE  <<h, p>> \in stranded' /\ (p = "daemon" => WillReopen(h)')
    <3>1. h \in OpenBy(p) /\ conn[p][h] = disk[h]
      BY <1>1, <1>2, <2>2 DEF Attended, OpenBy
    <3>2. QED
      BY <1>1, <3>1 DEF WillReopen
  <2>3. ASSUME disk[h] # None, db'[disk[h]].wal, ~ Attended(h)
        PROVE  \/ <<h, "busy">> \in stranded'
               \/ <<h, "tool">> \in stranded'
               \/ <<h, "daemon">> \in stranded' /\ WillReopen(h)'
    <3>1. db[disk[h]].wal /\ stranded \subseteq stranded'
      BY <1>1, <1>6, <2>3
    <3>2. QED
      BY <2>1, <2>3, <3>1 DEF RollbackInv
  <2>4. <<h, "daemon">> \in stranded' => conn'["daemon"][h] = None
    <3>1. CASE p = "daemon"
      BY <1>2, <3>1
    <3>2. CASE p = "tool"
      <4>1. <<h, "daemon">> \in stranded' => <<h, "daemon">> \in stranded
        BY <1>1, <3>2
      <4>2. QED
        BY <1>2, <3>2, <4>1 DEF RollbackInv, Process
    <3>3. QED
      BY <3>1, <3>2
  <2>5. ASSUME NEW s \in stranded', s[1] = h PROVE disk[h] # None
    <3>1. CASE s \in stranded
      BY <2>5, <3>1 DEF RollbackInv
    <3>2. CASE s \notin stranded
      <4>1. PICK k \in OpenBy(p) : s = <<k, p>> /\ conn[p][k] = disk[k]
        BY <1>1, <2>5, <3>2
      <4>2. k = h /\ conn[p][k] # None
        BY <2>5, <4>1 DEF OpenBy
      <4>3. QED
        BY <4>1, <4>2
    <3>3. QED
      BY <3>1, <3>2
  <2>6. QED
    BY <2>2, <2>3, <2>4, <2>5
<1>11. QED
  BY <1>6, <1>8, <1>9, <1>10

LEMMA KillKeeps ==
  ASSUME IInv, Kill \/ KillTool
  PROVE  IInv'
  BY DropKeeps DEF Kill, KillTool, Process, daemon

(***************************************************************************)
(* index_file.                                                             *)
(***************************************************************************)

LEMMA JobTypes ==
  ASSUME IInv, NEW p \in Process, job[p] # NoJob
  PROVE  /\ job[p].hour \in Hour /\ job[p].file # None /\ job[p].file \in DOMAIN files
         /\ files[job[p].file] \in Seq(Nat) /\ job[p].pos \in Nat
         /\ conn[p][job[p].hour] # None /\ conn[p][job[p].hour] \in DOMAIN db
         /\ Entered(job[p], db[conn[p][job[p].hour]].rows)
<1>1. InJob(p) /\ Reading(p)
  BY DEF IInv, JobInv, InJob
<1>2. job[p].hour \in Hour /\ job[p].pos \in Nat
  BY <1>1 DEF IInv, TypeInv, Reading
<1>3. QED
  BY <1>1, <1>2 DEF IInv, TypeInv, InodeInv, InJob

\* The file at hand is given up: the hour has its excuse.
LEMMA FlushFailsKeeps ==
  ASSUME IInv, NEW p \in Process, FlushFails(p)
  PROVE  IInv'
<1> DEFINE h == job[p].hour
<1>1. /\ raw' = raw /\ written' = written /\ disk' = disk /\ db' = db /\ conn' = conn
      /\ phase' = phase /\ pending' = pending /\ todo' = todo /\ reader' = reader
      /\ outlived' = outlived /\ stranded' = stranded
      /\ job' = [job EXCEPT ![p] = NoJob] /\ files' = Restrict(files, LiveFiles')
      /\ Excused(h, "failed") /\ job[p] # NoJob
  BY DEF FlushFails, EndFile, daemon
<1>2. h \in Hour /\ "failed" \in Why
  BY <1>1, JobTypes DEF Why
<1>3. /\ excuse' \in [Hour -> SUBSET Why] /\ excuse'[h] # {}
      /\ \A g \in Hour \ {h} : excuse'[g] = excuse[g]
  BY <1>1, <1>2, ExcusedHour DEF IInv
<1>4. /\ job' \in [Process -> [hour : Hour \cup {None}, file : Nat, pos : Nat]]
      /\ job'[p] = NoJob /\ \A q \in Process \ {p} : job'[q] = job[q]
  BY <1>1 DEF IInv, TypeInv, NoJob, None
<1>5. Releases
  BY <1>1, <1>4 DEF Releases, Less
<1>6. /\ TypeInv' /\ InodeInv' /\ JobInv'
      /\ \A g \in Hour : raw[g] # None => files'[raw[g]] = files[raw[g]]
  BY <1>1, <1>3, <1>4, <1>5, Released DEF IInv, TypeInv
<1>7. \A g \in Hour : Rows(g)' = Rows(g)
  BY <1>1 DEF Rows
<1>8. RowsInv'
  <2>1. \A q \in Process, g \in Hour : job'[q].hour = g => job'[q] = job[q]
    BY <1>4, BoundsAssumption DEF NoJob, None
  <2>2. QED
    BY <1>1, <1>6, <1>7, <2>1 DEF IInv, RowsInv
<1>9. CoverInv'
  <2>1. \A g \in Hour \ {h} : Ahead(g) => Ahead(g)'
    BY <1>1, <1>4 DEF Ahead
  <2>2. QED
    BY <1>1, <1>3, <1>6, <1>7, <2>1 DEF IInv, CoverInv, Present, Complete, Parsed
<1>10. RollbackInv'
  BY <1>1 DEF IInv, RollbackInv, Attended, WillReopen, Present
<1>11. QED
  BY <1>6, <1>8, <1>9, <1>10 DEF IInv

LEMMA BeginFileKeeps ==
  ASSUME IInv, NEW p \in Process, NEW h \in Hour, BeginFile(p, h)
  PROVE  IInv'
<1> USE DEF IInv
<1>1. /\ raw' = raw /\ files' = files /\ written' = written /\ reader' = reader
      /\ excuse' = excuse /\ outlived' = outlived /\ raw[h] # None
      /\ job' = [job EXCEPT ![p] = [hour |-> h, file |-> raw[h], pos |-> 0]]
  BY DEF BeginFile, store, Present
<1>2. /\ todo' \in [Process -> SUBSET Hour] /\ phase' = phase /\ job[p] = NoJob
      /\ \A g \in Hour \ {h} : (g \in pending => g \in pending')
                               /\ (g \in todo["daemon"] => g \in todo'["daemon"])
      /\ p = "tool" => pending' = pending /\ todo'["daemon"] = todo["daemon"]
  BY Taken DEF BeginFile
<1>3. /\ job' \in [Process -> [hour : Hour \cup {None}, file : Nat, pos : Nat]]
      /\ job'[p].hour = h /\ job'[p].file = raw[h] /\ job'[p].pos = 0
      /\ \A q \in Process \ {p} : job'[q] = job[q]
  BY <1>1 DEF TypeInv
<1>4. \/ conn[p][h] # None /\ disk' = disk /\ db' = db /\ conn' = conn /\ stranded' = stranded
      \/ /\ conn[p][h] = None /\ disk[h] = None
         /\ db' = With(db, NewInode(db), [rows |-> {}, wal |-> TRUE])
         /\ disk' = [disk EXCEPT ![h] = NewInode(db)]
         /\ conn' = [conn EXCEPT ![p][h] = NewInode(db)]
         /\ stranded' = stranded
      \/ /\ conn[p][h] = None /\ disk[h] # None
         /\ db' = [db EXCEPT ![disk[h]].wal = TRUE]
         /\ conn' = [conn EXCEPT ![p][h] = disk[h]]
         /\ stranded' = {s \in stranded : s[1] # h} /\ disk' = disk
  BY DEF BeginFile
<1> DEFINE n == NewInode(db)
<1>5. n \in Nat \ {None} /\ n \notin DOMAIN db
  BY NewInodes DEF TypeInv
<1> HIDE DEF n
<1>6. /\ disk' \in [Hour -> Nat] /\ conn' \in [Process -> [Hour -> Nat]]
      /\ db' \in [DOMAIN db' -> Database] /\ IsFiniteSet(DOMAIN db')
      /\ \A i \in DOMAIN db : i \in DOMAIN db' /\ db'[i].rows = db[i].rows
      /\ \A i \in DOMAIN db : i # disk[h] => db'[i] = db[i]
      /\ conn'[p][h] # None /\ conn'[p][h] \in DOMAIN db'
      /\ \A g \in Hour \ {h} : disk'[g] = disk[g] /\ \A q \in Process : conn'[q][g] = conn[q][g]
      /\ \A q \in Process \ {p} : conn'[q][h] = conn[q][h]
      /\ \/ conn'[p][h] = conn[p][h] /\ disk'[h] = disk[h]
         \/ conn'[p][h] = disk[h] /\ disk'[h] = disk[h]
         \/ conn'[p][h] = n /\ disk'[h] = n /\ disk[h] = None /\ db'[n].rows = {}
  <2>1. CASE conn[p][h] # None /\ disk' = disk /\ db' = db /\ conn' = conn
    BY <2>1 DEF TypeInv, InodeInv
  <2>2. CASE /\ conn[p][h] = None /\ disk[h] = None
             /\ db' = With(db, n, [rows |-> {}, wal |-> TRUE])
             /\ disk' = [disk EXCEPT ![h] = n] /\ conn' = [conn EXCEPT ![p][h] = n]
    <3> DEFINE new == [rows |-> {}, wal |-> TRUE]
    <3>1. new \in Database
      BY DEF Database
    <3>2. db' = With(db, n, new) /\ new.rows = {}
      BY <2>2
    <3> HIDE DEF new
    <3>3. /\ DOMAIN db' = DOMAIN db \cup {n} /\ IsFiniteSet(DOMAIN db')
          /\ db'[n] = new /\ \A i \in DOMAIN db \ {n} : db'[i] = db[i]
      BY <3>2, Withs DEF TypeInv, With
    <3>4. db' \in [DOMAIN db' -> Database]
      <4>1. db \in [DOMAIN db -> Database]
        BY DEF TypeInv
      <4>2. QED
        BY <3>1, <3>2, <4>1, WithsType
    <3>5. /\ disk' \in [Hour -> Nat] /\ disk'[h] = n /\ \A g \in Hour \ {h} : disk'[g] = disk[g]
      BY <1>5, <2>2 DEF TypeInv
    <3>6. /\ conn' \in [Process -> [Hour -> Nat]] /\ conn'[p][h] = n
          /\ \A g \in Hour \ {h}, q \in Process : conn'[q][g] = conn[q][g]
          /\ \A q \in Process \ {p} : conn'[q][h] = conn[q][h]
      BY <1>5, <2>2 DEF TypeInv
    <3>7. QED
      BY <1>5, <2>2, <3>2, <3>3, <3>4, <3>5, <3>6
  <2>3. CASE /\ conn[p][h] = None /\ disk[h] # None /\ disk' = disk
             /\ db' = [db EXCEPT ![disk[h]].wal = TRUE]
             /\ conn' = [conn EXCEPT ![p][h] = disk[h]]
    <3>1. disk[h] \in DOMAIN db /\ db \in [DOMAIN db -> Database] /\ disk \in [Hour -> Nat]
      BY <2>3 DEF TypeInv, InodeInv
    <3>2. /\ db' \in [DOMAIN db -> Database] /\ DOMAIN db' = DOMAIN db
          /\ \A i \in DOMAIN db : db'[i].rows = db[i].rows
          /\ \A i \in DOMAIN db \ {disk[h]} : db'[i] = db[i]
      BY <2>3, <3>1 DEF Database
    <3>3. /\ conn' \in [Process -> [Hour -> Nat]] /\ conn'[p][h] = disk[h]
          /\ \A g \in Hour \ {h}, q \in Process : conn'[q][g] = conn[q][g]
          /\ \A q \in Process \ {p} : conn'[q][h] = conn[q][h]
      BY <2>3 DEF TypeInv
    <3>4. IsFiniteSet(DOMAIN db')
      BY <3>2 DEF TypeInv
    <3>5. QED
      BY <2>3, <3>1, <3>2, <3>3, <3>4
  <2>4. QED
    BY <1>4, <2>1, <2>2, <2>3 DEF n
<1>7. TypeInv'
  BY <1>1, <1>2, <1>3, <1>6 DEF TypeInv
<1>8. InodeInv'
  <2>1. \A q \in Process, g \in Hour :
            (raw[g] # None => raw[g] \in DOMAIN files)
            /\ (job'[q].file # None => job'[q].file \in DOMAIN files)
            /\ (job'[q].file # None /\ job'[q].file = raw[g] => job'[q].hour = g)
    BY <1>1, <1>3 DEF InodeInv
  <2>2. \A q \in Process, g \in Hour :
            (disk'[g] # None => disk'[g] \in DOMAIN db')
            /\ (conn'[q][g] # None => conn'[q][g] \in DOMAIN db')
    BY <1>6 DEF InodeInv
  <2>3. \A f, g \in Hour : disk'[f] # None /\ disk'[f] = disk'[g] => f = g
    BY <1>5, <1>6 DEF InodeInv
  <2>4. \A q \in Process, f, g \in Hour : conn'[q][f] # None /\ conn'[q][f] = disk'[g] => f = g
    BY <1>5, <1>6 DEF InodeInv
  <2>5. reader # None => reader \in DOMAIN db'
    BY <1>6 DEF InodeInv
  <2>6. QED
    BY <1>1, <2>1, <2>2, <2>3, <2>4, <2>5 DEF InodeInv
<1>9. JobInv'
  <2>1. InJob(p)'
    BY <1>1, <1>3, <1>6, BoundsAssumption DEF InJob, Reading, Entered, None
  <2>2. ASSUME NEW q \in Process \ {p} PROVE InJob(q)'
    <3>1. CASE job[q] = NoJob
      BY <1>3, <2>2, <3>1 DEF InJob, Reading, NoJob
    <3>2. CASE job[q] # NoJob
      <4>1. /\ job'[q] = job[q] /\ conn'[q][job[q].hour] = conn[q][job[q].hour]
            /\ db'[conn[q][job[q].hour]].rows = db[conn[q][job[q].hour]].rows
            /\ job[q].file # None /\ conn[q][job[q].hour] # None
            /\ Entered(job[q], db[conn[q][job[q].hour]].rows)
        <5>1. /\ job[q].hour \in Hour /\ job[q].file # None
              /\ conn[q][job[q].hour] # None /\ conn[q][job[q].hour] \in DOMAIN db
              /\ Entered(job[q], db[conn[q][job[q].hour]].rows)
          BY <3>2, JobTypes
        <5>2. QED
          BY <1>3, <1>6, <2>2, <5>1
      <4>2. Entered(job[q], db[conn[q][job[q].hour]].rows)'
        <5>1. \A f, o : Parsed(f, o)' = Parsed(f, o)
          BY <1>1 DEF Parsed
        <5>2. (db[conn[q][job[q].hour]].rows)' = db[conn[q][job[q].hour]].rows
          BY <4>1
        <5>3. QED
          BY <1>1, <4>1, <5>1, <5>2 DEF Entered
      <4>3. QED
        BY <1>3, <3>2, <4>1, <4>2 DEF InJob, Reading, JobInv
    <3>3. QED
      BY <3>1, <3>2
  <2>3. QED
    BY <2>1, <2>2 DEF JobInv
<1>10. ASSUME NEW g \in Hour PROVE Rows(g)' = Rows(g)
  <2>1. CASE disk[g] # None
    <3>1. disk'[g] = disk[g] /\ db'[disk[g]].rows = db[disk[g]].rows
      BY <1>6, <2>1 DEF InodeInv
    <3>2. QED
      BY <2>1, <3>1 DEF Rows
  <2>2. CASE disk[g] = None /\ disk'[g] = None
    BY <2>2 DEF Rows
  <2>3. CASE disk[g] = None /\ disk'[g] # None
    <3>1. disk'[g] = n /\ db'[n].rows = {}
      BY <1>6, <2>3
    <3>2. QED
      BY <2>3, <3>1 DEF Rows
  <2>4. QED
    BY <2>1, <2>2, <2>3
<1>11. RowsInv'
  <2>1. \A q \in Process, g \in Hour \ outlived : job'[q].hour = g => job'[q].file = raw[g]
    BY <1>3 DEF RowsInv
  <2>2. \A g \in Hour : raw[g] = None => disk'[g] = disk[g]
    BY <1>1, <1>6
  <2>3. QED
    BY <1>1, <1>10, <2>1, <2>2 DEF RowsInv
<1>12. CoverInv'
  <2>1. \A g \in Hour \ {h} : Ahead(g) => Ahead(g)'
    BY <1>1, <1>2, <1>3, BoundsAssumption DEF Ahead, NoJob, None
  <2>2. Ahead(h) => Ahead(h)'
    BY <1>1, <1>2, <1>3 DEF Ahead, Process
  <2>3. QED
    BY <1>1, <1>2, <1>10, <2>1, <2>2 DEF CoverInv, Present, Complete, Parsed
<1>13. RollbackInv'
  <2> DEFINE Ok(g) == /\ disk[g] # None /\ db[disk[g]].wal /\ ~ Attended(g) =>
                            \/ <<g, "busy">> \in stranded
                            \/ <<g, "tool">> \in stranded
                            \/ <<g, "daemon">> \in stranded /\ WillReopen(g)
                      /\ <<g, "daemon">> \in stranded => conn["daemon"][g] = None
                      /\ \A s \in stranded : s[1] = g => disk[g] # None
  <2>1. ASSUME NEW g \in Hour \ {h} PROVE Ok(g)'
    <3>1. Ok(g)
      BY DEF RollbackInv
    <3>2. WillReopen(g) => WillReopen(g)'
      BY <1>1, <1>2 DEF WillReopen, Present
    <3>3. Attended(g)' = Attended(g)
      BY <1>6 DEF Attended
    <3>4. disk'[g] = disk[g] /\ (disk[g] # None => db'[disk[g]] = db[disk[g]])
      BY <1>6 DEF InodeInv
    <3>5. \A s : s[1] = g => (s \in stranded' <=> s \in stranded)
      BY <1>4
    <3>6. conn'["daemon"][g] = conn["daemon"][g]
      BY <1>6 DEF Process
    <3>7. \A x : <<g, x>> \in stranded' <=> <<g, x>> \in stranded
      BY <1>4
    <3>8. QED
      BY <3>1, <3>2, <3>3, <3>4, <3>5, <3>6, <3>7
  <2>2. Ok(h)'
    <3>1. Ok(h)
      BY DEF RollbackInv
    <3>2. CASE /\ conn[p][h] # None /\ disk' = disk /\ db' = db /\ conn' = conn
               /\ stranded' = stranded
      <4>1. <<h, "daemon">> \in stranded /\ WillReopen(h) => WillReopen(h)'
        <5>1. CASE p = "daemon"
          BY <3>1, <3>2, <5>1
        <5>2. CASE p = "tool"
          BY <1>1, <1>2, <5>2 DEF WillReopen, Present
        <5>3. QED
          BY <5>1, <5>2 DEF Process
      <4>2. Attended(h)' = Attended(h)
        BY <3>2 DEF Attended
      <4>3. QED
        BY <3>1, <3>2, <4>1, <4>2
    <3>3. CASE conn[p][h] = None /\ disk[h] = None /\ disk' = [disk EXCEPT ![h] = NewInode(db)]
               /\ conn' = [conn EXCEPT ![p][h] = NewInode(db)] /\ stranded' = stranded
      <4>1. disk'[h] = n /\ conn'[p][h] = n
        BY <3>3 DEF TypeInv, n
      <4>2. Attended(h)' /\ disk'[h] # None
        BY <1>5, <4>1 DEF Attended
      <4>3. \A x : <<h, x>> \notin stranded'
        BY <3>1, <3>3
      <4>4. QED
        BY <4>2, <4>3
    <3>4. CASE /\ disk[h] # None /\ disk' = disk /\ conn' = [conn EXCEPT ![p][h] = disk[h]]
               /\ stranded' = {s \in stranded : s[1] # h}
      <4>1. Attended(h)'
        BY <3>4 DEF Attended, TypeInv
      <4>2. \A x : <<h, x>> \notin stranded'
        BY <3>4
      <4>3. QED
        BY <3>4, <4>1, <4>2
    <3>5. QED
      BY <1>4, <3>2, <3>3, <3>4
  <2>3. QED
    BY <2>1, <2>2 DEF RollbackInv
<1>14. QED
  BY <1>7, <1>8, <1>9, <1>11, <1>12, <1>13

Flushes(p, to) ==
    db' = [db EXCEPT ![conn[p][job[p].hour]].rows = Insert(@, Batch(job[p], to))]

\* A batch adds a row for each line it has parsed, of that line.
LEMMA Flushed ==
  ASSUME IInv, NEW p \in Process, job[p] # NoJob, NEW to \in Nat,
         to <= Len(files[job[p].file]),
         Flushes(p, to)
  PROVE  /\ db' \in [DOMAIN db -> Database]
         /\ \A i \in DOMAIN db : db[i].rows \subseteq db'[i].rows /\ db'[i].wal = db[i].wal
         /\ \A i \in DOMAIN db : i # conn[p][job[p].hour] => db'[i] = db[i]
         /\ \A r \in db'[conn[p][job[p].hour]].rows :
                \/ r \in db[conn[p][job[p].hour]].rows
                \/ /\ r.at \in DOMAIN files[job[p].file]
                   /\ files[job[p].file][r.at] = r.line
         /\ \A o \in 1..to : /\ o \in DOMAIN files[job[p].file]
                             /\ Parsed(job[p].file, o) =>
                                  \E r \in db'[conn[p][job[p].hour]].rows : r.at = o
<1> DEFINE j == job[p]  c == conn[p][j.hour]  s == files[j.file]  new == Batch(j, to)
<1>1. /\ s \in Seq(Nat) /\ j.pos \in Nat /\ c \in DOMAIN db /\ Entered(j, db[c].rows)
      /\ db \in [DOMAIN db -> Database]
  BY JobTypes DEF IInv, TypeInv
<1>2. DOMAIN s = 1..Len(s) /\ Len(s) \in Nat /\ \A o \in 1..Len(s) : s[o] \in Nat
  BY <1>1
<1>3. new = {[at |-> o, line |-> s[o]] : o \in {k \in j.pos + 1..to : Parsed(j.file, k)}}
  BY DEF Batch, Offset
<1>4. ASSUME NEW r \in new PROVE r \in Row /\ r.at \in DOMAIN s /\ s[r.at] = r.line
  <2>1. PICK o \in j.pos + 1..to : r = [at |-> o, line |-> s[o]]
    BY <1>3, <1>4
  <2>2. o \in Nat /\ o \in 1..Len(s)
    BY <1>1, <1>2
  <2>3. QED
    BY <1>2, <2>1, <2>2 DEF Row
<1>5. ASSUME NEW o \in j.pos + 1..to, Parsed(j.file, o) PROVE \E r \in new : r.at = o
  <2>1. [at |-> o, line |-> s[o]] \in new
    BY <1>3, <1>5
  <2>2. [at |-> o, line |-> s[o]].at = o
    OBVIOUS
  <2>3. QED
    BY <2>1, <2>2
<1> DEFINE rows == Insert(db[c].rows, new)
<1>6. /\ db[c].rows \subseteq rows /\ rows \subseteq db[c].rows \cup new
      /\ \A r \in new : \E q \in rows : q.at = r.at
  BY DEF Insert
<1>7. rows \in SUBSET Row
  BY <1>1, <1>4, <1>6 DEF Database
<1>8. db' = [db EXCEPT ![c].rows = rows]
  BY DEF Flushes
<1> HIDE DEF rows, new
<1>9. /\ db' \in [DOMAIN db -> Database] /\ db'[c].rows = rows /\ db'[c].wal = db[c].wal
      /\ \A i \in DOMAIN db : i # c => db'[i] = db[i]
  BY <1>1, <1>7, <1>8 DEF Database
<1>10. \A o \in 1..to : o \in DOMAIN s /\ (Parsed(j.file, o) => \E r \in rows : r.at = o)
  <2>1. ASSUME NEW o \in 1..j.pos PROVE Parsed(j.file, o) => \E r \in rows : r.at = o
    BY <1>1, <1>6, <2>1 DEF Entered
  <2>2. ASSUME NEW o \in j.pos + 1..to PROVE Parsed(j.file, o) => \E r \in rows : r.at = o
    BY <1>5, <1>6, <2>2
  <2>3. \A o \in 1..to : o \in 1..j.pos \/ o \in j.pos + 1..to
    BY <1>1
  <2>4. \A o \in 1..to : o \in DOMAIN s
    BY <1>2
  <2>5. QED
    BY <2>1, <2>2, <2>3, <2>4
<1>11. QED
  BY <1>4, <1>6, <1>9, <1>10

LEMMA FlushedRows ==
  ASSUME IInv, NEW p \in Process, job[p] # NoJob, NEW to \in Nat,
         to <= Len(files[job[p].file]), disk' = disk,
         Flushes(p, to),
         NEW h \in Hour
  PROVE  /\ Rows(h) \subseteq Rows(h)'
         /\ h \notin outlived /\ raw[h] # None => \A r \in Rows(h)' :
                r.at \in DOMAIN files[raw[h]] /\ files[raw[h]][r.at] = r.line
         /\ disk[h] # None => disk[h] \in DOMAIN db /\ db'[disk[h]].wal = db[disk[h]].wal
<1>1. CASE disk[h] = None
  BY <1>1 DEF Rows
<1>2. CASE disk[h] # None
  <2>1. disk[h] \in DOMAIN db
    BY <1>2 DEF IInv, InodeInv
  <2>2. Rows(h) = db[disk[h]].rows /\ Rows(h)' = db'[disk[h]].rows
    BY <1>2 DEF Rows
  <2>3. Rows(h) \subseteq Rows(h)' /\ db'[disk[h]].wal = db[disk[h]].wal
    BY <2>1, <2>2, Flushed
  <2>4. ASSUME h \notin outlived, raw[h] # None, NEW r \in Rows(h)'
        PROVE  r.at \in DOMAIN files[raw[h]] /\ files[raw[h]][r.at] = r.line
    <3>1. CASE r \in Rows(h)
      BY <2>4, <3>1 DEF IInv, RowsInv
    <3>2. CASE r \notin Rows(h)
      <4>1. disk[h] = conn[p][job[p].hour]
        BY <2>1, <2>2, <2>4, <3>2, Flushed
      <4>2. job[p].hour = h
        BY <1>2, <4>1, JobTypes DEF IInv, InodeInv
      <4>3. job[p].file = raw[h]
        BY <2>4, <4>2 DEF IInv, RowsInv
      <4>4. \/ r \in db[conn[p][job[p].hour]].rows
            \/ r.at \in DOMAIN files[job[p].file] /\ files[job[p].file][r.at] = r.line
        <5>1. r \in db'[conn[p][job[p].hour]].rows
          BY <2>2, <2>4, <4>1
        <5>2. QED
          BY <5>1, Flushed
      <4>5. QED
        BY <2>2, <3>2, <4>1, <4>3, <4>4
    <3>3. QED
      BY <3>1, <3>2
  <2>5. QED
    BY <2>1, <2>3, <2>4
<1>3. QED
  BY <1>1, <1>2

\* The other process is in its file as before.
LEMMA OtherJob ==
  ASSUME IInv, NEW p \in Process, job[p] # NoJob, NEW to \in Nat,
         to <= Len(files[job[p].file]), conn' = conn,
         Flushes(p, to),
         NEW q \in Process, job'[q] = job[q],
         job[q] # NoJob => files'[job[q].file] = files[job[q].file]
  PROVE  InJob(q)'
<1>1. CASE job[q] = NoJob
  BY <1>1 DEF InJob, Reading, NoJob
<1>2. CASE job[q] # NoJob
  <2>1. /\ job[q].file # None /\ conn[q][job[q].hour] # None
        /\ conn[q][job[q].hour] \in DOMAIN db
        /\ Entered(job[q], db[conn[q][job[q].hour]].rows)
    BY <1>2, JobTypes
  <2>2. db[conn[q][job[q].hour]].rows \subseteq db'[conn[q][job[q].hour]].rows
    BY <2>1, Flushed
  <2>3. Entered(job[q], db[conn[q][job[q].hour]].rows)'
    BY <1>2, <2>1, <2>2 DEF Entered, Parsed
  <2>4. QED
    BY <1>2, <2>1, <2>3 DEF InJob, Reading, IInv, JobInv
<1>3. QED
  BY <1>1, <1>2

LEMMA FlushBatchKeeps ==
  ASSUME IInv, NEW p \in Process, FlushBatch(p)
  PROVE  IInv'
<1>1. PICK to \in Full(job[p]) : /\ Flushes(p, to) /\ job' = [job EXCEPT ![p].pos = to]
  BY DEF FlushBatch, Flushes
<1>2. /\ raw' = raw /\ files' = files /\ written' = written /\ disk' = disk /\ conn' = conn
      /\ phase' = phase /\ pending' = pending /\ todo' = todo /\ reader' = reader
      /\ excuse' = excuse /\ outlived' = outlived /\ stranded' = stranded /\ job[p] # NoJob
  BY DEF FlushBatch, store, daemon, history
<1>3. to \in Nat /\ to <= Len(files[job[p].file])
  <2>1. files[job[p].file] \in Seq(Nat) /\ job[p].pos \in Nat
    BY <1>2, JobTypes
  <2>2. to \in job[p].pos + 1..Len(files[job[p].file])
    BY DEF Full
  <2>3. QED
    BY <2>1, <2>2
<1>4. /\ db' \in [DOMAIN db -> Database]
      /\ \A i \in DOMAIN db : db[i].rows \subseteq db'[i].rows /\ db'[i].wal = db[i].wal
      /\ \A o \in 1..to : /\ o \in DOMAIN files[job[p].file]
                          /\ Parsed(job[p].file, o) =>
                               \E r \in db'[conn[p][job[p].hour]].rows : r.at = o
  BY <1>1, <1>2, <1>3, Flushed
<1>5. /\ job' \in [Process -> [hour : Hour \cup {None}, file : Nat, pos : Nat]]
      /\ job'[p].pos = to
      /\ \A q \in Process : job'[q].hour = job[q].hour /\ job'[q].file = job[q].file
      /\ \A q \in Process \ {p} : job'[q] = job[q]
  BY <1>1, <1>3 DEF IInv, TypeInv
<1>6. TypeInv' /\ InodeInv'
  BY <1>2, <1>4, <1>5 DEF IInv, TypeInv, InodeInv
<1>7. JobInv'
  <2>1. InJob(p)'
    <3>1. job[p].hour \in Hour /\ job[p].file # None /\ conn[p][job[p].hour] # None
      BY <1>2, JobTypes
    <3>2. Entered(job[p], db[conn[p][job[p].hour]].rows)'
      BY <1>2, <1>4, <1>5 DEF Entered, Parsed
    <3>3. Reading(p)'
      BY <1>5, <3>1, BoundsAssumption DEF Reading, None
    <3>4. QED
      BY <1>2, <1>5, <3>1, <3>2, <3>3 DEF InJob
  <2>2. \A q \in Process \ {p} : InJob(q)'
    BY <1>1, <1>2, <1>3, <1>5, OtherJob
  <2>3. QED
    BY <2>1, <2>2 DEF JobInv
<1>8. \A h \in Hour :
          /\ Rows(h) \subseteq Rows(h)'
          /\ h \notin outlived /\ raw[h] # None => \A r \in Rows(h)' :
                 r.at \in DOMAIN files[raw[h]] /\ files[raw[h]][r.at] = r.line
          /\ disk[h] # None => db'[disk[h]].wal = db[disk[h]].wal
  BY <1>1, <1>2, <1>3, FlushedRows
<1>9. RowsInv'
  BY <1>2, <1>5, <1>8 DEF IInv, RowsInv
<1>10. CoverInv'
  <2>1. \A h \in Hour : (Complete(h) => Complete(h)') /\ Ahead(h)' = Ahead(h)
    BY <1>2, <1>5, <1>8 DEF Complete, Parsed, Ahead, Process
  <2>2. QED
    BY <1>2, <2>1 DEF IInv, CoverInv, Present
<1>11. RollbackInv'
  BY <1>2, <1>8 DEF IInv, RollbackInv, Attended, WillReopen, Present
<1>12. QED
  BY <1>6, <1>7, <1>9, <1>10, <1>11 DEF IInv

\* At the end of the file the hour is complete, if file and database are those of
\* that name.
LEMMA FinishFileKeeps ==
  ASSUME IInv, NEW p \in Process, FinishFile(p)
  PROVE  IInv'
<1> DEFINE j == job[p]  h == j.hour  to == Len(files[j.file])
<1>1. /\ raw' = raw /\ written' = written /\ disk' = disk /\ conn' = conn
      /\ phase' = phase /\ pending' = pending /\ todo' = todo /\ reader' = reader
      /\ outlived' = outlived /\ stranded' = stranded /\ j # NoJob
      /\ Flushes(p, to) /\ job' = [job EXCEPT ![p] = NoJob] /\ files' = Restrict(files, LiveFiles')
  BY DEF FinishFile, EndFile, Flushes, daemon
<1>2. excuse' = [excuse EXCEPT ![h] = IF conn[p][h] # disk[h] THEN excuse[h] \cup {"orphan"}
                                      ELSE IF j.file = raw[h] THEN {} ELSE excuse[h]]
  BY DEF FinishFile
<1>3. /\ h \in Hour /\ to \in Nat /\ to <= Len(files[j.file]) /\ DOMAIN files[j.file] = 1..to
      /\ conn[p][h] # None
  BY <1>1, JobTypes
<1>4. /\ excuse' \in [Hour -> SUBSET Why]
      /\ \A g \in Hour \ {h} : excuse'[g] = excuse[g]
      /\ excuse'[h] = {} => /\ conn[p][h] = disk[h]
                            /\ j.file = raw[h] \/ excuse[h] = {}
  <2>1. /\ excuse \in [Hour -> SUBSET Why] /\ excuse[h] \in SUBSET Why
        /\ excuse[h] \cup {"orphan"} \in SUBSET Why
    BY <1>3 DEF IInv, TypeInv, Why
  <2>2. QED
    BY <1>2, <1>3, <2>1
<1>5. /\ job' \in [Process -> [hour : Hour \cup {None}, file : Nat, pos : Nat]]
      /\ job'[p] = NoJob /\ \A q \in Process \ {p} : job'[q] = job[q]
  BY <1>1 DEF IInv, TypeInv, NoJob, None
<1>6. /\ DOMAIN files' \subseteq DOMAIN files /\ IsFiniteSet(DOMAIN files')
      /\ \A i \in DOMAIN files' : files'[i] = files[i]
      /\ files' \in [DOMAIN files' -> Seq(Nat)]
      /\ \A g \in Hour : raw'[g] # None => raw'[g] \in DOMAIN files'
      /\ \A q \in Process : job'[q].file # None => job'[q].file \in DOMAIN files'
  <2>1. /\ \A g \in Hour : raw'[g] = raw[g] \/ raw'[g] = None
        /\ \A q \in Process : job'[q].file = job[q].file \/ job'[q].file = None
    BY <1>1, <1>5 DEF NoJob
  <2>2. QED
    BY <1>1, <2>1, FilesLive DEF IInv
<1> HIDE DEF to, h, j
<1>7. /\ db' \in [DOMAIN db -> Database]
      /\ \A o \in 1..to : Parsed(j.file, o) => \E r \in db'[conn[p][h]].rows : r.at = o
  BY <1>1, <1>3, Flushed DEF j, h
<1>8. TypeInv'
  BY <1>1, <1>4, <1>5, <1>6, <1>7 DEF IInv, TypeInv
<1>9. InodeInv'
  <2>1. \A q \in Process, g \in Hour :
            job'[q].file # None /\ job'[q].file = raw[g] => job'[q].hour = g
    BY <1>5 DEF IInv, InodeInv, NoJob
  <2>2. QED
    BY <1>1, <1>6, <1>7, <2>1 DEF IInv, InodeInv
<1>10. JobInv'
  <2>1. InJob(p)'
    BY <1>5 DEF InJob, Reading, NoJob
  <2>2. ASSUME NEW q \in Process \ {p} PROVE InJob(q)'
    <3>1. job[q] # NoJob => files'[job[q].file] = files[job[q].file]
      BY <1>5, <1>6, JobTypes
    <3>2. QED
      BY <1>1, <1>3, <1>5, <3>1, OtherJob DEF j
  <2>3. QED
    BY <2>1, <2>2 DEF JobInv
<1>11. \A g \in Hour :
          /\ Rows(g) \subseteq Rows(g)'
          /\ g \notin outlived /\ raw[g] # None => \A r \in Rows(g)' :
                 r.at \in DOMAIN files[raw[g]] /\ files[raw[g]][r.at] = r.line
          /\ disk[g] # None => db'[disk[g]].wal = db[disk[g]].wal
  BY <1>1, <1>3, FlushedRows DEF j
<1>12. \A g \in Hour : raw[g] # None => files'[raw[g]] = files[raw[g]]
  BY <1>1, <1>6
<1>13. RowsInv'
  <2>1. \A q \in Process, g \in Hour : job'[q].hour = g => job'[q] = job[q]
    BY <1>5, BoundsAssumption DEF NoJob, None
  <2>2. QED
    BY <1>1, <1>11, <1>12, <2>1 DEF IInv, RowsInv
<1>14. CoverInv'
  <2> SUFFICES ASSUME phase # "down", NEW g \in Hour, raw[g] # None, excuse'[g] = {}
               PROVE  Complete(g)' \/ Ahead(g)'
    BY <1>1 DEF CoverInv, Present
  <2>1. Complete(g) => Complete(g)'
    BY <1>1, <1>11, <1>12 DEF Complete, Parsed
  <2>2. CASE g = h /\ j.file = raw[h]
    <3>1. Rows(g)' = db'[conn[p][h]].rows
      BY <1>1, <1>3, <1>4, <2>2 DEF Rows
    <3>2. QED
      BY <1>1, <1>3, <1>7, <1>12, <2>2, <3>1 DEF Complete, Parsed
  <2>3. CASE g # h \/ j.file # raw[h]
    <3>1. excuse[g] = {}
      BY <1>4, <2>3
    <3>2. Ahead(g) => Ahead(g)'
      BY <1>1, <1>5, <2>3 DEF Ahead, h, j
    <3>3. QED
      BY <2>1, <3>1, <3>2 DEF IInv, CoverInv, Present
  <2>4. QED
    BY <2>2, <2>3
<1>15. RollbackInv'
  BY <1>1, <1>11 DEF IInv, RollbackInv, Attended, WillReopen, Present
<1>16. QED
  BY <1>8, <1>9, <1>10, <1>13, <1>14, <1>15 DEF IInv

(***************************************************************************)
(* Every step of the system.                                               *)
(***************************************************************************)

LEMMA InitKeeps == Init => IInv
<1> SUFFICES ASSUME Init PROVE IInv
  OBVIOUS
<1>1. DOMAIN EmptyFcn = {} /\ IsFiniteSet({})
  BY FS_EmptySet DEF EmptyFcn
<1>2. /\ EmptyFcn \in [DOMAIN EmptyFcn -> Seq(Nat)]
      /\ EmptyFcn \in [DOMAIN EmptyFcn -> Database]
  BY DEF EmptyFcn
<1>3. TypeInv /\ InodeInv
  BY <1>1, <1>2 DEF Init, TypeInv, InodeInv, NoJob, None, Process
<1>4. JobInv
  BY DEF Init, JobInv, InJob, Reading, NoJob
<1>5. RowsInv /\ CoverInv /\ RollbackInv
  BY BoundsAssumption DEF Init, RowsInv, CoverInv, RollbackInv, Rows, NoJob, None
<1>6. QED
  BY <1>3, <1>4, <1>5 DEF IInv

LEMMA IndexFileKeeps ==
  ASSUME IInv, NEW p \in Process, IndexFile(p)
  PROVE  IInv'
  BY SkipFileKeeps, BeginFileKeeps, OpenBucketFailsKeeps, FlushBatchKeeps, FlushFailsKeeps,
     FinishFileKeeps DEF IndexFile

LEMMA NextKeeps ==
  ASSUME IInv, [Next]_vars
  PROVE  IInv'
<1>1. CASE \E h \in Hour : Store(h) \/ RemoveRaw(h) \/ RemoveDb(h) \/ ReaderOpen(h)
  BY <1>1, StoreKeeps, RemoveRawKeeps, ClearKeeps, ReaderOpenKeeps
<1>2. CASE Daemon
  BY <1>2, StartKeeps, CommandKeeps, IndexFileKeeps DEF Daemon, Process
<1>3. CASE Tool
  BY <1>3, CommandKeeps, ExitKeeps, ClearKeeps, IndexFileKeeps DEF Tool, Process
<1>4. CASE ReaderClose \/ Kill \/ KillTool \/ Invoke \/ Interrupt
  BY <1>4, ReaderCloseKeeps, KillKeeps, CommandKeeps
<1>5. CASE \E K \in SUBSET Hour : EvictIdle(K)
  BY <1>5, EvictIdleKeeps
<1>6. CASE UNCHANGED vars
  BY <1>6, ToolControlKeeps DEF vars, store, work, daemon, IInv, TypeInv
<1>7. QED
  BY <1>1, <1>2, <1>3, <1>4, <1>5, <1>6 DEF Next

LEMMA Always == Spec => []IInv
  BY InitKeeps, NextKeeps, PTL DEF Spec

\* For any hours, lines, batch size and number of commands, removals, failures and
\* kills of the daemon and of a one-shot command over the same databases: once an
\* hour is quiet, every line of its file that can be parsed has its row, unless the
\* database was removed or cleared, a transaction failed, or lines went into an
\* unlinked database, since the last complete pass.
THEOREM NoLineIsMissing == Spec => []NothingMissing
<1>1. IInv => NothingMissing
  <2> SUFFICES ASSUME IInv, NEW h \in Present, Quiet(h), excuse[h] = {}
               PROVE  {o \in DOMAIN files[raw[h]] : Parsed(raw[h], o)} \subseteq {r.at : r \in Rows(h)}
    BY DEF NothingMissing
  <2>1. ~ Ahead(h) /\ phase # "down"
    BY DEF Quiet, Ahead, Process
  <2>2. Complete(h)
    BY <2>1 DEF IInv, CoverInv
  <2>3. QED
    BY <2>2 DEF Complete
<1>2. QED
  BY <1>1, Always, PTL

\* A row's byte_offset leads to the line it was made from, whoever wrote it, unless
\* the raw file was removed before its database and written anew.
THEOREM RowsLeadToTheirLine == Spec => []RowsPointAtTheirLine
<1>1. IInv => RowsPointAtTheirLine
  BY DEF IInv, RowsInv, RowsPointAtTheirLine, Present
<1>2. QED
  BY <1>1, Always, PTL

\* A database nobody has open is in rollback mode, unless somebody else used it
\* when it was closed or its process was killed; what a kill of the daemon strands
\* its next life converts.
THEOREM NoneLeftInWal == Spec => []UnattendedIsRollback
<1>1. IInv => UnattendedIsRollback
  BY DEF IInv, RollbackInv, UnattendedIsRollback, Indexed, Attended, WillReopen
<1>2. QED
  BY <1>1, Always, PTL
===============================================================================
