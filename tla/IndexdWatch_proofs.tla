-------------------------- MODULE IndexdWatch_proofs ---------------------------
(***************************************************************************)
(* The indexing daemon forgets no line, for any tree of directories, any   *)
(* number of files and lines, any queue and watch limits, and any number   *)
(* of wipes and kills.                                                     *)
(***************************************************************************)
EXTENDS IndexdWatch, TLAPS

UpTo(d) == {Root} \cup Above[d]

Event == [kind : {"create"}, wd : Int \X Dir, name : Dir \ {Data}]
         \cup [kind : {"file"}, wd : Int \X Dir, name : File]

TypeInv ==
    /\ dirs \subseteq Dir /\ files \subseteq File
    /\ lines \in [File -> Nat] /\ read \in [File -> Nat]
    /\ gen \in Nat /\ identity \in Nat \cup {NoInode}
    /\ phase \in {"off", "boot", "loop", "created"}
    /\ watch \subseteq Dir /\ adding \subseteq Dir
    /\ listing \subseteq Dir \ {Data} /\ scanning \subseteq Dir \ {Data}
    /\ queue \in Seq(Event)

\* What exists: every directory is below data/raw/ and so are the ones above it; a
\* file that does not exist has no lines, and a wipe changes the inode of data/raw/.
TreeInv ==
    /\ Data \in dirs
    /\ \A d \in dirs \ {Data} : Parent[d] \in dirs
    /\ \A d \in dirs \ {Data} : \A S \in SUBSET Dir : d \in S /\ Upward(S) => Root \in S
    /\ \A f \in files : DirOf[f] \in dirs
    /\ identity <= gen /\ (identity = gen => Root \in dirs)

Waiting(e) == \E i \in DOMAIN queue : queue[i] = e
Creation(x) == [kind |-> "create", wd |-> Wd(Parent[x]), name |-> x]
Change(f) == [kind |-> "file", wd |-> Wd(DirOf[f]), name |-> f]

\* The event that announces x is in the queue, and will be understood.
Announced(x) == Waiting(Creation(x)) /\ (Parent[x] = Root \/ Wd(Parent[x]) \in known)

Attended(d) == d \in watch /\ Wd(d) \in known

\* The daemon has still to come to d from above.
Awaited(d) == \E x \in UpTo(d) : \/ x \in adding
                                 \/ x \in listing /\ x # d
                                 \/ Announced(x)

Trusting == phase = "created" \/ (phase = "loop" /\ identity = Inode)

\* No directory escapes the watches.
WatchInv ==
    trouble = {} /\ (phase = "boot" \/ Trusting) =>
        \A d \in dirs \ {Data} : Attended(d) \/ Awaited(d)

\* What has still to be watched has still to be scanned after that.
ScanInv ==
    phase \in {"loop", "created"} =>
        \A x \in adding \cup listing : \E y \in UpTo(x) : y \in scanning

\* While there is no data/raw/, a starting daemon waits for it in data/.
BootInv ==
    /\ phase = "off" => watch = {} /\ queue = << >> /\ adding = {} /\ listing = {}
    /\ trouble = {} /\ phase = "boot" /\ Root \notin dirs => Data \in adding \/ Attended(Data)
    /\ trouble = {} /\ phase = "created" => Root \in dirs
    /\ phase # "boot" => Data \notin adding

\* Each unread line will be read.
Unread(f) == f \in files /\ read[f] # lines[f]
Due(f) ==
    \/ f \in indexing
    \/ Waiting(Change(f)) /\ Wd(DirOf[f]) \in known
    \/ \E x \in UpTo(DirOf[f]) : x \in scanning \/ Announced(x)
UnreadInv == trouble = {} /\ Trusting => \A f \in File : Unread(f) => Due(f)

IInv == TypeInv /\ TreeInv /\ WatchInv /\ ScanInv /\ BootInv /\ UnreadInv

(***************************************************************************)
(* The tree of directories.                                                *)
(***************************************************************************)

LEMMA Upwards ==
  ASSUME NEW d \in Dir \ {Data}
  PROVE  /\ d \in UpTo(d)
         /\ UpTo(d) \subseteq Dir \ {Data}
         /\ \A S \in SUBSET Dir : d \in S /\ Upward(S) => Above[d] \subseteq S
  BY TreeAssumption DEF UpTo, Above

LEMMA UpwardsFromRoot == Above[Root] = {}
<1>1. {Root} \in SUBSET Dir /\ Upward({Root})
  BY TreeAssumption DEF Upward
<1>2. QED
  BY <1>1, TreeAssumption DEF Above

\* The way up from x is part of the way up from d.
LEMMA UpwardsTransitive ==
  ASSUME NEW d \in Dir \ {Data}, NEW x \in UpTo(d)
  PROVE  UpTo(x) \subseteq UpTo(d)
<1>1. CASE x = Root
  BY <1>1, UpwardsFromRoot DEF UpTo
<1>2. CASE x # Root
  <2>1. x \in Above[d] /\ x \in Dir \ {Data}
    BY <1>2, Upwards DEF UpTo
  <2>2. ASSUME NEW y \in Above[x] PROVE y \in Above[d]
    <3>1. y \in Dir \ {Data, Root}
      BY <2>1, <2>2 DEF Above
    <3>2. ASSUME NEW S \in SUBSET Dir, d \in S, Upward(S) PROVE y \in S
      <4>1. x \in S
        BY <2>1, <3>2, Upwards
      <4>2. QED
        BY <2>1, <2>2, <3>2, <4>1, Upwards
    <3>3. QED
      BY <3>1, <3>2 DEF Above
  <2>3. QED
    BY <2>2 DEF UpTo
<1>3. QED
  BY <1>1, <1>2

LEMMA ParentIsAbove ==
  ASSUME NEW c \in Dir \ {Data, Root}
  PROVE  Parent[c] \in Dir \ {Data} /\ Parent[c] \in UpTo(c)
<1>1. Parent[c] \in Dir \ {Data}
  BY TreeAssumption
<1>2. ASSUME Parent[c] # Root PROVE Parent[c] \in Above[c]
  <2>1. ASSUME NEW S \in SUBSET Dir, c \in S, Upward(S) PROVE Parent[c] \in S
    BY <2>1 DEF Upward
  <2>2. QED
    BY <1>1, <1>2, <2>1 DEF Above
<1>3. QED
  BY <1>1, <1>2 DEF UpTo

LEMMA UpwardsExists ==
  ASSUME TypeInv, TreeInv, NEW d \in dirs \ {Data}
  PROVE  UpTo(d) \subseteq dirs \ {Data}
<1>1. dirs \in SUBSET Dir /\ Upward(dirs) /\ d \in Dir \ {Data}
  BY DEF TypeInv, TreeInv, Upward
<1>2. Above[d] \subseteq dirs
  BY <1>1, Upwards
<1>3. Root \in dirs
  BY <1>1 DEF TreeInv
<1>4. QED
  BY <1>1, <1>2, <1>3, Upwards DEF UpTo

\* On the way up from d, whatever is not d has a child on that way.
LEMMA ChildOnTheWay ==
  ASSUME TypeInv, TreeInv, NEW d \in dirs \ {Data}, NEW x \in UpTo(d), x # d
  PROVE  \E c \in UpTo(d) : c # Root /\ Parent[c] = x
<1> DEFINE S == {d} \cup {Parent[c] : c \in Above[d]}
<1>1. d \in Dir \ {Data}
  BY DEF TypeInv
<1>2. Above[d] \subseteq Dir \ {Data, Root}
  BY <1>1 DEF Above
<1>3. S \in SUBSET Dir
  BY <1>1, <1>2, TreeAssumption
<1>4. ASSUME NEW y \in S \ {Data, Root} PROVE Parent[y] \in S
  <2>1. y \in Above[d]
    <3>1. CASE y = d
      BY <1>1, <1>4, <3>1 DEF Above
    <3>2. CASE y # d
      <4>1. PICK c \in Above[d] : y = Parent[c]
        BY <3>2
      <4>2. y \in UpTo(c)
        BY <1>2, <4>1, ParentIsAbove
      <4>3. c \in UpTo(d)
        BY <4>1 DEF UpTo
      <4>4. y \in UpTo(d)
        BY <1>1, <4>2, <4>3, UpwardsTransitive
      <4>5. QED
        BY <1>4, <4>4 DEF UpTo
    <3>3. QED
      BY <3>1, <3>2
  <2>2. QED
    BY <2>1
<1>5. Upward(S) /\ d \in S
  BY <1>4 DEF Upward
<1>6. Root \in S
  BY <1>3, <1>5 DEF TreeInv
<1>7. Above[d] \subseteq S
  BY <1>1, <1>3, <1>5, Upwards
<1>8. x \in S
  BY <1>6, <1>7 DEF UpTo
<1>9. PICK c \in Above[d] : x = Parent[c]
  BY <1>8
<1>10. QED
  BY <1>2, <1>9 DEF UpTo

(***************************************************************************)
(* The queue.                                                              *)
(***************************************************************************)

LEMMA Posted ==
  ASSUME TypeInv, NEW e \in Event, queue' = Append(queue, e)
  PROVE  /\ queue' \in Seq(Event)
         /\ Waiting(e)'
         /\ \A x : Waiting(x) => Waiting(x)'
<1>1. queue \in Seq(Event)
  BY DEF TypeInv
<1>2. /\ queue' \in Seq(Event) /\ Len(queue) \in Nat
      /\ DOMAIN queue = 1..Len(queue) /\ DOMAIN queue' = 1..(Len(queue) + 1)
      /\ \A i \in DOMAIN queue : queue'[i] = queue[i]
      /\ queue'[Len(queue) + 1] = e
  BY <1>1
<1>3. QED
  BY <1>2 DEF Waiting

LEMMA Taken ==
  ASSUME TypeInv, queue # << >>, queue' = Tail(queue)
  PROVE  /\ queue' \in Seq(Event)
         /\ Head(queue) \in Event
         /\ \A x : Waiting(x) => x = Head(queue) \/ Waiting(x)'
<1>1. queue \in Seq(Event)
  BY DEF TypeInv
<1>2. /\ queue' \in Seq(Event) /\ Len(queue) \in Nat /\ Head(queue) = queue[1]
      /\ DOMAIN queue = 1..Len(queue) /\ DOMAIN queue' = 1..(Len(queue) - 1)
      /\ \A i \in DOMAIN queue' : queue'[i] = queue[i + 1]
      /\ Head(queue) \in Event
  BY <1>1
<1>3. ASSUME NEW x, Waiting(x), x # Head(queue) PROVE Waiting(x)'
  <2>1. PICK i \in DOMAIN queue : queue[i] = x
    BY <1>3 DEF Waiting
  <2>2. i \in Nat /\ i # 1 /\ i - 1 \in DOMAIN queue' /\ (i - 1) + 1 = i
    BY <1>2, <1>3, <2>1
  <2>3. queue'[i - 1] = x
    BY <1>2, <2>1, <2>2
  <2>4. QED
    BY <2>2, <2>3 DEF Waiting
<1>4. QED
  BY <1>2, <1>3

LEMMA EventTypes ==
  ASSUME TypeInv
  PROVE  /\ \A x \in Dir \ {Data} : Creation(x) \in Event
         /\ \A f \in File : Change(f) \in Event
<1>1. \A d \in Dir : Wd(d) \in Int \X Dir
  BY DEF TypeInv, Wd
<1>2. QED
  BY <1>1, TreeAssumption DEF Creation, Change, Event

\* In a life without trouble so far, an event for a watched directory is queued.
LEMMA PostedUntroubled ==
  ASSUME NEW d, NEW e, Post(d, e), trouble' = {}
  PROVE  /\ trouble = {}
         /\ IF d \in watch THEN queue' = Append(queue, e) ELSE queue' = queue
  BY DEF Post

LEMMA PostType ==
  ASSUME TypeInv, NEW d, NEW e \in Event, Post(d, e)
  PROVE  queue' \in Seq(Event) /\ \A x : Waiting(x) => Waiting(x)'
<1>1. CASE queue' = queue
  BY <1>1 DEF TypeInv, Waiting
<1>2. CASE queue' = Append(queue, e)
  BY <1>2, Posted
<1>3. QED
  BY <1>1, <1>2 DEF Post

(***************************************************************************)
(* normalized and retention.                                               *)
(***************************************************************************)

LEMMA MkdirKeeps ==
  ASSUME IInv, NEW d \in Dir \ {Data}, Mkdir(d)
  PROVE  IInv'
<1> USE DEF IInv
<1>1. /\ dirs' = dirs \cup {d} /\ d \notin dirs /\ Parent[d] \in dirs
      /\ files' = files /\ lines' = lines /\ gen' = gen /\ watch' = watch /\ kills' = kills
      /\ known' = known /\ phase' = phase /\ identity' = identity /\ read' = read
      /\ adding' = adding /\ listing' = listing /\ scanning' = scanning /\ indexing' = indexing
  BY DEF Mkdir, daemon, work
<1>2. \/ /\ d = Root /\ phase = "boot" /\ Data \in adding
         /\ trouble' = trouble \cup {"replaced"} /\ queue' = queue
      \/ /\ ~ (d = Root /\ phase = "boot" /\ Data \in adding)
         /\ Post(Parent[d], Creation(d))
  BY DEF Mkdir, Creation
<1>3. Creation(d) \in Event
  BY EventTypes
<1>4. queue' \in Seq(Event) /\ \A x : Waiting(x) => Waiting(x)'
  BY <1>2, <1>3, PostType DEF TypeInv, Waiting
<1>5. TypeInv'
  BY <1>1, <1>4 DEF TypeInv
<1>6. d # Root => Parent[d] \in dirs \ {Data}
  BY <1>1, TreeAssumption
<1>7. TreeInv'
  <2>1. ASSUME NEW S \in SUBSET Dir, d \in S, Upward(S) PROVE Root \in S
    <3>1. CASE d = Root
      BY <2>1, <3>1
    <3>2. CASE d # Root
      <4>1. Parent[d] \in S
        BY <2>1, <3>2 DEF Upward
      <4>2. QED
        BY <1>6, <2>1, <3>2, <4>1 DEF TreeInv
    <3>3. QED
      BY <3>1, <3>2
  <2>2. \A e \in dirs' \ {Data} : \A S \in SUBSET Dir : e \in S /\ Upward(S) => Root \in S
    BY <1>1, <2>1 DEF TreeInv
  <2>3. QED
    BY <1>1, <2>2 DEF TreeInv
<1>8. \A x : Wd(x)' = Wd(x)
  BY <1>1 DEF Wd
<1>9. \A x : Announced(x) => Announced(x)'
  BY <1>1, <1>4, <1>8 DEF Announced, Creation
<1>10. ASSUME trouble' = {} PROVE /\ trouble = {}
                                  /\ ~ (d = Root /\ phase = "boot" /\ Data \in adding)
                                  /\ Post(Parent[d], Creation(d))
                                  /\ Trusting' => Trusting /\ d # Root
  <2>1. /\ trouble = {} /\ Post(Parent[d], Creation(d))
        /\ ~ (d = Root /\ phase = "boot" /\ Data \in adding)
    BY <1>2, <1>10, PostedUntroubled
  <2>2. Trusting' => Trusting /\ d # Root
    BY <1>1, <1>10, <2>1 DEF Trusting, Inode, TreeInv, BootInv
  <2>3. QED
    BY <2>1, <2>2
<1>11. WatchInv'
  <2> SUFFICES ASSUME trouble' = {}, phase = "boot" \/ (Trusting /\ d # Root),
                      NEW e \in dirs' \ {Data}
               PROVE  Attended(e)' \/ Awaited(e)'
    BY <1>1, <1>10 DEF WatchInv
  <2>1. \A x \in dirs \ {Data} : Attended(x) \/ Awaited(x)
    BY <1>10 DEF WatchInv
  <2>2. CASE e # d
    BY <1>1, <1>8, <1>9, <2>1, <2>2 DEF Attended, Awaited
  <2>3. CASE e = d /\ Attended(Parent[d])
    <3>1. queue' = Append(queue, Creation(d))
      BY <1>10, <2>3, PostedUntroubled DEF Attended
    <3>2. Announced(d)'
      BY <1>1, <1>3, <1>8, <2>3, <3>1, Posted DEF Announced, Creation, Attended
    <3>3. QED
      BY <2>3, <3>2, Upwards DEF Awaited
  <2>4. CASE e = d /\ d = Root /\ ~ Attended(Parent[d])
    <3>1. Data \in adding
      BY <1>1, <1>10, <2>4, TreeAssumption DEF BootInv
    <3>2. QED
      BY <1>10, <2>4, <3>1
  <2>5. CASE e = d /\ d # Root /\ ~ Attended(Parent[d])
    <3>1. PICK x \in UpTo(Parent[d]) : x \in adding \/ (x \in listing /\ x # Parent[d]) \/ Announced(x)
      BY <1>6, <2>1, <2>5 DEF Awaited
    <3>2. x \in UpTo(d)
      BY <2>5, <3>1, ParentIsAbove, UpwardsTransitive
    <3>3. x # d
      BY <1>1, <1>6, <2>5, <3>1, UpwardsExists
    <3>4. QED
      BY <1>1, <1>9, <2>5, <3>1, <3>2, <3>3 DEF Awaited
  <2>6. QED
    BY <2>2, <2>3, <2>4, <2>5
<1>12. ScanInv'
  BY <1>1 DEF ScanInv
<1>13. BootInv'
  <2>1. phase = "off" => queue' = queue
    BY <1>2 DEF BootInv, Post
  <2>2. QED
    BY <1>1, <1>8, <1>10, <2>1 DEF BootInv, Attended
<1>14. UnreadInv'
  <2>1. \A f \in File : Due(f) => Due(f)'
    BY <1>1, <1>4, <1>8, <1>9 DEF Due, Change
  <2>2. QED
    BY <1>1, <1>10, <2>1 DEF UnreadInv, Unread
<1>15. QED
  BY <1>5, <1>7, <1>11, <1>12, <1>13, <1>14

\* A directory that is not attended will be scanned after it is watched.
LEMMA AwaitedIsScanned ==
  ASSUME IInv, phase \in {"loop", "created"}, NEW d \in dirs \ {Data}, Awaited(d)
  PROVE  \E x \in UpTo(d) : x \in scanning \/ Announced(x)
<1>1. d \in Dir \ {Data}
  BY DEF IInv, TypeInv
<1>2. PICK x \in UpTo(d) : x \in adding \cup listing \/ Announced(x)
  BY DEF Awaited
<1>3. CASE x \in adding \cup listing
  <2>1. PICK y \in UpTo(x) : y \in scanning
    BY <1>3 DEF IInv, ScanInv
  <2>2. y \in UpTo(d)
    BY <1>1, <2>1, UpwardsTransitive
  <2>3. QED
    BY <2>1, <2>2
<1>4. QED
  BY <1>2, <1>3

\* A new line in a directory that exists is announced, or the directory is.
LEMMA LineKeeps ==
  ASSUME IInv, NEW f \in File, DirOf[f] \in dirs,
         files' = files \cup {f}, NEW n \in Nat, lines' = [lines EXCEPT ![f] = n],
         Post(DirOf[f], Change(f)),
         UNCHANGED <<dirs, gen, watch, daemon, kills>>
  PROVE  IInv'
<1> USE DEF IInv
<1>1. /\ dirs' = dirs /\ gen' = gen /\ watch' = watch /\ kills' = kills
      /\ known' = known /\ phase' = phase /\ identity' = identity /\ read' = read
      /\ adding' = adding /\ listing' = listing /\ scanning' = scanning /\ indexing' = indexing
  BY DEF daemon, work
<1>2. queue' \in Seq(Event) /\ \A x : Waiting(x) => Waiting(x)'
  BY EventTypes, PostType
<1>3. TypeInv'
  BY <1>1, <1>2 DEF TypeInv
<1>4. TreeInv'
  BY <1>1 DEF TreeInv
<1>5. \A x : Wd(x)' = Wd(x)
  BY <1>1 DEF Wd
<1>6. \A x : Announced(x) => Announced(x)'
  BY <1>1, <1>2, <1>5 DEF Announced, Creation
<1>7. trouble' = {} => trouble = {}
  BY PostedUntroubled
<1>8. Trusting' = Trusting
  BY <1>1 DEF Trusting, Inode
<1>9. WatchInv'
  <2>1. \A d : Attended(d) => Attended(d)'
    BY <1>1, <1>5 DEF Attended
  <2>2. \A d : Awaited(d) => Awaited(d)'
    BY <1>1, <1>6 DEF Awaited
  <2>3. QED
    BY <1>1, <1>7, <1>8, <2>1, <2>2 DEF WatchInv
<1>10. ScanInv'
  BY <1>1 DEF ScanInv
<1>11. BootInv'
  <2>1. phase = "off" => queue' = queue
    BY DEF BootInv, Post
  <2>2. QED
    BY <1>1, <1>5, <1>7, <2>1 DEF BootInv, Attended
<1>12. UnreadInv'
  <2> SUFFICES ASSUME trouble' = {}, Trusting, NEW g \in File, Unread(g)'
               PROVE  Due(g)'
    BY <1>8 DEF UnreadInv
  <2>1. \A h \in File : Due(h) => Due(h)'
    BY <1>1, <1>2, <1>5, <1>6 DEF Due, Change
  <2>2. CASE g # f
    <3>1. Unread(g)
      BY <1>1, <2>2 DEF Unread, TypeInv
    <3>2. QED
      BY <1>7, <2>1, <3>1 DEF UnreadInv
  <2>3. CASE g = f
    <3>1. DirOf[f] \in dirs \ {Data} /\ phase \in {"loop", "created"}
      BY TreeAssumption DEF Trusting
    <3>2. CASE Attended(DirOf[f])
      <4>1. queue' = Append(queue, Change(f))
        BY <3>2, PostedUntroubled DEF Attended
      <4>2. Waiting(Change(f))'
        BY <1>5, <4>1, EventTypes, Posted DEF Change, Waiting
      <4>3. (Wd(DirOf[f]) \in known)'
        BY <1>1, <1>5, <3>2 DEF Attended
      <4>4. QED
        BY <2>3, <4>2, <4>3 DEF Due
    <3>3. CASE Awaited(DirOf[f])
      BY <1>1, <1>6, <2>3, <3>1, <3>3, AwaitedIsScanned DEF Due
    <3>4. QED
      BY <1>7, <3>1, <3>2, <3>3 DEF WatchInv
  <2>4. QED
    BY <2>2, <2>3
<1>13. QED
  BY <1>3, <1>4, <1>9, <1>10, <1>11, <1>12

LEMMA CreateFileKeeps ==
  ASSUME IInv, NEW f \in File, CreateFile(f)
  PROVE  IInv'
  BY LineKeeps DEF CreateFile, Change

LEMMA AppendLineKeeps ==
  ASSUME IInv, NEW f \in File, AppendLine(f)
  PROVE  IInv'
<1>1. /\ f \in files /\ files' = files \cup {f} /\ Post(DirOf[f], Change(f))
      /\ lines' = [lines EXCEPT ![f] = lines[f] + 1]
      /\ UNCHANGED <<dirs, gen, watch, daemon, kills>>
  BY DEF AppendLine, Change
<1>2. lines[f] + 1 \in Nat /\ DirOf[f] \in dirs
  BY <1>1 DEF IInv, TypeInv, TreeInv
<1>3. QED
  BY <1>1, <1>2, LineKeeps

LEMMA WipeKeeps ==
  ASSUME IInv, Wipe
  PROVE  IInv'
<1> USE DEF IInv
<1>1. /\ gen' = gen + 1 /\ dirs' = {Data} /\ files' = {}
      /\ lines' = [f \in File |-> 0] /\ read' = [f \in File |-> 0]
      /\ watch' = watch \cap {Data}
      /\ trouble' = IF phase \in {"boot", "created"}
                    THEN trouble \cup {"replaced"} ELSE trouble
      /\ queue' = queue /\ known' = known /\ phase' = phase /\ identity' = identity
      /\ adding' = adding /\ listing' = listing /\ scanning' = scanning /\ indexing' = indexing
  BY DEF Wipe, work
<1>2. TypeInv'
  BY <1>1, TreeAssumption DEF TypeInv
<1>3. TreeInv'
  <2>1. identity < gen'
    BY <1>1 DEF TypeInv, TreeInv, NoInode
  <2>2. identity' <= gen' /\ identity' # gen'
    BY <1>1, <2>1 DEF TypeInv, NoInode
  <2>3. QED
    BY <1>1, <2>2 DEF TreeInv
<1>4. WatchInv'
  BY <1>1 DEF WatchInv
<1>5. ScanInv'
  BY <1>1 DEF ScanInv
<1>6. BootInv'
  BY <1>1 DEF BootInv
<1>7. UnreadInv'
  BY <1>1 DEF UnreadInv, Unread
<1>8. QED
  BY <1>2, <1>3, <1>4, <1>5, <1>6, <1>7

LEMMA StutterKeeps ==
  ASSUME IInv, UNCHANGED <<dirs, files, lines, gen, watch, queue, daemon, trouble>>
  PROVE  IInv'
<1>1. /\ TypeInv' /\ TreeInv' /\ ScanInv'
  BY DEF IInv, TypeInv, TreeInv, ScanInv, daemon, work
<1>2. WatchInv'
  BY DEF IInv, WatchInv, Trusting, Inode, Attended, Awaited, Announced, Waiting, Creation, Wd,
         daemon, work
<1>3. BootInv'
  BY DEF IInv, BootInv, Attended, Wd, daemon, work
<1>4. UnreadInv'
  BY DEF IInv, UnreadInv, Trusting, Inode, Unread, Due, Announced, Waiting, Creation, Change, Wd,
         daemon, work
<1>5. QED
  BY <1>1, <1>2, <1>3, <1>4 DEF IInv

(***************************************************************************)
(* The daemon.                                                             *)
(***************************************************************************)

LEMMA BootKeeps ==
  ASSUME IInv, Boot
  PROVE  IInv'
<1> USE DEF IInv
<1>1. /\ phase' = "boot" /\ adding' = {IF Root \in dirs THEN Root ELSE Data}
      /\ dirs' = dirs /\ files' = files /\ lines' = lines /\ gen' = gen /\ watch' = watch
      /\ queue' = queue /\ known' = known /\ identity' = identity /\ listing' = listing
      /\ scanning' = scanning /\ indexing' = indexing /\ read' = read /\ trouble' = trouble
  BY DEF Boot, tree
<1>2. TypeInv'
  BY <1>1, TreeAssumption DEF TypeInv
<1>3. TreeInv'
  BY <1>1 DEF TreeInv
<1>4. ASSUME NEW d \in dirs' \ {Data} PROVE Awaited(d)'
  <2>1. Root \in UpTo(d) /\ Root \in dirs
    BY <1>1, <1>4, UpwardsExists DEF UpTo
  <2>2. QED
    BY <1>1, <2>1 DEF Awaited
<1>5. WatchInv'
  BY <1>4 DEF WatchInv
<1>6. ScanInv' /\ UnreadInv'
  BY <1>1 DEF ScanInv, UnreadInv, Trusting
<1>7. BootInv'
  BY <1>1 DEF BootInv
<1>8. QED
  BY <1>2, <1>3, <1>5, <1>6, <1>7

LEMMA WatchDirKeeps ==
  ASSUME IInv, NEW d \in Dir, WatchDir(d)
  PROVE  IInv'
<1> USE DEF IInv
<1>1. /\ d \in adding /\ adding' = adding \ {d}
      /\ dirs' = dirs /\ files' = files /\ lines' = lines /\ gen' = gen /\ queue' = queue
      /\ phase' = phase /\ identity' = identity
      /\ scanning' = scanning /\ indexing' = indexing /\ read' = read
  BY DEF WatchDir, tree
<1>2. \A x : /\ Wd(x)' = Wd(x) /\ Waiting(x)' = Waiting(x) /\ Creation(x)' = Creation(x)
             /\ Change(x)' = Change(x)
  BY <1>1 DEF Wd, Waiting, Creation, Change
<1>3. TreeInv'
  BY <1>1 DEF TreeInv
<1>4. Trusting' = Trusting
  BY <1>1 DEF Trusting, Inode
<1>5. \/ /\ d \notin dirs
         /\ watch' = watch /\ known' = known /\ listing' = listing /\ trouble' = trouble
      \/ /\ trouble' # {}
         /\ watch' = watch /\ known' = known /\ listing' = listing
      \/ /\ d \in dirs
         /\ watch' = watch \cup {d} /\ known' = known \cup {Wd(d)}
         /\ listing' = IF d = Data THEN listing ELSE listing \cup {d}
         /\ trouble' = trouble
  BY DEF WatchDir
<1>6. TypeInv'
  BY <1>1, <1>5 DEF TypeInv
<1>7. /\ known \subseteq known' /\ (trouble' = {} => trouble = {})
      /\ \A x : Announced(x) => Announced(x)'
      /\ \A x : Attended(x) => Attended(x)'
  <2>1. known \subseteq known' /\ watch \subseteq watch' /\ (trouble' = {} => trouble = {})
    BY <1>5
  <2>2. \A x : Announced(x) => Announced(x)'
    BY <1>1, <2>1 DEF Announced, Waiting, Creation, Wd
  <2>3. \A x : Attended(x) => Attended(x)'
    BY <1>2, <2>1 DEF Attended
  <2>4. QED
    BY <2>1, <2>2, <2>3
<1>8. WatchInv'
  <2> SUFFICES ASSUME trouble' = {}, phase = "boot" \/ Trusting, NEW e \in dirs \ {Data}, ~ Attended(e)'
               PROVE  Awaited(e)'
    BY <1>1, <1>4 DEF WatchInv
  <2>1. PICK x \in UpTo(e) : x \in adding \/ (x \in listing /\ x # e) \/ Announced(x)
    BY <1>7 DEF WatchInv, Awaited
  <2>2. x \in dirs \ {Data}
    BY <2>1, UpwardsExists
  <2>3. CASE x = d
    <3>1. /\ watch' = watch \cup {d} /\ known' = known \cup {Wd(d)} /\ d \in listing'
      BY <1>5, <2>2, <2>3
    <3>2. e # d
      BY <1>2, <3>1 DEF Attended
    <3>3. QED
      BY <2>1, <2>3, <3>1, <3>2 DEF Awaited
  <2>4. CASE x # d
    <3>1. listing \subseteq listing'
      BY <1>5
    <3>2. QED
      BY <1>1, <1>7, <2>1, <2>4, <3>1 DEF Awaited
  <2>5. QED
    BY <2>3, <2>4
<1>9. ScanInv'
  <2>1. adding' \cup listing' \subseteq adding \cup listing
    BY <1>1, <1>5
  <2>2. QED
    BY <1>1, <2>1 DEF ScanInv
<1>10. BootInv'
  <2>1. phase # "off"
    BY <1>1 DEF BootInv
  <2>2. ASSUME trouble' = {}, phase = "boot", Root \notin dirs
        PROVE  Data \in adding' \/ Attended(Data)'
    <3>1. Data \in dirs /\ (Data \in adding \/ Attended(Data))
      BY <1>7, <2>2 DEF BootInv, TreeInv
    <3>2. CASE d = Data
      BY <1>2, <1>5, <2>2, <3>1, <3>2 DEF Attended
    <3>3. QED
      BY <1>1, <1>7, <3>1, <3>2
  <2>3. QED
    BY <1>1, <1>7, <2>1, <2>2 DEF BootInv
<1>11. UnreadInv'
  <2>1. \A f : Unread(f)' = Unread(f)
    BY <1>1 DEF Unread
  <2>2. \A f : Waiting(Change(f))' = Waiting(Change(f))
    BY <1>1 DEF Waiting, Change, Wd
  <2>3. \A f : Due(f) => Due(f)'
    BY <1>1, <1>2, <1>7, <2>2 DEF Due
  <2>4. QED
    BY <1>4, <1>7, <2>1, <2>3 DEF UnreadInv
<1>12. QED
  BY <1>3, <1>6, <1>8, <1>9, <1>10, <1>11

LEMMA ChildrenExist ==
  ASSUME TypeInv, TreeInv, NEW d, NEW c \in Children(d)
  PROVE  c \in dirs \ {Data} /\ Parent[c] = d
  BY DEF Children

LEMMA ChildrenFound ==
  ASSUME TypeInv, TreeInv, NEW d \in dirs \ {Data}, NEW x \in UpTo(d), x # d
  PROVE  \E c \in UpTo(d) : c \in Children(x)
<1>1. PICK c \in UpTo(d) : c # Root /\ Parent[c] = x
  BY ChildOnTheWay
<1>2. c \in dirs \ {Data}
  BY <1>1, UpwardsExists
<1>3. QED
  BY <1>1, <1>2 DEF Children

LEMMA ListDirKeeps ==
  ASSUME IInv, NEW d \in Dir, ListDir(d)
  PROVE  IInv'
<1> USE DEF IInv
<1>1. /\ d \in listing /\ listing' = listing \ {d} /\ adding' = adding \cup Children(d)
      /\ dirs' = dirs /\ files' = files /\ lines' = lines /\ gen' = gen /\ watch' = watch
      /\ queue' = queue /\ known' = known /\ phase' = phase /\ identity' = identity
      /\ scanning' = scanning /\ indexing' = indexing /\ read' = read /\ trouble' = trouble
  BY DEF ListDir, tree
<1>2. \A x : /\ Wd(x)' = Wd(x) /\ Waiting(x)' = Waiting(x) /\ Creation(x)' = Creation(x)
             /\ Change(x)' = Change(x) /\ Announced(x)' = Announced(x)
             /\ Attended(x)' = Attended(x)
  BY <1>1 DEF Wd, Waiting, Creation, Change, Announced, Attended
<1>3. TreeInv'
  BY <1>1 DEF TreeInv
<1>4. Trusting' = Trusting
  BY <1>1 DEF Trusting, Inode
<1>5. Children(d) \subseteq Dir \ {Data}
  BY DEF Children, TypeInv
<1>6. TypeInv'
  BY <1>1, <1>5 DEF TypeInv
<1>7. WatchInv'
  <2> SUFFICES ASSUME NEW e \in dirs \ {Data}, Awaited(e) PROVE Awaited(e)'
    BY <1>1, <1>2, <1>4 DEF WatchInv
  <2>1. PICK x \in UpTo(e) : x \in adding \/ (x \in listing /\ x # e) \/ Announced(x)
    BY DEF Awaited
  <2>2. CASE x = d /\ x # e
    <3>1. PICK c \in UpTo(e) : c \in Children(d)
      BY <2>2, ChildrenFound
    <3>2. QED
      BY <1>1, <3>1 DEF Awaited
  <2>3. CASE ~ (x = d /\ x # e)
    BY <1>1, <1>2, <2>1, <2>3 DEF Awaited
  <2>4. QED
    BY <2>2, <2>3
<1>8. ScanInv'
  <2> SUFFICES ASSUME phase \in {"loop", "created"}, NEW c \in Children(d)
               PROVE  \E y \in UpTo(c) : y \in scanning
    BY <1>1 DEF ScanInv
  <2>1. PICK y \in UpTo(d) : y \in scanning
    BY <1>1 DEF ScanInv
  <2>2. c \in Dir \ {Data, Root} /\ Parent[c] = d
    BY <1>1, <1>5, ChildrenExist, TreeAssumption DEF TypeInv
  <2>3. UpTo(d) \subseteq UpTo(c)
    BY <2>2, ParentIsAbove, UpwardsTransitive
  <2>4. QED
    BY <2>1, <2>3
<1>9. BootInv'
  BY <1>1, <1>2, <1>5 DEF BootInv
<1>10. UnreadInv'
  BY <1>1, <1>2, <1>4 DEF UnreadInv, Unread, Due
<1>11. QED
  BY <1>3, <1>6, <1>7, <1>8, <1>9, <1>10

LEMMA ScanDirKeeps ==
  ASSUME IInv, NEW d \in Dir, ScanDir(d)
  PROVE  IInv'
<1> USE DEF IInv
<1>1. /\ d \in scanning /\ adding = {} /\ listing = {}
      /\ scanning' = (scanning \ {d}) \cup Children(d) /\ indexing' = indexing \cup FilesIn(d)
      /\ dirs' = dirs /\ files' = files /\ lines' = lines /\ gen' = gen /\ watch' = watch
      /\ queue' = queue /\ known' = known /\ phase' = phase /\ identity' = identity
      /\ adding' = adding /\ listing' = listing /\ read' = read /\ trouble' = trouble
  BY DEF ScanDir, Watched, tree
<1>2. \A x : /\ Wd(x)' = Wd(x) /\ Waiting(x)' = Waiting(x) /\ Creation(x)' = Creation(x)
             /\ Change(x)' = Change(x) /\ Announced(x)' = Announced(x)
             /\ Attended(x)' = Attended(x) /\ Awaited(x)' = Awaited(x)
  BY <1>1 DEF Wd, Waiting, Creation, Change, Announced, Attended, Awaited
<1>3. TreeInv' /\ ScanInv'
  BY <1>1 DEF TreeInv, ScanInv
<1>4. Trusting' = Trusting
  BY <1>1 DEF Trusting, Inode
<1>5. TypeInv'
  BY <1>1 DEF TypeInv, Children, FilesIn
<1>6. WatchInv' /\ BootInv'
  BY <1>1, <1>2, <1>4 DEF WatchInv, BootInv
<1>7. UnreadInv'
  <2> SUFFICES ASSUME NEW f \in File, f \in files, Due(f) PROVE Due(f)'
    BY <1>1, <1>4 DEF UnreadInv, Unread
  <2>1. CASE ~ \E x \in UpTo(DirOf[f]) : x \in scanning
    BY <1>1, <1>2, <2>1 DEF Due
  <2>2. ASSUME NEW x \in UpTo(DirOf[f]), x \in scanning PROVE Due(f)'
    <3>1. CASE x # d
      BY <1>1, <2>2, <3>1 DEF Due
    <3>2. CASE x = d /\ d = DirOf[f]
      BY <1>1, <3>2 DEF Due, FilesIn
    <3>3. CASE x = d /\ d # DirOf[f]
      <4>1. DirOf[f] \in dirs \ {Data}
        BY TreeAssumption DEF TreeInv
      <4>2. PICK c \in UpTo(DirOf[f]) : c \in Children(d)
        BY <2>2, <3>3, <4>1, ChildrenFound
      <4>3. QED
        BY <1>1, <4>2 DEF Due
    <3>4. QED
      BY <3>1, <3>2, <3>3
  <2>3. QED
    BY <2>1, <2>2
<1>8. QED
  BY <1>3, <1>5, <1>6, <1>7

LEMMA IndexFileKeeps ==
  ASSUME IInv, NEW g \in File, IndexFile(g)
  PROVE  IInv'
<1> USE DEF IInv
<1>1. /\ adding = {} /\ listing = {} /\ indexing' = indexing \ {g}
      /\ read' = [read EXCEPT ![g] = lines[g]]
      /\ dirs' = dirs /\ files' = files /\ lines' = lines /\ gen' = gen /\ watch' = watch
      /\ queue' = queue /\ known' = known /\ phase' = phase /\ identity' = identity
      /\ adding' = adding /\ listing' = listing /\ scanning' = scanning /\ trouble' = trouble
  BY DEF IndexFile, Watched, tree
<1>2. \A x : /\ Wd(x)' = Wd(x) /\ Waiting(x)' = Waiting(x) /\ Creation(x)' = Creation(x)
             /\ Change(x)' = Change(x) /\ Announced(x)' = Announced(x)
             /\ Attended(x)' = Attended(x) /\ Awaited(x)' = Awaited(x)
  BY <1>1 DEF Wd, Waiting, Creation, Change, Announced, Attended, Awaited
<1>3. TreeInv' /\ ScanInv' /\ TypeInv'
  BY <1>1 DEF TreeInv, ScanInv, TypeInv
<1>4. Trusting' = Trusting
  BY <1>1 DEF Trusting, Inode
<1>5. WatchInv' /\ BootInv'
  BY <1>1, <1>2, <1>4 DEF WatchInv, BootInv
<1>6. UnreadInv'
  <2> SUFFICES ASSUME NEW f \in File, Unread(f)', Unread(f) => Due(f) PROVE Due(f)'
    BY <1>1, <1>4 DEF UnreadInv
  <2>1. f # g /\ Unread(f)
    BY <1>1 DEF Unread, TypeInv
  <2>2. QED
    BY <1>1, <1>2, <2>1 DEF Due
<1>7. QED
  BY <1>3, <1>5, <1>6

LEMMA IdentifyKeeps ==
  ASSUME IInv, Identify
  PROVE  IInv'
<1> USE DEF IInv
<1>1. /\ \/ phase = "boot" /\ scanning' = {Root}
         \/ phase = "created" /\ scanning' = scanning
      /\ adding = {} /\ listing = {} /\ identity' = Inode /\ phase' = "loop"
      /\ dirs' = dirs /\ files' = files /\ lines' = lines /\ gen' = gen /\ watch' = watch
      /\ queue' = queue /\ known' = known /\ read' = read
      /\ adding' = adding /\ listing' = listing /\ indexing' = indexing /\ trouble' = trouble
  BY DEF Identify, Watched, Scanned, tree
<1>2. \A x : /\ Wd(x)' = Wd(x) /\ Waiting(x)' = Waiting(x) /\ Creation(x)' = Creation(x)
             /\ Change(x)' = Change(x) /\ Announced(x)' = Announced(x)
             /\ Attended(x)' = Attended(x) /\ Awaited(x)' = Awaited(x)
  BY <1>1 DEF Wd, Waiting, Creation, Change, Announced, Attended, Awaited
<1>3. TypeInv' /\ TreeInv'
  BY <1>1, TreeAssumption DEF TypeInv, TreeInv, Inode, NoInode
<1>4. ScanInv'
  BY <1>1 DEF ScanInv
<1>5. WatchInv'
  BY <1>1, <1>2 DEF WatchInv, Trusting
<1>6. BootInv'
  BY <1>1 DEF BootInv
<1>7. UnreadInv'
  <2>1. CASE phase = "boot"
    BY <1>1, <2>1 DEF UnreadInv, Due, UpTo
  <2>2. CASE phase = "created"
    BY <1>1, <1>2, <2>2 DEF UnreadInv, Unread, Due, Trusting
  <2>3. QED
    BY <1>1, <2>1, <2>2
<1>8. QED
  BY <1>3, <1>4, <1>5, <1>6, <1>7

\* Once a directory is announced to be scanned, so is everything below it.
LEMMA HandleCreateKeeps ==
  ASSUME IInv, HandleCreate
  PROVE  IInv'
<1> USE DEF IInv
<1> DEFINE d == Head(queue).name
           found == d \in dirs /\ (Head(queue).wd \in known \/ Parent[d] = Root)
<1>1. /\ phase = "loop" /\ adding = {} /\ listing = {} /\ scanning = {} /\ indexing = {}
      /\ queue # << >> /\ Head(queue).kind = "create" /\ queue' = Tail(queue)
      /\ adding' = (IF found THEN {d} ELSE {}) /\ scanning' = adding'
      /\ phase' = (IF found /\ d = Root THEN "created" ELSE phase)
      /\ dirs' = dirs /\ files' = files /\ lines' = lines /\ gen' = gen /\ watch' = watch
      /\ known' = known /\ identity' = identity /\ read' = read
      /\ listing' = listing /\ indexing' = indexing /\ trouble' = trouble
  BY DEF HandleCreate, Idle, Scanned, Watched, tree
<1>2. \A x : /\ Wd(x)' = Wd(x) /\ Creation(x)' = Creation(x) /\ Change(x)' = Change(x)
             /\ Attended(x)' = Attended(x)
  BY <1>1 DEF Wd, Creation, Change, Attended
<1>3. /\ queue' \in Seq(Event) /\ d \in Dir \ {Data}
      /\ \A x : Waiting(x) => x = Head(queue) \/ Waiting(x)'
  BY <1>1, Taken DEF Event
<1>4. TypeInv' /\ TreeInv'
  BY <1>1, <1>3 DEF TypeInv, TreeInv
<1>5. ASSUME NEW e \in dirs \ {Data}, NEW x \in UpTo(e), Announced(x)
      PROVE  (x \in adding' /\ x \in scanning') \/ Announced(x)'
  <2>1. x \in dirs
    BY <1>5, UpwardsExists
  <2>2. CASE Creation(x) = Head(queue)
    BY <1>1, <1>5, <2>1, <2>2 DEF Announced, Creation
  <2>3. CASE Creation(x) # Head(queue)
    <3>1. Waiting(Creation(x))'
      BY <1>2, <1>3, <1>5, <2>3 DEF Announced, Waiting
    <3>2. QED
      BY <1>1, <1>2, <1>5, <3>1 DEF Announced
  <2>4. QED
    BY <2>2, <2>3
<1>6. CASE found /\ d = Root
  <2>1. Root \in adding' /\ Root \in scanning' /\ adding' = {Root} /\ Root \in dirs'
    BY <1>1, <1>6
  <2>2. WatchInv' /\ UnreadInv'
    BY <2>1 DEF WatchInv, Awaited, UnreadInv, Due, UpTo
  <2>3. ScanInv'
    BY <1>1, <2>1 DEF ScanInv, UpTo
  <2>4. BootInv'
    BY <1>1, <2>1, TreeAssumption, <1>6 DEF BootInv
  <2>5. QED
    BY <1>4, <2>2, <2>3, <2>4
<1>7. CASE ~ (found /\ d = Root)
  <2>1. phase' = "loop" /\ Trusting' = Trusting
    BY <1>1, <1>7 DEF Trusting, Inode
  <2>2. WatchInv'
    <3> SUFFICES ASSUME NEW e \in dirs \ {Data}, Awaited(e) PROVE Awaited(e)'
      BY <1>1, <1>2, <2>1 DEF WatchInv
    <3>1. PICK x \in UpTo(e) : Announced(x)
      BY <1>1 DEF Awaited
    <3>2. QED
      BY <1>5, <3>1 DEF Awaited
  <2>3. ScanInv'
    <3>1. ASSUME NEW x \in adding' PROVE x \in UpTo(x)
      BY <1>1, <1>3, <3>1, Upwards
    <3>2. QED
      BY <1>1, <3>1 DEF ScanInv
  <2>4. BootInv'
    BY <1>1, <1>3, <2>1 DEF BootInv
  <2>5. UnreadInv'
    <3> SUFFICES ASSUME NEW f \in File, f \in files, Due(f) PROVE Due(f)'
      BY <1>1, <2>1 DEF UnreadInv, Unread
    <3>1. CASE Waiting(Change(f)) /\ Wd(DirOf[f]) \in known
      <4>1. Change(f) # Head(queue)
        BY <1>1 DEF Change
      <4>2. Waiting(Change(f))'
        BY <1>2, <1>3, <3>1, <4>1 DEF Waiting
      <4>3. QED
        BY <1>1, <1>2, <3>1, <4>2 DEF Due
    <3>2. CASE \E x \in UpTo(DirOf[f]) : Announced(x)
      <4>1. DirOf[f] \in dirs \ {Data}
        BY TreeAssumption DEF TreeInv
      <4>2. QED
        BY <1>5, <3>2, <4>1 DEF Due
    <3>3. QED
      BY <1>1, <3>1, <3>2 DEF Due
  <2>6. QED
    BY <1>4, <2>2, <2>3, <2>4, <2>5
<1>8. QED
  BY <1>6, <1>7

LEMMA HandleFileKeeps ==
  ASSUME IInv, HandleFile
  PROVE  IInv'
<1> USE DEF IInv
<1>1. PICK g \in IF Head(queue).wd \in known \/ files = {} THEN {Head(queue).name} ELSE files :
        read' = [read EXCEPT ![g] = lines[g]]
  BY DEF HandleFile
<1>2. /\ phase = "loop" /\ queue # << >> /\ Head(queue).kind = "file" /\ queue' = Tail(queue)
      /\ dirs' = dirs /\ files' = files /\ lines' = lines /\ gen' = gen /\ watch' = watch
      /\ known' = known /\ phase' = phase /\ identity' = identity /\ trouble' = trouble
      /\ adding' = adding /\ listing' = listing /\ scanning' = scanning /\ indexing' = indexing
  BY DEF HandleFile, Idle, Scanned, Watched, tree, work
<1>3. \A x : /\ Wd(x)' = Wd(x) /\ Creation(x)' = Creation(x) /\ Change(x)' = Change(x)
             /\ Attended(x)' = Attended(x)
  BY <1>2 DEF Wd, Creation, Change, Attended
<1>4. /\ queue' \in Seq(Event) /\ Head(queue).name \in File
      /\ \A x : Waiting(x) => x = Head(queue) \/ Waiting(x)'
  BY <1>2, Taken DEF Event
<1>5. \A x : Announced(x) => Announced(x)'
  <2> SUFFICES ASSUME NEW x, Announced(x) PROVE Waiting(Creation(x))'
    BY <1>2, <1>3 DEF Announced
  <2>1. Creation(x) # Head(queue)
    BY <1>2 DEF Creation
  <2>2. QED
    BY <1>3, <1>4, <2>1 DEF Announced, Waiting
<1>6. TypeInv' /\ TreeInv'
  BY <1>1, <1>2, <1>4 DEF TypeInv, TreeInv
<1>7. Trusting' = Trusting
  BY <1>2 DEF Trusting, Inode
<1>8. WatchInv' /\ ScanInv' /\ BootInv'
  BY <1>2, <1>3, <1>5, <1>7 DEF WatchInv, ScanInv, BootInv, Awaited
<1>9. UnreadInv'
  <2> SUFFICES ASSUME NEW f \in File, Unread(f)', Unread(f) => Due(f) PROVE Due(f)'
    BY <1>2, <1>7 DEF UnreadInv
  <2>1. Unread(f) /\ f # g
    BY <1>1, <1>2 DEF Unread, TypeInv
  <2>2. CASE Waiting(Change(f)) /\ Wd(DirOf[f]) \in known
    <3>1. Change(f) # Head(queue)
      BY <1>1, <2>1, <2>2 DEF Change
    <3>2. Waiting(Change(f))'
      BY <1>3, <1>4, <2>2, <3>1 DEF Waiting
    <3>3. QED
      BY <1>2, <1>3, <2>2, <3>2 DEF Due
  <2>3. CASE ~ (Waiting(Change(f)) /\ Wd(DirOf[f]) \in known)
    BY <1>2, <1>5, <2>1, <2>3 DEF Due
  <2>4. QED
    BY <2>2, <2>3
<1>10. QED
  BY <1>6, <1>8, <1>9

LEMMA SweepKeeps ==
  ASSUME IInv, Sweep
  PROVE  IInv'
<1> USE DEF IInv
<1>1. /\ read' = [f \in File |-> IF f \in SweptFiles THEN lines[f] ELSE read[f]]
      /\ dirs' = dirs /\ files' = files /\ lines' = lines /\ gen' = gen /\ watch' = watch
      /\ queue' = queue /\ known' = known /\ phase' = phase /\ identity' = identity
      /\ adding' = adding /\ listing' = listing /\ scanning' = scanning /\ indexing' = indexing
      /\ trouble' = trouble
  BY DEF Sweep, work
<1>2. \A x : /\ Wd(x)' = Wd(x) /\ Waiting(x)' = Waiting(x) /\ Creation(x)' = Creation(x)
             /\ Change(x)' = Change(x) /\ Announced(x)' = Announced(x)
             /\ Attended(x)' = Attended(x) /\ Awaited(x)' = Awaited(x)
  BY <1>1 DEF Wd, Waiting, Creation, Change, Announced, Attended, Awaited
<1>3. TypeInv' /\ TreeInv' /\ ScanInv' /\ Trusting' = Trusting
  BY <1>1 DEF TypeInv, TreeInv, ScanInv, Trusting, Inode
<1>4. WatchInv' /\ BootInv'
  BY <1>1, <1>2, <1>3 DEF WatchInv, BootInv
<1>5. UnreadInv'
  <2>1. \A f \in File : Unread(f)' => Unread(f)
    BY <1>1 DEF Unread
  <2>2. QED
    BY <1>1, <1>2, <1>3, <2>1 DEF UnreadInv, Due
<1>6. QED
  BY <1>3, <1>4, <1>5

LEMMA HealthCheckKeeps ==
  ASSUME IInv, HealthCheck
  PROVE  IInv'
<1> USE DEF IInv
<1>1. /\ phase = "loop" /\ adding = {} /\ listing = {} /\ identity' = Inode
      /\ dirs' = dirs /\ files' = files /\ lines' = lines /\ gen' = gen
      /\ queue' = queue /\ phase' = phase /\ read' = read
      /\ listing' = listing /\ indexing' = indexing /\ trouble' = trouble
      /\ IF Root \in dirs
         THEN known' = {} /\ adding' = {Root} /\ scanning' = {Root} /\ watch' = watch
         ELSE /\ known' = {Wd(Data)} /\ watch' = watch \cup {Data}
              /\ adding' = adding /\ scanning' = scanning
  BY DEF HealthCheck, Idle, Scanned, Watched, tree
<1>2. TypeInv' /\ TreeInv'
  BY <1>1, TreeAssumption DEF TypeInv, TreeInv, Inode, NoInode
<1>3. ScanInv' /\ BootInv'
  BY <1>1, TreeAssumption DEF ScanInv, BootInv, UpTo
<1>4. CASE Root \in dirs
  <2>1. WatchInv' /\ UnreadInv'
    BY <1>1, <1>4 DEF WatchInv, Awaited, UnreadInv, Due, UpTo
  <2>2. QED
    BY <1>2, <1>3, <2>1
<1>5. CASE Root \notin dirs
  <2>1. dirs \ {Data} = {}
    BY <1>5, UpwardsExists DEF UpTo
  <2>2. files = {}
    BY <2>1, TreeAssumption DEF TypeInv, TreeInv
  <2>3. WatchInv' /\ UnreadInv'
    BY <1>1, <2>1, <2>2 DEF WatchInv, UnreadInv, Unread
  <2>4. QED
    BY <1>2, <1>3, <2>3
<1>6. QED
  BY <1>4, <1>5

LEMMA KillKeeps ==
  ASSUME IInv, Kill
  PROVE  IInv'
<1> USE DEF IInv
<1>1. /\ phase' = "off" /\ watch' = {} /\ queue' = << >> /\ known' = {}
      /\ adding' = {} /\ listing' = {} /\ scanning' = {} /\ indexing' = {}
      /\ dirs' = dirs /\ files' = files /\ lines' = lines /\ gen' = gen
      /\ identity' = identity /\ read' = read
  BY DEF Kill, tree
<1>2. TypeInv' /\ TreeInv'
  BY <1>1 DEF TypeInv, TreeInv
<1>3. WatchInv' /\ ScanInv' /\ BootInv' /\ UnreadInv'
  BY <1>1 DEF WatchInv, ScanInv, BootInv, UnreadInv, Trusting
<1>4. QED
  BY <1>2, <1>3

(***************************************************************************)
(* Every step of the system.                                               *)
(***************************************************************************)

LEMMA InitKeeps == Init => IInv
<1> SUFFICES ASSUME Init PROVE IInv
  OBVIOUS
<1>1. TypeInv /\ TreeInv
  BY TreeAssumption DEF Init, TypeInv, TreeInv, NoInode
<1>2. WatchInv /\ ScanInv /\ BootInv /\ UnreadInv
  BY DEF Init, WatchInv, ScanInv, BootInv, UnreadInv, Trusting
<1>3. QED
  BY <1>1, <1>2 DEF IInv

LEMMA NextKeeps ==
  ASSUME IInv, [Next]_vars
  PROVE  IInv'
<1>1. CASE Normalized
  BY <1>1, MkdirKeeps, CreateFileKeeps, AppendLineKeeps DEF Normalized
<1>2. CASE Indexd
  BY <1>2, BootKeeps, IdentifyKeeps, HandleCreateKeeps, HandleFileKeeps, WatchDirKeeps,
     ListDirKeeps, ScanDirKeeps, IndexFileKeeps DEF Indexd
<1>3. CASE Sweep \/ HealthCheck \/ Wipe \/ Kill
  BY <1>3, SweepKeeps, HealthCheckKeeps, WipeKeeps, KillKeeps
<1>4. CASE \E x \in Dir \cup File : Age(x)
  BY <1>4, StutterKeeps DEF Age
<1>5. CASE UNCHANGED vars
  BY <1>5, StutterKeeps DEF vars, tree
<1>6. QED
  BY <1>1, <1>2, <1>3, <1>4, <1>5 DEF Next

LEMMA EveryUnreadLineIsDue ==
  ASSUME IInv
  PROVE  NoForgottenLine
<1> USE DEF IInv
<1>1. SUFFICES ASSUME trouble = {}, phase \in {"loop", "created"}, NEW f \in files,
                      read[f] < lines[f], ~ (phase = "loop" /\ identity # Inode)
               PROVE  Queued("file", f) \/ f \in indexing \/ ScanPending(f)
  BY DEF NoForgottenLine
<1>2. f \in File /\ Unread(f)
  BY <1>1 DEF TypeInv, Unread
<1>3. Due(f)
  BY <1>1, <1>2 DEF UnreadInv, Trusting
<1>4. Waiting(Change(f)) => Queued("file", f)
  BY DEF Waiting, Change, Queued
<1>5. \A x : Announced(x) => Queued("create", x)
  BY DEF Announced, Waiting, Creation, Queued
<1>6. QED
  BY <1>3, <1>4, <1>5 DEF Due, ScanPending, UpTo

\* Whatever the tree of directories, however many files, lines, wipes and kills, and
\* wherever the steps of normalized fall between those of the daemon: a line that
\* indexd has not read is in a file it was told about or has still to scan, or
\* data/raw/ is not the one it remembers; only a dropped event, a refused watch or a
\* data/raw/ replaced before its identity was taken can make it forget a line.
THEOREM NothingForgotten == Spec => []NoForgottenLine
<1>1. Spec => []IInv
  BY InitKeeps, NextKeeps, PTL DEF Spec
<1>2. IInv => NoForgottenLine
  BY EveryUnreadLineIsDue
<1>3. QED
  BY <1>1, <1>2, PTL
===============================================================================
