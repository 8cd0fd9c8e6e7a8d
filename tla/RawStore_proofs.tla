--------------------------- MODULE RawStore_proofs ---------------------------
(***************************************************************************)
(* What retention takes, what normalized refuses, what stays stored and    *)
(* what tail prints of it, for any number of writers, lines, ticks, runs   *)
(* and kills: the check of the modification time protects whatever was     *)
(* there when the files were listed, a write fails only when retention or  *)
(* another writer meets it, what it reports as stored is there to be read  *)
(* unless it continues the text of a killed writer, and tail prints the    *)
(* text of each line once and whole.                                       *)
(***************************************************************************)
EXTENDS RawStore, FiniteSetTheorems, SequenceTheorems, TLAPS

Opening == {"mkdir", "mkparent", "mkleaf", "exists", "append", "create"}
Stage == Opening \cup {"idle", "text", "newline", "rename"}
Inode == Line \cup {None}
Name == {"path", "tmp"}

Progress == [at : Stage, line : Inode, ino : Inode, pos : Nat, fresh : BOOLEAN]
Holds(i) == ToSet(data[i]) \cap Line
Named(n) == IF n = "path" THEN path ELSE tmp

\* The inode called after l is not there yet; the text of l is not there yet.
Unborn(l) == l >= next \/ \E p \in Writer : w[p].line = l /\ w[p].at \in Opening
Unwritten(l) ==
    l >= next \/ \E p \in Writer : w[p].line = l /\ w[p].at \in Opening \cup {"text"}

TypeInv ==
    /\ depth \in 0..2 /\ path \in Inode /\ tmp \in Inode
    /\ data \in [Line -> Seq(0..Nul)]
    /\ mtime \in [Line -> Nat]
    /\ next \in Nat \ {0} /\ now \in Nat
    /\ w \in [Writer -> Progress]
    /\ ret \in [at : {"idle", "delete", "prune"}, cutoff : Int, list : SUBSET Name]
    /\ wrote \in [Line -> Nat]

\* Whoever is at work has a line of its own.
WriterInv ==
    /\ \A p \in Writer :
        /\ w[p].at = "idle" <=> w[p].line = None
        /\ w[p].line < next
        /\ w[p].at \in {"text", "newline"} => w[p].ino \in Line
    /\ \A p, q \in Writer : w[p].line = w[q].line => p = q \/ w[p].line = None

UnbornInv ==
    \A l \in Line : Unborn(l) =>
        data[l] = << >> /\ path # l /\ tmp # l /\ \A p \in Writer : w[p].ino # l

\* A file is as young as the youngest line in it.
TimeInv ==
    \A i \in Line :
        /\ mtime[i] <= now
        /\ \A l \in Holds(i) : wrote[l] <= mtime[i] /\ ~Unwritten(l)

\* Whatever a listed name names by now holds old lines and late ones.
ListInv ==
    ret.at = "delete" =>
        \A n \in ret.list : Named(n) \in Line =>
            \A l \in Holds(Named(n)) : l \in late \/ wrote[l] < ret.cutoff

RetentionInv ==
    TypeInv /\ WriterInv /\ UnbornInv /\ TimeInv /\ ListInv /\ RetentionTakesTheOld

(***************************************************************************)
(* Sequences of units.                                                     *)
(***************************************************************************)

LEMMA LinesAndUnits ==
  /\ Len(LineUnits) \in Nat /\ Line = 1..Len(LineUnits) /\ Nul = Len(LineUnits) + 1
  /\ LineUnits \in [Line -> Nat \ {0}] /\ Line \subseteq Nat \ {0}
  /\ Inode \subseteq Nat /\ None \in Inode /\ None \notin Line
<1>1. LineUnits \in Seq(Nat \ {0})
  BY RawStoreAssumption
<1>2. /\ Len(LineUnits) \in Nat /\ DOMAIN LineUnits = 1..Len(LineUnits)
      /\ LineUnits \in [1..Len(LineUnits) -> Nat \ {0}]
  BY <1>1
<1>3. QED
  BY <1>2 DEF Line, Nul, Inode, None

LEMMA InToSet ==
  ASSUME NEW s, NEW x
  PROVE  x \in ToSet(s) <=> \E i \in DOMAIN s : s[i] = x
  BY DEF ToSet

LEMMA Elements ==
  ASSUME NEW S, NEW s \in Seq(S)
  PROVE  \A i \in DOMAIN s : s[i] \in S
  OBVIOUS

LEMMA BuiltSequence ==
  ASSUME NEW n \in Nat, NEW f, f = [i \in 1..n |-> f[i]], NEW S, \A i \in 1..n : f[i] \in S
  PROVE  f \in Seq(S)
  OBVIOUS

LEMMA TextType ==
  ASSUME NEW l \in Line
  PROVE  Text(l) \in Seq(0..Nul) /\ ToSet(Text(l)) \subseteq {l}
<1>1. LineUnits[l] \in Nat /\ l \in 0..Nul
  BY LinesAndUnits
<1>2. /\ Text(l) = [i \in 1..LineUnits[l] |-> l]
      /\ DOMAIN Text(l) = 1..LineUnits[l] /\ \A i \in 1..LineUnits[l] : Text(l)[i] = l
  BY DEF Text
<1>3. Text(l) \in Seq(0..Nul)
  <2>1. Text(l) = [i \in 1..LineUnits[l] |-> Text(l)[i]]
    BY <1>2
  <2>2. \A i \in 1..LineUnits[l] : Text(l)[i] \in 0..Nul
    BY <1>1, <1>2
  <2>3. QED
    BY <1>1, <2>1, <2>2, BuiltSequence
<1>4. \A x \in ToSet(Text(l)) : x = l
  BY <1>2, InToSet
<1>5. QED
  BY <1>3, <1>4

\* A write brings its own units and holes, nothing else.
LEMMA WriteAtType ==
  ASSUME NEW s \in Seq(0..Nul), NEW pos \in Nat, NEW units \in Seq(0..Nul)
  PROVE  /\ WriteAt(s, pos, units) \in Seq(0..Nul)
         /\ ToSet(WriteAt(s, pos, units)) \subseteq ToSet(s) \cup ToSet(units) \cup {Nul}
<1> DEFINE n == IF pos + Len(units) > Len(s) THEN pos + Len(units) ELSE Len(s)
           u(i) == IF i > pos /\ i <= pos + Len(units) THEN units[i - pos]
                   ELSE IF i <= Len(s) THEN s[i] ELSE Nul
           f == WriteAt(s, pos, units)
<1>1. /\ Len(s) \in Nat /\ Len(units) \in Nat /\ n \in Nat /\ Nul \in 0..Nul
      /\ DOMAIN s = 1..Len(s) /\ DOMAIN units = 1..Len(units)
  BY LinesAndUnits
<1>2. f = [i \in 1..n |-> u(i)]
  BY DEF WriteAt
<1>3. ASSUME NEW i \in 1..n
      PROVE  \/ u(i) = Nul
             \/ \E k \in DOMAIN s : u(i) = s[k]
             \/ \E k \in DOMAIN units : u(i) = units[k]
  <2>1. CASE i > pos /\ i <= pos + Len(units)
    <3>1. i - pos \in DOMAIN units /\ u(i) = units[i - pos]
      BY <1>1, <2>1
    <3> HIDE DEF u
    <3>2. QED
      BY <3>1
  <2>2. CASE ~(i > pos /\ i <= pos + Len(units)) /\ i <= Len(s)
    <3>1. i \in DOMAIN s /\ u(i) = s[i]
      BY <1>1, <2>2
    <3> HIDE DEF u
    <3>2. QED
      BY <3>1
  <2>3. CASE ~(i > pos /\ i <= pos + Len(units)) /\ ~(i <= Len(s))
    BY <1>1, <2>3
  <2>4. QED
    BY <2>1, <2>2, <2>3
<1> HIDE DEF n, u
<1>4. DOMAIN f = 1..n /\ \A i \in 1..n : f[i] = u(i)
  BY <1>2
<1> HIDE DEF f
<1>5. ASSUME NEW i \in 1..n
      PROVE  f[i] \in 0..Nul
  <2>1. /\ \A k \in DOMAIN s : s[k] \in 0..Nul
        /\ \A k \in DOMAIN units : units[k] \in 0..Nul
    BY Elements, Zenon
  <2>2. QED
    BY <1>1, <1>3, <1>4, <2>1
<1>6. f = [i \in 1..n |-> f[i]]
  BY <1>2, <1>4
<1>7. f \in Seq(0..Nul)
  BY <1>1, <1>5, <1>6, BuiltSequence
<1>8. ASSUME NEW x \in ToSet(f)
      PROVE  x = Nul \/ x \in ToSet(s) \/ x \in ToSet(units)
  <2>1. PICK i \in 1..n : f[i] = x
    BY <1>4, InToSet
  <2>2. \/ x = Nul
        \/ \E k \in DOMAIN s : x = s[k]
        \/ \E k \in DOMAIN units : x = units[k]
    BY <1>3, <1>4, <2>1
  <2>3. QED
    BY <2>2 DEF ToSet
<1>9. QED
  BY <1>7, <1>8, Zenon DEF f

(***************************************************************************)
(* The invariant.                                                          *)
(***************************************************************************)

LEMMA IdleProgress ==
  Idle \in Progress /\ Idle.at = "idle" /\ Idle.line = None /\ Idle.ino = None
  BY LinesAndUnits DEF Idle, Progress, Stage, None

LEMMA InitRetention ==
  ASSUME Init
  PROVE  RetentionInv
<1> USE LinesAndUnits
<1>1. TypeInv
  <2>1. NoRun \in [at : {"idle", "delete", "prune"}, cutoff : Int, list : SUBSET Name]
    BY DEF NoRun
  <2>2. << >> \in Seq(0..Nul)
    OBVIOUS
  <2>3. QED
    BY <2>1, <2>2, IdleProgress DEF Init, TypeInv
<1>2. WriterInv
  BY DEF Init, WriterInv, Idle, None
<1>3. UnbornInv
  BY DEF Init, UnbornInv, Idle, None
<1>4. \A i \in Line : Holds(i) = {}
  BY DEF Init, Holds, ToSet
<1>5. TimeInv
  BY <1>4 DEF Init, TimeInv
<1>6. ListInv /\ RetentionTakesTheOld
  BY DEF Init, ListInv, NoRun, RetentionTakesTheOld
<1>7. QED
  BY <1>1, <1>2, <1>3, <1>5, <1>6 DEF RetentionInv

\* A step that leaves the files alone.
LEMMA QuietStep ==
  ASSUME RetentionInv, TypeInv', WriterInv',
         UNCHANGED <<path, tmp, data, mtime, wrote, ret, late, unripe>>, now <= now',
         \A p \in Writer : w'[p].ino \in {w[p].ino, None, path},
         \A l \in Line : (Unborn(l)' => Unborn(l)) /\ (Unwritten(l)' => Unwritten(l))
  PROVE  RetentionInv'
<1> USE LinesAndUnits
<1>1. UnbornInv'
  BY DEF RetentionInv, UnbornInv
<1>2. \A i \in Line : Holds(i)' = Holds(i)
  BY DEF Holds
<1>3. TimeInv'
  <2> SUFFICES ASSUME NEW i \in Line
               PROVE  mtime[i] <= now' /\ \A l \in Holds(i) : wrote[l] <= mtime[i] /\ ~Unwritten(l)'
    BY <1>2 DEF TimeInv
  <2>1. mtime[i] <= now /\ \A l \in Holds(i) : wrote[l] <= mtime[i] /\ ~Unwritten(l)
    BY DEF RetentionInv, TimeInv
  <2>2. mtime[i] \in Nat /\ now \in Nat /\ now' \in Nat
    BY DEF RetentionInv, TypeInv
  <2>3. Holds(i) \subseteq Line
    BY DEF Holds
  <2>4. QED
    BY <2>1, <2>2, <2>3
<1>4. ListInv'
  BY <1>2 DEF RetentionInv, ListInv, Named
<1>5. RetentionTakesTheOld'
  BY DEF RetentionInv, RetentionTakesTheOld
<1>6. QED
  BY <1>1, <1>3, <1>4, <1>5 DEF RetentionInv

\* Who takes no step keeps its line, and who does keeps it or has none any more.
LEMMA WriterMoves ==
  ASSUME RetentionInv, NEW p \in Writer,
         NEW r \in Progress,
         w' = [w EXCEPT ![p] = r], next' = next,
         \/ r.line = w[p].line /\ w[p].at # "idle" /\ r.at # "idle"
         \/ r = Idle,
         r.at \in {"text", "newline"} => r.ino \in Line,
         r.at \in Opening => w[p].at \in Opening,
         r.at = "text" => w[p].at \in Opening
  PROVE  /\ w' \in [Writer -> Progress]
         /\ WriterInv'
         /\ \A l \in Line : (Unborn(l)' => Unborn(l)) /\ (Unwritten(l)' => Unwritten(l))
<1> USE LinesAndUnits
<1>1. TypeInv /\ WriterInv
  BY DEF RetentionInv
<1>2. /\ w' \in [Writer -> Progress]
      /\ w'[p] = r /\ \A q \in Writer \ {p} : w'[q] = w[q]
  BY <1>1 DEF TypeInv
<1>3. Idle.line = None /\ Idle.at = "idle" /\ None < next
  BY <1>1 DEF Idle, None, TypeInv
<1>4. r.at = "idle" <=> r.line = None
  BY <1>1, <1>3 DEF WriterInv
<1>5. r.line < next
  BY <1>1, <1>3 DEF WriterInv
<1>6. ASSUME NEW a \in Writer, NEW b \in Writer, w'[a].line = w'[b].line
      PROVE  a = b \/ w'[a].line = None
  BY <1>1, <1>2, <1>3, <1>6 DEF WriterInv
<1>7. WriterInv'
  BY <1>1, <1>2, <1>4, <1>5, <1>6 DEF WriterInv
<1>8. \A q \in Writer : w'[q].at \in Opening => w[q].at \in Opening /\ w'[q].line = w[q].line
  BY <1>2, <1>3 DEF Opening
<1>9. \A q \in Writer : w'[q].at \in Opening \cup {"text"} =>
         w[q].at \in Opening \cup {"text"} /\ w'[q].line = w[q].line
  BY <1>2, <1>3, <1>8 DEF Opening
<1>10. QED
  BY <1>2, <1>7, <1>8, <1>9 DEF Unborn, Unwritten

LEMMA QuietMove ==
  ASSUME RetentionInv, NEW p \in Writer, NEW r \in Progress, w' = [w EXCEPT ![p] = r],
         \/ r.line = w[p].line /\ w[p].at # "idle" /\ r.at # "idle"
         \/ r = Idle,
         r.at \in {"text", "newline"} => r.ino \in Line,
         r.at \in Opening => w[p].at \in Opening,
         r.at = "text" => w[p].at \in Opening,
         r.ino \in {w[p].ino, None, path},
         depth' \in 0..2,
         UNCHANGED <<path, tmp, data, mtime, next, now, ret, late, wrote, unripe>>
  PROVE  RetentionInv'
<1>1. /\ w' \in [Writer -> Progress] /\ WriterInv'
      /\ \A l \in Line : (Unborn(l)' => Unborn(l)) /\ (Unwritten(l)' => Unwritten(l))
  BY WriterMoves
<1>2. TypeInv'
  BY <1>1 DEF RetentionInv, TypeInv
<1>3. now <= now' /\ \A q \in Writer : w'[q].ino \in {w[q].ino, None, path}
  BY DEF RetentionInv, TypeInv
<1>4. QED
  BY <1>1, <1>2, <1>3, QuietStep

LEMMA MakeDirKeeps ==
  ASSUME RetentionInv, NEW p \in Writer, MakeDir(p)
  PROVE  RetentionInv'
<1>1. w \in [Writer -> Progress] /\ w[p] \in Progress
  BY DEF RetentionInv, TypeInv
<1>2. /\ w[p].at \in {"mkdir", "mkparent", "mkleaf"}
      /\ UNCHANGED <<path, tmp, data, mtime, next, now, ret, late, wrote, unripe>>
  BY DEF MakeDir
<1>3. /\ depth' \in 0..2
      /\ \/ Step(p, "exists") \/ Step(p, "mkleaf") \/ Step(p, "mkparent")
         \/ w' = [w EXCEPT ![p] = Idle]
  <2>1. depth \in 0..2
    BY DEF RetentionInv, TypeInv
  <2>2. CASE w[p].at = "mkparent"
    BY <2>1, <2>2 DEF MakeDir
  <2>3. CASE w[p].at # "mkparent" /\ depth > 0
    <3>1. depth # 0
      BY <2>1, <2>3
    <3>2. depth' = 2 /\ Step(p, "exists")
      BY <1>2, <2>3, <3>1 DEF MakeDir
    <3>3. QED
      BY <3>2
  <2>4. CASE w[p].at = "mkdir" /\ depth = 0
    BY <2>1, <2>4 DEF MakeDir
  <2>5. CASE w[p].at = "mkleaf" /\ depth = 0
    BY <2>1, <2>5 DEF MakeDir, Fails
  <2>6. QED
    BY <1>2, <2>1, <2>2, <2>3, <2>4, <2>5
<1>4. CASE w' = [w EXCEPT ![p] = Idle]
  BY <1>2, <1>3, <1>4, QuietMove, IdleProgress DEF Opening
<1>5. ASSUME NEW at \in {"exists", "mkleaf", "mkparent"}, Step(p, at)
      PROVE  RetentionInv'
  <2> DEFINE q == [w[p] EXCEPT !.at = at]
  <2>1. q \in Progress /\ q.at = at /\ q.line = w[p].line /\ q.ino = w[p].ino
    BY <1>1 DEF Progress, Stage, Opening
  <2>2. w' = [w EXCEPT ![p] = q]
    BY <1>1, <1>5 DEF Step
  <2> HIDE DEF q
  <2>3. QED
    BY <1>2, <1>3, <2>1, <2>2, QuietMove DEF Opening
<1>6. QED
  BY <1>3, <1>4, <1>5

LEMMA ReceiveKeeps ==
  ASSUME RetentionInv, NEW p \in Writer, Receive(p)
  PROVE  RetentionInv'
<1> USE LinesAndUnits
<1> DEFINE r == [Idle EXCEPT !.at = "mkdir", !.line = next]
<1>1. TypeInv /\ WriterInv
  BY DEF RetentionInv
<1>2. /\ next \in Line /\ next' = next + 1 /\ w' = [w EXCEPT ![p] = r]
      /\ UNCHANGED <<depth, path, tmp, data, mtime, now, ret, late, wrote, unripe>>
  BY DEF Receive, store
<1>3. /\ r \in Progress /\ r.at = "mkdir" /\ r.line = next /\ r.ino = None
  BY <1>2 DEF Idle, Progress, Stage, Opening, Inode, None
<1> HIDE DEF r
<1>4. /\ w' \in [Writer -> Progress]
      /\ w'[p] = r /\ \A q \in Writer \ {p} : w'[q] = w[q]
  BY <1>1, <1>2, <1>3 DEF TypeInv
<1>5. next \in Nat /\ next' \in Nat \ {0}
  BY <1>1, <1>2 DEF TypeInv
<1>6. TypeInv'
  BY <1>1, <1>2, <1>4, <1>5 DEF TypeInv
<1>7. \A q \in Writer : w[q].line \in Nat /\ w[q].line < next
  BY <1>1 DEF WriterInv, TypeInv, Progress
<1>8. WriterInv'
  <2>1. ASSUME NEW q \in Writer
        PROVE  /\ w'[q].at = "idle" <=> w'[q].line = None
               /\ w'[q].line < next'
               /\ w'[q].at \in {"text", "newline"} => w'[q].ino \in Line
    <3>1. CASE q = p
      BY <1>2, <1>3, <1>4, <1>5, <3>1
    <3>2. CASE q # p
      BY <1>1, <1>2, <1>4, <1>5, <1>7, <3>2 DEF WriterInv
    <3>3. QED
      BY <3>1, <3>2
  <2>2. ASSUME NEW a \in Writer, NEW b \in Writer, w'[a].line = w'[b].line
        PROVE  a = b \/ w'[a].line = None
    <3>1. CASE a = p \/ b = p
      <4>1. \A q \in Writer \ {p} : w'[q].line # next
        BY <1>4, <1>5, <1>7
      <4>2. QED
        BY <1>3, <1>4, <2>2, <3>1, <4>1
    <3>2. CASE a # p /\ b # p
      BY <1>1, <1>4, <2>2, <3>2 DEF WriterInv
    <3>3. QED
      BY <3>1, <3>2
  <2>3. QED
    BY <2>1, <2>2 DEF WriterInv
<1>9. ASSUME NEW l \in Line
      PROVE  (Unborn(l)' => Unborn(l)) /\ (Unwritten(l)' => Unwritten(l))
  <2>1. l \in Nat
    OBVIOUS
  <2>2. l >= next' => l >= next
    BY <1>2, <1>5, <2>1
  <2>3. next >= next
    BY <1>5
  <2>4. \A q \in Writer : w'[q].line = l =>
           \/ l >= next
           \/ w[q].line = l /\ w[q].at = w'[q].at
    BY <1>3, <1>4, <2>3
  <2>5. QED
    BY <2>2, <2>4 DEF Unborn, Unwritten
<1>10. now <= now' /\ \A q \in Writer : w'[q].ino \in {w[q].ino, None, path}
  BY <1>1, <1>2, <1>3, <1>4 DEF TypeInv
<1>11. QED
  BY <1>2, <1>6, <1>8, <1>9, <1>10, QuietStep

LEMMA ExistsKeeps ==
  ASSUME RetentionInv, NEW p \in Writer, Exists(p)
  PROVE  RetentionInv'
<1>1. w \in [Writer -> Progress] /\ w[p] \in Progress /\ depth \in 0..2
  BY DEF RetentionInv, TypeInv
<1>2. /\ w[p].at = "exists" /\ (Step(p, "append") \/ Step(p, "create"))
      /\ UNCHANGED <<depth, path, tmp, data, mtime, next, now, ret, late, wrote, unripe>>
  BY DEF Exists, store
<1>3. ASSUME NEW at \in {"append", "create"}, Step(p, at)
      PROVE  RetentionInv'
  <2> DEFINE q == [w[p] EXCEPT !.at = at]
  <2>1. q \in Progress /\ q.at = at /\ q.line = w[p].line /\ q.ino = w[p].ino
    BY <1>1 DEF Progress, Stage, Opening
  <2>2. w' = [w EXCEPT ![p] = q]
    BY <1>1, <1>3 DEF Step
  <2> HIDE DEF q
  <2>3. QED
    BY <1>1, <1>2, <2>1, <2>2, QuietMove DEF Opening
<1>4. QED
  BY <1>2, <1>3

LEMMA GivingUpKeeps ==
  ASSUME RetentionInv, NEW p \in Writer, OpenFails(p) \/ Kill(p)
  PROVE  RetentionInv'
<1>1. /\ w' = [w EXCEPT ![p] = Idle] /\ depth' \in 0..2
      /\ UNCHANGED <<path, tmp, data, mtime, next, now, ret, late, wrote, unripe>>
  BY DEF OpenFails, Kill, Fails, store, RetentionInv, TypeInv
<1>2. QED
  BY <1>1, QuietMove, IdleProgress DEF Opening

\* The clock, and tail, which only reads.
LEMMA BystandersKeep ==
  ASSUME RetentionInv, Tick \/ Seed \/ Discover \/ Poll
  PROVE  RetentionInv'
<1>1. /\ now' \in {now, now + 1}
      /\ UNCHANGED <<depth, path, tmp, data, mtime, next, w, ret, late, wrote, unripe>>
  BY DEF Tick, Seed, Discover, Poll, store
<1>2. TypeInv /\ WriterInv
  BY DEF RetentionInv
<1>3. TypeInv' /\ WriterInv' /\ now <= now'
  BY <1>1, <1>2 DEF TypeInv, WriterInv
<1>4. \A l \in Line : (Unborn(l)' => Unborn(l)) /\ (Unwritten(l)' => Unwritten(l))
  BY <1>1 DEF Unborn, Unwritten
<1>5. QED
  BY <1>1, <1>3, <1>4, QuietStep

\* Opened moves a writer that was about to open.
LEMMA OpenedMoves ==
  ASSUME RetentionInv, NEW p \in Writer, w[p].at \in {"append", "create"},
         NEW l, l = w[p].line, NEW ino \in Line, NEW fresh \in BOOLEAN,
         Opened(p, ino, fresh), next' = next
  PROVE  /\ w' \in [Writer -> Progress] /\ WriterInv'
         /\ w'[p].ino = ino /\ \A q \in Writer \ {p} : w'[q] = w[q]
         /\ \A k \in Line : (Unborn(k)' => Unborn(k)) /\ (Unwritten(k)' => Unwritten(k))
         /\ l \in Line /\ ~Unborn(l)'
<1> USE LinesAndUnits
<1>1. TypeInv /\ WriterInv
  BY DEF RetentionInv
<1>2. w \in [Writer -> Progress] /\ w[p] \in Progress
  BY <1>1 DEF TypeInv
<1> DEFINE r == [w[p] EXCEPT !.at = "text", !.ino = ino, !.fresh = fresh]
<1>3. /\ r \in Progress /\ r.at = "text" /\ r.line = w[p].line /\ r.ino = ino
  BY <1>2 DEF Progress, Stage, Opening, Inode
<1>4. w' = [w EXCEPT ![p] = r]
  BY <1>2 DEF Opened
<1> HIDE DEF r
<1>5. /\ w' \in [Writer -> Progress] /\ WriterInv'
      /\ \A k \in Line : (Unborn(k)' => Unborn(k)) /\ (Unwritten(k)' => Unwritten(k))
  BY <1>3, <1>4, WriterMoves DEF Opening
<1>6. w'[p] = r /\ \A q \in Writer \ {p} : w'[q] = w[q]
  BY <1>2, <1>4
<1>7. l \in Line /\ l \in Nat /\ l < next /\ next \in Nat
  BY <1>1, <1>2 DEF WriterInv, TypeInv, Progress, Inode
<1>8. ~Unborn(l)'
  <2>1. ~(l >= next')
    BY <1>7
  <2>2. ASSUME NEW q \in Writer, w'[q].line = l, w'[q].at \in Opening
        PROVE  FALSE
    <3>1. q # p
      BY <1>3, <1>6, <2>2 DEF Opening
    <3>2. w'[q].line = w'[p].line /\ w'[p].line # None
      BY <1>3, <1>6, <1>7, <2>2
    <3>3. QED
      BY <1>5, <3>1, <3>2 DEF WriterInv
  <2>3. QED
    BY <2>1, <2>2 DEF Unborn
<1>9. QED
  BY <1>3, <1>5, <1>6, <1>7, <1>8

LEMMA OpenAppendKeeps ==
  ASSUME RetentionInv, NEW p \in Writer, OpenAppend(p)
  PROVE  RetentionInv'
<1> USE LinesAndUnits
<1>1. TypeInv /\ WriterInv /\ UnbornInv /\ TimeInv /\ ListInv
  BY DEF RetentionInv
<1> PICK l : l = w[p].line
  OBVIOUS
<1>2. /\ w[p].at = "append"
      /\ UNCHANGED <<depth, tmp, data, next, now, ret, late, wrote, unripe>>
  BY DEF OpenAppend
<1>3. CASE path # None
  <2>1. Opened(p, path, FALSE) /\ UNCHANGED <<path, mtime>>
    BY <1>3 DEF OpenAppend
  <2>2. path \in Line
    BY <1>1, <1>3 DEF TypeInv, Inode
  <2>3. /\ w' \in [Writer -> Progress] /\ WriterInv'
        /\ w'[p].ino = path /\ \A q \in Writer \ {p} : w'[q] = w[q]
        /\ \A k \in Line : (Unborn(k)' => Unborn(k)) /\ (Unwritten(k)' => Unwritten(k))
    BY <1>2, <2>1, <2>2, OpenedMoves
  <2>4. TypeInv' /\ now <= now'
    BY <1>1, <1>2, <2>1, <2>3 DEF TypeInv
  <2>5. \A q \in Writer : w'[q].ino \in {w[q].ino, None, path}
    BY <2>3
  <2>6. QED
    BY <1>2, <2>1, <2>3, <2>4, <2>5, QuietStep
<1>4. CASE path = None
  <2>1. /\ Opened(p, l, FALSE) /\ path' = l /\ mtime' = [mtime EXCEPT ![l] = now]
    BY <1>4 DEF OpenAppend
  <2>2. l \in Line /\ Unborn(l)
    BY <1>1, <1>2 DEF WriterInv, TypeInv, Progress, Inode, Unborn, Opening
  <2>3. /\ w' \in [Writer -> Progress] /\ WriterInv'
        /\ w'[p].ino = l /\ \A q \in Writer \ {p} : w'[q] = w[q]
        /\ \A k \in Line : (Unborn(k)' => Unborn(k)) /\ (Unwritten(k)' => Unwritten(k))
        /\ ~Unborn(l)'
    BY <1>2, <2>1, <2>2, OpenedMoves
  <2>4. Holds(l) = {}
    BY <1>1, <2>2 DEF UnbornInv, Holds, ToSet
  <2>5. TypeInv'
    BY <1>1, <1>2, <2>1, <2>2, <2>3 DEF TypeInv, Inode
  <2>6. UnbornInv'
    BY <1>1, <1>2, <2>1, <2>3 DEF UnbornInv
  <2>7. \A i \in Line : Holds(i)' = Holds(i)
    BY <1>2 DEF Holds
  <2>8. TimeInv'
    <3> SUFFICES ASSUME NEW i \in Line
                 PROVE  mtime'[i] <= now /\ \A k \in Holds(i) : wrote[k] <= mtime'[i] /\ ~Unwritten(k)'
      BY <1>2, <2>7 DEF TimeInv
    <3>1. Holds(i) \subseteq Line /\ mtime[i] \in Nat /\ now \in Nat
      BY <1>1 DEF Holds, TypeInv
    <3>2. CASE i = l
      BY <1>1, <2>1, <2>2, <2>4, <3>1, <3>2 DEF TypeInv
    <3>3. CASE i # l
      <4>1. mtime'[i] = mtime[i]
        BY <1>1, <2>1, <3>3 DEF TypeInv
      <4>2. QED
        BY <1>1, <2>3, <3>1, <4>1 DEF TimeInv
    <3>4. QED
      BY <3>2, <3>3
  <2>9. ListInv'
    BY <1>1, <1>2, <2>1, <2>4, <2>7 DEF ListInv, Named
  <2>10. QED
    BY <1>2, <2>3, <2>5, <2>6, <2>8, <2>9 DEF RetentionInv, RetentionTakesTheOld
<1>5. QED
  BY <1>3, <1>4

LEMMA OpenTmpKeeps ==
  ASSUME RetentionInv, NEW p \in Writer, OpenTmp(p)
  PROVE  RetentionInv'
<1> USE LinesAndUnits
<1>1. TypeInv /\ WriterInv /\ UnbornInv /\ TimeInv /\ ListInv
  BY DEF RetentionInv
<1> PICK l : l = w[p].line
  OBVIOUS
<1> PICK ino : ino = IF tmp = None THEN l ELSE tmp
  OBVIOUS
<1>2. /\ w[p].at = "create" /\ Opened(p, ino, TRUE) /\ tmp' = ino
      /\ data' = [data EXCEPT ![ino] = << >>] /\ mtime' = [mtime EXCEPT ![ino] = now]
      /\ UNCHANGED <<depth, path, next, now, ret, late, wrote, unripe>>
  BY DEF OpenTmp
<1>3. l \in Line /\ Unborn(l)
  BY <1>1, <1>2 DEF WriterInv, TypeInv, Progress, Inode, Unborn, Opening
<1>4. ino \in Line
  BY <1>1, <1>3 DEF TypeInv, Inode
<1>5. /\ w' \in [Writer -> Progress] /\ WriterInv'
      /\ w'[p].ino = ino /\ \A q \in Writer \ {p} : w'[q] = w[q]
      /\ \A k \in Line : (Unborn(k)' => Unborn(k)) /\ (Unwritten(k)' => Unwritten(k))
      /\ ~Unborn(l)'
  BY <1>2, <1>4, OpenedMoves
<1>6. << >> \in Seq(0..Nul)
  OBVIOUS
<1>7. TypeInv'
  BY <1>1, <1>2, <1>4, <1>5, <1>6 DEF TypeInv, Inode
<1>8. UnbornInv'
  <2> SUFFICES ASSUME NEW k \in Line, Unborn(k)'
               PROVE  data'[k] = << >> /\ path' # k /\ tmp' # k /\ \A q \in Writer : w'[q].ino # k
    BY DEF UnbornInv
  <2>1. data[k] = << >> /\ path # k /\ tmp # k /\ (\A q \in Writer : w[q].ino # k) /\ k # l
    BY <1>1, <1>5 DEF UnbornInv
  <2>2. data'[k] = << >>
    BY <1>1, <1>2, <2>1 DEF TypeInv
  <2>3. QED
    BY <1>2, <1>5, <2>1, <2>2
<1>9. data \in [Line -> Seq(0..Nul)] /\ mtime \in [Line -> Nat] /\ now \in Nat
  BY <1>1 DEF TypeInv
<1>10. /\ Holds(ino)' = {} /\ mtime'[ino] = now
       /\ \A i \in Line \ {ino} : Holds(i)' = Holds(i) /\ mtime'[i] = mtime[i]
  <2>1. /\ data'[ino] = << >> /\ mtime'[ino] = now
        /\ \A i \in Line \ {ino} : data'[i] = data[i] /\ mtime'[i] = mtime[i]
    BY <1>2, <1>4, <1>9
  <2>2. ToSet(<< >>) = {}
    BY DEF ToSet
  <2>3. QED
    BY <2>1, <2>2 DEF Holds
<1>11. TimeInv'
  <2> SUFFICES ASSUME NEW i \in Line
               PROVE  mtime'[i] <= now /\ \A k \in Holds(i)' : wrote[k] <= mtime'[i] /\ ~Unwritten(k)'
    BY <1>2 DEF TimeInv
  <2>1. CASE i = ino
    BY <1>9, <1>10, <2>1
  <2>2. CASE i # ino
    BY <1>1, <1>5, <1>10, <2>2 DEF TimeInv, Holds
  <2>3. QED
    BY <2>1, <2>2
<1>12. ListInv'
  <2> SUFFICES ASSUME ret.at = "delete", NEW n \in ret.list, NEW i, i = Named(n)', i \in Line,
                      NEW k \in Holds(i)'
               PROVE  k \in late \/ wrote[k] < ret.cutoff
    BY <1>2 DEF ListInv
  <2>1. i # ino /\ k \in Holds(i)
    BY <1>10
  <2>2. i = Named(n)
    BY <1>2, <2>1 DEF Named
  <2>3. QED
    BY <1>1, <2>1, <2>2 DEF ListInv
<1>13. QED
  BY <1>2, <1>5, <1>7, <1>8, <1>11, <1>12 DEF RetentionInv, RetentionTakesTheOld

LEMMA WriteEffect ==
  ASSUME RetentionInv, NEW p \in Writer, NEW ino \in Line, ino = w[p].ino,
         NEW units \in Seq(0..Nul), Write(p, units)
  PROVE  /\ data' \in [Line -> Seq(0..Nul)] /\ mtime' \in [Line -> Nat]
         /\ mtime'[ino] = now /\ Holds(ino)' \subseteq Holds(ino) \cup (ToSet(units) \cap Line)
         /\ \A i \in Line \ {ino} :
                data'[i] = data[i] /\ Holds(i)' = Holds(i) /\ mtime'[i] = mtime[i]
<1> USE LinesAndUnits
<1>1. TypeInv
  BY DEF RetentionInv
<1>2. /\ data \in [Line -> Seq(0..Nul)] /\ mtime \in [Line -> Nat] /\ now \in Nat
      /\ w[p] \in Progress
  BY <1>1 DEF TypeInv
<1> PICK pos : pos = IF w[p].fresh THEN w[p].pos ELSE Len(data[ino])
  OBVIOUS
<1>3. pos \in Nat
  BY <1>2 DEF Progress
<1>4. /\ data' = [data EXCEPT ![ino] = WriteAt(data[ino], pos, units)]
      /\ mtime' = [mtime EXCEPT ![ino] = now]
  BY DEF Write
<1>5. /\ WriteAt(data[ino], pos, units) \in Seq(0..Nul)
      /\ ToSet(WriteAt(data[ino], pos, units)) \subseteq ToSet(data[ino]) \cup ToSet(units) \cup {Nul}
  BY <1>2, <1>3, WriteAtType
<1>6. data'[ino] = WriteAt(data[ino], pos, units) /\ Nul \notin Line
  BY <1>2, <1>4
<1>7. Holds(ino)' \subseteq Holds(ino) \cup (ToSet(units) \cap Line)
  BY <1>5, <1>6 DEF Holds
<1>8. QED
  BY <1>2, <1>4, <1>5, <1>7 DEF Holds

LEMMA WriteTextKeeps ==
  ASSUME RetentionInv, NEW p \in Writer, WriteText(p)
  PROVE  RetentionInv'
<1> USE LinesAndUnits
<1>1. TypeInv /\ WriterInv /\ UnbornInv /\ TimeInv /\ ListInv
  BY DEF RetentionInv
<1> PICK l : l = w[p].line
  OBVIOUS
<1> PICK ino : ino = w[p].ino
  OBVIOUS
<1>2. /\ w[p].at = "text" /\ Write(p, Text(l))
      /\ w' = [w EXCEPT ![p].at = "newline", ![p].pos = @ + LineUnits[l]]
      /\ wrote' = [wrote EXCEPT ![l] = now] /\ late' = Late({l})
      /\ UNCHANGED <<depth, path, tmp, next, now, ret, unripe>>
  BY DEF WriteText
<1>3. /\ w \in [Writer -> Progress] /\ w[p] \in Progress /\ next \in Nat /\ now \in Nat
      /\ wrote \in [Line -> Nat] /\ mtime \in [Line -> Nat]
  BY <1>1 DEF TypeInv
<1>4. l \in Line /\ l \in Nat /\ l < next /\ ino \in Line /\ Unwritten(l)
  BY <1>1, <1>2, <1>3 DEF WriterInv, Progress, Inode, Unwritten
<1> DEFINE r == [w[p] EXCEPT !.at = "newline", !.pos = w[p].pos + LineUnits[l]]
<1>5. /\ r \in Progress /\ r.at = "newline" /\ r.line = l /\ r.ino = ino
      /\ w' = [w EXCEPT ![p] = r]
  BY <1>2, <1>3, <1>4 DEF Progress, Stage, Opening
<1> HIDE DEF r
<1>6. /\ w' \in [Writer -> Progress] /\ WriterInv'
      /\ \A k \in Line : (Unborn(k)' => Unborn(k)) /\ (Unwritten(k)' => Unwritten(k))
  BY ZenonT(60), <1>2, <1>4, <1>5, WriterMoves DEF Opening
<1>7. w'[p] = r /\ \A q \in Writer \ {p} : w'[q] = w[q]
  BY <1>3, <1>5
<1>8. ~Unwritten(l)'
  <2>1. ~(l >= next')
    BY <1>2, <1>3, <1>4
  <2>2. ASSUME NEW q \in Writer, w'[q].line = l, w'[q].at \in Opening \cup {"text"}
        PROVE  FALSE
    <3>1. q # p
      BY <1>5, <1>7, <2>2 DEF Opening
    <3>2. w'[q].line = w'[p].line /\ w'[p].line # None
      BY <1>4, <1>5, <1>7, <2>2
    <3>3. QED
      BY <1>6, <3>1, <3>2 DEF WriterInv
  <2>3. QED
    BY <2>1, <2>2 DEF Unwritten
<1>9. Text(l) \in Seq(0..Nul) /\ ToSet(Text(l)) \subseteq {l}
  BY <1>4, TextType
<1>10. /\ data' \in [Line -> Seq(0..Nul)] /\ mtime' \in [Line -> Nat]
       /\ mtime'[ino] = now /\ Holds(ino)' \subseteq Holds(ino) \cup {l}
       /\ \A i \in Line \ {ino} :
              data'[i] = data[i] /\ Holds(i)' = Holds(i) /\ mtime'[i] = mtime[i]
  BY ZenonT(60), <1>2, <1>4, <1>9, WriteEffect
<1>11. wrote' \in [Line -> Nat] /\ wrote'[l] = now /\ \A k \in Line \ {l} : wrote'[k] = wrote[k]
  BY <1>2, <1>3, <1>4
<1>12. TypeInv'
  BY <1>1, <1>2, <1>6, <1>10, <1>11 DEF TypeInv
<1>13. UnbornInv'
  <2> SUFFICES ASSUME NEW k \in Line, Unborn(k)'
               PROVE  data'[k] = << >> /\ path # k /\ tmp # k /\ \A q \in Writer : w'[q].ino # k
    BY <1>2 DEF UnbornInv
  <2>1. data[k] = << >> /\ path # k /\ tmp # k /\ \A q \in Writer : w[q].ino # k
    BY <1>1, <1>6 DEF UnbornInv
  <2>2. QED
    BY SMTT(30), <1>5, <1>7, <1>10, <2>1
<1>14. \A i \in Line : Holds(i) \subseteq Line /\ l \notin Holds(i)
  BY <1>1, <1>4 DEF TimeInv, Holds
<1>15. TimeInv'
  <2> SUFFICES ASSUME NEW i \in Line
               PROVE  mtime'[i] <= now /\ \A k \in Holds(i)' : wrote'[k] <= mtime'[i] /\ ~Unwritten(k)'
    BY <1>2 DEF TimeInv
  <2>1. /\ mtime[i] <= now /\ mtime[i] \in Nat
        /\ \A k \in Holds(i) : k \in Line \ {l} /\ wrote[k] <= mtime[i] /\ ~Unwritten(k)
    BY <1>1, <1>3, <1>14 DEF TimeInv
  <2>2. CASE i # ino
    <3>1. Holds(i)' = Holds(i) /\ mtime'[i] = mtime[i]
      BY <1>10, <2>2
    <3>2. \A k \in Holds(i) : wrote'[k] = wrote[k] /\ ~Unwritten(k)'
      BY <1>6, <1>11, <2>1
    <3>3. QED
      BY <2>1, <3>1, <3>2
  <2>3. CASE i = ino
    <3>1. mtime'[i] = now /\ now <= now
      BY <1>3, <1>10, <2>3
    <3>2. ASSUME NEW k \in Holds(i)'
          PROVE  wrote'[k] <= now /\ ~Unwritten(k)'
      <4>1. CASE k = l
        BY <1>3, <1>8, <1>11, <4>1
      <4>2. CASE k # l
        <5>1. k \in Holds(i)
          BY <1>10, <2>3, <4>2
        <5>2. wrote[k] <= mtime[i] /\ ~Unwritten(k) /\ wrote'[k] = wrote[k] /\ wrote[k] \in Nat
          BY <1>3, <1>11, <2>1, <5>1
        <5>3. QED
          BY <1>3, <1>6, <2>1, <5>1, <5>2
      <4>3. QED
        BY <4>1, <4>2
    <3>3. QED
      BY <3>1, <3>2
  <2>4. QED
    BY <2>2, <2>3
<1>16. ListInv'
  <2> SUFFICES ASSUME ret.at = "delete", NEW n \in ret.list, NEW i, i = Named(n), i \in Line,
                      NEW k \in Holds(i)'
               PROVE  k \in late' \/ wrote'[k] < ret.cutoff
    BY <1>2 DEF ListInv, Named
  <2>1. late' = late \cup {l}
    BY <1>2 DEF Late
  <2>2. CASE k = l
    BY <2>1, <2>2
  <2>3. CASE k # l
    <3>1. k \in Holds(i)
      BY <1>10, <2>3
    <3>2. k \in late \/ wrote[k] < ret.cutoff
      BY <1>1, <3>1 DEF ListInv
    <3>3. QED
      BY <1>11, <1>14, <2>1, <3>1, <3>2
  <2>4. QED
    BY <2>2, <2>3
<1>17. QED
  BY <1>2, <1>6, <1>12, <1>13, <1>15, <1>16 DEF RetentionInv, RetentionTakesTheOld

LEMMA WriteNewlineKeeps ==
  ASSUME RetentionInv, NEW p \in Writer, WriteNewline(p)
  PROVE  RetentionInv'
<1> USE LinesAndUnits
<1>1. TypeInv /\ WriterInv /\ UnbornInv /\ TimeInv /\ ListInv
  BY DEF RetentionInv
<1> PICK ino : ino = w[p].ino
  OBVIOUS
<1>2. /\ w[p].at = "newline" /\ Write(p, <<Newline>>)
      /\ w' = [w EXCEPT ![p].at = "rename"] \/ w' = [w EXCEPT ![p] = Idle]
      /\ UNCHANGED <<depth, path, tmp, next, now, ret, late, wrote, unripe>>
  BY DEF WriteNewline, Step
<1>3. /\ w \in [Writer -> Progress] /\ w[p] \in Progress /\ now \in Nat
      /\ wrote \in [Line -> Nat] /\ mtime \in [Line -> Nat]
  BY <1>1 DEF TypeInv
<1>4. ino \in Line
  BY <1>1, <1>2 DEF WriterInv
<1> DEFINE r == [w[p] EXCEPT !.at = "rename"]
<1>5. r \in Progress /\ r.at = "rename" /\ r.line = w[p].line /\ r.ino = ino
  BY <1>3 DEF Progress, Stage, Opening
<1>6. w' = [w EXCEPT ![p] = r] \/ w' = [w EXCEPT ![p] = Idle]
  BY <1>2, <1>3
<1> HIDE DEF r
<1>7. /\ w' \in [Writer -> Progress] /\ WriterInv'
      /\ \A k \in Line : (Unborn(k)' => Unborn(k)) /\ (Unwritten(k)' => Unwritten(k))
  <2>1. CASE w' = [w EXCEPT ![p] = r]
    BY <1>2, <1>5, <2>1, WriterMoves DEF Opening
  <2>2. CASE w' = [w EXCEPT ![p] = Idle]
    BY <1>2, <2>2, WriterMoves, IdleProgress DEF Opening
  <2>3. QED
    BY <1>6, <2>1, <2>2
<1>8. \A q \in Writer : w'[q].ino \in {w[q].ino, None}
  BY <1>3, <1>5, <1>6, IdleProgress
<1>9. /\ data' \in [Line -> Seq(0..Nul)] /\ mtime' \in [Line -> Nat]
      /\ mtime'[ino] = now /\ Holds(ino)' \subseteq Holds(ino)
      /\ \A i \in Line \ {ino} :
             data'[i] = data[i] /\ Holds(i)' = Holds(i) /\ mtime'[i] = mtime[i]
  <2>1. <<Newline>> \in Seq(0..Nul) /\ Newline \notin Line
    BY DEF Newline
  <2>2. ToSet(<<Newline>>) \cap Line = {}
    BY <2>1 DEF ToSet
  <2>3. QED
    BY ZenonT(60), <1>2, <1>4, <2>1, <2>2, WriteEffect
<1>10. TypeInv'
  BY <1>1, <1>2, <1>7, <1>9 DEF TypeInv
<1>11. UnbornInv'
  <2> SUFFICES ASSUME NEW k \in Line, Unborn(k)'
               PROVE  data'[k] = << >> /\ path # k /\ tmp # k /\ \A q \in Writer : w'[q].ino # k
    BY <1>2 DEF UnbornInv
  <2>1. data[k] = << >> /\ path # k /\ tmp # k /\ \A q \in Writer : w[q].ino # k
    BY <1>1, <1>7 DEF UnbornInv
  <2>2. QED
    BY <1>8, <1>9, <2>1
<1>12. TimeInv'
  <2> SUFFICES ASSUME NEW i \in Line
               PROVE  mtime'[i] <= now /\ \A k \in Holds(i)' : wrote[k] <= mtime'[i] /\ ~Unwritten(k)'
    BY <1>2 DEF TimeInv
  <2>1. /\ Holds(i)' \subseteq Holds(i) /\ Holds(i) \subseteq Line
        /\ mtime'[i] = mtime[i] \/ mtime'[i] = now
    BY <1>9 DEF Holds
  <2>2. /\ mtime[i] <= now /\ mtime[i] \in Nat
        /\ \A k \in Holds(i) : wrote[k] <= mtime[i] /\ wrote[k] <= now /\ ~Unwritten(k)
    BY <1>1, <1>3, <2>1 DEF TimeInv
  <2>3. \A k \in Holds(i)' : wrote[k] <= mtime[i] /\ wrote[k] <= now /\ ~Unwritten(k)'
    BY <1>7, <2>1, <2>2
  <2>4. QED
    BY <1>3, <2>1, <2>2, <2>3
<1>13. ListInv'
  <2> SUFFICES ASSUME ret.at = "delete", NEW n \in ret.list, NEW i, i = Named(n), i \in Line,
                      NEW k \in Holds(i)'
               PROVE  k \in late \/ wrote[k] < ret.cutoff
    BY <1>2 DEF ListInv, Named
  <2>1. k \in Holds(i)
    BY <1>9
  <2>2. QED
    BY <1>1, <2>1 DEF ListInv
<1>14. QED
  BY <1>2, <1>7, <1>10, <1>11, <1>12, <1>13 DEF RetentionInv, RetentionTakesTheOld

LEMMA RenameKeeps ==
  ASSUME RetentionInv, NEW p \in Writer, Rename(p)
  PROVE  RetentionInv'
<1> USE LinesAndUnits
<1>1. TypeInv /\ WriterInv /\ UnbornInv /\ TimeInv /\ ListInv
  BY DEF RetentionInv
<1>2. /\ w' = [w EXCEPT ![p] = Idle]
      /\ UNCHANGED <<depth, data, mtime, next, now, ret, wrote, unripe>>
  BY DEF Rename, Fails
<1>3. CASE tmp = None
  <2>1. UNCHANGED <<path, tmp, late>> /\ depth' \in 0..2
    BY <1>1, <1>2, <1>3 DEF Rename, TypeInv
  <2>2. QED
    BY <1>2, <2>1, QuietMove, IdleProgress DEF Opening
<1>4. CASE tmp # None
  <2>1. path' = tmp /\ tmp' = None /\ late' = Late(Holds(tmp)) /\ tmp \in Line
    BY <1>1, <1>4 DEF Rename, Holds, TypeInv, Inode
  <2>2. /\ w' \in [Writer -> Progress] /\ WriterInv'
        /\ \A k \in Line : (Unborn(k)' => Unborn(k)) /\ (Unwritten(k)' => Unwritten(k))
    BY <1>2, WriterMoves, IdleProgress DEF Opening
  <2>3. TypeInv'
    BY <1>1, <1>2, <2>1, <2>2 DEF TypeInv, Inode
  <2>4. \A q \in Writer : w'[q].ino \in {w[q].ino, None}
    BY <1>1, <1>2, IdleProgress DEF TypeInv
  <2>5. UnbornInv'
    BY <1>1, <1>2, <2>1, <2>2, <2>4 DEF UnbornInv
  <2>6. \A i \in Line : Holds(i)' = Holds(i)
    BY <1>2 DEF Holds
  <2>7. TimeInv'
    BY <1>1, <1>2, <2>2, <2>6 DEF TimeInv, Holds
  <2>8. ListInv'
    <3> SUFFICES ASSUME ret.at = "delete", NEW n \in ret.list, NEW i, i = Named(n)', i \in Line,
                        NEW k \in Holds(i)
                 PROVE  k \in late' \/ wrote[k] < ret.cutoff
      BY <1>2, <2>6 DEF ListInv
    <3>1. i = tmp /\ late' = late \cup Holds(tmp)
      BY <2>1 DEF Named, Late
    <3>2. QED
      BY <3>1
  <2>9. QED
    BY <1>2, <2>2, <2>3, <2>5, <2>7, <2>8 DEF RetentionInv, RetentionTakesTheOld
<1>5. QED
  BY <1>3, <1>4

\* What retention does to names and directories, and the writers it leaves alone.
LEMMA RetentionStep ==
  ASSUME RetentionInv, TypeInv', UNCHANGED <<data, mtime, next, w, now, wrote>>,
         path' \in {path, None}, tmp' \in {tmp, None}
  PROVE  WriterInv' /\ UnbornInv' /\ TimeInv' /\ \A i \in Line : Holds(i)' = Holds(i)
<1> USE LinesAndUnits
<1>1. WriterInv'
  BY DEF RetentionInv, WriterInv
<1>2. \A l \in Line : Unborn(l)' = Unborn(l) /\ Unwritten(l)' = Unwritten(l)
  BY DEF Unborn, Unwritten
<1>3. UnbornInv'
  BY <1>2 DEF RetentionInv, UnbornInv
<1>4. \A i \in Line : Holds(i)' = Holds(i)
  BY DEF Holds
<1>5. TimeInv'
  BY <1>2, <1>4 DEF RetentionInv, TimeInv, Holds
<1>6. QED
  BY <1>1, <1>3, <1>4, <1>5

LEMMA CollectKeeps ==
  ASSUME RetentionInv, NEW days \in Days, Collect(days)
  PROVE  RetentionInv'
<1> USE LinesAndUnits
<1>1. TypeInv /\ TimeInv
  BY DEF RetentionInv
<1> PICK cutoff : cutoff = now - days
  OBVIOUS
<1>2. /\ ret' = [at |-> "delete", cutoff |-> cutoff,
                  list |-> (IF Old(path, cutoff) THEN {"path"} ELSE {})
                           \cup (IF Old(tmp, cutoff) THEN {"tmp"} ELSE {})]
      /\ UNCHANGED <<depth, path, tmp, data, mtime, next, w, now, wrote, unripe>>
  BY DEF Collect, store
<1>3. cutoff \in Int
  BY <1>1, RawStoreAssumption DEF TypeInv
<1>4. ret' \in [at : {"idle", "delete", "prune"}, cutoff : Int, list : SUBSET Name]
  BY <1>2, <1>3 DEF Name
<1>5. TypeInv'
  BY <1>1, <1>2, <1>4 DEF TypeInv
<1>6. WriterInv' /\ UnbornInv' /\ TimeInv' /\ \A i \in Line : Holds(i)' = Holds(i)
  BY <1>2, <1>5, RetentionStep
<1>7. ListInv'
  <2> SUFFICES ASSUME NEW n \in ret'.list, NEW i, i = Named(n), i \in Line, NEW k \in Holds(i)
               PROVE  wrote[k] < cutoff
    BY ZenonT(60), SMTT(30), <1>2, <1>6 DEF ListInv, Named
  <2>1. mtime[i] < cutoff
    BY <1>2 DEF Named, Old
  <2>2. wrote[k] <= mtime[i] /\ k \in Line
    BY <1>1 DEF TimeInv, Holds
  <2>3. wrote[k] \in Nat /\ mtime[i] \in Nat
    BY <1>1, <2>2 DEF TypeInv
  <2>4. QED
    BY <1>3, <2>1, <2>2, <2>3
<1>8. QED
  BY <1>2, <1>5, <1>6, <1>7 DEF RetentionInv, RetentionTakesTheOld

LEMMA DeleteListedKeeps ==
  ASSUME RetentionInv, DeleteListed
  PROVE  RetentionInv'
<1> USE LinesAndUnits
<1>1. TypeInv /\ ListInv /\ ret.at = "delete" /\ unripe = {}
  BY DEF RetentionInv, DeleteListed, RetentionTakesTheOld
<1>2. UNCHANGED <<depth, data, mtime, next, w, now, late, wrote>>
  BY DEF DeleteListed
<1>3. CASE ret.list = {}
  <2>1. ret' = [ret EXCEPT !.at = "prune"] /\ UNCHANGED <<path, tmp, unripe>>
    BY <1>3 DEF DeleteListed
  <2>2. TypeInv' /\ ret'.at = "prune"
    BY <1>1, <1>2, <2>1 DEF TypeInv
  <2>3. WriterInv' /\ UnbornInv' /\ TimeInv'
    BY <1>2, <2>1, <2>2, RetentionStep
  <2>4. QED
    BY <1>1, <2>1, <2>2, <2>3 DEF RetentionInv, RetentionTakesTheOld, ListInv
<1>4. CASE ret.list # {}
  <2> DEFINE ino(n) == IF n = "path" THEN path ELSE tmp
             gone(n) == IF ino(n) = None THEN {} ELSE ToSet(data[ino(n)]) \cap Line
  <2>1. PICK n \in ret.list :
           /\ ret' = [ret EXCEPT !.list = @ \ {n}]
           /\ path' = IF n = "path" THEN None ELSE path
           /\ tmp' = IF n = "tmp" THEN None ELSE tmp
           /\ unripe' = unripe \cup ({l \in gone(n) : wrote[l] >= ret.cutoff} \ late)
    BY <1>4, Zenon DEF DeleteListed
  <2>2. n \in Name /\ ret.cutoff \in Int /\ wrote \in [Line -> Nat]
    BY <1>1 DEF TypeInv
  <2>3. ret' \in [at : {"idle", "delete", "prune"}, cutoff : Int, list : SUBSET Name]
    BY <1>1, <2>1 DEF TypeInv
  <2>4. TypeInv'
    BY <1>1, <1>2, <2>1, <2>3 DEF TypeInv
  <2>5. WriterInv' /\ UnbornInv' /\ TimeInv' /\ \A i \in Line : Holds(i)' = Holds(i)
    BY <1>2, <2>1, <2>4, RetentionStep
  <2>6. \A l \in gone(n) : l \in late \/ ~(wrote[l] >= ret.cutoff)
    <3> SUFFICES ASSUME NEW l \in gone(n)
                 PROVE  l \in late \/ ~(wrote[l] >= ret.cutoff)
      OBVIOUS
    <3>1. Named(n) \in Line /\ l \in Holds(Named(n)) /\ l \in Line
      BY <1>1 DEF Named, Holds, TypeInv, Inode
    <3>2. l \in late \/ wrote[l] < ret.cutoff
      BY <1>1, <3>1 DEF ListInv
    <3>3. QED
      BY <2>2, <3>1, <3>2
  <2>7. unripe' = {}
    BY <1>1, <2>1, <2>6
  <2>8. ListInv'
    <3> SUFFICES ASSUME NEW m \in ret'.list, NEW i, i = Named(m)', i \in Line, NEW k \in Holds(i)
                 PROVE  k \in late \/ wrote[k] < ret'.cutoff
      BY <1>2, <2>5 DEF ListInv
    <3>1. m \in ret.list /\ ret'.cutoff = ret.cutoff
      BY <1>1, <2>1 DEF TypeInv
    <3>2. i = Named(m)
      BY <2>1 DEF Named
    <3>3. QED
      BY <1>1, <3>1, <3>2 DEF ListInv
  <2>9. QED
    BY <2>4, <2>5, <2>7, <2>8 DEF RetentionInv, RetentionTakesTheOld
<1>5. QED
  BY <1>3, <1>4

LEMMA PruneKeeps ==
  ASSUME RetentionInv, Prune
  PROVE  RetentionInv'
<1>1. TypeInv /\ depth \in 0..2 /\ ret.at = "prune"
  BY DEF RetentionInv, TypeInv, Prune
<1>2. UNCHANGED <<path, tmp, data, mtime, next, w, now, late, wrote, unripe>>
  BY DEF Prune
<1>3. /\ ret' = ret \/ ret' = NoRun
      /\ depth' = depth \/ (depth \in {1, 2} /\ depth' = depth - 1)
  BY DEF Prune
<1>4. NoRun \in [at : {"idle", "delete", "prune"}, cutoff : Int, list : SUBSET Name] /\ NoRun.at = "idle"
  BY DEF NoRun
<1>5. depth' \in 0..2 /\ ret'.at # "delete"
  BY <1>1, <1>3, <1>4
<1>6. TypeInv'
  BY <1>1, <1>2, <1>3, <1>4, <1>5 DEF TypeInv
<1>7. WriterInv' /\ UnbornInv' /\ TimeInv'
  BY <1>2, <1>6, RetentionStep
<1>8. QED
  BY <1>2, <1>5, <1>6, <1>7 DEF RetentionInv, ListInv, RetentionTakesTheOld

LEMMA RetentionKept ==
  ASSUME RetentionInv, [Next]_vars
  PROVE  RetentionInv'
<1>1. CASE UNCHANGED vars
  <2>1. UNCHANGED <<depth, path, tmp, data, mtime, next, w, now, ret, late, wrote, unripe>>
    BY <1>1 DEF vars, store
  <2>2. TypeInv'
    BY <2>1 DEF RetentionInv, TypeInv
  <2>3. WriterInv' /\ UnbornInv' /\ TimeInv' /\ \A i \in Line : Holds(i)' = Holds(i)
    BY <2>1, <2>2, RetentionStep
  <2>4. ListInv'
    BY <2>1, <2>3 DEF RetentionInv, ListInv, Named
  <2>5. QED
    BY <2>1, <2>2, <2>3, <2>4 DEF RetentionInv, RetentionTakesTheOld
<1>2. ASSUME NEW p \in Writer, WriterStep(p) PROVE RetentionInv'
  BY <1>2, ReceiveKeeps, MakeDirKeeps, ExistsKeeps, GivingUpKeeps, OpenAppendKeeps,
     OpenTmpKeeps, WriteTextKeeps, WriteNewlineKeeps, RenameKeeps DEF WriterStep
<1>3. ASSUME NEW days \in Days, Collect(days) PROVE RetentionInv'
  BY <1>3, CollectKeeps
<1>4. QED
  BY <1>1, <1>2, <1>3, BystandersKeep, DeleteListedKeeps, PruneKeeps DEF Next

LEMMA RetentionHolds == Spec => []RetentionInv
<1>1. Init => RetentionInv
  BY InitRetention
<1>2. RetentionInv /\ [Next]_vars => RetentionInv'
  BY RetentionKept
<1>3. QED
  BY <1>1, <1>2, PTL DEF Spec

\* However many writers, lines, runs of retention and kills there are, and however their
\* steps fall, a line that retention removes is older than the run's cutoff, or was
\* written or renamed into place after the run had listed its files.
\* (siemctl main.rs collect_old_files, cmd_retention; output.rs append_or_create.)
THEOREM RetentionSparesTheYoung == Spec => []RetentionTakesTheOld
<1>1. RetentionInv => RetentionTakesTheOld
  BY DEF RetentionInv
<1>2. QED
  BY <1>1, RetentionHolds, PTL

(***************************************************************************)
(* What a write is refused for.                                            *)
(***************************************************************************)

\* A write that neither retention nor a second writer has met ...
Undisturbed(p) == w[p].at # "idle" /\ w[p].line \notin pruned \cup overlapped

\* ... is the only one under way, and finds what it has made.
Provided(r) ==
    /\ r.at = "mkleaf" => depth > 0
    /\ r.at \in {"exists", "append", "create"} => depth = 2
    /\ r.at \in {"text", "newline"} /\ r.fresh => tmp # None
    /\ r.at = "rename" => tmp # None

UndisturbedInv ==
    \A p \in Writer : Undisturbed(p) =>
        /\ \A q \in Writer \ {p} : w[q].at = "idle"
        /\ Provided(w[p])

RefusalInv == UndisturbedInv /\ RefusedForAReason

LEMMA InitRefusal ==
  ASSUME Init
  PROVE  RefusalInv
  BY DEF Init, RefusalInv, UndisturbedInv, Undisturbed, RefusedForAReason, Idle

\* Nobody moves but p, who keeps its line or is done with it.
LEMMA OwnMove ==
  ASSUME RetentionInv, RefusalInv, NEW p \in Writer, w[p].at # "idle",
         NEW r \in Progress, w' = [w EXCEPT ![p] = r],
         r.at = "idle" \/ r.line = w[p].line,
         UNCHANGED <<pruned, overlapped>>,
         Undisturbed(p) /\ r.at # "idle" =>
            /\ r.at = "mkleaf" => depth' > 0
            /\ r.at \in {"exists", "append", "create"} => depth' = 2
            /\ r.at \in {"text", "newline"} /\ r.fresh => tmp' # None
            /\ r.at = "rename" => tmp' # None
  PROVE  UndisturbedInv'
<1>1. w \in [Writer -> Progress]
  BY DEF RetentionInv, TypeInv
<1>2. w'[p] = r /\ \A q \in Writer \ {p} : w'[q] = w[q]
  BY <1>1
<1> SUFFICES ASSUME NEW q \in Writer, w'[q].at # "idle", w'[q].line \notin pruned \cup overlapped
             PROVE  (\A s \in Writer \ {q} : w'[s].at = "idle") /\ Provided(w[q])'
  BY DEF UndisturbedInv, Undisturbed
<1>3. CASE q = p
  <2>1. Undisturbed(p) /\ r.at # "idle"
    BY <1>2, <1>3 DEF Undisturbed
  <2>2. \A s \in Writer \ {p} : w[s].at = "idle"
    BY <2>1 DEF RefusalInv, UndisturbedInv
  <2>3. QED
    BY <1>2, <1>3, <2>1, <2>2 DEF Provided
<1>4. CASE q # p
  <2>1. Undisturbed(q)
    BY <1>2, <1>4 DEF Undisturbed
  <2>2. QED
    BY <1>4, <2>1 DEF RefusalInv, UndisturbedInv
<1>5. QED
  BY <1>3, <1>4

LEMMA RefusalStep ==
  ASSUME RefusalInv, UNCHANGED failed, pruned \subseteq pruned', overlapped \subseteq overlapped'
  PROVE  RefusedForAReason'
  BY DEF RefusalInv, RefusedForAReason

\* Who gives up has been disturbed.
LEMMA FailsKeepsRefusal ==
  ASSUME RetentionInv, RefusalInv, NEW p \in Writer, w[p].at # "idle", ~ Undisturbed(p), Fails(p),
         UNCHANGED <<pruned, overlapped>>
  PROVE  RefusalInv'
<1>1. w' = [w EXCEPT ![p] = Idle] /\ failed' = failed \cup {w[p].line}
  BY DEF Fails
<1>2. UndisturbedInv'
  BY <1>1, IdleProgress, OwnMove
<1>3. RefusedForAReason'
  BY <1>1 DEF RefusalInv, RefusedForAReason, Undisturbed
<1>4. QED
  BY <1>2, <1>3 DEF RefusalInv

LEMMA ReceiveKeepsRefusal ==
  ASSUME RetentionInv, RefusalInv, NEW p \in Writer, Receive(p)
  PROVE  RefusalInv'
<1>1. /\ w \in [Writer -> Progress] /\ w[p].at = "idle" /\ WriterInv
      /\ w' = [w EXCEPT ![p] = [Idle EXCEPT !.at = "mkdir", !.line = next]]
      /\ overlapped' = IF InFlight = {} THEN overlapped
                       ELSE overlapped \cup InFlight \cup {next}
      /\ UNCHANGED <<failed, pruned>> /\ next \in Line
  BY DEF RetentionInv, TypeInv, Receive, blame
<1>2. /\ w'[p].at = "mkdir" /\ w'[p].line = next
      /\ \A q \in Writer \ {p} : w'[q] = w[q]
  BY <1>1 DEF Idle
<1>3. RefusedForAReason'
  BY <1>1, RefusalStep
<1>4. ASSUME NEW q \in Writer, w'[q].at # "idle", w'[q].line \notin pruned \cup overlapped'
      PROVE  q = p /\ \A s \in Writer \ {p} : w[s].at = "idle"
  <2>1. \A s \in Writer : w[s].at # "idle" => w[s].line \in InFlight
    BY <1>1 DEF WriterInv, InFlight
  <2>2. InFlight = {}
    BY <1>1, <1>2, <1>4, <2>1
  <2>3. QED
    BY <1>2, <1>4, <2>1, <2>2
<1>5. UndisturbedInv'
  BY <1>1, <1>2, <1>4 DEF UndisturbedInv, Undisturbed, Provided
<1>6. QED
  BY <1>3, <1>5 DEF RefusalInv

LEMMA MakeDirKeepsRefusal ==
  ASSUME RetentionInv, RefusalInv, NEW p \in Writer, MakeDir(p)
  PROVE  RefusalInv'
<1>1. /\ w \in [Writer -> Progress] /\ w[p] \in Progress /\ depth \in 0..2
      /\ w[p].at \in {"mkdir", "mkparent", "mkleaf"}
      /\ UNCHANGED <<pruned, overlapped, tmp>>
  BY DEF RetentionInv, TypeInv, MakeDir, blame
<1>2. ASSUME NEW at \in {"mkparent", "mkleaf", "exists"}, Step(p, at), UNCHANGED failed,
             at = "mkleaf" => depth' > 0, at = "exists" => depth' = 2
      PROVE  RefusalInv'
  <2> DEFINE r == [w[p] EXCEPT !.at = at]
  <2>1. r \in Progress /\ r.at = at /\ r.line = w[p].line
    BY <1>1 DEF Progress, Stage, Opening
  <2>2. w' = [w EXCEPT ![p] = r]
    BY <1>2 DEF Step
  <2> HIDE DEF r
  <2>3. UndisturbedInv'
    <3>1. /\ w[p].at # "idle" /\ r.at \notin {"text", "newline", "rename", "append", "create"}
          /\ r.at = "mkleaf" => depth' > 0
          /\ r.at = "exists" => depth' = 2
      BY <1>1, <1>2, <2>1
    <3>2. QED
      BY <1>1, <2>1, <2>2, <3>1, OwnMove
  <2>4. QED
    BY <1>1, <1>2, <2>3, RefusalStep DEF RefusalInv
<1>3. CASE w[p].at = "mkparent"
  <2>1. Step(p, "mkleaf") /\ UNCHANGED failed /\ depth' = IF depth = 0 THEN 1 ELSE depth
    BY <1>3 DEF MakeDir
  <2>2. QED
    BY <1>1, <1>2, <2>1
<1>4. CASE w[p].at # "mkparent" /\ depth > 0
  <2>1. depth # 0 /\ w[p].at \in {"mkdir", "mkleaf"}
    BY <1>1, <1>4
  <2>2. Step(p, "exists") /\ UNCHANGED failed /\ depth' = 2
    BY <1>4, <2>1 DEF MakeDir
  <2>3. QED
    BY <1>2, <2>2
<1>5. CASE w[p].at = "mkdir" /\ depth = 0
  <2>1. Step(p, "mkparent") /\ UNCHANGED failed
    BY <1>5 DEF MakeDir
  <2>2. QED
    BY <1>2, <2>1
<1>6. CASE w[p].at = "mkleaf" /\ depth = 0
  <2>1. Fails(p)
    BY <1>6 DEF MakeDir
  <2>2. ~ Undisturbed(p)
    BY <1>6 DEF RefusalInv, UndisturbedInv, Provided
  <2>3. QED
    BY <1>1, <2>1, <2>2, FailsKeepsRefusal
<1>7. QED
  BY <1>1, <1>3, <1>4, <1>5, <1>6

\* The directory was there when p looked, and nobody has removed it since.
LEMMA OpeningKeepsRefusal ==
  ASSUME RetentionInv, RefusalInv, NEW p \in Writer,
         Exists(p) \/ OpenFails(p) \/ OpenAppend(p) \/ OpenTmp(p)
  PROVE  RefusalInv'
<1>1. /\ w \in [Writer -> Progress] /\ w[p] \in Progress /\ WriterInv
      /\ path \in Inode /\ tmp \in Inode
  BY DEF RetentionInv, TypeInv
<1>2. UNCHANGED <<pruned, overlapped>> /\ w[p].at \in {"exists", "append", "create"}
  BY DEF Exists, OpenFails, OpenAppend, OpenTmp, blame
<1>3. Undisturbed(p) => depth = 2
  BY <1>2 DEF RefusalInv, UndisturbedInv, Provided
<1>4. CASE Exists(p)
  <2> DEFINE r == [w[p] EXCEPT !.at = IF path # None THEN "append" ELSE "create"]
  <2>1. r \in Progress /\ r.at \in {"append", "create"} /\ r.line = w[p].line
    BY <1>1 DEF Progress, Stage, Opening
  <2>2. w' = [w EXCEPT ![p] = r] /\ UNCHANGED <<failed, depth>>
    BY <1>1, <1>4 DEF Exists, Step, store
  <2> HIDE DEF r
  <2>3. r.at \notin {"idle", "mkleaf", "text", "newline", "rename"}
    BY <2>1
  <2>4. UndisturbedInv'
    BY <1>2, <1>3, <2>1, <2>2, <2>3, OwnMove
  <2>5. QED
    BY <1>2, <2>2, <2>4, RefusalStep DEF RefusalInv
<1>5. CASE OpenFails(p)
  <2>1. Fails(p) /\ depth < 2 /\ w[p].at # "idle"
    BY <1>5 DEF OpenFails
  <2>2. ~ Undisturbed(p)
    BY <1>3, <2>1
  <2>3. QED
    BY <1>2, <2>1, <2>2, FailsKeepsRefusal
<1>6. ASSUME NEW ino \in Inode, NEW fresh \in BOOLEAN, Opened(p, ino, fresh),
             fresh => tmp' # None, UNCHANGED failed
      PROVE  RefusalInv'
  <2> DEFINE r == [w[p] EXCEPT !.at = "text", !.ino = ino, !.fresh = fresh]
  <2>1. r \in Progress /\ r.at = "text" /\ r.line = w[p].line /\ r.fresh = fresh
    BY <1>1, <1>6 DEF Progress, Stage
  <2>2. w' = [w EXCEPT ![p] = r]
    BY <1>1, <1>6 DEF Opened
  <2> HIDE DEF r
  <2>3. r.at \notin {"idle", "mkleaf", "exists", "append", "create", "rename"}
        /\ (r.fresh => tmp' # None)
    BY <1>6, <2>1
  <2>4. UndisturbedInv'
    BY <1>2, <2>1, <2>2, <2>3, OwnMove
  <2>5. QED
    BY <1>2, <1>6, <2>4, RefusalStep DEF RefusalInv
<1>7. w[p].line \in Line
  BY <1>1, <1>2 DEF WriterInv, Progress, Inode
<1>8. CASE OpenAppend(p)
  <2>1. PICK ino \in Inode : Opened(p, ino, FALSE)
    BY <1>1, <1>7, <1>8 DEF OpenAppend, Inode
  <2>2. UNCHANGED failed
    BY <1>8 DEF OpenAppend
  <2>3. QED
    BY <1>6, <2>1, <2>2
<1>9. CASE OpenTmp(p)
  <2>1. PICK ino \in Inode : Opened(p, ino, TRUE) /\ tmp' = ino /\ ino # None
    BY <1>1, <1>7, <1>9, LinesAndUnits DEF OpenTmp, Inode
  <2>2. UNCHANGED failed
    BY <1>9 DEF OpenTmp
  <2>3. QED
    BY <1>6, <2>1, <2>2
<1>10. QED
  BY <1>4, <1>5, <1>8, <1>9

LEMMA WritingKeepsRefusal ==
  ASSUME RetentionInv, RefusalInv, NEW p \in Writer,
         WriteText(p) \/ WriteNewline(p) \/ Rename(p) \/ Kill(p)
  PROVE  RefusalInv'
<1>1. /\ w \in [Writer -> Progress] /\ w[p] \in Progress /\ tmp \in Inode
      /\ WriterInv /\ \A l \in Line : LineUnits[l] \in Nat
  BY LinesAndUnits DEF RetentionInv, TypeInv
<1>2. UNCHANGED <<pruned, overlapped>> /\ w[p].at # "idle"
  BY DEF WriteText, WriteNewline, Rename, Kill, blame
<1>3. Undisturbed(p) => Provided(w[p])
  BY DEF RefusalInv, UndisturbedInv
\* p is done.
<1>4. ASSUME w' = [w EXCEPT ![p] = Idle], UNCHANGED failed PROVE RefusalInv'
  <2>1. UndisturbedInv'
    BY <1>2, <1>4, IdleProgress, OwnMove
  <2>2. QED
    BY <1>2, <1>4, <2>1, RefusalStep DEF RefusalInv
\* p goes on with its file.
<1>5. ASSUME NEW r \in Progress, w' = [w EXCEPT ![p] = r], r.line = w[p].line,
             r.at \in {"newline", "rename"}, r.at = "rename" \/ r.fresh => w[p].fresh,
             w[p].at \in {"text", "newline"}, UNCHANGED <<failed, tmp>>
      PROVE  RefusalInv'
  <2>1. Undisturbed(p) => tmp' = tmp /\ (w[p].fresh => tmp # None)
    BY <1>3, <1>5 DEF Provided
  <2>2. /\ r.at \notin {"idle", "mkleaf", "exists", "append", "create"}
        /\ Undisturbed(p) /\ (r.fresh \/ r.at = "rename") => tmp' # None
    BY <1>5, <2>1
  <2>3. UndisturbedInv'
    BY <1>2, <1>5, <2>2, OwnMove
  <2>4. QED
    BY <1>2, <1>5, <2>3, RefusalStep DEF RefusalInv
<1>6. CASE WriteText(p)
  <2> DEFINE r == [w[p] EXCEPT !.at = "newline", !.pos = @ + LineUnits[w[p].line]]
  <2>1. w[p].at = "text" /\ UNCHANGED <<failed, tmp>> /\ w' = [w EXCEPT ![p] = r]
    BY <1>1, <1>6 DEF WriteText
  <2>2. w[p].line \in Line
    BY <1>1, <2>1 DEF WriterInv, Progress, Inode
  <2>3. r \in Progress /\ r.at = "newline" /\ r.line = w[p].line /\ r.fresh = w[p].fresh
    <3>1. w[p].pos + LineUnits[w[p].line] \in Nat
      BY <1>1, <2>2 DEF Progress
    <3>2. QED
      BY <1>1, <3>1 DEF Progress, Stage
  <2> HIDE DEF r
  <2>4. QED
    BY <1>5, <2>1, <2>3
<1>7. CASE WriteNewline(p)
  <2>1. w[p].at = "newline" /\ UNCHANGED <<failed, tmp>>
    BY <1>7 DEF WriteNewline
  <2>2. CASE w[p].fresh
    <3> DEFINE r == [w[p] EXCEPT !.at = "rename"]
    <3>1. w' = [w EXCEPT ![p] = r]
      BY <1>1, <1>7, <2>2 DEF WriteNewline, Step
    <3>2. r \in Progress /\ r.at = "rename" /\ r.line = w[p].line /\ r.fresh = w[p].fresh
      BY <1>1 DEF Progress, Stage
    <3> HIDE DEF r
    <3>3. QED
      BY <1>5, <2>1, <2>2, <3>1, <3>2
  <2>3. CASE ~ w[p].fresh
    BY <1>4, <1>7, <2>1, <2>3 DEF WriteNewline
  <2>4. QED
    BY <2>2, <2>3
<1>8. CASE Rename(p)
  <2>1. CASE tmp = None
    <3>1. Fails(p) /\ w[p].at = "rename"
      BY <1>8, <2>1 DEF Rename
    <3>2. ~ Undisturbed(p)
      BY <1>3, <2>1, <3>1 DEF Provided
    <3>3. QED
      BY <1>2, <3>1, <3>2, FailsKeepsRefusal
  <2>2. CASE tmp # None
    BY <1>4, <1>8, <2>2 DEF Rename
  <2>3. QED
    BY <2>1, <2>2
<1>9. CASE Kill(p)
  BY <1>4, <1>9 DEF Kill
<1>10. QED
  BY <1>6, <1>7, <1>8, <1>9

\* Retention removes something: it has disturbed whatever is under way.
LEMMA RemovalKeepsRefusal ==
  ASSUME RetentionInv, RefusalInv, pruned' = pruned \cup InFlight,
         UNCHANGED <<w, failed, overlapped>>
  PROVE  RefusalInv'
<1>1. \A p \in Writer : w[p].at # "idle" => w[p].line \in InFlight
  BY DEF RetentionInv, WriterInv, InFlight
<1>2. UndisturbedInv'
  BY <1>1 DEF UndisturbedInv, Undisturbed
<1>3. QED
  BY <1>2, RefusalStep DEF RefusalInv

LEMMA RefusalKept ==
  ASSUME RetentionInv, RefusalInv, [Next]_vars
  PROVE  RefusalInv'
<1> USE DEF store, tail, blame
<1>1. ASSUME UNCHANGED <<w, depth, tmp, failed, pruned, overlapped>> PROVE RefusalInv'
  BY <1>1 DEF RefusalInv, UndisturbedInv, Undisturbed, Provided, RefusedForAReason
<1>2. ASSUME NEW p \in Writer, WriterStep(p) PROVE RefusalInv'
  BY <1>2, ReceiveKeepsRefusal, MakeDirKeepsRefusal, OpeningKeepsRefusal, WritingKeepsRefusal
     DEF WriterStep
<1>3. ASSUME NEW days \in Days, Collect(days) PROVE RefusalInv'
  BY <1>1, <1>3 DEF Collect
<1>4. CASE Tick \/ Seed \/ Discover \/ Poll
  BY <1>1, <1>4 DEF Tick, Seed, Discover, Poll
<1>5. CASE DeleteListed
  <2>1. UNCHANGED <<w, depth, failed, overlapped>>
    BY <1>5 DEF DeleteListed
  <2>2. UNCHANGED <<tmp, pruned>> \/ pruned' = pruned \cup InFlight
    BY <1>5 DEF DeleteListed
  <2>3. QED
    BY <1>1, <2>1, <2>2, RemovalKeepsRefusal
<1>6. CASE Prune
  <2>1. UNCHANGED <<w, tmp, failed, overlapped>>
    BY <1>6 DEF Prune
  <2>2. UNCHANGED <<depth, pruned>> \/ pruned' = pruned \cup InFlight
    BY <1>6 DEF Prune
  <2>3. QED
    BY <1>1, <2>1, <2>2, RemovalKeepsRefusal
<1>7. CASE UNCHANGED vars
  BY <1>1, <1>7 DEF vars
<1>8. QED
  BY <1>2, <1>3, <1>4, <1>5, <1>6, <1>7 DEF Next

\* However many writers there are and whenever they are killed, an event is refused only
\* when retention removed something while it was being written, or a second writer was at
\* work: create_dir_all, the test for the file and the opens stand in for each other.
\* (output.rs OutputRouter::write, append_or_create; siemctl main.rs prune_empty_dirs.)
THEOREM RefusalHasAReason == Spec => []RefusedForAReason
<1>1. Init => RefusalInv
  BY InitRefusal
<1>2. RetentionInv /\ RefusalInv /\ [Next]_vars => RefusalInv'
  BY RefusalKept
<1>3. RefusalInv => RefusedForAReason
  BY DEF RefusalInv
<1>4. QED
  BY <1>1, <1>2, <1>3, RetentionHolds, PTL DEF Spec

(***************************************************************************)
(* Where the stored lines are.                                             *)
(***************************************************************************)

\* The lines nobody has an excuse to lose.
Good == stored \ (purged \cup pruned \cup overlapped)

\* A line of f is a line of s, further on: a file that only grows.
Grows(s, f) == Len(s) <= Len(f) /\ \A k \in 1..Len(s) : f[k] = s[k]
Has(s, l, dead) == \E e \in DOMAIN s : EndsAt(s, l, e, dead)
Ended(s, k) == \E j \in k..Len(s) : s[j] = Newline

\* What follows the last newline of s belongs to one of ls.
RestOf(s, ls) == \A k \in 1..Len(s) : s[k] \in ls \/ Ended(s, k)

TextEnds(s, l) ==
    /\ LineUnits[l] <= Len(s)
    /\ \A k \in (Len(s) - LineUnits[l] + 1)..Len(s) : s[k] = l

\* Nothing of l stands before a text of l at the end of s.
NotBefore(s, l) == \A k \in 1..(Len(s) - LineUnits[l]) : s[k] # l

LEMMA LineFacts ==
  ASSUME NEW l \in Line
  PROVE  LineUnits[l] \in Nat /\ LineUnits[l] > 0 /\ l # Nul /\ l # Newline
<1>1. LineUnits[l] \in Nat \ {0}
  BY LinesAndUnits
<1>2. l # Nul /\ l # Newline
  BY LinesAndUnits DEF Newline
<1>3. QED
  BY <1>1, <1>2

LEMMA Lengths ==
  ASSUME NEW S, NEW s \in Seq(S)
  PROVE  Len(s) \in Nat /\ DOMAIN s = 1..Len(s)
  OBVIOUS

IsNewline(u) == u = <<Newline>>

LEMMA NewlineUnit ==
  ASSUME NEW u, IsNewline(u)
  PROVE  u \in Seq(0..Nul) /\ Len(u) = 1 /\ u[1] = Newline
<1>1. Newline \in 0..Nul
  BY LinesAndUnits DEF Newline
<1>2. QED
  BY <1>1 DEF IsNewline

\* f is s with units written at pos.
Written(f, s, pos, units) ==
    /\ f \in Seq(0..Nul)
    /\ Len(s) <= Len(f) /\ pos + Len(units) <= Len(f)
    /\ Len(f) = Len(s) \/ Len(f) = pos + Len(units)
    /\ \A k \in 1..Len(units) : f[pos + k] = units[k]
    /\ \A k \in 1..Len(f) :
           \/ k > pos /\ k <= pos + Len(units)
           \/ k <= Len(s) /\ f[k] = s[k]
           \/ k > Len(s) /\ f[k] = Nul

LEMMA WrittenAt ==
  ASSUME NEW s \in Seq(0..Nul), NEW pos \in Nat, NEW units \in Seq(0..Nul),
         NEW f, f = WriteAt(s, pos, units)
  PROVE  Written(f, s, pos, units)
<1> DEFINE n == IF pos + Len(units) > Len(s) THEN pos + Len(units) ELSE Len(s)
           u(i) == IF i > pos /\ i <= pos + Len(units) THEN units[i - pos]
                   ELSE IF i <= Len(s) THEN s[i] ELSE Nul
<1>1. /\ Len(s) \in Nat /\ Len(units) \in Nat /\ n \in Nat
  OBVIOUS
<1>2. f = [i \in 1..n |-> u(i)]
  BY DEF WriteAt
<1>3. f \in Seq(0..Nul)
  BY WriteAtType
<1>4. Len(f) = n /\ Len(s) <= n /\ pos + Len(units) <= n /\ (n = Len(s) \/ n = pos + Len(units))
  <2>1. DOMAIN f = 1..n /\ DOMAIN f = 1..Len(f) /\ Len(f) \in Nat
    BY <1>2, <1>3
  <2>2. Len(f) = n
    <3> HIDE DEF n
    <3>1. QED
      BY <1>1, <2>1
  <2>3. QED
    BY <1>1, <2>2
<1>5. \A k \in 1..n : f[k] = u(k)
  <2> HIDE DEF u, n
  <2>1. QED
    BY <1>2
<1>6. ASSUME NEW k \in 1..Len(units) PROVE f[pos + k] = units[k]
  <2>1. pos + k \in 1..n /\ u(pos + k) = units[pos + k - pos] /\ pos + k - pos = k
    BY <1>1, <1>4
  <2> HIDE DEF u, n
  <2>2. QED
    BY <1>5, <2>1
<1>7. ASSUME NEW k \in 1..n
      PROVE  \/ k > pos /\ k <= pos + Len(units)
             \/ k <= Len(s) /\ u(k) = s[k]
             \/ k > Len(s) /\ u(k) = Nul
  BY <1>1
<1> HIDE DEF u, n
<1>8. QED
  BY <1>3, <1>4, <1>5, <1>6, <1>7 DEF Written

\* Appending leaves what there is.
LEMMA AppendGrows ==
  ASSUME NEW s \in Seq(0..Nul), NEW units \in Seq(0..Nul)
  PROVE  Grows(s, WriteAt(s, Len(s), units))
<1> PICK f : f = WriteAt(s, Len(s), units)
  OBVIOUS
<1>1. Len(s) \in Nat /\ Len(units) \in Nat
  OBVIOUS
<1>2. /\ Len(s) <= Len(f) /\ Len(f) \in Nat
      /\ \A k \in 1..Len(f) :
             \/ k > Len(s) /\ k <= Len(s) + Len(units)
             \/ k <= Len(s) /\ f[k] = s[k]
             \/ k > Len(s) /\ f[k] = Nul
  BY <1>1, WrittenAt DEF Written
<1>3. QED
  BY <1>1, <1>2 DEF Grows

\* A file that grows and writers that die keep a line where it is.
LEMMA EndsAtKept ==
  ASSUME NEW s \in Seq(0..Nul), NEW f \in Seq(0..Nul), Grows(s, f),
         NEW l \in Line, NEW dead, NEW dead2, dead \subseteq dead2,
         NEW e \in 1..Len(s), EndsAt(s, l, e, dead)
  PROVE  e \in 1..Len(f) /\ EndsAt(f, l, e, dead2)
<1>1. /\ Len(s) \in Nat /\ Len(f) \in Nat /\ LineUnits[l] \in Nat
  BY Lengths, LineFacts
<1>2. /\ e \in 1..Len(f) /\ f[e] = s[e]
      /\ \A k \in 1..(e - 1) : f[k] = s[k]
      /\ e > LineUnits[l] => (e - LineUnits[l])..(e - 1) \subseteq 1..(e - 1)
      /\ 1..(e - 1 - LineUnits[l]) \subseteq 1..(e - 1)
  BY <1>1 DEF Grows
<1>3. f[e] = Newline /\ e > LineUnits[l] /\ \A i \in (e - LineUnits[l])..(e - 1) : f[i] = l
  BY <1>2 DEF EndsAt
<1>4. ASSUME NEW i \in 1..(e - 1 - LineUnits[l])
      PROVE  f[i] \in dead2 \/ \E j \in i..(e - 1) : f[j] = Newline
  <2>1. s[i] \in dead \/ \E j \in i..(e - 1) : s[j] = Newline
    BY DEF EndsAt
  <2>2. i..(e - 1) \subseteq 1..(e - 1)
    BY <1>1
  <2>3. i \in 1..(e - 1)
    BY <1>2
  <2>4. QED
    BY <1>2, <2>1, <2>2, <2>3
<1>5. QED
  BY <1>2, <1>3, <1>4 DEF EndsAt

\* Before the newline of a line stands nothing but its own text and that of dead ones.
LEMMA LineUnitsOf ==
  ASSUME NEW s, NEW l \in Line, NEW dead, NEW e \in Nat, EndsAt(s, l, e, dead),
         NEW i \in 1..(e - 1)
  PROVE  s[i] \in {l} \cup dead \/ \E j \in i..(e - 1) : s[j] = Newline
<1> PICK m \in Nat : m = LineUnits[l]
  BY LineFacts
<1>1. CASE i >= e - m
  <2>1. i \in (e - m)..(e - 1)
    BY <1>1
  <2>2. QED
    BY <2>1 DEF EndsAt
<1>2. CASE ~ (i >= e - m)
  <2>1. i \in 1..(e - 1 - m)
    BY <1>2
  <2>2. QED
    BY <2>1 DEF EndsAt
<1>3. QED
  BY <1>1, <1>2

\* What stands in front of a stored line is a newline, or nothing, or torn.
LEMMA ReadOrGlued ==
  ASSUME NEW l \in Line, path # None, path \in Line, data[path] \in Seq(0..Nul),
         Has(data[path], l, killed)
  PROVE  Readable(l) \/ Glued(l)
<1> PICK s \in Seq(0..Nul) : s = data[path]
  OBVIOUS
<1> PICK m \in Nat : m = LineUnits[l] /\ m > 0 /\ l # Newline
  BY LineFacts
<1>1. PICK e \in DOMAIN s : EndsAt(s, l, e, killed)
  BY DEF Has
<1>2. e \in Nat /\ e > m
  BY <1>1, Lengths DEF EndsAt
<1>3. CASE e - 1 > m /\ s[e - 1 - m] \in killed
  BY <1>1, <1>3 DEF Glued
<1>4. CASE ~ (e - 1 > m /\ s[e - 1 - m] \in killed)
  <2>1. ASSUME NEW i \in 1..(e - 1 - m) PROVE \E j \in i..(e - 1) : s[j] = Newline
    <3>1. e - 1 - m \in 1..(e - 1 - m) /\ e - 1 > m
      BY <1>2, <2>1
    <3>2. PICK j \in (e - 1 - m)..(e - 1) : s[j] = Newline
      BY <1>1, <1>4, <3>1 DEF EndsAt
    <3>3. j \in i..(e - 1)
      BY <1>2, <3>2
    <3>4. QED
      BY <3>2, <3>3
  <2>2. EndsAt(s, l, e, {})
    BY <1>1, <2>1 DEF EndsAt
  <2>3. QED
    BY <1>1, <2>2 DEF Readable
<1>5. QED
  BY <1>3, <1>4

LEMMA HasKept ==
  ASSUME NEW s \in Seq(0..Nul), NEW f \in Seq(0..Nul), Grows(s, f),
         NEW l \in Line, NEW dead, NEW dead2, dead \subseteq dead2, Has(s, l, dead)
  PROVE  Has(f, l, dead2)
<1>1. PICK e \in 1..Len(s) : EndsAt(s, l, e, dead)
  BY Lengths DEF Has
<1>2. e \in 1..Len(f) /\ EndsAt(f, l, e, dead2)
  BY <1>1, EndsAtKept
<1>3. DOMAIN f = 1..Len(f)
  BY Lengths
<1>4. QED
  BY <1>2, <1>3, Zenon DEF Has

\* f is s with the text of l at pos.
TextPut(f, s, pos, l) ==
    /\ pos = Len(s) => Len(f) = pos + LineUnits[l] /\ TextEnds(f, l)
    /\ pos = Len(s) /\ (\A k \in 1..Len(s) : s[k] # l) => NotBefore(f, l)
    /\ \A k \in 1..Len(f) : f[k] = l \/ (k <= Len(s) /\ f[k] = s[k])
    /\ (\A k \in 1..Len(s) : s[k] # l) =>
           \A k \in 1..Len(f) : f[k] = l => k <= pos + LineUnits[l]

\* The text of a line opens a rest of its own, at the front or at the end of a file.
LEMMA TextWritten ==
  ASSUME NEW s \in Seq(0..Nul), NEW pos \in Nat, pos = 0 \/ pos = Len(s), NEW l \in Line,
         NEW ls, RestOf(s, ls), NEW f, f = WriteAt(s, pos, Text(l))
  PROVE  RestOf(f, ls \cup {l}) /\ TextPut(f, s, pos, l)
<1> PICK m \in Nat : m = LineUnits[l]
  BY LineFacts
<1> PICK u : u = Text(l)
  OBVIOUS
<1>1. u \in Seq(0..Nul) /\ Len(u) = m /\ \A k \in 1..m : u[k] = l
  <2>1. u \in Seq(0..Nul)
    BY TextType
  <2>2. u = [i \in 1..m |-> l]
    BY DEF Text
  <2>3. QED
    BY <2>1, <2>2
<1> Written(f, s, pos, u)
  BY <1>1, WrittenAt
<1>2. /\ f \in Seq(0..Nul)
      /\ Len(s) <= Len(f) /\ pos + Len(u) <= Len(f)
      /\ Len(f) = Len(s) \/ Len(f) = pos + Len(u)
  BY DEF Written
<1>3. /\ \A k \in 1..Len(u) : f[pos + k] = u[k]
      /\ \A k \in 1..Len(f) :
             \/ k > pos /\ k <= pos + Len(u)
             \/ k <= Len(s) /\ f[k] = s[k]
             \/ k > Len(s) /\ f[k] = Nul
  BY DEF Written
<1> PICK n \in Nat, o \in Nat : n = Len(f) /\ o = Len(s)
  BY <1>2, Lengths
<1>4. o <= n /\ pos + m <= n /\ (n = o \/ n = pos + m) /\ (pos = 0 \/ pos = o)
  BY <1>1, <1>2
<1>5. ASSUME NEW k \in 1..n, k > pos, k <= pos + m PROVE f[k] = l
  <2>1. k - pos \in 1..m /\ pos + (k - pos) = k
    BY <1>5
  <2>2. QED
    BY <1>1, <1>3, <2>1
<1>6. ASSUME NEW k \in 1..n
      PROVE  f[k] = l \/ (k <= o /\ f[k] = s[k])
  <2>1. k > o => k > pos /\ k <= pos + m
    BY <1>4
  <2>2. QED
    BY <1>1, <1>3, <1>5, <2>1
<1>7. ASSUME NEW k \in 1..n, f[k] # l
      PROVE  f[k] \in ls \/ Ended(f, k)
  <2>1. k \in 1..o /\ f[k] = s[k]
    BY <1>6, <1>7
  <2>2. CASE s[k] \in ls
    BY <2>1, <2>2
  <2>3. CASE Ended(s, k)
    <3>1. PICK j \in k..o : s[j] = Newline
      BY <2>3 DEF Ended
    <3>2. j \in k..n /\ j \in 1..n /\ j <= o /\ ~ (j > pos /\ j <= pos + m)
      <4>1. ~ (k > pos /\ k <= pos + m)
        BY <1>5, <1>7
      <4>2. QED
        BY <1>4, <2>1, <3>1, <4>1
    <3>3. f[j] = s[j]
      BY <1>1, <1>3, <3>2
    <3>4. QED
      BY <3>1, <3>2, <3>3 DEF Ended
  <2>4. QED
    BY <2>1, <2>2, <2>3 DEF RestOf
<1>8. RestOf(f, ls \cup {l})
  BY <1>7 DEF RestOf
<1>9. ASSUME pos = Len(s) PROVE Len(f) = pos + m /\ TextEnds(f, l)
  <2>1. n = pos + m
    BY <1>4, <1>9
  <2>2. n - m + 1 = pos + 1 /\ m <= n
    BY <2>1
  <2>3. ASSUME NEW k \in (pos + 1)..n PROVE f[k] = l
    <3>1. k \in 1..n /\ k > pos /\ k <= pos + m
      BY <2>1
    <3>2. QED
      BY <1>5, <3>1
  <2>4. TextEnds(f, l)
    BY <2>2, <2>3 DEF TextEnds
  <2>5. QED
    BY <2>1, <2>4
<1>10. ASSUME \A k \in 1..o : s[k] # l, NEW k \in 1..n, f[k] = l
       PROVE  k <= pos + m
  <2>1. k <= o => f[k] # s[k]
    BY <1>10
  <2>2. k > o => k <= pos + m
    BY <1>4
  <2>3. QED
    BY <1>1, <1>3, <1>10, <2>1, <2>2
<1>11. ASSUME \A k \in 1..o : s[k] # l, pos = o PROVE NotBefore(f, l)
  <2>1. n = o + m
    BY <1>4, <1>11
  <2>2. ASSUME NEW k \in 1..(n - m) PROVE f[k] # l
    <3>1. k \in 1..o /\ k \in 1..n /\ ~ (k > pos)
      BY <1>11, <2>1
    <3>2. f[k] = s[k]
      BY <1>3, <3>1
    <3>3. QED
      BY <1>11, <3>1, <3>2
  <2>3. QED
    BY <2>2 DEF NotBefore
<1>12. QED
  BY <1>6, <1>8, <1>9, <1>10, <1>11 DEF TextPut

\* The lines' units in f are where they are in s.
NoNewText(f, s) == \A k \in 1..Len(f) : f[k] \in Line => k <= Len(s) /\ f[k] = s[k]

AllBefore(s, l, pos) == \A k \in 1..Len(s) : s[k] = l => k <= pos

\* A newline ends everything before it.
LEMMA NewlineWritten ==
  ASSUME NEW s \in Seq(0..Nul), NEW pos \in Nat, NEW l \in Line, NEW ls,
         RestOf(s, ls), AllBefore(s, l, pos),
         NEW u, IsNewline(u), NEW f, f = WriteAt(s, pos, u)
  PROVE  RestOf(f, ls \ {l}) /\ NoNewText(f, s)
<1>1. u \in Seq(0..Nul) /\ Len(u) = 1 /\ u[1] = Newline
  BY NewlineUnit
<1> Written(f, s, pos, u)
  BY <1>1, WrittenAt
<1>2. /\ f \in Seq(0..Nul)
      /\ Len(s) <= Len(f) /\ pos + Len(u) <= Len(f)
      /\ Len(f) = Len(s) \/ Len(f) = pos + Len(u)
  BY DEF Written
<1>3. /\ \A k \in 1..Len(u) : f[pos + k] = u[k]
      /\ \A k \in 1..Len(f) :
             \/ k > pos /\ k <= pos + Len(u)
             \/ k <= Len(s) /\ f[k] = s[k]
             \/ k > Len(s) /\ f[k] = Nul
  BY DEF Written
<1> PICK n \in Nat, o \in Nat : n = Len(f) /\ o = Len(s)
  BY <1>2, Lengths
<1>4. o <= n /\ pos + 1 <= n /\ (n = o \/ n = pos + 1)
  BY <1>1, <1>2
<1>5. f[pos + 1] = Newline
  BY <1>1, <1>3
<1>6. ASSUME NEW k \in 1..n, k > pos + 1 PROVE k <= o /\ f[k] = s[k]
  <2>1. k <= o /\ ~ (k <= pos + 1)
    BY <1>4, <1>6
  <2>2. QED
    BY <1>1, <1>3, <2>1
<1>7. ASSUME NEW k \in 1..n
      PROVE  f[k] \in ls \ {l} \/ Ended(f, k)
  <2>1. CASE k <= pos + 1
    <3>1. pos + 1 \in k..n
      BY <1>4, <2>1
    <3>2. QED
      BY <1>5, <3>1 DEF Ended
  <2>2. CASE k > pos + 1
    <3>1. k \in 1..o /\ f[k] = s[k] /\ ~ (k <= pos)
      BY <1>6, <2>2
    <3>2. s[k] # l
      BY <3>1 DEF AllBefore
    <3>3. CASE s[k] \in ls
      BY <3>1, <3>2, <3>3
    <3>4. CASE Ended(s, k)
      <4>1. PICK j \in k..o : s[j] = Newline
        BY <3>4 DEF Ended
      <4>2. j \in k..n /\ j \in 1..n /\ j > pos + 1
        BY <1>4, <2>2, <4>1
      <4>3. f[j] = s[j]
        BY <1>6, <4>2
      <4>4. QED
        BY <4>1, <4>2, <4>3 DEF Ended
    <3>5. QED
      BY <3>1, <3>3, <3>4 DEF RestOf
  <2>3. QED
    BY <2>1, <2>2
<1>8. RestOf(f, ls \ {l})
  BY <1>7 DEF RestOf
<1>9. ASSUME NEW k \in 1..n, f[k] \in Line
      PROVE  k <= o /\ f[k] = s[k]
  <2>1. f[k] # Newline /\ f[k] # Nul
    BY <1>9, LineFacts
  <2>2. k > pos /\ k <= pos + 1 => k = pos + 1
    OBVIOUS
  <2>3. QED
    BY <1>1, <1>3, <1>5, <2>1, <2>2
<1>10. QED
  BY <1>8, <1>9 DEF NoNewText

\* The newline at the end of a file makes a line of what is waiting there.
LEMMA LineEnded ==
  ASSUME NEW s \in Seq(0..Nul), NEW l \in Line, NEW dead,
         RestOf(s, dead \cup {l}), TextEnds(s, l), NotBefore(s, l),
         NEW u, IsNewline(u), NEW f, f = WriteAt(s, Len(s), u)
  PROVE  EndsAt(f, l, Len(s) + 1, dead) /\ Has(f, l, dead)
<1>1. u \in Seq(0..Nul) /\ Len(u) = 1 /\ u[1] = Newline
  BY NewlineUnit
<1> PICK o \in Nat : o = Len(s)
  BY Lengths
<1> PICK m \in Nat : m = LineUnits[l]
  BY LineFacts
<1> Written(f, s, o, u)
  BY <1>1, WrittenAt
<1>2. /\ f \in Seq(0..Nul) /\ o + Len(u) <= Len(f)
      /\ \A k \in 1..Len(u) : f[o + k] = u[k]
  BY DEF Written
<1>3. \A k \in 1..o : f[k] = s[k]
  BY <1>1, AppendGrows DEF Grows
<1>4. o + 1 \in DOMAIN f /\ f[o + 1] = Newline
  <2>1. Len(f) \in Nat /\ o + 1 <= Len(f)
    BY <1>1, <1>2, Lengths
  <2>2. o + 1 \in 1..Len(f)
    BY <2>1
  <2>3. QED
    BY <1>1, <1>2, <2>2, Lengths
<1>5. o + 1 > m /\ \A k \in (o + 1 - m)..o : f[k] = l
  <2>1. m <= o /\ \A k \in (o - m + 1)..o : s[k] = l
    BY DEF TextEnds
  <2>2. \A k \in (o + 1 - m)..o : k \in (o - m + 1)..o /\ k \in 1..o
    BY <2>1
  <2>3. ASSUME NEW k \in (o + 1 - m)..o PROVE f[k] = l
    <3>1. f[k] = s[k] /\ k \in (o - m + 1)..o
      BY <1>3, <2>2
    <3>2. QED
      BY <2>1, <3>1
  <2>4. o + 1 > m
    BY <2>1
  <2>5. QED
    BY <2>3, <2>4
<1>6. ASSUME NEW k \in 1..(o - m)
      PROVE  f[k] \in dead \/ \E j \in k..o : f[j] = Newline
  <2>0. k \in 1..o /\ s[k] # l
    BY DEF NotBefore
  <2>1. CASE s[k] \in dead \cup {l}
    BY <1>3, <2>0, <2>1
  <2>2. CASE Ended(s, k)
    <3>1. PICK j \in k..o : s[j] = Newline
      BY <2>2 DEF Ended
    <3>2. j \in 1..o
      BY <3>1
    <3>3. QED
      BY <1>3, <3>1, <3>2
  <2>3. QED
    BY <2>0, <2>1, <2>2 DEF RestOf
<1>7. EndsAt(f, l, o + 1, dead)
  <2>1. o + 1 - 1 = o /\ o + 1 - 1 - m = o - m
    OBVIOUS
  <2>2. QED
    BY <1>4, <1>5, <1>6, <2>1 DEF EndsAt
<1>8. QED
  BY <1>4, <1>7 DEF Has

LEMMA RestMono ==
  ASSUME NEW s, NEW ls, NEW more, RestOf(s, ls), ls \subseteq more
  PROVE  RestOf(s, more)
  BY DEF RestOf

LEMMA RestWithout ==
  ASSUME NEW s, NEW ls, NEW l, RestOf(s, ls), \A k \in 1..Len(s) : s[k] # l
  PROVE  RestOf(s, ls \ {l})
  BY DEF RestOf

(***************************************************************************)
(* The invariant behind StoredLinesStay.                                   *)
(***************************************************************************)

\* A writer that has found no file, and will put a new one in place.
Creating(r) ==
    r.at \in {"create", "rename"} \/ (r.at \in {"text", "newline"} /\ r.fresh)

\* It does so when there is no line to be kept.
CreateInv == \A p \in Writer : Creating(w[p]) => Good = {}

\* The lines whose newline is still to come.
Open == {w[p].line : p \in {q \in Writer : w[q].at = "newline"}}
RestInv == \A i \in Line : RestOf(data[i], killed \cup Open)

\* A text without its newline is in its writer's file only, and before the newline's place.
InPlace(r) ==
    /\ r.at \in Opening \cup {"text"} => r.pos = 0
    /\ r.at = "newline" =>
           \A i \in Line : \A k \in 1..Len(data[i]) :
               data[i][k] = r.line => i = r.ino /\ (r.fresh => k <= r.pos)
PlaceInv == \A p \in Writer : InPlace(w[p])

\* A write that nobody has met goes on at the end of the file it is about.
Continues(r) ==
    /\ r.at \in {"text", "newline"} =>
           /\ r.ino = IF r.fresh THEN tmp ELSE path
           /\ r.fresh => r.pos = Len(data[r.ino])
    /\ r.at = "newline" => TextEnds(data[r.ino], r.line) /\ NotBefore(data[r.ino], r.line)
    /\ r.at = "rename" => tmp # None /\ Has(data[tmp], r.line, killed)
ContinuesInv == \A p \in Writer : Undisturbed(p) => Continues(w[p])

LinesInv ==
    /\ stored \subseteq Line
    /\ \A l \in Good : path # None /\ Has(data[path], l, killed)
StayInv == LinesInv /\ CreateInv /\ RestInv /\ PlaceInv /\ ContinuesInv

LEMMA InitStay ==
  ASSUME Init
  PROVE  StayInv
<1>1. \A p \in Writer : w[p].at = "idle"
  BY DEF Init, Idle
<1>2. LinesInv /\ CreateInv
  BY <1>1 DEF Init, LinesInv, Good, CreateInv, Creating
<1>3. RestInv
  <2>1. \A i \in Line : 1..Len(data[i]) = {}
    BY DEF Init
  <2>2. QED
    BY <2>1 DEF RestInv, RestOf
<1>4. PlaceInv /\ ContinuesInv
  BY <1>1 DEF PlaceInv, InPlace, Opening, ContinuesInv, Undisturbed
<1>5. QED
  BY <1>2, <1>3, <1>4 DEF StayInv

\* A line stays where it is as long as its file only grows.
LEMMA LinesStep ==
  ASSUME RetentionInv, RetentionInv', LinesInv, UNCHANGED stored,
         purged \subseteq purged', pruned \subseteq pruned', overlapped \subseteq overlapped',
         killed \subseteq killed',
         \/ Good' = {}
         \/ path' = path /\ (path \in Line => Grows(data[path], data'[path]))
  PROVE  LinesInv' /\ Good' \subseteq Good
<1>1. Good' \subseteq Good
  BY DEF Good
<1>2. ASSUME NEW l \in Good'
      PROVE  path' # None /\ Has(data[path], l, killed)'
  <2>1. l \in Line /\ path # None /\ Has(data[path], l, killed)
    BY <1>1 DEF LinesInv, Good
  <2>2. path \in Line /\ path' = path
    BY <2>1 DEF RetentionInv, TypeInv, Inode
  <2>3. data[path] \in Seq(0..Nul) /\ data'[path] \in Seq(0..Nul)
    BY <2>2 DEF RetentionInv, TypeInv
  <2>4. Has(data'[path], l, killed')
    BY <2>1, <2>2, <2>3, HasKept
  <2>5. QED
    BY <2>1, <2>2, <2>4 DEF Has
<1>3. LinesInv'
  <2>1. stored' \subseteq Line
    BY DEF LinesInv
  <2>2. QED
    BY <1>2, <2>1 DEF LinesInv, Good, Has
<1>4. QED
  BY <1>1, <1>3

LEMMA CreateStep ==
  ASSUME CreateInv, NEW p \in Writer, \A q \in Writer \ {p} : w'[q] = w[q],
         Good' \subseteq Good, Creating(w'[p]) => Good = {}
  PROVE  CreateInv'
<1> SUFFICES ASSUME NEW q \in Writer, Creating(w'[q])
             PROVE  Good = {}
  BY DEF CreateInv, Creating
<1>1. QED
  BY DEF CreateInv

\* Who moves while another writer is at work has disturbed it.
LEMMA ContinuesStep ==
  ASSUME RefusalInv, NEW p \in Writer, \A q \in Writer \ {p} : w'[q] = w[q],
         w[p].at # "idle", pruned \subseteq pruned', overlapped \subseteq overlapped',
         Undisturbed(p)' => Continues(w[p])'
  PROVE  ContinuesInv'
<1> SUFFICES ASSUME NEW q \in Writer, q # p, Undisturbed(q)'
             PROVE  FALSE
  BY DEF ContinuesInv
<1>1. Undisturbed(q)
  BY DEF Undisturbed
<1>2. QED
  BY <1>1 DEF RefusalInv, UndisturbedInv

\* A writer moves and no file changes.
LEMMA FilesStep ==
  ASSUME RestInv, PlaceInv, NEW p \in Writer, \A q \in Writer \ {p} : w'[q] = w[q],
         UNCHANGED data, killed \subseteq killed',
         w[p].at = "newline" => w[p].line \in killed',
         w'[p].at # "newline",
         w'[p].at \in Opening \cup {"text"} => w'[p].pos = 0
  PROVE  RestInv' /\ PlaceInv'
<1>1. killed \cup Open \subseteq killed' \cup Open'
  BY DEF Open
<1>2. RestInv'
  BY <1>1, RestMono DEF RestInv
<1>3. ASSUME NEW q \in Writer PROVE InPlace(w[q])'
  BY DEF PlaceInv, InPlace
<1>4. QED
  BY <1>2, <1>3 DEF PlaceInv

LEMMA MoveStays ==
  ASSUME RetentionInv, RetentionInv', RefusalInv, StayInv,
         NEW p \in Writer, NEW r \in Progress, w' = [w EXCEPT ![p] = r], w[p].at # "idle",
         UNCHANGED <<data, stored, purged, pruned, overlapped>>, killed \subseteq killed',
         path' = path \/ Good = {}, Creating(r) => Good = {},
         r.at \in Opening \cup {"idle", "text"},
         r.at \in Opening \cup {"text"} => r.pos = 0,
         w[p].at = "newline" => w[p].line \in killed',
         r.at = "text" => r.ino = path' /\ ~ r.fresh
  PROVE  StayInv'
<1>1. w'[p] = r /\ \A q \in Writer \ {p} : w'[q] = w[q]
  BY DEF RetentionInv, TypeInv
<1>2. r.at # "newline" /\ r.at # "rename"
  BY DEF Opening
<1>3. LinesInv' /\ Good' \subseteq Good
  <2>1. Good' \subseteq Good /\ LinesInv
    BY DEF Good, StayInv
  <2>2. path \in Line => Grows(data[path], data'[path])
    BY DEF Grows, RetentionInv, TypeInv
  <2>3. QED
    BY <2>1, <2>2, LinesStep
<1>4. CreateInv'
  BY <1>1, <1>3, CreateStep DEF StayInv
<1>5. RestInv' /\ PlaceInv'
  BY <1>1, <1>2, FilesStep DEF StayInv
<1>6. Continues(w[p])'
  BY <1>1, <1>2 DEF Continues
<1>7. ContinuesInv'
  BY <1>1, <1>6, ContinuesStep
<1>8. QED
  BY <1>3, <1>4, <1>5, <1>7 DEF StayInv

\* Nobody writes; retention may remove something.
LEMMA RemovalStays ==
  ASSUME RetentionInv, RetentionInv', StayInv,
         UNCHANGED <<w, data, killed, stored, overlapped>>, purged \subseteq purged',
         path' = path \/ Good' = {},
         \/ UNCHANGED <<path, tmp, pruned>>
         \/ pruned' = pruned \cup InFlight
  PROVE  StayInv'
<1>1. LinesInv' /\ Good' \subseteq Good
  <2>1. path \in Line => Grows(data[path], data'[path])
    BY DEF Grows, RetentionInv, TypeInv
  <2>2. QED
    BY <2>1, LinesStep DEF StayInv
<1>2. CreateInv'
  BY <1>1 DEF StayInv, CreateInv, Creating
<1>3. RestInv' /\ PlaceInv'
  BY DEF StayInv, RestInv, PlaceInv, InPlace, Open
<1>4. ContinuesInv'
  <2>1. CASE UNCHANGED <<path, tmp, pruned>>
    BY <2>1 DEF StayInv, ContinuesInv, Continues, Undisturbed
  <2>2. CASE pruned' = pruned \cup InFlight
    <3>1. \A p \in Writer : w[p].at # "idle" => w[p].line \in InFlight
      BY DEF RetentionInv, WriterInv, InFlight
    <3>2. \A p \in Writer : ~ Undisturbed(p)'
      BY <2>2, <3>1 DEF Undisturbed
    <3>3. QED
      BY <3>2 DEF ContinuesInv
  <2>3. QED
    BY <2>1, <2>2
<1>5. QED
  BY <1>1, <1>2, <1>3, <1>4 DEF StayInv

(***************************************************************************)
(* Each step keeps it.                                                     *)
(***************************************************************************)

LEMMA BystandersStay ==
  ASSUME RetentionInv, RetentionInv', StayInv,
         \/ Tick \/ Seed \/ Discover \/ Poll \/ UNCHANGED vars
         \/ \E days \in Days : Collect(days)
  PROVE  StayInv'
<1>1. UNCHANGED <<w, data, killed, stored, overlapped, purged, path, tmp, pruned>>
  BY DEF Tick, Seed, Discover, Poll, Collect, vars, store, blame
<1>2. QED
  BY <1>1, RemovalStays

LEMMA DeleteListedStays ==
  ASSUME RetentionInv, RetentionInv', StayInv, DeleteListed
  PROVE  StayInv'
<1>1. UNCHANGED <<w, data, killed, stored, overlapped>>
  BY DEF DeleteListed
<1>2. CASE ret.list = {}
  <2>1. UNCHANGED <<path, tmp, pruned, purged>>
    BY <1>2 DEF DeleteListed
  <2>2. QED
    BY <1>1, <2>1, RemovalStays
<1>3. CASE ret.list # {}
  <2>1. PICK n \in ret.list :
             LET ino == IF n = "path" THEN path ELSE tmp
                 gone == IF ino = None THEN {} ELSE Holds(ino)
             IN /\ path' = IF n = "path" THEN None ELSE path
                /\ pruned' = pruned \cup InFlight /\ purged' = purged \cup gone
    BY <1>3 DEF DeleteListed, Holds
  <2>2. purged \subseteq purged'
    BY <2>1
  <2>3. ASSUME n = "path", NEW l \in Good'
        PROVE  FALSE
    <3>1. l \in Good /\ l \notin purged'
      BY <1>1, <2>1, <2>2 DEF Good
    <3>2. l \in Line /\ path # None /\ Has(data[path], l, killed)
      BY <3>1 DEF StayInv, LinesInv, Good
    <3>3. PICK e \in DOMAIN data[path] : EndsAt(data[path], l, e, killed)
      BY <3>2 DEF Has
    <3>4. data[path] \in Seq(0..Nul)
      BY <3>2 DEF RetentionInv, TypeInv, Inode
    <3>5. e - 1 \in DOMAIN data[path] /\ data[path][e - 1] = l
      <4>1. /\ Len(data[path]) \in Nat /\ DOMAIN data[path] = 1..Len(data[path])
            /\ LineUnits[l] \in Nat /\ LineUnits[l] > 0
        BY <3>2, <3>4, Lengths, LineFacts
      <4>2. e > LineUnits[l] /\ e \in Nat /\ e <= Len(data[path])
        BY <3>3, <4>1 DEF EndsAt
      <4>3. e - 1 \in 1..Len(data[path]) /\ e - 1 \in (e - LineUnits[l])..(e - 1)
        BY <4>1, <4>2
      <4>4. QED
        BY <3>3, <4>1, <4>3 DEF EndsAt
    <3>6. l \in Holds(path)
      BY <3>2, <3>5 DEF Holds, ToSet
    <3>7. QED
      BY <2>1, <2>3, <3>1, <3>2, <3>6
  <2>4. path' = path \/ Good' = {}
    BY <2>1, <2>3
  <2>5. QED
    BY <1>1, <2>1, <2>2, <2>4, RemovalStays
<1>4. QED
  BY <1>2, <1>3

LEMMA PruneStays ==
  ASSUME RetentionInv, RetentionInv', StayInv, Prune
  PROVE  StayInv'
<1>1. /\ UNCHANGED <<w, data, killed, stored, overlapped, path, tmp, purged>>
      /\ pruned' = pruned \/ pruned' = pruned \cup InFlight
  BY DEF Prune
<1>2. QED
  BY <1>1, RemovalStays

LEMMA ReceiveStays ==
  ASSUME RetentionInv, RetentionInv', RefusalInv, StayInv, NEW p \in Writer, Receive(p)
  PROVE  StayInv'
<1>1. /\ w[p].at = "idle" /\ w \in [Writer -> Progress]
      /\ w' = [w EXCEPT ![p] = [Idle EXCEPT !.at = "mkdir", !.line = next]]
      /\ overlapped' = IF InFlight = {} THEN overlapped
                       ELSE overlapped \cup InFlight \cup {next}
      /\ UNCHANGED <<path, tmp, data, stored, killed, pruned, purged>>
  BY DEF RetentionInv, TypeInv, Receive, store
<1>2. w'[p].at = "mkdir" /\ w'[p].pos = 0 /\ \A q \in Writer \ {p} : w'[q] = w[q]
  BY <1>1 DEF Idle, None
<1>3. LinesInv' /\ Good' \subseteq Good
  <2>1. path \in Line => Grows(data[path], data'[path])
    BY <1>1 DEF Grows, RetentionInv, TypeInv
  <2>2. QED
    BY <1>1, <2>1, LinesStep DEF StayInv
<1>4. CreateInv'
  <2>1. ~ Creating(w'[p])
    BY <1>2 DEF Creating
  <2>2. QED
    BY <1>2, <1>3, <2>1, CreateStep DEF StayInv
<1>5. RestInv' /\ PlaceInv'
  <2>1. w'[p].at # "newline" /\ w[p].at # "newline"
    BY <1>1, <1>2
  <2>2. QED
    BY <1>1, <1>2, <2>1, FilesStep DEF StayInv
<1>6. ContinuesInv'
  <2> SUFFICES ASSUME NEW q \in Writer, Undisturbed(q)'
               PROVE  Continues(w[q])'
    BY DEF ContinuesInv
  <2>1. CASE q = p
    BY <1>2, <2>1 DEF Continues
  <2>2. CASE q # p
    <3>1. w[q].at # "idle" /\ w[q].line \notin overlapped'
      BY <1>2, <2>2 DEF Undisturbed
    <3>2. w[q].line \in InFlight
      BY <3>1 DEF RetentionInv, WriterInv, InFlight
    <3>3. QED
      BY <1>1, <3>1, <3>2
  <2>3. QED
    BY <2>1, <2>2
<1>7. QED
  BY <1>3, <1>4, <1>5, <1>6 DEF StayInv

LEMMA OpeningStays ==
  ASSUME RetentionInv, RetentionInv', RefusalInv, StayInv, NEW p \in Writer,
         MakeDir(p) \/ Exists(p) \/ OpenFails(p) \/ OpenAppend(p)
  PROVE  StayInv'
<1>1. /\ w \in [Writer -> Progress] /\ w[p] \in Progress /\ WriterInv
      /\ path \in Inode /\ InPlace(w[p])
      /\ w[p].at \in Opening /\ w[p].at # "newline" /\ w[p].at # "idle"
      /\ UNCHANGED <<data, stored, killed, purged, pruned, overlapped>>
  BY DEF RetentionInv, TypeInv, StayInv, PlaceInv, MakeDir, Exists, OpenFails, OpenAppend,
         Opening, store, blame
<1>2. w[p].pos = 0 /\ (path = None => Good = {})
  <2>1. path = None => Good = {}
    BY DEF StayInv, LinesInv
  <2>2. QED
    BY <1>1, <2>1 DEF InPlace
\* p goes on, or gives up.
<1>3. ASSUME NEW at \in {"mkparent", "mkleaf", "exists", "append", "create"}, Step(p, at),
             UNCHANGED path, at = "create" => path = None
      PROVE  StayInv'
  <2> DEFINE r == [w[p] EXCEPT !.at = at]
  <2>1. r \in Progress /\ r.at = at /\ r.pos = 0
    BY <1>1, <1>2 DEF Progress, Stage, Opening
  <2>2. w' = [w EXCEPT ![p] = r]
    BY <1>1, <1>3 DEF Step
  <2> HIDE DEF r
  <2>3. r.at \in Opening /\ r.at \notin {"text", "newline", "rename"}
    BY <2>1 DEF Opening
  <2>4. Creating(r) => Good = {}
    BY <1>2, <1>3, <2>1, <2>3 DEF Creating
  <2>5. QED
    BY <1>1, <1>3, <2>1, <2>2, <2>3, <2>4, MoveStays
<1>4. ASSUME w' = [w EXCEPT ![p] = Idle], UNCHANGED path PROVE StayInv'
  <2>1. ~ Creating(Idle) /\ Idle.at = "idle" /\ Idle.at \notin Opening \cup {"text"}
    BY DEF Creating, Idle, Opening
  <2>2. QED
    BY <1>1, <1>4, <2>1, IdleProgress, MoveStays
<1>5. CASE MakeDir(p)
  <2>1. UNCHANGED path /\ w[p].at \in {"mkdir", "mkparent", "mkleaf"}
    BY <1>5 DEF MakeDir
  <2>2. \/ Step(p, "exists") \/ Step(p, "mkleaf") \/ Step(p, "mkparent")
        \/ w' = [w EXCEPT ![p] = Idle]
    <3>1. depth \in 0..2
      BY DEF RetentionInv, TypeInv
    <3>2. CASE w[p].at = "mkparent"
      BY <1>5, <3>2 DEF MakeDir
    <3>3. CASE w[p].at # "mkparent" /\ depth > 0
      <4>1. depth # 0
        BY <3>1, <3>3
      <4>2. QED
        BY <1>5, <2>1, <3>3, <4>1 DEF MakeDir
    <3>4. CASE w[p].at = "mkdir" /\ depth = 0
      BY <1>5, <3>4 DEF MakeDir
    <3>5. CASE w[p].at = "mkleaf" /\ depth = 0
      BY <1>5, <3>5 DEF MakeDir, Fails
    <3>6. QED
      BY <2>1, <3>1, <3>2, <3>3, <3>4, <3>5
  <2>3. QED
    BY <1>3, <1>4, <2>1, <2>2
<1>6. CASE Exists(p)
  <2>1. UNCHANGED path /\ Step(p, IF path # None THEN "append" ELSE "create")
    BY <1>6 DEF Exists, store
  <2>2. QED
    BY <1>3, <2>1
<1>7. CASE OpenFails(p)
  BY <1>4, <1>7 DEF OpenFails, Fails, store
<1>8. CASE OpenAppend(p)
  <2> DEFINE r == [w[p] EXCEPT !.at = "text", !.ino = path', !.fresh = FALSE]
  <2>1. path' \in Inode
    BY DEF RetentionInv, TypeInv
  <2>2. /\ r \in Progress /\ r.at = "text" /\ r.pos = 0
        /\ r.ino = path' /\ ~ r.fresh
    BY <1>1, <1>2, <2>1 DEF Progress, Stage
  <2>3. w' = [w EXCEPT ![p] = r] /\ (path # None => path' = path)
    BY <1>1, <1>8 DEF OpenAppend, Opened
  <2> HIDE DEF r
  <2>4. ~ Creating(r)
    BY <2>2 DEF Creating
  <2>5. path' = path \/ Good = {}
    BY <1>2, <2>3
  <2>6. QED
    BY <1>1, <2>2, <2>3, <2>4, <2>5, MoveStays
<1>9. QED
  BY <1>5, <1>6, <1>7, <1>8

LEMMA KillStays ==
  ASSUME RetentionInv, RetentionInv', RefusalInv, StayInv, NEW p \in Writer, Kill(p)
  PROVE  StayInv'
<1>1. /\ w' = [w EXCEPT ![p] = Idle] /\ w[p].at # "idle" /\ killed' = killed \cup {w[p].line}
      /\ UNCHANGED <<path, data, stored, purged, pruned, overlapped>>
  BY DEF Kill, store, blame
<1>2. ~ Creating(Idle) /\ Idle.at = "idle" /\ Idle.at \notin Opening \cup {"text"}
  BY DEF Creating, Idle, Opening
<1>3. QED
  BY <1>1, <1>2, IdleProgress, MoveStays

\* The temp file is emptied; there was nothing to be kept.
LEMMA OpenTmpStays ==
  ASSUME RetentionInv, RetentionInv', RefusalInv, StayInv, NEW p \in Writer, OpenTmp(p)
  PROVE  StayInv'
<1>1. /\ w \in [Writer -> Progress] /\ w[p] \in Progress /\ WriterInv /\ tmp \in Inode
      /\ w[p].at = "create" /\ InPlace(w[p]) /\ data \in [Line -> Seq(0..Nul)]
  BY DEF RetentionInv, TypeInv, StayInv, PlaceInv, OpenTmp
<1> PICK ino : ino = IF tmp = None THEN w[p].line ELSE tmp
  OBVIOUS
<1>2. /\ Opened(p, ino, TRUE) /\ tmp' = ino /\ data' = [data EXCEPT ![ino] = << >>]
      /\ UNCHANGED <<path, stored, killed, purged, pruned, overlapped>>
  BY DEF OpenTmp, blame
<1>3. ino \in Line
  BY <1>1 DEF WriterInv, Progress, Inode
<1> DEFINE r == [w[p] EXCEPT !.at = "text", !.ino = ino, !.fresh = TRUE]
<1>4. /\ r \in Progress /\ r.at = "text" /\ r.pos = 0 /\ r.ino = ino /\ r.fresh
      /\ w' = [w EXCEPT ![p] = r]
  BY <1>1, <1>2, <1>3 DEF Progress, Stage, Inode, InPlace, Opening, Opened
<1> HIDE DEF r
<1>5. w'[p] = r /\ \A q \in Writer \ {p} : w'[q] = w[q]
  BY <1>1, <1>4
<1>6. Good = {} /\ Good' = {}
  <2>1. Good = {}
    BY <1>1 DEF StayInv, CreateInv, Creating
  <2>2. QED
    BY <1>2, <2>1 DEF Good
<1>7. LinesInv' /\ Good' \subseteq Good
  BY <1>2, <1>6, LinesStep DEF StayInv
<1>8. CreateInv'
  BY <1>5, <1>6, <1>7, CreateStep DEF StayInv
<1>9. /\ data'[ino] = << >> /\ 1..Len(data'[ino]) = {} /\ Len(data'[ino]) = 0
      /\ \A i \in Line \ {ino} : data'[i] = data[i]
  BY <1>1, <1>2, <1>3
<1>10. RestInv'
  <2>1. Open \subseteq Open'
    BY <1>1, <1>5 DEF Open
  <2>2. ASSUME NEW i \in Line \ {ino} PROVE RestOf(data'[i], killed' \cup Open')
    <3>1. data'[i] = data[i] /\ killed \cup Open \subseteq killed' \cup Open'
      BY <1>2, <1>9, <2>1
    <3>2. RestOf(data[i], killed \cup Open)
      BY DEF StayInv, RestInv
    <3>3. RestOf(data[i], killed' \cup Open')
      BY <3>1, <3>2, RestMono
    <3>4. QED
      BY <3>1, <3>3 DEF RestOf, Ended
  <2>3. RestOf(data'[ino], killed' \cup Open')
    BY <1>9 DEF RestOf
  <2>4. QED
    BY <2>2, <2>3 DEF RestInv, RestOf, Ended
<1>11. PlaceInv'
  <2> SUFFICES ASSUME NEW q \in Writer PROVE InPlace(w[q])'
    BY DEF PlaceInv
  <2>1. CASE q = p
    BY <1>4, <1>5, <2>1 DEF InPlace
  <2>2. CASE q # p
    <3>1. InPlace(w[q]) /\ w'[q] = w[q]
      BY <1>5, <2>2 DEF StayInv, PlaceInv
    <3>2. QED
      BY <1>9, <3>1 DEF InPlace
  <2>3. QED
    BY <2>1, <2>2
<1>12. ContinuesInv'
  <2>1. Continues(w[p])'
    BY <1>2, <1>4, <1>5, <1>9 DEF Continues
  <2>2. QED
    BY <1>1, <1>2, <1>5, <2>1, ContinuesStep
<1>13. QED
  BY <1>7, <1>8, <1>10, <1>11, <1>12 DEF StayInv

Puts(ino, pos, units) ==
    /\ data'[ino] = WriteAt(data[ino], pos, units)
    /\ \A i \in Line \ {ino} : data'[i] = data[i]
AllGrow == \A i \in Line : Grows(data[i], data'[i])

\* A write changes one file; with O_APPEND it only adds to it.
LEMMA WriteStep ==
  ASSUME RetentionInv, NEW p \in Writer, NEW ino \in Line, ino = w[p].ino,
         NEW units \in Seq(0..Nul), Write(p, units),
         NEW pos, pos = IF w[p].fresh THEN w[p].pos ELSE Len(data[ino])
  PROVE  pos \in Nat /\ Puts(ino, pos, units) /\ (~ w[p].fresh => AllGrow)
<1>1. data \in [Line -> Seq(0..Nul)] /\ w[p] \in Progress
  BY DEF RetentionInv, TypeInv
<1>2. pos \in Nat
  BY <1>1, Lengths DEF Progress
<1>3. data' = [data EXCEPT ![ino] = WriteAt(data[ino], pos, units)]
  BY DEF Write
<1>4. data'[ino] = WriteAt(data[ino], pos, units) /\ \A i \in Line \ {ino} : data'[i] = data[i]
  BY <1>1, <1>3
<1>5. ASSUME ~ w[p].fresh, NEW i \in Line PROVE Grows(data[i], data'[i])
  <2>1. CASE i = ino
    BY <1>1, <1>4, <1>5, <2>1, AppendGrows
  <2>2. CASE i # ino
    <3>1. data'[i] = data[i] /\ Len(data[i]) \in Nat
      BY <1>1, <1>4, <2>2, Lengths
    <3>2. QED
      BY <3>1 DEF Grows
  <2>3. QED
    BY <2>1, <2>2
<1>6. QED
  BY <1>2, <1>4, <1>5 DEF Puts, AllGrow

LEMMA WriteTextStays ==
  ASSUME RetentionInv, RetentionInv', RefusalInv, StayInv, NEW p \in Writer, WriteText(p)
  PROVE  StayInv'
<1> PICK l : l = w[p].line
  OBVIOUS
<1> PICK ino : ino = w[p].ino
  OBVIOUS
<1>1. /\ w \in [Writer -> Progress] /\ w[p] \in Progress /\ WriterInv
      /\ w[p].at = "text" /\ InPlace(w[p]) /\ data \in [Line -> Seq(0..Nul)]
      /\ data' \in [Line -> Seq(0..Nul)] /\ path \in Inode
  BY DEF RetentionInv, TypeInv, StayInv, PlaceInv, WriteText
<1>2. /\ Write(p, Text(l)) /\ w' = [w EXCEPT ![p].at = "newline", ![p].pos = @ + LineUnits[l]]
      /\ UNCHANGED <<path, tmp, stored, killed, purged, pruned, overlapped>>
  BY DEF WriteText, blame
<1>3. l \in Line /\ ino \in Line /\ w[p].pos = 0 /\ LineUnits[l] \in Nat
  BY <1>1, LineFacts DEF WriterInv, Progress, Inode, InPlace
<1> DEFINE r == [w[p] EXCEPT !.at = "newline", !.pos = w[p].pos + LineUnits[l]]
<1>4. /\ r.at = "newline" /\ r.line = l /\ r.ino = ino /\ r.fresh = w[p].fresh
      /\ r.pos = LineUnits[l] /\ w' = [w EXCEPT ![p] = r]
  <2>1. w' = [w EXCEPT ![p] = r]
    BY <1>1, <1>2
  <2>2. /\ r.at = "newline" /\ r.line = l /\ r.ino = ino /\ r.fresh = w[p].fresh
        /\ r.pos = w[p].pos + LineUnits[l]
    BY <1>1 DEF Progress
  <2>3. w[p].pos + LineUnits[l] = LineUnits[l]
    BY <1>3
  <2>4. QED
    BY <2>1, <2>2, <2>3
<1> HIDE DEF r
<1>5. w'[p] = r /\ \A q \in Writer \ {p} : w'[q] = w[q]
  BY <1>1, <1>4
<1> PICK s \in Seq(0..Nul), f \in Seq(0..Nul) : s = data[ino] /\ f = data'[ino]
  BY <1>1, <1>3
<1> PICK pos : pos = IF w[p].fresh THEN w[p].pos ELSE Len(data[ino])
  OBVIOUS
<1>6. /\ pos \in Nat /\ f = WriteAt(s, pos, Text(l))
      /\ \A i \in Line \ {ino} : data'[i] = data[i]
      /\ ~ w[p].fresh => \A i \in Line : Grows(data[i], data'[i])
  <2>1. Text(l) \in Seq(0..Nul) /\ Write(p, Text(l))
    BY <1>2, <1>3, TextType
  <2>2. pos \in Nat /\ Puts(ino, pos, Text(l)) /\ (~ w[p].fresh => AllGrow)
    BY <1>3, <2>1, WriteStep
  <2>3. QED
    BY <2>2 DEF Puts, AllGrow
<1>7. pos = 0 \/ pos = Len(s)
  BY <1>3
<1> PICK ls : ls = killed \cup Open
  OBVIOUS
<1>8. RestOf(f, ls \cup {l}) /\ TextPut(f, s, pos, l)
  <2>1. RestOf(s, ls)
    BY <1>3 DEF StayInv, RestInv
  <2>2. QED
    BY <1>3, <1>6, <1>7, <2>1, TextWritten
<1>9. /\ RestOf(f, (killed \cup Open) \cup {l})
      /\ pos = Len(s) => Len(f) = pos + LineUnits[l] /\ TextEnds(f, l)
      /\ pos = Len(s) /\ (\A k \in 1..Len(s) : s[k] # l) => NotBefore(f, l)
      /\ \A k \in 1..Len(f) : f[k] = l \/ (k <= Len(s) /\ f[k] = s[k])
      /\ (\A k \in 1..Len(s) : s[k] # l) =>
             \A k \in 1..Len(f) : f[k] = l => k <= pos + LineUnits[l]
  BY <1>8 DEF TextPut
<1>10. LinesInv' /\ Good' \subseteq Good
  <2>1. w[p].fresh => Good = {}
    BY <1>1 DEF StayInv, CreateInv, Creating
  <2>2. Good' \subseteq Good
    BY <1>2 DEF Good
  <2>3. QED
    BY <1>2, <1>6, <2>1, <2>2, LinesStep DEF StayInv
<1>11. CreateInv'
  <2>1. Creating(w'[p]) => Good = {}
    BY <1>1, <1>4, <1>5 DEF StayInv, CreateInv, Creating
  <2>2. QED
    BY <1>5, <1>10, <2>1, CreateStep DEF StayInv
<1>12. RestInv'
  <2>1. Open' = Open \cup {l}
    BY <1>1, <1>4, <1>5 DEF Open
  <2>2. ASSUME NEW i \in Line \ {ino} PROVE RestOf(data'[i], killed' \cup Open')
    <3>1. data'[i] = data[i] /\ killed \cup Open \subseteq killed' \cup Open'
      BY <1>2, <1>6, <2>1
    <3>2. RestOf(data[i], killed \cup Open)
      BY DEF StayInv, RestInv
    <3>3. RestOf(data[i], killed' \cup Open')
      BY <3>1, <3>2, RestMono
    <3>4. QED
      BY <3>1, <3>3 DEF RestOf, Ended
  <2>3. RestOf(data'[ino], killed' \cup Open')
    BY <1>2, <1>9, <2>1, RestMono
  <2>4. QED
    BY <2>2, <2>3 DEF RestInv, RestOf, Ended
<1>13. \A i \in Line : \A k \in 1..Len(data[i]) : data[i][k] # l
  <2> SUFFICES ASSUME NEW i \in Line, NEW k \in 1..Len(data[i]), data[i][k] = l
               PROVE  FALSE
    OBVIOUS
  <2>1. k \in DOMAIN data[i]
    BY <1>1, Lengths
  <2>2. l \in Holds(i)
    BY <1>3, <2>1 DEF Holds, ToSet
  <2>3. Unwritten(l)
    BY <1>1 DEF Unwritten
  <2>4. QED
    BY <2>2, <2>3 DEF RetentionInv, TimeInv
<1>14. PlaceInv'
  <2> SUFFICES ASSUME NEW q \in Writer PROVE InPlace(w[q])'
    BY DEF PlaceInv
  <2>1. CASE q = p
    <3>1. ASSUME NEW i \in Line, NEW k \in 1..Len(data'[i]), data'[i][k] = l
          PROVE  i = ino /\ (w[p].fresh => k <= LineUnits[l])
      <4>1. i = ino
        BY <1>6, <1>13, <3>1
      <4>2. k <= pos + LineUnits[l]
        BY <1>3, <1>9, <1>13, <3>1, <4>1
      <4>3. QED
        BY <1>3, <4>1, <4>2
    <3>2. QED
      BY <1>4, <1>5, <2>1, <3>1 DEF InPlace, Opening
  <2>2. CASE q # p
    <3>1. InPlace(w[q]) /\ w'[q] = w[q]
      BY <1>5, <2>2 DEF StayInv, PlaceInv
    <3>2. w[q].at = "newline" => w[q].line # l
      BY <1>1, <1>3, <2>2 DEF WriterInv
    <3>3. ASSUME w[q].at = "newline", NEW i \in Line, NEW k \in 1..Len(data'[i]),
                 data'[i][k] = w[q].line
          PROVE  k \in 1..Len(data[i]) /\ data[i][k] = w[q].line
      <4>1. CASE i = ino
        <5>1. k \in 1..Len(f) /\ f[k] # l
          BY <3>2, <3>3, <4>1
        <5>2. k <= Len(s) /\ f[k] = s[k]
          BY <1>9, <5>1
        <5>3. k \in 1..Len(s)
          BY <5>1, <5>2, Lengths
        <5>4. QED
          BY <3>3, <4>1, <5>2, <5>3
      <4>2. CASE i # ino
        BY <1>6, <3>3, <4>2
      <4>3. QED
        BY <4>1, <4>2
    <3>4. QED
      BY <3>1, <3>3 DEF InPlace
  <2>3. QED
    BY <2>1, <2>2
<1>15. ContinuesInv'
  <2>1. ASSUME Undisturbed(p)' PROVE Continues(w[p])'
    <3>1. Undisturbed(p)
      BY <1>1, <1>2, <1>4, <1>5, <2>1 DEF Undisturbed
    <3>2. ino = (IF w[p].fresh THEN tmp ELSE path) /\ (w[p].fresh => w[p].pos = Len(s))
      BY <1>1, <3>1 DEF StayInv, ContinuesInv, Continues
    <3>3. pos = Len(s)
      BY <3>2
    <3>4. TextEnds(f, l) /\ NotBefore(f, l) /\ (w[p].fresh => Len(f) = LineUnits[l])
      BY <1>3, <1>9, <1>13, <3>3
    <3>5. QED
      BY <1>2, <1>4, <1>5, <3>2, <3>4 DEF Continues, TextEnds, NotBefore
  <2>2. QED
    BY <1>1, <1>2, <1>5, <2>1, ContinuesStep
<1>16. QED
  BY <1>10, <1>11, <1>12, <1>14, <1>15 DEF StayInv

\* A line that a write reports as stored now; nobody else was at work.
LEMMA StoredStep ==
  ASSUME RetentionInv, RetentionInv', RefusalInv, StayInv, NEW p \in Writer, w[p].at # "idle",
         w' = [w EXCEPT ![p] = Idle], stored' = stored \cup {w[p].line},
         UNCHANGED <<killed, purged, pruned, overlapped>>,
         \/ Good = {}
         \/ path' = path /\ (path \in Line => Grows(data[path], data'[path])),
         Undisturbed(p) => path' # None /\ Has(data'[path'], w[p].line, killed)
  PROVE  LinesInv' /\ CreateInv' /\ ContinuesInv'
<1> PICK l : l = w[p].line
  OBVIOUS
<1>1. /\ w \in [Writer -> Progress] /\ w[p] \in Progress /\ l \in Line
      /\ w'[p] = Idle /\ \A q \in Writer \ {p} : w'[q] = w[q]
  BY DEF RetentionInv, TypeInv, WriterInv, Progress, Inode
<1>2. Good' \subseteq Good \cup {l} /\ (l \in Good' => Undisturbed(p))
  BY DEF Good, Undisturbed
<1>3. ASSUME NEW x \in Good'
      PROVE  path' # None /\ Has(data'[path'], x, killed')
  <2>1. CASE x = l
    BY <1>2, <2>1
  <2>2. CASE x # l
    <3>1. x \in Good
      BY <1>2, <2>2
    <3>2. x \in Line /\ path # None /\ path' = path /\ Has(data[path], x, killed)
      BY <3>1 DEF StayInv, LinesInv, Good
    <3>3. path \in Line /\ Grows(data[path], data'[path])
      BY <3>1, <3>2 DEF RetentionInv, TypeInv, Inode
    <3>4. data[path] \in Seq(0..Nul) /\ data'[path] \in Seq(0..Nul)
      BY <3>3 DEF RetentionInv, TypeInv
    <3>5. Has(data'[path], x, killed')
      BY <3>2, <3>3, <3>4, HasKept
    <3>6. QED
      BY <3>2, <3>5
  <2>3. QED
    BY <2>1, <2>2
<1>4. LinesInv'
  <2>1. stored' \subseteq Line
    BY <1>1 DEF StayInv, LinesInv
  <2>2. QED
    BY <1>3, <2>1 DEF LinesInv, Good, Has
<1>5. CreateInv'
  <2> SUFFICES ASSUME NEW q \in Writer, Creating(w'[q]) PROVE Good' = {}
    BY DEF CreateInv, Creating
  <2>1. q # p
    BY <1>1 DEF Creating, Idle
  <2>2. Creating(w[q]) /\ w[q].at # "idle"
    BY <1>1, <2>1 DEF Creating
  <2>3. Good = {}
    BY <2>2 DEF StayInv, CreateInv
  <2>4. ~ Undisturbed(p)
    BY <2>1, <2>2 DEF RefusalInv, UndisturbedInv
  <2>5. QED
    BY <1>2, <2>3, <2>4
<1>6. ContinuesInv'
  <2>1. ~ Undisturbed(p)'
    BY <1>1, IdleProgress DEF Undisturbed
  <2>2. QED
    BY <1>1, <2>1, ContinuesStep
<1>7. QED
  BY <1>4, <1>5, <1>6

LEMMA WriteNewlineStays ==
  ASSUME RetentionInv, RetentionInv', RefusalInv, StayInv, NEW p \in Writer, WriteNewline(p)
  PROVE  StayInv'
<1> PICK l : l = w[p].line
  OBVIOUS
<1> PICK ino : ino = w[p].ino
  OBVIOUS
<1> PICK u : IsNewline(u)
  BY DEF IsNewline
<1>1. /\ w \in [Writer -> Progress] /\ w[p] \in Progress /\ WriterInv
      /\ w[p].at = "newline" /\ InPlace(w[p]) /\ data \in [Line -> Seq(0..Nul)]
      /\ data' \in [Line -> Seq(0..Nul)] /\ path \in Inode
  BY DEF RetentionInv, TypeInv, StayInv, PlaceInv, WriteNewline
<1>2. /\ Write(p, u)
      /\ UNCHANGED <<path, tmp, killed, purged, pruned, overlapped>>
      /\ IF w[p].fresh THEN Step(p, "rename") /\ UNCHANGED stored
         ELSE w' = [w EXCEPT ![p] = Idle] /\ stored' = stored \cup {l}
  BY DEF WriteNewline, blame, IsNewline
<1>3. l \in Line /\ ino \in Line
  BY <1>1 DEF WriterInv, Progress, Inode
<1>4. w'[p].at \in {"rename", "idle"} /\ \A q \in Writer \ {p} : w'[q] = w[q]
  BY <1>1, <1>2 DEF Step, Progress, Idle
<1> PICK s \in Seq(0..Nul), f \in Seq(0..Nul) : s = data[ino] /\ f = data'[ino]
  BY <1>1, <1>3
<1> PICK pos : pos = IF w[p].fresh THEN w[p].pos ELSE Len(data[ino])
  OBVIOUS
<1>5. /\ pos \in Nat /\ f = WriteAt(s, pos, u)
      /\ \A i \in Line \ {ino} : data'[i] = data[i]
      /\ ~ w[p].fresh => \A i \in Line : Grows(data[i], data'[i])
  <2>1. u \in Seq(0..Nul) /\ Write(p, u)
    BY <1>2, NewlineUnit
  <2>2. pos \in Nat /\ Puts(ino, pos, u) /\ (~ w[p].fresh => AllGrow)
    BY <1>3, <2>1, WriteStep
  <2>3. QED
    BY <2>2 DEF Puts, AllGrow
<1> PICK ls : ls = killed \cup Open
  OBVIOUS
<1>6. \A i \in Line : RestOf(data[i], ls)
  BY DEF StayInv, RestInv
<1>7. \A i \in Line : \A k \in 1..Len(data[i]) : data[i][k] = l => i = ino /\ k <= pos
  <2>1. \A k \in 1..Len(data[ino]) : k <= Len(data[ino])
    BY <1>3, <1>1, Lengths
  <2>2. QED
    BY <1>1, <2>1 DEF InPlace
<1>8. /\ RestOf(f, ls \ {l})
      /\ \A k \in 1..Len(f) : f[k] \in Line => k <= Len(s) /\ f[k] = s[k]
  <2>1. RestOf(s, ls)
    BY <1>3, <1>6
  <2>2. AllBefore(s, l, pos)
    BY <1>3, <1>7 DEF AllBefore
  <2>3. pos \in Nat /\ f = WriteAt(s, pos, u)
    BY <1>5
  <2>4. RestOf(f, ls \ {l}) /\ NoNewText(f, s)
    BY <1>3, <2>1, <2>2, <2>3, NewlineWritten
  <2>5. QED
    BY <2>4 DEF NoNewText
<1>9. RestInv'
  <2>1. ls \ {l} \subseteq killed' \cup Open'
    BY <1>2, <1>4 DEF Open
  <2>2. ASSUME NEW i \in Line \ {ino} PROVE RestOf(data'[i], killed' \cup Open')
    <3>1. data'[i] = data[i] /\ RestOf(data[i], ls) /\ \A k \in 1..Len(data[i]) : data[i][k] # l
      BY <1>5, <1>6, <1>7
    <3>2. RestOf(data[i], ls \ {l})
      BY <3>1, RestWithout
    <3>3. RestOf(data[i], killed' \cup Open')
      BY <2>1, <3>2, RestMono
    <3>4. QED
      BY <3>1, <3>3 DEF RestOf, Ended
  <2>3. RestOf(data'[ino], killed' \cup Open')
    BY <1>8, <2>1, RestMono
  <2>4. QED
    BY <2>2, <2>3 DEF RestInv, RestOf, Ended
<1>10. PlaceInv'
  <2> SUFFICES ASSUME NEW q \in Writer PROVE InPlace(w[q])'
    BY DEF PlaceInv
  <2>1. CASE q = p
    BY <1>4, <2>1 DEF InPlace, Opening
  <2>2. CASE q # p
    <3>1. InPlace(w[q]) /\ w'[q] = w[q]
      BY <1>4, <2>2 DEF StayInv, PlaceInv
    <3>2. w[q].at = "newline" => w[q].line \in Line
      BY <1>1 DEF WriterInv, TypeInv, Progress, Inode
    <3>3. ASSUME w[q].at = "newline", NEW i \in Line, NEW k \in 1..Len(data'[i]),
                 data'[i][k] = w[q].line
          PROVE  k \in 1..Len(data[i]) /\ data[i][k] = w[q].line
      <4>1. CASE i = ino
        <5>1. k <= Len(s) /\ f[k] = s[k] /\ k \in 1..Len(f)
          BY <1>8, <3>2, <3>3, <4>1
        <5>2. k \in 1..Len(s)
          BY <5>1, Lengths
        <5>3. QED
          BY <3>3, <4>1, <5>1, <5>2
      <4>2. CASE i # ino
        BY <1>5, <3>3, <4>2
      <4>3. QED
        BY <4>1, <4>2
    <3>4. QED
      BY <3>1, <3>3 DEF InPlace
  <2>3. QED
    BY <2>1, <2>2
\* The newline follows the text at once when nobody has come between.
<1>11. Undisturbed(p) => /\ ino = (IF w[p].fresh THEN tmp ELSE path)
                         /\ Has(f, l, killed)
  <2> SUFFICES ASSUME Undisturbed(p)
               PROVE  ino = (IF w[p].fresh THEN tmp ELSE path) /\ Has(f, l, killed)
    OBVIOUS
  <2>1. /\ ino = (IF w[p].fresh THEN tmp ELSE path) /\ TextEnds(s, l) /\ NotBefore(s, l)
        /\ w[p].fresh => w[p].pos = Len(s)
    BY <1>1 DEF StayInv, ContinuesInv, Continues
  <2>2. ls \subseteq killed \cup {l}
    BY <1>1 DEF Open, RefusalInv, UndisturbedInv
  <2>3. RestOf(s, killed \cup {l})
    BY <1>3, <1>6, <2>2, RestMono
  <2>4. f = WriteAt(s, Len(s), u)
    BY <1>5, <2>1
  <2>5. QED
    BY <1>3, <2>1, <2>3, <2>4, LineEnded
<1>12. CASE w[p].fresh
  <2> DEFINE r == [w[p] EXCEPT !.at = "rename"]
  <2>1. r.at = "rename" /\ r.line = l /\ w' = [w EXCEPT ![p] = r] /\ UNCHANGED stored
    BY <1>1, <1>2, <1>12 DEF Progress, Step
  <2> HIDE DEF r
  <2>2. w'[p] = r
    BY <1>1, <2>1
  <2>3. Good = {} /\ Good' = {}
    <3>1. Good = {}
      BY <1>1, <1>12 DEF StayInv, CreateInv, Creating
    <3>2. QED
      BY <1>2, <2>1, <3>1 DEF Good
  <2>4. LinesInv'
    BY <1>2, <2>1, <2>3, LinesStep DEF StayInv
  <2>5. CreateInv'
    BY <1>4, <2>3, CreateStep DEF StayInv
  <2>6. ASSUME Undisturbed(p)' PROVE Continues(w[p])'
    <3>1. Undisturbed(p)
      BY <1>1, <1>2, <2>1, <2>2, <2>6 DEF Undisturbed
    <3>2. tmp' = ino /\ tmp' # None /\ Has(f, l, killed')
      BY <1>2, <1>3, <1>11, <1>12, <3>1, LinesAndUnits
    <3>3. QED
      BY <2>1, <2>2, <3>2 DEF Continues, Has
  <2>7. ContinuesInv'
    BY <1>1, <1>2, <1>4, <2>6, ContinuesStep
  <2>8. QED
    BY <1>9, <1>10, <2>4, <2>5, <2>7 DEF StayInv
<1>13. CASE ~ w[p].fresh
  <2>1. path \in Line => Grows(data[path], data'[path])
    BY <1>5, <1>13
  <2>2. Undisturbed(p) => path' # None /\ Has(data'[path'], l, killed)
    BY <1>2, <1>3, <1>11, <1>13, LinesAndUnits
  <2>3. LinesInv' /\ CreateInv' /\ ContinuesInv'
    BY <1>1, <1>2, <1>13, <2>1, <2>2, StoredStep
  <2>4. QED
    BY <1>9, <1>10, <2>3 DEF StayInv
<1>14. QED
  BY <1>12, <1>13

LEMMA RenameStays ==
  ASSUME RetentionInv, RetentionInv', RefusalInv, StayInv, NEW p \in Writer, Rename(p)
  PROVE  StayInv'
<1>1. /\ w \in [Writer -> Progress] /\ w[p].at = "rename" /\ Good = {}
      /\ w' = [w EXCEPT ![p] = Idle]
      /\ UNCHANGED <<data, killed, purged, pruned, overlapped>>
  BY DEF RetentionInv, TypeInv, StayInv, CreateInv, Creating, Rename, Fails, blame
<1>2. ~ Creating(Idle) /\ Idle.at = "idle" /\ Idle.at \notin Opening \cup {"text"}
  BY DEF Creating, Idle, Opening
<1>3. CASE tmp = None
  <2>1. UNCHANGED <<path, stored>>
    BY <1>3 DEF Rename
  <2>2. QED
    BY <1>1, <1>2, <2>1, IdleProgress, MoveStays
<1>4. CASE tmp # None
  <2>1. path' = tmp /\ stored' = stored \cup {w[p].line}
    BY <1>4 DEF Rename
  <2>2. Undisturbed(p) => Has(data[tmp], w[p].line, killed)
    BY <1>1 DEF StayInv, ContinuesInv, Continues
  <2>3. LinesInv' /\ CreateInv' /\ ContinuesInv'
    BY <1>1, <1>4, <2>1, <2>2, StoredStep
  <2>4. RestInv' /\ PlaceInv'
    <3>1. w'[p] = Idle /\ \A q \in Writer \ {p} : w'[q] = w[q]
      BY <1>1
    <3>2. QED
      BY <1>1, <1>2, <3>1, FilesStep DEF StayInv
  <2>5. QED
    BY <2>3, <2>4 DEF StayInv
<1>5. QED
  BY <1>3, <1>4

LEMMA StayKept ==
  ASSUME RetentionInv, RetentionInv', RefusalInv, StayInv, [Next]_vars
  PROVE  StayInv'
<1>1. ASSUME NEW p \in Writer, WriterStep(p) PROVE StayInv'
  BY <1>1, ReceiveStays, OpeningStays, OpenTmpStays, WriteTextStays, WriteNewlineStays,
     RenameStays, KillStays DEF WriterStep
<1>2. ASSUME Tick \/ Seed \/ Discover \/ Poll \/ UNCHANGED vars \/ \E days \in Days : Collect(days)
      PROVE StayInv'
  BY <1>2, BystandersStay
<1>3. QED
  BY <1>1, <1>2, DeleteListedStays, PruneStays DEF Next

\* However many writers, lines, runs of retention and kills there are, and however their
\* steps fall, a line that a write has reported as stored has a line of the file to itself,
\* where every reader finds it, until retention takes its file, unless retention removed
\* something or a second writer was at work while it was written, or the last writer before
\* it was killed between text and newline and the torn text opens its line.  (output.rs OutputRouter::write, append_or_create; siemctl main.rs cmd_retention.)
THEOREM StoredLinesAreKept == Spec => []StoredLinesStay
<1>1. Init => RefusalInv /\ StayInv
  BY InitRefusal, InitStay
<1>2. RetentionInv /\ RefusalInv /\ [Next]_vars => RefusalInv'
  BY RefusalKept
<1>3. RetentionInv /\ RetentionInv' /\ RefusalInv /\ StayInv /\ [Next]_vars => StayInv'
  BY StayKept
<1>4. RetentionInv /\ StayInv => StoredLinesStay
  <2> SUFFICES ASSUME RetentionInv, StayInv, NEW l \in Good PROVE Readable(l) \/ Glued(l)
    BY DEF StoredLinesStay, Good
  <2>1. l \in Line /\ path # None /\ Has(data[path], l, killed)
    BY DEF StayInv, LinesInv, Good
  <2>2. path \in Line /\ data[path] \in Seq(0..Nul)
    BY <2>1 DEF RetentionInv, TypeInv, Inode
  <2>3. QED
    BY <2>1, <2>2, ReadOrGlued
<1>5. QED
  BY <1>1, <1>2, <1>3, <1>4, RetentionHolds, PTL DEF Spec

(***************************************************************************)
(* What tail cuts out of a file.                                           *)
(***************************************************************************)

\* Ranks count from 1 and grow with the element.
LEMMA RankGrows ==
  ASSUME NEW S \in SUBSET Nat, IsFiniteSet(S), NEW e \in S
  PROVE  /\ Rank(S, e) \in 1..Cardinality(S)
         /\ \A d \in S : d < e => Rank(S, d) < Rank(S, e)
<1>1. ASSUME NEW d \in S
      PROVE  IsFiniteSet({x \in S : x <= d}) /\ Rank(S, d) \in Nat
  <2>1. {x \in S : x <= d} \in SUBSET S
    OBVIOUS
  <2>2. IsFiniteSet({x \in S : x <= d})
    BY <2>1, FS_Subset
  <2>3. QED
    BY <2>2, FS_CardinalityType DEF Rank
<1>2. Cardinality(S) \in Nat /\ Rank(S, e) <= Cardinality(S)
  <2>1. {x \in S : x <= e} \in SUBSET S
    OBVIOUS
  <2>2. QED
    BY <2>1, FS_Subset, FS_CardinalityType DEF Rank
<1>3. Rank(S, e) # 0
  <2>1. e \in {x \in S : x <= e}
    OBVIOUS
  <2>2. {x \in S : x <= e} # {}
    BY <2>1
  <2>3. QED
    BY <1>1, <2>2, FS_EmptySet DEF Rank
<1>4. ASSUME NEW d \in S, d < e PROVE Rank(S, d) < Rank(S, e)
  <2> DEFINE D == {x \in S : x <= d}
             E == {x \in S : x <= e}
  <2>1. IsFiniteSet(D) /\ IsFiniteSet(E)
    BY <1>1
  <2>2. D \in SUBSET E
    <3>1. \A x \in S : x <= d => x <= e
      BY <1>4
    <3>2. QED
      BY <3>1
  <2>3. e \in E /\ e \notin D
    BY <1>4
  <2> HIDE DEF D, E
  <2>4. Cardinality(D) <= Cardinality(E) /\ Cardinality(D) # Cardinality(E)
    BY <2>1, <2>2, <2>3, FS_Subset
  <2>5. Cardinality(D) \in Nat /\ Cardinality(E) \in Nat
    BY <2>1, FS_CardinalityType
  <2>6. Cardinality(D) < Cardinality(E)
    BY <2>4, <2>5
  <2>7. QED
    BY <2>6 DEF D, E, Rank
<1>5. Rank(S, e) \in 1..Cardinality(S)
  <2>1. Rank(S, e) \in Nat
    BY <1>1
  <2>2. QED
    BY <1>2, <1>3, <2>1
<1>6. QED
  BY <1>4, <1>5

\* Ascending lists each element of the set at its rank, and nothing else.
LEMMA AscendingFacts ==
  ASSUME NEW S \in SUBSET Nat, IsFiniteSet(S)
  PROVE  /\ Cardinality(S) \in Nat
         /\ DOMAIN Ascending(S) = 1..Cardinality(S)
         /\ \A e \in S : Rank(S, e) \in 1..Cardinality(S) /\ Ascending(S)[Rank(S, e)] = e
         /\ \A k \in 1..Cardinality(S) :
                Ascending(S)[k] \in S /\ Rank(S, Ascending(S)[k]) = k
<1> PICK n \in Nat : n = Cardinality(S)
  BY FS_CardinalityType
<1>1. \A e \in S : Rank(S, e) \in 1..n
  BY RankGrows
<1>2. ASSUME NEW d \in S, NEW e \in S, Rank(S, d) = Rank(S, e) PROVE d = e
  <2>1. d \in Nat /\ e \in Nat /\ Rank(S, d) \in Nat
    BY <1>1
  <2>2. ~ (d < e)
    BY <1>2, <2>1, RankGrows
  <2>3. ~ (e < d)
    BY <1>2, <2>1, RankGrows
  <2>4. QED
    BY <2>1, <2>2, <2>3
<1>3. \A k \in 1..n : \E e \in S : Rank(S, e) = k
  <2> DEFINE f == [e \in S |-> Rank(S, e)]
  <2>1. f \in [S -> 1..n]
    BY <1>1
  <2>2. f \in Injection(S, 1..n)
    BY <1>2, <2>1 DEF Injection, IsInjective
  <2>3. IsFiniteSet(1..n) /\ Cardinality(1..n) = n
    <3>1. 1 \in Int /\ n \in Int
      OBVIOUS
    <3>2. IsFiniteSet(1..n) /\ Cardinality(1..n) = IF 1 > n THEN 0 ELSE n - 1 + 1
      BY <3>1, FS_Interval
    <3>3. QED
      BY <3>2
  <2>4. f \in Surjection(S, 1..n)
    BY <2>2, <2>3, FS_Injection
  <2>5. \A k \in 1..n : \E e \in S : f[e] = k
    BY <2>4 DEF Surjection
  <2>6. QED
    BY <2>5
<1>4. Ascending(S) = [k \in 1..n |-> CHOOSE e \in S : Rank(S, e) = k]
  BY DEF Ascending
<1>5. ASSUME NEW k \in 1..n PROVE Ascending(S)[k] \in S /\ Rank(S, Ascending(S)[k]) = k
  BY <1>3, <1>4
<1>6. ASSUME NEW e \in S PROVE Ascending(S)[Rank(S, e)] = e
  <2>1. /\ Rank(S, e) \in 1..n
        /\ Ascending(S)[Rank(S, e)] \in S
        /\ Rank(S, Ascending(S)[Rank(S, e)]) = Rank(S, e)
    BY <1>1, <1>5
  <2>2. QED
    BY <1>2, <2>1
<1>7. QED
  BY <1>1, <1>4, <1>5, <1>6

\* t is what stands in s after a and before b, on one line.
Piece(t, s, a, b) ==
    /\ t \in Seq(0..Nul) /\ Len(t) = b - a - 1
    /\ \A x \in 1..Len(t) : t[x] = s[a + x] /\ s[a + x] # Newline

\* The ends b of the lines of s past o, the places a before them, the lines ts.
CutPast(s, o, n, a, b, ts) ==
    /\ n \in Nat \ {0} /\ a \in [1..n -> Nat] /\ b \in [1..n -> 1..Len(s)]
    /\ Len(ts) = n /\ ts \in Seq(Seq(0..Nul))
    /\ a[1] = o /\ \A k \in 2..n : a[k] = b[k - 1]
    /\ \A k \in 1..n : /\ o <= a[k] /\ a[k] < b[k] /\ b[k] <= b[n]
                       /\ s[b[k]] = Newline /\ Piece(ts[k], s, a[k], b[k])
    /\ \A j, k \in 1..n : j < k => b[j] <= a[k]

\* Neighbours in the ascending list have nothing between them.
LEMMA Neighbours ==
  ASSUME NEW S \in SUBSET Nat, IsFiniteSet(S), NEW n, n = Cardinality(S), NEW e, e = Ascending(S)
  PROVE  /\ \A j, k \in 1..n : j < k => e[j] < e[k]
         /\ \A k \in 1..n : \A x \in S : x < e[k] => k > 1 /\ x <= e[k - 1]
<1>1. /\ n \in Nat
      /\ \A x \in S : Rank(S, x) \in 1..n /\ e[Rank(S, x)] = x
      /\ \A k \in 1..n : e[k] \in S /\ Rank(S, e[k]) = k
  BY AscendingFacts
<1>2. \A x, y \in S : x < y => Rank(S, x) < Rank(S, y)
  BY RankGrows
<1>3. ASSUME NEW j \in 1..n, NEW k \in 1..n, j < k PROVE e[j] < e[k]
  <2>1. e[j] \in Nat /\ e[k] \in Nat /\ e[j] \in S /\ e[k] \in S
    BY <1>1
  <2>2. Rank(S, e[j]) = j /\ Rank(S, e[k]) = k
    BY <1>1
  <2>3. e[k] # e[j] /\ ~ (e[k] < e[j])
    BY <1>1, <1>2, <1>3, <2>1, <2>2
  <2>4. QED
    BY <2>1, <2>3
<1>4. ASSUME NEW k \in 1..n, NEW x \in S, x < e[k] PROVE k > 1 /\ x <= e[k - 1]
  <2> PICK r \in 1..n : r = Rank(S, x)
    BY <1>1
  <2>1. e[r] = x /\ r < k
    BY <1>1, <1>2, <1>4
  <2>2. r = k - 1 \/ r < k - 1
    BY <1>1, <2>1
  <2>3. k - 1 \in 1..n /\ k > 1
    BY <1>1, <2>1
  <2>4. x = e[k - 1] \/ x < e[k - 1]
    BY <1>3, <2>1, <2>2, <2>3
  <2>5. x \in Nat /\ e[k - 1] \in Nat
    BY <1>1, <2>3
  <2>6. QED
    BY <2>3, <2>4, <2>5
<1>5. QED
  BY <1>3, <1>4

LEMMA SubSeqFacts ==
  ASSUME NEW s \in Seq(0..Nul), NEW m \in Nat, NEW n \in Nat, n <= Len(s)
  PROVE  /\ SubSeq(s, m + 1, n) \in Seq(0..Nul)
         /\ Len(SubSeq(s, m + 1, n)) = IF m <= n THEN n - m ELSE 0
         /\ \A x \in 1..Len(SubSeq(s, m + 1, n)) : SubSeq(s, m + 1, n)[x] = s[m + x]
<1> PICK len \in Nat : len = Len(s)
  BY Lengths
<1>1. m + 1 \in Int /\ n \in Int /\ \A i \in (m + 1)..n : i \in 1..len
  OBVIOUS
<1>2. \A i \in (m + 1)..n : s[i] \in 0..Nul
  BY <1>1, Elements, Lengths
<1> PICK t : t = SubSeq(s, m + 1, n)
  OBVIOUS
<1>3. /\ t \in Seq(0..Nul) /\ Len(t) = IF m + 1 <= n THEN n - (m + 1) + 1 ELSE 0
      /\ \A i \in 1..(n - (m + 1) + 1) : t[i] = s[m + 1 + i - 1]
  BY <1>1, <1>2, SubSeqProperties
<1>4. Len(t) = IF m <= n THEN n - m ELSE 0
  BY <1>3
<1>5. ASSUME NEW x \in 1..Len(t) PROVE t[x] = s[m + x]
  <2>1. x \in 1..(n - (m + 1) + 1) /\ m + 1 + x - 1 = m + x
    BY <1>4
  <2>2. QED
    BY <1>3, <2>1
<1>6. QED
  BY <1>3, <1>4, <1>5

\* What s holds past o.
RestAfter(s, o) == SubSeq(s, o + 1, Len(s))

LEMMA RestFacts ==
  ASSUME NEW s \in Seq(0..Nul), NEW o \in Nat, NEW rest, rest = RestAfter(s, o)
  PROVE  /\ rest \in Seq(0..Nul) /\ Len(rest) = IF o <= Len(s) THEN Len(s) - o ELSE 0
         /\ \A x \in 1..Len(rest) : rest[x] = s[o + x]
<1> PICK n \in Nat : n = Len(s)
  BY Lengths
<1>1. n <= Len(s) /\ rest = SubSeq(s, o + 1, n)
  BY DEF RestAfter
<1>2. /\ SubSeq(s, o + 1, n) \in Seq(0..Nul)
      /\ Len(SubSeq(s, o + 1, n)) = IF o <= n THEN n - o ELSE 0
      /\ \A x \in 1..Len(SubSeq(s, o + 1, n)) : SubSeq(s, o + 1, n)[x] = s[o + x]
  BY <1>1, SubSeqFacts
<1>3. QED
  BY <1>1, <1>2, Zenon

Between(s, from, to) == SubSeq(s, from + 1, to - 1)

LEMMA PieceCut ==
  ASSUME NEW s, NEW o \in Nat, NEW rest \in Seq(0..Nul), \A x \in 1..Len(rest) : rest[x] = s[o + x],
         NEW from \in Nat, NEW to \in Nat, from < to, to <= Len(rest),
         \A x \in 1..Len(rest) : x > from /\ x < to => rest[x] # Newline,
         NEW t, t = Between(rest, from, to)
  PROVE  Piece(t, s, o + from, o + to)
<1> PICK m \in Nat : m = Len(rest)
  BY Lengths
<1> PICK h \in Nat : h = to - 1
  OBVIOUS
<1>1. t \in Seq(0..Nul) /\ Len(t) = to - from - 1 /\ \A x \in 1..Len(t) : t[x] = rest[from + x]
  <2>1. h <= Len(rest) /\ from <= h /\ h - from = to - from - 1
    OBVIOUS
  <2>2. t = SubSeq(rest, from + 1, h)
    BY DEF Between
  <2>3. /\ SubSeq(rest, from + 1, h) \in Seq(0..Nul)
        /\ Len(SubSeq(rest, from + 1, h)) = IF from <= h THEN h - from ELSE 0
        /\ \A x \in 1..Len(SubSeq(rest, from + 1, h)) :
               SubSeq(rest, from + 1, h)[x] = rest[from + x]
    BY <2>1, SubSeqFacts
  <2>4. /\ t \in Seq(0..Nul) /\ Len(t) = IF from <= h THEN h - from ELSE 0
        /\ \A x \in 1..Len(t) : t[x] = rest[from + x]
    BY <2>2, <2>3, Zenon
  <2>5. QED
    BY <2>1, <2>4
<1>2. ASSUME NEW x \in 1..(to - from - 1) PROVE t[x] = s[o + from + x] /\ s[o + from + x] # Newline
  <2>1. from + x \in 1..m /\ from + x > from /\ from + x < to /\ o + (from + x) = o + from + x
    OBVIOUS
  <2>2. t[x] = rest[from + x]
    BY <1>1
  <2>3. rest[from + x] = s[o + (from + x)] /\ rest[from + x] # Newline
    BY <2>1
  <2>4. QED
    BY <2>1, <2>2, <2>3
<1>3. to - from - 1 = o + to - (o + from) - 1
  OBVIOUS
<1>4. /\ Len(t) = o + to - (o + from) - 1
      /\ \A x \in 1..Len(t) : t[x] = s[o + from + x] /\ s[o + from + x] # Newline
  BY <1>1, <1>2, <1>3
<1>5. QED
  BY <1>1, <1>4 DEF Piece

LEMMA RestCut ==
  ASSUME NEW s \in Seq(0..Nul), NEW o \in Nat, NEW rest, rest = RestAfter(s, o),
         LineEnds(rest) # << >>
  PROVE  \E n, a, b : /\ CutPast(s, o, n, a, b, CompleteLines(rest))
                      /\ b[n] = o + Last(LineEnds(rest))
<1> PICK len \in Nat : len = Len(s)
  BY Lengths
<1>1. /\ rest \in Seq(0..Nul) /\ Len(rest) = IF o <= len THEN len - o ELSE 0
      /\ \A x \in 1..Len(rest) : rest[x] = s[o + x]
  BY RestFacts
<1> PICK m \in Nat : m = Len(rest)
  BY <1>1, Lengths
<1>2. m > 0 => m = len - o
  BY <1>1
<1> DEFINE N == Newlines(rest)
<1>3. N \in SUBSET (1..m) /\ N \in SUBSET Nat /\ \A x \in 1..m : x \in N <=> rest[x] = Newline
  BY <1>1, Lengths DEF Newlines
<1>4. IsFiniteSet(N)
  <2>1. 1 \in Int /\ m \in Int
    OBVIOUS
  <2>2. IsFiniteSet(1..m)
    BY <2>1, FS_Interval
  <2>3. QED
    BY <1>3, <2>2, FS_Subset
<1> HIDE DEF N
<1> PICK n \in Nat : n = Cardinality(N)
  BY <1>3, <1>4, FS_CardinalityType
<1> PICK e : e = Ascending(N)
  OBVIOUS
<1>5. DOMAIN e = 1..n /\ \A k \in 1..n : e[k] \in N
  BY <1>3, <1>4, AscendingFacts
<1>6. /\ \A j, k \in 1..n : j < k => e[j] < e[k]
      /\ \A k \in 1..n : \A x \in N : x < e[k] => k > 1 /\ x <= e[k - 1]
  BY <1>3, <1>4, Neighbours
<1>7. n # 0 /\ Last(LineEnds(rest)) = e[n]
  <2>1. LineEnds(rest) = e
    BY DEF LineEnds, N
  <2>2. e = [k \in 1..n |-> e[k]]
    BY DEF Ascending
  <2>3. \A k \in 1..n : e[k] \in Nat
    BY <1>3, <1>5
  <2>4. e \in Seq(Nat)
    BY <2>2, <2>3, BuiltSequence
  <2>5. Len(e) = n
    BY <1>5, <2>4, Lengths
  <2>6. n # 0
    BY <2>1, <2>5, <2>4, EmptySeq
  <2>7. QED
    BY <2>1, <2>5, <2>6 DEF Last
<1> DEFINE p(k) == IF k = 1 THEN 0 ELSE e[k - 1]
           a == [k \in 1..n |-> o + p(k)]
           b == [k \in 1..n |-> o + e[k]]
           ts == CompleteLines(rest)
<1>8. ASSUME NEW k \in 1..n
      PROVE  /\ e[k] \in 1..m /\ p(k) \in Nat /\ p(k) < e[k] /\ rest[e[k]] = Newline
             /\ \A x \in 1..m : x > p(k) /\ x < e[k] => rest[x] # Newline
  <2>1. e[k] \in 1..m /\ rest[e[k]] = Newline
    BY <1>3, <1>5
  <2>2. k # 1 => k - 1 \in 1..n /\ k - 1 < k
    OBVIOUS
  <2>3. k # 1 => e[k - 1] \in 1..m /\ e[k - 1] < e[k]
    BY <1>3, <1>5, <1>6, <2>2
  <2>4. ASSUME NEW x \in 1..m, x > p(k), x < e[k], rest[x] = Newline PROVE FALSE
    <3>1. x \in N
      BY <1>3, <2>4
    <3>2. k > 1 /\ x <= e[k - 1]
      BY <1>6, <2>4, <3>1
    <3>3. p(k) = e[k - 1] /\ e[k - 1] \in Nat
      BY <2>3, <3>2
    <3>4. QED
      BY <2>4, <3>2, <3>3
  <2>5. QED
    BY <2>1, <2>3, <2>4
<1>9. ts = [k \in 1..n |-> SubSeq(rest, p(k) + 1, e[k] - 1)]
  BY <1>5 DEF CompleteLines, Cut, N
<1> HIDE DEF p
<1>10. ASSUME NEW k \in 1..n PROVE Piece(ts[k], s, o + p(k), o + e[k])
  <2> PICK t : t = Between(rest, p(k), e[k])
    OBVIOUS
  <2>1. /\ p(k) \in Nat /\ e[k] \in Nat /\ p(k) < e[k] /\ e[k] <= Len(rest)
        /\ \A x \in 1..Len(rest) : x > p(k) /\ x < e[k] => rest[x] # Newline
    BY <1>8
  <2>2. Piece(t, s, o + p(k), o + e[k])
    BY <1>1, <2>1, PieceCut
  <2>3. ts[k] = t
    BY <1>9 DEF Between
  <2>4. QED
    BY <2>2, <2>3
<1> HIDE DEF ts
<1>11. a \in [1..n -> Nat] /\ b \in [1..n -> 1..Len(s)]
  <2>1. ASSUME NEW k \in 1..n PROVE o + p(k) \in Nat /\ o + e[k] \in 1..len
    BY <1>2, <1>8
  <2>2. QED
    BY <2>1
<1>12. \A k \in 1..n : a[k] = o + p(k) /\ b[k] = o + e[k]
  OBVIOUS
<1> HIDE DEF a, b
<1>13. Len(ts) = n /\ ts \in Seq(Seq(0..Nul))
  <2>1. \A k \in 1..n : ts[k] \in Seq(0..Nul)
    BY <1>10 DEF Piece
  <2>2. ts = [k \in 1..n |-> ts[k]]
    BY <1>9
  <2>3. ts \in Seq(Seq(0..Nul)) /\ DOMAIN ts = 1..n
    BY <2>1, <2>2, BuiltSequence
  <2>4. QED
    BY <2>3
<1>14. a[1] = o /\ \A k \in 2..n : a[k] = b[k - 1]
  <2>1. 1 \in 1..n /\ p(1) = 0
    BY <1>7 DEF p
  <2>2. ASSUME NEW k \in 2..n PROVE a[k] = b[k - 1]
    <3>1. k \in 1..n /\ k - 1 \in 1..n /\ p(k) = e[k - 1]
      BY DEF p
    <3>2. QED
      BY <1>12, <3>1
  <2>3. QED
    BY <1>12, <2>1, <2>2
<1>15. ASSUME NEW k \in 1..n
       PROVE  /\ o <= a[k] /\ a[k] < b[k] /\ b[k] <= b[n]
              /\ s[b[k]] = Newline /\ Piece(ts[k], s, a[k], b[k])
  <2>1. n \in 1..n /\ (k = n \/ k < n)
    OBVIOUS
  <2>2. e[k] \in 1..m /\ e[n] \in 1..m /\ e[k] <= e[n] /\ p(k) \in Nat /\ p(k) < e[k]
    BY <1>6, <1>8, <2>1
  <2>3. o <= a[k] /\ a[k] < b[k] /\ b[k] <= b[n]
    BY <1>12, <2>1, <2>2
  <2>4. s[b[k]] = Newline
    BY <1>1, <1>8, <1>12
  <2>5. Piece(ts[k], s, a[k], b[k])
    BY <1>10, <1>12
  <2>6. QED
    BY <2>3, <2>4, <2>5
<1>16. ASSUME NEW j \in 1..n, NEW k \in 1..n, j < k PROVE b[j] <= a[k]
  <2>1. k - 1 \in 1..n /\ p(k) = e[k - 1] /\ (j = k - 1 \/ j < k - 1)
    BY <1>16 DEF p
  <2>2. e[j] \in 1..m /\ e[k - 1] \in 1..m /\ e[j] <= e[k - 1]
    BY <1>6, <1>8, <2>1
  <2>3. QED
    BY <1>12, <2>1, <2>2
<1>17. CutPast(s, o, n, a, b, ts)
  BY <1>7, <1>11, <1>13, <1>14, <1>15, <1>16 DEF CutPast
<1>18. b[n] = o + Last(LineEnds(rest))
  <2>1. n \in 1..n
    BY <1>7
  <2>2. QED
    BY <1>7, <1>12, <2>1
<1>19. QED
  BY <1>17, <1>18 DEF ts

\* Every newline of s completes the line of somebody ...
Neat(s, dead) == \A e \in 1..Len(s) : s[e] = Newline => \E l \in Line : EndsAt(s, l, e, dead)

\* ... and the text of a line is in one piece.
OnePiece(s) ==
    \A i, j \in 1..Len(s) : s[i] \in Line /\ s[j] = s[i] => \A k \in i..j : s[k] # Newline

\* t ends with the text of a line, and begins with nothing but torn ones.
LineOf(t, dead) == \E l \in Line : TextEnds(t, l) /\ ToSet(t) \subseteq {l} \cup dead

\* What of the lines of s stands in t is in s between o and e.
CutFrom(t, s, o, e) ==
    \A l \in ToSet(t) \cap Line :
        /\ \E k \in 1..Len(s) : s[k] = l /\ k > o
        /\ \A k \in 1..Len(s) : s[k] = l => k <= e

Apart(t, u) == ToSet(t) \cap ToSet(u) \cap Line = {}

LEMMA PieceFacts ==
  ASSUME NEW s \in Seq(0..Nul), NEW a \in Nat, NEW b \in 1..Len(s), a < b, s[b] = Newline,
         NEW t, Piece(t, s, a, b), NEW l \in ToSet(t)
  PROVE  \E x \in 1..Len(s) : x > a /\ x < b /\ s[x] = l
<1> PICK len \in Nat : len = Len(s)
  BY Lengths
<1>1. t \in Seq(0..Nul) /\ Len(t) = b - a - 1 /\ \A x \in 1..Len(t) : t[x] = s[a + x]
  BY DEF Piece
<1>2. PICK x \in 1..Len(t) : t[x] = l
  BY <1>1, InToSet, Lengths
<1>3. x \in 1..(b - a - 1) /\ s[a + x] = l
  BY <1>1, <1>2
<1>4. a + x \in 1..len /\ a + x > a /\ a + x < b
  BY <1>3
<1>5. QED
  BY <1>3, <1>4

\* A piece that follows a newline is a line.
LEMMA PieceIsLine ==
  ASSUME NEW s \in Seq(0..Nul), NEW dead, Neat(s, dead),
         NEW a \in Nat, NEW b \in 1..Len(s), a < b, s[b] = Newline, a >= 1, s[a] = Newline,
         NEW t, Piece(t, s, a, b)
  PROVE  LineOf(t, dead)
<1>1. t \in Seq(0..Nul) /\ Len(t) = b - a - 1 /\ \A x \in 1..Len(t) : t[x] = s[a + x]
  BY DEF Piece
<1>2. ASSUME NEW x \in 1..(b - a - 1) PROVE t[x] = s[a + x] /\ s[a + x] # Newline
  BY <1>2 DEF Piece
<1>3. PICK l \in Line : EndsAt(s, l, b, dead)
  BY DEF Neat
<1> PICK m \in Nat : m = LineUnits[l] /\ m > 0
  BY LineFacts
<1>4. b > m /\ (\A i \in (b - m)..(b - 1) : s[i] = l) /\ l # Newline
  BY <1>3, LineFacts DEF EndsAt
<1>5. a < b - m
  <2>1. ASSUME a >= b - m PROVE FALSE
    <3>1. a \in (b - m)..(b - 1)
      BY <1>4, <2>1
    <3>2. QED
      BY <1>4, <3>1
  <2>2. QED
    BY <2>1, <1>4
<1>6. TextEnds(t, l)
  <2>1. m <= b - a - 1
    BY <1>5
  <2>2. ASSUME NEW k \in (b - a - 1 - m + 1)..(b - a - 1) PROVE t[k] = l
    <3>1. k \in 1..(b - a - 1) /\ a + k \in (b - m)..(b - 1)
      BY <1>5
    <3>2. QED
      BY <1>2, <1>4, <3>1
  <2>3. QED
    BY <1>1, <2>1, <2>2 DEF TextEnds
<1>7. ASSUME NEW y \in ToSet(t) PROVE y \in {l} \cup dead
  <2>1. PICK x \in 1..(b - a - 1) : t[x] = y
    BY <1>1, InToSet, Lengths
  <2>2. a + x \in 1..(b - 1) /\ s[a + x] = y
    BY <1>2, <2>1
  <2>3. ASSUME NEW j \in (a + x)..(b - 1) PROVE s[j] # Newline
    <3>1. j - a \in 1..(b - a - 1) /\ a + (j - a) = j
      OBVIOUS
    <3>2. QED
      BY <1>2, <3>1
  <2>4. s[a + x] \in {l} \cup dead \/ \E j \in (a + x)..(b - 1) : s[j] = Newline
    BY <1>3, <2>2, LineUnitsOf
  <2>5. QED
    BY <2>2, <2>3, <2>4
<1>8. QED
  BY <1>6, <1>7 DEF LineOf

\* The lines of a tidy file past o come whole, each once.
LEMMA PiecesFacts ==
  ASSUME NEW s \in Seq(0..Nul), NEW dead, Neat(s, dead), OnePiece(s),
         NEW o \in Nat, NEW n, NEW a, NEW b, NEW ts, CutPast(s, o, n, a, b, ts)
  PROVE  /\ n \in Nat \ {0} /\ Len(ts) = n /\ b[n] \in 1..Len(s) /\ s[b[n]] = Newline /\ o < b[n]
         /\ \A k \in 1..n : CutFrom(ts[k], s, o, b[n])
         /\ \A k \in 1..n : k > 1 \/ (o >= 1 /\ s[o] = Newline) => LineOf(ts[k], dead)
         /\ \A j, k \in 1..n : j # k => Apart(ts[j], ts[k])
<1>1. /\ n \in Nat \ {0} /\ a \in [1..n -> Nat] /\ b \in [1..n -> 1..Len(s)]
      /\ Len(ts) = n
      /\ a[1] = o /\ \A k \in 2..n : a[k] = b[k - 1]
      /\ \A j, k \in 1..n : j < k => b[j] <= a[k]
  BY DEF CutPast
<1>2. ASSUME NEW k \in 1..n
      PROVE  /\ o <= a[k] /\ a[k] < b[k] /\ b[k] <= b[n] /\ s[b[k]] = Newline
             /\ Piece(ts[k], s, a[k], b[k]) /\ a[k] \in Nat /\ b[k] \in 1..Len(s)
  BY <1>1 DEF CutPast
<1> PICK len \in Nat : len = Len(s)
  BY Lengths
<1>3. n \in 1..n
  BY <1>1
<1>4. ASSUME NEW k \in 1..n, NEW l \in ToSet(ts[k])
      PROVE  \E x \in 1..len : x > a[k] /\ x < b[k] /\ s[x] = l
  BY <1>2, PieceFacts
<1>5. ASSUME NEW i \in 1..len, NEW e \in 1..len, NEW j \in 1..len, s[i] \in Line, s[j] = s[i],
             i <= e, e <= j, s[e] = Newline
      PROVE  FALSE
  <2>1. e \in i..j
    BY <1>5
  <2>2. QED
    BY <1>5, <2>1 DEF OnePiece
<1>6. ASSUME NEW k \in 1..n PROVE CutFrom(ts[k], s, o, b[n])
  <2> SUFFICES ASSUME NEW l \in ToSet(ts[k]) \cap Line
               PROVE  /\ \E x \in 1..len : s[x] = l /\ x > o
                      /\ \A y \in 1..len : s[y] = l => y <= b[n]
    BY DEF CutFrom
  <2>1. PICK x \in 1..len : x > a[k] /\ x < b[k] /\ s[x] = l
    BY <1>4
  <2>2. o <= a[k] /\ a[k] \in Nat /\ b[k] \in 1..len /\ b[k] <= b[n] /\ b[n] \in 1..len /\ s[b[n]] = Newline
    BY <1>2, <1>3
  <2>3. x > o
    BY <2>1, <2>2
  <2>4. ASSUME NEW y \in 1..len, s[y] = l PROVE y <= b[n]
    <3>1. ASSUME y > b[n] PROVE FALSE
      <4>1. x <= b[n] /\ b[n] <= y
        BY <2>1, <2>2, <3>1
      <4>2. QED
        BY <1>5, <2>1, <2>2, <2>4, <4>1
    <3>2. QED
      BY <2>2, <3>1
  <2>5. QED
    BY <2>1, <2>3, <2>4
<1>7. ASSUME NEW k \in 1..n, k > 1 \/ (o >= 1 /\ s[o] = Newline) PROVE LineOf(ts[k], dead)
  <2>1. a[k] >= 1 /\ s[a[k]] = Newline
    <3>1. CASE k > 1
      <4>1. k - 1 \in 1..n /\ k \in 2..n
        BY <3>1, <1>1
      <4>2. a[k] = b[k - 1] /\ b[k - 1] \in 1..len /\ s[b[k - 1]] = Newline
        BY <1>1, <1>2, <4>1
      <4>3. QED
        BY <4>2
    <3>2. CASE ~ (k > 1)
      <4>1. k = 1
        BY <3>2
      <4>2. QED
        BY <1>1, <1>7, <3>2, <4>1
    <3>3. QED
      BY <3>1, <3>2
  <2>2. QED
    BY <1>2, <2>1, PieceIsLine
<1>8. ASSUME NEW j \in 1..n, NEW k \in 1..n, j < k PROVE Apart(ts[j], ts[k])
  <2> SUFFICES ASSUME NEW l \in Line, l \in ToSet(ts[j]), l \in ToSet(ts[k])
               PROVE  FALSE
    BY DEF Apart
  <2>1. PICK x \in 1..len : x > a[j] /\ x < b[j] /\ s[x] = l
    BY <1>4
  <2>2. PICK y \in 1..len : y > a[k] /\ y < b[k] /\ s[y] = l
    BY <1>4
  <2>3. b[j] \in 1..len /\ s[b[j]] = Newline /\ a[k] \in Nat /\ b[j] <= a[k]
    BY <1>1, <1>2, <1>8
  <2>4. x <= b[j] /\ b[j] <= y
    BY <2>1, <2>2, <2>3
  <2>5. QED
    BY <1>5, <2>1, <2>2, <2>3, <2>4
<1>9. ASSUME NEW j \in 1..n, NEW k \in 1..n, j # k PROVE Apart(ts[j], ts[k])
  <2>1. j < k \/ k < j
    BY <1>9
  <2>2. Apart(ts[j], ts[k]) \/ Apart(ts[k], ts[j])
    BY <1>8, <2>1
  <2>3. QED
    BY <2>2 DEF Apart
<1>10. b[n] \in 1..Len(s) /\ s[b[n]] = Newline /\ o < b[n]
  <2>1. o <= a[n] /\ a[n] < b[n] /\ a[n] \in Nat /\ b[n] \in 1..len /\ s[b[n]] = Newline
    BY <1>2, <1>3
  <2>2. QED
    BY <2>1
<1>11. QED
  BY <1>1, <1>6, <1>7, <1>9, <1>10

\* f is s with more behind it.
Follows(f, s, units) ==
    /\ f \in Seq(0..Nul) /\ Len(f) = Len(s) + Len(units) /\ Grows(s, f)
    /\ \A k \in 1..Len(units) : f[Len(s) + k] = units[k]

LEMMA AppendFollows ==
  ASSUME NEW s \in Seq(0..Nul), NEW units \in Seq(0..Nul), NEW f, f = WriteAt(s, Len(s), units)
  PROVE  Follows(f, s, units)
<1>1. Len(s) \in Nat /\ Len(units) \in Nat
  BY Lengths
<1>2. Written(f, s, Len(s), units)
  BY <1>1, WrittenAt
<1>3. /\ f \in Seq(0..Nul) /\ Len(f) = Len(s) + Len(units)
      /\ \A k \in 1..Len(units) : f[Len(s) + k] = units[k]
  <2>1. /\ f \in Seq(0..Nul) /\ Len(s) + Len(units) <= Len(f)
        /\ Len(f) = Len(s) \/ Len(f) = Len(s) + Len(units)
        /\ \A k \in 1..Len(units) : f[Len(s) + k] = units[k]
    BY <1>2 DEF Written
  <2>2. QED
    BY <1>1, <2>1, Lengths
<1>4. Grows(s, f)
  BY AppendGrows
<1>5. QED
  BY <1>3, <1>4 DEF Follows

\* A newline in what follows is the only thing that can make a file untidy.
LEMMA NeatGrows ==
  ASSUME NEW s \in Seq(0..Nul), NEW units, NEW f, Follows(f, s, units), Len(units) \in Nat,
         NEW dead, NEW dead2, dead \subseteq dead2, Neat(s, dead),
         \A k \in 1..Len(units) :
             units[k] = Newline => \E l \in Line : EndsAt(f, l, Len(s) + k, dead2)
  PROVE  Neat(f, dead2)
<1> PICK n \in Nat, m \in Nat : n = Len(s) /\ m = Len(units)
  BY Lengths
<1>1. /\ f \in Seq(0..Nul) /\ Len(f) = n + m /\ Grows(s, f) /\ \A k \in 1..n : f[k] = s[k]
      /\ \A k \in 1..m : f[n + k] = units[k]
  BY DEF Follows, Grows
<1> SUFFICES ASSUME NEW e \in 1..(n + m), f[e] = Newline
             PROVE  \E l \in Line : EndsAt(f, l, e, dead2)
  BY <1>1 DEF Neat
<1>2. CASE e <= n
  <2>1. e \in 1..n /\ s[e] = Newline
    BY <1>1, <1>2
  <2>2. PICK l \in Line : EndsAt(s, l, e, dead)
    BY <2>1 DEF Neat
  <2>3. EndsAt(f, l, e, dead2)
    BY <1>1, <2>1, <2>2, EndsAtKept
  <2>4. QED
    BY <2>3
<1>3. CASE ~ (e <= n)
  <2>1. e - n \in 1..m /\ n + (e - n) = e
    BY <1>3
  <2>2. units[e - n] = Newline
    BY <1>1, <2>1
  <2>3. QED
    BY <2>1, <2>2
<1>4. QED
  BY <1>2, <1>3

\* The text of a line that is not there yet follows.
LEMMA TextFollows ==
  ASSUME NEW s \in Seq(0..Nul), NEW l \in Line, \A k \in 1..Len(s) : s[k] # l,
         NEW f, f = WriteAt(s, Len(s), Text(l)), NEW dead, Neat(s, dead), OnePiece(s)
  PROVE  /\ f \in Seq(0..Nul) /\ Len(f) = Len(s) + LineUnits[l] /\ Grows(s, f)
         /\ \A k \in 1..Len(f) : k > Len(s) => f[k] = l
         /\ TextEnds(f, l) /\ NotBefore(f, l) /\ Neat(f, dead) /\ OnePiece(f)
<1> PICK n \in Nat : n = Len(s)
  BY Lengths
<1> PICK m \in Nat : m = LineUnits[l] /\ m > 0 /\ l # Newline
  BY LineFacts
<1> PICK u : u = Text(l)
  OBVIOUS
<1>1. u \in Seq(0..Nul) /\ Len(u) = m /\ \A k \in 1..m : u[k] = l
  <2>1. u \in Seq(0..Nul)
    BY TextType
  <2>2. u = [i \in 1..m |-> l]
    BY DEF Text
  <2>3. QED
    BY <2>1, <2>2
<1>2. Follows(f, s, u)
  BY <1>1, AppendFollows
<1>3. /\ f \in Seq(0..Nul) /\ Len(f) = n + m /\ Grows(s, f)
      /\ \A k \in 1..n : f[k] = s[k]
      /\ \A k \in 1..m : f[n + k] = l
  BY <1>1, <1>2 DEF Follows, Grows
<1>4. ASSUME NEW k \in 1..(n + m), k > n PROVE f[k] = l
  <2>1. k - n \in 1..m /\ n + (k - n) = k
    BY <1>4
  <2>2. QED
    BY <1>3, <2>1
<1>5. TextEnds(f, l) /\ NotBefore(f, l)
  <2>1. RestOf(s, 0..Nul)
    BY Elements, Lengths DEF RestOf
  <2>2. TextPut(f, s, n, l)
    BY <2>1, TextWritten
  <2>3. QED
    BY <2>2 DEF TextPut
<1>6. Neat(f, dead)
  BY <1>1, <1>2, NeatGrows
<1>7. ASSUME NEW i \in 1..(n + m), NEW j \in 1..(n + m), f[i] \in Line, f[j] = f[i], NEW k \in i..j
      PROVE  f[k] # Newline
  <2>0. k \in 1..(n + m)
    OBVIOUS
  <2>1. CASE j <= n
    <3>1. i <= n \/ i > j
      BY <2>1
    <3>2. CASE i <= n
      <4>1. i \in 1..n /\ j \in 1..n /\ k \in 1..n
        BY <2>1, <3>2
      <4>2. s[i] \in Line /\ s[j] = s[i] /\ f[k] = s[k]
        BY <1>3, <1>7, <4>1
      <4>3. QED
        BY <4>1, <4>2 DEF OnePiece
    <3>3. CASE i > j
      BY <3>3
    <3>4. QED
      BY <3>1, <3>2, <3>3
  <2>2. CASE ~ (j <= n)
    <3>1. f[j] = l
      BY <1>4, <2>2
    <3>2. i > n
      <4>1. ASSUME i <= n PROVE FALSE
        <5>1. i \in 1..n /\ f[i] = s[i]
          BY <1>3, <4>1
        <5>2. QED
          BY <1>7, <3>1, <5>1
      <4>2. QED
        BY <4>1
    <3>3. f[k] = l
      BY <1>4, <2>0, <3>2
    <3>4. QED
      BY <3>3
  <2>3. QED
    BY <2>1, <2>2
<1>8. OnePiece(f)
  <2>1. \A i, j \in 1..(n + m) : f[i] \in Line /\ f[j] = f[i] => \A k \in i..j : f[k] # Newline
    BY <1>7
  <2>2. 1..Len(f) = 1..(n + m)
    BY <1>3
  <2>3. QED
    BY <2>1, <2>2, Zenon DEF OnePiece
<1>9. QED
  BY <1>3, <1>4, <1>5, <1>6, <1>8

\* The newline follows the text.
LEMMA NewlineFollows ==
  ASSUME NEW s \in Seq(0..Nul), NEW l \in Line, NEW dead, Neat(s, dead), OnePiece(s),
         RestOf(s, dead \cup {l}), TextEnds(s, l), NotBefore(s, l),
         NEW u, IsNewline(u), NEW f, f = WriteAt(s, Len(s), u)
  PROVE  /\ f \in Seq(0..Nul) /\ Grows(s, f)
         /\ \A k \in 1..Len(f) : k > Len(s) => f[k] = Newline
         /\ Neat(f, dead) /\ OnePiece(f)
<1> PICK n \in Nat : n = Len(s)
  BY Lengths
<1>1. u \in Seq(0..Nul) /\ Len(u) = 1 /\ u[1] = Newline
  BY NewlineUnit
<1>2. Follows(f, s, u)
  BY <1>1, AppendFollows
<1>3. /\ f \in Seq(0..Nul) /\ Len(f) = n + 1 /\ Grows(s, f)
      /\ \A k \in 1..n : f[k] = s[k]
      /\ f[n + 1] = Newline
  BY <1>1, <1>2 DEF Follows, Grows
<1>4. \A k \in 1..(n + 1) : k > n => f[k] = Newline
  <2>1. \A k \in 1..(n + 1) : k > n => k = n + 1
    OBVIOUS
  <2>2. QED
    BY <1>3, <2>1
<1>5. EndsAt(f, l, n + 1, dead)
  BY LineEnded
<1>6. Neat(f, dead)
  <2>1. \A k \in 1..Len(u) : k = 1
    BY <1>1
  <2>2. \A k \in 1..Len(u) : u[k] = Newline => \E x \in Line : EndsAt(f, x, Len(s) + k, dead)
    BY <1>5, <2>1
  <2>3. QED
    BY <1>1, <1>2, <2>2, NeatGrows
<1>7. ASSUME NEW i \in 1..(n + 1), NEW j \in 1..(n + 1), f[i] \in Line, f[j] = f[i], NEW k \in i..j
      PROVE  f[k] # Newline
  <2>1. i <= n /\ j <= n
    <3>1. f[i] # Newline
      BY <1>7, LineFacts
    <3>2. ~ (i > n) /\ ~ (j > n)
      BY <1>4, <1>7, <3>1
    <3>3. QED
      BY <3>2
  <2>2. i \in 1..n /\ j \in 1..n /\ k \in 1..n
    BY <2>1
  <2>3. s[i] \in Line /\ s[j] = s[i] /\ f[k] = s[k]
    BY <1>3, <1>7, <2>2
  <2>4. QED
    BY <2>2, <2>3 DEF OnePiece
<1>8. OnePiece(f)
  BY <1>3, <1>7 DEF OnePiece
<1>9. QED
  BY <1>3, <1>4, <1>6, <1>8

LEMMA EmptyIsTidy ==
  ASSUME NEW s, s = << >>, NEW dead
  PROVE  Neat(s, dead) /\ OnePiece(s)
<1>1. 1..Len(s) = {}
  OBVIOUS
<1>2. QED
  BY <1>1 DEF Neat, OnePiece

(***************************************************************************)
(* What tail has printed.                                                  *)
(***************************************************************************)

\* ps is what has been printed of s up to o: lines, each once.
Printed(s, ps, o, dead) ==
    /\ Len(ps) > 0 => o \in 1..Len(s) /\ s[o] = Newline
    /\ \A i \in 1..Len(ps) : CutFrom(ps[i], s, 0, o)
    /\ \A i \in 1..Len(ps) : i > 1 => LineOf(ps[i], dead)
    /\ \A i, j \in 1..Len(ps) : i # j => Apart(ps[i], ps[j])

\* A file that grows by other lines, or by a newline, leaves that as it is.
LEMMA PrintedStays ==
  ASSUME NEW s \in Seq(0..Nul), NEW f \in Seq(0..Nul), Grows(s, f),
         NEW ps, NEW o, NEW dead, NEW dead2, dead \subseteq dead2, Printed(s, ps, o, dead),
         \A k \in 1..Len(f) :
             k > Len(s) => f[k] \notin Line \/ \A j \in 1..Len(s) : s[j] # f[k]
  PROVE  Printed(f, ps, o, dead2)
<1> PICK n \in Nat, m \in Nat : n = Len(s) /\ m = Len(f)
  BY Lengths
<1>1. n <= m /\ \A k \in 1..n : k \in 1..m /\ f[k] = s[k]
  BY DEF Grows
<1>2. Len(ps) > 0 => o \in 1..m /\ f[o] = Newline
  BY <1>1 DEF Printed
<1>3. ASSUME NEW i \in 1..Len(ps) PROVE CutFrom(ps[i], f, 0, o)
  <2> SUFFICES ASSUME NEW l \in ToSet(ps[i]) \cap Line
               PROVE  /\ \E k \in 1..m : f[k] = l /\ k > 0
                      /\ \A k \in 1..m : f[k] = l => k <= o
    BY DEF CutFrom
  <2>1. CutFrom(ps[i], s, 0, o)
    BY DEF Printed
  <2>2. PICK k \in 1..n : s[k] = l /\ k > 0
    BY <2>1 DEF CutFrom
  <2>3. ASSUME NEW x \in 1..m, f[x] = l PROVE x <= o
    <3>1. x <= n
      BY <2>2, <2>3
    <3>2. x \in 1..n /\ s[x] = l
      BY <1>1, <2>3, <3>1
    <3>3. QED
      BY <2>1, <3>2 DEF CutFrom
  <2>4. QED
    BY <1>1, <2>2, <2>3
<1>4. ASSUME NEW i \in 1..Len(ps), i > 1 PROVE LineOf(ps[i], dead2)
  <2>1. LineOf(ps[i], dead)
    BY <1>4 DEF Printed
  <2>2. QED
    BY <2>1 DEF LineOf
<1>5. QED
  BY <1>2, <1>3, <1>4 DEF Printed

\* A poll prints the complete lines that follow.
LEMMA PollPrints ==
  ASSUME NEW s \in Seq(0..Nul), NEW dead, Neat(s, dead), OnePiece(s),
         NEW o \in Nat, NEW ps \in Seq(Seq(0..Nul)), Printed(s, ps, o, dead),
         NEW n, NEW a, NEW b, NEW ts, CutPast(s, o, n, a, b, ts)
  PROVE  Printed(s, ps \o ts, b[n], dead)
<1> PICK h \in Nat : h = Len(ps)
  BY Lengths
<1> PICK len \in Nat : len = Len(s)
  BY Lengths
<1>1. /\ n \in Nat \ {0} /\ Len(ts) = n /\ b[n] \in 1..len /\ s[b[n]] = Newline /\ o < b[n]
      /\ \A k \in 1..n : CutFrom(ts[k], s, o, b[n])
      /\ \A k \in 1..n : k > 1 \/ (o >= 1 /\ s[o] = Newline) => LineOf(ts[k], dead)
      /\ \A j, k \in 1..n : j # k => Apart(ts[j], ts[k])
  BY PiecesFacts
<1>2. ts \in Seq(Seq(0..Nul))
  BY DEF CutPast
<1> PICK qs : qs = ps \o ts
  OBVIOUS
<1>3. /\ Len(qs) = h + n
      /\ \A i \in 1..h : qs[i] = ps[i]
      /\ \A i \in 1..(h + n) : i > h => i - h \in 1..n /\ qs[i] = ts[i - h]
  BY <1>1, <1>2
<1>4. ASSUME NEW i \in 1..(h + n)
      PROVE  \/ i \in 1..h /\ qs[i] = ps[i]
             \/ i > h /\ i - h \in 1..n /\ qs[i] = ts[i - h]
  BY <1>3
<1>5. ASSUME NEW i \in 1..(h + n) PROVE CutFrom(qs[i], s, 0, b[n])
  <2>1. CASE i \in 1..h /\ qs[i] = ps[i]
    <3>1. CutFrom(ps[i], s, 0, o) /\ o \in 1..len
      BY <2>1 DEF Printed
    <3>2. QED
      BY <1>1, <2>1, <3>1 DEF CutFrom
  <2>2. CASE i > h /\ i - h \in 1..n /\ qs[i] = ts[i - h]
    <3>1. CutFrom(ts[i - h], s, o, b[n])
      BY <1>1, <2>2
    <3>2. QED
      BY <2>2, <3>1 DEF CutFrom
  <2>3. QED
    BY <1>4, <2>1, <2>2
<1>6. ASSUME NEW i \in 1..(h + n), i > 1 PROVE LineOf(qs[i], dead)
  <2>1. CASE i \in 1..h /\ qs[i] = ps[i]
    BY <1>6, <2>1 DEF Printed
  <2>2. CASE i > h /\ i - h \in 1..n /\ qs[i] = ts[i - h]
    <3>1. i - h > 1 \/ h > 0
      BY <1>6, <2>2
    <3>2. h > 0 => o >= 1 /\ s[o] = Newline
      BY DEF Printed
    <3>3. QED
      BY <1>1, <2>2, <3>1, <3>2
  <2>3. QED
    BY <1>4, <2>1, <2>2
<1>7. ASSUME NEW i \in 1..h, NEW k \in 1..n PROVE Apart(ps[i], ts[k])
  <2> SUFFICES ASSUME NEW l \in Line, l \in ToSet(ps[i]), l \in ToSet(ts[k])
               PROVE  FALSE
    BY DEF Apart
  <2>1. CutFrom(ps[i], s, 0, o) /\ CutFrom(ts[k], s, o, b[n])
    BY <1>1 DEF Printed
  <2>2. PICK x \in 1..len : s[x] = l /\ x > o
    BY <2>1 DEF CutFrom
  <2>3. x <= o
    BY <2>1, <2>2 DEF CutFrom
  <2>4. QED
    BY <2>2, <2>3
<1>8. ASSUME NEW i \in 1..(h + n), NEW j \in 1..(h + n), i # j PROVE Apart(qs[i], qs[j])
  <2>1. CASE i \in 1..h /\ qs[i] = ps[i] /\ j \in 1..h /\ qs[j] = ps[j]
    BY <1>8, <2>1 DEF Printed
  <2>2. CASE i \in 1..h /\ qs[i] = ps[i] /\ j - h \in 1..n /\ qs[j] = ts[j - h]
    BY <1>7, <2>2
  <2>3. CASE i - h \in 1..n /\ qs[i] = ts[i - h] /\ j \in 1..h /\ qs[j] = ps[j]
    <3>1. Apart(qs[j], qs[i])
      BY <1>7, <2>3
    <3>2. QED
      BY <3>1 DEF Apart
  <2>4. CASE i - h \in 1..n /\ qs[i] = ts[i - h] /\ j - h \in 1..n /\ qs[j] = ts[j - h]
    <3>1. i - h # j - h
      BY <1>8
    <3>2. QED
      BY <1>1, <2>4, <3>1
  <2>5. QED
    BY <1>4, <2>1, <2>2, <2>3, <2>4
<1>9. Len(qs) = h + n /\ b[n] \in 1..Len(s) /\ s[b[n]] = Newline
  BY <1>1, <1>3
<1>10. Printed(s, qs, b[n], dead)
  BY <1>5, <1>6, <1>8, <1>9 DEF Printed
<1>11. QED
  BY <1>10

LEMMA SameFront ==
  ASSUME NEW s \in Seq(0..Nul), NEW t \in Seq(0..Nul), NEW n \in Nat, n <= Len(s), n <= Len(t),
         \A i \in 1..n : s[i] = t[i]
  PROVE  SubSeq(s, 1, n) = SubSeq(t, 1, n)
<1>1. \A i \in 1..n : i \in DOMAIN s /\ i \in DOMAIN t
  BY Lengths
<1>2. 1 \in Int /\ n \in Int /\ n - 1 + 1 = n /\ (1 <= n \/ n = 0)
      /\ \A i \in 1..n : s[i] \in 0..Nul /\ t[i] \in 0..Nul
  <2>1. 1 \in Int /\ n \in Int /\ n - 1 + 1 = n /\ (1 <= n \/ n = 0)
    OBVIOUS
  <2>2. ASSUME NEW i \in 1..n PROVE s[i] \in 0..Nul /\ t[i] \in 0..Nul
    BY <1>1, Elements, Zenon
  <2>3. QED
    BY <2>1, <2>2
<1> PICK x : x = SubSeq(s, 1, n)
  OBVIOUS
<1> PICK y : y = SubSeq(t, 1, n)
  OBVIOUS
<1>3. x \in Seq(0..Nul) /\ Len(x) = n /\ \A i \in 1..n : x[i] = s[1 + i - 1]
  BY <1>2, SubSeqProperties
<1>4. y \in Seq(0..Nul) /\ Len(y) = n /\ \A i \in 1..n : y[i] = t[1 + i - 1]
  BY <1>2, SubSeqProperties
<1>5. \A i \in 1..n : 1 + i - 1 = i
  OBVIOUS
<1>6. \A i \in 1..n : x[i] = y[i]
  BY <1>3, <1>4, <1>5
<1>7. x = y
  BY <1>3, <1>4, <1>6
<1>8. QED
  BY <1>7

LEMMA TextIsSuffix ==
  ASSUME NEW t \in Seq(0..Nul), NEW l \in Line, TextEnds(t, l)
  PROVE  IsSuffix(Text(l), t) /\ l \in ToSet(t)
<1> PICK n \in Nat : n = Len(t)
  BY Lengths
<1> PICK m \in Nat : m = LineUnits[l] /\ m > 0
  BY LineFacts
<1> PICK u : u = Text(l)
  OBVIOUS
<1>1. u = [i \in 1..m |-> l] /\ u \in Seq(0..Nul) /\ Len(u) = m
  <2>1. u = [i \in 1..m |-> l] /\ u \in Seq(0..Nul)
    BY TextType DEF Text
  <2>2. QED
    BY <2>1
<1>2. m <= n /\ \A k \in (n - m + 1)..n : t[k] = l
  BY DEF TextEnds
<1>3. l \in ToSet(t)
  <2>1. n \in 1..n /\ n \in (n - m + 1)..n
    BY <1>2
  <2>2. QED
    BY <1>2, <2>1, InToSet, Lengths
<1> DEFINE ru == [i \in 1..m |-> u[m - i + 1]]
           rt == [i \in 1..n |-> t[n - i + 1]]
<1>4. Reverse(u) = ru /\ Reverse(t) = rt
  BY <1>1 DEF Reverse
<1>5. \A i \in 1..m : ru[i] = l /\ rt[i] = l /\ i \in 1..n
  <2> SUFFICES ASSUME NEW i \in 1..m PROVE ru[i] = l /\ rt[i] = l /\ i \in 1..n
    OBVIOUS
  <2>1. i \in 1..n /\ m - i + 1 \in 1..m /\ n - i + 1 \in (n - m + 1)..n
    BY <1>2
  <2>2. QED
    BY <1>1, <1>2, <2>1
<1>6. ru \in Seq(0..Nul) /\ Len(ru) = m /\ rt \in Seq(0..Nul) /\ Len(rt) = n
  <2>1. l \in 0..Nul /\ \A i \in 1..n : t[n - i + 1] \in 0..Nul
    <3>1. ASSUME NEW i \in 1..n PROVE t[n - i + 1] \in 0..Nul
      <4>1. n - i + 1 \in 1..n
        OBVIOUS
      <4>2. QED
        BY <4>1, Elements, Lengths
    <3>2. QED
      BY <3>1, LinesAndUnits
  <2>2. rt \in Seq(0..Nul) /\ Len(rt) = n
    BY <2>1
  <2>3. ru = [i \in 1..m |-> ru[i]] /\ DOMAIN ru = 1..m /\ \A i \in 1..m : ru[i] \in 0..Nul
    BY <1>5, <2>1
  <2>4. ru \in Seq(0..Nul) /\ Len(ru) = m
    <3> HIDE DEF ru
    <3>1. ru \in Seq(0..Nul)
      BY <2>3, BuiltSequence
    <3>2. QED
      BY <2>3, <3>1
  <2>5. QED
    BY <2>2, <2>4
<1> HIDE DEF ru, rt
<1>7. SubSeq(ru, 1, m) = SubSeq(rt, 1, m)
  BY <1>2, <1>5, <1>6, SameFront
<1>8. IsPrefix(ru, rt)
  BY <1>2, <1>6, <1>7 DEF IsPrefix
<1>9. QED
  BY <1>3, <1>4, <1>8 DEF IsSuffix

(***************************************************************************)
(* The invariant behind TailIsFaithful.                                    *)
(***************************************************************************)

\* One write at a time.
Lone == \A p, q \in Writer : w[p].at # "idle" /\ w[q].at # "idle" => p = q

\* It writes at the end of its file.
AtEnd(r) ==
    /\ r.at = "text" /\ r.fresh => data[r.ino] = << >>
    /\ r.at = "newline" =>
           /\ TextEnds(data[r.ino], r.line) /\ NotBefore(data[r.ino], r.line)
           /\ r.fresh => r.pos = Len(data[r.ino])

Tidy == \A i \in Line : Neat(data[i], killed) /\ OnePiece(data[i])

TidyInv == overlapped = {} => Lone /\ (\A p \in Writer : AtEnd(w[p])) /\ Tidy

NamesInv == path # None => path # tmp

SeenInv ==
    /\ seen \in Seq(Line) /\ offset \in Nat \cup {Untracked} /\ out \in Seq(Seq(0..Nul))
    /\ offset = Untracked <=> seen = << >>
    /\ seen = << >> => out = << >>
    /\ ~ follow => seen = << >>

\* The only file the path has named has no other name, and nobody will begin it again.
OnlyFile(i) == path \in {i, None} /\ tmp # i /\ ~ Unborn(i)
FollowInv == Len(seen) = 1 => OnlyFile(seen[1])

PrintedInv ==
    overlapped = {} /\ Len(seen) = 1 => Printed(data[seen[1]], out, offset, killed)

TailInv == TidyInv /\ NamesInv /\ SeenInv /\ FollowInv /\ PrintedInv

LEMMA InitTail ==
  ASSUME Init
  PROVE  TailInv
<1>1. \A p \in Writer : w[p].at = "idle"
  BY DEF Init, Idle
<1>2. Len(seen) = 0 /\ seen = << >> /\ out = << >> /\ offset = Untracked /\ path = None /\ ~ follow
  BY DEF Init
<1>3. \A i \in Line : data[i] = << >>
  BY DEF Init
<1>4. Tidy
  BY <1>3, EmptyIsTidy DEF Tidy
<1>5. TidyInv
  BY <1>1, <1>4 DEF TidyInv, Lone, AtEnd
<1>6. NamesInv /\ FollowInv /\ PrintedInv
  BY <1>2 DEF NamesInv, FollowInv, PrintedInv
<1>7. SeenInv
  <2>1. seen \in Seq(Line) /\ out \in Seq(Seq(0..Nul))
    BY <1>2
  <2>2. QED
    BY <1>2, <2>1 DEF SeenInv
<1>8. QED
  BY <1>5, <1>6, <1>7 DEF TailInv

\* Files that nobody writes to stay tidy.
LEMMA TidyStays ==
  ASSUME RetentionInv, Tidy, NEW i \in Line, data'[i] = data[i], killed \subseteq killed'
  PROVE  Neat(data'[i], killed') /\ OnePiece(data'[i])
<1> PICK s \in Seq(0..Nul) : s = data[i]
  BY DEF RetentionInv, TypeInv
<1>1. Grows(s, s) /\ Neat(s, killed) /\ OnePiece(s)
  BY Lengths DEF Grows, Tidy
<1>2. Neat(s, killed')
  <2> SUFFICES ASSUME NEW e \in 1..Len(s), s[e] = Newline
               PROVE  \E l \in Line : EndsAt(s, l, e, killed')
    BY DEF Neat
  <2>1. PICK l \in Line : EndsAt(s, l, e, killed)
    BY <1>1 DEF Neat
  <2>2. EndsAt(s, l, e, killed')
    BY <1>1, <2>1, EndsAtKept
  <2>3. QED
    BY <2>2
<1>3. QED
  BY <1>1, <1>2

\* A writer moves and writes nothing.
LEMMA TidyMove ==
  ASSUME RetentionInv, TidyInv, NEW p \in Writer, w[p].at # "idle",
         NEW r, w' = [w EXCEPT ![p] = r], r.at # "newline", r.at = "text" => ~ r.fresh,
         UNCHANGED <<data, overlapped>>, killed \subseteq killed'
  PROVE  TidyInv'
<1> SUFFICES ASSUME overlapped = {}
             PROVE  Lone' /\ (\A q \in Writer : AtEnd(w[q])') /\ Tidy'
  BY DEF TidyInv
<1>1. Lone /\ (\A q \in Writer : AtEnd(w[q])) /\ Tidy
  BY DEF TidyInv
<1>2. w'[p] = r /\ \A q \in Writer \ {p} : w'[q] = w[q]
  BY DEF RetentionInv, TypeInv
<1>3. Lone'
  BY <1>1, <1>2 DEF Lone
<1>4. ASSUME NEW q \in Writer PROVE AtEnd(w[q])'
  <2>1. CASE q = p
    BY <1>2, <2>1 DEF AtEnd
  <2>2. CASE q # p
    BY <1>1, <1>2, <2>2 DEF AtEnd
  <2>3. QED
    BY <2>1, <2>2
<1>5. Tidy'
  <2>1. ASSUME NEW i \in Line PROVE Neat(data'[i], killed') /\ OnePiece(data'[i])
    BY <1>1, TidyStays
  <2>2. QED
    BY <2>1 DEF Tidy
<1>6. QED
  BY <1>3, <1>4, <1>5

\* Nobody moves.
LEMMA TidyRest ==
  ASSUME TidyInv, UNCHANGED <<w, data, killed, overlapped>>
  PROVE  TidyInv'
<1>1. Lone' = Lone /\ Tidy' = Tidy
  BY DEF Lone, Tidy
<1>2. \A q \in Writer : AtEnd(w[q])' = AtEnd(w[q])
  BY DEF AtEnd
<1>3. QED
  BY <1>1, <1>2 DEF TidyInv

\* The only one at work writes.
LEMMA TidyWrite ==
  ASSUME RetentionInv, TidyInv, NEW p \in Writer, w[p].at # "idle", NEW ino \in Line,
         \A q \in Writer \ {p} : w'[q] = w[q], UNCHANGED <<killed, overlapped>>,
         \A i \in Line \ {ino} : data'[i] = data[i],
         overlapped = {} => AtEnd(w[p])' /\ Neat(data'[ino], killed) /\ OnePiece(data'[ino])
  PROVE  TidyInv'
<1> SUFFICES ASSUME overlapped = {}
             PROVE  Lone' /\ (\A q \in Writer : AtEnd(w[q])') /\ Tidy'
  BY DEF TidyInv
<1>1. Lone /\ Tidy
  BY DEF TidyInv
<1>2. \A q \in Writer \ {p} : w'[q] = w[q] /\ w[q].at = "idle"
  BY <1>1 DEF Lone
<1>3. Lone'
  BY <1>2 DEF Lone
<1>4. ASSUME NEW q \in Writer PROVE AtEnd(w[q])'
  <2>1. q # p => w'[q].at = "idle"
    BY <1>2
  <2>2. QED
    BY <2>1 DEF AtEnd
<1>5. Tidy'
  <2>1. ASSUME NEW i \in Line PROVE Neat(data'[i], killed') /\ OnePiece(data'[i])
    <3>1. CASE i = ino
      BY <3>1
    <3>2. CASE i # ino
      BY <1>1, <3>2, TidyStays
    <3>3. QED
      BY <3>1, <3>2
  <2>2. QED
    BY <2>1 DEF Tidy
<1>6. QED
  BY <1>3, <1>4, <1>5

\* An inode that is there stays there.
LEMMA BornStays ==
  ASSUME NEW p \in Writer, \A q \in Writer \ {p} : w'[q] = w[q], next' = next,
         w'[p].at \in Opening => w[p].at \in Opening /\ w'[p].line = w[p].line,
         NEW l, ~ Unborn(l)
  PROVE  ~ Unborn(l)'
  BY DEF Unborn

\* Neither tail nor the file it is in changes; a temp file may begin.
LEMMA TailStands ==
  ASSUME RetentionInv, TailInv, UNCHANGED <<follow, offset, out, seen>>,
         killed \subseteq killed', overlapped \subseteq overlapped',
         path' \in {path, None},
         tmp' \in {tmp, None} \/ (tmp' \in Line /\ Unborn(tmp')),
         \A l \in Line : ~ Unborn(l) /\ l # tmp => ~ Unborn(l)' /\ data'[l] = data[l]
  PROVE  NamesInv' /\ SeenInv' /\ FollowInv' /\ PrintedInv'
<1>1. NamesInv /\ SeenInv /\ FollowInv /\ PrintedInv /\ tmp \in Inode /\ data \in [Line -> Seq(0..Nul)]
  BY DEF TailInv, RetentionInv, TypeInv
<1>2. NamesInv' /\ SeenInv'
  <2>1. tmp' \in Line /\ Unborn(tmp') => path # tmp'
    BY DEF RetentionInv, UnbornInv
  <2>2. QED
    BY <1>1, <2>1 DEF NamesInv, SeenInv
<1>3. ASSUME Len(seen) = 1
      PROVE  seen[1] \in Line /\ OnlyFile(seen[1])' /\ data'[seen[1]] = data[seen[1]]
  <2>1. seen[1] \in Line
    <3>1. 1 \in DOMAIN seen
      BY <1>1, <1>3 DEF SeenInv
    <3>2. QED
      BY <1>1, <3>1, Elements DEF SeenInv
  <2>2. OnlyFile(seen[1])
    BY <1>1, <1>3 DEF FollowInv
  <2>3. seen[1] # None
    BY <2>1, LinesAndUnits
  <2>4. path \in {seen[1], None} /\ tmp # seen[1] /\ ~ Unborn(seen[1])
    BY <2>2 DEF OnlyFile
  <2>5. ~ Unborn(seen[1])' /\ data'[seen[1]] = data[seen[1]]
    BY <2>1, <2>4
  <2>6. tmp' # seen[1] /\ path' \in {seen[1], None}
    BY <2>3, <2>4
  <2>7. QED
    BY <2>1, <2>5, <2>6 DEF OnlyFile
<1>4. FollowInv'
  BY <1>3 DEF FollowInv
<1>5. ASSUME overlapped' = {}, Len(seen) = 1
      PROVE  Printed(data'[seen[1]], out, offset, killed')
  <2>1. Printed(data[seen[1]], out, offset, killed)
    BY <1>1, <1>5 DEF PrintedInv
  <2> PICK s \in Seq(0..Nul) : s = data[seen[1]]
    BY <1>1, <1>3, <1>5
  <2>2. Grows(s, s) /\ \A k \in 1..Len(s) : ~ (k > Len(s))
    BY Lengths DEF Grows
  <2>3. Printed(s, out, offset, killed')
    BY <2>1, <2>2, PrintedStays
  <2>4. QED
    BY <1>3, <1>5, <2>3
<1>6. PrintedInv'
  BY <1>5 DEF PrintedInv
<1>7. QED
  BY <1>2, <1>4, <1>6

\* The path names a new file.
LEMMA TailMoves ==
  ASSUME TailInv, UNCHANGED <<follow, offset, out>>, NEW l \in Line,
         seen' = IF offset # Untracked THEN Append(seen, l) ELSE seen
  PROVE  SeenInv' /\ FollowInv' /\ PrintedInv'
<1>1. SeenInv
  BY DEF TailInv
<1>2. CASE offset # Untracked
  <2>1. seen # << >> /\ seen \in Seq(Line) /\ seen' = Append(seen, l)
    BY <1>1, <1>2 DEF SeenInv
  <2>2. seen' \in Seq(Line) /\ seen' # << >> /\ Len(seen') # 1
    BY <2>1
  <2>3. QED
    BY <1>1, <1>2, <2>2 DEF SeenInv, FollowInv, PrintedInv
<1>3. CASE offset = Untracked
  <2>1. seen' = << >> /\ Len(seen') # 1 /\ seen' = seen
    BY <1>1, <1>3 DEF SeenInv
  <2>2. QED
    BY <1>1, <2>1 DEF SeenInv, FollowInv, PrintedInv
<1>4. QED
  BY <1>2, <1>3

(***************************************************************************)
(* Each step keeps it.                                                     *)
(***************************************************************************)

\* Retention, the clock, and nobody.
LEMMA OthersTail ==
  ASSUME RetentionInv, TailInv,
         \/ Tick \/ DeleteListed \/ Prune \/ UNCHANGED vars
         \/ \E days \in Days : Collect(days)
  PROVE  TailInv'
<1>1. /\ UNCHANGED <<w, next, data, killed, overlapped, follow, offset, out, seen>>
      /\ path' \in {path, None} /\ tmp' \in {tmp, None}
  <2>1. CASE DeleteListed
    BY <2>1 DEF DeleteListed, tail
  <2>2. CASE Tick \/ Prune \/ UNCHANGED vars \/ \E days \in Days : Collect(days)
    BY <2>2 DEF Tick, Prune, Collect, vars, store, blame, tail
  <2>3. QED
    BY <2>1, <2>2
<1>2. TidyInv'
  BY <1>1, TidyRest DEF TailInv
<1>3. \A l \in Line : ~ Unborn(l) => ~ Unborn(l)' /\ data'[l] = data[l]
  BY <1>1 DEF Unborn
<1>4. NamesInv' /\ SeenInv' /\ FollowInv' /\ PrintedInv'
  BY <1>1, <1>3, TailStands
<1>5. QED
  BY <1>2, <1>4 DEF TailInv

LEMMA ReceiveTail ==
  ASSUME RetentionInv, TailInv, NEW p \in Writer, Receive(p)
  PROVE  TailInv'
<1> DEFINE r == [Idle EXCEPT !.at = "mkdir", !.line = next]
<1>1. /\ w \in [Writer -> Progress] /\ WriterInv /\ next \in Line /\ next' = next + 1
      /\ w' = [w EXCEPT ![p] = r]
      /\ UNCHANGED <<path, tmp, data, killed, follow, offset, out, seen>>
      /\ overlapped' = IF InFlight = {} THEN overlapped
                       ELSE overlapped \cup InFlight \cup {next}
  BY DEF RetentionInv, TypeInv, Receive, store, tail
<1>2. r.at = "mkdir" /\ r.line = next
  BY DEF Idle
<1> HIDE DEF r
<1>3. w'[p] = r /\ \A q \in Writer \ {p} : w'[q] = w[q]
  BY <1>1
<1>4. ASSUME overlapped' = {}
      PROVE  overlapped = {} /\ \A q \in Writer : w[q].at = "idle"
  <2>1. InFlight = {} /\ overlapped = {}
    BY <1>1, <1>4
  <2>2. \A q \in Writer : w[q].line = None
    BY <2>1 DEF InFlight
  <2>3. QED
    BY <1>1, <2>1, <2>2 DEF WriterInv
<1>5. TidyInv'
  <2> SUFFICES ASSUME overlapped' = {}
               PROVE  Lone' /\ (\A q \in Writer : AtEnd(w[q])') /\ Tidy'
    BY DEF TidyInv
  <2>1. overlapped = {} /\ \A q \in Writer \ {p} : w'[q].at = "idle"
    BY <1>3, <1>4
  <2>2. Lone' /\ \A q \in Writer : AtEnd(w[q])'
    BY <1>2, <1>3, <2>1 DEF Lone, AtEnd
  <2>3. Tidy'
    BY <1>1, <2>1 DEF TailInv, TidyInv, Tidy
  <2>4. QED
    BY <2>2, <2>3
<1>6. ASSUME NEW l \in Line, ~ Unborn(l)
      PROVE  ~ Unborn(l)'
  <2>1. l \in Nat /\ next \in Nat
    BY <1>1, LinesAndUnits
  <2>2. ~ (l >= next) /\ ~ (l >= next')
    BY <1>1, <1>6, <2>1 DEF Unborn
  <2>3. l # next
    BY <2>1, <2>2
  <2>4. QED
    BY <1>2, <1>3, <1>6, <2>2, <2>3 DEF Unborn
<1>7. overlapped \subseteq overlapped'
  BY <1>1
<1>8. NamesInv' /\ SeenInv' /\ FollowInv' /\ PrintedInv'
  BY <1>1, <1>6, <1>7, TailStands
<1>9. QED
  BY <1>5, <1>8 DEF TailInv

\* A writer moves and touches no file.
LEMMA MoveTail ==
  ASSUME RetentionInv, TailInv, NEW p \in Writer, w[p].at # "idle",
         NEW r, w' = [w EXCEPT ![p] = r], r.at # "newline", r.at = "text" => ~ r.fresh,
         r.at \in Opening => w[p].at \in Opening /\ r.line = w[p].line,
         UNCHANGED <<data, overlapped, next, follow, offset, out>>, killed \subseteq killed',
         \/ UNCHANGED <<path, tmp, seen>>
         \/ /\ path' \in Line /\ path' # tmp'
            /\ seen' = IF offset # Untracked THEN Append(seen, path') ELSE seen
  PROVE  TailInv'
<1>1. w'[p] = r /\ \A q \in Writer \ {p} : w'[q] = w[q]
  BY DEF RetentionInv, TypeInv
<1>2. TidyInv'
  BY TidyMove DEF TailInv
<1>3. CASE UNCHANGED <<path, tmp, seen>>
  <2>1. \A l \in Line : ~ Unborn(l) => ~ Unborn(l)' /\ data'[l] = data[l]
    BY <1>1, BornStays
  <2>2. NamesInv' /\ SeenInv' /\ FollowInv' /\ PrintedInv'
    BY <1>3, <2>1, TailStands
  <2>3. QED
    BY <1>2, <2>2 DEF TailInv
<1>4. CASE /\ path' \in Line /\ path' # tmp'
           /\ seen' = IF offset # Untracked THEN Append(seen, path') ELSE seen
  <2>1. SeenInv' /\ FollowInv' /\ PrintedInv'
    BY <1>4, TailMoves
  <2>2. NamesInv'
    BY <1>4 DEF NamesInv
  <2>3. QED
    BY <1>2, <2>1, <2>2 DEF TailInv
<1>5. QED
  BY <1>3, <1>4

LEMMA OpeningTail ==
  ASSUME RetentionInv, TailInv, NEW p \in Writer,
         MakeDir(p) \/ Exists(p) \/ OpenFails(p) \/ OpenAppend(p) \/ Rename(p) \/ Kill(p)
  PROVE  TailInv'
<1>1. /\ w \in [Writer -> Progress] /\ w[p] \in Progress /\ WriterInv /\ UnbornInv
      /\ path \in Inode /\ tmp \in Inode /\ NamesInv
  BY DEF RetentionInv, TypeInv, TailInv
<1>2. Idle.at = "idle" /\ "idle" \notin Opening
  BY DEF Idle, Opening
\* It gives up, is killed, or goes on without an open file.
<1>3. ASSUME w' = [w EXCEPT ![p] = Idle], w[p].at # "idle",
             UNCHANGED <<data, overlapped, next, follow, offset, out>>, killed \subseteq killed',
             \/ UNCHANGED <<path, tmp, seen>>
             \/ /\ path' \in Line /\ path' # tmp'
                /\ seen' = IF offset # Untracked THEN Append(seen, path') ELSE seen
      PROVE  TailInv'
  BY <1>2, <1>3, MoveTail
<1>4. ASSUME NEW at \in Opening, Step(p, at), w[p].at \in Opening,
             UNCHANGED <<path, tmp, seen, data, overlapped, next, follow, offset, out, killed>>
      PROVE  TailInv'
  <2> DEFINE r == [w[p] EXCEPT !.at = at]
  <2>1. r.at = at /\ r.line = w[p].line /\ w' = [w EXCEPT ![p] = r]
    BY <1>1, <1>4 DEF Step, Progress
  <2> HIDE DEF r
  <2>2. r.at # "newline" /\ r.at # "text" /\ w[p].at # "idle"
    BY <1>4, <2>1 DEF Opening
  <2>3. QED
    BY <1>4, <2>1, <2>2, MoveTail
<1>5. CASE MakeDir(p)
  <2>1. /\ w[p].at \in {"mkdir", "mkparent", "mkleaf"}
        /\ UNCHANGED <<path, tmp, seen, data, overlapped, next, follow, offset, out, killed>>
        /\ \/ Step(p, "exists") \/ Step(p, "mkleaf") \/ Step(p, "mkparent")
           \/ w' = [w EXCEPT ![p] = Idle]
    <3>1. /\ w[p].at \in {"mkdir", "mkparent", "mkleaf"}
          /\ UNCHANGED <<path, tmp, seen, data, overlapped, next, follow, offset, out, killed>>
      BY <1>5 DEF MakeDir, tail, blame
    <3>2. depth \in 0..2
      BY DEF RetentionInv, TypeInv
    <3>3. CASE w[p].at = "mkparent"
      BY <1>5, <3>1, <3>3 DEF MakeDir
    <3>4. CASE w[p].at # "mkparent" /\ depth > 0
      <4>1. depth # 0
        BY <3>2, <3>4
      <4>2. Step(p, "exists")
        BY <1>5, <3>1, <3>4, <4>1 DEF MakeDir
      <4>3. QED
        BY <3>1, <4>2
    <3>5. CASE w[p].at = "mkdir" /\ depth = 0
      BY <1>5, <3>1, <3>5 DEF MakeDir
    <3>6. CASE w[p].at = "mkleaf" /\ depth = 0
      BY <1>5, <3>1, <3>6 DEF MakeDir, Fails
    <3>7. QED
      BY <3>1, <3>2, <3>3, <3>4, <3>5, <3>6
  <2>2. w[p].at \in Opening /\ w[p].at # "idle" /\ {"exists", "mkleaf", "mkparent"} \subseteq Opening
    BY <2>1 DEF Opening
  <2>3. QED
    BY <1>3, <1>4, <2>1, <2>2
<1>6. CASE Exists(p)
  <2>1. /\ w[p].at = "exists"
        /\ UNCHANGED <<path, tmp, seen, data, overlapped, next, follow, offset, out, killed>>
        /\ Step(p, "append") \/ Step(p, "create")
    BY <1>6 DEF Exists, store, tail, blame
  <2>2. w[p].at \in Opening /\ {"append", "create"} \subseteq Opening
    BY <2>1 DEF Opening
  <2>3. QED
    BY <1>4, <2>1, <2>2
<1>7. CASE OpenFails(p)
  <2>1. /\ w[p].at # "idle" /\ w' = [w EXCEPT ![p] = Idle]
        /\ UNCHANGED <<path, tmp, seen, data, overlapped, next, follow, offset, out, killed>>
    BY <1>7 DEF OpenFails, Fails, store, tail, blame
  <2>2. QED
    BY <1>3, <2>1
<1>8. CASE Kill(p)
  <2>1. /\ w[p].at # "idle" /\ w' = [w EXCEPT ![p] = Idle] /\ killed \subseteq killed'
        /\ UNCHANGED <<path, tmp, seen, data, overlapped, next, follow, offset, out>>
    BY <1>8 DEF Kill, store, tail, blame
  <2>2. QED
    BY <1>3, <2>1
<1>9. CASE Rename(p)
  <2>1. /\ w[p].at # "idle" /\ w' = [w EXCEPT ![p] = Idle]
        /\ UNCHANGED <<data, overlapped, next, follow, offset, out, killed>>
        /\ \/ UNCHANGED <<path, tmp, seen>>
           \/ /\ tmp # None /\ path' = tmp /\ tmp' = None
              /\ seen' = IF offset # Untracked THEN Append(seen, tmp) ELSE seen
    BY <1>9 DEF Rename, Fails, blame
  <2>2. tmp # None => tmp \in Line
    BY <1>1 DEF Inode
  <2>3. QED
    BY <1>3, <2>1, <2>2
<1>10. CASE OpenAppend(p)
  <2> PICK l : l = w[p].line
    OBVIOUS
  <2> PICK ino : ino = IF path # None THEN path ELSE l
    OBVIOUS
  <2>1. /\ w[p].at = "append" /\ Opened(p, ino, FALSE)
        /\ UNCHANGED <<tmp, data, overlapped, next, follow, offset, out, killed>>
        /\ \/ UNCHANGED <<path, seen>>
           \/ /\ path' = l
              /\ seen' = IF offset # Untracked THEN Append(seen, l) ELSE seen
    BY <1>10 DEF OpenAppend, blame
  <2> DEFINE r == [w[p] EXCEPT !.at = "text", !.ino = ino, !.fresh = FALSE]
  <2>2. r.at = "text" /\ ~ r.fresh /\ w' = [w EXCEPT ![p] = r]
    BY <1>1, <2>1 DEF Opened, Progress
  <2> HIDE DEF r
  <2>3. l \in Line /\ tmp # l
    <3>1. l \in Line
      BY <1>1, <2>1 DEF WriterInv, Progress, Inode
    <3>2. Unborn(l)
      BY <2>1 DEF Unborn, Opening
    <3>3. QED
      BY <1>1, <3>1, <3>2 DEF UnbornInv
  <2>4. "text" \notin Opening /\ "text" # "newline" /\ w[p].at # "idle"
    BY <2>1 DEF Opening
  <2>5. QED
    BY <2>1, <2>2, <2>3, <2>4, MoveTail
<1>11. QED
  BY <1>5, <1>6, <1>7, <1>8, <1>9, <1>10

LEMMA OpenTmpTail ==
  ASSUME RetentionInv, TailInv, NEW p \in Writer, OpenTmp(p)
  PROVE  TailInv'
<1> PICK l : l = w[p].line
  OBVIOUS
<1> PICK ino : ino = IF tmp = None THEN l ELSE tmp
  OBVIOUS
<1>1. /\ w \in [Writer -> Progress] /\ w[p] \in Progress /\ WriterInv
      /\ data \in [Line -> Seq(0..Nul)] /\ tmp \in Inode
  BY DEF RetentionInv, TypeInv
<1>2. /\ w[p].at = "create" /\ Opened(p, ino, TRUE) /\ tmp' = ino
      /\ data' = [data EXCEPT ![ino] = << >>]
      /\ UNCHANGED <<path, seen, overlapped, next, follow, offset, out, killed>>
  BY DEF OpenTmp, blame, tail
<1> DEFINE r == [w[p] EXCEPT !.at = "text", !.ino = ino, !.fresh = TRUE]
<1>3. r.at = "text" /\ r.ino = ino /\ w' = [w EXCEPT ![p] = r]
  BY <1>1, <1>2 DEF Opened, Progress
<1> HIDE DEF r
<1>4. l \in Line /\ Unborn(l) /\ ino \in Line
  BY <1>1, <1>2 DEF WriterInv, Progress, Inode, Unborn, Opening
<1>5. /\ w'[p] = r /\ \A q \in Writer \ {p} : w'[q] = w[q]
      /\ data'[ino] = << >> /\ \A i \in Line \ {ino} : data'[i] = data[i]
  BY <1>1, <1>2, <1>3, <1>4
<1>6. TidyInv'
  <2>1. AtEnd(w[p])'
    BY <1>3, <1>5 DEF AtEnd
  <2>2. Neat(data'[ino], killed) /\ OnePiece(data'[ino])
    BY <1>5, EmptyIsTidy
  <2>3. w[p].at # "idle"
    BY <1>2
  <2>4. QED
    BY <1>2, <1>4, <1>5, <2>1, <2>2, <2>3, TidyWrite DEF TailInv
<1>7. ASSUME NEW i \in Line, ~ Unborn(i), i # tmp
      PROVE  ~ Unborn(i)' /\ data'[i] = data[i]
  <2>1. i # ino
    BY <1>4, <1>7
  <2>2. w'[p].at \notin Opening
    BY <1>3, <1>5 DEF Opening
  <2>3. QED
    BY <1>2, <1>5, <1>7, <2>1, <2>2, BornStays
<1>8. NamesInv' /\ SeenInv' /\ FollowInv' /\ PrintedInv'
  <2>1. tmp' \in {tmp, None} \/ (tmp' \in Line /\ Unborn(tmp'))
    BY <1>2, <1>4
  <2>2. QED
    BY <1>2, <1>7, <2>1, TailStands
<1>9. QED
  BY <1>6, <1>8 DEF TailInv

\* A file that tail is in grows, or another one does.
LEMMA GrowTail ==
  ASSUME RetentionInv, TailInv, NEW p \in Writer, \A q \in Writer \ {p} : w'[q] = w[q],
         w'[p].at \notin Opening,
         UNCHANGED <<path, tmp, seen, overlapped, next, follow, offset, out, killed>>,
         NEW ino \in Line, data'[ino] \in Seq(0..Nul),
         \A i \in Line \ {ino} : data'[i] = data[i],
         overlapped = {} =>
             /\ Grows(data[ino], data'[ino])
             /\ \A k \in 1..Len(data'[ino]) : k > Len(data[ino]) =>
                    \/ data'[ino][k] \notin Line
                    \/ \A j \in 1..Len(data[ino]) : data[ino][j] # data'[ino][k]
  PROVE  NamesInv' /\ SeenInv' /\ FollowInv' /\ PrintedInv'
<1>1. NamesInv /\ SeenInv /\ FollowInv /\ PrintedInv /\ data \in [Line -> Seq(0..Nul)]
  BY DEF TailInv, RetentionInv, TypeInv
<1>2. NamesInv' /\ SeenInv'
  BY <1>1 DEF NamesInv, SeenInv
<1>3. ASSUME Len(seen) = 1 PROVE seen[1] \in Line
  <2>1. 1 \in DOMAIN seen
    BY <1>1, <1>3 DEF SeenInv
  <2>2. QED
    BY <1>1, <2>1, Elements DEF SeenInv
<1>4. \A i \in Line : ~ Unborn(i) => ~ Unborn(i)'
  BY BornStays
<1>5. FollowInv'
  BY <1>1, <1>3, <1>4 DEF FollowInv, OnlyFile
<1>6. ASSUME overlapped = {}, Len(seen) = 1
      PROVE  Printed(data'[seen[1]], out, offset, killed)
  <2>1. Printed(data[seen[1]], out, offset, killed) /\ seen[1] \in Line
    BY <1>1, <1>3, <1>6 DEF PrintedInv
  <2>2. CASE seen[1] # ino
    BY <2>1, <2>2
  <2>3. CASE seen[1] = ino
    <3>1. data[ino] \in Seq(0..Nul) /\ killed \subseteq killed
      BY <1>1
    <3>2. QED
      BY <1>6, <2>1, <2>3, <3>1, PrintedStays
  <2>4. QED
    BY <2>2, <2>3
<1>7. PrintedInv'
  BY <1>6 DEF PrintedInv
<1>8. QED
  BY <1>2, <1>5, <1>7

LEMMA WriteTextTail ==
  ASSUME RetentionInv, StayInv, TailInv, NEW p \in Writer, WriteText(p)
  PROVE  TailInv'
<1> PICK l : l = w[p].line
  OBVIOUS
<1> PICK ino : ino = w[p].ino
  OBVIOUS
<1>1. /\ w \in [Writer -> Progress] /\ w[p] \in Progress /\ WriterInv
      /\ w[p].at = "text" /\ InPlace(w[p]) /\ data \in [Line -> Seq(0..Nul)]
  BY DEF RetentionInv, TypeInv, StayInv, PlaceInv, WriteText
<1>2. /\ Write(p, Text(l)) /\ w' = [w EXCEPT ![p].at = "newline", ![p].pos = @ + LineUnits[l]]
      /\ UNCHANGED <<path, tmp, seen, overlapped, next, follow, offset, out, killed>>
  BY DEF WriteText, blame, tail
<1>3. l \in Line /\ ino \in Line /\ w[p].pos = 0 /\ LineUnits[l] \in Nat
  BY <1>1, LineFacts DEF WriterInv, Progress, Inode, InPlace, Opening
<1>4. /\ w'[p].at = "newline" /\ w'[p].line = l /\ w'[p].ino = ino
      /\ w'[p].fresh = w[p].fresh /\ w'[p].pos = LineUnits[l]
      /\ \A q \in Writer \ {p} : w'[q] = w[q]
  BY <1>1, <1>2, <1>3 DEF Progress
<1> PICK s \in Seq(0..Nul) : s = data[ino]
  BY <1>1, <1>3
<1> PICK pos : pos = IF w[p].fresh THEN w[p].pos ELSE Len(data[ino])
  OBVIOUS
<1>5. /\ data'[ino] = WriteAt(s, pos, Text(l)) /\ data'[ino] \in Seq(0..Nul)
      /\ \A i \in Line \ {ino} : data'[i] = data[i]
  <2>1. Text(l) \in Seq(0..Nul) /\ Write(p, Text(l))
    BY <1>2, <1>3, TextType
  <2>2. pos \in Nat /\ Puts(ino, pos, Text(l))
    BY <1>3, <2>1, WriteStep
  <2>3. QED
    BY <1>3, <2>1, <2>2, WriteAtType DEF Puts
\* The line is in no file yet.
<1>6. \A k \in 1..Len(s) : s[k] # l
  <2> SUFFICES ASSUME NEW k \in 1..Len(s), s[k] = l PROVE FALSE
    OBVIOUS
  <2>1. l \in Holds(ino)
    BY <1>3, Lengths DEF Holds, ToSet
  <2>2. Unwritten(l)
    BY <1>1 DEF Unwritten
  <2>3. QED
    BY <1>3, <2>1, <2>2 DEF RetentionInv, TimeInv
<1> PICK f : f = data'[ino]
  OBVIOUS
<1>7. ASSUME overlapped = {}
      PROVE  /\ Grows(s, f) /\ TextEnds(f, l) /\ NotBefore(f, l)
             /\ Neat(f, killed) /\ OnePiece(f)
             /\ \A k \in 1..Len(f) : k > Len(s) => f[k] = l
             /\ w[p].fresh => Len(f) = LineUnits[l]
  <2>1. AtEnd(w[p]) /\ Neat(s, killed) /\ OnePiece(s)
    BY <1>3, <1>7 DEF TailInv, TidyInv, Tidy
  <2>2. w[p].fresh => Len(s) = 0
    BY <1>1, <2>1 DEF AtEnd
  <2>3. pos = Len(s)
    BY <1>3, <2>2
  <2>4. f = WriteAt(s, Len(s), Text(l))
    BY <1>5, <2>3
  <2>5. /\ Len(f) = Len(s) + LineUnits[l] /\ Grows(s, f)
        /\ TextEnds(f, l) /\ NotBefore(f, l) /\ Neat(f, killed) /\ OnePiece(f)
        /\ \A k \in 1..Len(f) : k > Len(s) => f[k] = l
    BY <1>3, <1>6, <2>1, <2>4, TextFollows
  <2>6. QED
    BY <1>3, <2>2, <2>5
<1>8. TidyInv'
  <2>1. overlapped = {} => AtEnd(w[p])'
    BY <1>4, <1>7 DEF AtEnd, TextEnds, NotBefore
  <2>2. overlapped = {} => Neat(data'[ino], killed) /\ OnePiece(data'[ino])
    BY <1>7
  <2>3. w[p].at # "idle"
    BY <1>1
  <2>4. QED
    BY <1>2, <1>3, <1>4, <1>5, <2>1, <2>2, <2>3, TidyWrite DEF TailInv
<1>9. NamesInv' /\ SeenInv' /\ FollowInv' /\ PrintedInv'
  <2>1. w'[p].at \notin Opening
    BY <1>4 DEF Opening
  <2>2. overlapped = {} =>
          /\ Grows(data[ino], data'[ino])
          /\ \A k \in 1..Len(data'[ino]) : k > Len(data[ino]) =>
                 \/ data'[ino][k] \notin Line
                 \/ \A j \in 1..Len(data[ino]) : data[ino][j] # data'[ino][k]
    BY <1>6, <1>7
  <2>3. QED
    BY <1>2, <1>3, <1>4, <1>5, <2>1, <2>2, GrowTail
<1>10. QED
  BY <1>8, <1>9 DEF TailInv

LEMMA WriteNewlineTail ==
  ASSUME RetentionInv, StayInv, TailInv, NEW p \in Writer, WriteNewline(p)
  PROVE  TailInv'
<1> PICK l : l = w[p].line
  OBVIOUS
<1> PICK ino : ino = w[p].ino
  OBVIOUS
<1> PICK u : IsNewline(u)
  BY DEF IsNewline
<1>1. /\ w \in [Writer -> Progress] /\ w[p] \in Progress /\ WriterInv
      /\ w[p].at = "newline" /\ data \in [Line -> Seq(0..Nul)] /\ RestInv
  BY DEF RetentionInv, TypeInv, StayInv, WriteNewline
<1>2. /\ Write(p, u)
      /\ UNCHANGED <<path, tmp, seen, overlapped, next, follow, offset, out, killed>>
      /\ IF w[p].fresh THEN Step(p, "rename") ELSE w' = [w EXCEPT ![p] = Idle]
  BY DEF WriteNewline, blame, tail, IsNewline
<1>3. l \in Line /\ ino \in Line
  BY <1>1 DEF WriterInv, Progress, Inode
<1>4. w'[p].at \in {"rename", "idle"} /\ \A q \in Writer \ {p} : w'[q] = w[q]
  BY <1>1, <1>2 DEF Step, Progress, Idle
<1> PICK s \in Seq(0..Nul) : s = data[ino]
  BY <1>1, <1>3
<1> PICK pos : pos = IF w[p].fresh THEN w[p].pos ELSE Len(data[ino])
  OBVIOUS
<1>5. /\ data'[ino] = WriteAt(s, pos, u) /\ data'[ino] \in Seq(0..Nul)
      /\ \A i \in Line \ {ino} : data'[i] = data[i]
  <2>1. u \in Seq(0..Nul) /\ Write(p, u)
    BY <1>2, NewlineUnit
  <2>2. pos \in Nat /\ Puts(ino, pos, u)
    BY <1>3, <2>1, WriteStep
  <2>3. QED
    BY <1>3, <2>1, <2>2, WriteAtType DEF Puts
<1> PICK f : f = data'[ino]
  OBVIOUS
<1>6. ASSUME overlapped = {}
      PROVE  /\ Grows(s, f) /\ Neat(f, killed) /\ OnePiece(f)
             /\ \A k \in 1..Len(f) : k > Len(s) => f[k] = Newline
  <2>1. AtEnd(w[p]) /\ Lone /\ Neat(s, killed) /\ OnePiece(s)
    BY <1>3, <1>6 DEF TailInv, TidyInv, Tidy
  <2>2. TextEnds(s, l) /\ NotBefore(s, l) /\ pos = Len(s)
    BY <1>1, <2>1 DEF AtEnd
  <2>3. RestOf(s, killed \cup {l})
    <3>1. RestOf(s, killed \cup Open)
      BY <1>1, <1>3 DEF RestInv
    <3>2. Open \subseteq {l}
      BY <1>1, <2>1 DEF Open, Lone
    <3>3. killed \cup Open \subseteq killed \cup {l}
      BY <3>2
    <3>4. QED
      BY <3>1, <3>3, RestMono
  <2>4. f = WriteAt(s, Len(s), u)
    BY <1>5, <2>2
  <2>5. QED
    BY <1>3, <2>1, <2>2, <2>3, <2>4, NewlineFollows
<1>7. TidyInv'
  <2>1. AtEnd(w[p])'
    BY <1>4 DEF AtEnd
  <2>2. overlapped = {} => Neat(data'[ino], killed) /\ OnePiece(data'[ino])
    BY <1>6
  <2>3. w[p].at # "idle"
    BY <1>1
  <2>4. QED
    BY <1>2, <1>3, <1>4, <1>5, <2>1, <2>2, <2>3, TidyWrite DEF TailInv
<1>8. NamesInv' /\ SeenInv' /\ FollowInv' /\ PrintedInv'
  <2>1. w'[p].at \notin Opening
    BY <1>4 DEF Opening
  <2>2. Newline \notin Line
    BY LineFacts
  <2>3. overlapped = {} =>
          /\ Grows(data[ino], data'[ino])
          /\ \A k \in 1..Len(data'[ino]) : k > Len(data[ino]) =>
                 \/ data'[ino][k] \notin Line
                 \/ \A j \in 1..Len(data[ino]) : data[ino][j] # data'[ino][k]
    BY <1>6, <2>2
  <2>4. QED
    BY <1>2, <1>3, <1>4, <1>5, <2>1, <2>3, GrowTail
<1>9. QED
  BY <1>7, <1>8 DEF TailInv

\* tail begins with a file.
LEMMA BeginTail ==
  ASSUME RetentionInv, TailInv, seen = << >>, path # None,
         follow', offset' \in Nat, seen' = <<path>>,
         UNCHANGED <<w, next, path, tmp, data, killed, overlapped, out>>
  PROVE  TailInv'
<1>1. path \in Line /\ out = << >> /\ out \in Seq(Seq(0..Nul)) /\ path # tmp
  BY DEF RetentionInv, TypeInv, Inode, TailInv, SeenInv, NamesInv
<1>2. seen' \in Seq(Line) /\ Len(seen') = 1 /\ seen'[1] = path /\ seen' # << >>
  BY <1>1
<1>3. TidyInv'
  BY TidyRest DEF TailInv
<1>4. NamesInv'
  BY DEF TailInv, NamesInv
<1>5. offset' # Untracked
  BY DEF Untracked
<1>6. SeenInv'
  BY <1>1, <1>2, <1>5 DEF SeenInv
<1>7. ~ Unborn(path)
  BY <1>1 DEF RetentionInv, UnbornInv
<1>8. FollowInv'
  BY <1>1, <1>2, <1>7 DEF FollowInv, OnlyFile, Unborn
<1>9. PrintedInv'
  <2>1. Len(out) = 0
    BY <1>1
  <2>2. QED
    BY <2>1 DEF PrintedInv, Printed
<1>10. QED
  BY <1>3, <1>4, <1>6, <1>8, <1>9 DEF TailInv

LEMMA SeedTail ==
  ASSUME RetentionInv, TailInv, Seed \/ Discover
  PROVE  TailInv'
<1>1. UNCHANGED <<w, next, path, tmp, data, killed, overlapped, out>>
  BY DEF Seed, Discover, store, blame
<1>2. CASE Seed /\ path = None
  <2>1. seen = << >> /\ UNCHANGED <<seen, offset>>
    BY <1>2 DEF Seed, TailInv, SeenInv
  <2>2. TidyInv'
    BY <1>1, TidyRest DEF TailInv
  <2>3. NamesInv' /\ SeenInv'
    BY <1>1, <2>1 DEF TailInv, NamesInv, SeenInv
  <2>4. Len(seen') # 1
    BY <2>1
  <2>5. QED
    BY <2>2, <2>3, <2>4 DEF TailInv, FollowInv, PrintedInv
<1>3. CASE Seed /\ path # None
  <2>1. seen = << >> /\ follow' /\ seen' = <<path>> /\ offset' = Len(data[path])
    BY <1>3 DEF Seed, TailInv, SeenInv
  <2>2. data[path] \in Seq(0..Nul)
    BY <1>3 DEF RetentionInv, TypeInv, Inode
  <2>3. offset' \in Nat
    BY <2>1, <2>2, Lengths
  <2>4. QED
    BY <1>1, <1>3, <2>1, <2>3, BeginTail
<1>4. CASE Discover
  <2>1. seen = << >> /\ follow' /\ seen' = <<path>> /\ offset' = 0 /\ path # None
    BY <1>4 DEF Discover, TailInv, SeenInv
  <2>2. QED
    BY <1>1, <2>1, BeginTail
<1>5. QED
  BY <1>2, <1>3, <1>4

LEMMA PollTail ==
  ASSUME RetentionInv, TailInv, Poll
  PROVE  TailInv'
<1> PICK rest : rest = RestAfter(data[path], offset)
  OBVIOUS
<1>1. /\ path # None /\ offset # Untracked /\ LineEnds(rest) # << >>
      /\ out' = out \o CompleteLines(rest) /\ offset' = offset + Last(LineEnds(rest))
      /\ UNCHANGED <<w, next, path, tmp, data, killed, overlapped, follow, seen>>
  BY DEF Poll, store, blame, RestAfter
<1>2. path \in Line /\ SeenInv /\ offset \in Nat /\ out \in Seq(Seq(0..Nul)) /\ seen # << >>
  BY <1>1 DEF RetentionInv, TypeInv, Inode, TailInv, SeenInv
<1> PICK s \in Seq(0..Nul) : s = data[path]
  BY <1>2 DEF RetentionInv, TypeInv
<1> PICK ts : ts = CompleteLines(rest)
  OBVIOUS
<1>3. PICK n, a, b : CutPast(s, offset, n, a, b, ts) /\ b[n] = offset'
  BY <1>1, <1>2, RestCut
<1>4. offset' \in Nat /\ ts \in Seq(Seq(0..Nul))
  <2>1. n \in Nat \ {0} /\ b \in [1..n -> 1..Len(s)] /\ ts \in Seq(Seq(0..Nul))
    BY <1>3 DEF CutPast
  <2>2. b[n] \in 1..Len(s)
    BY <2>1
  <2>3. QED
    BY <1>3, <2>1, <2>2, Lengths
<1>5. SeenInv'
  <2>1. out' \in Seq(Seq(0..Nul)) /\ offset' # Untracked
    BY <1>1, <1>2, <1>4 DEF Untracked
  <2>2. QED
    BY <1>1, <1>2, <1>4, <2>1 DEF SeenInv
<1>6. TidyInv' /\ NamesInv' /\ FollowInv'
  <2>1. TidyInv'
    BY <1>1, TidyRest DEF TailInv
  <2>2. QED
    BY <1>1, <2>1 DEF TailInv, NamesInv, FollowInv, OnlyFile, Unborn
<1>7. ASSUME overlapped = {}, Len(seen) = 1
      PROVE  Printed(data[seen[1]], out', offset', killed)
  <2>1. seen[1] = path
    BY <1>1, <1>7 DEF TailInv, FollowInv, OnlyFile
  <2>2. Neat(s, killed) /\ OnePiece(s) /\ Printed(s, out, offset, killed)
    BY <1>2, <1>7, <2>1 DEF TailInv, TidyInv, Tidy, PrintedInv
  <2>3. Printed(s, out \o ts, b[n], killed)
    BY <1>2, <1>3, <2>2, PollPrints
  <2>4. QED
    BY <1>1, <1>3, <2>1, <2>3
<1>8. PrintedInv'
  BY <1>1, <1>7 DEF PrintedInv
<1>9. QED
  BY <1>5, <1>6, <1>8 DEF TailInv

LEMMA TailKept ==
  ASSUME RetentionInv, StayInv, TailInv, [Next]_vars
  PROVE  TailInv'
<1>1. ASSUME NEW p \in Writer, WriterStep(p) PROVE TailInv'
  BY <1>1, ReceiveTail, OpeningTail, OpenTmpTail, WriteTextTail, WriteNewlineTail DEF WriterStep
<1>2. ASSUME \/ Tick \/ DeleteListed \/ Prune \/ UNCHANGED vars \/ \E days \in Days : Collect(days)
      PROVE  TailInv'
  BY <1>2, OthersTail
<1>3. QED
  BY <1>1, <1>2, SeedTail, PollTail DEF Next

LEMMA TailImplies ==
  ASSUME TailInv
  PROVE  TailIsFaithful
<1>1. SeenInv
  BY DEF TailInv
<1> SUFFICES ASSUME Len(seen) <= 1, overlapped = {}, NEW i \in DOMAIN out, i # 1
             PROVE  /\ \E l \in Line : /\ IsSuffix(Text(l), out[i])
                                       /\ ToSet(out[i]) \subseteq {l} \cup killed
                    /\ \A j \in 1..(i - 1) : out[j] # out[i]
  BY DEF TailIsFaithful
<1>2. out \in Seq(Seq(0..Nul)) /\ i \in 1..Len(out) /\ i > 1 /\ Len(out) \in Nat /\ out[i] \in Seq(0..Nul)
  <2>1. out \in Seq(Seq(0..Nul))
    BY <1>1 DEF SeenInv
  <2>2. i \in 1..Len(out) /\ Len(out) \in Nat /\ out[i] \in Seq(0..Nul)
    BY <2>1, Lengths, Elements
  <2>3. QED
    BY <2>1, <2>2
<1>3. Len(seen) = 1
  <2>1. seen # << >> /\ seen \in Seq(Line)
    <3>1. out # << >>
      BY <1>2
    <3>2. QED
      BY <1>1, <3>1 DEF SeenInv
  <2> PICK n \in Nat \ {0} : n = Len(seen)
    BY <2>1, EmptySeq
  <2>2. n <= 1
    OBVIOUS
  <2>3. n = 1
    BY <2>2
  <2>4. QED
    BY <2>3
<1>4. /\ \A j \in 1..Len(out) : j > 1 => LineOf(out[j], killed)
      /\ \A j, k \in 1..Len(out) : j # k => Apart(out[j], out[k])
  BY <1>3 DEF TailInv, PrintedInv, Printed
<1>5. PICK l \in Line : TextEnds(out[i], l) /\ ToSet(out[i]) \subseteq {l} \cup killed
  BY <1>2, <1>4 DEF LineOf
<1>6. IsSuffix(Text(l), out[i]) /\ l \in ToSet(out[i])
  BY <1>2, <1>5, TextIsSuffix
<1>7. ASSUME NEW j \in 1..(i - 1), out[j] = out[i] PROVE FALSE
  <2>1. j \in 1..Len(out) /\ j # i
    BY <1>2
  <2>2. Apart(out[j], out[i])
    BY <1>2, <1>4, <2>1
  <2>3. QED
    BY <1>6, <1>7, <2>2 DEF Apart
<1>8. QED
  BY <1>5, <1>6, <1>7

\* As long as its path has named one file only and no two writers have met, `siemctl tail`
\* prints, from its second line on, lines that end with the text of a line that was written,
\* with nothing else in them but what killed writers left without a newline, and none of them
\* twice: however its polls fall between the two writes of a line, and whatever retention
\* removes.  (siemctl main.rs cmd_tail; output.rs OutputRouter::write.)
THEOREM TailShowsEachLineOnce == Spec => []TailIsFaithful
<1>1. Init => RefusalInv /\ StayInv /\ TailInv
  BY InitRefusal, InitStay, InitTail
<1>2. RetentionInv /\ RefusalInv /\ [Next]_vars => RefusalInv'
  BY RefusalKept
<1>3. RetentionInv /\ RetentionInv' /\ RefusalInv /\ StayInv /\ [Next]_vars => StayInv'
  BY StayKept
<1>4. RetentionInv /\ StayInv /\ TailInv /\ [Next]_vars => TailInv'
  BY TailKept
<1>5. TailInv => TailIsFaithful
  BY TailImplies
<1>6. QED
  BY <1>1, <1>2, <1>3, <1>4, <1>5, RetentionHolds, PTL DEF Spec
=============================================================================
