-------------------------- MODULE AlertWatch_proofs ---------------------------
(***************************************************************************)
(* The notifier, for any files, levels and bounds: its types, that the     *)
(* saved offset never passes an alert nobody has dealt with, although two  *)
(* processes read and write it without a lock, and that no alert is        *)
(* announced twice but for a reason.                                       *)
(***************************************************************************)
EXTENDS AlertWatch, TLAPS

\* A line whose newline is missing is there, and no file holds more lines than
\* were written.
FilesOK ==
    \A f \in File : /\ torn[f] => content[f] # << >>
                    /\ Len(content[f]) <= written

\* Every alert whose text lies before unit n of f has been dealt with.
Covered(f, n) ==
    \A k \in DOMAIN content[f] : n >= 2 * k - 1 => Settled(f, content[f][k])

\* The same, but for what the call still has to handle.
CoveredBut(f, n, todo) ==
    \A k \in DOMAIN content[f] :
        n >= 2 * k - 1 => \/ Settled(f, content[f][k])
                          \/ \E i \in DOMAIN todo : todo[i] = content[f][k]

SavedOK == \A f \in File \ truncated : saved[f] <= Size(f) /\ Covered(f, saved[f])

\* What each step of process_file knows of its file, as long as nobody has
\* emptied the file.
CallOK(p) ==
    p # Idle /\ p.file \notin truncated =>
        /\ p.pc \in {"stat", "tail"} => p.off <= Size(p.file) /\ Covered(p.file, p.off)
        /\ p.pc \in {"tail", "handle", "open", "write"} => p.size <= Size(p.file)
        /\ p.pc = "handle" => CoveredBut(p.file, p.size, p.todo)
        /\ p.pc \in {"open", "write"} => Covered(p.file, p.size)

CallsOK == \A w \in Watcher : CallOK(proc[w])

IInv == TypeOK /\ FilesOK /\ SavedOK /\ CallsOK

\* Half of an even and of an odd size.
LEMMA Halves ==
    ASSUME NEW n \in Int
    PROVE  (2 * n) \div 2 = n /\ (2 * n - 1) \div 2 = n - 1
OBVIOUS

\* A size counts the text and the newline of each line.
LEMMA SizeType ==
    ASSUME TypeOK, FilesOK, NEW f \in File
    PROVE  /\ Size(f) \in 0..2*MaxLines
           /\ Len(content[f]) \in Nat
           /\ Size(f) = 2 * Len(content[f]) \/ Size(f) = 2 * Len(content[f]) - 1
           /\ torn[f] => Len(content[f]) > 0 /\ Size(f) = 2 * Len(content[f]) - 1
<1>1. content[f] \in Seq(Line) /\ torn[f] \in BOOLEAN
  BY DEF TypeOK
<1>2. Len(content[f]) \in Nat /\ (content[f] # << >> => Len(content[f]) > 0)
  BY <1>1
<1>3. Len(content[f]) <= MaxLines /\ MaxLines \in Nat
  BY <1>2, AlertWatchAssumption DEF TypeOK, FilesOK
<1>4. torn[f] => Len(content[f]) > 0
  BY <1>2 DEF FilesOK
<1>5. CASE torn[f]
  BY <1>2, <1>3, <1>4, <1>5 DEF Size
<1>6. CASE ~ torn[f]
  BY <1>2, <1>3, <1>6 DEF Size
<1> QED
  BY <1>5, <1>6

\* What a call of process_file carries at each step.
LEMMA CallType ==
    ASSUME NEW p \in Process
    PROVE  /\ p = Idle \/ p.file \in File
           /\ p.pc \in {"idle", "read", "stat", "tail", "handle", "open", "write"}
           /\ p.pc = "idle" <=> p = Idle
           /\ p.pc \in {"stat", "tail"} => p.off \in 0..2*MaxLines
           /\ p.pc \in {"tail", "handle", "open", "write"} => p.size \in 0..2*MaxLines
           /\ p.pc = "handle" => p.todo \in Seq(Line)
BY DEF Process, Idle

-------------------------------------------------------------------------------
THEOREM InitType == Init => TypeOK /\ FilesOK
BY AlertWatchAssumption DEF Init, TypeOK, FilesOK, Line, Process, Idle

\* The variables that only writers, truncation and restarts touch.
FilesType ==
    /\ content \in [File -> Seq(Line)] /\ torn \in [File -> BOOLEAN]
    /\ written \in 0..MaxLines
    /\ FilesOK

LEMMA FilesStep ==
    ASSUME TypeOK, FilesOK, [Next]_vars
    PROVE  FilesType'
<1>0. FilesType
  BY DEF TypeOK, FilesType
<1>1. ASSUME NEW f \in File, AppendText(f) PROVE FilesType'
  <2>1. content' = [content EXCEPT ![f] = Append(@, written + 1)]
        /\ torn' = [torn EXCEPT ![f] = TRUE] /\ written' = written + 1 /\ written < MaxLines
    BY <1>1 DEF AppendText
  <2>2. written + 1 \in Line /\ written' \in 0..MaxLines
    BY <2>1, <1>0, AlertWatchAssumption DEF FilesType, Line
  <2>3. content' \in [File -> Seq(Line)] /\ torn' \in [File -> BOOLEAN]
    BY <2>1, <2>2, <1>0 DEF FilesType
  <2>4. ASSUME NEW g \in File
        PROVE (torn'[g] => content'[g] # << >>) /\ Len(content'[g]) <= written'
    BY <2>1, <2>2, <1>0 DEF FilesType, FilesOK
  <2> QED BY <2>2, <2>3, <2>4 DEF FilesType, FilesOK
<1>2. ASSUME NEW f \in File, AppendNewline(f) PROVE FilesType'
  BY <1>2, <1>0 DEF AppendNewline, FilesType, FilesOK
<1>3. ASSUME NEW f \in File, Truncate(f) PROVE FilesType'
  BY <1>3, <1>0 DEF Truncate, FilesType, FilesOK
<1>4. CASE UNCHANGED <<content, torn, written>>
  BY <1>4, <1>0 DEF FilesType, FilesOK
<1>5. ASSUME NEW w \in Watcher, ProcessFile(w) PROVE UNCHANGED <<content, torn, written>>
  BY <1>5 DEF ProcessFile, ReadOffset, Stat, ReadLines, HandleLine, OpenState, WriteState, files
<1>6. CASE UNCHANGED vars \/ Restart \/ SweepFind
  BY <1>6, <1>4 DEF vars, files, Restart, SweepFind
<1>7. ASSUME NEW f \in File, Age(f) \/ InstallWatch(f) \/ TakeEvent(f) \/ SweepNext(f)
      PROVE FilesType'
  BY <1>7, <1>4 DEF files, Age, InstallWatch, TakeEvent, SweepNext
<1> QED
  BY <1>1, <1>2, <1>3, <1>4, <1>5, <1>6, <1>7 DEF Next, Reactive, Sweep, Watcher

LEMMA TypeStep ==
    ASSUME TypeOK, FilesOK, [Next]_vars
    PROVE  TypeOK'
<1>0. FilesType'
  BY FilesStep
<1>1. ASSUME NEW f \in File,
             AppendText(f) \/ AppendNewline(f) \/ Truncate(f) \/ Age(f) \/ InstallWatch(f)
      PROVE  TypeOK'
  <2>1. /\ recent' \subseteq File /\ listed' \subseteq File /\ watched' \subseteq File
        /\ truncated' \subseteq File
    BY <1>1 DEF TypeOK, AppendText, AppendNewline, Truncate, Age, InstallWatch, Modified, files
  <2>2. events' \in [File -> Nat]
    <3>1. events \in [File -> Nat] /\ events[f] \in Nat
      BY DEF TypeOK
    <3>2. CASE AppendNewline(f)
      <4>1. events' = [events EXCEPT ![f] = IF f \in watched THEN events[f] + 1 ELSE events[f]]
        BY <3>2 DEF AppendNewline
      <4>2. (IF f \in watched THEN events[f] + 1 ELSE events[f]) \in Nat
        BY <3>1
      <4> QED BY <3>1, <4>1, <4>2
    <3>3. CASE UNCHANGED events
      BY <3>1, <3>3
    <3> QED BY <1>1, <3>2, <3>3 DEF AppendText, Truncate, Age, InstallWatch
  <2>3. UNCHANGED <<saved, pass, proc, restarts, history>>
    BY <1>1 DEF AppendText, AppendNewline, Truncate, Age, InstallWatch
  <2> QED BY <1>0, <2>1, <2>2, <2>3 DEF FilesType, TypeOK, history
<1>2. ASSUME NEW f \in File, TakeEvent(f) \/ SweepNext(f) PROVE TypeOK'
  <2>1. [pc |-> "read", file |-> f] \in Process
    BY DEF Process
  <2>2. "reactive" \in Watcher /\ "sweep" \in Watcher
    BY DEF Watcher
  <2>3. proc' \in [Watcher -> Process] /\ overlaps' \subseteq File
    BY <1>2, <2>1, <2>2 DEF TakeEvent, SweepNext, Start, TypeOK
  <2>4. pass' \subseteq File /\ events' \in [File -> Nat]
    <3>1. events \in [File -> Nat] /\ events[f] \in Nat /\ pass \subseteq File
      BY DEF TypeOK
    <3>2. CASE TakeEvent(f)
      <4>1. events[f] > 0 /\ events' = [events EXCEPT ![f] = events[f] - 1] /\ pass' = pass
        BY <3>2 DEF TakeEvent
      <4>2. events[f] - 1 \in Nat
        BY <3>1, <4>1
      <4> QED BY <3>1, <4>1, <4>2
    <3>3. CASE SweepNext(f)
      BY <3>1, <3>3 DEF SweepNext
    <3> QED BY <1>2, <3>2, <3>3
  <2>5. UNCHANGED <<saved, watched, recent, listed, truncated, restarts, handled, cut, late,
                    skipped>>
    BY <1>2 DEF TakeEvent, SweepNext, files
  <2> QED BY <1>0, <2>3, <2>4, <2>5 DEF TypeOK, FilesType
<1>3. ASSUME NEW w \in Watcher, ReadOffset(w) PROVE TypeOK'
  <2>1. proc[w] \in Process /\ proc[w].file \in File
    BY <1>3, CallType DEF TypeOK, ReadOffset, Idle
  <2>2. saved[proc[w].file] \in 0..2*MaxLines
    BY <2>1 DEF TypeOK
  <2>3. [pc |-> "stat", file |-> proc[w].file, off |-> saved[proc[w].file]] \in Process
    BY <2>1, <2>2 DEF Process
  <2>4. proc' \in [Watcher -> Process]
    BY <1>3, <2>3 DEF ReadOffset, TypeOK
  <2> QED BY <1>0, <1>3, <2>4 DEF ReadOffset, TypeOK, FilesType, files, history
<1>4. ASSUME NEW w \in Watcher, Stat(w) PROVE TypeOK'
  <2>1. proc[w] \in Process /\ proc[w].file \in File /\ proc[w].off \in 0..2*MaxLines
    BY <1>4, CallType DEF TypeOK, Stat, Idle
  <2> DEFINE n == Size(proc[w].file)
             o == IF n < proc[w].off THEN 0 ELSE proc[w].off
  <2>2. n \in 0..2*MaxLines /\ o \in 0..2*MaxLines
    BY <2>1, SizeType, AlertWatchAssumption
  <2> HIDE DEF n, o
  <2>3. /\ [pc |-> "tail", file |-> proc[w].file, off |-> o, size |-> n] \in Process
        /\ [pc |-> "open", file |-> proc[w].file, size |-> n] \in Process
    BY <2>1, <2>2 DEF Process
  <2>4. proc' \in [Watcher -> Process]
    BY <1>4, <2>3 DEF Stat, TypeOK, n, o
  <2> QED BY <1>0, <1>4, <2>4 DEF Stat, TypeOK, FilesType, files, history
<1>5. ASSUME NEW w \in Watcher, ReadLines(w) PROVE TypeOK'
  <2>1. /\ proc[w] \in Process /\ proc[w].file \in File
        /\ proc[w].off \in 0..2*MaxLines /\ proc[w].size \in 0..2*MaxLines
    BY <1>5, CallType DEF TypeOK, ReadLines, Idle
  <2>2. TailLines(proc[w].file, proc[w].off) \in Seq(Line)
    <3>1. content[proc[w].file] \in Seq(Line)
      BY <2>1 DEF TypeOK
    <3>2. /\ Size(proc[w].file) \div 2 \in Nat
          /\ Size(proc[w].file) \div 2 <= Len(content[proc[w].file])
      BY <2>1, SizeType, AlertWatchAssumption
    <3>3. (proc[w].off + 1) \div 2 + 1 \in Nat \ {0}
      BY <2>1, AlertWatchAssumption
    <3> QED BY <3>1, <3>2, <3>3 DEF TailLines
  <2>3. [pc |-> "handle", file |-> proc[w].file, size |-> proc[w].size,
         todo |-> TailLines(proc[w].file, proc[w].off)] \in Process
    BY <2>1, <2>2 DEF Process
  <2>4. proc' \in [Watcher -> Process]
    BY <1>5, <2>3 DEF ReadLines, TypeOK
  <2>5. cut' \subseteq Line /\ late' \subseteq Line
    <3>1. content[proc[w].file] \in Seq(Line) /\ Len(content[proc[w].file]) \in Nat
      BY <2>1 DEF TypeOK
    <3>2. torn[proc[w].file] => Len(content[proc[w].file]) > 0
      BY <2>1, SizeType
    <3>3. /\ Size(proc[w].file) \div 2 \in Nat
          /\ Size(proc[w].file) \div 2 <= Len(content[proc[w].file])
      BY <2>1, SizeType, AlertWatchAssumption
    <3>4. \A i \in 1..(Size(proc[w].file) \div 2) : content[proc[w].file][i] \in Line
      BY <3>1, <3>3
    <3>5. torn[proc[w].file] => content[proc[w].file][Len(content[proc[w].file])] \in Line
      BY <3>1, <3>2
    <3> QED BY <1>5, <3>4, <3>5 DEF ReadLines, TypeOK
  <2> QED BY <1>0, <1>5, <2>4, <2>5 DEF ReadLines, TypeOK, FilesType, files
<1>6. ASSUME NEW w \in Watcher, HandleLine(w) PROVE TypeOK'
  <2>1. /\ proc[w] \in Process /\ proc[w].pc = "handle" /\ proc[w].todo \in Seq(Line)
        /\ proc[w].todo # << >>
    BY <1>6, CallType DEF TypeOK, HandleLine
  <2>2. Tail(proc[w].todo) \in Seq(Line) /\ Head(proc[w].todo) \in Line
    BY <2>1
  <2>3. [proc[w] EXCEPT !.todo = Tail(@)] \in Process
    BY <2>1, <2>2 DEF Process, Idle
  <2>4. proc' \in [Watcher -> Process]
    BY <1>6, <2>3 DEF HandleLine, TypeOK
  <2>5. handled' \in [Line -> 0..2]
    BY <1>6, <2>2 DEF HandleLine, TypeOK
  <2> QED BY <1>0, <1>6, <2>4, <2>5 DEF HandleLine, TypeOK, FilesType, files
<1>7. ASSUME NEW w \in Watcher, OpenState(w) \/ WriteState(w) PROVE TypeOK'
  <2>1. /\ proc[w] \in Process /\ proc[w].file \in File
        /\ proc[w].size \in 0..2*MaxLines
    BY <1>7, CallType DEF TypeOK, OpenState, WriteState, Idle
  <2>2. [pc |-> "write", file |-> proc[w].file, size |-> proc[w].size] \in Process
        /\ Idle \in Process
    BY <2>1 DEF Process
  <2>3. proc' \in [Watcher -> Process]
    BY <1>7, <2>2 DEF OpenState, WriteState, TypeOK
  <2>4. saved' \in [File -> 0..2*MaxLines]
    <3>1. saved \in [File -> 0..2*MaxLines] /\ 0 \in 0..2*MaxLines
      BY AlertWatchAssumption DEF TypeOK
    <3>2. CASE OpenState(w)
      BY <3>1, <3>2, <2>1 DEF OpenState
    <3>3. CASE WriteState(w)
      BY <3>1, <3>3, <2>1 DEF WriteState
    <3> QED BY <1>7, <3>2, <3>3
  <2> QED BY <1>0, <1>7, <2>3, <2>4 DEF OpenState, WriteState, TypeOK, FilesType, files, history
<1>8. CASE SweepFind \/ UNCHANGED vars
  BY <1>0, <1>8 DEF SweepFind, vars, files, history, TypeOK, FilesType
<1>9. CASE Restart
  <2>1. saved' \in [File -> 0..2*MaxLines]
    BY <1>9, SizeType DEF Restart
  <2>2. skipped' \subseteq Line
    <3>1. \A f \in File : \A k \in DOMAIN content[f] : content[f][k] \in Line
      BY DEF TypeOK
    <3> QED BY <1>9, <3>1 DEF Restart, TypeOK
  <2>3. proc' \in [Watcher -> Process]
    BY <1>9 DEF Restart, Process
  <2> QED BY <1>0, <1>9, <2>1, <2>2, <2>3, AlertWatchAssumption DEF Restart, TypeOK, FilesType
<1> QED
  BY <1>1, <1>2, <1>3, <1>4, <1>5, <1>6, <1>7, <1>8, <1>9
  DEF Next, Reactive, Sweep, ProcessFile, Watcher

\* Every variable keeps its type, whatever the files, levels and bounds.
THEOREM TypeCorrect == Spec => []TypeOK
<1>1. Init => TypeOK /\ FilesOK
  BY InitType
<1>2. TypeOK /\ FilesOK /\ [Next]_vars => (TypeOK /\ FilesOK)'
  BY FilesStep, TypeStep DEF FilesType
<1> QED BY <1>1, <1>2, PTL DEF Spec

-------------------------------------------------------------------------------
\* An alert that has been dealt with stays so.
LEMMA SettledStep ==
    ASSUME TypeOK, [Next]_vars, NEW f \in File, NEW l \in Line, Settled(f, l)
    PROVE  handled'[l] > 0 \/ ~ Notifies(f, l) \/ l \in cut' \cup skipped'
<1>0. handled \in [Line -> 0..2]
  BY DEF TypeOK
<1>1. ASSUME NEW w \in Watcher, HandleLine(w) PROVE handled[l] > 0 => handled'[l] > 0
  <2> DEFINE h == Head(proc[w].todo)
             b == Notifies(proc[w].file, h)
  <2>1. handled' = [handled EXCEPT ![h] = IF b /\ @ < 2 THEN @ + 1 ELSE @]
    BY <1>1 DEF HandleLine
  <2> HIDE DEF h, b
  <2> QED BY <1>0, <2>1
<1>2. ASSUME NEW w \in Watcher, ProcessFile(w)
      PROVE (handled[l] > 0 => handled'[l] > 0) /\ cut \subseteq cut' /\ skipped \subseteq skipped'
  BY <1>1, <1>2 DEF ProcessFile, ReadOffset, Stat, ReadLines, HandleLine, OpenState, WriteState,
                    history
<1>3. ASSUME NEW g \in File, \/ AppendText(g) \/ AppendNewline(g) \/ Truncate(g) \/ Age(g)
                             \/ InstallWatch(g) \/ TakeEvent(g) \/ SweepNext(g)
      PROVE UNCHANGED <<handled, cut, skipped>>
  BY <1>3 DEF AppendText, AppendNewline, Truncate, Age, InstallWatch, TakeEvent, SweepNext, history
<1>4. CASE Restart \/ SweepFind \/ UNCHANGED vars
  BY <1>4 DEF Restart, SweepFind, vars, history, Settled
<1> QED
  BY <1>2, <1>3, <1>4 DEF Next, Reactive, Sweep, Watcher, Settled

\* Nothing happens to the lines of a file that nobody empties but that more of
\* them arrive, beyond its old size.
Grows(f) ==
    /\ Size(f) <= Size(f)'
    /\ \A k \in DOMAIN content[f] : k \in DOMAIN content'[f] /\ content'[f][k] = content[f][k]
    /\ \A k \in DOMAIN content'[f] : k \in DOMAIN content[f] \/ 2 * k - 1 > Size(f)

LEMMA GrowStep ==
    ASSUME TypeOK, FilesOK, [Next]_vars, NEW f \in File, f \notin truncated'
    PROVE  f \notin truncated /\ Grows(f)
<1>0. /\ content[f] \in Seq(Line) /\ torn[f] \in BOOLEAN
      /\ Len(content[f]) \in Nat /\ DOMAIN content[f] = 1..Len(content[f])
      /\ content \in [File -> Seq(Line)] /\ torn \in [File -> BOOLEAN]
      /\ Size(f) \in Int
  BY SizeType, AlertWatchAssumption DEF TypeOK
<1>1. ASSUME NEW w \in Watcher, ProcessFile(w) PROVE UNCHANGED <<content, torn, truncated>>
  BY <1>1 DEF ProcessFile, ReadOffset, Stat, ReadLines, HandleLine, OpenState, WriteState, files
<1>2. ASSUME NEW g \in File, Age(g) \/ InstallWatch(g) \/ TakeEvent(g) \/ SweepNext(g)
      PROVE UNCHANGED <<content, torn, truncated>>
  BY <1>2 DEF files, Age, InstallWatch, TakeEvent, SweepNext
<1>3. f \notin truncated
  <2>1. ASSUME NEW g \in File, AppendText(g) \/ AppendNewline(g) \/ Truncate(g)
        PROVE truncated \subseteq truncated'
    BY <2>1 DEF AppendText, AppendNewline, Truncate
  <2>2. truncated \subseteq truncated'
    BY <2>1, <1>1, <1>2 DEF Next, Reactive, Sweep, Watcher, Restart, SweepFind, vars, files
  <2> QED BY <2>2
<1> SUFFICES Grows(f)
  BY <1>3
<1>4. CASE content'[f] = content[f] /\ torn'[f] = torn[f]
  BY <1>0, <1>4 DEF Grows, Size
<1>5. CASE AppendText(f)
  <2>1. /\ content'[f] = Append(content[f], written + 1)
        /\ torn'[f] = TRUE /\ torn[f] = FALSE
    BY <1>0, <1>5 DEF AppendText
  <2>2. written + 1 \in Line
    BY <1>5, AlertWatchAssumption DEF AppendText, TypeOK, Line
  <2>3. /\ Len(content'[f]) = Len(content[f]) + 1
        /\ DOMAIN content'[f] = 1..(Len(content[f]) + 1)
        /\ \A k \in 1..Len(content[f]) : content'[f][k] = content[f][k]
    BY <1>0, <2>1, <2>2
  <2>4. Size(f) = 2 * Len(content[f]) /\ Size(f)' = 2 * Len(content'[f]) - 1
    BY <2>1, <1>0 DEF Size
  <2> QED BY <1>0, <2>3, <2>4 DEF Grows
<1>6. CASE AppendNewline(f)
  <2>1. content'[f] = content[f] /\ torn'[f] = FALSE
    BY <1>0, <1>6 DEF AppendNewline
  <2>2. Size(f) <= Size(f)'
    BY <2>1, <1>0 DEF Size
  <2> QED BY <1>0, <2>1, <2>2 DEF Grows
<1>7. ASSUME NEW g \in File, g # f, AppendText(g) \/ AppendNewline(g) \/ Truncate(g)
      PROVE content'[f] = content[f] /\ torn'[f] = torn[f]
  BY <1>0, <1>7 DEF AppendText, AppendNewline, Truncate
<1>8. ~ Truncate(f)
  BY DEF Truncate
<1>9. CASE Restart \/ SweepFind \/ UNCHANGED vars
  <2>1. UNCHANGED <<content, torn, truncated>>
    BY <1>9 DEF Restart, SweepFind, vars, files
  <2> QED BY <2>1, <1>4
<1> QED
  BY <1>4, <1>5, <1>6, <1>7, <1>8, <1>1, <1>2, <1>9, <1>3 DEF Next, Reactive, Sweep, Watcher

\* What was dealt with before unit n of such a file remains so, and nothing new
\* arrives before n.
LEMMA CoveredStep ==
    ASSUME TypeOK, FilesOK, [Next]_vars, NEW f \in File, f \notin truncated',
           NEW n \in Int, n <= Size(f),
           NEW k \in DOMAIN content'[f], n >= 2 * k - 1
    PROVE  /\ k \in DOMAIN content[f] /\ content'[f][k] = content[f][k]
           /\ content[f][k] \in Line
           /\ Settled(f, content[f][k]) =>
                \/ handled'[content[f][k]] > 0 \/ ~ Notifies(f, content[f][k])
                \/ content[f][k] \in cut' \cup skipped'
<1>1. k \in DOMAIN content'[f] /\ k \in Int
  <2>1. content'[f] \in Seq(Line)
    BY TypeStep DEF TypeOK
  <2> QED BY <2>1
<1>2. Size(f) \in Int
  BY SizeType, AlertWatchAssumption
<1>3. k \in DOMAIN content[f] /\ content'[f][k] = content[f][k]
  BY <1>1, <1>2, GrowStep DEF Grows
<1>4. content[f][k] \in Line
  BY <1>3 DEF TypeOK
<1> QED
  BY <1>3, <1>4, SettledStep

\* The saved offset of a file that nobody empties stays behind its size, and
\* covers only what was dealt with.
LEMMA SavedStep ==
    ASSUME IInv, [Next]_vars
    PROVE  SavedOK'
<1>0. TypeOK /\ FilesOK /\ SavedOK /\ CallsOK /\ TypeOK'
  BY TypeStep DEF IInv
<1> SUFFICES ASSUME NEW f \in File, f \notin truncated'
             PROVE  /\ saved'[f] <= Size(f)'
                    /\ \A k \in DOMAIN content'[f] :
                           saved'[f] >= 2 * k - 1 =>
                               \/ handled'[content'[f][k]] > 0 \/ ~ Notifies(f, content'[f][k])
                               \/ content'[f][k] \in cut' \cup skipped'
  BY DEF SavedOK, Covered, Settled
<1>1. /\ f \notin truncated /\ Size(f) <= Size(f)'
      /\ saved[f] <= Size(f) /\ Covered(f, saved[f])
  BY <1>0, GrowStep DEF Grows, SavedOK
<1>2. /\ Size(f) \in Nat /\ Size(f)' \in Nat /\ saved[f] \in Int
      /\ \A k \in DOMAIN content'[f] : k \in Int /\ k >= 1
  <2>1. Size(f) \in Nat /\ saved[f] \in Int
    BY <1>0, SizeType, AlertWatchAssumption DEF TypeOK
  <2>2. content'[f] \in Seq(Line) /\ torn'[f] \in BOOLEAN
    BY <1>0 DEF TypeOK
  <2>3. Size(f)' \in Int /\ \A k \in DOMAIN content'[f] : k \in Int /\ k >= 1
    BY <2>2 DEF Size
  <2> QED BY <2>1, <2>3, <1>1
<1>3. ASSUME NEW n \in Int, n <= Size(f), Covered(f, n), NEW k \in DOMAIN content'[f], n >= 2 * k - 1
      PROVE  \/ handled'[content'[f][k]] > 0 \/ ~ Notifies(f, content'[f][k])
             \/ content'[f][k] \in cut' \cup skipped'
  BY <1>0, <1>3, CoveredStep DEF Covered
<1>4. CASE saved'[f] = saved[f]
  BY <1>1, <1>2, <1>3, <1>4
<1>5. CASE saved'[f] = 0
  BY <1>2, <1>5
<1>6. ASSUME NEW w \in Watcher, OpenState(w) PROVE saved'[f] = saved[f] \/ saved'[f] = 0
  BY <1>0, <1>6 DEF OpenState, TypeOK
<1>7. ASSUME NEW w \in Watcher, WriteState(w), saved'[f] # saved[f]
      PROVE  /\ saved'[f] = proc[w].size /\ proc[w].size \in Int
             /\ proc[w].size <= Size(f) /\ Covered(f, proc[w].size)
  <2>1. proc[w] \in Process /\ proc[w].pc = "write" /\ CallOK(proc[w])
    BY <1>0, <1>7 DEF WriteState, TypeOK, CallsOK
  <2>2. proc[w].file = f /\ saved'[f] = proc[w].size
    BY <1>0, <1>7 DEF WriteState, TypeOK
  <2>3. proc[w].size \in Int /\ proc[w] # Idle
    BY <2>1, CallType, AlertWatchAssumption
  <2> QED BY <1>1, <2>1, <2>2, <2>3 DEF CallOK
<1>8. CASE Restart
  <2>1. saved'[f] = Size(f) /\ content'[f] = content[f] /\ torn'[f] = torn[f]
    BY <1>8 DEF Restart
  <2>2. \A k \in DOMAIN content[f] : content[f][k] \in skipped'
    BY <1>8 DEF Restart
  <2> QED BY <1>1, <1>2, <2>1, <2>2
<1>9. ASSUME NEW w \in Watcher, ProcessFile(w) PROVE saved' = saved \/ OpenState(w) \/ WriteState(w)
  BY <1>9 DEF ProcessFile, ReadOffset, Stat, ReadLines, HandleLine
<1>10. ASSUME NEW g \in File, \/ AppendText(g) \/ AppendNewline(g) \/ Truncate(g) \/ Age(g)
                              \/ InstallWatch(g) \/ TakeEvent(g) \/ SweepNext(g)
       PROVE saved' = saved
  BY <1>10 DEF AppendText, AppendNewline, Truncate, Age, InstallWatch, TakeEvent, SweepNext
<1>11. CASE SweepFind \/ UNCHANGED vars
  BY <1>4, <1>11 DEF SweepFind, vars
<1>12. ASSUME NEW w \in Watcher, WriteState(w), saved'[f] # saved[f]
       PROVE  /\ saved'[f] <= Size(f)'
              /\ \A k \in DOMAIN content'[f] :
                     saved'[f] >= 2 * k - 1 =>
                         \/ handled'[content'[f][k]] > 0 \/ ~ Notifies(f, content'[f][k])
                         \/ content'[f][k] \in cut' \cup skipped'
  BY <1>1, <1>2, <1>3, <1>7, <1>12
<1> QED
  BY <1>4, <1>5, <1>6, <1>8, <1>9, <1>10, <1>11, <1>12 DEF Next, Reactive, Sweep, Watcher

\* What a step of process_file knows stays true while others take steps.
LEMMA CallKept ==
    ASSUME IInv, [Next]_vars, NEW p \in Process, CallOK(p)
    PROVE  CallOK(p)'
<1>0. TypeOK /\ FilesOK /\ TypeOK'
  BY TypeStep DEF IInv
<1> SUFFICES ASSUME p # Idle, p.file \notin truncated'
             PROVE  /\ p.pc \in {"stat", "tail"} => p.off <= Size(p.file)' /\ Covered(p.file, p.off)'
                    /\ p.pc \in {"tail", "handle", "open", "write"} => p.size <= Size(p.file)'
                    /\ p.pc = "handle" => CoveredBut(p.file, p.size, p.todo)'
                    /\ p.pc \in {"open", "write"} => Covered(p.file, p.size)'
  BY DEF CallOK
<1> DEFINE f == p.file
<1>1. f \in File /\ f \notin truncated'
  BY CallType
<1>2. f \notin truncated /\ Size(f) <= Size(f)'
  BY <1>0, <1>1, GrowStep DEF Grows
<1>3. Size(f) \in Int /\ Size(f)' \in Int
  <2>1. content'[f] \in Seq(Line) /\ torn'[f] \in BOOLEAN
    BY <1>0, <1>1 DEF TypeOK
  <2>2. Size(f)' \in Int
    BY <2>1 DEF Size
  <2> QED BY <2>2, <1>0, <1>1, SizeType, AlertWatchAssumption
<1>4. ASSUME NEW n \in Int, n <= Size(f), Covered(f, n)
      PROVE  n <= Size(f)' /\ Covered(f, n)'
  <2>1. ASSUME NEW k \in DOMAIN content'[f], n >= 2 * k - 1
        PROVE  \/ handled'[content'[f][k]] > 0 \/ ~ Notifies(f, content'[f][k])
               \/ content'[f][k] \in cut' \cup skipped'
    BY <1>0, <1>1, <1>4, <2>1, CoveredStep DEF Covered
  <2> QED BY <1>2, <1>3, <1>4, <2>1 DEF Covered, Settled
<1>5. ASSUME NEW n \in Int, n <= Size(f), NEW T \in Seq(Line), CoveredBut(f, n, T)
      PROVE  CoveredBut(f, n, T)'
  <2>1. ASSUME NEW k \in DOMAIN content'[f], n >= 2 * k - 1
        PROVE  \/ handled'[content'[f][k]] > 0 \/ ~ Notifies(f, content'[f][k])
               \/ content'[f][k] \in cut' \cup skipped'
               \/ \E i \in DOMAIN T : T[i] = content'[f][k]
    BY <1>0, <1>1, <1>5, <2>1, CoveredStep DEF CoveredBut
  <2> QED BY <2>1 DEF CoveredBut, Settled
<1>6. /\ p.pc \in {"stat", "tail"} => p.off \in Int
      /\ p.pc \in {"tail", "handle", "open", "write"} => p.size \in Int
      /\ p.pc = "handle" => p.todo \in Seq(Line)
  BY CallType, AlertWatchAssumption
<1> QED BY <1>1, <1>2, <1>3, <1>4, <1>5, <1>6 DEF CallOK

\* The step that measures the file: the size it notes is the file's, and the
\* offset it keeps is the one it read.
LEMMA StatStep ==
    ASSUME IInv, NEW w \in Watcher, Stat(w),
           NEW p \in Process, p = proc[w], NEW q, q = proc'[w]
    PROVE  CallOK(q)'
<1>1. p.pc = "stat" /\ CallOK(p) /\ TypeOK
  BY DEF IInv, CallsOK, CallOK, Stat
<1>2. p # Idle /\ p.file \in File /\ p.off \in Int
  BY <1>1, CallType, AlertWatchAssumption
<1>3. UNCHANGED <<content, torn, truncated, handled, cut, skipped>>
  BY DEF Stat, files, history
<1> DEFINE n == Size(p.file)
           o == IF n < p.off THEN 0 ELSE p.off
<1>4. n \in Int /\ Size(p.file)' = n
  BY <1>2, <1>3, SizeType, AlertWatchAssumption DEF IInv, Size
<1>5. q = IF n > o THEN [pc |-> "tail", file |-> p.file, off |-> o, size |-> n]
                   ELSE [pc |-> "open", file |-> p.file, size |-> n]
  BY <1>1 DEF Stat, TypeOK
<1> HIDE DEF n, o
<1>6. /\ q # Idle /\ q.file = p.file /\ q.size = n
      /\ \/ q.pc = "tail" /\ q.off = o
         \/ q.pc = "open" /\ ~ (n > o)
  <2>1. CASE n > o
    BY <1>5, <2>1 DEF Idle
  <2>2. CASE ~ (n > o)
    BY <1>5, <2>2 DEF Idle
  <2> QED BY <2>1, <2>2
<1>7. CASE p.file \in truncated
  BY <1>3, <1>6, <1>7 DEF CallOK
<1>8. CASE p.file \notin truncated
  <2>1. p.off <= n /\ Covered(p.file, p.off) /\ o = p.off
    BY <1>1, <1>2, <1>4, <1>8 DEF CallOK, n, o
  <2>2. Covered(p.file, p.off)'
    BY <1>3, <2>1 DEF Covered, Settled
  <2>3. Size(p.file)' = q.size
    BY <1>4, <1>6
  <2>4. CASE q.pc = "tail"
    <3>1. q.off = p.off /\ q.off <= q.size
      BY <1>6, <2>1, <2>4
    <3> QED BY <1>4, <1>6, <2>2, <2>3, <2>4, <3>1 DEF CallOK
  <2>5. CASE q.pc = "open"
    <3>1. q.size = p.off
      BY <1>2, <1>4, <1>6, <2>1, <2>5
    <3>2. Covered(p.file, q.size)'
      BY <2>2, <3>1 DEF Covered
    <3> QED BY <1>4, <1>6, <2>3, <2>5, <3>2 DEF CallOK
  <2> QED BY <1>6, <2>4, <2>5
<1> QED BY <1>7, <1>8

\* The step that reads the lines: each alert before the noted size is settled,
\* among the lines to handle, or dropped because it lacks its newline.
LEMMA ReadLinesStep ==
    ASSUME IInv, NEW w \in Watcher, ReadLines(w),
           NEW p \in Process, p = proc[w], NEW q, q = proc'[w]
    PROVE  CallOK(q)'
<1>1. p.pc = "tail" /\ CallOK(p) /\ TypeOK
  BY DEF IInv, CallsOK, CallOK, ReadLines
<1>2. p # Idle /\ p.file \in File /\ p.off \in 0..2*MaxLines /\ p.size \in 0..2*MaxLines
  BY <1>1, CallType
<1>3. UNCHANGED <<content, torn, truncated, handled, skipped>> /\ cut \subseteq cut'
  BY DEF ReadLines, files
<1> DEFINE f == p.file
           T == TailLines(f, p.off)
<1>4. q = [pc |-> "handle", file |-> f, size |-> p.size, todo |-> T]
  BY <1>1 DEF ReadLines, TypeOK
<1>5. CASE f \in truncated
  BY <1>3, <1>4, <1>5 DEF CallOK
<1>6. CASE f \notin truncated
  <2>1. p.off <= Size(f) /\ Covered(f, p.off) /\ p.size <= Size(f)
    BY <1>1, <1>2, <1>6 DEF CallOK
  <2>2. Size(f)' = Size(f)
    BY <1>3 DEF Size
  <2>3. ASSUME NEW k \in DOMAIN content[f], p.size >= 2 * k - 1
        PROVE  \/ Settled(f, content[f][k]) \/ content[f][k] \in cut'
               \/ \E i \in DOMAIN T : T[i] = content[f][k]
    <3> DEFINE a == (p.off + 1) \div 2 + 1
               b == Size(f) \div 2
    <3>1. /\ content[f] \in Seq(Line) /\ Len(content[f]) \in Nat
          /\ k \in 1..Len(content[f]) /\ torn[f] \in BOOLEAN
      BY <1>1, <1>2 DEF TypeOK
    <3>2. /\ Size(f) \in Int /\ Size(f) >= 0
          /\ \/ Size(f) = 2 * Len(content[f])
             \/ Size(f) = 2 * Len(content[f]) - 1 /\ torn[f]
      <4>1. Size(f) \in 0..2*MaxLines
        BY <1>2, SizeType DEF IInv
      <4>2. \/ Size(f) = 2 * Len(content[f])
            \/ Size(f) = 2 * Len(content[f]) - 1 /\ torn[f]
        <5>1. CASE torn[f]
          BY <3>1, <5>1 DEF Size
        <5>2. CASE ~ torn[f]
          BY <3>1, <5>2 DEF Size
        <5> QED BY <5>1, <5>2
      <4> QED BY <4>1, <4>2, AlertWatchAssumption
    <3>3. a \in Int /\ a >= 1 /\ b \in Int /\ b <= Len(content[f])
      <4>1. p.off \in Int /\ p.off >= 0
        BY <1>2, AlertWatchAssumption
      <4>2. a \in Int /\ a >= 1
        BY <4>1
      <4>3. b \in Int /\ b <= Len(content[f])
        <5> DEFINE n == Len(content[f])
        <5>1. n \in Int /\ (Size(f) = 2 * n \/ Size(f) = 2 * n - 1)
          BY <3>1, <3>2
        <5> HIDE DEF n
        <5>2. b = n \/ b = n - 1
          BY <5>1, Halves
        <5> QED BY <5>1, <5>2 DEF n
      <4> QED BY <4>2, <4>3
    <3>4. CASE p.off >= 2 * k - 1
      BY <2>1, <3>4 DEF Covered
    <3>5. CASE p.off < 2 * k - 1 /\ k <= b
      <4>1. a <= k
        BY <1>2, <3>1, <3>5, AlertWatchAssumption
      <4>2. T = SubSeq(content[f], a, b)
        BY DEF TailLines
      <4> HIDE DEF T, a, b
      <4>3. k - a + 1 \in DOMAIN T /\ T[k - a + 1] = content[f][k]
        BY SMTT(30), <3>1, <3>3, <3>5, <4>1, <4>2
      <4> QED BY <4>3
    <3>6. CASE b < k
      <4>1. k = Len(content[f]) /\ Size(f) = 2 * k - 1
        <5>1. Size(f) # 2 * Len(content[f])
          BY <3>1, <3>6, Halves
        <5>2. b = Len(content[f]) - 1
          <6> DEFINE n == Len(content[f])
          <6>1. n \in Int /\ Size(f) = 2 * n - 1
            BY <3>1, <3>2, <5>1
          <6> HIDE DEF n
          <6> QED BY <6>1, Halves DEF n
        <5> QED BY SMTT(30), <3>1, <3>2, <3>6, <5>1, <5>2
      <4>2. torn[f] /\ p.size >= Size(f)
        BY <2>3, <3>1, <3>2, <4>1
      <4>3. cut' = cut \cup {content[f][Len(content[f])]}
        BY <4>2 DEF ReadLines
      <4> QED BY <4>1, <4>3
    <3> QED BY <1>2, <3>1, <3>3, <3>4, <3>5, <3>6, AlertWatchAssumption
  <2>4. \A k \in DOMAIN content[f] : p.size >= 2 * k - 1 =>
            Settled(f, content[f][k])' \/ \E i \in DOMAIN T : T[i] = content[f][k]
    BY <1>3, <2>3 DEF Settled
  <2> HIDE DEF T
  <2>5. CoveredBut(f, p.size, q.todo)'
    BY <1>3, <1>4, <2>4 DEF CoveredBut, Settled
  <2> QED BY <1>2, <1>4, <2>1, <2>2, <2>5 DEF CallOK
<1> QED BY <1>5, <1>6

\* The step that handles a line: the line is notified, or needs not be, and the
\* others are still to come.
LEMMA HandleLineStep ==
    ASSUME IInv, NEW w \in Watcher, HandleLine(w),
           NEW p \in Process, p = proc[w], NEW q, q = proc'[w]
    PROVE  CallOK(q)'
<1>1. p.pc = "handle" /\ p.todo # << >> /\ CallOK(p) /\ TypeOK
  BY DEF IInv, CallsOK, CallOK, HandleLine
<1>2. p # Idle /\ p.file \in File /\ p.size \in Int /\ p.todo \in Seq(Line)
  BY <1>1, CallType, AlertWatchAssumption
<1>3. UNCHANGED <<content, torn, truncated, cut, skipped>>
  BY DEF HandleLine, files
<1> DEFINE f == p.file
           h == Head(p.todo)
           T == Tail(p.todo)
<1>4. h \in Line /\ T \in Seq(Line)
  BY <1>1, <1>2
<1>5. q = [p EXCEPT !.todo = T]
  BY <1>1 DEF HandleLine, TypeOK
<1>6. q # Idle /\ q.pc = "handle" /\ q.file = f /\ q.size = p.size /\ q.todo = T
  BY <1>1, <1>2, <1>5 DEF Process, Idle
<1>7. /\ handled' = [handled EXCEPT ![h] = IF Notifies(f, h) /\ @ < 2 THEN @ + 1 ELSE @]
      /\ handled \in [Line -> 0..2]
  BY <1>1 DEF HandleLine, TypeOK
<1>8. handled'[h] > 0 \/ ~ Notifies(f, h)
  BY <1>4, <1>7
<1>9. \A l \in Line : handled[l] > 0 => handled'[l] > 0
  BY <1>4, <1>7
<1>10. \A i \in DOMAIN p.todo : p.todo[i] = h \/ \E j \in DOMAIN T : T[j] = p.todo[i]
  <2>1. ASSUME NEW i \in DOMAIN p.todo, i # 1
        PROVE  i - 1 \in DOMAIN T /\ T[i - 1] = p.todo[i]
    BY <1>1, <1>2, <2>1
  <2>2. p.todo[1] = h
    BY <1>1, <1>2
  <2> QED BY <2>1, <2>2
<1>11. CASE f \in truncated
  BY <1>3, <1>6, <1>11 DEF CallOK
<1>12. CASE f \notin truncated
  <2>1. p.size <= Size(f) /\ CoveredBut(f, p.size, p.todo)
    BY <1>1, <1>2, <1>12 DEF CallOK
  <2>2. Size(f)' = Size(f)
    BY <1>3 DEF Size
  <2>3. ASSUME NEW k \in DOMAIN content[f], p.size >= 2 * k - 1
        PROVE  \/ handled'[content[f][k]] > 0 \/ ~ Notifies(f, content[f][k])
               \/ content[f][k] \in cut \cup skipped
               \/ \E j \in DOMAIN T : T[j] = content[f][k]
    <3>1. content[f][k] \in Line
      BY <1>1, <1>2 DEF TypeOK
    <3>2. CASE Settled(f, content[f][k])
      BY <1>9, <3>1, <3>2 DEF Settled
    <3>3. ASSUME NEW i \in DOMAIN p.todo, p.todo[i] = content[f][k]
          PROVE  \/ handled'[content[f][k]] > 0 \/ ~ Notifies(f, content[f][k])
                 \/ \E j \in DOMAIN T : T[j] = content[f][k]
      <4> HIDE DEF T, h
      <4> QED BY <1>8, <1>10, <3>3
    <3> QED BY <2>1, <2>3, <3>2, <3>3 DEF CoveredBut
  <2> HIDE DEF T
  <2>4. CoveredBut(f, p.size, T)'
    BY <1>3, <2>3 DEF CoveredBut, Settled
  <2> QED BY <1>6, <2>1, <2>2, <2>4 DEF CallOK
<1> QED BY <1>11, <1>12

\* Emptying the offset file: all lines have been handled.
LEMMA OpenStateStep ==
    ASSUME IInv, NEW w \in Watcher, OpenState(w),
           NEW p \in Process, p = proc[w], NEW q, q = proc'[w]
    PROVE  CallOK(q)'
<1>1. /\ CallOK(p) /\ TypeOK
      /\ \/ p.pc = "open"
         \/ p.pc = "handle" /\ p.todo = << >>
  <2>1. CallOK(p) /\ TypeOK
    BY DEF IInv, CallsOK, CallOK
  <2> QED BY <2>1 DEF OpenState
<1>2. p # Idle /\ p.file \in File
  BY <1>1, CallType
<1>3. UNCHANGED <<content, torn, truncated, handled, cut, skipped>>
  BY DEF OpenState, files, history
<1>4. q = [pc |-> "write", file |-> p.file, size |-> p.size]
  BY <1>1 DEF OpenState, TypeOK
<1>5. CASE p.file \in truncated
  BY <1>3, <1>4, <1>5 DEF CallOK
<1>6. CASE p.file \notin truncated
  <2>1. p.size <= Size(p.file) /\ Covered(p.file, p.size)
    <3>1. CASE p.pc = "open"
      BY <1>1, <1>2, <1>6, <3>1 DEF CallOK
    <3>2. CASE p.pc = "handle" /\ p.todo = << >>
      BY <1>1, <1>2, <1>6, <3>2 DEF CallOK, CoveredBut, Covered
    <3> QED BY <1>1, <3>1, <3>2
  <2>2. Size(p.file)' = Size(p.file)
    BY <1>3 DEF Size
  <2>3. Covered(p.file, p.size)'
    BY <1>3, <2>1 DEF Covered, Settled
  <2> QED BY <1>4, <2>1, <2>2, <2>3 DEF CallOK
<1> QED BY <1>5, <1>6

\* Whoever steps, both calls keep knowing what they know.
LEMMA CallsStep ==
    ASSUME IInv, [Next]_vars
    PROVE  CallsOK'
<1>0. TypeOK /\ TypeOK'
  BY TypeStep DEF IInv
<1> SUFFICES ASSUME NEW v \in Watcher, NEW p \in Process, p = proc[v],
                    NEW q \in Process, q = proc'[v]
             PROVE  CallOK(q)'
  <2> SUFFICES ASSUME NEW v \in Watcher PROVE CallOK(proc[v])'
    BY DEF CallsOK
  <2>1. PICK p \in Process : p = proc[v]
    BY <1>0 DEF TypeOK
  <2>2. PICK q \in Process : q = proc'[v]
    BY <1>0 DEF TypeOK
  <2>3. CallOK(q)'
    BY <2>1, <2>2
  <2> QED BY <2>2, <2>3 DEF CallOK, Covered, CoveredBut, Settled, Size
<1>1. CASE q = p
  <2>1. CallOK(p)
    BY DEF IInv, CallsOK, CallOK
  <2> QED BY <1>1, <2>1, CallKept
<1>2. CASE q = Idle \/ q.pc = "read"
  BY <1>2 DEF CallOK
<1>3. ASSUME NEW f \in File, TakeEvent(f) \/ SweepNext(f) PROVE q = p \/ q.pc = "read"
  BY <1>0, <1>3 DEF TakeEvent, SweepNext, Start, TypeOK
<1>4. ASSUME NEW w \in Watcher, ProcessFile(w), w # v PROVE q = p
  BY <1>0, <1>4 DEF ProcessFile, ReadOffset, Stat, ReadLines, HandleLine, OpenState, WriteState,
                    TypeOK
<1>5. CASE ReadOffset(v)
  <2>1. p.pc = "read" /\ p.file \in File
    BY <1>5, CallType DEF ReadOffset, Idle
  <2>2. q = [pc |-> "stat", file |-> p.file, off |-> saved[p.file]]
    BY <1>0, <1>5 DEF ReadOffset, TypeOK
  <2>3. UNCHANGED <<content, torn, truncated, handled, cut, skipped, saved>>
    BY <1>5 DEF ReadOffset, files, history
  <2>4. SavedOK
    BY DEF IInv
  <2>5. q.pc = "stat" /\ q.file = p.file /\ q.off = saved[p.file]
    BY <2>2
  <2>6. CASE p.file \in truncated
    BY <2>3, <2>5, <2>6 DEF CallOK
  <2>7. CASE p.file \notin truncated
    <3>1. saved[p.file] <= Size(p.file) /\ Covered(p.file, saved[p.file])
      BY <2>1, <2>4, <2>7 DEF SavedOK
    <3>2. q.off <= Size(q.file)' /\ Covered(q.file, q.off)'
      BY <2>3, <2>5, <3>1 DEF Covered, Settled, Size
    <3> QED BY <2>5, <3>2 DEF CallOK
  <2> QED BY <2>6, <2>7
<1>6. CASE Stat(v) \/ ReadLines(v) \/ HandleLine(v) \/ OpenState(v)
  BY <1>6, StatStep, ReadLinesStep, HandleLineStep, OpenStateStep
<1>7. CASE WriteState(v)
  BY <1>0, <1>2, <1>7 DEF WriteState, TypeOK
<1>8. ASSUME NEW f \in File, \/ AppendText(f) \/ AppendNewline(f) \/ Truncate(f) \/ Age(f)
                             \/ InstallWatch(f)
      PROVE q = p
  BY <1>8 DEF AppendText, AppendNewline, Truncate, Age, InstallWatch
<1>9. CASE SweepFind \/ UNCHANGED vars
  BY <1>1, <1>9 DEF SweepFind, vars
<1>10. CASE Restart
  BY <1>2, <1>10 DEF Restart
<1>11. ASSUME NEW w \in Watcher, ProcessFile(w) PROVE CallOK(q)'
  BY <1>1, <1>4, <1>5, <1>6, <1>7, <1>11 DEF ProcessFile
<1> QED
  BY <1>1, <1>2, <1>3, <1>8, <1>9, <1>10, <1>11 DEF Next, Reactive, Sweep, Watcher

-------------------------------------------------------------------------------
\* The saved offset never passes an alert that nobody has dealt with, however
\* the reactive loop, the sweep, the writers and restarts interleave.
THEOREM OffsetSafe == Spec => []OffsetCoversHandled
<1>1. Init => IInv
  BY InitType DEF Init, IInv, TypeOK, SavedOK, CallsOK, CallOK, Covered, Size
<1>2. IInv /\ [Next]_vars => IInv'
  <2> SUFFICES ASSUME IInv, [Next]_vars PROVE IInv'
    OBVIOUS
  <2> QED BY FilesStep, TypeStep, SavedStep, CallsStep DEF IInv, FilesType
<1>3. IInv => OffsetCoversHandled
  BY DEF IInv, SavedOK, Covered, OffsetCoversHandled
<1> QED BY <1>1, <1>2, <1>3, PTL DEF Spec

-------------------------------------------------------------------------------
(* Duplicates.  An alert is notified again only when a call of process_file *)
(* reads it again, so what matters is where each call starts to read.       *)

\* An alert has one place, and it is notified after it was written.
LinesInv ==
    /\ \A l \in Line : handled[l] > 0 => l <= written
    /\ \A f \in File : \A k \in DOMAIN content[f] : content[f][k] <= written
    /\ \A f, g \in File : \A i \in DOMAIN content[f], k \in DOMAIN content[g] :
           content[f][i] = content[g][k] => f = g /\ i = k

\* A call handles each line it read once.  They come from its own file, and
\* from before the size it noted, but for those that were late.
TodoOK(p) ==
    p.pc = "handle" => \A i \in DOMAIN p.todo :
        /\ p.todo[i] <= written
        /\ \A j \in DOMAIN p.todo : p.todo[i] = p.todo[j] => i = j
        /\ \A g \in File : \A k \in DOMAIN content[g] :
               content[g][k] = p.todo[i] =>
                   g = p.file /\ (2 * k - 1 <= p.size \/ p.todo[i] \in late)

TodoInv == \A w \in Watcher : TodoOK(proc[w])

At(w, f) == proc[w] # Idle /\ proc[w].file = f

AloneInv ==
    \A f \in File \ overlaps : \A v, w \in Watcher : At(v, f) /\ At(w, f) => v = w

\* A call that has read the offset file is past unit n: it will not handle the
\* alert l that lies there, and will save an offset beyond it.
Past(p, l, n) ==
    /\ p.pc \in {"stat", "tail"} => p.off >= n
    /\ p.pc \in {"tail", "handle", "open", "write"} => p.size >= n
    /\ p.pc = "handle" => \A i \in DOMAIN p.todo : p.todo[i] # l

\* The alert l at unit n of f will not be read again: whoever is in f is past
\* it, and so is the offset file when nobody is, or nobody has read it yet.
BehindUs(f, l, n) ==
    /\ \A w \in Watcher : At(w, f) => Past(proc[w], l, n)
    /\ (\A w \in Watcher : At(w, f) => proc[w].pc = "read") => saved[f] >= n

MarkInv ==
    \A f \in File \ (overlaps \cup truncated) : \A k \in DOMAIN content[f] :
        handled[content[f][k]] > 0 /\ content[f][k] \notin late =>
            BehindUs(f, content[f][k], 2 * k - 1)

OnceInv ==
    IInv /\ LinesInv /\ TodoInv /\ AloneInv /\ MarkInv /\ DuplicatesHaveACause

\* What each command of process_file makes of the call it belongs to.
LEMMA CallStep ==
    ASSUME TypeOK, NEW v \in Watcher, NEW p \in Process, p = proc[v], NEW q, q = proc'[v]
    PROVE  /\ ReadOffset(v) => /\ p.pc = "read" /\ q.pc = "stat" /\ q # Idle /\ q.file = p.file
                               /\ q.off = saved[p.file]
           /\ Stat(v) => /\ p.pc = "stat" /\ q # Idle /\ q.file = p.file
                         /\ q.size = Size(p.file) /\ q.pc \in {"tail", "open"}
                         /\ Size(p.file) >= p.off =>
                                /\ q.pc = "tail" => q.off = p.off
                                /\ q.pc = "open" => ~ (Size(p.file) > p.off)
           /\ ReadLines(v) => /\ p.pc = "tail" /\ q.pc = "handle" /\ q # Idle /\ q.file = p.file
                              /\ q.size = p.size /\ q.todo = TailLines(p.file, p.off)
           /\ HandleLine(v) => /\ p.pc = "handle" /\ q.pc = "handle" /\ q # Idle
                               /\ q.file = p.file /\ q.size = p.size /\ q.todo = Tail(p.todo)
           /\ OpenState(v) => /\ p.pc \in {"open", "handle"} /\ q.pc = "write" /\ q # Idle
                              /\ q.file = p.file /\ q.size = p.size
           /\ WriteState(v) => p.pc = "write" /\ q = Idle
<1>1. ASSUME ReadOffset(v) PROVE q = [pc |-> "stat", file |-> p.file, off |-> saved[p.file]]
  BY <1>1 DEF ReadOffset, TypeOK
<1>2. ASSUME Stat(v)
      PROVE  /\ p.pc = "stat" /\ q # Idle /\ q.file = p.file
             /\ q.size = Size(p.file) /\ q.pc \in {"tail", "open"}
             /\ Size(p.file) >= p.off =>
                    /\ q.pc = "tail" => q.off = p.off
                    /\ q.pc = "open" => ~ (Size(p.file) > p.off)
  <2> DEFINE n == Size(p.file)
             o == IF n < p.off THEN 0 ELSE p.off
  <2>1. p.pc = "stat"
    BY <1>2 DEF Stat
  <2>2. q = IF n > o THEN [pc |-> "tail", file |-> p.file, off |-> o, size |-> n]
                     ELSE [pc |-> "open", file |-> p.file, size |-> n]
    BY <1>2 DEF Stat, TypeOK
  <2>3. p.file \in File /\ p.off \in Int /\ n \in Int
    <3>1. p.file \in File /\ p.off \in 0..2*MaxLines
      BY <2>1, CallType DEF Idle
    <3> QED BY <3>1, AlertWatchAssumption DEF Size, TypeOK
  <2>4. n >= p.off => o = p.off
    BY <2>3
  <2> HIDE DEF n, o
  <2>5. CASE n > o
    BY <2>1, <2>2, <2>4, <2>5 DEF Idle, n
  <2>6. CASE ~ (n > o)
    BY <2>1, <2>2, <2>4, <2>6 DEF Idle, n
  <2> QED BY <2>5, <2>6
<1>3. ASSUME ReadLines(v)
      PROVE  q = [pc |-> "handle", file |-> p.file, size |-> p.size,
                  todo |-> TailLines(p.file, p.off)]
  BY <1>3 DEF ReadLines, TypeOK
<1>4. ASSUME HandleLine(v) PROVE p.pc = "handle" /\ q = [p EXCEPT !.todo = Tail(p.todo)]
  BY <1>4 DEF HandleLine, TypeOK
<1>5. ASSUME OpenState(v) PROVE q = [pc |-> "write", file |-> p.file, size |-> p.size]
  BY <1>5 DEF OpenState, TypeOK
<1>6. ASSUME WriteState(v) PROVE q = Idle
  BY <1>6 DEF WriteState, TypeOK
<1>7. ASSUME HandleLine(v)
      PROVE  /\ q.pc = "handle" /\ q # Idle
             /\ q.file = p.file /\ q.size = p.size /\ q.todo = Tail(p.todo)
  <2> DEFINE T == Tail(p.todo)
  <2>1. p # Idle /\ p.pc = "handle" /\ p.todo \in Seq(Line) /\ q = [p EXCEPT !.todo = T]
    BY <1>4, <1>7, CallType
  <2> HIDE DEF T
  <2>2. /\ q.pc = "handle" /\ q # Idle
        /\ q.file = p.file /\ q.size = p.size /\ q.todo = T
    BY <2>1 DEF Process, Idle
  <2> QED BY <2>2 DEF T
<1> QED
  BY <1>1, <1>2, <1>3, <1>4, <1>5, <1>6, <1>7
  DEF ReadOffset, ReadLines, OpenState, WriteState, Idle

\* A watcher's call is left alone, cut off, begun or advanced by a step.
LEMMA WatcherStep ==
    ASSUME TypeOK, [Next]_vars, NEW v \in Watcher
    PROVE  \/ proc'[v] = proc[v]
           \/ proc'[v] = Idle
           \/ proc[v] = Idle /\ \E f \in File : Start(v, f) /\ proc'[v] = [pc |-> "read", file |-> f]
           \/ ReadOffset(v) \/ Stat(v) \/ ReadLines(v) \/ HandleLine(v) \/ OpenState(v)
<1>1. ASSUME NEW f \in File, NEW w \in Watcher, Start(w, f)
      PROVE  \/ proc'[v] = proc[v]
             \/ proc[v] = Idle /\ \E g \in File :
                    Start(v, g) /\ proc'[v] = [pc |-> "read", file |-> g]
  BY <1>1 DEF Start, TypeOK
<1>2. ASSUME NEW w \in Watcher, w # v, ProcessFile(w) PROVE proc'[v] = proc[v]
  BY <1>2 DEF ProcessFile, ReadOffset, Stat, ReadLines, HandleLine, OpenState, WriteState, TypeOK
<1>3. ASSUME WriteState(v) PROVE proc'[v] = Idle
  BY <1>3 DEF WriteState, TypeOK
<1>4. ASSUME NEW f \in File, \/ AppendText(f) \/ AppendNewline(f) \/ Truncate(f) \/ Age(f)
                             \/ InstallWatch(f)
      PROVE proc'[v] = proc[v]
  BY <1>4 DEF AppendText, AppendNewline, Truncate, Age, InstallWatch
<1>5. CASE SweepFind \/ UNCHANGED vars
  BY <1>5 DEF SweepFind, vars
<1>6. CASE Restart
  BY <1>6 DEF Restart
<1>7. ASSUME NEW f \in File, TakeEvent(f) \/ SweepNext(f) PROVE \E w \in Watcher : Start(w, f)
  BY <1>7 DEF TakeEvent, SweepNext, Watcher
<1>8. ASSUME NEW w \in Watcher, ProcessFile(w)
      PROVE  \/ proc'[v] = proc[v] \/ proc'[v] = Idle
             \/ ReadOffset(v) \/ Stat(v) \/ ReadLines(v) \/ HandleLine(v) \/ OpenState(v)
  BY <1>2, <1>3, <1>8 DEF ProcessFile
<1> QED
  BY <1>1, <1>4, <1>5, <1>6, <1>7, <1>8 DEF Next, Reactive, Sweep, Watcher

\* A line of a file was there before, in the same place, or is the one that has
\* just been written.
LEMMA TextKept ==
    ASSUME TypeOK, [Next]_vars
    PROVE  /\ written \in Int /\ written' \in Int /\ written <= written'
           /\ late \subseteq late' /\ overlaps \subseteq overlaps'
           /\ \A f \in File : \A k \in DOMAIN content'[f] :
                  \/ k \in DOMAIN content[f] /\ content'[f][k] = content[f][k]
                  \/ /\ AppendText(f) /\ content'[f][k] = written + 1 /\ written' = written + 1
                     /\ k = Len(content[f]) + 1
<1>0. /\ content \in [File -> Seq(Line)] /\ written \in Int
  BY AlertWatchAssumption DEF TypeOK
<1>1. ASSUME NEW f \in File, AppendText(f)
      PROVE  /\ written' = written + 1 /\ late' = late /\ overlaps' = overlaps
             /\ \A g \in File : \A k \in DOMAIN content'[g] :
                  \/ k \in DOMAIN content[g] /\ content'[g][k] = content[g][k]
                  \/ /\ AppendText(g) /\ content'[g][k] = written + 1
                     /\ k = Len(content[g]) + 1
  <2>1. /\ content' = [content EXCEPT ![f] = Append(content[f], written + 1)]
        /\ written' = written + 1 /\ late' = late /\ overlaps' = overlaps
    BY <1>1 DEF AppendText, history
  <2>2. written + 1 \in Line
    BY <1>1, <1>0, AlertWatchAssumption DEF AppendText, Line, TypeOK
  <2>3. ASSUME NEW k \in DOMAIN content'[f]
        PROVE  \/ k \in DOMAIN content[f] /\ content'[f][k] = content[f][k]
               \/ content'[f][k] = written + 1 /\ k = Len(content[f]) + 1
    <3>1. content[f] \in Seq(Line) /\ content'[f] = Append(content[f], written + 1)
      BY <1>0, <2>1
    <3> QED BY <2>2, <3>1
  <2>4. \A g \in File : g # f => content'[g] = content[g]
    BY <1>0, <2>1
  <2> QED BY <1>1, <2>1, <2>3, <2>4
<1>2. ASSUME NEW f \in File, Truncate(f)
      PROVE  /\ UNCHANGED <<written, late, overlaps>>
             /\ \A g \in File : content'[g] = content[g] \/ content'[g] = << >>
  BY <1>0, <1>2 DEF Truncate, history
<1>3. ASSUME NEW w \in Watcher, ProcessFile(w)
      PROVE  UNCHANGED <<content, written, overlaps>> /\ late \subseteq late'
  BY <1>3 DEF ProcessFile, ReadOffset, Stat, ReadLines, HandleLine, OpenState, WriteState, files,
              history
<1>4. ASSUME NEW f \in File, \/ AppendNewline(f) \/ Age(f) \/ InstallWatch(f) \/ TakeEvent(f)
                             \/ SweepNext(f)
      PROVE  UNCHANGED <<content, written, late>> /\ overlaps \subseteq overlaps'
  BY <1>4 DEF AppendNewline, Age, InstallWatch, TakeEvent, SweepNext, Start, files, history
<1>5. CASE SweepFind \/ Restart \/ UNCHANGED vars
  BY <1>0, <1>5 DEF SweepFind, Restart, vars, files, history
<1> QED
  BY <1>0, <1>1, <1>2, <1>3, <1>4, <1>5 DEF Next, Reactive, Sweep, Watcher

\* Only handle_line notifies: the line it is given, and no other.
LEMMA HandledStep ==
    ASSUME TypeOK, [Next]_vars, NEW l \in Line, handled'[l] # handled[l]
    PROVE  \E w \in Watcher : HandleLine(w) /\ l = Head(proc[w].todo)
                              /\ handled[l] \in 0..1 /\ handled'[l] = handled[l] + 1
<1>0. handled \in [Line -> 0..2]
  BY DEF TypeOK
<1>1. ASSUME NEW w \in Watcher, HandleLine(w)
      PROVE  l = Head(proc[w].todo) /\ handled[l] \in 0..1 /\ handled'[l] = handled[l] + 1
  <2> DEFINE h == Head(proc[w].todo)
             b == Notifies(proc[w].file, h)
  <2>1. handled' = [handled EXCEPT ![h] = IF b /\ @ < 2 THEN @ + 1 ELSE @]
    BY <1>1 DEF HandleLine
  <2> HIDE DEF h, b
  <2>2. l = h
    BY <1>0, <2>1
  <2>3. h \in Line /\ handled[h] \in 0..2
    BY <1>0, <2>2
  <2> QED BY <1>0, <2>1, <2>2, <2>3 DEF h
<1>2. ASSUME NEW w \in Watcher, ProcessFile(w), ~ HandleLine(w) PROVE FALSE
  BY <1>2 DEF ProcessFile, ReadOffset, Stat, ReadLines, OpenState, WriteState, history
<1>3. ASSUME NEW g \in File, \/ AppendText(g) \/ AppendNewline(g) \/ Truncate(g) \/ Age(g)
                             \/ InstallWatch(g) \/ TakeEvent(g) \/ SweepNext(g)
      PROVE FALSE
  BY <1>3 DEF AppendText, AppendNewline, Truncate, Age, InstallWatch, TakeEvent, SweepNext, history
<1>4. CASE Restart \/ SweepFind \/ UNCHANGED vars
  BY <1>4 DEF Restart, SweepFind, vars, history
<1> QED
  BY <1>1, <1>2, <1>3, <1>4 DEF Next, Reactive, Sweep, Watcher

\* The line handle_line is given was written before, and is not among those the
\* call still has to handle.
LEMMA HeadOfTodo ==
    ASSUME TypeOK, NEW v \in Watcher, HandleLine(v), NEW p \in Process, p = proc[v]
    PROVE  /\ p # Idle /\ p.file \in File /\ p.pc = "handle" /\ p.todo \in Seq(Line)
           /\ 1 \in DOMAIN p.todo /\ p.todo[1] = Head(p.todo) /\ Head(p.todo) \in Line
           /\ \A i \in DOMAIN Tail(p.todo) :
                  i + 1 \in DOMAIN p.todo /\ i + 1 # 1 /\ Tail(p.todo)[i] = p.todo[i + 1]
                  /\ i \in Nat
<1>1. p # Idle /\ p.file \in File /\ p.pc = "handle" /\ p.todo \in Seq(Line) /\ p.todo # << >>
  BY CallType DEF HandleLine
<1> DEFINE T == p.todo
<1>2. T \in Seq(Line) /\ T # << >>
  BY <1>1
<1> HIDE DEF T
<1>3. /\ 1 \in DOMAIN T /\ T[1] = Head(T) /\ Head(T) \in Line
      /\ \A i \in DOMAIN Tail(T) :
             i + 1 \in DOMAIN T /\ i + 1 # 1 /\ Tail(T)[i] = T[i + 1] /\ i \in Nat
  BY <1>2
<1> QED BY <1>1, <1>3 DEF T

LEMMA LinesStep ==
    ASSUME IInv, LinesInv, TodoInv, [Next]_vars
    PROVE  LinesInv'
<1>0. TypeOK /\ TypeOK'
  BY TypeStep DEF IInv
<1>1. ASSUME NEW l \in Line, handled'[l] > 0 PROVE l <= written'
  <2>1. written \in Int /\ written' \in Int /\ written <= written' /\ l \in Int
    BY <1>0, TextKept, AlertWatchAssumption DEF Line
  <2>2. CASE handled'[l] = handled[l]
    BY <1>1, <2>1, <2>2 DEF LinesInv
  <2>3. CASE handled'[l] # handled[l]
    <3>1. PICK w \in Watcher : HandleLine(w) /\ l = Head(proc[w].todo)
      BY <1>0, <2>3, HandledStep
    <3>2. PICK p \in Process : p = proc[w]
      BY <1>0 DEF TypeOK
    <3>3. p.pc = "handle" /\ 1 \in DOMAIN p.todo /\ p.todo[1] = l
      BY <1>0, <3>1, <3>2, HeadOfTodo
    <3>4. TodoOK(p)
      BY <3>2 DEF TodoInv, TodoOK
    <3>5. l <= written
      BY <3>3, <3>4 DEF TodoOK
    <3> QED BY <2>1, <3>5
  <2> QED BY <2>2, <2>3
<1>2. ASSUME NEW f \in File, NEW k \in DOMAIN content'[f] PROVE content'[f][k] <= written'
  <2>1. written \in Int /\ written' \in Int /\ written <= written'
    BY <1>0, TextKept
  <2>2. CASE k \in DOMAIN content[f] /\ content'[f][k] = content[f][k]
    <3>1. content[f][k] \in Int /\ content[f][k] <= written
      BY <1>0, <2>2, AlertWatchAssumption DEF LinesInv, TypeOK, Line
    <3> QED BY <2>1, <2>2, <3>1
  <2> QED BY <1>0, <2>1, <2>2, TextKept
<1>3. ASSUME NEW f \in File, NEW g \in File, NEW i \in DOMAIN content'[f],
             NEW k \in DOMAIN content'[g], content'[f][i] = content'[g][k]
      PROVE  f = g /\ i = k
  <2> DEFINE Old(h, n) == n \in DOMAIN content[h] /\ content'[h][n] = content[h][n]
             New(h, n) == AppendText(h) /\ content'[h][n] = written + 1 /\ n = Len(content[h]) + 1
  <2>1. written \in Int /\ (Old(f, i) \/ New(f, i)) /\ (Old(g, k) \/ New(g, k))
    BY <1>0, TextKept
  <2>2. ASSUME NEW h \in File, NEW n, Old(h, n) PROVE content'[h][n] <= written
    BY <2>2 DEF LinesInv
  <2>3. i \in Nat /\ k \in Nat
    <3>1. content'[f] \in Seq(Line) /\ content'[g] \in Seq(Line)
      BY <1>0 DEF TypeOK
    <3> QED BY <3>1
  <2>4. CASE Old(f, i) /\ Old(g, k)
    <3>1. i \in DOMAIN content[f] /\ k \in DOMAIN content[g] /\ content[f][i] = content[g][k]
      BY <1>3, <2>4
    <3> QED BY <3>1 DEF LinesInv
  <2>5. CASE New(f, i) /\ New(g, k)
    <3>1. /\ content' = [content EXCEPT ![f] = Append(@, written + 1)]
          /\ content' = [content EXCEPT ![g] = Append(@, written + 1)]
      BY <2>5 DEF AppendText
    <3>2. content[f] \in Seq(Line) /\ content \in [File -> Seq(Line)]
      BY <1>0 DEF TypeOK
    <3>3. Append(content[f], written + 1) # content[f]
      BY <3>2
    <3>4. ASSUME f # g PROVE FALSE
      <4>1. content'[f] = Append(content[f], written + 1)
        BY <3>1, <3>2
      <4>2. content'[f] = content[f]
        BY <3>1, <3>2, <3>4
      <4> QED BY <3>3, <4>1, <4>2
    <3> QED BY <2>5, <3>4
  <2>6. CASE Old(f, i) /\ New(g, k)
    <3>1. content'[f][i] <= written
      BY <2>2, <2>6
    <3>2. content'[f][i] = written + 1
      BY <1>3, <2>6
    <3> QED BY <2>1, <3>1, <3>2
  <2>7. CASE New(f, i) /\ Old(g, k)
    <3>1. content'[g][k] <= written
      BY <2>2, <2>7
    <3>2. content'[g][k] = written + 1
      BY <1>3, <2>7
    <3> QED BY <2>1, <3>1, <3>2
  <2> HIDE DEF Old, New
  <2> QED BY <2>1, <2>4, <2>5, <2>6, <2>7
<1> QED BY <1>1, <1>2, <1>3 DEF LinesInv

\* The lines that ReadLines takes, each from a place of its own beyond the
\* offset.
LEMMA TailPlaces ==
    ASSUME TypeOK, FilesOK, NEW f \in File, NEW off \in Nat,
           NEW T, T = TailLines(f, off), NEW i \in DOMAIN T
    PROVE  LET k == (off + 1) \div 2 + i IN
           /\ i \in Nat /\ k \in DOMAIN content[f] /\ k \in 1..(Size(f) \div 2)
           /\ 2 * k - 1 > off /\ T[i] = content[f][k]
<1> DEFINE a == (off + 1) \div 2 + 1
           b == Size(f) \div 2
           c == content[f]
<1>1. c \in Seq(Line) /\ Len(c) \in Nat /\ DOMAIN c = 1..Len(c)
  BY DEF TypeOK
<1>2. a \in Nat /\ a >= 1 /\ 2 * (a - 1) >= off
  OBVIOUS
<1>3. b \in Nat /\ b <= Len(c)
  BY SizeType, AlertWatchAssumption
<1>4. T = SubSeq(c, a, b)
  BY DEF TailLines
<1> HIDE DEF a, b, c
<1>5. Len(T) = IF a <= b THEN b - a + 1 ELSE 0
  BY <1>1, <1>2, <1>3, <1>4
<1>6. DOMAIN T = 1..Len(T)
  BY <1>1, <1>2, <1>3, <1>4
<1>7. i \in Nat /\ i >= 1 /\ a + i - 1 <= b
  BY <1>2, <1>3, <1>5, <1>6
<1>8. T[i] = c[a + i - 1]
  BY <1>1, <1>2, <1>3, <1>4, <1>5, <1>6, <1>7
<1>9. (off + 1) \div 2 + i = a + i - 1
  BY <1>7 DEF a
<1>10. 2 * (a + i - 1) - 1 > off
  BY <1>2, <1>7
<1>11. a + i - 1 \in 1..b /\ a + i - 1 \in DOMAIN c
  BY <1>1, <1>2, <1>3, <1>7
<1> QED BY <1>7, <1>8, <1>9, <1>10, <1>11 DEF b, c

LEMMA TodoStep ==
    ASSUME IInv, LinesInv, TodoInv, [Next]_vars
    PROVE  TodoInv'
<1>0. TypeOK /\ TypeOK' /\ FilesOK
  BY TypeStep DEF IInv
<1> SUFFICES ASSUME NEW v \in Watcher, NEW p \in Process, p = proc[v],
                    NEW q \in Process, q = proc'[v]
             PROVE  TodoOK(q)'
  <2> SUFFICES ASSUME NEW v \in Watcher PROVE TodoOK(proc[v])'
    BY DEF TodoInv
  <2>1. PICK p \in Process : p = proc[v]
    BY <1>0 DEF TypeOK
  <2>2. PICK q \in Process : q = proc'[v]
    BY <1>0 DEF TypeOK
  <2>3. TodoOK(q)'
    BY <2>1, <2>2
  <2> QED BY <2>2, <2>3 DEF TodoOK
<1>1. TodoOK(p)
  BY DEF TodoInv, TodoOK
<1>2. ASSUME q.pc = "handle", q.file = p.file, q.size = p.size, p.pc = "handle",
             NEW i \in DOMAIN q.todo, NEW j \in DOMAIN p.todo, q.todo[i] = p.todo[j]
      PROVE  /\ q.todo[i] <= written'
             /\ \A g \in File : \A k \in DOMAIN content'[g] :
                    content'[g][k] = q.todo[i] =>
                        g = q.file /\ (2 * k - 1 <= q.size \/ q.todo[i] \in late')
  <2>1. p.todo[j] <= written /\ p.todo[j] \in Int
    <3>1. p.todo \in Seq(Line)
      BY <1>2, CallType
    <3> QED BY <1>1, <1>2, <3>1, AlertWatchAssumption DEF TodoOK, Line
  <2>2. written \in Int /\ written' \in Int /\ written <= written' /\ late \subseteq late'
    BY <1>0, TextKept
  <2>3. ASSUME NEW g \in File, NEW k \in DOMAIN content'[g], content'[g][k] = p.todo[j]
        PROVE  g = p.file /\ (2 * k - 1 <= p.size \/ p.todo[j] \in late')
    <3>1. content'[g][k] # written + 1
      BY <2>1, <2>2, <2>3
    <3>2. k \in DOMAIN content[g] /\ content[g][k] = p.todo[j]
      BY <1>0, <2>3, <3>1, TextKept
    <3> QED BY <1>1, <1>2, <2>2, <3>2 DEF TodoOK
  <2> QED BY <1>2, <2>1, <2>2, <2>3
<1>3. CASE q = p
  BY <1>1, <1>2, <1>3 DEF TodoOK
<1>4. CASE q.pc # "handle"
  BY <1>4 DEF TodoOK
<1>5. CASE HandleLine(v)
  <2>1. /\ p.pc = "handle" /\ q.pc = "handle" /\ q.file = p.file /\ q.size = p.size
        /\ q.todo = Tail(p.todo)
    BY <1>0, <1>5, CallStep
  <2>2. \A i \in DOMAIN q.todo :
            i + 1 \in DOMAIN p.todo /\ q.todo[i] = p.todo[i + 1] /\ i \in Nat
    BY <1>0, <1>5, <2>1, HeadOfTodo
  <2>3. ASSUME NEW i \in DOMAIN q.todo, NEW j \in DOMAIN q.todo, q.todo[i] = q.todo[j]
        PROVE  i = j
    <3>1. i + 1 = j + 1
      BY <1>1, <2>1, <2>2, <2>3 DEF TodoOK
    <3> QED BY <2>2, <3>1
  <2> QED BY <1>2, <2>1, <2>2, <2>3 DEF TodoOK
<1>6. CASE ReadLines(v)
  <2>1. /\ p.pc = "tail" /\ q.pc = "handle" /\ q.file = p.file /\ q.size = p.size
        /\ q.todo = TailLines(p.file, p.off)
    BY <1>0, <1>6, CallStep
  <2>2. /\ p.file \in File /\ p.off \in Nat /\ p.size \in Int
    <3>1. p.file \in File /\ p.off \in 0..2*MaxLines /\ p.size \in 0..2*MaxLines
      BY <2>1, CallType DEF Idle
    <3> QED BY <3>1, AlertWatchAssumption
  <2>3. content' = content /\ written' = written
    BY <1>6 DEF ReadLines, files
  <2> DEFINE f == p.file
             d == (p.off + 1) \div 2
             c == content[f]
  <2>4. \A i \in DOMAIN q.todo :
            /\ i \in Nat /\ d + i \in DOMAIN c /\ d + i \in 1..(Size(f) \div 2)
            /\ q.todo[i] = c[d + i]
    BY <1>0, <2>1, <2>2, TailPlaces
  <2>5. d \in Nat
    BY <2>2
  <2>6. late' = late \cup {c[k] : k \in {i \in 1..(Size(f) \div 2) : 2 * i - 1 > p.size}}
    BY <1>6 DEF ReadLines
  <2> HIDE DEF d
  <2>7. ASSUME NEW i \in DOMAIN q.todo, NEW j \in DOMAIN q.todo, q.todo[i] = q.todo[j]
        PROVE  i = j
    <3>1. d + i = d + j
      BY <2>2, <2>4, <2>7 DEF LinesInv
    <3> QED BY <2>4, <2>5, <3>1
  <2>8. ASSUME NEW i \in DOMAIN q.todo
        PROVE  /\ q.todo[i] <= written
               /\ \A g \in File : \A k \in DOMAIN content[g] :
                      content[g][k] = q.todo[i] =>
                          g = f /\ (2 * k - 1 <= p.size \/ q.todo[i] \in late')
    <3>1. q.todo[i] <= written
      BY <2>2, <2>4 DEF LinesInv
    <3>2. ASSUME NEW g \in File, NEW k \in DOMAIN content[g], content[g][k] = q.todo[i]
          PROVE  g = f /\ (2 * k - 1 <= p.size \/ q.todo[i] \in late')
      <4>1. g = f /\ k = d + i
        <5>1. d + i \in DOMAIN content[f] /\ content[g][k] = content[f][d + i]
          BY <2>4, <3>2
        <5> QED BY <2>2, <5>1 DEF LinesInv
      <4>2. k \in 1..(Size(f) \div 2) /\ q.todo[i] = c[k]
        BY <2>4, <4>1
      <4>3. Size(f) \div 2 \in Int
        BY <1>0, <2>2, SizeType, AlertWatchAssumption
      <4>4. CASE 2 * k - 1 > p.size
        BY <2>6, <4>1, <4>2, <4>4
      <4>5. CASE ~ (2 * k - 1 > p.size)
        BY <2>2, <4>1, <4>2, <4>3, <4>5
      <4> QED BY <4>4, <4>5
    <3> QED BY <3>1, <3>2
  <2> QED BY <2>1, <2>3, <2>7, <2>8 DEF TodoOK
<1>7. CASE Stat(v) \/ ReadOffset(v) \/ OpenState(v)
  <2>1. q.pc \in {"stat", "tail", "open", "write"}
    <3>1. CASE Stat(v)
      BY <1>0, <3>1, CallStep
    <3>2. CASE ReadOffset(v)
      BY <1>0, <3>2, CallStep
    <3>3. CASE OpenState(v)
      BY <1>0, <3>3, CallStep
    <3> QED BY <1>7, <3>1, <3>2, <3>3
  <2> QED BY <1>4, <2>1
<1>8. CASE q = Idle \/ \E f \in File : q = [pc |-> "read", file |-> f]
  <2>1. CASE q = Idle
    BY <1>4, <2>1, CallType
  <2>2. ASSUME NEW f \in File, q = [pc |-> "read", file |-> f] PROVE q.pc = "read"
    BY <2>2
  <2> QED BY <1>4, <1>8, <2>1, <2>2
<1> QED
  BY <1>0, <1>3, <1>5, <1>6, <1>7, <1>8, WatcherStep

\* A call that was not there before belongs to a watcher that has just begun it.
LEMMA AtStep ==
    ASSUME TypeOK, [Next]_vars, NEW v \in Watcher, NEW f \in File, At(v, f)'
    PROVE  At(v, f) \/ (Start(v, f) /\ proc[v] = Idle)
<1>1. PICK p \in Process : p = proc[v]
  BY DEF TypeOK
<1>2. ASSUME NEW g \in File, Start(v, g), proc'[v] = [pc |-> "read", file |-> g] PROVE g = f
  BY <1>2 DEF At
<1>3. CASE ReadOffset(v) \/ Stat(v) \/ ReadLines(v) \/ HandleLine(v) \/ OpenState(v)
  <2>1. proc'[v].file = p.file /\ p.pc # "idle"
    BY <1>1, <1>3, CallStep
  <2>2. p # Idle
    BY <2>1 DEF Idle
  <2> QED BY <1>1, <2>1, <2>2 DEF At
<1> QED
  BY <1>2, <1>3, WatcherStep DEF At

LEMMA AloneStep ==
    ASSUME TypeOK, AloneInv, [Next]_vars
    PROVE  AloneInv'
<1> SUFFICES ASSUME NEW f \in File, f \notin overlaps', NEW v \in Watcher, NEW w \in Watcher,
                    At(v, f)', At(w, f)', v # w
             PROVE  FALSE
  BY DEF AloneInv
<1>1. f \notin overlaps
  BY TextKept
<1>2. ASSUME NEW a \in Watcher, NEW b \in Watcher, a # b, Start(a, f), At(b, f)' PROVE FALSE
  <2>1. proc'[b] = proc[b]
    BY <1>2 DEF Start, TypeOK
  <2>2. proc[b] # Idle /\ proc[b].file = f
    BY <1>2, <2>1 DEF At
  <2> QED BY <1>2, <2>2 DEF Start
<1> QED
  BY <1>1, <1>2, AtStep DEF AloneInv

\* An alert that has been notified was in its place before the step.
LEMMA NotifiedIsOld ==
    ASSUME TypeOK, LinesInv, [Next]_vars, NEW f \in File, NEW k \in DOMAIN content'[f],
           handled'[content'[f][k]] > 0
    PROVE  k \in DOMAIN content[f] /\ content[f][k] = content'[f][k]
<1> SUFFICES ASSUME AppendText(f), content'[f][k] = written + 1 PROVE FALSE
  BY TextKept
<1>1. written \in Int /\ written + 1 \in Line
  BY AlertWatchAssumption DEF AppendText, TypeOK, Line
<1>2. handled[written + 1] > 0
  BY DEF AppendText, history
<1>3. written + 1 <= written
  BY <1>1, <1>2 DEF LinesInv
<1> QED BY <1>1, <1>3

\* A call that is past the alert at unit n of f stays past it, and one that has
\* not read the offset file will be when it has.
LEMMA PastStep ==
    ASSUME IInv, LinesInv, AloneInv, [Next]_vars, NEW f \in File \ (overlaps \cup truncated),
           NEW k \in DOMAIN content[f], NEW l, l = content[f][k], NEW n, n = 2 * k - 1,
           BehindUs(f, l, n), NEW v \in Watcher, At(v, f)'
    PROVE  Past(proc[v], l, n)'
<1>0. TypeOK /\ TypeOK' /\ FilesOK
  BY TypeStep DEF IInv
<1>1. PICK p \in Process : p = proc[v]
  BY <1>0 DEF TypeOK
<1>2. PICK q \in Process : q = proc'[v]
  BY <1>0 DEF TypeOK
<1>3. q # Idle /\ q.file = f /\ k \in Int
  <2>1. content[f] \in Seq(Line)
    BY <1>0 DEF TypeOK
  <2> QED BY <1>2, <2>1 DEF At
<1> SUFFICES Past(q, l, n)
  BY <1>2 DEF Past
<1>4. CASE q = p
  <2>1. At(v, f)
    BY <1>1, <1>3, <1>4 DEF At
  <2> QED BY <1>1, <1>4, <2>1 DEF BehindUs
<1>5. CASE \E g \in File : q = [pc |-> "read", file |-> g]
  <2>1. q.pc = "read"
    BY <1>5
  <2> QED BY <2>1 DEF Past
<1>6. ASSUME p # Idle, p.file = f PROVE At(v, f) /\ Past(p, l, n)
  BY <1>1, <1>6 DEF At, BehindUs
<1>7. CASE ReadOffset(v)
  <2>1. /\ p.pc = "read" /\ q.pc = "stat" /\ q.file = p.file /\ q.off = saved[p.file]
    BY <1>0, <1>1, <1>2, <1>7, CallStep
  <2>2. p # Idle /\ p.file = f
    BY <1>3, <2>1 DEF Idle
  <2>3. \A w \in Watcher : At(w, f) => w = v
    BY <1>6, <2>2 DEF AloneInv
  <2>4. saved[f] >= n
    BY <1>1, <2>1, <2>3 DEF BehindUs
  <2> QED BY <2>1, <2>2, <2>4 DEF Past
<1>8. CASE Stat(v)
  <2>1. /\ p.pc = "stat" /\ q.file = p.file /\ q.size = Size(p.file)
        /\ q.pc \in {"tail", "open"}
        /\ Size(p.file) >= p.off => /\ q.pc = "tail" => q.off = p.off
                                    /\ q.pc = "open" => ~ (Size(p.file) > p.off)
    BY <1>0, <1>1, <1>2, <1>8, CallStep
  <2>2. p # Idle /\ p.file = f
    BY <1>3, <2>1 DEF Idle
  <2>3. p.off >= n /\ p.off \in Int /\ n \in Int
    <3>1. p.off \in 0..2*MaxLines
      BY <2>1, CallType
    <3> QED BY <1>3, <1>6, <2>1, <2>2, <3>1, AlertWatchAssumption DEF Past
  <2>4. p.off <= Size(f) /\ Size(f) \in Int
    <3>1. CallOK(p)
      BY <1>1 DEF IInv, CallsOK, CallOK
    <3>2. Size(f) \in Int
      BY <1>0 DEF Size, TypeOK
    <3> QED BY <2>1, <2>2, <3>1, <3>2 DEF CallOK
  <2> QED BY <2>1, <2>2, <2>3, <2>4 DEF Past
<1>9. CASE ReadLines(v)
  <2>1. /\ p.pc = "tail" /\ q.pc = "handle" /\ q.file = p.file
        /\ q.size = p.size /\ q.todo = TailLines(p.file, p.off)
    BY <1>0, <1>1, <1>2, <1>9, CallStep
  <2>2. p # Idle /\ p.file = f
    BY <1>3, <2>1 DEF Idle
  <2>3. p.off >= n /\ p.size >= n /\ p.off \in Nat
    <3>1. p.off \in 0..2*MaxLines
      BY <2>1, CallType
    <3> QED BY <1>6, <2>1, <2>2, <3>1, AlertWatchAssumption DEF Past
  <2>4. ASSUME NEW i \in DOMAIN q.todo PROVE q.todo[i] # l
    <3> DEFINE j == (p.off + 1) \div 2 + i
    <3>1. j \in DOMAIN content[f] /\ 2 * j - 1 > p.off /\ q.todo[i] = content[f][j] /\ i \in Nat
      BY <1>0, <2>1, <2>2, <2>3, TailPlaces
    <3>2. j # k
      BY <1>3, <2>3, <3>1
    <3> QED BY <3>1, <3>2 DEF LinesInv
  <2> QED BY <2>1, <2>3, <2>4 DEF Past
<1>10. CASE HandleLine(v)
  <2>1. /\ p.pc = "handle" /\ q.pc = "handle" /\ q.file = p.file /\ q.size = p.size
        /\ q.todo = Tail(p.todo)
    BY <1>0, <1>1, <1>2, <1>10, CallStep
  <2>2. p # Idle /\ p.file = f
    BY <1>3, <2>1 DEF Idle
  <2>3. \A i \in DOMAIN q.todo : i + 1 \in DOMAIN p.todo /\ q.todo[i] = p.todo[i + 1]
    BY <1>0, <1>1, <1>10, <2>1, HeadOfTodo
  <2> QED BY <1>6, <2>1, <2>2, <2>3 DEF Past
<1>11. CASE OpenState(v)
  <2>1. p.pc \in {"open", "handle"} /\ q.pc = "write" /\ q.file = p.file /\ q.size = p.size
    BY <1>0, <1>1, <1>2, <1>11, CallStep
  <2>2. p # Idle /\ p.file = f
    BY <1>3, <2>1 DEF Idle
  <2> QED BY <1>6, <2>1, <2>2 DEF Past
<1> QED
  BY <1>0, <1>1, <1>2, <1>3, <1>4, <1>5, <1>7, <1>8, <1>9, <1>10, <1>11, WatcherStep

\* The offset file passes the alert at unit n of f too, as soon as nobody is in
\* f but who is yet to read it.
LEMMA SavedMarkStep ==
    ASSUME IInv, LinesInv, [Next]_vars, NEW f \in File \ (overlaps \cup truncated),
           NEW k \in DOMAIN content[f], NEW l, l = content[f][k], NEW n, n = 2 * k - 1,
           BehindUs(f, l, n),
           \A w \in Watcher : At(w, f)' => proc'[w].pc = "read"
    PROVE  saved'[f] >= n
<1>0. TypeOK /\ TypeOK' /\ FilesOK
  BY TypeStep DEF IInv
<1>1. ASSUME saved'[f] = saved[f], \A u \in Watcher : At(u, f) => proc'[u] = proc[u]
      PROVE  saved'[f] >= n
  <2>1. ASSUME NEW u \in Watcher, At(u, f) PROVE proc[u].pc = "read"
    <3>1. proc'[u] = proc[u] /\ At(u, f)'
      BY <1>1, <2>1 DEF At
    <3> QED BY <3>1
  <2> QED BY <1>1, <2>1 DEF BehindUs
<1>2. ASSUME UNCHANGED <<saved, proc>> PROVE saved'[f] >= n
  BY <1>1, <1>2
<1>3. ASSUME NEW w \in Watcher, NEW g \in File, Start(w, g), saved' = saved
      PROVE  saved'[f] >= n
  <2>1. \A u \in Watcher : At(u, f) => u # w
    BY <1>3 DEF Start, At
  <2> QED BY <1>0, <1>1, <1>3, <2>1 DEF Start, TypeOK
<1>4. ASSUME NEW w \in Watcher, ProcessFile(w) PROVE saved'[f] >= n
  <2>0. PICK p \in Process : p = proc[w]
    BY <1>0 DEF TypeOK
  <2>1. \A u \in Watcher \ {w} : proc'[u] = proc[u]
    BY <1>0, <1>4 DEF ProcessFile, ReadOffset, Stat, ReadLines, HandleLine, OpenState, WriteState,
                      TypeOK
  <2>2. CASE WriteState(w)
    <3>1. p.pc = "write" /\ p # Idle /\ p.file \in File
      BY <1>0, <2>0, <2>2, CallType DEF WriteState
    <3>2. saved' = [saved EXCEPT ![p.file] = p.size] /\ saved \in [File -> 0..2*MaxLines]
      BY <1>0, <2>0, <2>2 DEF WriteState, TypeOK
    <3>3. CASE p.file = f
      <4>1. At(w, f) /\ Past(p, l, n)
        BY <2>0, <3>1, <3>3 DEF At, BehindUs
      <4> QED BY <3>1, <3>2, <3>3, <4>1 DEF Past
    <3>4. CASE p.file # f
      BY <1>1, <2>0, <2>1, <3>2, <3>4 DEF At
    <3> QED BY <3>3, <3>4
  <2>3. CASE ReadOffset(w) \/ Stat(w) \/ ReadLines(w) \/ HandleLine(w) \/ OpenState(w)
    <3>1. proc'[w] # Idle /\ proc'[w].file = p.file /\ proc'[w].pc # "read"
      <4>1. CASE ReadOffset(w)
        BY <1>0, <2>0, <4>1, CallStep
      <4>2. CASE Stat(w)
        BY <1>0, <2>0, <4>2, CallStep
      <4>3. CASE ReadLines(w)
        BY <1>0, <2>0, <4>3, CallStep
      <4>4. CASE HandleLine(w)
        BY <1>0, <2>0, <4>4, CallStep
      <4>5. CASE OpenState(w)
        BY <1>0, <2>0, <4>5, CallStep
      <4> QED BY <2>3, <4>1, <4>2, <4>3, <4>4, <4>5
    <3>2. p.file # f
      BY <3>1 DEF At
    <3>3. saved'[f] = saved[f]
      <4>1. CASE OpenState(w)
        BY <1>0, <2>0, <3>2, <4>1 DEF OpenState, TypeOK
      <4>2. CASE ~ OpenState(w)
        BY <2>3, <4>2 DEF ReadOffset, Stat, ReadLines, HandleLine
      <4> QED BY <4>1, <4>2
    <3> QED BY <1>1, <2>0, <2>1, <3>2, <3>3 DEF At
  <2> QED BY <1>4, <2>2, <2>3 DEF ProcessFile
<1>5. CASE Restart
  <2>1. saved'[f] = Size(f)
    BY <1>5 DEF Restart
  <2>2. /\ content[f] \in Seq(Line)
        /\ Size(f) = 2 * Len(content[f]) \/ Size(f) = 2 * Len(content[f]) - 1
    BY <1>0, SizeType DEF TypeOK
  <2>3. k \in Int /\ k <= Len(content[f]) /\ Len(content[f]) \in Nat
    BY <2>2
  <2> QED BY <2>1, <2>2, <2>3
<1>6. ASSUME NEW g \in File, \/ AppendText(g) \/ AppendNewline(g) \/ Truncate(g) \/ Age(g)
                             \/ InstallWatch(g)
      PROVE  UNCHANGED <<saved, proc>>
  BY <1>6 DEF AppendText, AppendNewline, Truncate, Age, InstallWatch
<1>7. CASE SweepFind \/ UNCHANGED vars
  BY <1>2, <1>7 DEF SweepFind, vars
<1>8. ASSUME NEW g \in File, TakeEvent(g) \/ SweepNext(g) PROVE saved'[f] >= n
  BY <1>3, <1>8 DEF TakeEvent, SweepNext, Watcher
<1> QED
  BY <1>2, <1>4, <1>5, <1>6, <1>7, <1>8 DEF Next, Reactive, Sweep, Watcher

\* The step that notifies an alert leaves its call past it, and alone in f.
LEMMA NotifyStep ==
    ASSUME OnceInv, [Next]_vars, NEW f \in File \ (overlaps \cup truncated),
           NEW k \in DOMAIN content[f], content[f][k] \notin late,
           NEW w \in Watcher, HandleLine(w), Head(proc[w].todo) = content[f][k]
    PROVE  BehindUs(f, content[f][k], 2 * k - 1)' /\ ~ (handled[content[f][k]] > 0)
<1>0. TypeOK /\ TypeOK' /\ TodoInv /\ AloneInv /\ AloneInv' /\ MarkInv
  BY TypeStep, AloneStep DEF OnceInv, IInv
<1> DEFINE l == content[f][k]
<1>1. PICK p \in Process : p = proc[w]
  BY <1>0 DEF TypeOK
<1>2. PICK q \in Process : q = proc'[w]
  BY <1>0 DEF TypeOK
<1>3. /\ p.pc = "handle" /\ p # Idle /\ 1 \in DOMAIN p.todo /\ p.todo[1] = l
      /\ \A i \in DOMAIN Tail(p.todo) :
             i + 1 \in DOMAIN p.todo /\ i + 1 # 1 /\ Tail(p.todo)[i] = p.todo[i + 1]
  BY <1>0, <1>1, HeadOfTodo
<1>4. TodoOK(p)
  BY <1>0, <1>1 DEF TodoInv, TodoOK
<1>5. p.file = f /\ 2 * k - 1 <= p.size
  BY <1>3, <1>4 DEF TodoOK
<1>6. /\ q.pc = "handle" /\ q # Idle /\ q.file = f /\ q.size = p.size /\ q.todo = Tail(p.todo)
  BY <1>0, <1>1, <1>2, <1>5, CallStep
<1>7. \A i \in DOMAIN q.todo : q.todo[i] # l
  BY <1>3, <1>4, <1>6 DEF TodoOK
<1>8. p.size \in Int /\ k \in Int
  <2>1. p.size \in 0..2*MaxLines /\ content[f] \in Seq(Line)
    BY <1>0, <1>3, CallType DEF TypeOK
  <2> QED BY <2>1, AlertWatchAssumption
<1> HIDE DEF l
<1>9. Past(q, l, 2 * k - 1)
  BY <1>5, <1>6, <1>7, <1>8 DEF Past
<1>10. content' = content /\ overlaps' = overlaps
  BY DEF HandleLine, files
<1>11. At(w, f)' /\ \A v \in Watcher : At(v, f)' => v = w
  BY <1>0, <1>2, <1>6, <1>10 DEF AloneInv, At
<1>12. \A v \in Watcher : (proc'[v] # Idle /\ proc'[v].file = f) => Past(proc'[v], l, 2 * k - 1)
  BY <1>2, <1>9, <1>11 DEF At
<1>13. ~ (\A v \in Watcher : (proc'[v] # Idle /\ proc'[v].file = f) => proc'[v].pc = "read")
  BY <1>2, <1>6, <1>11
<1>14. BehindUs(f, content[f][k], 2 * k - 1)'
  BY <1>10, <1>12, <1>13 DEF BehindUs, At, Past, l
<1>15. ASSUME handled[l] > 0 PROVE FALSE
  <2>1. BehindUs(f, l, 2 * k - 1)
    BY <1>0, <1>15 DEF MarkInv, l
  <2>2. At(w, f)
    BY <1>1, <1>3, <1>5 DEF At
  <2>3. Past(p, l, 2 * k - 1)
    BY <1>1, <2>1, <2>2 DEF BehindUs
  <2> QED BY <1>3, <2>3 DEF Past
<1> QED BY <1>14, <1>15 DEF l

LEMMA MarkStep ==
    ASSUME OnceInv, [Next]_vars
    PROVE  MarkInv' /\ DuplicatesHaveACause'
<1>0. TypeOK /\ TypeOK' /\ FilesOK /\ LinesInv /\ IInv /\ AloneInv
  BY TypeStep DEF OnceInv, IInv
<1> SUFFICES ASSUME NEW f \in File, f \notin overlaps', f \notin truncated',
                    NEW k \in DOMAIN content'[f],
                    handled'[content'[f][k]] > 0, content'[f][k] \notin late'
             PROVE  /\ BehindUs(f, content[f][k], 2 * k - 1)'
                    /\ ~ (handled'[content'[f][k]] > 1)
  <2>1. ASSUME NEW f \in File \ (overlaps' \cup truncated'), NEW k \in DOMAIN content'[f],
               handled'[content'[f][k]] > 1
        PROVE  handled'[content'[f][k]] > 0
    <3>1. content'[f][k] \in Line /\ handled' \in [Line -> 0..2]
      <4>1. content'[f] \in Seq(Line)
        BY <1>0 DEF TypeOK
      <4> QED BY <1>0, <4>1 DEF TypeOK
    <3>2. handled'[content'[f][k]] \in 0..2
      BY <3>1
    <3> QED BY <2>1, <3>2
  <2>2. \A f \in File \ (overlaps' \cup truncated') : \A k \in DOMAIN content'[f] :
            handled'[content'[f][k]] > 0 /\ content'[f][k] \notin late' =>
                /\ BehindUs(f, content[f][k], 2 * k - 1)'
                /\ ~ (handled'[content'[f][k]] > 1)
    OBVIOUS
  <2>3. MarkInv'
    BY <2>2 DEF MarkInv
  <2>4. DuplicatesHaveACause'
    BY <2>1, <2>2 DEF DuplicatesHaveACause
  <2> QED BY <2>3, <2>4
<1>1. f \in File \ (overlaps \cup truncated)
  BY <1>0, GrowStep, TextKept
<1>2. k \in DOMAIN content[f] /\ content[f][k] = content'[f][k]
  BY <1>0, NotifiedIsOld
<1> DEFINE l == content[f][k]
<1>3. l \in Line /\ l \notin late
  BY <1>0, <1>1, <1>2, TextKept DEF TypeOK
<1>4. CASE handled'[l] # handled[l]
  <2>1. PICK w \in Watcher : /\ HandleLine(w) /\ l = Head(proc[w].todo)
                             /\ handled[l] \in 0..1 /\ handled'[l] = handled[l] + 1
    BY <1>0, <1>3, <1>4, HandledStep
  <2>2. BehindUs(f, l, 2 * k - 1)' /\ ~ (handled[l] > 0)
    BY <1>1, <1>2, <1>3, <2>1, NotifyStep
  <2> QED BY <1>2, <2>1, <2>2
<1>5. CASE handled'[l] = handled[l]
  <2>1. handled[l] > 0
    BY <1>2, <1>5
  <2>2. BehindUs(f, l, 2 * k - 1) /\ ~ (handled[l] > 1)
    BY <1>1, <1>2, <1>3, <2>1 DEF OnceInv, MarkInv, DuplicatesHaveACause
  <2> HIDE DEF l
  <2>3. \A v \in Watcher : At(v, f)' => Past(proc'[v], l, 2 * k - 1)
    <3> SUFFICES ASSUME NEW v \in Watcher, At(v, f)' PROVE Past(proc'[v], l, 2 * k - 1)
      OBVIOUS
    <3> DEFINE n == 2 * k - 1
    <3>1. BehindUs(f, l, n) /\ l = content[f][k] /\ n = 2 * k - 1
      BY <2>2 DEF l
    <3> HIDE DEF n
    <3>2. Past(proc'[v], l, n)
      BY <1>0, <1>1, <1>2, <3>1, PastStep DEF Past
    <3> QED BY <3>2 DEF n
  <2>4. (\A v \in Watcher : At(v, f)' => proc'[v].pc = "read") => saved'[f] >= 2 * k - 1
    BY <1>0, <1>1, <1>2, <2>2, SavedMarkStep DEF l
  <2>5. BehindUs(f, content[f][k], 2 * k - 1)'
    <3>1. content'[f][k] = l
      BY <1>2 DEF l
    <3>2. \A v \in Watcher :
              (proc'[v] # Idle /\ proc'[v].file = f) => Past(proc'[v], l, 2 * k - 1)
      BY <2>3 DEF At
    <3>3. (\A v \in Watcher : (proc'[v] # Idle /\ proc'[v].file = f) => proc'[v].pc = "read")
              => saved'[f] >= 2 * k - 1
      BY <2>4 DEF At
    <3> QED BY <3>1, <3>2, <3>3 DEF BehindUs, At, Past
  <2> QED BY <1>2, <1>5, <2>2, <2>5 DEF l
<1> QED BY <1>4, <1>5

\* An alert is notified twice only if it was appended while a call was reading
\* its file, both watchers were in the file at once, or someone emptied it:
\* restarts, repeated events and the sweep's second look alone never repeat it.
THEOREM NotifiedOnce == Spec => []DuplicatesHaveACause
<1>1. Init => OnceInv
  <2> SUFFICES ASSUME Init PROVE OnceInv
    OBVIOUS
  <2>1. IInv
    BY InitType DEF Init, IInv, TypeOK, SavedOK, CallsOK, CallOK, Covered, Size
  <2>2. /\ \A f \in File : DOMAIN content[f] = {}
        /\ \A l \in Line : handled[l] = 0
        /\ \A w \in Watcher : proc[w] = Idle
    BY DEF Init
  <2>3. LinesInv /\ MarkInv /\ DuplicatesHaveACause
    BY <2>2 DEF LinesInv, MarkInv, DuplicatesHaveACause
  <2>4. TodoInv /\ AloneInv
    BY <2>2 DEF TodoInv, TodoOK, AloneInv, At, Idle
  <2> QED BY <2>1, <2>3, <2>4 DEF OnceInv
<1>2. OnceInv /\ [Next]_vars => OnceInv'
  <2> SUFFICES ASSUME OnceInv, [Next]_vars PROVE OnceInv'
    OBVIOUS
  <2>1. IInv'
    BY FilesStep, TypeStep, SavedStep, CallsStep DEF OnceInv, IInv, FilesType
  <2>2. LinesInv' /\ TodoInv' /\ AloneInv'
    BY LinesStep, TodoStep, AloneStep DEF OnceInv, IInv
  <2> QED BY <2>1, <2>2, MarkStep DEF OnceInv
<1>3. OnceInv => DuplicatesHaveACause
  BY DEF OnceInv
<1> QED BY <1>1, <1>2, <1>3, PTL DEF Spec
===============================================================================
