---------------------------- MODULE Pipeline_proofs ----------------------------
(***************************************************************************)
(* The dedup cache of ruled, what one unit's end costs its neighbours,     *)
(* what restarts cost in events, and the order in which alerts come out,   *)
(* for any listener threads, events, rules, keys, window and word size,    *)
(* any clock, and any kills.                                               *)
(***************************************************************************)
EXTENDS Pipeline, FiniteSetTheorems, TLAPS

Life == exits["ruled"] + kills["ruled"]
Time == 0..MaxTime
Emission == [alert : Alert, at : Time, life : Nat]

\* The part of the state that deduplication depends on: what an event and its rules
\* pass through on the way to the cache.
TypeInv ==
    /\ taken \in 0..MaxEvents
    /\ hand \in [Thread -> 0..MaxEvents]
    /\ events \in Seq(Event)
    /\ lines \in Seq(Event)
    /\ todo \in Seq(Rule)
    /\ current \in 0..MaxEvents
    /\ todo # << >> => current \in Event
    /\ stage # "check" => todo # << >>
    /\ cache \in [Rule \X Key -> Time \cup {NoTime}]
    /\ emitted \in Seq(Emission)
    /\ exits \in [Unit -> Nat]
    /\ kills \in [Unit -> Nat]

\* An entry of the cache is the time of an emission for its rule and key in this life.
Backed(r, k) ==
    \E i \in DOMAIN emitted :
        /\ emitted[i].life = Life
        /\ emitted[i].alert[2] = r /\ DedupKey[emitted[i].alert[1]] = k
        /\ emitted[i].at = cache[<<r, k>>]
CacheInv == \A r \in Rule, k \in Key : cache[<<r, k>>] # NoTime => Backed(r, k)

DedupInv == TypeInv /\ CacheInv /\ RepeatsHaveATwin

dedup == <<taken, hand, events, lines, todo, current, stage, cache, emitted, exits, kills, dropped>>

(***************************************************************************)
(* Unsigned subtraction.                                                   *)
(***************************************************************************)

\* Where the wrapped difference of two times is less than the window, nothing has wrapped.
LEMMA UnsignedDifference ==
  ASSUME NEW a \in Time, NEW b \in Time, (a - b) % Word < DedupWindow
  PROVE  b <= a /\ a - b < DedupWindow
<1>1. /\ MaxTime \in Nat /\ DedupWindow \in Nat /\ Word \in Nat
      /\ Word > MaxTime + DedupWindow /\ a \in Nat /\ b \in Nat /\ a <= MaxTime /\ b <= MaxTime
  BY PipelineAssumption DEF Time
<1>2. CASE b <= a
  <2>1. a - b \in Nat /\ a - b < Word
    BY <1>1, <1>2
  <2>2. (a - b) % Word = a - b
    BY <1>1, <2>1
  <2>3. QED
    BY <1>2, <2>2
<1>3. CASE a < b
  <2> DEFINE n == b - a
  <2>1. n \in Nat /\ 0 < n /\ n < Word /\ a - b = 0 - n /\ Word - n >= DedupWindow
    BY <1>1, <1>3
  <2> HIDE DEF n
  <2>2. (0 - n) % Word = Word - n
    BY <1>1, <2>1
  <2>3. QED
    BY <1>1, <2>1, <2>2
<1>4. QED
  BY <1>1, <1>2, <1>3

(***************************************************************************)
(* The invariant.                                                          *)
(***************************************************************************)

LEMMA InitDedup ==
  ASSUME Init
  PROVE  DedupInv
<1>1. TypeInv
  BY PipelineAssumption DEF Init, TypeInv, NoCache, Time
<1>2. CacheInv
  BY DEF Init, CacheInv, NoCache
<1>3. RepeatsHaveATwin
  BY DEF Init, RepeatsHaveATwin
<1>4. QED
  BY <1>1, <1>2, <1>3 DEF DedupInv

\* An action that leaves the cache, the emissions and the life of ruled alone keeps what
\* is said of them.
LEMMA CacheAlone ==
  ASSUME DedupInv, TypeInv', UNCHANGED <<cache, emitted, dropped>>, Life' = Life
  PROVE  DedupInv'
<1>1. CacheInv'
  BY DEF DedupInv, CacheInv, Backed
<1>2. RepeatsHaveATwin'
  BY DEF DedupInv, RepeatsHaveATwin
<1>3. QED
  BY <1>1, <1>2 DEF DedupInv

\* The end of ruled empties the cache.
LEMMA CacheEmptied ==
  ASSUME DedupInv, TypeInv', UNCHANGED <<emitted, dropped>>, cache' = NoCache
  PROVE  DedupInv'
<1>1. CacheInv'
  BY DEF CacheInv, NoCache
<1>2. RepeatsHaveATwin'
  BY DEF DedupInv, RepeatsHaveATwin
<1>3. QED
  BY <1>1, <1>2 DEF DedupInv

\* What is emitted is an alert of the event at hand.
LEMMA SubjectType ==
  ASSUME TypeInv, todo # << >>, NEW now \in Time
  PROVE  /\ current \in Event /\ Head(todo) \in Rule /\ Tail(todo) \in Seq(Rule)
         /\ DedupKey[current] \in Key /\ CacheKey \in Rule \X Key
         /\ Stamp(now) \in Emission
         /\ Stamp(now).alert[1] = current /\ Stamp(now).alert[2] = Head(todo)
         /\ Stamp(now).at = now /\ Stamp(now).life = Life
<1>1. current \in Event /\ todo \in Seq(Rule) /\ todo # << >>
  BY DEF TypeInv
<1>2. Head(todo) \in Rule /\ Tail(todo) \in Seq(Rule)
  BY <1>1
<1>3. DedupKey[current] \in Key
  BY <1>1, PipelineAssumption
<1>4. CacheKey \in Rule \X Key
  BY <1>2, <1>3 DEF CacheKey
<1>5. Life \in Nat
  BY DEF TypeInv, Life, Unit
<1>6. Subject \in Alert /\ Subject[1] = current /\ Subject[2] = Head(todo)
  BY <1>1, <1>2 DEF Subject, Alert
<1>7. Stamp(now) = [alert |-> Subject, at |-> now, life |-> Life]
  BY DEF Stamp, Life
<1>8. QED
  BY <1>1, <1>2, <1>3, <1>4, <1>5, <1>6, <1>7 DEF Emission

LEMMA EmitKeepsDedup ==
  ASSUME DedupInv, NEW now \in Time, Emit(now)
  PROVE  DedupInv'
<1>1. TypeInv /\ todo # << >>
  BY DEF DedupInv, Emit
<1> DEFINE e == Stamp(now)
<1>2. /\ Head(todo) \in Rule /\ DedupKey[current] \in Key /\ CacheKey \in Rule \X Key
      /\ e \in Emission /\ e.alert[1] = current /\ e.alert[2] = Head(todo)
      /\ e.at = now /\ e.life = Life
  BY <1>1, SubjectType
<1>3. emitted' = Append(emitted, e)
  BY DEF Emit
<1> HIDE DEF e
<1>4. /\ emitted' \in Seq(Emission)
      /\ Len(emitted) + 1 \in DOMAIN emitted' /\ emitted'[Len(emitted) + 1] = e
      /\ \A i \in DOMAIN emitted : i \in DOMAIN emitted' /\ emitted'[i] = emitted[i]
  BY <1>1, <1>2, <1>3 DEF TypeInv
<1>5. UNCHANGED <<taken, hand, events, lines, todo, current, exits, kills, dropped>>
  BY DEF Emit, normalized, outcome
<1>6. cache' = cache \/ cache' = [cache EXCEPT ![CacheKey] = now]
  BY DEF Emit
<1>7. cache' \in [Rule \X Key -> Time \cup {NoTime}]
  BY <1>1, <1>2, <1>6 DEF TypeInv
<1>8. TypeInv'
  BY <1>1, <1>4, <1>5, <1>7 DEF TypeInv
<1>9. Life' = Life
  BY <1>5 DEF Life
<1>10. CacheInv'
  <2> SUFFICES ASSUME NEW r \in Rule, NEW k \in Key, cache'[<<r, k>>] # NoTime
               PROVE  Backed(r, k)'
    BY DEF CacheInv
  <2>1. CASE cache'[<<r, k>>] = cache[<<r, k>>]
    <3>1. PICK i \in DOMAIN emitted :
             /\ emitted[i].life = Life
             /\ emitted[i].alert[2] = r /\ DedupKey[emitted[i].alert[1]] = k
             /\ emitted[i].at = cache[<<r, k>>]
      BY <2>1 DEF DedupInv, CacheInv, Backed
    <3>2. QED
      BY <1>4, <1>9, <2>1, <3>1 DEF Backed
  <2>2. CASE cache'[<<r, k>>] # cache[<<r, k>>]
    <3>1. <<r, k>> = CacheKey /\ cache'[<<r, k>>] = now
      BY <1>1, <1>2, <1>6, <2>2 DEF TypeInv
    <3>2. r = Head(todo) /\ k = DedupKey[current]
      BY <3>1 DEF CacheKey
    <3>3. QED
      BY <1>2, <1>4, <1>9, <3>1, <3>2 DEF Backed
  <2>3. QED
    BY <2>1, <2>2
<1>11. RepeatsHaveATwin'
  <2> SUFFICES ASSUME NEW d \in dropped
               PROVE  \E i \in DOMAIN emitted' :
                        LET m == emitted'[i] IN
                        /\ m.life = d.life
                        /\ m.alert[2] = d.alert[2] /\ DedupKey[m.alert[1]] = DedupKey[d.alert[1]]
                        /\ m.at <= d.at /\ d.at - m.at < DedupWindow
    BY <1>5 DEF RepeatsHaveATwin
  <2>1. PICK i \in DOMAIN emitted :
            /\ emitted[i].life = d.life
            /\ emitted[i].alert[2] = d.alert[2]
            /\ DedupKey[emitted[i].alert[1]] = DedupKey[d.alert[1]]
            /\ emitted[i].at <= d.at /\ d.at - emitted[i].at < DedupWindow
    BY DEF DedupInv, RepeatsHaveATwin
  <2>2. QED
    BY <1>4, <2>1
<1>12. QED
  BY <1>8, <1>10, <1>11 DEF DedupInv

LEMMA DropKeepsDedup ==
  ASSUME DedupInv, NEW now \in Time, DropRepeat(now)
  PROVE  DedupInv'
<1>1. TypeInv /\ todo # << >>
  BY DEF DedupInv, DropRepeat
<1> DEFINE e == Stamp(now)
<1>2. /\ Head(todo) \in Rule /\ DedupKey[current] \in Key /\ Tail(todo) \in Seq(Rule)
      /\ current \in Event
      /\ e.alert[1] = current /\ e.alert[2] = Head(todo)
      /\ e.at = now /\ e.life = Life
  BY <1>1, SubjectType
<1>3. /\ dropped' = dropped \cup {e} /\ todo' = Tail(todo)
      /\ cache[CacheKey] # NoTime /\ (now - cache[CacheKey]) % Word < DedupWindow
      /\ stage = "check" /\ stage' = stage
      /\ UNCHANGED <<taken, hand, events, lines, current, cache, emitted, exits, kills>>
  BY DEF DropRepeat, Repeat, normalized, outcome
<1> HIDE DEF e
<1>4. TypeInv'
  BY <1>1, <1>2, <1>3 DEF TypeInv
<1>5. Life' = Life
  BY <1>3 DEF Life
<1>6. CacheInv'
  BY <1>3, <1>5 DEF DedupInv, CacheInv, Backed
<1>7. PICK i \in DOMAIN emitted :
         /\ emitted[i].life = Life
         /\ emitted[i].alert[2] = Head(todo) /\ DedupKey[emitted[i].alert[1]] = DedupKey[current]
         /\ emitted[i].at = cache[CacheKey]
  BY <1>2, <1>3 DEF DedupInv, CacheInv, Backed, CacheKey
<1>8. cache[CacheKey] \in Time
  <2>1. CacheKey \in Rule \X Key
    BY <1>1, SubjectType
  <2>2. QED
    BY <1>1, <1>3, <2>1 DEF TypeInv
<1>9. emitted[i].at <= now /\ now - emitted[i].at < DedupWindow
  BY <1>3, <1>7, <1>8, UnsignedDifference
<1>10. RepeatsHaveATwin'
  <2> SUFFICES ASSUME NEW d \in dropped \cup {e}
               PROVE  \E j \in DOMAIN emitted :
                        LET m == emitted[j] IN
                        /\ m.life = d.life
                        /\ m.alert[2] = d.alert[2] /\ DedupKey[m.alert[1]] = DedupKey[d.alert[1]]
                        /\ m.at <= d.at /\ d.at - m.at < DedupWindow
    BY <1>3 DEF RepeatsHaveATwin
  <2>1. CASE d \in dropped
    BY <2>1 DEF DedupInv, RepeatsHaveATwin
  <2>2. CASE d = e
    BY <1>2, <1>7, <1>9, <2>2
  <2>3. QED
    BY <2>1, <2>2
<1>11. QED
  BY <1>4, <1>6, <1>10 DEF DedupInv

LEMMA EmptyPipe ==
  /\ << >> \in Seq(Event)
  /\ [t \in Thread |-> 0] \in [Thread -> 0..MaxEvents]
<1>1. MaxEvents \in Nat
  BY PipelineAssumption
<1>2. QED
  BY <1>1

LEMMA EmptyCache == NoCache \in [Rule \X Key -> Time \cup {NoTime}]
  BY DEF NoCache

\* Nothing else touches the cache but the end of ruled.
LEMMA DedupKept ==
  ASSUME DedupInv, [Next]_vars
  PROVE  DedupInv'
<1> USE DEF normalized, ruled, outcome
<1>1. TypeInv
  BY DEF DedupInv
<1>2. ASSUME UNCHANGED dedup PROVE DedupInv'
  <2>1. TypeInv'
    BY <1>1, <1>2 DEF dedup, TypeInv
  <2>2. QED
    BY <1>2, <2>1, CacheAlone DEF dedup, Life
<1>3. ASSUME NEW u \in Unit, Start(u) \/ Open(u) PROVE DedupInv'
  BY <1>2, <1>3 DEF Start, Open, dedup
<1>4. ASSUME NEW u \in Unit, Kill(u) PROVE DedupInv'
  <2>1. /\ kills' = [kills EXCEPT ![u] = @ + 1]
        /\ UNCHANGED <<taken, exits, emitted, dropped>>
        /\ events' = events \/ events' = << >>
        /\ hand' = [t \in Thread |-> 0] \/ hand' = hand
    BY <1>4 DEF Kill, Closed
  <2>2. kills' \in [Unit -> Nat]
    BY <1>1, <2>1 DEF TypeInv
  <2>3. events' \in Seq(Event) /\ hand' \in [Thread -> 0..MaxEvents]
    <3>1. events' \in Seq(Event)
      BY <1>1, <2>1, EmptyPipe DEF TypeInv
    <3>2. hand' \in [Thread -> 0..MaxEvents]
      BY <1>1, <2>1, EmptyPipe DEF TypeInv
    <3>3. QED
      BY <3>1, <3>2
  <2>4. CASE u = "ruled"
    <3>1. lines' = << >> /\ todo' = << >> /\ current' = 0 /\ stage' = "check" /\ cache' = NoCache
      BY <1>4, <2>4 DEF Kill
    <3>2. TypeInv'
      BY <1>1, <2>1, <2>2, <2>3, <3>1, EmptyCache, PipelineAssumption DEF TypeInv
    <3>3. QED
      BY <2>1, <3>1, <3>2, CacheEmptied
  <2>5. CASE u # "ruled"
    <3>1. UNCHANGED <<lines, todo, current, stage, cache>>
      BY <1>4, <2>5 DEF Kill
    <3>2. TypeInv'
      BY <1>1, <2>1, <2>2, <2>3, <3>1 DEF TypeInv
    <3>3. Life' = Life
      BY <1>1, <2>1, <2>5 DEF Life, TypeInv, Unit
    <3>4. QED
      BY <2>1, <3>1, <3>2, <3>3, CacheAlone
  <2>6. QED
    BY <2>4, <2>5
<1>5. ASSUME NEW t \in Thread, Receive(t) PROVE DedupInv'
  <2>1. /\ taken' = taken + 1 /\ taken < MaxEvents /\ hand' = [hand EXCEPT ![t] = taken + 1]
        /\ UNCHANGED <<events, lines, todo, current, stage, cache, emitted, exits, kills, dropped>>
    BY <1>5 DEF Receive
  <2>2. TypeInv'
    BY <1>1, <2>1, PipelineAssumption DEF TypeInv
  <2>3. QED
    BY <2>1, <2>2, CacheAlone DEF Life
<1>6. ASSUME NEW t \in Thread, WritePipe(t) PROVE DedupInv'
  <2>1. /\ hand[t] # 0 /\ events' = Append(events, hand[t])
        /\ UNCHANGED <<taken, hand, lines, todo, current, stage, cache, emitted, exits, kills, dropped>>
    BY <1>6 DEF WritePipe
  <2>2. hand[t] \in Event
    BY <1>1, <2>1, PipelineAssumption DEF TypeInv, Event
  <2>3. events' \in Seq(Event)
    BY <1>1, <2>1, <2>2 DEF TypeInv
  <2>4. TypeInv'
    BY <1>1, <2>1, <2>3 DEF TypeInv
  <2>5. QED
    BY <2>1, <2>4, CacheAlone DEF Life
<1>7. ASSUME NEW t \in Thread, BrokenPipe(t) PROVE DedupInv'
  <2>1. /\ hand' = [x \in Thread |-> 0] /\ exits' = [exits EXCEPT !["normalized"] = @ + 1]
        /\ events' = events \/ events' = << >>
        /\ UNCHANGED <<taken, lines, todo, current, stage, cache, emitted, kills, dropped>>
    BY <1>7 DEF BrokenPipe, Closed
  <2>2. exits' \in [Unit -> Nat] /\ exits'["ruled"] = exits["ruled"]
    BY <1>1, <2>1 DEF TypeInv, Unit
  <2>3. events' \in Seq(Event)
    BY <1>1, <2>1, EmptyPipe DEF TypeInv
  <2>4. hand' \in [Thread -> 0..MaxEvents]
    BY <2>1, EmptyPipe
  <2>5. TypeInv'
    BY <1>1, <2>1, <2>2, <2>3, <2>4 DEF TypeInv
  <2>6. QED
    BY <2>1, <2>2, <2>5, CacheAlone DEF Life
<1>8. ASSUME NEW t \in Thread, Store(t) PROVE DedupInv'
  <2>1. /\ hand' = [hand EXCEPT ![t] = 0]
        /\ UNCHANGED <<taken, events, lines, todo, current, stage, cache, emitted, exits, kills, dropped>>
    BY <1>8 DEF Store
  <2>2. TypeInv'
    BY <1>1, <2>1, PipelineAssumption DEF TypeInv
  <2>3. QED
    BY <2>1, <2>2, CacheAlone DEF Life
<1>9. CASE ReadEvents
  <2>1. /\ lines' = events /\ events' = << >>
        /\ UNCHANGED <<taken, hand, todo, current, stage, cache, emitted, exits, kills, dropped>>
    BY <1>9 DEF ReadEvents
  <2>2. TypeInv'
    BY <1>1, <2>1 DEF TypeInv
  <2>3. QED
    BY <2>1, <2>2, CacheAlone DEF Life
<1>10. CASE RuledEof
  <2>1. /\ cache' = NoCache
        /\ events' = events \/ events' = << >>
        /\ UNCHANGED <<taken, hand, lines, todo, current, stage, emitted, kills, dropped>>
    BY <1>10 DEF RuledEof, Closed
  <2>2. exits' \in [Unit -> Nat]
    <3>1. exits' = [exits EXCEPT !["ruled"] = @ + 1]
      BY <1>10 DEF RuledEof
    <3>2. exits \in [Unit -> Nat]
      BY <1>1 DEF TypeInv
    <3>3. QED
      BY <3>1, <3>2 DEF Unit
  <2>3. cache' \in [Rule \X Key -> Time \cup {NoTime}]
    BY <2>1, EmptyCache
  <2>4. events' \in Seq(Event)
    BY <1>1, <2>1, EmptyPipe DEF TypeInv
  <2>5. TypeInv'
    BY <1>1, <2>1, <2>2, <2>3, <2>4 DEF TypeInv
  <2>6. QED
    BY <2>1, <2>5, CacheEmptied
<1>11. CASE Evaluate
  <2>1. /\ lines # << >> /\ current' = Head(lines) /\ lines' = Tail(lines)
        /\ todo' = Detections[Head(lines)] /\ stage' = "check"
        /\ UNCHANGED <<taken, hand, events, cache, emitted, exits, kills, dropped>>
    BY <1>11 DEF Evaluate
  <2>2. Head(lines) \in Event /\ Tail(lines) \in Seq(Event)
    BY <1>1, <2>1 DEF TypeInv
  <2>3. Detections[Head(lines)] \in Seq(Rule) /\ Head(lines) \in 0..MaxEvents
    BY <2>2, PipelineAssumption DEF Event
  <2>4. TypeInv'
    BY <1>1, <2>1, <2>2, <2>3 DEF TypeInv
  <2>5. QED
    BY <2>1, <2>4, CacheAlone DEF Life
<1>12. ASSUME NEW now \in Time, DropRepeat(now) PROVE DedupInv'
  BY <1>12, DropKeepsDedup
<1>13. ASSUME NEW now \in Time, Emit(now) PROVE DedupInv'
  BY <1>13, EmitKeepsDedup
<1>14. CASE Flush \/ Send
  <2>1. /\ stage = "send" /\ stage' \in {"send", "file"}
        /\ UNCHANGED <<taken, hand, events, lines, todo, current, cache, emitted, exits, kills, dropped>>
    BY <1>14 DEF Flush, Send
  <2>2. TypeInv'
    BY <1>1, <2>1 DEF TypeInv
  <2>3. QED
    BY <2>1, <2>2, CacheAlone DEF Life
<1>15. CASE SendFails \/ FileAlert
  <2>1. /\ stage \in {"send", "file"} /\ todo' = Tail(todo) /\ stage' = "check"
        /\ UNCHANGED <<taken, hand, events, lines, current, cache, emitted, exits, kills, dropped>>
    BY <1>15 DEF SendFails, FileAlert
  <2>2. todo \in Seq(Rule) /\ todo # << >> /\ current \in Event
    BY <1>1, <2>1 DEF TypeInv
  <2>3. Tail(todo) \in Seq(Rule)
    BY <2>2
  <2>4. TypeInv'
    BY <1>1, <2>1, <2>2, <2>3 DEF TypeInv
  <2>5. QED
    BY <2>1, <2>4, CacheAlone DEF Life
<1>16. CASE ReadAlerts \/ FeedEngine
  BY <1>2, <1>16 DEF ReadAlerts, FeedEngine, dedup
<1>17. CASE CorrelatedEof
  <2>1. /\ exits' = [exits EXCEPT !["correlated"] = @ + 1]
        /\ events' = events \/ events' = << >>
        /\ UNCHANGED <<taken, hand, lines, todo, current, stage, cache, emitted, kills, dropped>>
    BY <1>17 DEF CorrelatedEof, Closed
  <2>2. exits' \in [Unit -> Nat] /\ exits'["ruled"] = exits["ruled"]
    BY <1>1, <2>1 DEF TypeInv, Unit
  <2>3. events' \in Seq(Event)
    BY <1>1, <2>1, EmptyPipe DEF TypeInv
  <2>4. TypeInv'
    BY <1>1, <2>1, <2>2, <2>3 DEF TypeInv
  <2>5. QED
    BY <2>1, <2>2, <2>4, CacheAlone DEF Life
<1>18. CASE UNCHANGED vars
  BY <1>2, <1>18 DEF vars, dedup
<1>19. QED
  BY <1>3, <1>4, <1>5, <1>6, <1>7, <1>8, <1>9, <1>10, <1>11, <1>12, <1>13, <1>14, <1>15,
     <1>16, <1>17, <1>18 DEF Next, Listeners, RuledLoop, CorrelatedLoop, Time

LEMMA DedupHolds == Spec => []DedupInv
<1>1. Init => DedupInv
  BY InitDedup
<1>2. DedupInv /\ [Next]_vars => DedupInv'
  BY DedupKept
<1>3. QED
  BY <1>1, <1>2, PTL DEF Spec

\* For any rules, keys and window, and whatever the clock does, an alert is dropped as a
\* repeat only on account of an earlier emission of the same rule and key, less than a
\* window before, in the same life of ruled.  (output.rs AlertRouter::emit.)
THEOREM RepeatsAreRepeats == Spec => []RepeatsHaveATwin
<1>1. DedupInv => RepeatsHaveATwin
  BY DEF DedupInv
<1>2. QED
  BY <1>1, DedupHolds, PTL

(***************************************************************************)
(* Cascades.                                                               *)
(***************************************************************************)

\* Unit u runs although nobody has the other end of its FIFO open: it will end by itself.
Doomed(u) == \/ u = "normalized" /\ unit[u] = "run" /\ ~ EventsReader(unit)
             \/ u = "ruled" /\ unit[u] \in {"output", "run"} /\ ~ EventsWriter(unit)
             \/ u = "correlated" /\ unit[u] = "run" /\ ~ AlertsWriter(unit)
Debt(u) == IF Doomed(u) THEN 1 ELSE 0

UnitType ==
    /\ unit \in [Unit -> {"down", "input", "output", "run"}] /\ unit["normalized"] # "input"
    /\ kills \in [Unit -> Nat] /\ exits \in [Unit -> Nat]
    /\ errors \in Nat

\* Only a neighbour's death dooms a unit, and each death dooms it once.
CascadeInv ==
    /\ UnitType
    /\ exits["normalized"] + Debt("normalized") <= kills["ruled"]
    /\ exits["ruled"] + Debt("ruled") <= kills["normalized"]
    /\ exits["correlated"] + Debt("correlated") <= Deaths("ruled")

Turns == <<unit, kills, exits>>

LEMMA InitCascade ==
  ASSUME Init
  PROVE  CascadeInv
<1>1. \A u \in Unit : unit[u] = "down" /\ kills[u] = 0 /\ exits[u] = 0
  BY DEF Init
<1>2. UnitType
  BY PipelineAssumption DEF Init, UnitType, Unit
<1>3. \A u \in Unit : ~ Doomed(u)
  BY <1>1 DEF Doomed, Unit
<1>4. QED
  BY <1>1, <1>2, <1>3 DEF CascadeInv, Debt, Deaths, Unit

\* A unit starts, or gets its other end: nobody is doomed by it.
LEMMA ComingUpKeepsCascade ==
  ASSUME CascadeInv, NEW u \in Unit, Start(u) \/ Open(u)
  PROVE  CascadeInv'
<1> USE DEF Unit, outcome
<1>1. UnitType /\ UNCHANGED <<kills, exits, errors>>
  BY DEF CascadeInv, Start, Open
<1>2. unit' \in [Unit -> {"down", "input", "output", "run"}] /\ unit'["normalized"] # "input"
  BY <1>1 DEF UnitType, Start, Open
<1>3. ASSUME NEW v \in Unit, Doomed(v)' PROVE Doomed(v)
  <2>1. CASE Start(u)
    BY <1>1, <1>2, <1>3, <2>1
       DEF UnitType, Start, Doomed, EventsReader, EventsWriter, AlertsWriter
  <2>2. CASE Open(u)
    BY <1>1, <1>2, <1>3, <2>2
       DEF UnitType, Open, Doomed, EventsReader, EventsWriter, AlertsReader, AlertsWriter
  <2>3. QED
    BY <2>1, <2>2
<1>4. \A v \in Unit : Debt(v)' <= Debt(v)
  BY <1>3 DEF Debt
<1>5. \A v \in Unit : Debt(v) \in Nat /\ Debt(v)' \in Nat
  BY DEF Debt
<1>6. QED
  BY <1>1, <1>2, <1>4, <1>5 DEF CascadeInv, UnitType, Deaths, Unit

\* A unit ends: it has no debt any more, and its neighbours are doomed at most once.
LEMMA EndingMoves ==
  ASSUME UnitType, NEW u \in Unit, unit' = [unit EXCEPT ![u] = "down"]
  PROVE  /\ unit' \in [Unit -> {"down", "input", "output", "run"}]
         /\ unit'["normalized"] # "input"
         /\ u = "normalized" => /\ Debt("normalized")' = 0
                               /\ Debt("correlated")' <= Debt("correlated")
         /\ u = "ruled" => Debt("ruled")' = 0
         /\ u = "correlated" => /\ Debt("correlated")' = 0
                               /\ Debt("normalized")' <= Debt("normalized")
                               /\ Debt("ruled")' <= Debt("ruled")
<1> USE DEF UnitType, Unit, Debt, Doomed, EventsReader, EventsWriter, AlertsWriter
<1>1. unit' \in [Unit -> {"down", "input", "output", "run"}] /\ unit'["normalized"] # "input"
  OBVIOUS
<1>2. CASE u = "normalized"
  BY <1>1, <1>2
<1>3. CASE u = "ruled"
  BY <1>1, <1>3
<1>4. CASE u = "correlated"
  BY <1>1, <1>4
<1>5. QED
  BY <1>1, <1>2, <1>3, <1>4

LEMMA KillKeepsCascade ==
  ASSUME CascadeInv, NEW u \in Unit, Kill(u)
  PROVE  CascadeInv'
<1>1. UnitType /\ UNCHANGED <<exits, errors>> /\ kills' = [kills EXCEPT ![u] = @ + 1]
      /\ unit' = [unit EXCEPT ![u] = "down"] /\ unit[u] # "down"
  BY DEF CascadeInv, Kill, Closed
<1>2. /\ \A v \in Unit : kills'[v] = (IF v = u THEN kills[v] + 1 ELSE kills[v])
      /\ kills' \in [Unit -> Nat]
      /\ \A v \in Unit : kills[v] \in Nat /\ exits[v] \in Nat
  BY <1>1 DEF UnitType
<1>3. UnitType'
  BY <1>1, <1>2, EndingMoves DEF UnitType
<1>4. \A v \in Unit : Debt(v) \in {0, 1} /\ Debt(v)' \in {0, 1}
  BY DEF Debt
<1>5. CASE u = "normalized"
  <2>1. Debt("normalized")' = 0 /\ Debt("correlated")' <= Debt("correlated")
    BY <1>1, <1>5, EndingMoves DEF Debt
  <2>2. ~ Doomed("ruled")
    BY <1>1, <1>5 DEF Doomed, EventsWriter, UnitType, Unit
  <2>3. QED
    BY <1>1, <1>2, <1>3, <1>4, <1>5, <2>1, <2>2 DEF CascadeInv, Debt, Deaths, Unit
<1>6. CASE u = "ruled"
  <2>1. Debt("ruled")' = 0
    BY <1>1, <1>6, EndingMoves DEF Debt
  <2>2. ~ Doomed("normalized")
    BY <1>1, <1>6 DEF Doomed, EventsReader, UnitType, Unit
  <2>3. QED
    BY <1>1, <1>2, <1>3, <1>4, <1>6, <2>1, <2>2 DEF CascadeInv, Debt, Deaths, Unit
<1>7. CASE u = "correlated"
  <2>1. /\ Debt("normalized")' <= Debt("normalized") /\ Debt("ruled")' <= Debt("ruled")
        /\ Debt("correlated")' <= Debt("correlated")
    BY <1>1, <1>4, <1>7, EndingMoves DEF Unit
  <2>2. /\ kills'["ruled"] = kills["ruled"] /\ kills'["normalized"] = kills["normalized"]
        /\ Deaths("ruled")' = Deaths("ruled") /\ Deaths("ruled") \in Nat
    BY <1>1, <1>2, <1>7 DEF Deaths, Unit
  <2>3. QED
    BY <1>1, <1>2, <1>3, <1>4, <2>1, <2>2 DEF CascadeInv, Unit
<1>8. QED
  BY <1>5, <1>6, <1>7 DEF Unit

\* A unit ends by itself, and pays its debt.
LEMMA EofKeepsCascade ==
  ASSUME CascadeInv, NEW u \in Unit, Doomed(u), unit' = [unit EXCEPT ![u] = "down"],
         exits' = [exits EXCEPT ![u] = @ + 1], UNCHANGED <<kills, errors>>
  PROVE  CascadeInv'
<1>1. UnitType
  BY DEF CascadeInv
<1>2. /\ \A v \in Unit : exits'[v] = (IF v = u THEN exits[v] + 1 ELSE exits[v])
      /\ exits' \in [Unit -> Nat]
      /\ \A v \in Unit : kills[v] \in Nat /\ exits[v] \in Nat
  BY <1>1 DEF UnitType
<1>3. UnitType'
  BY <1>1, <1>2, EndingMoves DEF UnitType
<1>4. \A v \in Unit : Debt(v) \in {0, 1} /\ Debt(v)' \in {0, 1}
  BY DEF Debt
<1>5. CASE u = "normalized"
  <2>1. /\ Debt("normalized") = 1 /\ Debt("normalized")' = 0
        /\ Debt("correlated")' <= Debt("correlated")
    BY <1>1, <1>5, EndingMoves DEF Debt, Doomed
  <2>2. ~ Doomed("ruled")
    BY <1>1, <1>5 DEF Doomed, EventsReader, UnitType, Unit
  <2>3. Debt("ruled")' = 0
    BY <1>1, <1>5, <2>2 DEF Debt, Doomed, UnitType, Unit, EventsReader
  <2>4. QED
    BY <1>2, <1>3, <1>4, <1>5, <2>1, <2>3 DEF CascadeInv, Deaths, Unit
<1>6. CASE u = "ruled"
  <2>1. Debt("ruled") = 1 /\ Debt("ruled")' = 0
    BY <1>1, <1>6, EndingMoves DEF Debt, Doomed
  <2>2. ~ Doomed("normalized")'
    BY <1>1, <1>6 DEF Doomed, EventsWriter, UnitType, Unit
  <2>3. CASE Debt("correlated")' <= Debt("correlated")
    BY <1>2, <1>3, <1>4, <1>6, <2>1, <2>2, <2>3 DEF CascadeInv, Debt, Deaths, Unit
  <2>4. CASE ~ (Debt("correlated")' <= Debt("correlated"))
    BY <1>2, <1>3, <1>4, <1>6, <2>1, <2>2, <2>4 DEF CascadeInv, Debt, Deaths, Unit
  <2>5. QED
    BY <2>3, <2>4
<1>7. CASE u = "correlated"
  <2>1. /\ Debt("normalized")' <= Debt("normalized") /\ Debt("ruled")' <= Debt("ruled")
        /\ Debt("correlated") = 1 /\ Debt("correlated")' = 0
    BY <1>1, <1>7, EndingMoves DEF Debt, Doomed
  <2>2. QED
    BY <1>2, <1>3, <1>4, <1>7, <2>1 DEF CascadeInv, Deaths, Unit
<1>8. QED
  BY <1>5, <1>6, <1>7 DEF Unit

LEMMA CascadeKept ==
  ASSUME CascadeInv, [Next]_vars
  PROVE  CascadeInv'
<1> USE DEF normalized, ruled, outcome
<1>1. ASSUME UNCHANGED Turns, errors' \in Nat PROVE CascadeInv'
  BY <1>1 DEF Turns, CascadeInv, UnitType, Debt, Doomed, Deaths, EventsReader, EventsWriter,
              AlertsWriter
<1>2. errors \in Nat
  BY DEF CascadeInv, UnitType
<1>3. ASSUME NEW u \in Unit, Start(u) \/ Open(u) PROVE CascadeInv'
  BY <1>3, ComingUpKeepsCascade
<1>4. ASSUME NEW u \in Unit, Kill(u) PROVE CascadeInv'
  BY <1>4, KillKeepsCascade
<1>5. ASSUME NEW t \in Thread, Receive(t) \/ WritePipe(t) \/ Store(t) PROVE CascadeInv'
  BY <1>1, <1>2, <1>5 DEF Receive, WritePipe, Store, Turns
<1>6. ASSUME NEW t \in Thread, BrokenPipe(t) PROVE CascadeInv'
  BY <1>6, EofKeepsCascade DEF BrokenPipe, Closed, Doomed, Unit
<1>7. CASE RuledEof
  BY <1>7, EofKeepsCascade DEF RuledEof, Closed, Doomed, Unit, Resting, Ruled
<1>8. CASE CorrelatedEof
  BY <1>8, EofKeepsCascade DEF CorrelatedEof, Closed, Doomed, Unit
<1>9. CASE ReadEvents \/ Evaluate \/ Flush \/ Send \/ SendFails \/ FileAlert
  BY <1>1, <1>2, <1>9 DEF ReadEvents, Evaluate, Flush, Send, SendFails, FileAlert, Turns
<1>10. ASSUME NEW now \in 0..MaxTime, DropRepeat(now) \/ Emit(now) PROVE CascadeInv'
  BY <1>1, <1>2, <1>10 DEF DropRepeat, Emit, Turns
<1>11. CASE ReadAlerts \/ FeedEngine
  BY <1>1, <1>2, <1>11 DEF ReadAlerts, FeedEngine, Turns
<1>12. CASE UNCHANGED vars
  BY <1>1, <1>2, <1>12 DEF vars, Turns
<1>13. QED
  BY <1>3, <1>4, <1>5, <1>6, <1>7, <1>8, <1>9, <1>10, <1>11, <1>12
     DEF Next, Listeners, RuledLoop, CorrelatedLoop

LEMMA CascadeHolds == Spec => []CascadeInv
<1>1. Init => CascadeInv
  BY InitCascade
<1>2. CascadeInv /\ [Next]_vars => CascadeInv'
  BY CascadeKept
<1>3. QED
  BY <1>1, <1>2, PTL DEF Spec

\* Whatever is killed, and however often, a unit ends by itself at most once for each kill:
\* the death of one may pull down its neighbours, but they never keep restarting one another.
\* (The three unit files of config/systemd, and the ends of file in the three main loops.)
THEOREM CascadesEnd == Spec => []CascadeDiesOut
<1>1. CascadeInv => CascadeDiesOut
  <2> SUFFICES ASSUME CascadeInv PROVE \A u \in Unit : exits[u] <= Killed
    BY DEF CascadeDiesOut
  <2>1. \A u \in Unit : kills[u] \in Nat /\ exits[u] \in Nat /\ Debt(u) \in Nat
    BY DEF CascadeInv, UnitType, Debt
  <2>2. QED
    BY <2>1 DEF CascadeInv, Killed, Deaths, Unit
<1>2. QED
  BY <1>1, CascadeHolds, PTL

(***************************************************************************)
(* What restarts cost.                                                     *)
(***************************************************************************)

\* Each end of normalized costs at most one event per thread, each failed write one.
Cost == Cardinality(Thread) * Deaths("normalized") + errors
LossInv == Cardinality(Lost) <= Cost

LEMMA Counts ==
  ASSUME TypeInv, CascadeInv
  PROVE  /\ IsFiniteSet(Thread) /\ Cardinality(Thread) \in Nat
         /\ IsFiniteSet(Lost) /\ Cardinality(Lost) \in Nat
         /\ IsFiniteSet(AtHand) /\ Cardinality(AtHand) <= Cardinality(Thread)
         /\ Cardinality(AtHand) \in Nat
         /\ Deaths("normalized") \in Nat /\ errors \in Nat /\ Cost \in Nat
         /\ Cardinality(Thread) * Deaths("normalized") \in Nat
<1>1. IsFiniteSet(Thread) /\ Cardinality(Thread) \in Nat
  BY PipelineAssumption, FS_CardinalityType
<1>2. IsFiniteSet(Lost) /\ Cardinality(Lost) \in Nat
  <2>1. taken \in Int /\ 1 \in Int /\ Lost \in SUBSET (1..taken)
    BY PipelineAssumption DEF TypeInv, Lost
  <2>2. IsFiniteSet(1..taken)
    BY <2>1, FS_Interval
  <2>3. QED
    BY <2>1, <2>2, FS_Subset, FS_CardinalityType
<1>3. IsFiniteSet(AtHand) /\ Cardinality(AtHand) <= Cardinality(Thread) /\ Cardinality(AtHand) \in Nat
  <2> DEFINE all == {hand[t] : t \in Thread}
  <2>1. hand \in Surjection(Thread, all)
    <3>1. hand \in [Thread -> all]
      BY DEF TypeInv
    <3>2. \A x \in all : \E t \in Thread : hand[t] = x
      OBVIOUS
    <3>3. QED
      BY <3>1, <3>2 DEF Surjection
  <2>2. AtHand \in SUBSET all
    BY DEF AtHand
  <2> HIDE DEF all
  <2>3. IsFiniteSet(all) /\ Cardinality(all) <= Cardinality(Thread)
    BY <1>1, <2>1, FS_Surjection
  <2>4. /\ IsFiniteSet(AtHand) /\ Cardinality(AtHand) <= Cardinality(all)
        /\ Cardinality(AtHand) \in Nat /\ Cardinality(all) \in Nat
    BY <2>2, <2>3, FS_Subset, FS_CardinalityType
  <2>5. QED
    BY <1>1, <2>3, <2>4
<1>4. Deaths("normalized") \in Nat /\ errors \in Nat
  BY DEF CascadeInv, UnitType, Deaths, Unit
<1>5. \A m, n \in Nat : m * n \in Nat
  OBVIOUS
<1>6. QED
  BY <1>1, <1>2, <1>3, <1>4, <1>5 DEF Cost

\* Nothing is lost by a step that loses no event and undoes no death.
LEMMA NothingLost ==
  ASSUME TypeInv, CascadeInv, LossInv, Lost' \subseteq Lost, Cost' \in Nat, Cost <= Cost'
  PROVE  LossInv'
<1>1. Lost' \in SUBSET Lost
  OBVIOUS
<1>2. /\ IsFiniteSet(Lost) /\ Cardinality(Lost) \in Nat /\ Cost \in Nat
  BY Counts
<1>3. Cardinality(Lost') <= Cardinality(Lost) /\ Cardinality(Lost') \in Nat
  BY <1>1, <1>2, FS_Subset, FS_CardinalityType
<1>4. Cardinality(Lost') <= Cost'
  BY <1>2, <1>3 DEF LossInv
<1>5. QED
  BY <1>4 DEF LossInv

\* The threads of normalized go with it.
LEMMA HandsLost ==
  ASSUME TypeInv, CascadeInv, LossInv, UNCHANGED <<taken, stored, errors>>,
         Deaths("normalized")' = Deaths("normalized") + 1
  PROVE  LossInv'
<1>1. /\ IsFiniteSet(Lost) /\ IsFiniteSet(AtHand)
      /\ Cardinality(Lost) \in Nat /\ Cardinality(AtHand) \in Nat
      /\ Cardinality(AtHand) <= Cardinality(Thread) /\ Cardinality(Thread) \in Nat
      /\ Deaths("normalized") \in Nat /\ errors \in Nat
      /\ Cardinality(Thread) * Deaths("normalized") \in Nat
  BY Counts
<1>2. Lost' \in SUBSET (Lost \cup AtHand)
  BY DEF Lost
<1>3. /\ IsFiniteSet(Lost \cup AtHand)
      /\ Cardinality(Lost \cup AtHand)
           = Cardinality(Lost) + Cardinality(AtHand) - Cardinality(Lost \cap AtHand)
      /\ Cardinality(Lost \cap AtHand) \in Nat
  BY <1>1, FS_Union, FS_Intersection, FS_CardinalityType
<1>4. /\ Cardinality(Lost') <= Cardinality(Lost \cup AtHand)
      /\ Cardinality(Lost') \in Nat /\ Cardinality(Lost \cup AtHand) \in Nat
  BY <1>2, <1>3, FS_Subset, FS_CardinalityType
<1>5. Cardinality(Lost') <= Cardinality(Lost) + Cardinality(Thread)
  BY <1>1, <1>3, <1>4
<1>6. ASSUME NEW m \in Nat, NEW n \in Nat PROVE m * (n + 1) = m * n + m
  BY <1>6
<1>7. Cost' = Cardinality(Thread) * Deaths("normalized") + Cardinality(Thread) + errors
  BY <1>1, <1>6 DEF Cost
<1>8. Cardinality(Lost') <= Cost'
  BY <1>1, <1>4, <1>5, <1>7 DEF LossInv, Cost
<1>9. QED
  BY <1>8 DEF LossInv

LEMMA StoreKeepsLoss ==
  ASSUME TypeInv, CascadeInv, LossInv, NEW t \in Thread, Store(t)
  PROVE  LossInv'
<1>1. /\ hand' = [hand EXCEPT ![t] = 0] /\ taken' = taken /\ hand \in [Thread -> 0..MaxEvents]
      /\ UNCHANGED <<kills, exits>>
  BY DEF Store, TypeInv
<1>2. \A x \in AtHand : x = hand[t] \/ x \in AtHand'
  BY <1>1 DEF AtHand
<1>3. Deaths("normalized")' = Deaths("normalized")
  BY <1>1 DEF Deaths
<1>4. CASE stored' = stored \cup {hand[t]} /\ errors' = errors
  <2>1. Lost' \subseteq Lost
    BY <1>1, <1>2, <1>4 DEF Lost
  <2>2. Cost' = Cost /\ Cost \in Nat
    BY <1>3, <1>4, Counts DEF Cost
  <2>3. QED
    BY <2>1, <2>2, NothingLost
<1>5. CASE errors' = errors + 1 /\ stored' = stored
  <2>1. Lost' \in SUBSET (Lost \cup {hand[t]})
    BY <1>1, <1>2, <1>5 DEF Lost
  <2>2. IsFiniteSet(Lost) /\ Cardinality(Lost) \in Nat /\ errors \in Nat /\ Cost \in Nat
        /\ Cardinality(Thread) * Deaths("normalized") \in Nat
    BY Counts
  <2>3. /\ IsFiniteSet(Lost \cup {hand[t]})
        /\ Cardinality(Lost \cup {hand[t]}) <= Cardinality(Lost) + 1
    BY <2>2, FS_AddElement
  <2>4. /\ Cardinality(Lost') <= Cardinality(Lost \cup {hand[t]})
        /\ Cardinality(Lost') \in Nat /\ Cardinality(Lost \cup {hand[t]}) \in Nat
    BY <2>1, <2>3, FS_Subset, FS_CardinalityType
  <2>5. Cost' = Cost + 1
    BY <1>3, <1>5, <2>2 DEF Cost
  <2>6. Cardinality(Lost') <= Cost'
    BY <2>2, <2>3, <2>4, <2>5 DEF LossInv
  <2>7. QED
    BY <2>6 DEF LossInv
<1>6. QED
  BY <1>4, <1>5 DEF Store

\* What Lost and Cost are made of.
Losses == <<taken, hand, stored, errors, kills, exits>>

LEMMA LossKept ==
  ASSUME TypeInv, CascadeInv, CascadeInv', LossInv, [Next]_vars
  PROVE  LossInv'
<1> USE DEF normalized, ruled, outcome
<1>1. Cost \in Nat /\ Deaths("normalized") \in Nat /\ errors \in Nat
  BY Counts
<1>2. ASSUME UNCHANGED Losses PROVE LossInv'
  BY <1>1, <1>2, NothingLost DEF Losses, Lost, AtHand, Cost, Deaths
\* Another unit's death, or another unit's error.
<1>3. ASSUME UNCHANGED <<taken, hand, stored>>, Deaths("normalized")' = Deaths("normalized"),
             errors' = errors \/ errors' = errors + 1
      PROVE  LossInv'
  <2>1. Lost' = Lost
    BY <1>3 DEF Lost, AtHand
  <2>2. Cardinality(Thread) * Deaths("normalized") \in Nat
    BY Counts
  <2>3. Cost' \in Nat /\ Cost <= Cost'
    BY <1>1, <1>3, <2>2 DEF Cost
  <2>4. QED
    BY <2>1, <2>3, NothingLost
<1>4. /\ kills \in [Unit -> Nat] /\ exits \in [Unit -> Nat]
  BY DEF TypeInv
<1>5. ASSUME NEW u \in Unit, Start(u) \/ Open(u) PROVE LossInv'
  BY <1>2, <1>5 DEF Start, Open, Losses
<1>6. ASSUME NEW u \in Unit, Kill(u) PROVE LossInv'
  <2>1. /\ kills' = [kills EXCEPT ![u] = @ + 1]
        /\ UNCHANGED <<taken, stored, errors, exits>>
    BY <1>6 DEF Kill
  <2>2. CASE u = "normalized"
    <3>1. Deaths("normalized")' = Deaths("normalized") + 1
      BY <1>4, <2>1, <2>2 DEF Deaths, Unit
    <3>2. QED
      BY <2>1, <3>1, HandsLost
  <2>3. CASE u # "normalized"
    <3>1. Deaths("normalized")' = Deaths("normalized") /\ hand' = hand
      BY <1>4, <1>6, <2>1, <2>3 DEF Deaths, Unit, Kill
    <3>2. QED
      BY <1>3, <2>1, <3>1
  <2>4. QED
    BY <2>2, <2>3
<1>7. ASSUME NEW t \in Thread, Receive(t) PROVE LossInv'
  <2>1. /\ hand[t] = 0 /\ hand' = [hand EXCEPT ![t] = taken + 1] /\ taken' = taken + 1
        /\ taken \in Nat /\ hand \in [Thread -> 0..MaxEvents]
        /\ UNCHANGED <<stored, errors, kills, exits>>
    BY <1>7, PipelineAssumption DEF Receive, TypeInv
  <2>2. \A s \in Thread : hand[s] # 0 => hand'[s] = hand[s]
    BY <2>1
  <2>3. hand'[t] = taken + 1
    BY <2>1
  <2>4. Lost' \subseteq Lost
    <3>1. \A x \in AtHand : x \in AtHand'
      BY <2>2 DEF AtHand
    <3>2. taken + 1 \in AtHand'
      BY <2>1, <2>3 DEF AtHand
    <3>3. \A x \in 1..(taken + 1) : x \in 1..taken \/ x = taken + 1
      BY <2>1
    <3>4. QED
      BY <2>1, <3>1, <3>2, <3>3 DEF Lost
  <2>5. Cost' = Cost
    BY <2>1 DEF Cost, Deaths
  <2>6. QED
    BY <1>1, <2>4, <2>5, NothingLost
<1>8. ASSUME NEW t \in Thread, WritePipe(t) PROVE LossInv'
  BY <1>2, <1>8 DEF WritePipe, Losses
<1>9. ASSUME NEW t \in Thread, BrokenPipe(t) PROVE LossInv'
  <2>1. /\ exits' = [exits EXCEPT !["normalized"] = @ + 1]
        /\ UNCHANGED <<taken, stored, errors, kills>>
    BY <1>9 DEF BrokenPipe
  <2>2. Deaths("normalized")' = Deaths("normalized") + 1
    BY <1>4, <2>1 DEF Deaths, Unit
  <2>3. QED
    BY <2>1, <2>2, HandsLost
<1>10. ASSUME NEW t \in Thread, Store(t) PROVE LossInv'
  BY <1>10, StoreKeepsLoss
<1>11. CASE RuledEof \/ CorrelatedEof
  <2>1. /\ UNCHANGED <<taken, hand, stored, errors, kills>>
        /\ \/ exits' = [exits EXCEPT !["ruled"] = @ + 1]
           \/ exits' = [exits EXCEPT !["correlated"] = @ + 1]
    BY <1>11 DEF RuledEof, CorrelatedEof
  <2>2. Deaths("normalized")' = Deaths("normalized")
    BY <1>4, <2>1 DEF Deaths, Unit
  <2>3. QED
    BY <1>3, <2>1, <2>2
<1>12. CASE ReadEvents \/ Evaluate \/ Flush \/ Send \/ SendFails
  BY <1>2, <1>12 DEF ReadEvents, Evaluate, Flush, Send, SendFails, Losses
<1>13. CASE FileAlert
  <2>1. /\ UNCHANGED <<taken, hand, stored, kills, exits>>
        /\ errors' = errors \/ errors' = errors + 1
    BY <1>13 DEF FileAlert
  <2>2. QED
    BY <1>3, <2>1 DEF Deaths
<1>14. ASSUME NEW now \in 0..MaxTime, DropRepeat(now) \/ Emit(now) PROVE LossInv'
  BY <1>2, <1>14 DEF DropRepeat, Emit, Losses
<1>15. CASE ReadAlerts \/ FeedEngine
  BY <1>2, <1>15 DEF ReadAlerts, FeedEngine, Losses
<1>16. CASE UNCHANGED vars
  BY <1>2, <1>16 DEF vars, Losses
<1>17. QED
  BY <1>5, <1>6, <1>7, <1>8, <1>9, <1>10, <1>11, <1>12, <1>13, <1>14, <1>15, <1>16
     DEF Next, Listeners, RuledLoop, CorrelatedLoop

\* For any number of listener threads and any kills, normalized loses no event but those its
\* threads hold when it dies, at most one each, and those whose write fails; and it ends by
\* itself at most once for each death of ruled.  (Processor::handle, process::exit(0).)
THEOREM LossHasACause == Spec => []LossIsBounded
<1>1. Init /\ TypeInv /\ CascadeInv => LossInv
  <2> SUFFICES ASSUME Init, TypeInv, CascadeInv PROVE LossInv
    OBVIOUS
  <2>1. Lost = {}
    BY DEF Init, Lost
  <2>2. QED
    BY <2>1, Counts, FS_EmptySet DEF LossInv
<1>2. TypeInv /\ CascadeInv /\ CascadeInv' /\ LossInv /\ [Next]_vars => LossInv'
  BY LossKept
<1>3. DedupInv => TypeInv
  BY DEF DedupInv
<1>4. TypeInv /\ CascadeInv /\ LossInv => LossIsBounded
  <2> SUFFICES ASSUME TypeInv, CascadeInv, LossInv
               PROVE  Cardinality(Lost)
                        <= Cardinality(Thread) * (kills["normalized"] + Deaths("ruled")) + errors
    BY DEF LossIsBounded
  <2>1. /\ Cardinality(Lost) \in Nat /\ Cardinality(Thread) \in Nat /\ errors \in Nat
        /\ Cardinality(Thread) * Deaths("normalized") \in Nat
    BY Counts
  <2>2. /\ \A u \in Unit : kills[u] \in Nat /\ exits[u] \in Nat /\ Debt(u) \in Nat
    BY DEF CascadeInv, UnitType, Debt
  <2>3. Deaths("normalized") <= kills["normalized"] + Deaths("ruled")
    BY <2>2 DEF CascadeInv, Deaths, Unit
  <2>4. Deaths("normalized") \in Nat /\ kills["normalized"] + Deaths("ruled") \in Nat
    BY <2>2 DEF Deaths, Unit
  <2>5. ASSUME NEW m \in Nat, NEW a \in Nat, NEW b \in Nat, a <= b
        PROVE  m * a <= m * b /\ m * b \in Nat
    BY <2>5
  <2>6. QED
    <3> DEFINE a == Deaths("normalized")
               b == kills["normalized"] + Deaths("ruled")
               m == Cardinality(Thread)
               lost == Cardinality(Lost)
    <3>1. lost <= m * a + errors
      BY DEF LossInv, Cost
    <3>2. m \in Nat /\ a \in Nat /\ b \in Nat /\ a <= b
      BY <2>1, <2>3, <2>4
    <3> HIDE DEF a, b, m, lost
    <3>3. m * a <= m * b /\ m * b \in Nat /\ m * a \in Nat
      BY <2>5, <3>2
    <3>4. lost <= m * b + errors
      BY <2>1, <3>1, <3>3 DEF lost
    <3>5. QED
      BY <3>4 DEF b, m, lost
<1>5. QED
  BY <1>1, <1>2, <1>3, <1>4, DedupHolds, CascadeHolds, PTL DEF Spec

-------------------------------------------------------------------------------
(***************************************************************************)
(* The order of the alerts.                                                *)
(***************************************************************************)

Produced == [i \in DOMAIN emitted |-> emitted[i].alert]
Within(x, s) == \E i \in DOMAIN s : s[i] = x
NoRepeats(s) == \A i, j \in DOMAIN s : s[i] = s[j] => i = j

\* Thread t holds an event that it has not written to the FIFO yet.
Unwritten(t) == hand[t] # 0 /\ lock # t

\* An event that ruled may still evaluate: it has not been yet.
Untouched(e) == e # current /\ \A i \in DOMAIN emitted : emitted[i].alert[1] # e

\* On its way to ruled an event is in one place.
EventsInv ==
    /\ \A t \in Thread : hand[t] <= taken
    /\ \A t, u \in Thread : hand[t] = hand[u] /\ hand[t] # 0 => t = u
    /\ NoRepeats(lines) /\ NoRepeats(events)
    /\ \A i \in DOMAIN lines : lines[i] <= taken /\ Untouched(lines[i]) /\ ~ Within(lines[i], events)
    /\ \A i \in DOMAIN events : events[i] <= taken /\ Untouched(events[i])
    /\ current <= taken
    /\ \A i \in DOMAIN emitted : emitted[i].alert[1] <= taken
    /\ \A t \in Thread : Unwritten(t) =>
           Untouched(hand[t]) /\ ~ Within(hand[t], lines) /\ ~ Within(hand[t], events)

\* The rules still to be evaluated have not brought anything for the event.
RulesInv ==
    /\ NoRepeats(todo)
    /\ \A i \in DOMAIN todo : i > 1 \/ stage = "check" => ~ Within(<<current, todo[i]>>, Produced)

\* The alert that is being sent, if any, comes after the one left in the buffer.
InHand == IF stage = "send" THEN <<Subject>> ELSE << >>
ToFile == IF stage = "file" THEN <<Subject>> ELSE << >>

OrderInv ==
    /\ Follows((sent \o kept) \o InHand, Produced)
    /\ Follows(fed \o (pending \o alerts), sent)
    /\ Follows(filed \o ToFile, sent)

\* At most one line is left in the buffer of ruled's stdout.
Held == {<< >>} \cup {<<a>> : a \in Alert}

FlowTypes ==
    /\ lock \in Thread \cup {NoThread}
    /\ stage \in {"check", "send", "file"}
    /\ kept \in Held
    /\ alerts \in Seq(Alert) /\ pending \in Seq(Alert)
    /\ sent \in Seq(Alert) /\ filed \in Seq(Alert) /\ fed \in Seq(Alert)

FlowInv == FlowTypes /\ EventsInv /\ RulesInv /\ OrderInv

(***************************************************************************)
(* Sequences that follow another.                                          *)
(***************************************************************************)

LEMMA Appended ==
  ASSUME NEW S, NEW s \in Seq(S), NEW x \in S
  PROVE  /\ Append(s, x) \in Seq(S) /\ Len(s) \in Nat
         /\ s \o <<x>> = Append(s, x)
         /\ DOMAIN s = 1..Len(s)
         /\ DOMAIN Append(s, x) = 1..(Len(s) + 1)
         /\ \A i \in DOMAIN s : i \in DOMAIN Append(s, x) /\ Append(s, x)[i] = s[i]
         /\ Len(s) + 1 \in DOMAIN Append(s, x) /\ Append(s, x)[Len(s) + 1] = x
         /\ \A i \in DOMAIN Append(s, x) : i \in DOMAIN s \/ i = Len(s) + 1
OBVIOUS

LEMMA StillWithin ==
  ASSUME NEW S, NEW s \in Seq(S), NEW x \in S, NEW y, y # x, Within(y, Append(s, x))
  PROVE  Within(y, s)
<1> DEFINE q == Append(s, x)
<1>1. /\ \A i \in DOMAIN q : i \in DOMAIN s \/ i = Len(s) + 1
      /\ \A i \in DOMAIN s : q[i] = s[i]
      /\ q[Len(s) + 1] = x
  BY Appended
<1> HIDE DEF q
<1>2. PICK i \in DOMAIN q : q[i] = y
  BY DEF Within, q
<1>3. i \in DOMAIN s /\ s[i] = y
  BY <1>1, <1>2
<1>4. QED
  BY <1>3 DEF Within

LEMMA Joined ==
  ASSUME NEW S, NEW s \in Seq(S), NEW u \in Seq(S)
  PROVE  /\ s \o u \in Seq(S) /\ Len(s \o u) = Len(s) + Len(u)
         /\ \A i \in DOMAIN s : i \in DOMAIN (s \o u) /\ (s \o u)[i] = s[i]
         /\ s \o << >> = s /\ << >> \o s = s
OBVIOUS

LEMMA HeadAndTail ==
  ASSUME NEW S, NEW s \in Seq(S), s # << >>
  PROVE  /\ Head(s) \in S /\ Tail(s) \in Seq(S) /\ s = <<Head(s)>> \o Tail(s)
         /\ 1 \in DOMAIN s /\ s[1] = Head(s)
         /\ \A i \in DOMAIN Tail(s) : i + 1 \in DOMAIN s /\ Tail(s)[i] = s[i + 1] /\ i \in Nat \ {0}
OBVIOUS

\* A beginning of what follows t follows t.
LEMMA BeginningFollows ==
  ASSUME NEW S, NEW s \in Seq(S), NEW u \in Seq(S), NEW t, Follows(s \o u, t)
  PROVE  Follows(s, t)
<1>1. \A i \in DOMAIN s : i \in DOMAIN (s \o u) /\ (s \o u)[i] = s[i]
  BY Joined
<1>2. QED
  BY <1>1 DEF Follows

\* So does what is left when a part is taken out.
LEMMA RestFollows ==
  ASSUME NEW S, NEW s \in Seq(S), NEW u \in Seq(S), NEW v \in Seq(S), NEW t,
         Follows(s \o (u \o v), t)
  PROVE  Follows(s \o v, t)
<1> DEFINE q == s \o v
           r == s \o (u \o v)
           f(i) == IF i \in DOMAIN s THEN i ELSE i + Len(u)
<1>1. \A i \in DOMAIN q : f(i) \in DOMAIN r
  OBVIOUS
<1>2. \A i \in DOMAIN q : q[i] = r[f(i)]
  OBVIOUS
<1>3. \A i, j \in DOMAIN q : i < j => f(i) < f(j)
  OBVIOUS
<1> HIDE DEF q, r, f
<1>4. Follows(r, t)
  BY DEF r
<1>5. \A i \in DOMAIN q : \E a \in DOMAIN t : t[a] = q[i]
  BY <1>1, <1>2, <1>4 DEF Follows
<1>6. ASSUME NEW i \in DOMAIN q, NEW j \in DOMAIN q, NEW a \in DOMAIN t, NEW b \in DOMAIN t,
             i < j, t[a] = q[i], t[b] = q[j]
      PROVE  a < b
  <2>1. f(i) \in DOMAIN r /\ f(j) \in DOMAIN r /\ f(i) < f(j)
    BY <1>1, <1>3, <1>6
  <2>2. t[a] = r[f(i)] /\ t[b] = r[f(j)]
    BY <1>2, <1>6
  <2>3. QED
    BY <1>4, <2>1, <2>2 DEF Follows
<1>7. Follows(q, t)
  BY <1>5, <1>6 DEF Follows
<1>8. QED
  BY <1>7 DEF q

\* More may come at the end of t.
LEMMA FollowsGrown ==
  ASSUME NEW S, NEW s \in Seq(S), NEW t \in Seq(S), NEW x \in S, Follows(s, t), ~ Within(x, t)
  PROVE  Follows(s, Append(t, x))
<1> DEFINE r == Append(t, x)
<1>1. /\ \A a \in DOMAIN t : a \in DOMAIN r /\ r[a] = t[a]
      /\ \A a \in DOMAIN r : a \in DOMAIN t \/ a = Len(t) + 1
      /\ r[Len(t) + 1] = x
  BY Appended
<1> HIDE DEF r
<1>2. \A i \in DOMAIN s : \E a \in DOMAIN t : t[a] = s[i]
  BY DEF Follows
<1>3. \A i \in DOMAIN s : \A a \in DOMAIN r : r[a] = s[i] => a \in DOMAIN t /\ t[a] = s[i]
  BY <1>1, <1>2 DEF Within
<1>4. \A i, j \in DOMAIN s : \A a, b \in DOMAIN r : i < j /\ r[a] = s[i] /\ r[b] = s[j] => a < b
  BY <1>3 DEF Follows
<1>5. \A i \in DOMAIN s : \E a \in DOMAIN r : r[a] = s[i]
  BY <1>1, <1>2
<1>6. QED
  BY <1>4, <1>5 DEF Follows, r

\* The same new element may come at the end of both.
LEMMA FollowsBoth ==
  ASSUME NEW S, NEW s \in Seq(S), NEW t \in Seq(S), NEW x \in S, Follows(s, t), ~ Within(x, t)
  PROVE  Follows(Append(s, x), Append(t, x))
<1> DEFINE r == Append(t, x)
           q == Append(s, x)
           n == Len(s) + 1
           m == Len(t) + 1
<1>1. /\ \A a \in DOMAIN t : a \in DOMAIN r /\ r[a] = t[a] /\ a < m
      /\ \A a \in DOMAIN r : a \in DOMAIN t \/ a = m
      /\ m \in DOMAIN r /\ r[m] = x
  BY Appended
<1>2. /\ \A i \in DOMAIN s : i \in DOMAIN q /\ q[i] = s[i] /\ i < n
      /\ \A i \in DOMAIN q : i \in DOMAIN s \/ i = n
      /\ n \in Nat /\ q[n] = x
  BY Appended
<1> HIDE DEF r, q, n, m
<1>3. \A i \in DOMAIN s : \E a \in DOMAIN t : t[a] = s[i]
  BY DEF Follows
<1>4. \A i \in DOMAIN s : s[i] # x
  BY <1>3 DEF Within
<1>5. \A i \in DOMAIN q : \E a \in DOMAIN r : r[a] = q[i]
  BY <1>1, <1>2, <1>3
<1>6. ASSUME NEW i \in DOMAIN q, NEW j \in DOMAIN q, NEW a \in DOMAIN r, NEW b \in DOMAIN r,
             i < j, r[a] = q[i], r[b] = q[j]
      PROVE  a < b
  <2>1. i \in DOMAIN s
    <3>1. CASE i = n
      <4>1. i \in Nat /\ j \in Nat /\ ~ (i < j)
        <5>1. i \in Nat /\ j \in Nat
          BY <1>6, Appended DEF q
        <5>2. j = n \/ j < n
          BY <1>2
        <5>3. QED
          BY <3>1, <5>1, <5>2
      <4>2. QED
        BY <1>6, <4>1
    <3>2. QED
      BY <1>2, <3>1
  <2>2. a \in DOMAIN t /\ t[a] = s[i]
    BY <1>1, <1>2, <1>4, <1>6, <2>1
  <2>3. CASE j \in DOMAIN s
    <3>1. b \in DOMAIN t /\ t[b] = s[j]
      BY <1>1, <1>2, <1>4, <1>6, <2>3
    <3>2. QED
      BY <1>6, <2>1, <2>2, <2>3, <3>1 DEF Follows
  <2>4. CASE j = n
    <3>1. r[b] = x
      BY <1>2, <1>6, <2>4
    <3>2. b = m
      BY <1>1, <3>1 DEF Within
    <3>3. QED
      BY <1>1, <2>2, <3>2
  <2>5. QED
    BY <1>2, <2>3, <2>4
<1>7. QED
  BY <1>5, <1>6 DEF Follows, r, q

\* The same at the two ends of three joined.
LEMMA FrontFollows ==
  ASSUME NEW S, NEW s \in Seq(S), NEW u \in Seq(S), NEW v \in Seq(S), NEW t,
         Follows(s \o (u \o v), t)
  PROVE  Follows(s \o u, t)
<1> DEFINE q == s \o u
           r == s \o (u \o v)
<1>1. \A i \in DOMAIN q : i \in DOMAIN r /\ r[i] = q[i]
  OBVIOUS
<1>2. Follows(r, t)
  OBVIOUS
<1> HIDE DEF q, r
<1>3. Follows(q, t)
  BY <1>1, <1>2 DEF Follows
<1>4. QED
  BY <1>3 DEF q

LEMMA BackFollows ==
  ASSUME NEW S, NEW s \in Seq(S), NEW u \in Seq(S), NEW v \in Seq(S), NEW t \in Seq(S),
         NEW x \in S, Follows(s \o (u \o v), t), ~ Within(x, t)
  PROVE  Follows(s \o (u \o Append(v, x)), Append(t, x))
<1>1. u \o v \in Seq(S)
  BY Joined
<1>2. s \o (u \o v) \in Seq(S)
  BY <1>1, Joined
<1> DEFINE q == s \o (u \o Append(v, x))
           r == Append(s \o (u \o v), x)
<1>3. Follows(r, Append(t, x))
  BY <1>2, FollowsBoth
<1>4. DOMAIN q = DOMAIN r /\ \A i \in DOMAIN q : q[i] = r[i]
  OBVIOUS
<1> HIDE DEF q, r
<1>5. Follows(q, Append(t, x))
  BY <1>3, <1>4 DEF Follows
<1>6. QED
  BY <1>5 DEF q

\* The same sequence, its first element counted to the part before it.
LEMMA HeadMoves ==
  ASSUME NEW S, NEW s \in Seq(S), NEW u \in Seq(S), NEW v \in Seq(S), NEW t, u # << >>,
         Follows(s \o (u \o v), t)
  PROVE  Follows(Append(s, Head(u)) \o (Tail(u) \o v), t)
<1> DEFINE q == Append(s, Head(u)) \o (Tail(u) \o v)
           r == s \o (u \o v)
<1>1. Len(u) > 0
  OBVIOUS
<1>2. DOMAIN q = DOMAIN r
  BY <1>1
<1>3. ASSUME NEW i \in DOMAIN q PROVE q[i] = r[i]
  <2>1. i \in 1..(Len(s) + (Len(u) + Len(v))) /\ Len(Tail(u)) = Len(u) - 1
    BY <1>1
  <2>2. CASE i <= Len(s) + 1
    BY <1>1, <2>1, <2>2
  <2>3. CASE i > Len(s) + 1 /\ i <= Len(s) + Len(u)
    <3>1. q[i] = Tail(u)[i - Len(s) - 1]
      BY <1>1, <2>1, <2>3
    <3>2. r[i] = u[i - Len(s)]
      BY <1>1, <2>1, <2>3
    <3>3. QED
      BY <1>1, <2>1, <2>3, <3>1, <3>2
  <2>4. CASE i > Len(s) + Len(u)
    BY <1>1, <2>1, <2>4
  <2>5. QED
    BY <1>1, <2>1, <2>2, <2>3, <2>4
<1> HIDE DEF q, r
<1>4. Follows(r, t)
  BY DEF r
<1>5. Follows(q, t)
  BY <1>2, <1>3, <1>4 DEF Follows
<1>6. QED
  BY <1>5 DEF q

\* What follows t has no element twice.
LEMMA LastIsNew ==
  ASSUME NEW S, NEW s \in Seq(S), NEW t \in Seq(S), NEW x \in S, Follows(Append(s, x), t)
  PROVE  ~ Within(x, s)
<1> DEFINE q == Append(s, x)
           n == Len(s) + 1
<1>1. /\ \A i \in DOMAIN s : i \in DOMAIN q /\ q[i] = s[i] /\ i < n
      /\ n \in DOMAIN q /\ q[n] = x
  BY Appended
<1> HIDE DEF q, n
<1>2. Follows(q, t)
  BY DEF q
<1>3. PICK a \in DOMAIN t : t[a] = x
  BY <1>1, <1>2 DEF Follows
<1>4. ASSUME NEW i \in DOMAIN s, s[i] = x PROVE FALSE
  <2>1. i \in DOMAIN q /\ q[i] = x /\ i < n
    BY <1>1, <1>4
  <2>2. a < a
    BY <1>1, <1>2, <1>3, <2>1 DEF Follows
  <2>3. a \in Nat
    <3>1. DOMAIN t = 1..Len(t) /\ Len(t) \in Nat
      OBVIOUS
    <3>2. QED
      BY <3>1
  <2>4. QED
    BY <2>2, <2>3
<1>5. QED
  BY <1>4 DEF Within

(***************************************************************************)
(* An event is in one place.                                               *)
(***************************************************************************)

way == <<taken, hand, lock, lines, events, current, emitted>>

\* What an end takes away.
EventsShrink ==
    /\ UNCHANGED <<taken, emitted>>
    /\ UNCHANGED <<hand, lock>> \/ hand' = [t \in Thread |-> 0]
    /\ lines' = lines \/ lines' = << >>
    /\ events' = events \/ events' = << >>
    /\ current' = current \/ current' = 0

LEMMA EventTypes ==
  ASSUME TypeInv
  PROVE  /\ \A i \in DOMAIN lines : lines[i] \in Event
         /\ \A i \in DOMAIN events : events[i] \in Event
         /\ \A t \in Thread : hand[t] \in Nat
         /\ \A e \in Event : e \in Nat /\ e > 0
         /\ taken \in Nat /\ current \in Nat
         /\ emitted \in Seq(Emission)
<1>1. lines \in Seq(Event) /\ events \in Seq(Event)
  BY DEF TypeInv
<1>2. /\ \A i \in DOMAIN lines : lines[i] \in Event
      /\ \A i \in DOMAIN events : events[i] \in Event
  BY <1>1
<1>3. QED
  BY <1>2, PipelineAssumption DEF TypeInv, Event

LEMMA ShrinkKeepsEvents ==
  ASSUME TypeInv, EventsInv, EventsShrink
  PROVE  EventsInv'
<1>1. \A e \in Event : Untouched(e) => Untouched(e)'
  BY EventTypes DEF EventsShrink, Untouched
<1>2. \A t \in Thread : hand'[t] = hand[t] \/ hand'[t] = 0
  BY DEF EventsShrink
<1>3. /\ \A t \in Thread : hand'[t] <= taken'
      /\ \A t, u \in Thread : hand'[t] = hand'[u] /\ hand'[t] # 0 => t = u
      /\ current' <= taken' /\ \A i \in DOMAIN emitted' : emitted'[i].alert[1] <= taken'
  BY <1>2, EventTypes DEF EventsShrink, EventsInv
<1>4. NoRepeats(lines') /\ NoRepeats(events')
  BY DEF EventsShrink, EventsInv, NoRepeats
<1>5. ASSUME NEW i \in DOMAIN lines'
      PROVE  lines'[i] <= taken' /\ Untouched(lines[i])' /\ ~ Within(lines'[i], events')
  BY <1>1, <1>5, EventTypes DEF EventsShrink, EventsInv, Within, Untouched
<1>6. ASSUME NEW i \in DOMAIN events'
      PROVE  events'[i] <= taken' /\ Untouched(events[i])'
  BY <1>1, <1>6, EventTypes DEF EventsShrink, EventsInv, Untouched
<1>7. ASSUME NEW t \in Thread, Unwritten(t)'
      PROVE  Untouched(hand[t])' /\ ~ Within(hand'[t], lines') /\ ~ Within(hand'[t], events')
  <2>1. hand' = hand /\ lock' = lock /\ Unwritten(t)
    BY <1>7 DEF EventsShrink, Unwritten
  <2>2. Untouched(hand[t]) /\ ~ Within(hand[t], lines) /\ ~ Within(hand[t], events)
    BY <2>1 DEF EventsInv
  <2>3. hand[t] # 0
    BY <2>1 DEF Unwritten
  <2>4. QED
    BY <2>1, <2>2, <2>3 DEF EventsShrink, Untouched, Within
<1>8. QED
  BY <1>3, <1>4, <1>5, <1>6, <1>7 DEF EventsInv

LEMMA ReceiveKeepsEvents ==
  ASSUME TypeInv, EventsInv, NEW t \in Thread, Receive(t)
  PROVE  EventsInv'
<1>1. /\ taken' = taken + 1 /\ hand' = [hand EXCEPT ![t] = taken + 1]
      /\ UNCHANGED <<lock, lines, events, current, emitted>>
  BY DEF Receive, ruled, outcome
<1>2. /\ \A u \in Thread : hand'[u] = IF u = t THEN taken + 1 ELSE hand[u]
      /\ taken \in Nat
  BY <1>1, EventTypes DEF TypeInv
<1>3. \A e : Untouched(e)' <=> Untouched(e)
  BY <1>1 DEF Untouched
<1>4. /\ \A u \in Thread : hand'[u] <= taken'
      /\ \A u, v \in Thread : hand'[u] = hand'[v] /\ hand'[u] # 0 => u = v
      /\ current' <= taken'
  BY <1>1, <1>2, EventTypes DEF EventsInv
<1>5. \A i \in DOMAIN emitted' : emitted'[i].alert[1] <= taken'
  <2> SUFFICES ASSUME NEW i \in DOMAIN emitted PROVE emitted[i].alert[1] <= taken + 1
    BY <1>1
  <2>1. emitted[i] \in Emission
    BY EventTypes
  <2>2. emitted[i].alert[1] \in Nat
    BY <2>1, EventTypes DEF Emission, Alert
  <2>3. QED
    BY <1>2, <2>2 DEF EventsInv
<1>6. NoRepeats(lines') /\ NoRepeats(events')
  BY <1>1 DEF EventsInv
<1>7. ASSUME NEW i \in DOMAIN lines'
      PROVE  lines'[i] <= taken' /\ Untouched(lines[i])' /\ ~ Within(lines'[i], events')
  BY <1>1, <1>2, <1>3, EventTypes DEF EventsInv, Untouched
<1>8. ASSUME NEW i \in DOMAIN events'
      PROVE  events'[i] <= taken' /\ Untouched(events[i])'
  BY <1>1, <1>2, <1>3, EventTypes DEF EventsInv, Untouched
<1>9. ASSUME NEW u \in Thread, Unwritten(u)'
      PROVE  Untouched(hand[u])' /\ ~ Within(hand'[u], lines') /\ ~ Within(hand'[u], events')
  <2>1. CASE u = t
    <3>1. \A n \in Nat : n <= taken => n # taken + 1
      BY <1>2
    <3>2. Untouched(taken + 1)
      <4>1. \A i \in DOMAIN emitted : emitted[i].alert[1] # taken + 1
        <5> SUFFICES ASSUME NEW i \in DOMAIN emitted PROVE emitted[i].alert[1] # taken + 1
          OBVIOUS
        <5>1. emitted[i] \in Emission
          BY EventTypes
        <5>2. emitted[i].alert[1] \in Nat
          BY <5>1, EventTypes DEF Emission, Alert
        <5>3. QED
          BY <3>1, <5>2 DEF EventsInv
      <4>2. QED
        BY <3>1, <4>1, EventTypes DEF EventsInv, Untouched
    <3>3. ~ Within(taken + 1, lines) /\ ~ Within(taken + 1, events)
      BY <3>1, EventTypes DEF EventsInv, Within
    <3>4. hand'[u] = taken + 1
      BY <1>2, <2>1
    <3>5. QED
      BY <1>1, <3>2, <3>3, <3>4 DEF Untouched
  <2>2. CASE u # t
    <3>1. Unwritten(u) /\ hand'[u] = hand[u]
      BY <1>1, <1>2, <1>9, <2>2 DEF Unwritten
    <3>2. QED
      BY <1>1, <3>1 DEF EventsInv, Untouched
  <2>3. QED
    BY <2>1, <2>2
<1>10. QED
  BY <1>4, <1>5, <1>6, <1>7, <1>8, <1>9 DEF EventsInv

LEMMA WriteKeepsEvents ==
  ASSUME TypeInv, EventsInv, NEW t \in Thread, WritePipe(t)
  PROVE  EventsInv'
<1> DEFINE e == hand[t]
<1>1. /\ lock' = t /\ events' = Append(events, e) /\ Unwritten(t)
      /\ UNCHANGED <<taken, hand, lines, current, emitted>>
  BY PipelineAssumption DEF WritePipe, ruled, outcome, Unwritten
<1>2. e \in Event /\ events \in Seq(Event)
  BY <1>1 DEF TypeInv, Unwritten, Event
<1>3. /\ Untouched(e) /\ ~ Within(e, lines) /\ ~ Within(e, events) /\ e <= taken
  BY <1>1 DEF EventsInv
<1> HIDE DEF e
<1>4. /\ \A i \in DOMAIN events : i \in DOMAIN events' /\ events'[i] = events[i]
      /\ \A i \in DOMAIN events' : i \in DOMAIN events \/ i = Len(events) + 1
      /\ events'[Len(events) + 1] = e
  BY <1>1, <1>2, Appended
<1>5. NoRepeats(events')
  BY <1>3, <1>4 DEF EventsInv, NoRepeats, Within
<1>6. ASSUME NEW i \in DOMAIN events'
      PROVE  events'[i] <= taken' /\ Untouched(events[i])'
  <2>1. \A x : Untouched(x)' <=> Untouched(x)
    BY <1>1 DEF Untouched
  <2>2. events'[i] <= taken' /\ Untouched(events'[i])
    BY <1>1, <1>3, <1>4 DEF EventsInv
  <2>3. QED
    BY <1>1, <2>2 DEF Untouched
<1>7. ASSUME NEW i \in DOMAIN lines'
      PROVE  lines'[i] <= taken' /\ Untouched(lines[i])' /\ ~ Within(lines'[i], events')
  <2>1. lines[i] <= taken /\ Untouched(lines[i]) /\ ~ Within(lines[i], events) /\ lines[i] # e
    BY <1>1, <1>3, <1>7 DEF EventsInv, Within
  <2>2. ~ Within(lines[i], events')
    BY <1>4, <2>1 DEF Within
  <2>3. QED
    BY <1>1, <2>1, <2>2 DEF Untouched
<1>8. ASSUME NEW u \in Thread, Unwritten(u)'
      PROVE  Untouched(hand[u])' /\ ~ Within(hand'[u], lines') /\ ~ Within(hand'[u], events')
  <2>1. u # t /\ hand[u] # 0
    BY <1>1, <1>8 DEF Unwritten
  <2>2. hand[u] # e
    BY <2>1 DEF EventsInv, e
  <2>3. lock # u
    BY PipelineAssumption DEF WritePipe
  <2>4. Unwritten(u)
    BY <2>1, <2>3 DEF Unwritten
  <2>5. Untouched(hand[u]) /\ ~ Within(hand[u], lines) /\ ~ Within(hand[u], events)
    BY <2>4 DEF EventsInv
  <2>6. ~ Within(hand[u], events')
    BY <1>4, <2>2, <2>5 DEF Within
  <2>7. QED
    BY <1>1, <2>5, <2>6 DEF Untouched
<1>9. /\ \A u \in Thread : hand'[u] <= taken'
      /\ \A u, v \in Thread : hand'[u] = hand'[v] /\ hand'[u] # 0 => u = v
      /\ current' <= taken' /\ NoRepeats(lines')
      /\ \A i \in DOMAIN emitted' : emitted'[i].alert[1] <= taken'
  BY <1>1 DEF EventsInv
<1>10. QED
  BY <1>5, <1>6, <1>7, <1>8, <1>9 DEF EventsInv

\* The thread that stores is the one that has written.
LEMMA StoreKeepsEvents ==
  ASSUME TypeInv, EventsInv, NEW t \in Thread, Store(t)
  PROVE  EventsInv'
<1>1. /\ lock = t /\ lock' = NoThread /\ hand' = [hand EXCEPT ![t] = 0]
      /\ UNCHANGED <<taken, lines, events, current, emitted>>
  BY DEF Store, ruled
<1>2. \A u \in Thread : hand'[u] = IF u = t THEN 0 ELSE hand[u]
  BY <1>1 DEF TypeInv
<1>3. \A u \in Thread : Unwritten(u)' => Unwritten(u) /\ hand'[u] = hand[u]
  BY <1>1, <1>2 DEF Unwritten
<1>4. ASSUME NEW u \in Thread, Unwritten(u)'
      PROVE  Untouched(hand[u])' /\ ~ Within(hand'[u], lines') /\ ~ Within(hand'[u], events')
  BY <1>1, <1>3, <1>4 DEF EventsInv, Untouched
<1>5. /\ \A u \in Thread : hand'[u] <= taken'
      /\ \A u, v \in Thread : hand'[u] = hand'[v] /\ hand'[u] # 0 => u = v
  BY <1>1, <1>2, EventTypes DEF EventsInv
<1>6. QED
  BY <1>1, <1>4, <1>5 DEF EventsInv, Untouched

LEMMA ReadKeepsEvents ==
  ASSUME TypeInv, EventsInv, ReadEvents
  PROVE  EventsInv'
<1>1. /\ lines = << >> /\ lines' = events /\ events' = << >>
      /\ UNCHANGED <<taken, hand, lock, current, emitted>>
  BY DEF ReadEvents, Resting, normalized, outcome
<1>2. \A x : Untouched(x)' <=> Untouched(x)
  BY <1>1 DEF Untouched
<1>3. \A x : ~ Within(x, << >>)
  BY DEF Within
<1>4. /\ \A i \in DOMAIN lines' :
              lines'[i] <= taken' /\ Untouched(lines[i])' /\ ~ Within(lines'[i], events')
      /\ NoRepeats(lines') /\ NoRepeats(events')
      /\ \A i \in DOMAIN events' : events'[i] <= taken' /\ Untouched(events[i])'
  BY <1>1, <1>3 DEF EventsInv, Untouched, NoRepeats
<1>5. ASSUME NEW u \in Thread, Unwritten(u)'
      PROVE  Untouched(hand[u])' /\ ~ Within(hand'[u], lines') /\ ~ Within(hand'[u], events')
  BY <1>1, <1>3, <1>5 DEF EventsInv, Untouched, Unwritten
<1>6. /\ \A t \in Thread : hand'[t] <= taken'
      /\ \A t, u \in Thread : hand'[t] = hand'[u] /\ hand'[t] # 0 => t = u
      /\ current' <= taken' /\ \A i \in DOMAIN emitted' : emitted'[i].alert[1] <= taken'
  BY <1>1 DEF EventsInv
<1>7. QED
  BY <1>4, <1>5, <1>6 DEF EventsInv

LEMMA EvaluateKeepsEvents ==
  ASSUME TypeInv, EventsInv, Evaluate
  PROVE  EventsInv'
<1>1. /\ lines # << >> /\ current' = Head(lines) /\ lines' = Tail(lines)
      /\ UNCHANGED <<taken, hand, lock, events, emitted>>
  BY DEF Evaluate, normalized, outcome
<1>2. lines \in Seq(Event)
  BY DEF TypeInv
<1>3. /\ 1 \in DOMAIN lines /\ lines[1] = current'
      /\ \A i \in DOMAIN lines' : i + 1 \in DOMAIN lines /\ lines'[i] = lines[i + 1]
                                  /\ i \in Nat \ {0}
  BY <1>1, <1>2, HeadAndTail
<1>4. ASSUME NEW x, Untouched(x), x # current' PROVE Untouched(x)'
  BY <1>1, <1>4 DEF Untouched
<1>5. ASSUME NEW i \in DOMAIN lines'
      PROVE  lines'[i] <= taken' /\ Untouched(lines[i])' /\ ~ Within(lines'[i], events')
  <2>1. i + 1 # 1 /\ i + 1 \in DOMAIN lines /\ lines'[i] = lines[i + 1]
    BY <1>3, <1>5
  <2>2. lines'[i] # current'
    BY <1>3, <2>1 DEF EventsInv, NoRepeats
  <2>3. QED
    BY <1>1, <2>1, <2>2 DEF EventsInv, Untouched
<1>6. ASSUME NEW i \in DOMAIN events' PROVE events'[i] <= taken' /\ Untouched(events[i])'
  <2>1. events[i] # current'
    BY <1>1, <1>3, <1>6 DEF EventsInv, Within
  <2>2. QED
    BY <1>1, <1>6, <2>1 DEF EventsInv, Untouched
<1>7. ASSUME NEW u \in Thread, Unwritten(u)'
      PROVE  Untouched(hand[u])' /\ ~ Within(hand'[u], lines') /\ ~ Within(hand'[u], events')
  <2>1. Unwritten(u)
    BY <1>1, <1>7 DEF Unwritten
  <2>2. hand[u] # current' /\ ~ Within(hand[u], lines')
    BY <1>3, <2>1 DEF EventsInv, Within
  <2>3. QED
    BY <1>1, <2>1, <2>2 DEF EventsInv, Untouched
<1>8. NoRepeats(lines')
  <2> SUFFICES ASSUME NEW i \in DOMAIN lines', NEW j \in DOMAIN lines', lines'[i] = lines'[j]
               PROVE  i = j
    BY DEF NoRepeats
  <2>1. i + 1 = j + 1
    BY <1>3 DEF EventsInv, NoRepeats
  <2>2. QED
    BY <1>3, <2>1
<1>9. /\ \A t \in Thread : hand'[t] <= taken'
      /\ \A t, u \in Thread : hand'[t] = hand'[u] /\ hand'[t] # 0 => t = u
      /\ current' <= taken' /\ NoRepeats(events')
      /\ \A i \in DOMAIN emitted' : emitted'[i].alert[1] <= taken'
  BY <1>1, <1>3 DEF EventsInv
<1>10. QED
  BY <1>5, <1>6, <1>7, <1>8, <1>9 DEF EventsInv

\* What is emitted, and where it comes to stand.
LEMMA EmitAppends ==
  ASSUME TypeInv, NEW now \in Time, Emit(now)
  PROVE  /\ todo # << >> /\ current \in Event /\ Head(todo) \in Rule
         /\ Subject \in Alert /\ Subject = <<current, Head(todo)>>
         /\ Produced \in Seq(Alert) /\ Produced' = Append(Produced, Subject)
         /\ \A i \in DOMAIN emitted' : \/ i \in DOMAIN emitted /\ emitted'[i] = emitted[i]
                                       \/ emitted'[i].alert = Subject
<1>1. todo # << >> /\ emitted' = Append(emitted, Stamp(now)) /\ emitted \in Seq(Emission)
  BY DEF Emit, TypeInv
<1>2. /\ current \in Event /\ Head(todo) \in Rule /\ Stamp(now) \in Emission
  BY <1>1, SubjectType
<1>3. Subject \in Alert /\ Subject = <<current, Head(todo)>>
  BY <1>2 DEF Subject, Alert
<1>4. Stamp(now).alert = Subject
  BY DEF Stamp
<1> DEFINE s == Stamp(now)
           x == Subject
<1> HIDE DEF s, x
<1>5. emitted' = Append(emitted, s) /\ s \in Emission /\ s.alert = x /\ x \in Alert
  BY <1>1, <1>2, <1>3, <1>4 DEF s, x
<1>6. /\ \A i \in DOMAIN emitted : emitted[i] \in Emission
      /\ DOMAIN emitted = 1..Len(emitted) /\ Len(emitted) \in Nat
      /\ DOMAIN emitted' = 1..(Len(emitted) + 1)
      /\ \A i \in DOMAIN emitted : i \in DOMAIN emitted' /\ emitted'[i] = emitted[i]
      /\ emitted'[Len(emitted) + 1] = s
  BY <1>1, <1>5
<1>7. \A e \in Emission : e.alert \in Alert
  BY DEF Emission
<1>8. Produced = [i \in 1..Len(emitted) |-> emitted[i].alert]
  BY <1>6 DEF Produced
<1>9. Produced \in Seq(Alert) /\ Len(Produced) = Len(emitted)
  BY <1>6, <1>7, <1>8
<1>10. Produced' = [i \in 1..(Len(emitted) + 1) |-> emitted'[i].alert]
  BY <1>6 DEF Produced
<1>11. Append(Produced, x) = [i \in 1..(Len(emitted) + 1) |-> emitted'[i].alert]
  BY <1>5, <1>6, <1>8, <1>9
<1>12. Produced' = Append(Produced, x)
  BY <1>10, <1>11
<1>13. ASSUME NEW i \in DOMAIN emitted'
       PROVE  (i \in DOMAIN emitted /\ emitted'[i] = emitted[i]) \/ emitted'[i].alert = x
  BY <1>5, <1>6
<1>14. QED
  BY <1>1, <1>2, <1>3, <1>9, <1>12, <1>13 DEF x

LEMMA EmitKeepsEvents ==
  ASSUME TypeInv, EventsInv, NEW now \in Time, Emit(now)
  PROVE  EventsInv'
<1>1. UNCHANGED <<taken, hand, lock, lines, events, current>>
  BY DEF Emit, normalized
<1>2. \A i \in DOMAIN emitted' :
          emitted'[i].alert[1] = current \/ (i \in DOMAIN emitted /\ emitted'[i] = emitted[i])
  <2>1. Subject = <<current, Head(todo)>>
    BY EmitAppends
  <2>2. Subject[1] = current
    BY <2>1
  <2>3. QED
    BY <2>2, EmitAppends
<1>3. \A x : Untouched(x) => Untouched(x)'
  BY <1>1, <1>2 DEF Untouched
<1>4. \A i \in DOMAIN emitted' : emitted'[i].alert[1] <= taken'
  BY <1>1, <1>2 DEF EventsInv
<1>5. \A i \in DOMAIN lines' :
          lines'[i] <= taken' /\ Untouched(lines[i])' /\ ~ Within(lines'[i], events')
  BY <1>1, <1>3 DEF EventsInv, Untouched
<1>6. \A i \in DOMAIN events' : events'[i] <= taken' /\ Untouched(events[i])'
  BY <1>1, <1>3 DEF EventsInv, Untouched
<1>7. ASSUME NEW u \in Thread, Unwritten(u)'
      PROVE  Untouched(hand[u])' /\ ~ Within(hand'[u], lines') /\ ~ Within(hand'[u], events')
  BY <1>1, <1>3, <1>7 DEF EventsInv, Untouched, Unwritten
<1>8. QED
  BY <1>1, <1>4, <1>5, <1>6, <1>7 DEF EventsInv

LEMMA EventsKept ==
  ASSUME TypeInv, EventsInv, [Next]_vars
  PROVE  EventsInv'
<1> USE DEF normalized, ruled, outcome
<1>1. ASSUME UNCHANGED way PROVE EventsInv'
  BY <1>1, ShrinkKeepsEvents DEF way, EventsShrink
<1>2. ASSUME NEW u \in Unit, Start(u) \/ Open(u) PROVE EventsInv'
  BY <1>1, <1>2 DEF Start, Open, way
<1>3. ASSUME NEW u \in Unit, Kill(u) PROVE EventsInv'
  <2>1. EventsShrink
    BY <1>3 DEF Kill, Closed, EventsShrink
  <2>2. QED
    BY <2>1, ShrinkKeepsEvents
<1>4. ASSUME NEW t \in Thread, Receive(t) PROVE EventsInv'
  BY <1>4, ReceiveKeepsEvents
<1>5. ASSUME NEW t \in Thread, WritePipe(t) \/ BrokenPipe(t) \/ Store(t) PROVE EventsInv'
  <2>1. CASE BrokenPipe(t)
    <3>1. EventsShrink
      BY <2>1 DEF BrokenPipe, Closed, EventsShrink
    <3>2. QED
      BY <3>1, ShrinkKeepsEvents
  <2>2. QED
    BY <1>5, <2>1, WriteKeepsEvents, StoreKeepsEvents
<1>6. CASE RuledEof \/ CorrelatedEof
  <2>1. EventsShrink
    BY <1>6 DEF RuledEof, CorrelatedEof, Closed, EventsShrink
  <2>2. QED
    BY <2>1, ShrinkKeepsEvents
<1>7. CASE ReadEvents \/ Evaluate
  BY <1>7, ReadKeepsEvents, EvaluateKeepsEvents
<1>8. ASSUME NEW now \in 0..MaxTime, DropRepeat(now) \/ Emit(now) PROVE EventsInv'
  <2>1. CASE DropRepeat(now)
    BY <1>1, <2>1 DEF DropRepeat, way
  <2>2. QED
    BY <1>8, <2>1, EmitKeepsEvents DEF Time
<1>9. CASE Flush \/ Send \/ SendFails \/ FileAlert \/ ReadAlerts \/ FeedEngine
  BY <1>1, <1>9 DEF Flush, Send, SendFails, FileAlert, ReadAlerts, FeedEngine, way
<1>10. CASE UNCHANGED vars
  BY <1>1, <1>10 DEF vars, way
<1>11. QED
  BY <1>2, <1>3, <1>4, <1>5, <1>6, <1>7, <1>8, <1>9, <1>10
  DEF Next, Listeners, RuledLoop, CorrelatedLoop

(***************************************************************************)
(* A rule is evaluated once for an event.                                  *)
(***************************************************************************)

\* A rule has been dealt with.
LEMMA NextRule ==
  ASSUME TypeInv, RulesInv, todo # << >>, todo' = Tail(todo), UNCHANGED <<current, emitted>>
  PROVE  RulesInv'
<1>1. todo \in Seq(Rule)
  BY DEF TypeInv
<1>2. /\ 1 \in DOMAIN todo /\ todo[1] = Head(todo)
      /\ \A i \in DOMAIN todo' : i + 1 \in DOMAIN todo /\ todo'[i] = todo[i + 1]
                                 /\ i \in Nat \ {0}
  BY <1>1, HeadAndTail
<1>3. Produced' = Produced
  BY DEF Produced
<1>4. NoRepeats(todo')
  <2> SUFFICES ASSUME NEW i \in DOMAIN todo', NEW j \in DOMAIN todo', todo'[i] = todo'[j]
               PROVE  i = j
    BY DEF NoRepeats
  <2>1. i + 1 = j + 1
    BY <1>2 DEF RulesInv, NoRepeats
  <2>2. QED
    BY <1>2, <2>1
<1>5. ASSUME NEW i \in DOMAIN todo' PROVE ~ Within(<<current', todo'[i]>>, Produced')
  <2>1. i + 1 > 1 /\ i + 1 \in DOMAIN todo /\ todo'[i] = todo[i + 1]
    BY <1>2, <1>5
  <2>2. ~ Within(<<current, todo[i + 1]>>, Produced)
    BY <2>1 DEF RulesInv
  <2>3. QED
    BY <1>3, <2>1, <2>2
<1>6. QED
  BY <1>4, <1>5 DEF RulesInv

LEMMA RulesKept ==
  ASSUME TypeInv, EventsInv, RulesInv, [Next]_vars
  PROVE  RulesInv'
<1> USE DEF normalized, ruled, outcome
<1>1. ASSUME UNCHANGED <<todo, current, stage, emitted>> PROVE RulesInv'
  BY <1>1 DEF RulesInv, Produced
<1>2. ASSUME NEW u \in Unit, Start(u) \/ Open(u) PROVE RulesInv'
  BY <1>1, <1>2 DEF Start, Open
<1>3. ASSUME NEW u \in Unit, Kill(u) PROVE RulesInv'
  <2>1. CASE u = "ruled"
    <3>1. todo' = << >>
      BY <1>3, <2>1 DEF Kill
    <3>2. QED
      BY <3>1 DEF RulesInv, NoRepeats
  <2>2. CASE u # "ruled"
    BY <1>1, <1>3, <2>2 DEF Kill
  <2>3. QED
    BY <2>1, <2>2
<1>4. ASSUME NEW t \in Thread, Receive(t) \/ WritePipe(t) \/ BrokenPipe(t) \/ Store(t)
      PROVE  RulesInv'
  BY <1>1, <1>4 DEF Receive, WritePipe, BrokenPipe, Store
<1>5. CASE ReadEvents \/ RuledEof \/ ReadAlerts \/ FeedEngine \/ CorrelatedEof
  BY <1>1, <1>5 DEF ReadEvents, RuledEof, ReadAlerts, FeedEngine, CorrelatedEof
<1>6. CASE Evaluate
  <2>1. /\ lines # << >> /\ current' = Head(lines) /\ emitted' = emitted
        /\ todo' = Detections[Head(lines)]
    BY <1>6 DEF Evaluate
  <2>2. lines \in Seq(Event)
    BY DEF TypeInv
  <2>3. Head(lines) \in Event /\ 1 \in DOMAIN lines /\ lines[1] = Head(lines)
    BY <2>1, <2>2, HeadAndTail
  <2>4. NoRepeats(todo')
    BY <2>1, <2>3, PipelineAssumption DEF NoRepeats
  <2>5. Untouched(Head(lines))
    BY <2>3 DEF EventsInv
  <2>6. ASSUME NEW r, Within(<<Head(lines), r>>, Produced') PROVE FALSE
    <3>1. PICK i \in DOMAIN emitted : emitted[i].alert = <<Head(lines), r>>
      BY <2>1, <2>6 DEF Within, Produced
    <3>2. emitted[i].alert[1] = Head(lines)
      BY <3>1
    <3>3. QED
      BY <2>5, <3>2 DEF Untouched
  <2>7. QED
    BY <2>1, <2>4, <2>6 DEF RulesInv
<1>7. ASSUME NEW now \in 0..MaxTime, DropRepeat(now) PROVE RulesInv'
  BY <1>7, NextRule DEF DropRepeat
<1>8. ASSUME NEW now \in 0..MaxTime, Emit(now) PROVE RulesInv'
  <2>1. UNCHANGED <<todo, current>> /\ stage' = "send"
    BY <1>8 DEF Emit
  <2>2. /\ todo # << >> /\ Subject \in Alert /\ Subject = <<current, Head(todo)>>
        /\ Produced \in Seq(Alert) /\ Produced' = Append(Produced, Subject)
    BY <1>8, EmitAppends DEF Time
  <2>3. todo \in Seq(Rule) /\ todo[1] = Head(todo) /\ 1 \in DOMAIN todo
    BY <2>2, HeadAndTail DEF TypeInv
  <2>4. ASSUME NEW i \in DOMAIN todo, i > 1, Within(<<current, todo[i]>>, Produced') PROVE FALSE
    <3>1. todo[i] # Head(todo)
      BY <2>3, <2>4 DEF RulesInv, NoRepeats
    <3>2. <<current, todo[i]>> # Subject
      BY <2>2, <3>1
    <3>3. Within(<<current, todo[i]>>, Produced)
      <4> DEFINE x == Subject
                 y == <<current, todo[i]>>
      <4>1. x \in Alert /\ Produced' = Append(Produced, x) /\ y # x /\ Within(y, Produced')
        BY <2>2, <2>4, <3>2
      <4> HIDE DEF x, y
      <4>2. Within(y, Produced)
        BY <2>2, <4>1, StillWithin
      <4>3. QED
        BY <4>2 DEF y
    <3>4. QED
      BY <2>4, <3>3 DEF RulesInv
  <2>5. QED
    BY <2>1, <2>4 DEF RulesInv
<1>9. CASE Flush \/ Send
  <2>1. UNCHANGED <<todo, current, emitted>> /\ stage' \in {"send", "file"}
    BY <1>9 DEF Flush, Send
  <2>2. Produced' = Produced
    BY <2>1 DEF Produced
  <2>3. QED
    BY <2>1, <2>2 DEF RulesInv
<1>10. CASE SendFails \/ FileAlert
  <2>1. todo # << >> /\ todo' = Tail(todo) /\ UNCHANGED <<current, emitted>>
    BY <1>10 DEF SendFails, FileAlert, TypeInv
  <2>2. QED
    BY <2>1, NextRule
<1>11. CASE UNCHANGED vars
  BY <1>1, <1>11 DEF vars
<1>12. QED
  BY <1>2, <1>3, <1>4, <1>5, <1>6, <1>7, <1>8, <1>9, <1>10, <1>11
  DEF Next, Listeners, RuledLoop, CorrelatedLoop

(***************************************************************************)
(* The alerts on their way.                                                *)
(***************************************************************************)

LEMMA ProducedType ==
  ASSUME TypeInv
  PROVE  Produced \in Seq(Alert)
<1>1. /\ \A i \in DOMAIN emitted : emitted[i] \in Emission
      /\ DOMAIN emitted = 1..Len(emitted) /\ Len(emitted) \in Nat
  BY DEF TypeInv
<1>2. \A e \in Emission : e.alert \in Alert
  BY DEF Emission
<1>3. Produced = [i \in 1..Len(emitted) |-> emitted[i].alert]
  BY <1>1 DEF Produced
<1>4. QED
  BY <1>1, <1>2, <1>3

LEMMA HeldTypes == Held \subseteq Seq(Alert) /\ << >> \in Held
<1>1. << >> \in Seq(Alert) /\ \A a \in Alert : <<a>> \in Seq(Alert)
  OBVIOUS
<1>2. ASSUME NEW h \in Held PROVE h \in Seq(Alert)
  <2>1. h = << >> \/ \E a \in Alert : h = <<a>>
    BY DEF Held
  <2>2. QED
    BY <1>1, <2>1
<1>3. << >> \in Held
  BY DEF Held
<1>4. QED
  BY <1>2, <1>3

LEMMA HandTypes ==
  ASSUME TypeInv, FlowTypes
  PROVE  /\ InHand \in Seq(Alert) /\ ToFile \in Seq(Alert)
         /\ stage # "check" => todo # << >> /\ Subject \in Alert
         /\ << >> \in Seq(Alert)
<1>1. << >> \in Seq(Alert)
  OBVIOUS
<1>2. ASSUME stage # "check" PROVE todo # << >> /\ Subject \in Alert
  <2>1. todo # << >>
    BY <1>2 DEF TypeInv
  <2>2. current \in Event /\ Head(todo) \in Rule
    <3>1. 0 \in Time
      BY PipelineAssumption DEF Time
    <3>2. QED
      BY <2>1, <3>1, SubjectType
  <2>3. QED
    BY <2>1, <2>2 DEF Subject, Alert
<1>3. QED
  <2>1. \A x \in Alert : <<x>> \in Seq(Alert)
    OBVIOUS
  <2>2. QED
    BY <1>1, <1>2, <2>1 DEF InHand, ToFile

LEMMA FlowTypesKept ==
  ASSUME TypeInv, FlowTypes, [Next]_vars
  PROVE  FlowTypes'
<1> USE DEF normalized, ruled, outcome
<1> DEFINE Types == /\ kept' \in Held
                    /\ alerts' \in Seq(Alert) /\ pending' \in Seq(Alert)
                    /\ sent' \in Seq(Alert) /\ filed' \in Seq(Alert) /\ fed' \in Seq(Alert)
<1>1. lock' \in Thread \cup {NoThread} /\ stage' \in {"check", "send", "file"}
  <2>1. ASSUME NEW t \in Thread, WritePipe(t) \/ Store(t) \/ Receive(t) \/ BrokenPipe(t)
        PROVE  lock' \in Thread \cup {NoThread} /\ stage' = stage
    BY <2>1 DEF FlowTypes, WritePipe, Store, Receive, BrokenPipe
  <2>2. ASSUME NEW u \in Unit, Start(u) \/ Open(u) \/ Kill(u)
        PROVE  lock' \in Thread \cup {NoThread} /\ stage' \in {"check", "send", "file"}
    BY <2>2 DEF FlowTypes, Start, Open, Kill
  <2>3. CASE RuledLoop
    BY <2>3 DEF FlowTypes, RuledLoop, ReadEvents, RuledEof, Evaluate, DropRepeat, Emit, Flush,
                Send, SendFails, FileAlert
  <2>4. CASE CorrelatedLoop
    BY <2>4 DEF FlowTypes, CorrelatedLoop, ReadAlerts, FeedEngine, CorrelatedEof
  <2>5. CASE UNCHANGED vars
    BY <2>5 DEF FlowTypes, vars
  <2>6. QED
    BY <2>1, <2>2, <2>3, <2>4, <2>5 DEF FlowTypes, Next, Listeners
<1>2. /\ << >> \in Seq(Alert) /\ << >> \in Held
      /\ kept \in Seq(Alert) /\ alerts \in Seq(Alert) /\ sent \in Seq(Alert)
  BY HeldTypes, HandTypes DEF FlowTypes
\* What the two ends of the FIFO drop.
<1>3. ASSUME kept' = kept \/ kept' = << >>, alerts' = alerts \/ alerts' = << >>,
             pending' = pending \/ pending' = << >>, UNCHANGED <<sent, filed, fed>>
      PROVE  Types
  <2>1. kept' \in Held
    BY <1>2, <1>3 DEF FlowTypes
  <2>2. /\ alerts' \in Seq(Alert) /\ pending' \in Seq(Alert)
        /\ sent' \in Seq(Alert) /\ filed' \in Seq(Alert) /\ fed' \in Seq(Alert)
    BY <1>2, <1>3 DEF FlowTypes
  <2>3. QED
    BY <2>1, <2>2
<1> HIDE DEF Types
<1>4. ASSUME NEW u \in Unit, Start(u) \/ Open(u) PROVE Types
  BY <1>3, <1>4 DEF Start, Open
<1>5. ASSUME NEW u \in Unit, Kill(u) PROVE Types
  BY <1>3, <1>5 DEF Kill, Closed
<1>6. ASSUME NEW t \in Thread, Receive(t) \/ WritePipe(t) \/ BrokenPipe(t) \/ Store(t)
      PROVE  Types
  BY <1>3, <1>6 DEF Receive, WritePipe, BrokenPipe, Store, Closed
<1>7. ASSUME ReadEvents \/ Evaluate PROVE Types
  BY <1>3, <1>7 DEF ReadEvents, Evaluate
<1>8. ASSUME CorrelatedEof PROVE Types
  BY <1>3, <1>8 DEF CorrelatedEof, Closed
<1>9. ASSUME NEW now \in 0..MaxTime, DropRepeat(now) \/ Emit(now) PROVE Types
  BY <1>3, <1>9 DEF DropRepeat, Emit
<1>10. alerts \o kept \in Seq(Alert) /\ sent \o kept \in Seq(Alert)
  BY <1>2
<1>11. ASSUME RuledEof PROVE Types
  <2>1. /\ kept' = << >> /\ UNCHANGED <<pending, filed, fed>>
        /\ alerts' \in {alerts, alerts \o kept, << >>} /\ sent' \in {sent, sent \o kept}
    BY <1>11 DEF RuledEof, Closed
  <2>2. /\ kept' \in Held
        /\ alerts' \in Seq(Alert) /\ sent' \in Seq(Alert)
    BY <1>2, <1>10, <2>1
  <2>3. QED
    BY <2>1, <2>2 DEF FlowTypes, Types
<1>12. ASSUME Flush PROVE Types
  BY <1>2, <1>10, <1>12 DEF Flush, FlowTypes, Types
<1>13. ASSUME Send PROVE Types
  <2>1. Subject \in Alert
    BY <1>13, HandTypes DEF Send
  <2>2. Append(alerts, Subject) \in Seq(Alert) /\ Append(sent, Subject) \in Seq(Alert)
    BY <1>2, <2>1
  <2>3. QED
    BY <1>13, <2>2 DEF Send, FlowTypes, Types
<1>14. ASSUME SendFails PROVE Types
  <2>1. Subject \in Alert
    BY <1>14, HandTypes DEF SendFails
  <2>2. <<Subject>> \in Held
    BY <2>1 DEF Held
  <2>3. kept' \in {<< >>, <<Subject>>, kept}
    BY <1>14 DEF SendFails
  <2>4. kept' \in Held
    BY <1>2, <2>2, <2>3 DEF FlowTypes
  <2>5. QED
    BY <1>14, <2>4 DEF SendFails, FlowTypes, Types
<1>15. ASSUME FileAlert PROVE Types
  <2>1. Subject \in Alert
    BY <1>15, HandTypes DEF FileAlert
  <2>2. Append(filed, Subject) \in Seq(Alert)
    BY <2>1 DEF FlowTypes
  <2>3. QED
    BY <1>15, <2>2 DEF FileAlert, FlowTypes, Types
<1>16. ASSUME ReadAlerts PROVE Types
  BY <1>2, <1>16 DEF ReadAlerts, FlowTypes, Types
<1>17. ASSUME FeedEngine PROVE Types
  <2>1. pending \in Seq(Alert) /\ pending # << >>
    BY <1>17 DEF FeedEngine, FlowTypes
  <2>2. Head(pending) \in Alert /\ Tail(pending) \in Seq(Alert)
    BY <2>1, HeadAndTail
  <2>3. Append(fed, Head(pending)) \in Seq(Alert)
    BY <2>2 DEF FlowTypes
  <2>4. QED
    BY <1>17, <2>2, <2>3 DEF FeedEngine, FlowTypes, Types
<1>18. ASSUME UNCHANGED vars PROVE Types
  BY <1>3, <1>18 DEF vars
<1>19. Types
  BY <1>4, <1>5, <1>6, <1>7, <1>9, <1>11, <1>12, <1>13, <1>14, <1>15, <1>16, <1>17, <1>18, <1>8
  DEF Next, Listeners, RuledLoop, CorrelatedLoop
<1>20. QED
  BY <1>1, <1>19 DEF FlowTypes, Types

\* Where an end takes away what was in the buffer, in hand or on its way, the rest keeps its order.
LEMMA CutsKeepOrder ==
  ASSUME TypeInv, FlowTypes, OrderInv, UNCHANGED <<sent, filed, fed, emitted>>,
         \/ kept' = kept /\ InHand' = InHand
         \/ kept' = kept /\ InHand' = << >>
         \/ kept' = << >> /\ InHand' = << >>,
         ToFile' = ToFile \/ ToFile' = << >>,
         alerts' = alerts \/ alerts' = << >>,
         pending' = pending \/ pending' = << >>
  PROVE  OrderInv'
<1>1. /\ InHand \in Seq(Alert) /\ ToFile \in Seq(Alert) /\ << >> \in Seq(Alert)
      /\ kept \in Seq(Alert) /\ alerts \in Seq(Alert) /\ pending \in Seq(Alert)
      /\ sent \in Seq(Alert) /\ filed \in Seq(Alert) /\ fed \in Seq(Alert)
  BY HandTypes, HeldTypes DEF FlowTypes
<1>2. Produced' = Produced
  BY DEF Produced
<1>3. Follows((sent \o kept)  \o InHand, Produced) /\ sent \o kept \in Seq(Alert)
  BY <1>1, Joined DEF OrderInv
<1>4. Follows(sent \o kept, Produced)
  BY <1>1, <1>3, BeginningFollows
<1>5. Follows(sent, Produced)
  BY <1>1, <1>4, BeginningFollows
<1>6. Follows((sent \o kept') \o InHand', Produced)
  <2>1. (sent \o kept) \o << >> = sent \o kept /\ (sent \o << >>) \o << >> = sent
    BY <1>1, <1>3, Joined
  <2>2. QED
    BY <1>3, <1>4, <1>5, <2>1
<1>7. Follows(fed \o (pending \o alerts), sent)
  BY DEF OrderInv
<1>8. Follows(fed \o pending, sent) /\ Follows(fed \o alerts, sent) /\ Follows(fed, sent)
  <2>1. Follows(fed \o alerts, sent)
    BY <1>1, <1>7, RestFollows
  <2>2. Follows(fed, sent)
    BY <1>1, <2>1, BeginningFollows
  <2>3. Follows(fed \o pending, sent)
    BY <1>1, <1>7, FrontFollows
  <2>4. QED
    BY <2>1, <2>2, <2>3
<1>9. Follows(fed \o (pending' \o alerts'), sent)
  <2>1. /\ pending \o << >> = pending /\ << >> \o alerts = alerts /\ << >> \o << >> = << >>
        /\ fed \o << >> = fed
    BY <1>1, Joined
  <2>2. QED
    BY <1>7, <1>8, <2>1
<1>10. Follows(filed \o ToFile', sent)
  <2>1. Follows(filed \o ToFile, sent)
    BY DEF OrderInv
  <2>2. Follows(filed, sent) /\ filed \o << >> = filed
    BY <1>1, <2>1, BeginningFollows, Joined
  <2>3. QED
    BY <2>1, <2>2
<1>11. QED
  BY <1>2, <1>6, <1>9, <1>10 DEF OrderInv

\* An alert enters the second FIFO behind all that were sent before it.
LEMMA EntersFifo ==
  ASSUME TypeInv, FlowTypes, OrderInv, NEW x \in Alert, Follows(Append(sent, x), Produced)
  PROVE  /\ Follows(fed \o (pending \o Append(alerts, x)), Append(sent, x))
         /\ Follows(filed \o ToFile, Append(sent, x))
         /\ Follows(Append(filed, x), Append(sent, x)) \/ stage = "file"
<1>1. /\ ToFile \in Seq(Alert) /\ alerts \in Seq(Alert) /\ pending \in Seq(Alert)
      /\ sent \in Seq(Alert) /\ filed \in Seq(Alert) /\ fed \in Seq(Alert)
  BY HandTypes DEF FlowTypes
<1>2. Produced \in Seq(Alert)
  BY ProducedType
<1>3. ~ Within(x, sent)
  BY <1>1, <1>2, LastIsNew
<1>4. Follows(fed \o (pending \o alerts), sent) /\ Follows(filed \o ToFile, sent)
  BY DEF OrderInv
<1>5. /\ pending \o alerts \in Seq(Alert) /\ fed \o (pending \o alerts) \in Seq(Alert)
      /\ filed \o ToFile \in Seq(Alert)
  BY <1>1, Joined
<1>6. Follows(fed \o (pending \o Append(alerts, x)), Append(sent, x))
  BY <1>1, <1>3, <1>4, BackFollows
<1>7. Follows(filed \o ToFile, Append(sent, x))
  BY <1>1, <1>3, <1>4, <1>5, FollowsGrown
<1>8. ASSUME stage # "file" PROVE Follows(Append(filed, x), Append(sent, x))
  <2>1. filed \o ToFile = filed
    BY <1>1, <1>8, Joined DEF ToFile
  <2>2. QED
    BY <1>1, <1>3, <1>4, <2>1, FollowsBoth
<1>9. QED
  BY <1>6, <1>7, <1>8

LEMMA BufferEntersFifo ==
  ASSUME TypeInv, FlowTypes, OrderInv
  PROVE  /\ Follows(sent \o kept, Produced) /\ sent \o kept \in Seq(Alert)
         /\ Follows(fed \o (pending \o (alerts \o kept)), sent \o kept)
         /\ Follows(fed \o pending, sent \o kept)
         /\ Follows(filed \o ToFile, sent \o kept)
<1>1. /\ InHand \in Seq(Alert) /\ kept \in Seq(Alert) /\ alerts \in Seq(Alert)
      /\ pending \in Seq(Alert) /\ sent \in Seq(Alert) /\ fed \in Seq(Alert)
      /\ alerts \o kept \in Seq(Alert)
  <2>1. /\ InHand \in Seq(Alert) /\ kept \in Seq(Alert) /\ alerts \in Seq(Alert)
        /\ pending \in Seq(Alert) /\ sent \in Seq(Alert) /\ fed \in Seq(Alert)
    BY HandTypes, HeldTypes DEF FlowTypes
  <2>2. QED
    BY <2>1, Joined
<1>2. sent \o kept \in Seq(Alert)
  BY <1>1, Joined
<1>3. Follows(sent \o kept, Produced)
  BY <1>1, <1>2, BeginningFollows DEF OrderInv
<1>4. /\ Follows(fed \o (pending \o (alerts \o kept)), sent \o kept)
      /\ Follows(filed \o ToFile, sent \o kept)
  <2>1. CASE kept = << >>
    <3>1. sent \o kept = sent /\ alerts \o kept = alerts
      BY <1>1, <2>1, Joined
    <3>2. QED
      BY <3>1 DEF OrderInv
  <2>2. CASE kept # << >>
    <3>1. PICK x \in Alert : kept = <<x>>
      BY <2>2 DEF FlowTypes, Held
    <3>2. sent \o kept = Append(sent, x) /\ alerts \o kept = Append(alerts, x)
      BY <1>1, <3>1, Appended
    <3>3. Follows(Append(sent, x), Produced)
      BY <1>3, <3>2
    <3>4. QED
      BY <3>2, <3>3, EntersFifo
  <2>3. QED
    BY <2>1, <2>2
<1>5. Follows(fed \o pending, sent \o kept)
  BY <1>1, <1>4, FrontFollows
<1>6. QED
  BY <1>2, <1>3, <1>4, <1>5

LEMMA EofKeepsOrder ==
  ASSUME TypeInv, FlowTypes, OrderInv, RuledEof
  PROVE  OrderInv'
<1> USE DEF normalized, ruled, outcome
<1>1. /\ kept' = << >>
      /\ UNCHANGED <<todo, current, stage, pending, fed, filed, emitted>>
  BY DEF RuledEof
<1>2. InHand = << >> /\ ToFile = << >> /\ InHand' = << >> /\ ToFile' = << >>
  <2>1. todo = << >>
    BY DEF RuledEof, Resting
  <2>2. stage = "check"
    BY <2>1 DEF TypeInv
  <2>3. QED
    BY <1>1, <2>2 DEF InHand, ToFile
<1>3. CASE kept # << >> /\ AlertsReader(unit)
  <2>1. sent' = sent \o kept /\ (alerts' = alerts \o kept \/ alerts' = << >>)
    BY <1>3 DEF RuledEof, Closed
  <2>2. Produced' = Produced
    BY <1>1 DEF Produced
  <2>3. /\ Follows(sent \o kept, Produced) /\ sent \o kept \in Seq(Alert)
        /\ Follows(fed \o (pending \o (alerts \o kept)), sent \o kept)
        /\ Follows(fed \o pending, sent \o kept)
        /\ Follows(filed \o ToFile, sent \o kept)
    BY BufferEntersFifo
  <2>4. ((sent \o kept) \o << >>) \o << >> = sent \o kept
    BY <2>3, Joined
  <2>5. pending \o << >> = pending
    BY Joined DEF FlowTypes
  <2>6. Follows((sent' \o kept') \o InHand', Produced')
    BY <1>1, <1>2, <2>1, <2>2, <2>3, <2>4
  <2>7. Follows(fed' \o (pending' \o alerts'), sent')
    BY <1>1, <2>1, <2>3, <2>5
  <2>8. Follows(filed' \o ToFile', sent')
    BY <1>1, <1>2, <2>1, <2>3
  <2>9. QED
    BY <2>6, <2>7, <2>8 DEF OrderInv
<1>4. CASE ~ (kept # << >> /\ AlertsReader(unit))
  <2>1. sent' = sent /\ (alerts' = alerts \/ alerts' = << >>)
    BY <1>4 DEF RuledEof, Closed
  <2>2. QED
    BY <1>1, <1>2, <2>1, CutsKeepOrder
<1>5. QED
  BY <1>3, <1>4

LEMMA FlushKeepsOrder ==
  ASSUME TypeInv, FlowTypes, OrderInv, Flush
  PROVE  OrderInv'
<1> USE DEF normalized, ruled, outcome
<1>1. /\ kept' = << >> /\ sent' = sent \o kept /\ alerts' = alerts \o kept
      /\ UNCHANGED <<todo, current, stage, pending, fed, filed, emitted>>
  BY DEF Flush
<1>2. Produced' = Produced /\ InHand' = InHand /\ ToFile' = ToFile
  BY <1>1 DEF Produced, InHand, ToFile, Subject
<1>3. (sent \o kept) \o << >> = sent \o kept
  BY BufferEntersFifo, Joined
<1>4. Follows((sent' \o kept') \o InHand', Produced')
  BY <1>1, <1>2, <1>3 DEF OrderInv
<1>5. /\ Follows(fed' \o (pending' \o alerts'), sent')
      /\ Follows(filed' \o ToFile', sent')
  BY <1>1, <1>2, BufferEntersFifo
<1>6. QED
  BY <1>4, <1>5 DEF OrderInv

LEMMA SendKeepsOrder ==
  ASSUME TypeInv, FlowTypes, OrderInv, Send
  PROVE  OrderInv'
<1> USE DEF normalized, ruled, outcome
<1> DEFINE x == Subject
<1>1. /\ stage = "send" /\ kept = << >> /\ kept' = << >> /\ stage' = "file"
      /\ alerts' = Append(alerts, x) /\ sent' = Append(sent, x)
      /\ UNCHANGED <<todo, current, pending, fed, filed, emitted>>
  BY DEF Send
<1>2. x \in Alert /\ sent \in Seq(Alert) /\ filed \in Seq(Alert)
  BY <1>1, HandTypes DEF FlowTypes
<1>3. /\ InHand = <<x>> /\ InHand' = << >> /\ ToFile = << >> /\ ToFile' = <<x>>
      /\ Produced' = Produced
  BY <1>1 DEF InHand, ToFile, Subject, Produced
<1> HIDE DEF x
<1>4. sent \o << >> = sent /\ sent \o <<x>> = Append(sent, x) /\ filed \o <<x>> = Append(filed, x)
  BY <1>2, Joined, Appended
<1>5. Append(sent, x) \in Seq(Alert)
  BY <1>2, Appended
<1>6. (Append(sent, x) \o << >>) \o << >> = Append(sent, x)
  BY <1>5, Joined
<1>7. Follows(Append(sent, x), Produced)
  BY <1>1, <1>3, <1>4 DEF OrderInv
<1>8. /\ Follows(fed \o (pending \o Append(alerts, x)), Append(sent, x))
      /\ Follows(Append(filed, x), Append(sent, x))
  BY <1>1, <1>2, <1>7, EntersFifo
<1>9. Follows((sent' \o kept') \o InHand', Produced')
  BY <1>1, <1>3, <1>6, <1>7
<1>10. Follows(fed' \o (pending' \o alerts'), sent') /\ Follows(filed' \o ToFile', sent')
  BY <1>1, <1>3, <1>4, <1>8
<1>11. QED
  BY <1>9, <1>10 DEF OrderInv

LEMMA SendFailsKeepsOrder ==
  ASSUME TypeInv, FlowTypes, OrderInv, SendFails
  PROVE  OrderInv'
<1> USE DEF normalized, ruled, outcome
<1> DEFINE x == Subject
<1>1. /\ stage = "send" /\ stage' = "check"
      /\ kept' = kept \/ kept' = << >> \/ (kept = << >> /\ kept' = <<x>>)
      /\ UNCHANGED <<alerts, pending, sent, fed, filed, emitted>>
  BY DEF SendFails
<1>2. /\ InHand = <<x>> /\ InHand' = << >> /\ ToFile = << >> /\ ToFile' = << >>
      /\ Produced' = Produced
  BY <1>1 DEF InHand, ToFile, Produced
<1>3. CASE kept' = kept \/ kept' = << >>
  BY <1>1, <1>2, <1>3, CutsKeepOrder
<1>4. CASE kept = << >> /\ kept' = <<x>>
  <2>1. x \in Alert /\ sent \in Seq(Alert)
    BY <1>1, HandTypes DEF FlowTypes
  <2> HIDE DEF x
  <2>2. sent \o << >> = sent /\ sent \o <<x>> \in Seq(Alert)
    BY <2>1, Joined, Appended
  <2>3. (sent \o <<x>>) \o << >> = sent \o <<x>>
    BY <2>2, Joined
  <2>4. Follows(sent \o <<x>>, Produced)
    BY <1>2, <1>4, <2>2 DEF OrderInv
  <2>5. Follows((sent' \o kept') \o InHand', Produced')
    BY <1>1, <1>2, <1>4, <2>3, <2>4
  <2>6. Follows(fed' \o (pending' \o alerts'), sent') /\ Follows(filed' \o ToFile', sent')
    BY <1>1, <1>2 DEF OrderInv
  <2>7. QED
    BY <2>5, <2>6 DEF OrderInv
<1>5. QED
  BY <1>1, <1>3, <1>4

LEMMA FileKeepsOrder ==
  ASSUME TypeInv, FlowTypes, OrderInv, FileAlert
  PROVE  OrderInv'
<1> USE DEF normalized, ruled, outcome
<1> DEFINE x == Subject
<1>1. /\ stage = "file" /\ stage' = "check"
      /\ filed' = Append(filed, x) \/ filed' = filed
      /\ UNCHANGED <<kept, alerts, pending, sent, fed, emitted>>
  BY DEF FileAlert
<1>2. /\ InHand = << >> /\ InHand' = << >> /\ ToFile = <<x>> /\ ToFile' = << >>
      /\ Produced' = Produced
  BY <1>1 DEF InHand, ToFile, Produced
<1>3. CASE filed' = filed
  BY <1>1, <1>2, <1>3, CutsKeepOrder
<1>4. CASE filed' = Append(filed, x)
  <2>1. x \in Alert /\ filed \in Seq(Alert)
    BY <1>1, HandTypes DEF FlowTypes
  <2> HIDE DEF x
  <2>2. filed \o <<x>> = Append(filed, x) /\ Append(filed, x) \in Seq(Alert)
    BY <2>1, Appended
  <2>3. Append(filed, x) \o << >> = Append(filed, x)
    BY <2>2, Joined
  <2>4. Follows(filed' \o ToFile', sent')
    BY <1>1, <1>2, <1>4, <2>2, <2>3 DEF OrderInv
  <2>5. QED
    BY <1>1, <1>2, <2>4 DEF OrderInv
<1>5. QED
  BY <1>1, <1>3, <1>4

\* Only reading an alert and feeding it to the engine remain.
LEMMA CorrelatedKeepsOrder ==
  ASSUME TypeInv, FlowTypes, OrderInv, ReadAlerts \/ FeedEngine
  PROVE  OrderInv'
<1> USE DEF normalized, ruled, outcome
<1>1. UNCHANGED <<todo, current, stage, kept, sent, filed, emitted>>
  BY DEF ReadAlerts, FeedEngine
<1>2. Produced' = Produced /\ InHand' = InHand /\ ToFile' = ToFile
  BY <1>1 DEF Produced, InHand, ToFile, Subject
<1>3. alerts \in Seq(Alert) /\ pending \in Seq(Alert) /\ fed \in Seq(Alert)
  BY DEF FlowTypes
<1>4. CASE ReadAlerts
  <2>1. pending = << >> /\ pending' = alerts /\ alerts' = << >> /\ fed' = fed
    BY <1>4 DEF ReadAlerts
  <2>2. << >> \o alerts = alerts /\ alerts \o << >> = alerts
    BY <1>3, Joined
  <2>3. Follows(fed' \o (pending' \o alerts'), sent')
    BY <1>1, <2>1, <2>2 DEF OrderInv
  <2>4. QED
    BY <1>1, <1>2, <2>3 DEF OrderInv
<1>5. CASE FeedEngine
  <2>1. /\ pending # << >> /\ fed' = Append(fed, Head(pending)) /\ pending' = Tail(pending)
        /\ alerts' = alerts
    BY <1>5 DEF FeedEngine
  <2>2. Follows(Append(fed, Head(pending)) \o (Tail(pending) \o alerts), sent)
    BY <1>3, <2>1, HeadMoves DEF OrderInv
  <2>3. Follows(fed' \o (pending' \o alerts'), sent')
    BY <1>1, <2>1, <2>2
  <2>4. QED
    BY <1>1, <1>2, <2>3 DEF OrderInv
<1>6. QED
  BY <1>4, <1>5

\* What ruled brings is new, and comes behind all that it brought before.
LEMMA EmitKeepsOrder ==
  ASSUME TypeInv, FlowTypes, RulesInv, OrderInv, NEW now \in Time, Emit(now)
  PROVE  OrderInv'
<1> USE DEF normalized, ruled, outcome
<1> DEFINE x == Subject
<1>1. /\ stage = "check" /\ stage' = "send"
      /\ UNCHANGED <<todo, current, kept, alerts, pending, sent, fed, filed>>
  BY DEF Emit
<1>2. /\ InHand = << >> /\ InHand' = <<x>> /\ ToFile = << >> /\ ToFile' = << >>
  BY <1>1 DEF InHand, ToFile, Subject
<1>3. /\ todo # << >> /\ x \in Alert /\ x = <<current, Head(todo)>>
      /\ Produced \in Seq(Alert) /\ Produced' = Append(Produced, x)
  BY EmitAppends
<1>4. ~ Within(x, Produced)
  <2>1. 1 \in DOMAIN todo /\ todo[1] = Head(todo)
    BY <1>3, HeadAndTail DEF TypeInv
  <2>2. QED
    BY <1>1, <1>3, <2>1 DEF RulesInv
<1> HIDE DEF x
<1>5. sent \o kept \in Seq(Alert)
  <2>1. sent \in Seq(Alert) /\ kept \in Seq(Alert)
    BY HeldTypes DEF FlowTypes
  <2>2. QED
    BY <2>1, Joined
<1>6. (sent \o kept) \o << >> = sent \o kept /\ (sent \o kept) \o <<x>> = Append(sent \o kept, x)
  BY <1>3, <1>5, Joined, Appended
<1>7. Follows(sent \o kept, Produced)
  BY <1>2, <1>6 DEF OrderInv
<1>8. Follows(Append(sent \o kept, x), Append(Produced, x))
  BY <1>3, <1>4, <1>5, <1>7, FollowsBoth
<1>9. Follows((sent' \o kept') \o InHand', Produced')
  BY <1>1, <1>2, <1>3, <1>6, <1>8
<1>10. QED
  BY <1>1, <1>2, <1>9 DEF OrderInv

LEMMA OrderKept ==
  ASSUME TypeInv, FlowTypes, RulesInv, OrderInv, [Next]_vars
  PROVE  OrderInv'
<1> USE DEF normalized, ruled, outcome
<1>1. ASSUME UNCHANGED <<todo, current, stage, kept, alerts, pending, sent, fed, filed, emitted>>
      PROVE  OrderInv'
  BY <1>1 DEF OrderInv, InHand, ToFile, Subject, Produced
\* The ends of the other units.
<1>2. ASSUME UNCHANGED <<todo, current, stage, kept, sent, fed, filed, emitted>>,
             alerts' = alerts \/ alerts' = << >>, pending' = pending \/ pending' = << >>
      PROVE  OrderInv'
  <2>1. InHand' = InHand /\ ToFile' = ToFile
    BY <1>2 DEF InHand, ToFile, Subject
  <2>2. QED
    BY <1>2, <2>1, CutsKeepOrder
<1>3. ASSUME NEW u \in Unit, Start(u) \/ Open(u) PROVE OrderInv'
  BY <1>1, <1>3 DEF Start, Open
<1>4. ASSUME NEW u \in Unit, Kill(u) PROVE OrderInv'
  <2>1. /\ alerts' = alerts \/ alerts' = << >>
        /\ pending' = pending \/ pending' = << >>
        /\ UNCHANGED <<sent, fed, filed, emitted>>
    BY <1>4 DEF Kill, Closed
  <2>2. CASE u = "ruled"
    <3>1. kept' = << >> /\ InHand' = << >> /\ ToFile' = << >>
      BY <1>4, <2>2 DEF Kill, InHand, ToFile
    <3>2. QED
      BY <2>1, <3>1, CutsKeepOrder
  <2>3. CASE u # "ruled"
    <3>1. UNCHANGED <<todo, current, stage, kept>>
      BY <1>4, <2>3 DEF Kill
    <3>2. QED
      BY <1>2, <2>1, <3>1
  <2>4. QED
    BY <2>2, <2>3
<1>5. ASSUME NEW t \in Thread, Receive(t) \/ WritePipe(t) \/ BrokenPipe(t) \/ Store(t)
      PROVE  OrderInv'
  <2>1. CASE BrokenPipe(t)
    BY <1>2, <2>1 DEF BrokenPipe, Closed
  <2>2. CASE Receive(t) \/ WritePipe(t) \/ Store(t)
    BY <1>1, <2>2 DEF Receive, WritePipe, Store
  <2>3. QED
    BY <1>5, <2>1, <2>2
<1>6. CASE ReadEvents
  BY <1>1, <1>6 DEF ReadEvents
<1>7. CASE RuledEof
  BY <1>7, EofKeepsOrder
<1>8. CASE Evaluate
  <2>1. /\ todo = << >> /\ stage' = "check"
        /\ UNCHANGED <<kept, alerts, pending, sent, fed, filed, emitted>>
    BY <1>8 DEF Evaluate
  <2>2. InHand' = << >> /\ ToFile' = << >>
    BY <2>1 DEF InHand, ToFile
  <2>3. QED
    BY <2>1, <2>2, CutsKeepOrder
<1>9. ASSUME NEW now \in 0..MaxTime, DropRepeat(now) PROVE OrderInv'
  <2>1. /\ stage = "check" /\ stage' = "check"
        /\ UNCHANGED <<kept, alerts, pending, sent, fed, filed, emitted>>
    BY <1>9 DEF DropRepeat
  <2>2. InHand' = << >> /\ ToFile' = << >>
    BY <2>1 DEF InHand, ToFile
  <2>3. QED
    BY <2>1, <2>2, CutsKeepOrder
<1>10. ASSUME NEW now \in 0..MaxTime, Emit(now) PROVE OrderInv'
  BY <1>10, EmitKeepsOrder DEF Time
<1>11. CASE Flush \/ Send
  BY <1>11, FlushKeepsOrder, SendKeepsOrder
<1>12. CASE SendFails \/ FileAlert
  BY <1>12, SendFailsKeepsOrder, FileKeepsOrder
<1>13. CASE ReadAlerts \/ FeedEngine
  BY <1>13, CorrelatedKeepsOrder
<1>14. CASE CorrelatedEof
  BY <1>2, <1>14 DEF CorrelatedEof, Closed
<1>15. CASE UNCHANGED vars
  BY <1>1, <1>15 DEF vars
<1>16. QED
  BY <1>3, <1>4, <1>5, <1>6, <1>7, <1>8, <1>9, <1>10, <1>11, <1>12, <1>13, <1>14, <1>15
  DEF Next, Listeners, RuledLoop, CorrelatedLoop

LEMMA InitFlow == Init => FlowTypes /\ EventsInv /\ RulesInv /\ OrderInv
<1> SUFFICES ASSUME Init PROVE FlowTypes /\ EventsInv /\ RulesInv /\ OrderInv
  OBVIOUS
<1>1. << >> \in Seq(Alert) /\ << >> \o << >> = << >>
  OBVIOUS
<1>2. FlowTypes
  BY <1>1, HeldTypes DEF Init, FlowTypes
<1>3. EventsInv
  BY PipelineAssumption DEF Init, EventsInv, NoRepeats, Unwritten
<1>4. RulesInv
  BY DEF Init, RulesInv, NoRepeats
<1>5. Follows(<< >>, Produced) /\ Follows(<< >>, << >>)
  BY DEF Follows
<1>6. OrderInv
  <2>1. InHand = << >> /\ ToFile = << >>
    BY DEF Init, InHand, ToFile
  <2>2. QED
    BY <1>1, <1>5, <2>1 DEF Init, OrderInv
<1>7. QED
  BY <1>2, <1>3, <1>4, <1>6

\* For any number of threads, rules and lines in a FIFO, and whatever is killed, restarted or
\* fails to be written: alerts are sent in the order in which ruled found them, none of them
\* twice; the engine gets them, and data/alerts/ keeps them, in the order in which they were
\* sent, and neither has one that was not.  (output.rs AlertRouter::emit, the FIFOs.)
THEOREM AlertsInOrder == Spec => []SinksFollowDetection
<1>1. Init => FlowInv
  BY InitFlow DEF FlowInv
<1>2. DedupInv /\ FlowInv /\ [Next]_vars => FlowInv'
  BY FlowTypesKept, EventsKept, RulesKept, OrderKept DEF DedupInv, FlowInv
<1>3. DedupInv /\ FlowInv => SinksFollowDetection
  <2> SUFFICES ASSUME DedupInv, FlowInv PROVE SinksFollowDetection
    OBVIOUS
  <2>1. /\ InHand \in Seq(Alert) /\ ToFile \in Seq(Alert) /\ filed \in Seq(Alert)
        /\ sent \in Seq(Alert) /\ kept \in Seq(Alert)
        /\ fed \in Seq(Alert) /\ pending \in Seq(Alert)
    BY HandTypes, HeldTypes DEF DedupInv, FlowInv, FlowTypes
  <2>2. Follows(sent \o kept, Produced)
    BY BufferEntersFifo DEF DedupInv, FlowInv
  <2>3. Follows(sent, Produced)
    BY <2>1, <2>2, BeginningFollows
  <2>4. Follows(fed, sent)
    <3>1. alerts \in Seq(Alert)
      BY DEF FlowInv, FlowTypes
    <3>2. pending \o alerts \in Seq(Alert)
      BY <2>1, <3>1, Joined
    <3>3. QED
      BY <2>1, <3>2, BeginningFollows DEF FlowInv, OrderInv
  <2>5. Follows(filed, sent)
    BY <2>1, BeginningFollows DEF FlowInv, OrderInv
  <2>6. QED
    BY <2>3, <2>4, <2>5 DEF SinksFollowDetection, Produced
<1>4. QED
  BY <1>1, <1>2, <1>3, DedupHolds, PTL DEF Spec
===============================================================================
