----------------------------- MODULE AckLog_proofs -----------------------------
(***************************************************************************)
(* The watermarks of siemctl hide no new alert, and go on hiding what was  *)
(* acknowledged, for any number of rules, analysts, acknowledgements and   *)
(* retention runs.                                                         *)
(***************************************************************************)
EXTENDS AckLog, FiniteSetTheorems, SequenceTheorems, WellFoundedInduction, TLAPS

FiredRecord == [rule : Rule \cup {NoRule}, ts : Nat, epoch : Nat]
GivenRecord == [rule : Rule, ts : Nat, epoch : Nat, upto : Nat]

\* What the clock does to acknowledgements and alerts.  The last conjunct carries the
\* theorem: an alert that fires after an acknowledgement is not older than it, but when
\* the clock was set back in between.  Nothing is said of the log: it may hold any of the
\* acknowledgements, in any order and state.
ClockInv ==
    /\ now \in Nat /\ epoch \in Nat
    /\ alerts \in Seq(FiredRecord)
    /\ acks \in Seq(GivenRecord)
    /\ \A i \in DOMAIN alerts :
            alerts[i].epoch <= epoch /\ (alerts[i].epoch = epoch => alerts[i].ts <= now)
    /\ \A k \in DOMAIN acks :
            acks[k].epoch <= epoch /\ (acks[k].epoch = epoch => acks[k].ts <= now)
    /\ \A k \in DOMAIN acks : \A i \in DOMAIN alerts :
            acks[k].upto < i =>
                \/ acks[k].epoch < alerts[i].epoch
                \/ acks[k].epoch = alerts[i].epoch /\ acks[k].ts <= alerts[i].ts

LEMMA Elements ==
  ASSUME ClockInv
  PROVE  /\ \A i \in DOMAIN alerts : i \in Nat /\ alerts[i].ts \in Nat /\ alerts[i].epoch \in Nat
         /\ \A k \in DOMAIN acks : /\ acks[k].ts \in Nat /\ acks[k].upto \in Nat
                                  /\ acks[k].epoch \in Nat
<1>1. alerts \in Seq(FiredRecord) /\ acks \in Seq(GivenRecord)
  BY DEF ClockInv
<1>2. /\ \A f \in FiredRecord : f.ts \in Nat /\ f.epoch \in Nat
      /\ \A g \in GivenRecord : g.ts \in Nat /\ g.upto \in Nat /\ g.epoch \in Nat
  BY DEF FiredRecord, GivenRecord
<1>3. /\ \A i \in DOMAIN alerts : i \in Nat /\ alerts[i] \in FiredRecord
      /\ \A k \in DOMAIN acks : acks[k] \in GivenRecord
  BY <1>1
<1>4. QED
  BY <1>2, <1>3

\* An alert that fires is as young as the clock.
LEMMA FireKeepsClock ==
  ASSUME ClockInv, NEW r \in Rule \cup {NoRule}, Fire(r)
  PROVE  ClockInv'
<1> DEFINE a == [rule |-> r, ts |-> now, epoch |-> epoch]
<1>1. alerts' = Append(alerts, a) /\ acks' = acks /\ now' = now /\ epoch' = epoch
  BY DEF Fire, clock
<1>2. a \in FiredRecord
  BY DEF ClockInv, FiredRecord
<1>4. a.ts = now /\ a.epoch = epoch
  OBVIOUS
<1> HIDE DEF a
<1>3. /\ alerts' \in Seq(FiredRecord)
      /\ DOMAIN alerts' = DOMAIN alerts \cup {Len(alerts) + 1}
      /\ \A i \in DOMAIN alerts' : IF i = Len(alerts) + 1 THEN alerts'[i] = a
                                   ELSE i \in DOMAIN alerts /\ alerts'[i] = alerts[i]
  BY <1>1, <1>2 DEF ClockInv
<1>5. \A i \in DOMAIN alerts' :
          alerts'[i].epoch <= epoch /\ (alerts'[i].epoch = epoch => alerts'[i].ts <= now)
  BY <1>3, <1>4 DEF ClockInv
<1>6. ASSUME NEW k \in DOMAIN acks, NEW i \in DOMAIN alerts', acks[k].upto < i
      PROVE  \/ acks[k].epoch < alerts'[i].epoch
             \/ acks[k].epoch = alerts'[i].epoch /\ acks[k].ts <= alerts'[i].ts
  <2>1. acks[k].epoch \in Nat /\ acks[k].ts \in Nat
    BY Elements
  <2>2. CASE i = Len(alerts) + 1
    BY <1>3, <1>4, <2>1, <2>2 DEF ClockInv
  <2>3. CASE i # Len(alerts) + 1
    BY <1>3, <1>6, <2>3 DEF ClockInv
  <2>4. QED
    BY <2>2, <2>3
<1>7. QED
  BY <1>1, <1>3, <1>5, <1>6 DEF ClockInv

\* An acknowledgement covers the alerts that have fired.
LEMMA AckKeepsClock ==
  ASSUME ClockInv, NEW p \in Analyst, NEW r \in Rule, AckBegin(p, r)
  PROVE  ClockInv'
<1> DEFINE k == [rule |-> r, ts |-> now, epoch |-> epoch, upto |-> Len(alerts)]
<1>1. acks' = Append(acks, k) /\ alerts' = alerts /\ now' = now /\ epoch' = epoch
  BY DEF AckBegin, clock
<1>2. k \in GivenRecord
  BY DEF ClockInv, GivenRecord
<1>4. k.ts = now /\ k.epoch = epoch /\ k.upto = Len(alerts)
  OBVIOUS
<1> HIDE DEF k
<1>3. /\ acks' \in Seq(GivenRecord)
      /\ \A i \in DOMAIN acks' : IF i = Len(acks) + 1 THEN acks'[i] = k
                                 ELSE i \in DOMAIN acks /\ acks'[i] = acks[i]
  BY SMTT(30), <1>1, <1>2 DEF ClockInv
<1>5. ASSUME NEW i \in DOMAIN acks'
      PROVE  acks'[i].epoch <= epoch /\ (acks'[i].epoch = epoch => acks'[i].ts <= now)
  <2>1. CASE i = Len(acks) + 1
    BY <1>3, <1>4, <2>1 DEF ClockInv
  <2>2. CASE i # Len(acks) + 1
    <3>1. i \in DOMAIN acks /\ acks'[i] = acks[i]
      BY <1>3, <2>2
    <3>2. QED
      BY <3>1 DEF ClockInv
  <2>3. QED
    BY <2>1, <2>2
<1>6. \A j \in DOMAIN acks' : \A i \in DOMAIN alerts :
          acks'[j].upto < i =>
              \/ acks'[j].epoch < alerts[i].epoch
              \/ acks'[j].epoch = alerts[i].epoch /\ acks'[j].ts <= alerts[i].ts
  <2> SUFFICES ASSUME NEW j \in DOMAIN acks', NEW i \in DOMAIN alerts, acks'[j].upto < i
               PROVE  \/ acks'[j].epoch < alerts[i].epoch
                      \/ acks'[j].epoch = alerts[i].epoch /\ acks'[j].ts <= alerts[i].ts
    OBVIOUS
  <2>1. i \in 1..Len(alerts) /\ Len(alerts) \in Nat
    BY DEF ClockInv
  <2>2. CASE j = Len(acks) + 1
    BY <1>3, <1>4, <2>1, <2>2
  <2>3. CASE j # Len(acks) + 1
    <3>1. j \in DOMAIN acks /\ acks'[j] = acks[j]
      BY <1>3, <2>3
    <3>2. QED
      BY <3>1 DEF ClockInv
  <2>4. QED
    BY <2>2, <2>3
<1>7. QED
  BY <1>1, <1>3, <1>5, <1>6 DEF ClockInv

LEMMA ClockKept ==
  ASSUME ClockInv, [Next]_vars
  PROVE  ClockInv'
<1>1. ASSUME NEW r \in Rule \cup {NoRule}, Fire(r) PROVE ClockInv'
  BY <1>1, FireKeepsClock
<1>2. ASSUME NEW p \in Analyst, NEW r \in Rule, AckBegin(p, r) PROVE ClockInv'
  BY <1>2, AckKeepsClock
<1>3. CASE Tick \/ SetBack
  <2>1. alerts' = alerts /\ acks' = acks /\ now' \in Nat /\ epoch' \in Nat
    BY <1>3 DEF Tick, SetBack, ClockInv
  <2>2. \/ epoch' = epoch /\ now <= now'
        \/ epoch < epoch'
    BY <1>3 DEF Tick, SetBack, ClockInv
  <2>3. ASSUME NEW e \in Nat, NEW t \in Nat, e <= epoch, e = epoch => t <= now
        PROVE  e <= epoch' /\ (e = epoch' => t <= now')
    BY <2>1, <2>2, <2>3 DEF ClockInv
  <2>4. \A i \in DOMAIN alerts :
            alerts[i].epoch <= epoch' /\ (alerts[i].epoch = epoch' => alerts[i].ts <= now')
    BY <2>3, Elements DEF ClockInv
  <2>5. \A k \in DOMAIN acks :
            acks[k].epoch <= epoch' /\ (acks[k].epoch = epoch' => acks[k].ts <= now')
    BY <2>3, Elements DEF ClockInv
  <2>6. QED
    BY <2>1, <2>4, <2>5 DEF ClockInv
<1>4. ASSUME UNCHANGED <<clock, alerts, acks>> PROVE ClockInv'
  BY <1>4 DEF ClockInv, clock
<1>5. CASE UNCHANGED vars
  BY <1>4, <1>5 DEF vars
<1>6. ASSUME NEW p \in Analyst, AckOpen(p) \/ AckWrite(p) \/ AckKill(p) PROVE ClockInv'
  BY <1>4, <1>6 DEF AckOpen, AckWrite, AckKill
<1>7. ASSUME NEW days \in Days, Collect(days) PROVE ClockInv'
  BY <1>4, <1>7 DEF Collect
<1>8. CASE Delete \/ CompactRead \/ CompactRemove \/ CompactTruncate \/ CompactWrite \/ Kill
  BY <1>4, <1>8 DEF Delete, CompactRead, CompactRemove, CompactTruncate, CompactWrite, Kill
<1>9. QED
  BY <1>1, <1>2, <1>3, <1>5, <1>6, <1>7, <1>8 DEF Next

LEMMA ClockImplies ==
  ASSUME ClockInv
  PROVE  NewAlertsAreShown
<1> SUFFICES ASSUME NEW i \in DOMAIN alerts, Hidden(i)
             PROVE  \E k \in DOMAIN acks : acks[k].rule = alerts[i].rule /\ Answers(k, i)
  BY DEF NewAlertsAreShown
<1>1. PICK t \in Marks(alerts[i].rule) : alerts[i].ts <= t
  BY DEF Hidden
<1>2. PICK x \in ToSet(LogLines(log)) :
        Parses(x) /\ acks[x[1]].rule = alerts[i].rule /\ t = Timestamp(x)
  BY <1>1 DEF Marks
<1>3. x[1] \in DOMAIN acks /\ t = acks[x[1]].ts
  BY <1>2 DEF Parses, Timestamp
<1> DEFINE k == x[1]
<1>4. k \in DOMAIN acks /\ acks[k].rule = alerts[i].rule /\ alerts[i].ts <= acks[k].ts
  BY <1>1, <1>2, <1>3
<1> HIDE DEF k
<1>5. acks[k].upto \in Nat /\ acks[k].ts \in Nat /\ alerts[i].ts \in Nat /\ i \in Nat
  BY <1>4, Elements
<1>6. acks[k].upto < i => acks[k].epoch < alerts[i].epoch \/ acks[k].ts <= alerts[i].ts
  BY <1>4 DEF ClockInv
<1>7. Answers(k, i)
  BY <1>4, <1>5, <1>6 DEF Answers
<1>8. QED
  BY <1>4, <1>7

\* No alert is hidden that nobody acknowledged, but one of the very second of an
\* acknowledgement, or one that fires after the clock was set back below the watermark,
\* whatever compaction, kills and concurrent analysts make of the log.
\* (alerts.rs ack, load_ack_watermarks, filter_acked, compact_ack_log.)
THEOREM NoNewAlertHidden == Spec => []NewAlertsAreShown
<1>1. Init => ClockInv
  BY DEF Init, ClockInv
<1>2. ClockInv /\ [Next]_vars => ClockInv'
  BY ClockKept
<1>3. ClockInv => NewAlertsAreShown
  BY ClockImplies
<1>4. QED
  BY <1>1, <1>2, <1>3, PTL DEF Spec

(***************************************************************************)
(* The operators of Lines.                                                 *)
(***************************************************************************)

\* A non-empty set of natural numbers has a least element.
LEMMA LeastNatural ==
  ASSUME NEW T \in SUBSET Nat, T # {}
  PROVE  \E m \in T : \A k \in T : m <= k
<1> DEFINE R == OpToRel(<, Nat)
<1>1. IsWellFoundedOn(R, Nat)
  BY NatLessThanWellFounded
<1>2. \A x \in Nat, y \in Nat : <<y, x>> \in R <=> y < x
  BY DEF OpToRel
<1> HIDE DEF R
<1>3. PICK m \in T : \A y \in T : ~ (<<y, m>> \in R)
  BY <1>1, WFMin
<1>4. ASSUME NEW k \in T PROVE m <= k
  <2>1. ~ (<<k, m>> \in R) /\ k \in Nat /\ m \in Nat
    BY <1>3
  <2>2. ~ (k < m)
    BY <1>2, <2>1
  <2>3. QED
    BY <2>1, <2>2
<1>5. QED
  BY <1>4

\* Ranks count from 1 and grow with the element.
LEMMA RankGrows ==
  ASSUME NEW S \in SUBSET Nat, IsFiniteSet(S), NEW e \in S
  PROVE  /\ Rank(S, e) \in 1..Cardinality(S)
         /\ \A d \in S : d < e => Rank(S, d) < Rank(S, e)
<1>1. ASSUME NEW d \in S
      PROVE  IsFiniteSet({x \in S : x <= d}) /\ Rank(S, d) \in Nat
  <2>1. {x \in S : x <= d} \in SUBSET S
    OBVIOUS
  <2>2. IsFiniteSet({x \in S : x <= d})
    BY <2>1, FS_Subset
  <2>3. QED
    BY <2>2, FS_CardinalityType DEF Rank
<1>2. Cardinality(S) \in Nat /\ Rank(S, e) <= Cardinality(S)
  <2>1. {x \in S : x <= e} \in SUBSET S
    OBVIOUS
  <2>2. QED
    BY <2>1, FS_Subset, FS_CardinalityType DEF Rank
<1>3. Rank(S, e) # 0
  <2>1. e \in {x \in S : x <= e}
    OBVIOUS
  <2>2. {x \in S : x <= e} # {}
    BY <2>1
  <2>3. QED
    BY <1>1, <2>2, FS_EmptySet DEF Rank
<1>4. ASSUME NEW d \in S, d < e PROVE Rank(S, d) < Rank(S, e)
  <2> DEFINE D == {x \in S : x <= d}
             E == {x \in S : x <= e}
  <2>1. IsFiniteSet(D) /\ IsFiniteSet(E)
    BY <1>1
  <2>2. D \in SUBSET E
    <3>1. \A x \in S : x <= d => x <= e
      BY <1>4
    <3>2. QED
      BY <3>1
  <2>3. e \in E /\ e \notin D
    BY <1>4
  <2> HIDE DEF D, E
  <2>4. Cardinality(D) <= Cardinality(E) /\ Cardinality(D) # Cardinality(E)
    BY <2>1, <2>2, <2>3, FS_Subset
  <2>5. Cardinality(D) \in Nat /\ Cardinality(E) \in Nat
    BY <2>1, FS_CardinalityType
  <2>6. Cardinality(D) < Cardinality(E)
    BY <2>4, <2>5
  <2>7. QED
    BY <2>6 DEF D, E, Rank
<1>5. Rank(S, e) \in 1..Cardinality(S)
  <2>1. Rank(S, e) \in Nat
    BY <1>1
  <2>2. QED
    BY <1>2, <1>3, <2>1
<1>6. QED
  BY <1>4, <1>5

\* Ascending lists each element of the set at its rank, and nothing else.
LEMMA AscendingFacts ==
  ASSUME NEW S \in SUBSET Nat, IsFiniteSet(S)
  PROVE  /\ Cardinality(S) \in Nat
         /\ DOMAIN Ascending(S) = 1..Cardinality(S)
         /\ \A e \in S : Rank(S, e) \in 1..Cardinality(S) /\ Ascending(S)[Rank(S, e)] = e
         /\ \A k \in 1..Cardinality(S) : Ascending(S)[k] \in S
<1> PICK n \in Nat : n = Cardinality(S)
  BY FS_CardinalityType
<1>1. \A e \in S : Rank(S, e) \in 1..n
  BY RankGrows
<1>2. ASSUME NEW d \in S, NEW e \in S, Rank(S, d) = Rank(S, e) PROVE d = e
  <2>1. d \in Nat /\ e \in Nat /\ Rank(S, d) \in Nat
    BY <1>1
  <2>2. ~ (d < e)
    BY <1>2, <2>1, RankGrows
  <2>3. ~ (e < d)
    BY <1>2, <2>1, RankGrows
  <2>4. QED
    BY <2>1, <2>2, <2>3
<1>3. \A k \in 1..n : \E e \in S : Rank(S, e) = k
  <2> DEFINE f == [e \in S |-> Rank(S, e)]
  <2>1. f \in [S -> 1..n]
    BY <1>1
  <2>2. f \in Injection(S, 1..n)
    BY <1>2, <2>1 DEF Injection, IsInjective
  <2>3. IsFiniteSet(1..n) /\ Cardinality(1..n) = n
    <3>1. 1 \in Int /\ n \in Int
      OBVIOUS
    <3>2. IsFiniteSet(1..n) /\ Cardinality(1..n) = IF 1 > n THEN 0 ELSE n - 1 + 1
      BY <3>1, FS_Interval
    <3>3. QED
      BY <3>2
  <2>4. f \in Surjection(S, 1..n)
    BY <2>2, <2>3, FS_Injection
  <2>5. \A k \in 1..n : \E e \in S : f[e] = k
    BY <2>4 DEF Surjection
  <2>6. QED
    BY <2>5
<1>4. Ascending(S) = [k \in 1..n |-> CHOOSE e \in S : Rank(S, e) = k]
  BY DEF Ascending
<1>5. ASSUME NEW k \in 1..n PROVE Ascending(S)[k] \in S /\ Rank(S, Ascending(S)[k]) = k
  BY <1>3, <1>4
<1>6. ASSUME NEW e \in S PROVE Ascending(S)[Rank(S, e)] = e
  <2>1. /\ Rank(S, e) \in 1..n
        /\ Ascending(S)[Rank(S, e)] \in S
        /\ Rank(S, Ascending(S)[Rank(S, e)]) = Rank(S, e)
    BY <1>1, <1>5
  <2>2. QED
    BY <1>2, <2>1
<1>7. QED
  BY <1>1, <1>4, <1>5, <1>6

\* What Pick takes is what stands at the positions.
LEMMA PickFacts ==
  ASSUME NEW E, NEW s \in Seq(E), NEW at \in SUBSET (1..Len(s))
  PROVE  /\ Pick(s, at) \in Seq(E)
         /\ \A i \in at : \E k \in 1..Len(Pick(s, at)) : Pick(s, at)[k] = s[i]
         /\ \A k \in 1..Len(Pick(s, at)) : \E i \in at : Pick(s, at)[k] = s[i]
<1>1. at \in SUBSET Nat /\ IsFiniteSet(at)
  <2>1. Len(s) \in Int /\ 1 \in Int
    OBVIOUS
  <2>2. IsFiniteSet(1..Len(s))
    BY <2>1, FS_Interval
  <2>3. IsFiniteSet(at)
    BY <2>2, FS_Subset
  <2>4. QED
    BY <2>3
<1> PICK n \in Nat : n = Cardinality(at)
  BY <1>1, AscendingFacts
<1> DEFINE a == Ascending(at)
<1>2. /\ DOMAIN a = 1..n
      /\ \A e \in at : Rank(at, e) \in 1..n /\ a[Rank(at, e)] = e
      /\ \A k \in 1..n : a[k] \in at
  BY <1>1, AscendingFacts
<1>3. Pick(s, at) = [k \in 1..n |-> s[a[k]]]
  BY <1>2 DEF Pick
<1> HIDE DEF a
<1>4. \A i \in at : i \in 1..Len(s) /\ s[i] \in E
  OBVIOUS
<1>5. \A k \in 1..n : s[a[k]] \in E
  BY <1>2, <1>4
<1>6. Pick(s, at) \in Seq(E) /\ Len(Pick(s, at)) = n
  BY <1>3, <1>5
<1>7. ASSUME NEW i \in at PROVE \E k \in 1..n : Pick(s, at)[k] = s[i]
  <2>1. Rank(at, i) \in 1..n /\ a[Rank(at, i)] = i
    BY <1>2
  <2>2. Pick(s, at)[Rank(at, i)] = s[i]
    BY <1>3, <2>1
  <2>3. QED
    BY <2>1, <2>2
<1>8. \A k \in 1..n : a[k] \in at /\ Pick(s, at)[k] = s[a[k]]
  BY <1>2, <1>3
<1>9. QED
  BY <1>6, <1>7, <1>8

(***************************************************************************)
(* Lines in the acknowledgement log.                                       *)
(***************************************************************************)

\* s is empty or its last line is complete.
Complete(s) == s = << >> \/ s[Len(s)] = Newline

\* The text k stands alone on a complete line of s, at unit i.
LineAt(s, k, i) == /\ i + 1 <= Len(s) /\ s[i] = k /\ s[i + 1] = Newline
                   /\ i = 1 \/ s[i - 1] = Newline

HasLine(s, k) == \E i \in 1..Len(s) : LineAt(s, k, i)

\* LogLines lists texts and skips no line that holds one.
LEMMA LogLinesFacts ==
  ASSUME NEW s \in Seq(Nat)
  PROVE  /\ LogLines(s) \in Seq(Seq(Nat))
         /\ \A k \in Nat \ {0} : HasLine(s, k) =>
              \E m \in 1..Len(LogLines(s)) : LogLines(s)[m] = <<k>>
<1> PICK len \in Nat : len = Len(s)
  OBVIOUS
<1> DEFINE ends == Newlines(s) \cup {len + 1}
           a == Ascending(ends)
           cut == Cut(s, ends)
           full == {k \in DOMAIN cut : cut[k] # << >>}
           start(k) == IF k = 1 THEN 0 ELSE a[k - 1]
           piece(k) == SubSeq(s, start(k) + 1, a[k] - 1)
<1>1. /\ ends \in SUBSET Nat
      /\ \A e : e \in ends <=> e = len + 1 \/ (e \in 1..len /\ s[e] = Newline)
  BY DEF Newlines
<1>2. IsFiniteSet(ends)
  <2>1. 1 \in Int /\ len + 1 \in Int
    OBVIOUS
  <2>2. IsFiniteSet(1..(len + 1))
    BY <2>1, FS_Interval
  <2>3. ends \in SUBSET (1..(len + 1))
    BY <1>1
  <2> HIDE DEF ends
  <2>4. QED
    BY <2>2, <2>3, FS_Subset
<1> HIDE DEF ends
<1> PICK n \in Nat : n = Cardinality(ends)
  BY <1>1, <1>2, AscendingFacts
<1>3. /\ DOMAIN a = 1..n
      /\ \A e \in ends : Rank(ends, e) \in 1..n /\ a[Rank(ends, e)] = e
      /\ \A k \in 1..n : a[k] \in ends
  BY <1>1, <1>2, AscendingFacts
<1>4. cut = [k \in 1..n |-> piece(k)]
  BY <1>3 DEF Cut
<1> HIDE DEF a
<1>5. ASSUME NEW k \in 1..n PROVE piece(k) \in Seq(Nat)
  <2>1. a[k] \in Nat /\ 1 <= a[k] /\ a[k] <= len + 1
    BY <1>1, <1>3
  <2>2. k # 1 => a[k - 1] \in Nat
    <3>1. k # 1 => k - 1 \in 1..n
      OBVIOUS
    <3>2. QED
      BY <1>1, <1>3, <3>1
  <2> PICK from \in Nat : from = IF k = 1 THEN 0 ELSE a[k - 1]
    BY <2>2
  <2>3. SubSeq(s, from + 1, a[k] - 1) \in Seq(Nat)
    BY <2>1
  <2>4. QED
    BY <2>3
<1> HIDE DEF cut, piece
<1>6. cut \in Seq(Seq(Nat)) /\ Len(cut) = n
  BY <1>4, <1>5
<1>7. full \in SUBSET (1..Len(cut))
  BY <1>6
<1>8. LogLines(s) = Pick(cut, full)
  BY DEF LogLines, cut, ends
<1>9. \A i \in 1..n : cut[i] # << >> => i \in full
  BY <1>6
<1> HIDE DEF full
<1>10. /\ Pick(cut, full) \in Seq(Seq(Nat))
       /\ \A i \in full : \E m \in 1..Len(Pick(cut, full)) : Pick(cut, full)[m] = cut[i]
  BY <1>6, <1>7, PickFacts
<1>11. ASSUME NEW k \in Nat \ {0}, HasLine(s, k)
       PROVE  \E m \in 1..n : cut[m] = <<k>>
  <2>1. PICK i \in 1..len : LineAt(s, k, i)
    BY <1>11 DEF HasLine
  <2>2. /\ i \in Nat /\ 1 <= i /\ i + 1 <= len /\ s[i] = k /\ s[i + 1] = Newline
        /\ i = 1 \/ s[i - 1] = Newline
    BY <2>1 DEF LineAt
  <2>3. i + 1 \in ends /\ i \notin ends
    BY <1>1, <2>2 DEF Newline
  <2> DEFINE m == Rank(ends, i + 1)
  <2>4. m \in 1..n /\ a[m] = i + 1
    BY <1>3, <2>3
  <2>5. (IF m = 1 THEN 0 ELSE a[m - 1]) = i - 1
    <3>1. CASE i = 1
      <4>1. {x \in ends : x <= i + 1} = {i + 1}
        <5>1. ASSUME NEW x \in ends, x <= i + 1 PROVE x = i + 1
          <6>1. x \in Nat /\ 1 <= x
            BY <1>1
          <6>2. x # 1
            BY <2>3, <3>1
          <6>3. QED
            BY <3>1, <5>1, <6>1, <6>2
        <5>2. i + 1 \in {x \in ends : x <= i + 1}
          BY <2>2, <2>3
        <5>3. QED
          BY <5>1, <5>2
      <4>2. m = 1
        BY <4>1, FS_Singleton DEF Rank
      <4>3. QED
        BY <3>1, <4>2
    <3>2. CASE i # 1
      <4>1. i - 1 \in ends
        BY <1>1, <2>2, <3>2
      <4> DEFINE D == {x \in ends : x <= i - 1}
      <4>2. {x \in ends : x <= i + 1} = D \cup {i + 1}
        <5>1. ASSUME NEW x \in ends, x <= i + 1 PROVE x <= i - 1 \/ x = i + 1
          <6>1. x \in Nat /\ x # i
            BY <1>1, <2>3
          <6>2. QED
            BY <2>2, <5>1, <6>1
        <5>2. \A x \in ends : x <= i - 1 => x <= i + 1
          BY <1>1, <2>2
        <5>3. QED
          BY <2>2, <2>3, <5>1, <5>2
      <4>3. IsFiniteSet(D) /\ i + 1 \notin D
        <5>1. D \in SUBSET ends
          OBVIOUS
        <5>2. IsFiniteSet(D)
          BY <1>2, <5>1, FS_Subset
        <5>3. QED
          BY <2>2, <5>2
      <4> HIDE DEF D
      <4>4. m = Cardinality(D) + 1
        BY <4>2, <4>3, FS_AddElement DEF Rank
      <4>5. Rank(ends, i - 1) = Cardinality(D)
        BY DEF D, Rank
      <4>6. Rank(ends, i - 1) \in 1..n /\ a[Rank(ends, i - 1)] = i - 1
        BY <1>3, <4>1
      <4> HIDE DEF m
      <4>7. m - 1 = Rank(ends, i - 1) /\ m # 1
        BY <2>4, <4>4, <4>5, <4>6
      <4>8. QED
        BY <4>6, <4>7
    <3>3. QED
      BY <3>1, <3>2
  <2> HIDE DEF m
  <2>6. cut[m] = SubSeq(s, i, i)
    <3>1. cut[m] = piece(m)
      BY <1>4, <2>4
    <3>2. start(m) + 1 = i /\ a[m] - 1 = i
      BY <2>2, <2>4, <2>5
    <3> DEFINE lo == start(m) + 1
               hi == a[m] - 1
    <3>3. piece(m) = SubSeq(s, lo, hi)
      BY DEF piece
    <3>4. lo = i /\ hi = i
      BY <3>2
    <3> HIDE DEF lo, hi
    <3>5. QED
      BY <3>1, <3>3, <3>4
  <2>7. SubSeq(s, i, i) = <<s[i]>>
    <3> DEFINE u == SubSeq(s, i, i)
    <3>1. u \in Seq(Nat) /\ Len(u) = 1 /\ u[1] = s[i]
      BY <2>2
    <3> HIDE DEF u
    <3>2. u = <<s[i]>>
      BY <3>1
    <3>3. QED
      BY <3>2 DEF u
  <2>8. QED
    BY <2>2, <2>4, <2>6, <2>7
<1>12. ASSUME NEW k \in Nat \ {0}, HasLine(s, k)
       PROVE  \E m \in 1..Len(Pick(cut, full)) : Pick(cut, full)[m] = <<k>>
  <2>1. PICK i \in 1..n : cut[i] = <<k>>
    BY <1>11, <1>12
  <2>2. <<k>> # << >>
    OBVIOUS
  <2>4. i \in full
    BY <1>9, <2>1, <2>2
  <2>3. QED
    BY <1>10, <2>1, <2>4
<1>13. QED
  BY <1>8, <1>10, <1>12

\* More text after a line, or after complete lines, leaves the line what it is.
LEMMA LinesStay ==
  ASSUME NEW s \in Seq(Nat), NEW t \in Seq(Nat), NEW k \in Nat, HasLine(s, k)
  PROVE  HasLine(s \o t, k)
<1>1. PICK i \in 1..Len(s) : LineAt(s, k, i)
  BY DEF HasLine
<1> DEFINE u == s \o t
<1>2. /\ Len(u) = Len(s) + Len(t) /\ Len(s) \in Nat /\ Len(t) \in Nat
      /\ \A j \in 1..Len(s) : u[j] = s[j]
  OBVIOUS
<1> HIDE DEF u
<1>3. /\ i \in 1..Len(s) /\ i + 1 \in 1..Len(s) /\ (i # 1 => i - 1 \in 1..Len(s))
      /\ s[i] = k /\ s[i + 1] = Newline /\ (i = 1 \/ s[i - 1] = Newline)
  BY <1>1, <1>2 DEF LineAt
<1>4. u[i] = k /\ u[i + 1] = Newline /\ (i = 1 \/ u[i - 1] = Newline)
  BY <1>2, <1>3
<1>5. i \in 1..Len(u) /\ i + 1 <= Len(u)
  BY <1>2, <1>3
<1>6. QED
  BY <1>4, <1>5 DEF LineAt, HasLine, u

LEMMA LinesFollow ==
  ASSUME NEW s \in Seq(Nat), NEW t \in Seq(Nat), Complete(s), NEW k \in Nat, HasLine(t, k)
  PROVE  HasLine(s \o t, k)
<1>1. PICK i \in 1..Len(t) : LineAt(t, k, i)
  BY DEF HasLine
<1> PICK p \in Nat : p = Len(s)
  OBVIOUS
<1> DEFINE u == s \o t
<1>2. /\ Len(u) = p + Len(t) /\ Len(t) \in Nat
      /\ \A j \in 1..p : u[j] = s[j]
      /\ \A j \in 1..Len(t) : u[p + j] = t[j]
  OBVIOUS
<1> HIDE DEF u
<1>3. /\ i \in Nat /\ i >= 1 /\ i + 1 \in 1..Len(t) /\ (i # 1 => i - 1 \in 1..Len(t))
      /\ t[i] = k /\ t[i + 1] = Newline /\ (i = 1 \/ t[i - 1] = Newline)
  BY <1>1, <1>2 DEF LineAt
<1>4. /\ u[p + i] = k /\ u[(p + i) + 1] = Newline
      /\ p + i \in 1..Len(u) /\ (p + i) + 1 <= Len(u)
  <2>1. (p + i) + 1 = p + (i + 1)
    BY <1>3
  <2>2. u[p + i] = t[i] /\ u[p + (i + 1)] = t[i + 1]
    BY <1>2, <1>3
  <2>3. QED
    BY <1>2, <1>3, <2>1, <2>2
<1>5. p + i = 1 \/ u[(p + i) - 1] = Newline
  <2>1. CASE i = 1 /\ p = 0
    BY <2>1
  <2>2. CASE i = 1 /\ p # 0
    <3>1. s # << >> /\ p \in 1..p /\ (p + i) - 1 = p
      BY <2>2
    <3>2. s[p] = Newline
      BY <3>1 DEF Complete
    <3>3. QED
      BY <1>2, <3>1, <3>2
  <2>3. CASE i # 1
    <3>1. (p + i) - 1 = p + (i - 1) /\ i - 1 \in 1..Len(t) /\ t[i - 1] = Newline
      BY <1>3, <2>3
    <3>2. u[p + (i - 1)] = t[i - 1]
      BY <1>2, <3>1
    <3>3. QED
      BY <3>1, <3>2
  <2>4. QED
    BY <2>1, <2>2, <2>3
<1>6. QED
  BY <1>4, <1>5 DEF LineAt, HasLine, u

\* The sequences FlattenSeq joins on its way through the first n of s.
Joins(f, s, n) == f = [i \in 1..n |-> IF i = 1 THEN s[i] ELSE f[i - 1] \o s[i]]

\* FlattenSeq's recursive function exists.
LEMMA JoinsExist ==
  ASSUME NEW n \in Nat, NEW s
  PROVE  \E f : Joins(f, s, n)
<1> DEFINE T == {j \in 0..n : ~ \E f : Joins(f, s, j)}
<1> SUFFICES ASSUME T # {} PROVE FALSE
  <2>1. n \in 0..n
    OBVIOUS
  <2>2. QED
    BY <2>1
<1>1. T \in SUBSET Nat
  OBVIOUS
<1>2. PICK j \in T : \A k \in T : j <= k
  BY <1>1, LeastNatural
<1>3. j \in 0..n /\ ~ \E f : Joins(f, s, j)
  OBVIOUS
<1>4. j # 0
  <2>1. Joins(<< >>, s, 0)
    BY DEF Joins
  <2>2. QED
    BY <1>3, <2>1
<1>5. j - 1 \in 0..n /\ j - 1 \notin T
  BY <1>1, <1>2, <1>3, <1>4
<1>6. PICK g : Joins(g, s, j - 1)
  BY <1>5
<1> DEFINE f == [i \in 1..j |-> IF i = 1 THEN s[i] ELSE g[i - 1] \o s[i]]
<1>7. \A i \in 1..(j - 1) : f[i] = g[i]
  <2>1. \A i \in 1..(j - 1) : g[i] = IF i = 1 THEN s[i] ELSE g[i - 1] \o s[i]
    BY <1>6 DEF Joins
  <2>2. \A i \in 1..(j - 1) : i \in 1..j
    BY <1>3
  <2>3. QED
    BY <2>1, <2>2
<1>8. ASSUME NEW i \in 1..j
      PROVE  f[i] = IF i = 1 THEN s[i] ELSE f[i - 1] \o s[i]
  <2>1. i # 1 => i - 1 \in 1..(j - 1)
    BY <1>3
  <2>2. i # 1 => f[i - 1] = g[i - 1]
    BY <1>7, <2>1
  <2>3. QED
    BY <2>2
<1>9. Joins(f, s, j)
  <2> DEFINE e(i) == IF i = 1 THEN s[i] ELSE f[i - 1] \o s[i]
             h(i) == IF i = 1 THEN s[i] ELSE g[i - 1] \o s[i]
  <2>1. f = [i \in 1..j |-> h(i)]
    OBVIOUS
  <2>2. \A i \in 1..j : h(i) = e(i)
    BY <1>8
  <2> SUFFICES f = [i \in 1..j |-> e(i)]
    BY DEF Joins
  <2> HIDE DEF f, e, h
  <2>3. QED
    BY <2>1, <2>2
<1>10. QED
  BY <1>3, <1>9

\* The last unit of what grows.
LEMMA LastUnit ==
  ASSUME NEW u \in Seq(Nat), NEW v \in Seq(Nat), v # << >>
  PROVE  u \o v \in Seq(Nat) /\ u \o v # << >> /\ (u \o v)[Len(u \o v)] = v[Len(v)]
<1>1. u \o v \in Seq(Nat) /\ Len(u \o v) = Len(u) + Len(v)
  OBVIOUS
<1>2. \A j \in 1..Len(v) : (u \o v)[Len(u) + j] = v[j]
  OBVIOUS
<1>3. Len(u) \in Nat /\ Len(v) \in Nat /\ Len(v) # 0
  OBVIOUS
<1>4. Len(v) \in 1..Len(v) /\ Len(u \o v) # 0
  BY <1>1, <1>3
<1>5. (u \o v)[Len(u) + Len(v)] = v[Len(v)]
  BY <1>2, <1>4
<1>6. QED
  BY <1>1, <1>4, <1>5

LEMMA LastAppended ==
  ASSUME NEW u \in Seq(Nat), NEW e \in Nat
  PROVE  /\ Append(u, e) \in Seq(Nat) /\ Append(u, e) # << >>
         /\ Append(u, e)[Len(Append(u, e))] = e
BY AppendProperties

\* What compaction writes: the kept lines, each with its newline.
Written(keep) == FlattenSeq([k \in DOMAIN keep |-> Append(keep[k], Newline)])

\* Complete lines, one for each text kept, up to the i-th.
WrittenUpTo(u, keep, i) ==
    /\ u \in Seq(Nat) /\ u # << >> /\ u[Len(u)] = Newline
    /\ \A m \in 1..i : \A k \in Nat \ {0} : keep[m] = <<k>> => HasLine(u, k)

LEMMA WrittenFacts ==
  ASSUME NEW keep \in Seq(Seq(Nat)), keep # << >>
  PROVE  WrittenUpTo(Written(keep), keep, Len(keep))
<1> PICK n \in Nat : n = Len(keep)
  OBVIOUS
<1>1. n >= 1 /\ DOMAIN keep = 1..n
  OBVIOUS
<1> DEFINE s == [k \in DOMAIN keep |-> Append(keep[k], Newline)]
<1>2. /\ DOMAIN s = 1..n
      /\ \A k \in 1..n : s[k] = Append(keep[k], Newline) /\ s[k] \in Seq(Nat)
  <2>1. \A k \in 1..n : keep[k] \in Seq(Nat)
    BY <1>1
  <2>2. \A k \in 1..n : Append(keep[k], Newline) \in Seq(Nat)
    BY <2>1 DEF Newline
  <2>3. QED
    BY <1>1, <2>2
<1>3. Len(s) = n
  BY <1>1, <1>2
<1>4. PICK f : f = CHOOSE g : Joins(g, s, n)
  OBVIOUS
<1>5. Written(keep) = f[n]
  <2>1. f = CHOOSE g : g = [i \in 1..Len(s) |-> IF i = 1 THEN s[i] ELSE g[i - 1] \o s[i]]
    BY <1>3, <1>4 DEF Joins
  <2>2. Written(keep) = FlattenSeq(s)
    BY DEF Written
  <2>3. Len(s) # 0
    BY <1>1, <1>3
  <2> HIDE DEF s
  <2>4. FlattenSeq(s) =
          (CHOOSE g : g = [i \in 1..Len(s) |-> IF i = 1 THEN s[i] ELSE g[i - 1] \o s[i]])[Len(s)]
    BY <2>3 DEF FlattenSeq
  <2>5. QED
    BY <1>3, <2>1, <2>2, <2>4
<1>6. Joins(f, s, n)
  BY <1>4, JoinsExist
<1> HIDE DEF s
<1>7. \A i \in 1..n : f[i] = IF i = 1 THEN s[i] ELSE f[i - 1] \o s[i]
  BY <1>6 DEF Joins
<1>8. ASSUME NEW i \in 1..n PROVE WrittenUpTo(s[i], keep, 0)
  <2>1. keep[i] \in Seq(Nat) /\ s[i] = Append(keep[i], Newline)
    BY <1>1, <1>2
  <2> PICK w : w = keep[i]
    OBVIOUS
  <2>2. /\ w \in Seq(Nat) /\ Newline \in Nat
    BY <2>1 DEF Newline
  <2>5. /\ Append(w, Newline) \in Seq(Nat) /\ Append(w, Newline) # << >>
        /\ Append(w, Newline)[Len(Append(w, Newline))] = Newline
    BY <2>2, LastAppended
  <2>3. WrittenUpTo(Append(w, Newline), keep, 0)
    BY <2>5 DEF WrittenUpTo
  <2>4. QED
    BY <2>1, <2>3
<1>9. ASSUME NEW i \in 1..n, NEW k \in Nat \ {0}, keep[i] = <<k>> PROVE HasLine(s[i], k)
  <2>1. s[i] = Append(<<k>>, Newline)
    BY <1>2, <1>9
  <2> DEFINE u == s[i]
  <2>2. Len(u) = 2 /\ u[1] = k /\ u[2] = Newline
    BY <2>1
  <2>3. LineAt(u, k, 1) /\ 1 \in 1..Len(u)
    BY <2>2 DEF LineAt
  <2> HIDE DEF u
  <2>4. HasLine(u, k)
    BY <2>3 DEF HasLine
  <2>5. QED
    BY <2>4 DEF u
<1> DEFINE T == {i \in 1..n : ~ WrittenUpTo(f[i], keep, i)}
<1> SUFFICES ASSUME T # {} PROVE FALSE
  <2>1. n \in 1..n
    BY <1>1
  <2>2. T = {} => WrittenUpTo(f[n], keep, n)
    BY <2>1
  <2>3. QED
    BY <1>5, <2>2
<1>10. T \in SUBSET Nat
  OBVIOUS
<1>11. PICK i \in T : \A k \in T : i <= k
  BY <1>10, LeastNatural
<1>12. i \in 1..n /\ ~ WrittenUpTo(f[i], keep, i)
  OBVIOUS
<1>13. CASE i = 1
  <2>1. f[i] = s[i] /\ WrittenUpTo(s[i], keep, 0)
    BY <1>7, <1>8, <1>12, <1>13
  <2>2. \A m \in 1..i : \A k \in Nat \ {0} : keep[m] = <<k>> => HasLine(s[i], k)
    BY <1>9, <1>12, <1>13
  <2>3. QED
    BY <1>12, <2>1, <2>2 DEF WrittenUpTo
<1>14. CASE i # 1
  <2>1. i - 1 \in 1..n /\ i - 1 \notin T
    BY <1>11, <1>12, <1>14
  <2>2. WrittenUpTo(f[i - 1], keep, i - 1)
    BY <2>1
  <2>3. f[i] = f[i - 1] \o s[i] /\ WrittenUpTo(s[i], keep, 0)
    BY <1>7, <1>8, <1>12, <1>14
  <2> PICK u : u = f[i - 1]
    OBVIOUS
  <2> PICK v : v = s[i]
    OBVIOUS
  <2>4. /\ u \in Seq(Nat) /\ v \in Seq(Nat) /\ v # << >> /\ v[Len(v)] = Newline
        /\ u # << >> /\ u[Len(u)] = Newline
    BY <2>2, <2>3 DEF WrittenUpTo
  <2>5. u \o v \in Seq(Nat) /\ u \o v # << >> /\ (u \o v)[Len(u \o v)] = Newline
    BY <2>4, LastUnit
  <2>6. ASSUME NEW m \in 1..i, NEW k \in Nat \ {0}, keep[m] = <<k>>
        PROVE  HasLine(u \o v, k)
    <3>1. CASE m = i
      <4>1. HasLine(v, k) /\ Complete(u)
        BY <1>9, <1>12, <2>4, <2>6, <3>1 DEF Complete
      <4>2. QED
        BY <2>4, <4>1, LinesFollow
    <3>2. CASE m # i
      <4>1. m \in 1..(i - 1)
        BY <1>12, <3>2
      <4>2. HasLine(u, k)
        BY <2>2, <2>6, <4>1 DEF WrittenUpTo
      <4>3. QED
        BY <2>4, <4>2, LinesStay
    <3>3. QED
      BY <3>1, <3>2
  <2>7. WrittenUpTo(u \o v, keep, i)
    BY <2>5, <2>6 DEF WrittenUpTo
  <2>8. QED
    BY <1>12, <2>3, <2>7
<1>15. QED
  BY <1>13, <1>14

\* The later second does not fall in the earlier hour.
LEMMA HoursGrow ==
  ASSUME NEW a \in Int, NEW b \in Int, a <= b
  PROVE  Hour(a) \in Int /\ Hour(b) \in Int /\ Hour(a) <= Hour(b)
<1> PICK n \in Nat \ {0} : n = HourLength
  BY AckLogAssumption
<1> PICK x \in Int : x = a \div n
  OBVIOUS
<1> PICK y \in Int : y = b \div n
  OBVIOUS
<1>1. a >= n * x /\ a < n * x + n
  OBVIOUS
<1>2. b >= n * y /\ b < n * y + n
  OBVIOUS
<1>3. x <= y
  <2> SUFFICES ASSUME x >= y + 1 PROVE FALSE
    OBVIOUS
  <2>1. n * x >= n * (y + 1)
    OBVIOUS
  <2>2. n * (y + 1) = n * y + n
    OBVIOUS
  <2> QED
    BY <1>1, <1>2, <2>1, <2>2
<1> QED
  BY <1>3 DEF Hour

(***************************************************************************)
(* What the log remembers.                                                 *)
(***************************************************************************)

LogTypes ==
    /\ log \in Seq(Nat) /\ gen \in Nat /\ exists \in BOOLEAN /\ touched \in Nat
    /\ acker \in [Analyst -> [at : {"idle", "open", "text", "newline"}, ack : Nat, gen : Nat]]
    /\ done \subseteq DOMAIN acks

RunTypes ==
    /\ ret \in [at : {"idle", "delete", "read", "remove", "truncate", "write"}, cutoff : Int,
                hours : SUBSET Int, log : BOOLEAN, keep : Seq(Seq(Nat))]
    /\ ret.at # "idle" => ret.cutoff \in cutoffs

\* An acknowledgement is not older than the alerts it covers, but for those that fired
\* before the clock was set back.
CoverInv == \A k \in DOMAIN acks :
    /\ acks[k].upto <= Len(alerts)
    /\ \A i \in 1..acks[k].upto : alerts[i].ts <= acks[k].ts \/ NeverCovered(k, i)

\* Two analysts at once, or one and retention, are counted as disturbed.
AckerInv(p) ==
    IF acker[p].at = "idle" THEN acker[p].ack = 0
    ELSE /\ acker[p].ack \in DOMAIN acks \ done
         /\ ret.at # "idle" => acker[p].ack \in disturbed

ApartInv(p, q) ==
    p # q /\ acker[p].at # "idle" /\ acker[q].at # "idle" =>
        acker[p].ack # acker[q].ack /\ acker[p].ack \in disturbed

AckersInv == /\ \A p \in Analyst : AckerInv(p)
             /\ \A p, q \in Analyst : ApartInv(p, q)

\* The file ends in a text whose newline is about to be written, or in one whose newline
\* never will be.
Unfinished == \E p \in Analyst :
    /\ exists /\ acker[p].at = "newline" /\ acker[p].gen = gen
    /\ log # << >> /\ log[Len(log)] = acker[p].ack
Torn == log # << >> /\ log[Len(log)] \in killed

\* An analyst alone finds the file it opened, and its text at the end of it.
WriterInv(p) ==
    /\ acker[p].at \in {"text", "newline"} => exists /\ acker[p].gen = gen
    /\ acker[p].at = "newline" =>
         /\ log # << >> /\ log[Len(log)] = acker[p].ack
         /\ Len(log) = 1 \/ log[Len(log) - 1] = Newline

FileInv ==
    /\ ~exists => log = << >>
    /\ ret.at = "write" => exists
    /\ Complete(log) \/ Unfinished \/ Torn
    /\ \A p \in Analyst : acker[p].ack \notin disturbed \cup glued => WriterInv(p)

Settled == done \ (disturbed \cup glued)

\* The files of the alerts that undisturbed acknowledgements cover and that are older
\* than the cutoff are gone, or are in these hours, but for the hour in which the cutoff
\* falls.  (Others may fire meanwhile, and older ones when the clock is set back.)
Listed(hours) == \A k \in DOMAIN acks \ disturbed : \A i \in 1..acks[k].upto :
    alerts[i].ts < ret.cutoff =>
        i \in deleted \/ Hour(alerts[i].ts) \in hours \cup {Hour(ret.cutoff)}

SweepInv ==
    /\ ret.at = "delete" => Listed(ret.hours)
    /\ ret.at \in {"read", "remove", "truncate", "write"} => Listed({})
    /\ ret.at \in {"truncate", "write"} => ret.keep # << >>

\* The alerts that the acknowledgement hid need it no more.
Forgotten(k) == \A i \in 1..acks[k].upto :
    \/ alerts[i].rule # acks[k].rule
    \/ i \in deleted
    \/ NeverCovered(k, i)
    \/ \E c \in cutoffs : acks[k].ts < c /\ Hour(alerts[i].ts) = Hour(c)

\* It went with the whole file, which was older by its modification time.
Swept(k) == k \in swept /\ acks[k].epoch < epoch

\* Where the acknowledgement stands, at each step of compaction.
Remembered(k) ==
    /\ ret.at # "remove"
    /\ ret.at # "write" => HasLine(log, k)
    /\ ret.at = "delete" /\ ret.log => acks[k].ts < ret.cutoff \/ acks[k].epoch < epoch
    /\ ret.at \in {"truncate", "write"} => \E m \in 1..Len(ret.keep) : ret.keep[m] = <<k>>

Known(k) == /\ HasLine(log, k) /\ acks[k].epoch = epoch => acks[k].ts <= touched
            /\ Forgotten(k) \/ Swept(k) \/ Remembered(k)

MemoryInv == \A k \in Settled : Known(k)

MemoryIInv == ClockInv /\ LogTypes /\ RunTypes /\ CoverInv /\ AckersInv /\ FileInv /\ SweepInv
              /\ MemoryInv

(***************************************************************************)
(* What each step does to an analyst and to retention.                     *)
(***************************************************************************)

Progress == [at : {"idle", "open", "text", "newline"}, ack : Nat, gen : Nat]

LEMMA AckerTypes ==
  ASSUME LogTypes, NEW p \in Analyst
  PROVE  /\ acker[p].at \in {"idle", "open", "text", "newline"}
         /\ acker[p].ack \in Nat /\ acker[p].gen \in Nat
<1>1. acker[p] \in Progress
  BY DEF LogTypes, Progress
<1>2. QED
  BY <1>1 DEF Progress

\* One analyst moves, the others stay.
LEMMA Moves ==
  ASSUME LogTypes, NEW p \in Analyst, NEW r \in Progress, acker' = [acker EXCEPT ![p] = r]
  PROVE  /\ acker' \in [Analyst -> Progress]
         /\ acker'[p] = r
         /\ \A q \in Analyst : q # p => acker'[q] = acker[q]
BY DEF LogTypes, Progress

LEMMA OpenMoves ==
  ASSUME MemoryIInv, NEW p \in Analyst, AckOpen(p)
  PROVE  /\ acker' \in [Analyst -> Progress]
         /\ acker'[p].at = "text" /\ acker'[p].ack = acker[p].ack /\ acker'[p].gen = gen'
         /\ \A q \in Analyst : q # p => acker'[q] = acker[q]
         /\ log' = log /\ gen' \in Nat /\ exists' = TRUE
         /\ exists => gen' = gen
         /\ touched' = IF exists THEN touched ELSE now
<1> DEFINE r == [at |-> "text", ack |-> acker[p].ack, gen |-> gen']
<1>1. LogTypes /\ FileInv
  BY DEF MemoryIInv
<1>2. /\ log' = IF exists THEN log ELSE << >>
      /\ gen' = IF exists THEN gen ELSE gen + 1
      /\ exists' = TRUE
      /\ touched' = IF exists THEN touched ELSE now
  BY DEF AckOpen
<1>3. log' = log /\ gen' \in Nat
  BY <1>1, <1>2 DEF FileInv, LogTypes
<1>4. acker[p].ack \in Nat
  BY <1>1, AckerTypes
<1>5. r \in Progress
  BY <1>3, <1>4 DEF Progress
<1>6. acker[p] \in Progress /\ acker \in [Analyst -> Progress]
  BY <1>1 DEF LogTypes, Progress
<1>7. acker' = [acker EXCEPT ![p] = r]
  <2>1. acker' = [acker EXCEPT ![p].at = "text", ![p].gen = gen']
    BY DEF AckOpen
  <2>2. acker' = [acker EXCEPT ![p] = [[acker[p] EXCEPT !.at = "text"] EXCEPT !.gen = gen']]
    BY <1>6, <2>1
  <2>3. \A x \in Progress, g \in Nat :
          [[x EXCEPT !.at = "text"] EXCEPT !.gen = g] = [at |-> "text", ack |-> x.ack, gen |-> g]
    <3> SUFFICES ASSUME NEW x \in Progress, NEW g \in Nat
                 PROVE  [[x EXCEPT !.at = "text"] EXCEPT !.gen = g]
                          = [at |-> "text", ack |-> x.ack, gen |-> g]
      OBVIOUS
    <3>1. [x EXCEPT !.at = "text"] = [at |-> "text", ack |-> x.ack, gen |-> x.gen]
      BY DEF Progress
    <3>2. [[at |-> "text", ack |-> x.ack, gen |-> x.gen] EXCEPT !.gen = g]
            = [at |-> "text", ack |-> x.ack, gen |-> g]
      OBVIOUS
    <3>3. QED
      BY <3>1, <3>2
  <2>4. [[acker[p] EXCEPT !.at = "text"] EXCEPT !.gen = gen'] = r
    BY <1>3, <1>6, <2>3
  <2>5. QED
    BY <2>2, <2>4
<1>8. r.at = "text" /\ r.ack = acker[p].ack /\ r.gen = gen'
  OBVIOUS
<1> HIDE DEF r
<1>9. QED
  BY <1>1, <1>2, <1>3, <1>5, <1>7, <1>8, Moves

\* The text, then its newline, each of them into the file or into nowhere.
Writes(p, e) ==
    /\ exists' = exists /\ gen' = gen
    /\ \/ exists /\ acker[p].gen = gen /\ log' = Append(log, e) /\ touched' = now
       \/ ~(exists /\ acker[p].gen = gen) /\ log' = log /\ touched' = touched
    /\ acker' \in [Analyst -> Progress]
    /\ exists /\ acker[p].gen = gen /\ Torn => acker[p].ack \in glued'
    /\ \A q \in Analyst : q # p => acker'[q] = acker[q]

LEMMA WriteMoves ==
  ASSUME MemoryIInv, NEW p \in Analyst, AckWrite(p)
  PROVE  \/ /\ acker[p].at = "text" /\ Writes(p, acker[p].ack)
            /\ acker'[p].at = "newline" /\ acker'[p].ack = acker[p].ack
            /\ acker'[p].gen = acker[p].gen /\ done' = done
         \/ /\ acker[p].at = "newline" /\ Writes(p, Newline)
            /\ acker'[p].at = "idle" /\ acker'[p].ack = 0
            /\ done' = done \cup {acker[p].ack}
<1>1. LogTypes
  BY DEF MemoryIInv
<1>2. acker[p] \in Progress /\ acker \in [Analyst -> Progress]
  BY <1>1 DEF LogTypes, Progress
<1>3. acker[p].at \in {"idle", "open", "text", "newline"} /\ acker[p].ack \in Nat /\ acker[p].gen \in Nat
  BY <1>1, AckerTypes
<1>7. exists /\ acker[p].gen = gen /\ Torn => acker[p].ack \in glued'
  BY DEF AckWrite, Torn, Last
<1>4. CASE acker[p].at = "text"
  <2> DEFINE r == [at |-> "newline", ack |-> acker[p].ack, gen |-> acker[p].gen]
  <2>1. r \in Progress
    BY <1>3 DEF Progress
  <2>2. acker' = [acker EXCEPT ![p] = r]
    <3>1. acker' = [acker EXCEPT ![p].at = "newline"]
      BY <1>4 DEF AckWrite
    <3>2. acker' = [acker EXCEPT ![p] = [acker[p] EXCEPT !.at = "newline"]]
      BY <1>2, <3>1
    <3>3. [acker[p] EXCEPT !.at = "newline"] = r
      BY <1>2 DEF Progress
    <3>4. QED
      BY <3>2, <3>3
  <2>3. r.at = "newline" /\ r.ack = acker[p].ack /\ r.gen = acker[p].gen
    OBVIOUS
  <2> HIDE DEF r
  <2>4. /\ acker' \in [Analyst -> Progress] /\ acker'[p] = r
        /\ \A q \in Analyst : q # p => acker'[q] = acker[q]
    BY <1>1, <2>1, <2>2, Moves
  <2>5. /\ exists' = exists /\ gen' = gen /\ done' = done
        /\ \/ exists /\ acker[p].gen = gen /\ log' = Append(log, acker[p].ack) /\ touched' = now
           \/ ~(exists /\ acker[p].gen = gen) /\ log' = log /\ touched' = touched
    BY <1>4 DEF AckWrite
  <2>6. QED
    BY <1>4, <1>7, <2>3, <2>4, <2>5 DEF Writes
<1>5. CASE acker[p].at = "newline"
  <2> DEFINE r == NotAcking
  <2>1. r \in Progress /\ r.at = "idle" /\ r.ack = 0
    BY DEF Progress, NotAcking
  <2>2. acker' = [acker EXCEPT ![p] = r]
    BY <1>5 DEF AckWrite
  <2> HIDE DEF r
  <2>3. /\ acker' \in [Analyst -> Progress] /\ acker'[p] = r
        /\ \A q \in Analyst : q # p => acker'[q] = acker[q]
    BY <1>1, <2>1, <2>2, Moves
  <2>4. /\ exists' = exists /\ gen' = gen /\ done' = done \cup {acker[p].ack}
        /\ \/ exists /\ acker[p].gen = gen /\ log' = Append(log, Newline) /\ touched' = now
           \/ ~(exists /\ acker[p].gen = gen) /\ log' = log /\ touched' = touched
    BY <1>5 DEF AckWrite
  <2>5. QED
    BY <1>5, <1>7, <2>1, <2>3, <2>4 DEF Writes
<1>6. acker[p].at = "text" \/ acker[p].at = "newline"
  BY DEF AckWrite
<1>8. QED
  BY <1>4, <1>5, <1>6

LEMMA KillMoves ==
  ASSUME MemoryIInv, NEW p \in Analyst, AckKill(p)
  PROVE  /\ acker' \in [Analyst -> Progress] /\ acker[p].at # "idle"
         /\ acker'[p].at = "idle" /\ acker'[p].ack = 0
         /\ \A q \in Analyst : q # p => acker'[q] = acker[q]
         /\ killed' = killed \cup {acker[p].ack}
<1>1. LogTypes
  BY DEF MemoryIInv
<1> DEFINE r == NotAcking
<1>2. r \in Progress /\ r.at = "idle" /\ r.ack = 0
  BY DEF Progress, NotAcking
<1>3. /\ acker' = [acker EXCEPT ![p] = r] /\ acker[p].at # "idle"
      /\ killed' = killed \cup {acker[p].ack}
  BY DEF AckKill
<1> HIDE DEF r
<1>4. QED
  BY <1>1, <1>2, <1>3, Moves

LEMMA BeginMoves ==
  ASSUME MemoryIInv, NEW p \in Analyst, NEW r \in Rule, AckBegin(p, r)
  PROVE  /\ acker' \in [Analyst -> Progress] /\ acker[p].at = "idle"
         /\ acker'[p].at = "open" /\ acker'[p].ack = Len(acks) + 1
         /\ \A q \in Analyst : q # p => acker'[q] = acker[q]
         /\ Len(acks) \in Nat /\ DOMAIN acks' = DOMAIN acks \cup {Len(acks) + 1}
         /\ \A k \in DOMAIN acks : acks'[k] = acks[k]
         /\ acks'[Len(acks) + 1].ts = now /\ acks'[Len(acks) + 1].upto = Len(alerts)
         /\ acks'[Len(acks) + 1].epoch = epoch
         /\ disturbed \subseteq disturbed'
         /\ ret.at # "idle" \/ Cardinality(InFlight \cup {Len(acks) + 1}) > 1 =>
              InFlight \cup {Len(acks) + 1} \subseteq disturbed'
<1>1. LogTypes /\ ClockInv
  BY DEF MemoryIInv
<1>2. acks \in Seq(GivenRecord)
  BY <1>1 DEF ClockInv
<1> PICK n \in Nat : n = Len(acks)
  BY <1>2
<1> DEFINE x == [rule |-> r, ts |-> now, epoch |-> epoch, upto |-> Len(alerts)]
<1>3. /\ acks' = Append(acks, x) /\ x.ts = now /\ x.upto = Len(alerts)
      /\ x.epoch = epoch
  BY DEF AckBegin
<1> HIDE DEF x
<1>4. /\ DOMAIN acks' = DOMAIN acks \cup {n + 1}
      /\ \A k \in DOMAIN acks : acks'[k] = acks[k]
      /\ acks'[n + 1] = x
  BY <1>2, <1>3
<1> DEFINE y == [at |-> "open", ack |-> n + 1, gen |-> 0]
<1>5. acker' = [acker EXCEPT ![p] = y] /\ acker[p].at = "idle"
  BY DEF AckBegin
<1>6. y \in Progress /\ y.at = "open" /\ y.ack = n + 1
  BY DEF Progress
<1> HIDE DEF y
<1>7. /\ acker' \in [Analyst -> Progress] /\ acker'[p] = y
      /\ \A q \in Analyst : q # p => acker'[q] = acker[q]
  BY <1>1, <1>5, <1>6, Moves
<1>8. /\ disturbed \subseteq disturbed'
      /\ ret.at # "idle" \/ Cardinality(InFlight \cup {n + 1}) > 1 =>
           InFlight \cup {n + 1} \subseteq disturbed'
  BY DEF AckBegin, Meet
<1>9. QED
  BY <1>3, <1>4, <1>5, <1>6, <1>7, <1>8

RunRecord == [at : {"idle", "delete", "read", "remove", "truncate", "write"}, cutoff : Int,
              hours : SUBSET Int, log : BOOLEAN, keep : Seq(Seq(Nat))]

LEMMA RunFields ==
  ASSUME RunTypes
  PROVE  /\ ret \in RunRecord
         /\ ret.at \in {"idle", "delete", "read", "remove", "truncate", "write"}
         /\ ret.cutoff \in Int /\ ret.hours \in SUBSET Int /\ ret.log \in BOOLEAN
         /\ ret.keep \in Seq(Seq(Nat))
<1>1. ret \in RunRecord
  BY DEF RunTypes, RunRecord
<1>2. QED
  BY <1>1 DEF RunRecord

\* Retention goes on to another step.
LEMMA RunMoves ==
  ASSUME RunTypes, NEW a \in {"read", "remove", "truncate", "write"}, ret' = [ret EXCEPT !.at = a]
  PROVE  /\ ret' \in RunRecord /\ ret'.at = a /\ ret'.cutoff = ret.cutoff
         /\ ret'.hours = ret.hours /\ ret'.log = ret.log /\ ret'.keep = ret.keep
<1>1. ret \in RunRecord
  BY RunFields
<1>2. QED
  BY <1>1 DEF RunRecord

LEMMA RunKeeps ==
  ASSUME RunTypes, NEW a \in {"remove", "truncate"}, NEW kept \in Seq(Seq(Nat)),
         ret' = [ret EXCEPT !.at = a, !.keep = kept]
  PROVE  /\ ret' \in RunRecord /\ ret'.at = a /\ ret'.cutoff = ret.cutoff
         /\ ret'.hours = ret.hours /\ ret'.log = ret.log /\ ret'.keep = kept
<1>1. ret \in RunRecord
  BY RunFields
<1> DEFINE x == [ret EXCEPT !.at = a]
<1>2. /\ x \in RunRecord /\ x.at = a /\ x.cutoff = ret.cutoff
      /\ x.hours = ret.hours /\ x.log = ret.log
  BY <1>1 DEF RunRecord
<1>3. ret' = [x EXCEPT !.keep = kept]
  OBVIOUS
<1> HIDE DEF x
<1>4. /\ ret' \in RunRecord /\ ret'.at = x.at /\ ret'.cutoff = x.cutoff
      /\ ret'.hours = x.hours /\ ret'.log = x.log /\ ret'.keep = kept
  BY <1>2, <1>3 DEF RunRecord
<1>5. QED
  BY <1>2, <1>4

LEMMA NoRunFields ==
  NoRun \in RunRecord /\ NoRun.at = "idle"
BY DEF NoRun, RunRecord

\* A retention run starts, with the files to remove.
Starts(cutoff) ==
    /\ ret.at = "idle"
    /\ ret' \in RunRecord /\ ret'.at = "delete" /\ ret'.cutoff = cutoff
    /\ ret'.hours = OldHours(cutoff)
    /\ ret'.log => exists /\ touched < cutoff
    /\ disturbed' = disturbed \cup InFlight
    /\ cutoffs' = cutoffs \cup {cutoff}

LEMMA CollectMoves ==
  ASSUME MemoryIInv, NEW days \in Days, Collect(days)
  PROVE  \/ ret' = ret /\ disturbed' = disturbed /\ cutoffs' = cutoffs
         \/ \E cutoff \in Int : Starts(cutoff)
<1> PICK c \in Int : c = now - days
  <2>1. now \in Nat /\ days \in Nat
    BY AckLogAssumption DEF MemoryIInv, ClockInv
  <2>2. QED
    BY <2>1
<1> DEFINE old == OldHours(c)
           logOld == exists /\ touched < c
           x == [NoRun EXCEPT !.at = "delete", !.cutoff = c, !.hours = old, !.log = logOld]
<1>2. \/ ret' = ret /\ disturbed' = disturbed /\ cutoffs' = cutoffs
      \/ ret' = x /\ Meet(InFlight, TRUE) /\ cutoffs' = cutoffs \cup {c}
  BY DEF Collect
<1>3. ret.at = "idle"
  BY DEF Collect
<1>4. Meet(InFlight, TRUE) => disturbed' = disturbed \cup InFlight
  BY DEF Meet
<1>5. old \in SUBSET Int
  <2>1. \A i \in DOMAIN alerts : alerts[i].ts \in Nat
    BY Elements DEF MemoryIInv
  <2>2. \A i \in DOMAIN alerts : Hour(alerts[i].ts) \in Int
    BY <2>1, AckLogAssumption DEF Hour
  <2>3. QED
    BY <2>2 DEF OldHours
<1>6. logOld \in BOOLEAN
  OBVIOUS
<1> HIDE DEF old, logOld
<1>7. /\ x \in RunRecord /\ x.at = "delete" /\ x.cutoff = c /\ x.hours = old
      /\ x.log = logOld
  <2> DEFINE x1 == [NoRun EXCEPT !.at = "delete"]
             x2 == [x1 EXCEPT !.cutoff = c]
             x3 == [x2 EXCEPT !.hours = old]
  <2>1. x = [x3 EXCEPT !.log = logOld]
    OBVIOUS
  <2> HIDE DEF x
  <2>2. x1 \in RunRecord /\ x1.at = "delete"
    BY NoRunFields DEF RunRecord
  <2> HIDE DEF x1
  <2>3. x2 \in RunRecord /\ x2.at = "delete" /\ x2.cutoff = c
    BY <2>2 DEF RunRecord
  <2> HIDE DEF x2
  <2>4. x3 \in RunRecord /\ x3.at = "delete" /\ x3.cutoff = c /\ x3.hours = old
    BY <1>5, <2>3 DEF RunRecord
  <2> HIDE DEF x3
  <2>5. QED
    BY <1>6, <2>1, <2>4 DEF RunRecord
<1> HIDE DEF x
<1>8. ASSUME ret' = x, disturbed' = disturbed \cup InFlight, cutoffs' = cutoffs \cup {c}
      PROVE  Starts(c)
  BY <1>3, <1>7, <1>8 DEF Starts, old, logOld
<1>9. QED
  BY <1>2, <1>4, <1>8

\* Nothing that has happened is undone, and who begins while retention runs is disturbed.
LEMMA HistoryGrows ==
  ASSUME MemoryIInv, [Next]_vars
  PROVE  /\ DOMAIN alerts \subseteq DOMAIN alerts' /\ Len(alerts) <= Len(alerts')
         /\ \A i \in DOMAIN alerts : alerts'[i] = alerts[i]
         /\ DOMAIN acks \subseteq DOMAIN acks'
         /\ \A k \in DOMAIN acks : acks'[k] = acks[k]
         /\ ret.at # "idle" => DOMAIN acks' \ DOMAIN acks \subseteq disturbed'
         /\ deleted \subseteq deleted' /\ cutoffs \subseteq cutoffs'
         /\ disturbed \subseteq disturbed' /\ glued \subseteq glued'
         /\ killed \subseteq killed' /\ swept \subseteq swept'
<1> DEFINE Past == <<deleted, cutoffs, disturbed, glued, killed, swept>>
<1>1. ClockInv
  BY DEF MemoryIInv
<1>2. Len(alerts) <= Len(alerts)
  BY <1>1 DEF ClockInv
<1>3. ASSUME NEW r \in Rule \cup {NoRule}, Fire(r)
      PROVE  /\ DOMAIN alerts \subseteq DOMAIN alerts' /\ Len(alerts) <= Len(alerts')
             /\ \A i \in DOMAIN alerts : alerts'[i] = alerts[i]
             /\ acks' = acks /\ UNCHANGED Past
  <2> DEFINE x == [rule |-> r, ts |-> now, epoch |-> epoch]
  <2>1. alerts' = Append(alerts, x)
    BY <1>3 DEF Fire
  <2>2. acks' = acks /\ UNCHANGED Past
    BY <1>3 DEF Fire, lost
  <2> HIDE DEF x
  <2>3. alerts \in Seq(FiredRecord)
    BY <1>1 DEF ClockInv
  <2>4. /\ Len(alerts) \in Nat /\ Len(alerts') = Len(alerts) + 1
        /\ DOMAIN alerts' = DOMAIN alerts \cup {Len(alerts) + 1}
        /\ \A i \in DOMAIN alerts : alerts'[i] = alerts[i]
    BY <2>1, <2>3
  <2>5. QED
    BY <2>2, <2>4
<1>4. ASSUME NEW p \in Analyst, NEW r \in Rule, AckBegin(p, r)
      PROVE  /\ DOMAIN acks \subseteq DOMAIN acks'
             /\ \A k \in DOMAIN acks : acks'[k] = acks[k]
             /\ ret.at # "idle" => DOMAIN acks' \ DOMAIN acks \subseteq disturbed'
             /\ disturbed \subseteq disturbed'
             /\ UNCHANGED <<alerts, deleted, cutoffs, glued, killed, swept>>
  <2>1. UNCHANGED <<alerts, deleted, cutoffs, glued, killed, swept>>
    BY <1>4 DEF AckBegin
  <2>2. QED
    BY <1>4, <2>1, BeginMoves
<1>5. ASSUME UNCHANGED <<alerts, acks>>, deleted \subseteq deleted', cutoffs \subseteq cutoffs',
             disturbed \subseteq disturbed', glued \subseteq glued', killed \subseteq killed',
             swept \subseteq swept'
      PROVE  /\ DOMAIN alerts \subseteq DOMAIN alerts' /\ Len(alerts) <= Len(alerts')
             /\ \A i \in DOMAIN alerts : alerts'[i] = alerts[i]
             /\ DOMAIN acks \subseteq DOMAIN acks'
             /\ \A k \in DOMAIN acks : acks'[k] = acks[k]
             /\ ret.at # "idle" => DOMAIN acks' \ DOMAIN acks \subseteq disturbed'
  BY <1>2, <1>5
<1>6. CASE UNCHANGED <<alerts, acks, Past>>
  BY <1>5, <1>6
<1>7. CASE Tick \/ SetBack
  BY <1>6, <1>7 DEF Tick, SetBack, lost
<1>8. ASSUME NEW p \in Analyst, AckOpen(p) PROVE UNCHANGED <<alerts, acks, Past>>
  BY <1>8 DEF AckOpen, lost
<1>9. ASSUME NEW p \in Analyst, AckWrite(p)
      PROVE  /\ UNCHANGED <<alerts, acks, deleted, cutoffs, disturbed, killed, swept>>
             /\ glued \subseteq glued'
  BY <1>9 DEF AckWrite
<1>10. ASSUME NEW p \in Analyst, AckKill(p)
       PROVE  /\ UNCHANGED <<alerts, acks, deleted, cutoffs, disturbed, glued, swept>>
              /\ killed \subseteq killed'
  BY <1>10 DEF AckKill
<1>11. ASSUME NEW days \in Days, Collect(days)
       PROVE  /\ cutoffs \subseteq cutoffs' /\ disturbed \subseteq disturbed'
              /\ UNCHANGED <<alerts, acks, deleted, glued, killed, swept>>
  BY <1>11 DEF Collect, Meet
<1>12. CASE Delete
  <2>1. /\ UNCHANGED <<alerts, acks, cutoffs, disturbed, glued, killed>>
        /\ deleted \subseteq deleted' /\ swept \subseteq swept'
    BY <1>12 DEF Delete
  <2>2. QED
    BY <1>5, <2>1
<1>13. CASE CompactRead \/ CompactRemove \/ CompactTruncate \/ CompactWrite
  BY <1>6, <1>13 DEF CompactRead, CompactRemove, CompactTruncate, CompactWrite, lost
<1>14. CASE Kill
  <2>1. /\ UNCHANGED <<alerts, acks, deleted, cutoffs, glued, killed, swept>>
        /\ disturbed \subseteq disturbed'
    BY <1>14 DEF Kill
  <2>2. QED
    BY <1>5, <2>1
<1>15. CASE UNCHANGED vars
  BY <1>6, <1>15 DEF vars, lost
<1>16. CASE \E r \in Rule \cup {NoRule} : Fire(r)
  BY <1>3, <1>16
<1>17. CASE \E p \in Analyst : \E r \in Rule : AckBegin(p, r)
  BY <1>2, <1>4, <1>17
<1>18. CASE \E p \in Analyst : AckOpen(p) \/ AckWrite(p) \/ AckKill(p)
  BY <1>5, <1>8, <1>9, <1>10, <1>18
<1>19. CASE \E days \in Days : Collect(days)
  BY <1>5, <1>11, <1>19
<1>20. QED
  BY <1>7, <1>12, <1>13, <1>14, <1>15, <1>16, <1>17, <1>18, <1>19 DEF Next

(***************************************************************************)
(* The types, and the age of acknowledgements.                             *)
(***************************************************************************)

LEMMA SurvivorsTyped ==
  ASSUME log \in Seq(Nat), NEW cutoff
  PROVE  /\ Survivors(cutoff) \in Seq(Seq(Nat))
         /\ \A m \in 1..Len(LogLines(log)) : Keeps(LogLines(log)[m], cutoff) =>
              \E k \in 1..Len(Survivors(cutoff)) : Survivors(cutoff)[k] = LogLines(log)[m]
<1> DEFINE lines == LogLines(log)
           at == {k \in DOMAIN lines : Keeps(lines[k], cutoff)}
<1>1. lines \in Seq(Seq(Nat))
  BY LogLinesFacts
<1> HIDE DEF lines
<1>2. at \in SUBSET (1..Len(lines))
  BY <1>1
<1>3. \A m \in 1..Len(lines) : Keeps(lines[m], cutoff) => m \in at
  BY <1>1
<1>4. Survivors(cutoff) = Pick(lines, at)
  BY DEF Survivors, lines
<1> HIDE DEF at
<1>5. /\ Pick(lines, at) \in Seq(Seq(Nat))
      /\ \A i \in at : \E k \in 1..Len(Pick(lines, at)) : Pick(lines, at)[k] = lines[i]
  BY <1>1, <1>2, PickFacts
<1>6. QED
  BY <1>3, <1>4, <1>5 DEF lines

LEMMA LogTypesKept ==
  ASSUME MemoryIInv, [Next]_vars
  PROVE  LogTypes'
<1>1. ClockInv /\ LogTypes /\ RunTypes /\ AckersInv
  BY DEF MemoryIInv
<1>2. now \in Nat
  BY <1>1 DEF ClockInv
<1>3. DOMAIN acks \subseteq DOMAIN acks'
  BY HistoryGrows
<1>4. /\ log \in Seq(Nat) /\ gen \in Nat /\ exists \in BOOLEAN
      /\ touched \in Nat
      /\ acker \in [Analyst -> Progress] /\ done \subseteq DOMAIN acks
  BY <1>1 DEF LogTypes, Progress
<1>5. touched' = touched \/ touched' = now => touched' \in Nat
  BY <1>2, <1>4
<1>6. ASSUME log' \in Seq(Nat), gen' \in Nat, exists' \in BOOLEAN, touched' = touched \/ touched' = now,
             acker' \in [Analyst -> Progress], done' \subseteq DOMAIN acks
      PROVE  LogTypes'
  BY <1>3, <1>5, <1>6 DEF LogTypes, Progress
<1>7. CASE UNCHANGED <<file, acker, done>>
  BY <1>4, <1>6, <1>7 DEF file
<1>8. ASSUME NEW p \in Analyst, NEW r \in Rule, AckBegin(p, r) PROVE LogTypes'
  <2>1. UNCHANGED <<file, done>>
    BY <1>8 DEF AckBegin
  <2>2. QED
    BY <1>4, <1>6, <1>8, <2>1, BeginMoves DEF file
<1>9. ASSUME NEW p \in Analyst, AckOpen(p) PROVE LogTypes'
  <2>1. done' = done
    BY <1>9 DEF AckOpen
  <2>2. QED
    BY <1>4, <1>6, <1>9, <2>1, OpenMoves
<1>10. ASSUME NEW p \in Analyst, AckWrite(p) PROVE LogTypes'
  <2>1. acker[p].ack \in Nat /\ Newline \in Nat
    BY <1>1, AckerTypes DEF Newline
  <2>2. ASSUME NEW e \in Nat, Writes(p, e)
        PROVE  /\ log' \in Seq(Nat) /\ gen' \in Nat /\ exists' \in BOOLEAN
               /\ touched' = touched \/ touched' = now
               /\ acker' \in [Analyst -> Progress]
    <3>1. Append(log, e) \in Seq(Nat)
      BY <1>4
    <3>2. QED
      BY <1>4, <2>2, <3>1 DEF Writes
  <2>3. acker[p].at # "idle" => acker[p].ack \in DOMAIN acks
    BY <1>1 DEF AckersInv, AckerInv
  <2>4. CASE Writes(p, acker[p].ack) /\ done' = done
    BY <1>4, <1>6, <2>1, <2>2, <2>4
  <2>5. CASE acker[p].at = "newline" /\ Writes(p, Newline) /\ done' = done \cup {acker[p].ack}
    <3>1. done' \subseteq DOMAIN acks
      BY <1>4, <2>3, <2>5
    <3>2. QED
      BY <1>6, <2>1, <2>2, <2>5, <3>1
  <2>6. QED
    BY <1>10, <2>4, <2>5, WriteMoves
<1>11. CASE Delete \/ CompactRemove
  <2>1. \/ log' = << >> /\ exists' = FALSE
        \/ log' = log /\ exists' = exists
    BY <1>11 DEF Delete, CompactRemove
  <2>2. UNCHANGED <<gen, touched, acker, done>>
    BY <1>11 DEF Delete, CompactRemove
  <2>3. << >> \in Seq(Nat)
    OBVIOUS
  <2>4. QED
    BY <1>4, <1>6, <2>1, <2>2, <2>3
<1>12. CASE CompactTruncate
  <2>1. /\ log' = << >> /\ touched' = now /\ UNCHANGED <<acker, done>>
        /\ \/ UNCHANGED <<exists, gen>>
           \/ exists' = TRUE /\ gen' = gen + 1
    BY <1>12 DEF CompactTruncate
  <2>2. << >> \in Seq(Nat) /\ gen + 1 \in Nat
    BY <1>4
  <2>3. QED
    BY <1>4, <1>6, <2>1, <2>2
<1>13. CASE CompactWrite
  <2>1. log' = Written(ret.keep) \o SubSeq(log, Len(Written(ret.keep)) + 1, Len(log))
    BY <1>13 DEF CompactWrite, Written
  <2>2. touched' = now /\ UNCHANGED <<acker, done, exists, gen>>
    BY <1>13 DEF CompactWrite
  <2>3. ret.keep \in Seq(Seq(Nat)) /\ ret.keep # << >>
    BY <1>1, <1>13, RunFields DEF MemoryIInv, SweepInv, CompactWrite
  <2>4. Written(ret.keep) \in Seq(Nat)
    BY <2>3, WrittenFacts DEF WrittenUpTo
  <2> PICK u \in Seq(Nat) : u = Written(ret.keep)
    BY <2>4
  <2>5. SubSeq(log, Len(u) + 1, Len(log)) \in Seq(Nat)
    BY <1>4
  <2>6. log' \in Seq(Nat)
    BY <2>1, <2>5
  <2>7. QED
    BY <1>4, <1>6, <2>2, <2>6
<1>14. CASE UNCHANGED vars
  BY <1>7, <1>14 DEF vars
<1>15. ASSUME NEW r \in Rule \cup {NoRule}, Fire(r) PROVE LogTypes'
  BY <1>7, <1>15 DEF Fire
<1>16. ASSUME NEW days \in Days, Collect(days) PROVE LogTypes'
  BY <1>7, <1>16 DEF Collect
<1>17. CASE Tick \/ SetBack \/ CompactRead \/ Kill
  BY <1>7, <1>17 DEF Tick, SetBack, CompactRead, Kill
<1>18. ASSUME NEW p \in Analyst, AckKill(p) PROVE LogTypes'
  <2>1. UNCHANGED <<file, done>>
    BY <1>18 DEF AckKill
  <2>2. QED
    BY <1>4, <1>6, <1>18, <2>1, KillMoves DEF file
<1>19. QED
  BY <1>8, <1>9, <1>10, <1>11, <1>12, <1>13, <1>14, <1>15, <1>16, <1>17,
     <1>18 DEF Next

LEMMA RunTypesKept ==
  ASSUME MemoryIInv, [Next]_vars
  PROVE  RunTypes'
<1>1. ClockInv /\ LogTypes /\ RunTypes
  BY DEF MemoryIInv
<1>3. cutoffs \subseteq cutoffs'
  BY HistoryGrows
<1>4. ret \in RunRecord /\ ret.cutoff \in Int
      /\ (ret.at # "idle" => ret.cutoff \in cutoffs)
  BY <1>1, RunFields DEF RunTypes
<1>5. ASSUME ret' \in RunRecord, ret'.cutoff = ret.cutoff, ret.at # "idle" PROVE RunTypes'
  BY <1>3, <1>4, <1>5 DEF RunTypes, RunRecord
<1>6. ASSUME ret' = NoRun PROVE RunTypes'
  BY <1>6, NoRunFields DEF RunTypes, RunRecord
<1>7. ASSUME ret' = ret PROVE RunTypes'
  BY <1>3, <1>4, <1>7 DEF RunTypes, RunRecord
<1>8. ASSUME NEW days \in Days, Collect(days) PROVE RunTypes'
  <2>2. ASSUME NEW c \in Int, Starts(c) PROVE RunTypes'
    BY <2>2 DEF Starts, RunTypes, RunRecord
  <2>3. QED
    BY <1>7, <1>8, <2>2, CollectMoves
<1>9. CASE Delete
  <2>1. ret' = [ret EXCEPT !.at = "read"] /\ ret.at # "idle"
    BY <1>9 DEF Delete
  <2>2. QED
    BY <1>1, <1>5, <2>1, RunMoves
<1>10. CASE CompactTruncate
  <2>1. ret' = [ret EXCEPT !.at = "write"] /\ ret.at # "idle"
    BY <1>10 DEF CompactTruncate
  <2>2. QED
    BY <1>1, <1>5, <2>1, RunMoves
<1>11. CASE CompactRead
  <2> DEFINE keep == Survivors(ret.cutoff)
  <2>1. keep \in Seq(Seq(Nat))
    BY <1>1, SurvivorsTyped DEF LogTypes
  <2>2. /\ ret.at # "idle"
        /\ \/ ret' = NoRun
           \/ ret' = [ret EXCEPT !.at = "remove", !.keep = keep]
           \/ ret' = [ret EXCEPT !.at = "truncate", !.keep = keep]
    BY <1>11 DEF CompactRead
  <2> HIDE DEF keep
  <2>3. QED
    BY <1>1, <1>5, <1>6, <2>1, <2>2, RunKeeps
<1>12. CASE CompactRemove \/ CompactWrite \/ Kill
  BY <1>6, <1>12 DEF CompactRemove, CompactWrite, Kill
<1>13. CASE UNCHANGED vars
  BY <1>7, <1>13 DEF vars
<1>14. ASSUME NEW r \in Rule \cup {NoRule}, Fire(r) PROVE RunTypes'
  BY <1>7, <1>14 DEF Fire
<1>15. ASSUME NEW p \in Analyst, NEW r \in Rule, AckBegin(p, r) PROVE RunTypes'
  BY <1>7, <1>15 DEF AckBegin
<1>16. ASSUME NEW p \in Analyst, AckOpen(p) \/ AckWrite(p) \/ AckKill(p) PROVE RunTypes'
  BY <1>7, <1>16 DEF AckOpen, AckWrite, AckKill
<1>17. CASE Tick \/ SetBack
  BY <1>7, <1>17 DEF Tick, SetBack
<1>18. QED
  BY <1>8, <1>9, <1>10, <1>11, <1>12, <1>13, <1>14, <1>15, <1>16, <1>17 DEF Next

LEMMA CoverKept ==
  ASSUME MemoryIInv, [Next]_vars
  PROVE  CoverInv'
<1>1. ClockInv /\ CoverInv
  BY DEF MemoryIInv
<1>2. Len(alerts) \in Nat /\ DOMAIN alerts = 1..Len(alerts)
  BY <1>1 DEF ClockInv
<1>3. ASSUME NEW k \in DOMAIN acks
      PROVE  /\ acks'[k].upto <= Len(alerts')
             /\ \A i \in 1..acks'[k].upto :
                    alerts'[i].ts <= acks'[k].ts \/ NeverCovered(k, i)'
  <2>1. acks'[k] = acks[k] /\ acks[k].upto \in Nat /\ acks[k].upto <= Len(alerts)
    BY <1>1, <1>3, HistoryGrows, Elements DEF CoverInv
  <2> PICK n \in Nat : n = acks[k].upto
    BY <2>1
  <2>2. n <= Len(alerts')
    <3>1. Len(alerts) <= Len(alerts') /\ Len(alerts') \in Nat
      BY <1>1, ClockKept, HistoryGrows DEF ClockInv
    <3>2. QED
      BY <1>2, <2>1, <3>1
  <2>3. \A i \in 1..n : i \in DOMAIN alerts
    BY <1>2, <2>1
  <2>4. \A i \in 1..n : alerts'[i] = alerts[i]
    BY <2>3, HistoryGrows
  <2>5. \A i \in 1..n : alerts[i].ts <= acks[k].ts \/ NeverCovered(k, i)
    BY <1>1 DEF CoverInv
  <2>6. \A i \in 1..n : NeverCovered(k, i) => NeverCovered(k, i)'
    BY <2>1, <2>4 DEF NeverCovered
  <2>7. QED
    BY <2>1, <2>2, <2>4, <2>5, <2>6
<1>4. ASSUME NEW p \in Analyst, NEW r \in Rule, AckBegin(p, r) PROVE CoverInv'
  <2> PICK n \in Nat : n = Len(acks)
    BY <1>1 DEF ClockInv
  <2>1. /\ DOMAIN acks' = DOMAIN acks \cup {n + 1}
        /\ acks'[n + 1].ts = now /\ acks'[n + 1].upto = Len(alerts)
        /\ acks'[n + 1].epoch = epoch
    BY <1>4, BeginMoves
  <2>2. alerts' = alerts
    BY <1>4 DEF AckBegin
  <2>3. ASSUME NEW i \in 1..Len(alerts)
        PROVE  alerts'[i].ts <= acks'[n + 1].ts \/ NeverCovered(n + 1, i)'
    <3>1. /\ alerts[i].ts \in Nat /\ alerts[i].epoch \in Nat /\ now \in Nat /\ epoch \in Nat
          /\ alerts[i].epoch <= epoch /\ (alerts[i].epoch = epoch => alerts[i].ts <= now)
      BY <1>1, <1>2, Elements DEF ClockInv
    <3>2. alerts[i].ts <= now \/ (alerts[i].ts > now /\ alerts[i].epoch < epoch)
      BY <3>1
    <3>3. QED
      BY <2>1, <2>2, <3>2 DEF NeverCovered
  <2>4. Len(alerts') <= Len(alerts')
    BY <1>2, <2>2
  <2>5. QED
    BY <1>3, <2>1, <2>2, <2>3, <2>4 DEF CoverInv
<1>5. CASE acks' = acks
  BY <1>3, <1>5 DEF CoverInv
<1>6. acks' = acks \/ \E p \in Analyst : \E r \in Rule : AckBegin(p, r)
  BY DEF Next, vars, Fire, Tick, SetBack, AckOpen, AckWrite, AckKill, Collect, Delete,
         CompactRead, CompactRemove, CompactTruncate, CompactWrite, Kill
<1>7. QED
  BY <1>4, <1>5, <1>6

(***************************************************************************)
(* Who is alone.                                                           *)
(***************************************************************************)

\* Acknowledgements in flight are given ones, and not returned.
LEMMA FlightFacts ==
  ASSUME MemoryIInv
  PROVE  /\ \A p \in Analyst : acker[p].at # "idle" => acker[p].ack \in InFlight
         /\ InFlight \subseteq DOMAIN acks
         /\ 0 \notin DOMAIN acks
<1>1. AckersInv /\ ClockInv
  BY DEF MemoryIInv
<1>2. 0 \notin DOMAIN acks
  BY <1>1 DEF ClockInv
<1>3. ASSUME NEW p \in Analyst
      PROVE  IF acker[p].at = "idle" THEN acker[p].ack = 0 ELSE acker[p].ack \in DOMAIN acks
  BY <1>1 DEF AckersInv, AckerInv
<1>4. QED
  BY <1>2, <1>3 DEF InFlight

\* Two acknowledgements in flight are counted.
LEMMA TwoInFlight ==
  ASSUME MemoryIInv, NEW a \in InFlight
  PROVE  Cardinality(InFlight \cup {Len(acks) + 1}) > 1
<1> PICK n \in Nat : n = Len(acks)
  BY DEF MemoryIInv, ClockInv
<1>1. InFlight \subseteq 1..n
  <2>1. DOMAIN acks = 1..n
    BY DEF MemoryIInv, ClockInv
  <2>2. QED
    BY <2>1, FlightFacts
<1> DEFINE F == InFlight \cup {n + 1}
<1>2. IsFiniteSet(F)
  <2>1. 1 \in Int /\ n + 1 \in Int
    OBVIOUS
  <2>2. IsFiniteSet(1..(n + 1))
    BY <2>1, FS_Interval
  <2>3. \A x \in F : x \in 1..(n + 1)
    <3>1. \A x \in 1..n : x \in 1..(n + 1)
      OBVIOUS
    <3>2. n + 1 \in 1..(n + 1)
      OBVIOUS
    <3>3. QED
      BY <1>1, <3>1, <3>2
  <2> HIDE DEF F
  <2>4. QED
    BY <2>2, <2>3, FS_Subset
<1>3. a # n + 1
  BY <1>1
<1> DEFINE G == {a} \cup {n + 1}
<1>4. G \in SUBSET F
  OBVIOUS
<1>5. IsFiniteSet({a}) /\ Cardinality({a}) = 1
  BY FS_Singleton
<1>6. Cardinality(G) = Cardinality({a}) + 1
  <2>1. n + 1 \notin {a}
    BY <1>3
  <2>2. QED
    BY <1>5, <2>1, FS_AddElement
<1> HIDE DEF F, G
<1>7. Cardinality(G) <= Cardinality(F)
  BY <1>2, <1>4, FS_Subset
<1>8. Cardinality(F) \in Nat
  BY <1>2, FS_CardinalityType
<1>9. Cardinality(F) > 1
  BY <1>5, <1>6, <1>7, <1>8
<1>10. QED
  BY <1>9 DEF F

LEMMA AckersKept ==
  ASSUME MemoryIInv, [Next]_vars
  PROVE  AckersInv'
<1>1. /\ \A p \in Analyst : AckerInv(p)
      /\ \A p, q \in Analyst : ApartInv(p, q)
  BY DEF MemoryIInv, AckersInv
<1>2. DOMAIN acks \subseteq DOMAIN acks' /\ disturbed \subseteq disturbed'
  BY HistoryGrows
<1>3. ASSUME acker' = acker, done' = done,
             \A p \in Analyst : acker[p].at # "idle" /\ ret'.at # "idle" =>
                 acker[p].ack \in disturbed'
      PROVE  AckersInv'
  <2>1. \A p \in Analyst : AckerInv(p)'
    BY <1>1, <1>2, <1>3 DEF AckerInv
  <2>2. \A p, q \in Analyst : ApartInv(p, q)'
    BY <1>1, <1>2, <1>3 DEF ApartInv
  <2>3. QED
    BY <2>1, <2>2 DEF AckersInv
<1>4. ASSUME acker' = acker, done' = done, ret'.at # "idle" => ret.at # "idle"
      PROVE  AckersInv'
  <2>1. \A p \in Analyst : acker[p].at # "idle" /\ ret'.at # "idle" =>
                 acker[p].ack \in disturbed'
    BY <1>1, <1>2, <1>4 DEF AckerInv
  <2>2. QED
    BY <1>3, <1>4, <2>1
<1>5. ASSUME NEW p \in Analyst, NEW r \in Rule, AckBegin(p, r) PROVE AckersInv'
  <2>1. ret' = ret /\ done' = done
    BY <1>5 DEF AckBegin
  <2> PICK n \in Nat : n = Len(acks)
    BY DEF MemoryIInv, ClockInv
  <2>2. /\ acker[p].at = "idle" /\ acker'[p].at = "open" /\ acker'[p].ack = n + 1
        /\ \A q \in Analyst : q # p => acker'[q] = acker[q]
        /\ n + 1 \in DOMAIN acks' /\ DOMAIN acks = 1..n
        /\ ret.at # "idle" \/ Cardinality(InFlight \cup {n + 1}) > 1 =>
              InFlight \cup {n + 1} \subseteq disturbed'
    <3>1. DOMAIN acks = 1..n
      BY DEF MemoryIInv, ClockInv
    <3>2. QED
      BY <1>5, <3>1, BeginMoves
  <2>3. n + 1 \notin done /\ n + 1 \notin DOMAIN acks
    <3>1. n + 1 \notin DOMAIN acks
      BY <2>2
    <3>2. QED
      BY <3>1 DEF MemoryIInv, LogTypes
  <2>4. \A q \in Analyst : AckerInv(q)'
    <3>1. AckerInv(p)'
      BY <2>1, <2>2, <2>3 DEF AckerInv
    <3>2. \A q \in Analyst : q # p => AckerInv(q)'
      BY <1>1, <1>2, <2>1, <2>2 DEF AckerInv
    <3>3. QED
      BY <3>1, <3>2
  <2>5. ASSUME NEW q \in Analyst, q # p, acker[q].at # "idle"
        PROVE  /\ acker[q].ack # n + 1 /\ acker[q].ack \in disturbed'
               /\ n + 1 \in disturbed'
    <3>1. acker[q].ack \in InFlight
      BY <2>5, FlightFacts
    <3>2. acker[q].ack # n + 1
      BY <2>3, <3>1, FlightFacts
    <3>3. QED
      BY <2>2, <3>1, <3>2, TwoInFlight
  <2>6. \A q, s \in Analyst : ApartInv(q, s)'
    <3> SUFFICES ASSUME NEW q \in Analyst, NEW s \in Analyst, q # s,
                        acker'[q].at # "idle", acker'[s].at # "idle"
                 PROVE  acker'[q].ack # acker'[s].ack /\ acker'[q].ack \in disturbed'
      BY DEF ApartInv
    <3>1. CASE q = p
      <4>1. acker'[s] = acker[s]
        BY <2>2, <3>1
      <4>2. QED
        BY <2>2, <2>5, <3>1, <4>1
    <3>2. CASE s = p
      <4>1. acker'[q] = acker[q]
        BY <2>2, <3>2
      <4>2. QED
        BY <2>2, <2>5, <3>2, <4>1
    <3>3. CASE q # p /\ s # p
      <4>1. acker'[q] = acker[q] /\ acker'[s] = acker[s]
        BY <2>2, <3>3
      <4>2. QED
        BY <1>1, <1>2, <4>1 DEF ApartInv
    <3>4. QED
      BY <3>1, <3>2, <3>3
  <2>7. QED
    BY <2>4, <2>6 DEF AckersInv
<1>6. ASSUME NEW p \in Analyst, acker[p].at # "idle",
             \A q \in Analyst : q # p => acker'[q] = acker[q],
             ret' = ret, done \subseteq done',
             \/ acker'[p].at # "idle" /\ acker'[p].ack = acker[p].ack /\ done' = done
             \/ /\ acker'[p].at = "idle" /\ acker'[p].ack = 0
                /\ done' = done \/ done' = done \cup {acker[p].ack}
      PROVE  AckersInv'
  <2>1. AckerInv(p)'
    BY <1>1, <1>2, <1>6 DEF AckerInv
  <2>2. ASSUME NEW q \in Analyst, q # p PROVE AckerInv(q)'
    <3>1. acker'[q] = acker[q]
      BY <1>6, <2>2
    <3>2. acker[q].at # "idle" => acker[q].ack # acker[p].ack
      BY <1>1, <1>6, <2>2 DEF ApartInv
    <3>3. QED
      BY <1>1, <1>2, <1>6, <3>1, <3>2 DEF AckerInv
  <2>3. \A q, s \in Analyst : ApartInv(q, s)'
    <3> SUFFICES ASSUME NEW q \in Analyst, NEW s \in Analyst, q # s,
                        acker'[q].at # "idle", acker'[s].at # "idle"
                 PROVE  acker'[q].ack # acker'[s].ack /\ acker'[q].ack \in disturbed'
      BY DEF ApartInv
    <3>1. acker'[q].ack = acker[q].ack /\ acker[q].at # "idle"
      BY <1>6
    <3>2. acker'[s].ack = acker[s].ack /\ acker[s].at # "idle"
      BY <1>6
    <3>3. QED
      BY <1>1, <1>2, <3>1, <3>2 DEF ApartInv
  <2>4. QED
    BY <2>1, <2>2, <2>3 DEF AckersInv
<1>7. ASSUME NEW p \in Analyst, AckOpen(p) PROVE AckersInv'
  <2>1. acker[p].at # "idle" /\ ret' = ret /\ done' = done
    BY <1>7 DEF AckOpen
  <2>2. QED
    BY <1>6, <1>7, <2>1, OpenMoves
<1>8. ASSUME NEW p \in Analyst, AckWrite(p) PROVE AckersInv'
  <2>1. ret' = ret
    BY <1>8 DEF AckWrite
  <2>2. \A q \in Analyst : q # p => acker'[q] = acker[q]
    BY <1>8, WriteMoves DEF Writes
  <2>3. /\ acker[p].at # "idle" /\ done \subseteq done'
        /\ \/ acker'[p].at # "idle" /\ acker'[p].ack = acker[p].ack /\ done' = done
           \/ acker'[p].at = "idle" /\ acker'[p].ack = 0 /\ done' = done \cup {acker[p].ack}
    BY <1>8, WriteMoves
  <2>4. QED
    BY <1>6, <2>1, <2>2, <2>3
<1>9. ASSUME NEW days \in Days, Collect(days) PROVE AckersInv'
  <2>1. acker' = acker /\ done' = done
    BY <1>9 DEF Collect
  <2>2. CASE ret' = ret
    BY <1>4, <2>1, <2>2
  <2>3. ASSUME NEW c \in Int, Starts(c) PROVE AckersInv'
    <3>1. InFlight \subseteq disturbed'
      BY <2>3 DEF Starts
    <3>2. QED
      BY <1>3, <2>1, <3>1, FlightFacts
  <2>4. QED
    BY <1>9, <2>2, <2>3, CollectMoves
<1>10. CASE Delete \/ CompactRead \/ CompactRemove \/ CompactTruncate \/ CompactWrite \/ Kill
  BY <1>4, <1>10 DEF Delete, CompactRead, CompactRemove, CompactTruncate, CompactWrite, Kill
<1>11. CASE UNCHANGED vars
  BY <1>4, <1>11 DEF vars
<1>12. ASSUME NEW r \in Rule \cup {NoRule}, Fire(r) PROVE AckersInv'
  BY <1>4, <1>12 DEF Fire
<1>13. CASE Tick \/ SetBack
  BY <1>4, <1>13 DEF Tick, SetBack
<1>14. ASSUME NEW p \in Analyst, AckKill(p) PROVE AckersInv'
  <2>1. ret' = ret /\ done' = done
    BY <1>14 DEF AckKill
  <2>2. QED
    BY <1>6, <1>14, <2>1, KillMoves
<1>15. QED
  BY <1>5, <1>7, <1>8, <1>9, <1>10, <1>11, <1>12, <1>13, <1>14 DEF Next

(***************************************************************************)
(* The state of the file.                                                  *)
(***************************************************************************)

\* An undisturbed acknowledgement is alone.
LEMMA Alone ==
  ASSUME MemoryIInv, NEW p \in Analyst, acker[p].at # "idle", acker[p].ack \notin disturbed
  PROVE  /\ ret.at = "idle" /\ (acker[p].ack \notin glued => WriterInv(p))
         /\ acker[p].at = "text" => Complete(log) \/ Torn
<1>1. AckerInv(p) /\ \A q \in Analyst : ApartInv(p, q)
  BY DEF MemoryIInv, AckersInv
<1>2. ret.at = "idle"
  BY <1>1 DEF AckerInv
<1>3. \A q \in Analyst : q # p => acker[q].at = "idle"
  BY <1>1 DEF ApartInv
<1>4. acker[p].at = "text" => ~ Unfinished
  BY <1>3 DEF Unfinished
<1>5. /\ acker[p].ack \notin glued => WriterInv(p)
      /\ Complete(log) \/ Unfinished \/ Torn
  BY DEF MemoryIInv, FileInv
<1>6. QED
  BY <1>2, <1>4, <1>5

\* t ends with a newline, or as s does.
EndsAs(t, s) == t # << >> /\ (t[Len(t)] = Newline \/ (s # << >> /\ t[Len(t)] = s[Len(s)]))

\* What compaction leaves of the file ends as the lines it wrote, or as the file did.
LEMMA OverwrittenEnds ==
  ASSUME NEW u \in Seq(Nat), u # << >>, u[Len(u)] = Newline, NEW s \in Seq(Nat)
  PROVE  EndsAs(u \o SubSeq(s, Len(u) + 1, Len(s)), s)
<1> PICK a \in Nat : a = Len(u)
  OBVIOUS
<1> PICK b \in Nat : b = Len(s)
  OBVIOUS
<1> DEFINE v == SubSeq(s, a + 1, b)
<1>1. CASE b <= a
  <2>1. v = << >>
    BY <1>1
  <2> HIDE DEF v
  <2>2. u \o v = u
    BY <2>1
  <2>3. EndsAs(u, s)
    BY DEF EndsAs
  <2>4. QED
    BY <2>2, <2>3 DEF v
<1>2. CASE b > a
  <2>1. v \in Seq(Nat) /\ Len(v) = b - a /\ \A i \in 1..(b - a) : v[i] = s[a + i]
    BY <1>2
  <2>2. b - a \in 1..(b - a) /\ a + (b - a) = b
    BY <1>2
  <2>3. v[b - a] = s[b]
    BY <2>1, <2>2
  <2>4. s # << >>
    BY <1>2
  <2> HIDE DEF v
  <2>5. v # << >> /\ v[Len(v)] = s[b]
    BY <2>1, <2>2, <2>3
  <2>6. u \o v # << >> /\ (u \o v)[Len(u \o v)] = s[b]
    BY <2>1, <2>5, LastUnit
  <2>7. EndsAs(u \o v, s)
    BY <2>4, <2>6 DEF EndsAs
  <2>8. QED
    BY <2>7 DEF v
<1>3. QED
  BY <1>1, <1>2

\* The text of an acknowledgement goes to the end of a complete file.
LEMMA TextAtEnd ==
  ASSUME NEW s \in Seq(Nat), Complete(s), NEW e \in Nat
  PROVE  LET t == Append(s, e) IN
         /\ t # << >> /\ t[Len(t)] = e
         /\ Len(t) = 1 \/ t[Len(t) - 1] = Newline
<1> PICK n \in Nat : n = Len(s)
  OBVIOUS
<1> DEFINE t == Append(s, e)
<1>1. Len(t) = n + 1 /\ t[n + 1] = e /\ \A i \in 1..n : t[i] = s[i]
  OBVIOUS
<1>2. t # << >>
  BY LastAppended
<1> HIDE DEF t
<1>3. n = 0 \/ s[n] = Newline
  BY DEF Complete
<1>4. (n + 1) - 1 = n /\ (n # 0 => n \in 1..n)
  OBVIOUS
<1>5. n = 0 \/ t[(n + 1) - 1] = Newline
  BY <1>1, <1>3, <1>4
<1>6. Len(t) = 1 \/ t[Len(t) - 1] = Newline
  BY <1>1, <1>5
<1>7. QED
  BY <1>1, <1>2, <1>6 DEF t

\* The newline completes its line.
LEMMA LineWritten ==
  ASSUME NEW s \in Seq(Nat), NEW k \in Nat, s # << >>, s[Len(s)] = k,
         Len(s) = 1 \/ s[Len(s) - 1] = Newline
  PROVE  HasLine(Append(s, Newline), k)
<1> PICK n \in Nat : n = Len(s)
  OBVIOUS
<1> DEFINE t == Append(s, Newline)
<1>1. /\ Len(t) = n + 1 /\ t[n + 1] = Newline /\ n >= 1
      /\ \A i \in 1..n : t[i] = s[i]
  BY DEF Newline
<1> HIDE DEF t
<1>2. n \in 1..n /\ (n # 1 => n - 1 \in 1..n)
  BY <1>1
<1>3. t[n] = k /\ (n = 1 \/ t[n - 1] = Newline)
  BY <1>1, <1>2
<1>4. LineAt(t, k, n) /\ n \in 1..Len(t)
  BY <1>1, <1>2, <1>3 DEF LineAt
<1>5. QED
  BY <1>4 DEF HasLine, t

LEMMA FileKept ==
  ASSUME MemoryIInv, [Next]_vars
  PROVE  FileInv'
<1>1. /\ ~exists => log = << >>
      /\ ret.at = "write" => exists
      /\ Complete(log) \/ Unfinished \/ Torn
      /\ \A p \in Analyst : acker[p].ack \notin disturbed \cup glued => WriterInv(p)
  BY DEF MemoryIInv, FileInv
<1>2. disturbed \subseteq disturbed' /\ glued \subseteq glued' /\ killed \subseteq killed'
  BY HistoryGrows
<1>3. log \in Seq(Nat) /\ exists \in BOOLEAN /\ LogTypes /\ RunTypes
  BY DEF MemoryIInv, LogTypes
<1>4. ASSUME UNCHANGED <<file, acker>>, ret'.at = "write" => ret.at = "write"
      PROVE  FileInv'
  <2>1. Complete(log)' = Complete(log) /\ Unfinished' = Unfinished /\ (Torn => Torn')
    BY <1>2, <1>4 DEF Complete, Unfinished, Torn, file
  <2>2. \A p \in Analyst : WriterInv(p) => WriterInv(p)'
    BY <1>4 DEF WriterInv, file
  <2>3. QED
    BY <1>1, <1>2, <1>4, <2>1, <2>2 DEF FileInv, file
<1>5. ASSUME NEW p \in Analyst, NEW r \in Rule, AckBegin(p, r) PROVE FileInv'
  <2>1. UNCHANGED <<log, gen, exists, ret>>
    BY <1>5 DEF AckBegin, file
  <2>2. /\ acker[p].at = "idle" /\ acker'[p].at = "open"
        /\ \A q \in Analyst : q # p => acker'[q] = acker[q]
    BY <1>5, BeginMoves
  <2>3. Complete(log)' \/ Unfinished' \/ Torn'
    BY <1>1, <1>2, <2>1, <2>2 DEF Complete, Unfinished, Torn
  <2>4. ASSUME NEW q \in Analyst, acker'[q].ack \notin disturbed' \cup glued'
        PROVE  WriterInv(q)'
    <3>1. CASE q = p
      BY <2>2, <3>1 DEF WriterInv
    <3>2. CASE q # p
      <4>1. acker'[q] = acker[q]
        BY <2>2, <3>2
      <4>2. WriterInv(q)
        BY <1>1, <1>2, <2>4, <4>1
      <4>3. QED
        BY <2>1, <4>1, <4>2 DEF WriterInv
    <3>3. QED
      BY <3>1, <3>2
  <2>5. QED
    BY <1>1, <2>1, <2>3, <2>4 DEF FileInv
<1>6. ASSUME NEW p \in Analyst, acker[p].at # "idle",
             \A q \in Analyst : q # p => acker'[q] = acker[q],
             acker'[p].ack \notin disturbed' \cup glued' => WriterInv(p)'
      PROVE  \A q \in Analyst : acker'[q].ack \notin disturbed' \cup glued' => WriterInv(q)'
  <2> SUFFICES ASSUME NEW q \in Analyst, q # p, acker'[q].ack \notin disturbed' \cup glued'
               PROVE  WriterInv(q)'
    BY <1>6
  <2>1. acker'[q] = acker[q]
    BY <1>6
  <2>2. ApartInv(q, p)
    BY DEF MemoryIInv, AckersInv
  <2>3. acker[q].at = "idle"
    BY <1>2, <1>6, <2>1, <2>2 DEF ApartInv
  <2>4. QED
    BY <2>1, <2>3 DEF WriterInv
<1>7. ASSUME NEW p \in Analyst, AckOpen(p) PROVE FileInv'
  <2>1. /\ acker[p].at = "open" /\ ret' = ret
    BY <1>7 DEF AckOpen
  <2>2. /\ acker'[p].at = "text" /\ acker'[p].gen = gen'
        /\ \A q \in Analyst : q # p => acker'[q] = acker[q]
        /\ log' = log /\ exists' = TRUE
        /\ exists => gen' = gen
    BY <1>7, OpenMoves
  <2>3. WriterInv(p)'
    BY <2>2 DEF WriterInv
  <2>4. Complete(log)' \/ Unfinished' \/ Torn'
    <3>1. CASE Complete(log)
      BY <2>2, <3>1 DEF Complete
    <3>2. CASE Unfinished
      BY <2>1, <2>2, <3>2 DEF Unfinished
    <3>3. CASE Torn
      BY <1>2, <2>2, <3>3 DEF Torn
    <3>4. QED
      BY <1>1, <3>1, <3>2, <3>3
  <2>5. \A q \in Analyst : acker'[q].ack \notin disturbed' \cup glued' => WriterInv(q)'
    BY <1>6, <2>1, <2>2, <2>3
  <2>6. QED
    BY <2>2, <2>4, <2>5 DEF FileInv
<1>8. ASSUME NEW p \in Analyst, AckWrite(p) PROVE FileInv'
  <2>1. ret' = ret /\ disturbed' = disturbed
    BY <1>8 DEF AckWrite
  <2>2. acker[p].ack \in Nat
    BY <1>3, AckerTypes
  <2>3. \A q \in Analyst : q # p => acker'[q] = acker[q]
    BY <1>8, WriteMoves DEF Writes
  <2>4. exists' = exists /\ gen' = gen
    BY <1>8, WriteMoves DEF Writes
  <2>5. ASSUME log' = log, ~(exists /\ acker[p].gen = gen)
        PROVE  Complete(log)' \/ Unfinished' \/ Torn'
    <3>1. CASE Complete(log)
      BY <2>5, <3>1 DEF Complete
    <3>2. CASE Unfinished
      <4>1. PICK q \in Analyst : /\ exists /\ acker[q].at = "newline" /\ acker[q].gen = gen
                               /\ log # << >> /\ log[Len(log)] = acker[q].ack
        BY <3>2 DEF Unfinished
      <4>2. q # p
        BY <2>5, <4>1
      <4>3. acker'[q] = acker[q]
        BY <2>3, <4>2
      <4>4. QED
        BY <2>4, <2>5, <4>1, <4>3 DEF Unfinished
    <3>3. CASE Torn
      BY <1>2, <2>5, <3>3 DEF Torn
    <3>4. QED
      BY <1>1, <3>1, <3>2, <3>3
  <2>6. CASE /\ acker[p].at = "text" /\ Writes(p, acker[p].ack)
             /\ acker'[p].at = "newline" /\ acker'[p].ack = acker[p].ack
             /\ acker'[p].gen = acker[p].gen
    <3>1. ASSUME acker'[p].ack \notin disturbed' \cup glued' PROVE WriterInv(p)'
      <4>1. /\ acker[p].ack \notin disturbed /\ acker[p].at # "idle"
            /\ acker[p].ack \notin glued /\ acker[p].ack \notin glued'
        BY <1>2, <2>1, <2>6, <3>1
      <4>2. WriterInv(p) /\ (Complete(log) \/ Torn)
        BY <2>6, <4>1, Alone
      <4>3. exists /\ acker[p].gen = gen
        BY <2>6, <4>2 DEF WriterInv
      <4>4. Complete(log)
        BY <2>6, <4>1, <4>2, <4>3 DEF Writes
      <4>5. log' = Append(log, acker[p].ack)
        BY <2>6, <4>3 DEF Writes
      <4>6. /\ log' # << >> /\ log'[Len(log')] = acker[p].ack
            /\ Len(log') = 1 \/ log'[Len(log') - 1] = Newline
        BY <1>3, <2>2, <4>4, <4>5, TextAtEnd
      <4>7. QED
        BY <2>4, <2>6, <4>3, <4>6 DEF WriterInv
    <3>2. Complete(log)' \/ Unfinished' \/ Torn'
      <4>1. CASE exists /\ acker[p].gen = gen
        <5>1. log' = Append(log, acker[p].ack)
          BY <2>6, <4>1 DEF Writes
        <5>2. log' # << >> /\ log'[Len(log')] = acker[p].ack
          BY <1>3, <2>2, <5>1, LastAppended
        <5>3. QED
          BY <2>4, <2>6, <4>1, <5>2 DEF Unfinished
      <4>2. CASE ~(exists /\ acker[p].gen = gen)
        BY <2>5, <2>6, <4>2 DEF Writes
      <4>3. QED
        BY <4>1, <4>2
    <3>3. ~exists' => log' = << >>
      BY <1>1, <2>6 DEF Writes
    <3>4. \A q \in Analyst : acker'[q].ack \notin disturbed' \cup glued' => WriterInv(q)'
      BY <1>6, <2>3, <2>6, <3>1
    <3>5. QED
      BY <1>1, <2>1, <2>4, <3>2, <3>3, <3>4 DEF FileInv
  <2>7. CASE acker[p].at = "newline" /\ Writes(p, Newline) /\ acker'[p].at = "idle"
    <3>1. WriterInv(p)'
      BY <2>7 DEF WriterInv
    <3>2. Complete(log)' \/ Unfinished' \/ Torn'
      <4>1. CASE exists /\ acker[p].gen = gen
        <5>1. log' = Append(log, Newline) /\ Newline \in Nat
          BY <2>7, <4>1 DEF Writes, Newline
        <5>2. log'[Len(log')] = Newline
          BY <1>3, <5>1, LastAppended
        <5>3. QED
          BY <5>2 DEF Complete
      <4>2. CASE ~(exists /\ acker[p].gen = gen)
        BY <2>5, <2>7, <4>2 DEF Writes
      <4>3. QED
        BY <4>1, <4>2
    <3>3. ~exists' => log' = << >>
      BY <1>1, <2>7 DEF Writes
    <3>4. \A q \in Analyst : acker'[q].ack \notin disturbed' \cup glued' => WriterInv(q)'
      BY <1>6, <2>3, <2>7, <3>1
    <3>5. QED
      BY <1>1, <2>1, <2>4, <3>2, <3>3, <3>4 DEF FileInv
  <2>8. QED
    BY <1>8, <2>6, <2>7, WriteMoves
<1>9. ASSUME ret.at # "idle", acker' = acker
      PROVE  \A p \in Analyst : acker'[p].ack \notin disturbed' \cup glued' => WriterInv(p)'
  <2> SUFFICES ASSUME NEW p \in Analyst, acker[p].ack \notin disturbed' \cup glued'
               PROVE  WriterInv(p)'
    BY <1>9
  <2>1. AckerInv(p)
    BY DEF MemoryIInv, AckersInv
  <2>2. acker[p].at = "idle"
    BY <1>2, <1>9, <2>1 DEF AckerInv
  <2>3. QED
    BY <1>9, <2>2 DEF WriterInv
<1>10. CASE Delete
  <2>1. /\ ret.at # "idle" /\ acker' = acker /\ gen' = gen
        /\ \/ exists' = FALSE /\ log' = << >>
           \/ exists' = exists /\ log' = log
    BY <1>10 DEF Delete
  <2>2. ret'.at = "read"
    BY <1>3, <1>10, RunMoves DEF Delete
  <2>3. Complete(log)' \/ Unfinished' \/ Torn'
    BY <1>1, <1>2, <2>1 DEF Complete, Unfinished, Torn
  <2>4. QED
    BY <1>1, <1>9, <2>1, <2>2, <2>3 DEF FileInv
<1>11. CASE CompactRemove
  <2>1. ret.at # "idle" /\ acker' = acker /\ log' = << >> /\ ret' = NoRun
    BY <1>11 DEF CompactRemove
  <2>2. Complete(log)' /\ ret'.at = "idle"
    BY <2>1, NoRunFields DEF Complete
  <2>3. QED
    BY <1>9, <2>1, <2>2 DEF FileInv
<1>12. CASE CompactTruncate
  <2>1. ret.at # "idle" /\ acker' = acker /\ log' = << >> /\ exists' = TRUE
    BY <1>3, <1>12 DEF CompactTruncate
  <2>2. Complete(log)'
    BY <2>1 DEF Complete
  <2>3. QED
    BY <1>9, <2>1, <2>2 DEF FileInv
<1>13. CASE CompactWrite
  <2>1. /\ ret.at = "write" /\ ret.at # "idle" /\ acker' = acker /\ ret' = NoRun
        /\ exists' = exists /\ gen' = gen
        /\ log' = Written(ret.keep) \o SubSeq(log, Len(Written(ret.keep)) + 1, Len(log))
    BY <1>13 DEF CompactWrite, Written
  <2>2. ret.keep \in Seq(Seq(Nat)) /\ ret.keep # << >>
    BY <1>3, <2>1, RunFields DEF MemoryIInv, SweepInv
  <2>3. WrittenUpTo(Written(ret.keep), ret.keep, Len(ret.keep))
    BY <2>2, WrittenFacts
  <2> PICK u : u = Written(ret.keep)
    OBVIOUS
  <2>4. u \in Seq(Nat) /\ u # << >> /\ u[Len(u)] = Newline
    BY <2>3 DEF WrittenUpTo
  <2>5. log' = u \o SubSeq(log, Len(u) + 1, Len(log))
    BY <2>1
  <2>6. Complete(log)' \/ Unfinished' \/ Torn'
    <3> DEFINE last == log[Len(log)]
               last1 == log'[Len(log')]
    <3>1. log' # << >> /\ (last1 = Newline \/ (log # << >> /\ last1 = last))
      <4>1. EndsAs(u \o SubSeq(log, Len(u) + 1, Len(log)), log)
        BY <1>3, <2>4, OverwrittenEnds
      <4>2. EndsAs(log', log)
        BY Zenon, <2>5, <4>1
      <4>3. QED
        BY <4>2 DEF EndsAs
    <3>2. /\ Complete(log) => log = << >> \/ last = Newline
          /\ Torn => last \in killed'
          /\ last1 = Newline => Complete(log)'
          /\ log' # << >> /\ last1 \in killed' => Torn'
      BY <1>2 DEF Complete, Torn
    <3>3. Unfinished /\ log' # << >> /\ last1 = last => Unfinished'
      BY <2>1 DEF Unfinished
    <3> HIDE DEF last, last1
    <3>4. QED
      BY <1>1, <3>1, <3>2, <3>3
  <2>7. exists'
    BY <1>1, <2>1
  <2>8. QED
    BY <1>9, <2>1, <2>6, <2>7 DEF FileInv
<1>14. CASE CompactRead
  <2>1. UNCHANGED <<file, acker>>
    BY <1>14 DEF CompactRead
  <2>2. Survivors(ret.cutoff) \in Seq(Seq(Nat))
    BY <1>3, SurvivorsTyped
  <2>3. ret'.at # "write"
    BY <1>3, <1>14, <2>2, RunKeeps, NoRunFields DEF CompactRead
  <2>4. QED
    BY <1>4, <2>1, <2>3
<1>15. ASSUME NEW days \in Days, Collect(days) PROVE FileInv'
  <2>1. UNCHANGED <<file, acker>>
    BY <1>15 DEF Collect
  <2>2. ret' = ret \/ ret'.at = "delete"
    BY <1>15, CollectMoves DEF Starts
  <2>3. QED
    BY <1>4, <2>1, <2>2
<1>16. CASE Kill
  BY <1>4, <1>16, NoRunFields DEF Kill
<1>17. CASE UNCHANGED vars
  BY <1>4, <1>17 DEF vars
<1>18. ASSUME NEW r \in Rule \cup {NoRule}, Fire(r) PROVE FileInv'
  BY <1>4, <1>18 DEF Fire
<1>19. CASE Tick \/ SetBack
  BY <1>4, <1>19 DEF Tick, SetBack
<1>20. ASSUME NEW p \in Analyst, AckKill(p) PROVE FileInv'
  <2>1. ret' = ret /\ log' = log /\ gen' = gen /\ exists' = exists
    BY <1>20 DEF AckKill, file
  <2>2. /\ acker[p].at # "idle" /\ acker'[p].at = "idle"
        /\ \A q \in Analyst : q # p => acker'[q] = acker[q]
        /\ killed' = killed \cup {acker[p].ack}
    BY <1>20, KillMoves
  <2>3. Complete(log)' \/ Unfinished' \/ Torn'
    <3>1. CASE Complete(log)
      BY <2>1, <3>1 DEF Complete
    <3>2. CASE Unfinished
      <4>1. PICK q \in Analyst : /\ exists /\ acker[q].at = "newline" /\ acker[q].gen = gen
                               /\ log # << >> /\ log[Len(log)] = acker[q].ack
        BY <3>2 DEF Unfinished
      <4>2. CASE q = p
        BY <2>1, <2>2, <4>1, <4>2 DEF Torn
      <4>3. CASE q # p
        <5>1. acker'[q] = acker[q]
          BY <2>2, <4>3
        <5>2. QED
          BY <2>1, <4>1, <5>1 DEF Unfinished
      <4>4. QED
        BY <4>2, <4>3
    <3>3. CASE Torn
      BY <1>2, <2>1, <3>3 DEF Torn
    <3>4. QED
      BY <1>1, <3>1, <3>2, <3>3
  <2>4. WriterInv(p)'
    BY <2>2 DEF WriterInv
  <2>5. \A q \in Analyst : acker'[q].ack \notin disturbed' \cup glued' => WriterInv(q)'
    BY <1>6, <2>2, <2>4
  <2>6. QED
    BY <1>1, <2>1, <2>3, <2>5 DEF FileInv
<1>21. QED
  BY <1>5, <1>7, <1>8, <1>10, <1>11, <1>12, <1>13, <1>14, <1>15, <1>16, <1>17, <1>18, <1>19,
     <1>20 DEF Next

(***************************************************************************)
(* What retention removes, and what it remembers.                          *)
(***************************************************************************)

\* The files of old alerts, but of the hour of the cutoff, are all listed.
LEMMA OldAlertsListed ==
  ASSUME MemoryIInv, NEW c \in Int, NEW i \in DOMAIN alerts, alerts[i].ts < c
  PROVE  i \in deleted \/ Hour(alerts[i].ts) \in OldHours(c) \cup {Hour(c)}
<1> SUFFICES ASSUME i \notin deleted, Hour(alerts[i].ts) \notin OldHours(c)
             PROVE  Hour(alerts[i].ts) = Hour(c)
  OBVIOUS
<1> DEFINE h == Hour(alerts[i].ts)
<1>1. PICK j \in InHour(h) : ~(alerts[j].ts < c)
  BY DEF OldHours
<1>2. j \in DOMAIN alerts /\ Hour(alerts[j].ts) = h
  BY <1>1 DEF InHour
<1>3. alerts[i].ts \in Nat /\ alerts[j].ts \in Nat
  BY <1>2, Elements DEF MemoryIInv
<1>4. alerts[i].ts <= c /\ c <= alerts[j].ts
  BY <1>1, <1>3
<1>5. /\ Hour(alerts[i].ts) \in Int /\ Hour(c) \in Int /\ Hour(alerts[j].ts) \in Int
      /\ Hour(alerts[i].ts) <= Hour(c) /\ Hour(c) <= Hour(alerts[j].ts)
  BY <1>3, <1>4, HoursGrow
<1>6. QED
  BY <1>2, <1>5

\* An acknowledgement covers alerts that have fired.
LEMMA CoveredFired ==
  ASSUME MemoryIInv, NEW k \in DOMAIN acks, NEW i \in 1..acks[k].upto
  PROVE  i \in DOMAIN alerts
<1> PICK n \in Nat : n = acks[k].upto
  BY Elements DEF MemoryIInv
<1>1. n <= Len(alerts) /\ Len(alerts) \in Nat /\ DOMAIN alerts = 1..Len(alerts)
  BY DEF MemoryIInv, CoverInv, ClockInv
<1>2. QED
  BY <1>1

\* Who begins while retention runs is disturbed.
LEMMA ListedStays ==
  ASSUME MemoryIInv, [Next]_vars, ret.at # "idle", ret'.cutoff = ret.cutoff,
         NEW hours, Listed(hours)
  PROVE  Listed(hours)'
<1> SUFFICES ASSUME NEW k \in DOMAIN acks' \ disturbed', NEW i \in 1..acks'[k].upto,
                    alerts'[i].ts < ret.cutoff
             PROVE  i \in deleted' \/ Hour(alerts'[i].ts) \in hours \cup {Hour(ret.cutoff)}
  BY DEF Listed
<1>1. k \in DOMAIN acks \ disturbed /\ acks'[k] = acks[k] /\ deleted \subseteq deleted'
  BY HistoryGrows
<1>2. i \in DOMAIN alerts
  BY <1>1, CoveredFired
<1>3. alerts'[i] = alerts[i]
  BY <1>2, HistoryGrows
<1>4. QED
  BY <1>1, <1>3 DEF Listed

LEMMA SweepKept ==
  ASSUME MemoryIInv, [Next]_vars
  PROVE  SweepInv'
<1>1. /\ ret.at = "delete" => Listed(ret.hours)
      /\ ret.at \in {"read", "remove", "truncate", "write"} => Listed({})
      /\ ret.at \in {"truncate", "write"} => ret.keep # << >>
      /\ RunTypes /\ LogTypes
  BY DEF MemoryIInv, SweepInv
<1>2. CASE ret' = ret
  <2>1. ASSUME NEW hours, Listed(hours), ret.at # "idle"
        PROVE  \A k \in DOMAIN acks' \ disturbed' : \A i \in 1..acks'[k].upto :
                  alerts'[i].ts < ret.cutoff =>
                      i \in deleted' \/ Hour(alerts'[i].ts) \in hours \cup {Hour(ret.cutoff)}
    <3>1. Listed(hours)'
      BY <1>2, <2>1, ListedStays
    <3>2. QED
      BY <1>2, <3>1 DEF Listed
  <2>2. ret.at = "delete" =>
          \A k \in DOMAIN acks' \ disturbed' : \A i \in 1..acks'[k].upto :
              alerts'[i].ts < ret.cutoff =>
                  i \in deleted' \/ Hour(alerts'[i].ts) \in ret.hours \cup {Hour(ret.cutoff)}
    BY <1>1, <2>1
  <2>3. ret.at \in {"read", "remove", "truncate", "write"} =>
          \A k \in DOMAIN acks' \ disturbed' : \A i \in 1..acks'[k].upto :
              alerts'[i].ts < ret.cutoff =>
                  i \in deleted' \/ Hour(alerts'[i].ts) \in {} \cup {Hour(ret.cutoff)}
    BY <1>1, <2>1
  <2>4. QED
    BY <1>1, <1>2, <2>2, <2>3 DEF SweepInv, Listed
<1>3. ASSUME NEW days \in Days, Collect(days) PROVE SweepInv'
  <2>1. ASSUME NEW c \in Int, Starts(c) PROVE SweepInv'
    <3>1. ret'.at = "delete" /\ ret'.cutoff = c /\ ret'.hours = OldHours(c)
      BY <2>1 DEF Starts
    <3>2. alerts' = alerts /\ deleted' = deleted /\ acks' = acks
      BY <1>3 DEF Collect
    <3>3. \A i \in DOMAIN alerts : alerts[i].ts < c =>
             i \in deleted \/ Hour(alerts[i].ts) \in OldHours(c) \cup {Hour(c)}
      BY OldAlertsListed
    <3>4. \A k \in DOMAIN acks' \ disturbed' : \A i \in 1..acks'[k].upto :
             alerts'[i].ts < ret'.cutoff =>
                 i \in deleted' \/ Hour(alerts'[i].ts) \in ret'.hours \cup {Hour(ret'.cutoff)}
      BY <3>1, <3>2, <3>3, CoveredFired
    <3>5. QED
      BY <3>1, <3>4 DEF SweepInv, Listed
  <2>2. QED
    BY <1>2, <1>3, <2>1, CollectMoves
<1>4. CASE Delete
  <2>1. /\ ret.at = "delete" /\ alerts' = alerts /\ acks' = acks /\ disturbed' = disturbed
        /\ deleted' = deleted \cup UNION {InHour(h) : h \in ret.hours}
    BY <1>4 DEF Delete
  <2>2. ret'.at = "read" /\ ret'.cutoff = ret.cutoff
    BY <1>1, <1>4, RunMoves DEF Delete
  <2>3. ASSUME NEW k \in DOMAIN acks \ disturbed, NEW i \in 1..acks[k].upto,
               alerts[i].ts < ret.cutoff
        PROVE  i \in deleted' \/ Hour(alerts[i].ts) \in {} \cup {Hour(ret.cutoff)}
    <3>1. i \in deleted \/ Hour(alerts[i].ts) \in ret.hours \/ Hour(alerts[i].ts) = Hour(ret.cutoff)
      BY <1>1, <2>1, <2>3 DEF Listed
    <3>2. i \notin deleted => i \in InHour(Hour(alerts[i].ts))
      BY CoveredFired DEF InHour
    <3>3. QED
      BY <2>1, <3>1, <3>2
  <2>4. Listed({})'
    BY <2>1, <2>2, <2>3 DEF Listed
  <2>5. QED
    BY <2>2, <2>4 DEF SweepInv
<1>5. CASE CompactRead
  <2> DEFINE keep == Survivors(ret.cutoff)
  <2>1. keep \in Seq(Seq(Nat))
    BY <1>1, SurvivorsTyped DEF LogTypes
  <2>2. /\ ret.at = "read" /\ ret.at # "idle"
        /\ \/ ret' = NoRun
           \/ ret' = [ret EXCEPT !.at = "remove", !.keep = keep]
           \/ keep # << >> /\ ret' = [ret EXCEPT !.at = "truncate", !.keep = keep]
    BY <1>5 DEF CompactRead
  <2> HIDE DEF keep
  <2>3. CASE ret' = NoRun
    BY <2>3, NoRunFields DEF SweepInv
  <2>4. CASE ret'.at \in {"remove", "truncate"} /\ ret'.cutoff = ret.cutoff
             /\ (ret'.at = "truncate" => ret'.keep # << >>)
    <3>1. Listed({})'
      BY <1>1, <2>2, <2>4, ListedStays
    <3>2. QED
      BY <2>4, <3>1 DEF SweepInv
  <2>5. QED
    BY <1>1, <2>1, <2>2, <2>3, <2>4, RunKeeps
<1>6. CASE CompactTruncate
  <2>1. ret.at = "truncate" /\ ret.at # "idle"
    BY <1>6 DEF CompactTruncate
  <2>2. ret'.at = "write" /\ ret'.cutoff = ret.cutoff /\ ret'.keep = ret.keep
    BY <1>1, <1>6, RunMoves DEF CompactTruncate
  <2>3. Listed({})'
    BY <1>1, <2>1, <2>2, ListedStays
  <2>4. QED
    BY <1>1, <2>1, <2>2, <2>3 DEF SweepInv
<1>7. CASE CompactRemove \/ CompactWrite \/ Kill
  <2>1. ret' = NoRun
    BY <1>7 DEF CompactRemove, CompactWrite, Kill
  <2>2. QED
    BY <2>1, NoRunFields DEF SweepInv
<1>8. CASE UNCHANGED vars
  BY <1>2, <1>8 DEF vars
<1>9. ASSUME NEW r \in Rule \cup {NoRule}, Fire(r) PROVE SweepInv'
  BY <1>2, <1>9 DEF Fire
<1>10. ASSUME NEW p \in Analyst, NEW r \in Rule, AckBegin(p, r) PROVE SweepInv'
  BY <1>2, <1>10 DEF AckBegin
<1>11. ASSUME NEW p \in Analyst, AckOpen(p) \/ AckWrite(p) \/ AckKill(p) PROVE SweepInv'
  BY <1>2, <1>11 DEF AckOpen, AckWrite, AckKill
<1>12. CASE Tick \/ SetBack
  BY <1>2, <1>12 DEF Tick, SetBack
<1>13. QED
  BY <1>3, <1>4, <1>5, <1>6, <1>7, <1>8, <1>9, <1>10, <1>11, <1>12 DEF Next

LEMMA ForgottenStays ==
  ASSUME MemoryIInv, [Next]_vars, NEW k \in DOMAIN acks, Forgotten(k)
  PROVE  Forgotten(k)'
<1>1. acks'[k] = acks[k] /\ deleted \subseteq deleted' /\ cutoffs \subseteq cutoffs'
  BY HistoryGrows
<1>2. \A i \in 1..acks[k].upto : i \in DOMAIN alerts
  BY CoveredFired
<1>3. \A i \in 1..acks[k].upto : alerts'[i] = alerts[i]
  BY <1>2, HistoryGrows
<1>4. \A i \in 1..acks[k].upto : NeverCovered(k, i) => NeverCovered(k, i)'
  BY <1>1, <1>3 DEF NeverCovered
<1>5. QED
  BY <1>1, <1>3, <1>4 DEF Forgotten

\* What is older than the cutoff covers alerts that are gone, or in the cutoff's hour.
LEMMA OldIsForgotten ==
  ASSUME MemoryIInv, SweepInv', RunTypes', NEW k \in DOMAIN acks, k \notin disturbed',
         acks' = acks, alerts' = alerts,
         ret'.at \in {"read", "remove", "truncate", "write"}, acks[k].ts < ret'.cutoff
  PROVE  Forgotten(k)'
<1>1. Listed({})' /\ ret'.cutoff \in cutoffs' /\ ret'.cutoff \in Int
  <2>1. ret'.at # "idle"
    OBVIOUS
  <2>2. Listed({})'
    BY DEF SweepInv
  <2>3. ret'.cutoff \in cutoffs' /\ ret'.cutoff \in Int
    BY <2>1 DEF RunTypes
  <2>4. QED
    BY <2>2, <2>3
<1> SUFFICES ASSUME NEW i \in 1..acks[k].upto
             PROVE  \/ i \in deleted' \/ NeverCovered(k, i)
                    \/ acks[k].ts < ret'.cutoff /\ Hour(alerts[i].ts) = Hour(ret'.cutoff)
  BY <1>1 DEF Forgotten, NeverCovered
<1>2. i \in DOMAIN alerts
  BY CoveredFired
<1>3. alerts[i].ts <= acks[k].ts \/ NeverCovered(k, i)
  BY DEF MemoryIInv, CoverInv
<1>4. alerts[i].ts \in Nat /\ acks[k].ts \in Nat
  BY <1>2, Elements DEF MemoryIInv
<1>5. alerts[i].ts < ret'.cutoff \/ NeverCovered(k, i)
  BY <1>1, <1>3, <1>4
<1>6. NeverCovered(k, i) \/ i \in deleted' \/ Hour(alerts[i].ts) \in {} \cup {Hour(ret'.cutoff)}
  BY <1>1, <1>2, <1>5 DEF Listed
<1>7. QED
  BY <1>6

LEMMA SettledFacts ==
  ASSUME MemoryIInv, NEW k \in Settled
  PROVE  /\ k \in DOMAIN acks /\ k \in Nat \ {0} /\ k \notin disturbed
         /\ acks[k].ts \in Nat /\ acks[k].epoch \in Nat /\ epoch \in Nat /\ acks[k].epoch <= epoch
         /\ acks[k].epoch = epoch => acks[k].ts <= now
<1>1. k \in DOMAIN acks /\ k \notin disturbed
  BY DEF MemoryIInv, LogTypes, Settled
<1>2. k \in Nat \ {0}
  BY <1>1 DEF MemoryIInv, ClockInv
<1>3. /\ acks[k].ts \in Nat /\ acks[k].epoch \in Nat /\ epoch \in Nat /\ acks[k].epoch <= epoch
      /\ acks[k].epoch = epoch => acks[k].ts <= now
  BY <1>1, Elements DEF MemoryIInv, ClockInv
<1>4. QED
  BY <1>1, <1>2, <1>3

\* The clock is only ever set back to a new epoch.
LEMMA EpochGrows ==
  ASSUME MemoryIInv, [Next]_vars
  PROVE  epoch \in Nat /\ epoch' \in Nat /\ epoch <= epoch'
<1>1. epoch \in Nat
  BY DEF MemoryIInv, ClockInv
<1>2. epoch' = epoch \/ epoch' = epoch + 1
  BY DEF Next, vars, clock, Fire, Tick, SetBack, AckBegin, AckOpen, AckWrite, AckKill, Collect,
         Delete, CompactRead, CompactRemove, CompactTruncate, CompactWrite, Kill
<1>3. QED
  BY <1>1, <1>2

\* What is settled was settled, or its analyst alone has just written its newline.
LEMMA Settling ==
  ASSUME MemoryIInv, [Next]_vars, NEW k \in Settled', k \notin Settled
  PROVE  /\ k \in DOMAIN acks /\ k \in Nat
         /\ ret'.at = "idle" /\ HasLine(log', k) /\ touched' = now /\ epoch' = epoch
<1>1. disturbed \subseteq disturbed' /\ glued \subseteq glued'
  BY HistoryGrows
<1>2. k \in done' /\ k \notin done /\ k \notin disturbed /\ k \notin glued
  BY <1>1 DEF Settled
<1>3. PICK p \in Analyst : AckWrite(p)
  <2>1. done' = done \/ \E p \in Analyst : AckWrite(p)
    BY DEF Next, vars, Fire, Tick, SetBack, AckBegin, AckOpen, AckKill, Collect, Delete,
           CompactRead, CompactRemove, CompactTruncate, CompactWrite, Kill
  <2>2. QED
    BY <1>2, <2>1
<1>4. /\ acker[p].at = "newline" /\ Writes(p, Newline)
      /\ done' = done \cup {acker[p].ack}
  BY <1>2, <1>3, WriteMoves
<1>5. k = acker[p].ack
  BY <1>2, <1>4
<1>6. WriterInv(p) /\ ret.at = "idle"
  BY <1>2, <1>4, <1>5, Alone
<1>7. /\ exists /\ acker[p].gen = gen
      /\ log # << >> /\ log[Len(log)] = k
      /\ Len(log) = 1 \/ log[Len(log) - 1] = Newline
  BY <1>4, <1>5, <1>6 DEF WriterInv
<1>8. log' = Append(log, Newline) /\ touched' = now
  BY <1>4, <1>7 DEF Writes
<1>9. k \in DOMAIN acks /\ k \in Nat /\ log \in Seq(Nat)
  <2>1. AckerInv(p) /\ LogTypes /\ ClockInv
    BY DEF MemoryIInv, AckersInv
  <2>2. k \in DOMAIN acks
    BY <1>4, <1>5, <2>1 DEF AckerInv
  <2>3. QED
    BY <2>1, <2>2 DEF LogTypes, ClockInv
<1>10. HasLine(log', k)
  BY <1>7, <1>8, <1>9, LineWritten
<1>11. ret' = ret /\ epoch' = epoch
  BY <1>3 DEF AckWrite, clock
<1>12. QED
  BY <1>6, <1>8, <1>9, <1>10, <1>11

\* A text on its own line survives a cutoff it is not older than.
LEMMA YoungSurvive ==
  ASSUME MemoryIInv, NEW k \in Settled, NEW c \in Int, HasLine(log, k)
  PROVE  /\ acks[k].ts < c \/ \E m \in 1..Len(Survivors(c)) : Survivors(c)[m] = <<k>>
         /\ Survivors(c) = << >> => acks[k].ts < c
<1>1. log \in Seq(Nat)
  BY DEF MemoryIInv, LogTypes
<1>2. k \in DOMAIN acks /\ k \in Nat \ {0} /\ acks[k].ts \in Nat
  BY SettledFacts
<1>3. PICK m \in 1..Len(LogLines(log)) : LogLines(log)[m] = <<k>>
  BY <1>1, <1>2, LogLinesFacts
<1>4. Timestamp(<<k>>) = acks[k].ts
  BY DEF Timestamp
<1>5. acks[k].ts < c \/ Keeps(LogLines(log)[m], c)
  BY <1>2, <1>3, <1>4 DEF Keeps
<1>6. ASSUME Keeps(LogLines(log)[m], c)
      PROVE  \E j \in 1..Len(Survivors(c)) : Survivors(c)[j] = <<k>>
  BY <1>1, <1>3, <1>6, SurvivorsTyped
<1>7. Survivors(c) = << >> => ~ \E j \in 1..Len(Survivors(c)) : Survivors(c)[j] = <<k>>
  OBVIOUS
<1>8. QED
  BY <1>5, <1>6, <1>7

LEMMA NoLineInNothing ==
  ASSUME NEW k PROVE ~ HasLine(<< >>, k)
BY DEF HasLine

\* The text of a line is in the file.
LEMMA LineHeld ==
  ASSUME NEW k, HasLine(log, k), LogTypes
  PROVE  k \in ToSet(log) /\ log # << >>
<1>1. PICK i \in 1..Len(log) : log[i] = k
  BY DEF HasLine, LineAt
<1>2. i \in DOMAIN log /\ log # << >>
  BY <1>1 DEF LogTypes
<1>3. QED
  BY <1>1, <1>2 DEF ToSet

\* Retention keeps or forgets what is settled.
LEMMA KnownKept ==
  ASSUME MemoryIInv, [Next]_vars, NEW k \in Settled, k \in Settled'
  PROVE  Known(k)'
<1>1. /\ k \in DOMAIN acks /\ k \in Nat \ {0} /\ k \notin disturbed'
      /\ acks[k].ts \in Nat /\ acks[k].epoch \in Nat /\ epoch \in Nat /\ acks[k].epoch <= epoch
      /\ acks[k].epoch = epoch => acks[k].ts <= now
      /\ epoch' \in Nat /\ epoch <= epoch'
  BY SettledFacts, EpochGrows DEF Settled
<1>2. /\ acks'[k] = acks[k]
      /\ Forgotten(k) \/ Swept(k) => Forgotten(k)' \/ Swept(k)'
  <2>1. acks'[k] = acks[k] /\ swept \subseteq swept' /\ (Forgotten(k) => Forgotten(k)')
    BY <1>1, HistoryGrows, ForgottenStays
  <2>2. Swept(k) => Swept(k)'
    BY <1>1, <2>1 DEF Swept
  <2>3. QED
    BY <2>1, <2>2
<1>3. /\ HasLine(log, k) /\ acks[k].epoch = epoch => acks[k].ts <= touched
      /\ Forgotten(k) \/ Swept(k) \/ Remembered(k)
  BY DEF MemoryIInv, MemoryInv, Known
<1>4. log \in Seq(Nat) /\ LogTypes /\ RunTypes
  BY DEF MemoryIInv, LogTypes
<1>5. SweepInv' /\ RunTypes'
  BY SweepKept, RunTypesKept
<1>6. ASSUME ret' = ret, HasLine(log, k) => HasLine(log', k),
             (log' = log /\ touched' = touched) \/ touched' = now
      PROVE  Known(k)'
  <2>1. Remembered(k) => Remembered(k)'
    <3>1. acks[k].epoch < epoch => acks[k].epoch < epoch'
      BY <1>1
    <3>2. QED
      BY <1>2, <1>6, <3>1 DEF Remembered
  <2>2. HasLine(log', k) /\ acks[k].epoch = epoch' => acks[k].ts <= touched'
    <3>1. acks[k].epoch = epoch' => acks[k].epoch = epoch
      BY <1>1
    <3>2. QED
      BY <1>1, <1>3, <1>6, <3>1
  <2>3. QED
    BY <1>2, <1>3, <2>1, <2>2 DEF Known
<1>7. ASSUME UNCHANGED <<file, ret>> PROVE Known(k)'
  BY <1>6, <1>7 DEF file
<1>8. ASSUME NEW p \in Analyst, AckOpen(p) PROVE Known(k)'
  <2>1. ret' = ret
    BY <1>8 DEF AckOpen
  <2>2. log' = log /\ (touched' = touched \/ touched' = now)
    BY <1>8, OpenMoves
  <2>3. QED
    BY <1>6, <2>1, <2>2
<1>9. ASSUME NEW p \in Analyst, AckWrite(p) PROVE Known(k)'
  <2>1. ret' = ret
    BY <1>9 DEF AckWrite
  <2>2. PICK e \in Nat : Writes(p, e)
    <3>1. acker[p].ack \in Nat /\ Newline \in Nat
      BY <1>4, AckerTypes DEF Newline
    <3>2. QED
      BY <1>9, <3>1, WriteMoves
  <2>3. (log' = log /\ touched' = touched) \/ (log' = log \o <<e>> /\ touched' = now)
    <3>1. Append(log, e) = log \o <<e>>
      BY <1>4
    <3>2. QED
      BY <2>2, <3>1 DEF Writes
  <2>4. HasLine(log, k) => HasLine(log', k)
    <3>1. <<e>> \in Seq(Nat)
      OBVIOUS
    <3>2. HasLine(log, k) => HasLine(log \o <<e>>, k)
      BY <1>1, <1>4, <3>1, LinesStay
    <3>3. QED
      BY <2>3, <3>2
  <2>5. QED
    BY <1>6, <2>1, <2>3, <2>4
<1>10. ASSUME NEW days \in Days, Collect(days) PROVE Known(k)'
  <2>1. UNCHANGED file /\ epoch' = epoch
    BY <1>10 DEF Collect, clock
  <2>2. ASSUME NEW c \in Int, Starts(c) PROVE Known(k)'
    <3>1. /\ ret.at = "idle" /\ ret'.at = "delete" /\ ret'.cutoff = c
          /\ ret'.log => exists /\ touched < c
      BY <2>2 DEF Starts
    <3>2. log' = log /\ touched' = touched
      BY <2>1 DEF file
    <3>3. ASSUME Remembered(k) PROVE Remembered(k)'
      <4>1. HasLine(log, k)
        BY <3>1, <3>3 DEF Remembered
      <4>2. touched \in Nat /\ (acks[k].ts <= touched \/ acks[k].epoch < epoch)
        BY <1>1, <1>3, <1>4, <4>1 DEF LogTypes
      <4>3. ret'.log => acks[k].ts < c \/ acks[k].epoch < epoch
        BY <1>1, <3>1, <4>2
      <4>4. QED
        BY <1>2, <2>1, <3>1, <3>2, <4>1, <4>3 DEF Remembered
    <3>4. QED
      BY <1>2, <1>3, <2>1, <3>2, <3>3 DEF Known
  <2>3. QED
    BY <1>7, <1>10, <2>1, <2>2, CollectMoves
<1>11. CASE Delete
  <2>1. /\ ret.at = "delete" /\ alerts' = alerts /\ acks' = acks /\ touched' = touched
        /\ epoch' = epoch
        /\ \/ /\ ret.log /\ log' = << >>
              /\ swept' = swept \cup {j \in ToSet(log) \cap DOMAIN acks : acks[j].ts >= ret.cutoff}
           \/ log' = log
    BY <1>11 DEF Delete, clock
  <2>2. ret'.at = "read" /\ ret'.cutoff = ret.cutoff /\ ret'.log = ret.log
    BY <1>4, <1>11, RunMoves DEF Delete
  <2>3. ASSUME Remembered(k) PROVE Forgotten(k)' \/ Swept(k)' \/ Remembered(k)'
    <3>1. HasLine(log, k) /\ (ret.log => acks[k].ts < ret.cutoff \/ acks[k].epoch < epoch)
      BY <2>1, <2>3 DEF Remembered
    <3>2. CASE ret.log /\ log' # log
      <4>1. CASE acks[k].ts < ret.cutoff
        BY <1>1, <1>5, <2>1, <2>2, <4>1, OldIsForgotten
      <4>2. CASE ~(acks[k].ts < ret.cutoff)
        <5>1. acks[k].ts >= ret.cutoff /\ acks[k].epoch < epoch
          BY <1>1, <1>4, <3>1, <3>2, <4>2, RunFields
        <5>2. k \in swept'
          BY <1>1, <1>4, <2>1, <3>1, <3>2, <5>1, LineHeld
        <5>3. QED
          BY <1>2, <2>1, <5>1, <5>2 DEF Swept
      <4>3. QED
        BY <4>1, <4>2
    <3>3. CASE log' = log
      BY <2>2, <3>1, <3>3 DEF Remembered
    <3>4. QED
      BY <2>1, <3>2, <3>3
  <2>4. HasLine(log', k) /\ acks[k].epoch = epoch' => acks[k].ts <= touched'
    BY <1>3, <2>1, NoLineInNothing
  <2>5. QED
    BY <1>2, <1>3, <2>3, <2>4 DEF Known
<1>12. CASE CompactRead
  <2> DEFINE keep == Survivors(ret.cutoff)
  <2>1. keep \in Seq(Seq(Nat)) /\ ret.cutoff \in Int
    BY <1>4, SurvivorsTyped, RunFields
  <2>2. /\ ret.at = "read" /\ alerts' = alerts /\ acks' = acks /\ touched' = touched /\ log' = log
        /\ \/ ret' = NoRun
           \/ keep = << >> /\ ret' = [ret EXCEPT !.at = "remove", !.keep = keep]
           \/ ret' = [ret EXCEPT !.at = "truncate", !.keep = keep]
    BY <1>12 DEF CompactRead, file
  <2>7. epoch' = epoch
    BY <1>12 DEF CompactRead, clock
  <2>3. HasLine(log', k) /\ acks[k].epoch = epoch' => acks[k].ts <= touched'
    BY <1>3, <2>2, <2>7
  <2>4. ASSUME Remembered(k)
        PROVE  /\ HasLine(log, k)
               /\ acks[k].ts < ret.cutoff \/ \E m \in 1..Len(keep) : keep[m] = <<k>>
               /\ keep = << >> => acks[k].ts < ret.cutoff
    <3>1. HasLine(log, k)
      BY <2>2, <2>4 DEF Remembered
    <3>2. QED
      BY <2>1, <3>1, YoungSurvive
  <2> HIDE DEF keep
  <2>5. ASSUME Remembered(k) PROVE Forgotten(k)' \/ Remembered(k)'
    <3>1. CASE ret' = NoRun
      <4>1. ret'.at = "idle"
        BY <3>1, NoRunFields
      <4>2. QED
        BY <2>2, <2>4, <2>5, <4>1 DEF Remembered
    <3>2. CASE keep = << >> /\ ret' = [ret EXCEPT !.at = "remove", !.keep = keep]
      <4>1. ret'.at = "remove" /\ ret'.cutoff = ret.cutoff
        BY <1>4, <2>1, <3>2, RunKeeps
      <4>2. acks[k].ts < ret'.cutoff
        BY <2>4, <2>5, <3>2, <4>1
      <4>3. QED
        BY <1>1, <1>5, <2>2, <4>1, <4>2, OldIsForgotten
    <3>3. CASE ret' = [ret EXCEPT !.at = "truncate", !.keep = keep]
      <4>1. ret'.at = "truncate" /\ ret'.cutoff = ret.cutoff /\ ret'.keep = keep
        BY <1>4, <2>1, <3>3, RunKeeps
      <4>2. CASE acks[k].ts < ret.cutoff
        BY <1>1, <1>5, <2>2, <4>1, <4>2, OldIsForgotten
      <4>3. CASE \E m \in 1..Len(keep) : keep[m] = <<k>>
        BY <2>2, <2>4, <2>5, <4>1, <4>3 DEF Remembered
      <4>4. QED
        BY <2>4, <2>5, <4>2, <4>3
    <3>4. QED
      BY <2>2, <3>1, <3>2, <3>3
  <2>6. QED
    BY <1>2, <1>3, <2>3, <2>5 DEF Known
<1>13. CASE CompactRemove
  <2>1. ret.at = "remove" /\ log' = << >>
    BY <1>13 DEF CompactRemove
  <2>2. Forgotten(k) \/ Swept(k)
    BY <1>3, <2>1 DEF Remembered
  <2>3. ~ HasLine(log', k)
    BY <2>1, NoLineInNothing
  <2>4. QED
    BY <1>2, <2>2, <2>3 DEF Known
<1>14. CASE CompactTruncate
  <2>1. ret.at = "truncate" /\ log' = << >>
    BY <1>14 DEF CompactTruncate
  <2>2. ret'.at = "write" /\ ret'.keep = ret.keep
    BY <1>4, <1>14, RunMoves DEF CompactTruncate
  <2>3. ~ HasLine(log', k)
    BY <2>1, NoLineInNothing
  <2>4. Remembered(k) => Remembered(k)'
    BY <2>1, <2>2 DEF Remembered
  <2>5. QED
    BY <1>2, <1>3, <2>3, <2>4 DEF Known
<1>15. CASE CompactWrite
  <2>1. /\ ret.at = "write" /\ ret' = NoRun /\ touched' = now
        /\ log' = Written(ret.keep) \o SubSeq(log, Len(Written(ret.keep)) + 1, Len(log))
    BY <1>15 DEF CompactWrite, Written
  <2>2. ret'.at = "idle"
    BY <2>1, NoRunFields
  <2>3. ret.keep \in Seq(Seq(Nat)) /\ ret.keep # << >>
    BY <1>4, <2>1, RunFields DEF MemoryIInv, SweepInv
  <2>4. WrittenUpTo(Written(ret.keep), ret.keep, Len(ret.keep))
    BY <2>3, WrittenFacts
  <2>5. ASSUME Remembered(k) PROVE Remembered(k)'
    <3>1. \E m \in 1..Len(ret.keep) : ret.keep[m] = <<k>>
      BY <2>1, <2>5 DEF Remembered
    <3>2. HasLine(Written(ret.keep), k)
      BY <1>1, <2>4, <3>1 DEF WrittenUpTo
    <3> PICK u : u = Written(ret.keep)
      OBVIOUS
    <3>3. u \in Seq(Nat) /\ HasLine(u, k)
      BY <2>4, <3>2 DEF WrittenUpTo
    <3>4. SubSeq(log, Len(u) + 1, Len(log)) \in Seq(Nat)
      BY <1>4, <3>3
    <3>5. HasLine(u \o SubSeq(log, Len(u) + 1, Len(log)), k)
      BY <1>1, <3>3, <3>4, LinesStay
    <3>6. HasLine(log', k)
      BY <2>1, <3>5
    <3>7. QED
      BY <2>2, <3>6 DEF Remembered
  <2>6. QED
    BY <1>1, <1>2, <1>3, <2>1, <2>5 DEF Known
<1>16. CASE Kill
  <2>1. /\ ret.at # "idle" /\ ret' = NoRun /\ log' = log /\ touched' = touched
        /\ ret.at = "write" => DOMAIN acks \subseteq disturbed'
        /\ epoch' = epoch
    BY <1>16 DEF Kill, file, clock
  <2>2. ret'.at = "idle" /\ ret.at # "write"
    BY <1>1, <2>1, NoRunFields DEF Settled
  <2>3. Remembered(k) => Remembered(k)'
    BY <2>1, <2>2 DEF Remembered
  <2>4. QED
    BY <1>2, <1>3, <2>1, <2>3 DEF Known
<1>17. CASE UNCHANGED vars
  BY <1>7, <1>17 DEF vars
<1>18. ASSUME NEW r \in Rule \cup {NoRule}, Fire(r) PROVE Known(k)'
  BY <1>7, <1>18 DEF Fire
<1>19. ASSUME NEW p \in Analyst, NEW r \in Rule, AckBegin(p, r) PROVE Known(k)'
  BY <1>7, <1>19 DEF AckBegin
<1>20. CASE Tick \/ SetBack
  BY <1>7, <1>20 DEF Tick, SetBack
<1>21. ASSUME NEW p \in Analyst, AckKill(p) PROVE Known(k)'
  BY <1>7, <1>21 DEF AckKill
<1>22. QED
  BY <1>8, <1>9, <1>10, <1>11, <1>12, <1>13, <1>14, <1>15, <1>16, <1>17, <1>18, <1>19, <1>20,
     <1>21 DEF Next

LEMMA MemoryKept ==
  ASSUME MemoryIInv, [Next]_vars
  PROVE  MemoryIInv'
<1>1. ASSUME NEW k \in Settled' PROVE Known(k)'
  <2>1. CASE k \in Settled
    BY <2>1, KnownKept
  <2>2. CASE k \notin Settled
    <3>1. /\ k \in DOMAIN acks
          /\ ret'.at = "idle" /\ HasLine(log', k) /\ touched' = now /\ epoch' = epoch
      BY <2>2, Settling
    <3>2. acks'[k].epoch = epoch => acks'[k].ts <= now
      BY <3>1, HistoryGrows DEF MemoryIInv, ClockInv
    <3>3. QED
      BY <3>1, <3>2 DEF Known, Remembered
  <2>3. QED
    BY <2>1, <2>2
<1>2. MemoryInv'
  BY <1>1 DEF MemoryInv
<1>3. ClockInv'
  BY ClockKept DEF MemoryIInv
<1>4. QED
  BY <1>2, <1>3, LogTypesKept, RunTypesKept, CoverKept, AckersKept, FileKept, SweepKept
  DEF MemoryIInv

LEMMA MemoryBegins ==
  ASSUME Init
  PROVE  MemoryIInv
<1>1. ClockInv /\ CoverInv
  BY DEF Init, ClockInv, CoverInv
<1>2. acker \in [Analyst -> Progress] /\ \A p \in Analyst : acker[p].at = "idle" /\ acker[p].ack = 0
  BY DEF Init, NotAcking, Progress
<1>3. LogTypes
  <2>1. /\ log = << >> /\ gen = 0 /\ exists = FALSE /\ touched = 0 /\ done = {}
    BY DEF Init
  <2>2. << >> \in Seq(Nat)
    OBVIOUS
  <2>3. log \in Seq(Nat)
    BY <2>1, <2>2
  <2>4. QED
    BY <1>2, <2>1, <2>3 DEF LogTypes, Progress
<1>4. RunTypes
  BY NoRunFields DEF Init, RunTypes, RunRecord
<1>5. AckersInv
  BY <1>2 DEF AckersInv, AckerInv, ApartInv
<1>6. FileInv
  BY <1>2, NoRunFields DEF Init, FileInv, Complete, WriterInv
<1>7. SweepInv
  BY NoRunFields DEF Init, SweepInv
<1>8. MemoryInv
  BY DEF Init, MemoryInv, Settled
<1>9. QED
  BY <1>1, <1>3, <1>4, <1>5, <1>6, <1>7, <1>8 DEF MemoryIInv

LEMMA MemoryImplies ==
  ASSUME MemoryIInv
  PROVE  AckedStaysHidden
<1> SUFFICES ASSUME ret.at = "idle", NEW k \in done \ (disturbed \cup glued), NEW i \in 1..acks[k].upto
             PROVE  \/ alerts[i].rule # acks[k].rule
                    \/ i \in deleted
                    \/ Hidden(i)
                    \/ NeverCovered(k, i)
                    \/ k \in swept /\ acks[k].epoch < epoch
                    \/ \E c \in cutoffs : acks[k].ts < c /\ Hour(alerts[i].ts) = Hour(c)
  BY DEF AckedStaysHidden
<1>1. k \in Settled /\ k \in DOMAIN acks /\ k \in Nat \ {0}
  BY SettledFacts DEF Settled
<1>2. Forgotten(k) \/ Swept(k) \/ Remembered(k)
  BY <1>1 DEF MemoryIInv, MemoryInv, Known
<1>3. CASE Forgotten(k)
  BY <1>3 DEF Forgotten
<1>4. CASE Remembered(k)
  <2>1. HasLine(log, k) /\ log \in Seq(Nat)
    BY <1>4 DEF Remembered, MemoryIInv, LogTypes
  <2>2. PICK m \in 1..Len(LogLines(log)) : LogLines(log)[m] = <<k>>
    BY <1>1, <2>1, LogLinesFacts
  <2>3. <<k>> \in ToSet(LogLines(log))
    <3>1. LogLines(log) \in Seq(Seq(Nat))
      BY <2>1, LogLinesFacts
    <3> DEFINE lines == LogLines(log)
    <3>2. m \in DOMAIN lines /\ lines[m] = <<k>>
      BY <2>2, <3>1
    <3> HIDE DEF lines
    <3>3. <<k>> \in {lines[j] : j \in DOMAIN lines}
      BY <3>2
    <3>4. QED
      BY <3>3 DEF ToSet, lines
  <2>4. Parses(<<k>>) /\ Timestamp(<<k>>) = acks[k].ts
    BY <1>1 DEF Parses, Timestamp
  <2>5. alerts[i].rule = acks[k].rule => acks[k].ts \in Marks(alerts[i].rule)
    <3> DEFINE x == <<k>>
    <3>1. x \in ToSet(LogLines(log)) /\ Parses(x) /\ Timestamp(x) = acks[k].ts /\ x[1] = k
      BY <2>3, <2>4
    <3> HIDE DEF x
    <3>2. QED
      BY <3>1 DEF Marks
  <2>6. alerts[i].ts <= acks[k].ts \/ NeverCovered(k, i)
    BY <1>1 DEF MemoryIInv, CoverInv
  <2>7. QED
    BY <2>5, <2>6 DEF Hidden
<1>5. CASE Swept(k)
  BY <1>5 DEF Swept
<1>6. QED
  BY <1>2, <1>3, <1>4, <1>5

\* What an analyst has acknowledged stays hidden through every compaction of the log,
\* for any number of analysts, acknowledgements, alerts, retention runs, kills and set-backs
\* of the clock.  The log forgets an acknowledgement only when the alerts it hid are removed,
\* but for those of an hour a cutoff fell in; but not when two commands ran at one time, when
\* retention was killed as it rewrote the file, when the acknowledgement before was killed
\* before its newline, or when the file went for a modification time from before the clock
\* was set back.  (alerts.rs ack, filter_acked, compact_ack_log, main.rs cmd_retention.)
THEOREM AcknowledgedStaysHidden == Spec => []AckedStaysHidden
<1>1. Init => MemoryIInv
  BY MemoryBegins
<1>2. MemoryIInv /\ [Next]_vars => MemoryIInv'
  BY MemoryKept
<1>3. MemoryIInv => AckedStaysHidden
  BY MemoryImplies
<1>4. QED
  BY <1>1, <1>2, <1>3, PTL DEF Spec
===============================================================================
