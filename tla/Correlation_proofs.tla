-------------------------- MODULE Correlation_proofs --------------------------
(***************************************************************************)
(* Theorems about the correlation engine, for every set of rules, every    *)
(* eviction period, every clock and every input.                           *)
(***************************************************************************)
EXTENDS CorrelationHistory, CorrelationRefines, FiniteSetTheorems,
        WellFoundedInduction, TLAPS

(***************************************************************************)
(* The operators of CorrelationRules.                                      *)
(***************************************************************************)

\* The configuration of a rule has the types that config.rs declares.
LEMMA RuleFacts ==
  ASSUME NEW r \in Rule
  PROVE  /\ Rules[r] \in CorrelationRule
         /\ Len(Rules[r].steps) \in Nat \ {0}
         /\ Window(r) \in Nat
         /\ Rules[r].ordered \in BOOLEAN
         /\ \A i \in Step(r) : MinCount(r, i) \in Nat
<1>1. Rules[r] \in CorrelationRule
  BY RulesAssumption DEF Rule
<1>2. Rules[r].steps \in Seq(StepConfig) /\ Rules[r].steps # << >>
  BY <1>1, RulesAssumption DEF CorrelationRule, Rule
<1>3. Len(Rules[r].steps) \in Nat \ {0}
  BY <1>2
<1>4. \A i \in Step(r) : Rules[r].steps[i] \in StepConfig
  BY <1>2 DEF Step
<1>5. QED
  BY <1>1, <1>3, <1>4 DEF CorrelationRule, StepConfig, Window, MinCount

\* The cursor of an ordered rule never leaves 1..(number of steps + 1).
LEMMA CursorType ==
  ASSUME NEW r \in Rule, NEW c \in ChainState(r), NEW a
  PROVE  Cursor(r, c, a) \in 1..(Len(Rules[r].steps) + 1)
<1> DEFINE n == Len(Rules[r].steps)
           cs == c.current_step
<1>1. n \in Nat \ {0} /\ cs \in 1..(n + 1)
  BY RuleFacts DEF ChainState
<1>2. Run(r, c, a) \in SUBSET (cs..n)
  BY DEF Run
<1> HIDE DEF n, cs
<1>3. /\ IsFiniteSet(cs..n)
      /\ Cardinality(cs..n) = IF cs > n THEN 0 ELSE n - cs + 1
  <2>1. cs \in Int /\ n \in Int
    BY <1>1
  <2>2. QED
    BY <2>1, FS_Interval
<1>4. /\ Cardinality(Run(r, c, a)) \in Nat
      /\ Cardinality(Run(r, c, a)) <= Cardinality(cs..n)
  BY <1>3, <1>2, FS_Subset, FS_CardinalityType
<1>5. cs + Cardinality(Run(r, c, a)) \in 1..(n + 1)
  BY <1>1, <1>3, <1>4
<1>6. QED
  BY <1>1, <1>5 DEF Cursor, n, cs

\* Counting an alert keeps a chain a chain.
LEMMA AdvanceType ==
  ASSUME NEW r \in Rule, NEW c \in ChainState(r), NEW a, NEW n \in Nat
  PROVE  Advance(r, c, a, n) \in ChainState(r)
<1>1. Cursor(r, c, a) \in 1..(Len(Rules[r].steps) + 1)
  BY CursorType
<1> DEFINE counts == [i \in Step(r) |->
                        IF i \in Counted(r, c, a) THEN c.step_counts[i] + 1
                        ELSE c.step_counts[i]]
           samples == [i \in Step(r) |->
                        IF i \in Counted(r, c, a)
                             /\ Len(c.step_samples[i]) < SamplesPerStep
                        THEN Append(c.step_samples[i], n)
                        ELSE c.step_samples[i]]
<1>2. counts \in [Step(r) -> Nat]
  BY DEF ChainState
<1>3. samples \in [Step(r) -> Seq(Nat)]
  BY DEF ChainState
<1>4. Advance(r, c, a, n) = [c EXCEPT !.step_counts = counts,
                                      !.step_samples = samples,
                                      !.current_step = Cursor(r, c, a)]
  BY DEF Advance
<1> HIDE DEF counts, samples
<1>5. QED
  BY <1>1, <1>2, <1>3, <1>4 DEF ChainState

\* Counting an alert leaves the start of the chain alone.
LEMMA AdvanceKeepsStart ==
  ASSUME NEW r \in Rule, NEW c \in ChainState(r), NEW a, NEW n \in Nat
  PROVE  /\ Advance(r, c, a, n).chain_start = c.chain_start
         /\ Advance(r, c, a, n).opened = c.opened
  BY DEF Advance, ChainState

LEMMA NewChainType ==
  ASSUME NEW r \in Rule, NEW n \in Nat, NEW t \in Nat
  PROVE  NewChain(r, n, t) \in ChainState(r)
<1>1. 1 \in 1..(Len(Rules[r].steps) + 1)
  BY RuleFacts
<1>2. QED
  BY <1>1 DEF NewChain, ChainState

\* The chain an alert is applied to is never older than the window.
LEMMA OpenedFacts ==
  ASSUME NEW r \in Rule, NEW c \in ChainState(r) \cup {NoChain},
         NEW n \in Nat, NEW t \in Nat
  PROVE  /\ Opened(r, c, n, t) \in ChainState(r)
         /\ ~ Expired(r, Opened(r, c, n, t), t)
         /\ \/ Opened(r, c, n, t).opened = n
            \/ c # NoChain /\ Opened(r, c, n, t) = c
<1>1. Window(r) \in Nat
  BY RuleFacts
<1>2. NewChain(r, n, t) \in ChainState(r)
  BY NewChainType
<1>3. NewChain(r, n, t).chain_start = t /\ NewChain(r, n, t).opened = n
  BY DEF NewChain
<1>4. ~ Expired(r, NewChain(r, n, t), t)
  BY <1>1, <1>3 DEF Expired
<1>5. QED
  BY <1>2, <1>3, <1>4 DEF Opened

LEMMA FedFacts ==
  ASSUME NEW r \in Rule, NEW c \in ChainState(r) \cup {NoChain}, NEW a,
         NEW n \in Nat, NEW t \in Nat
  PROVE  /\ Fed(r, c, a, n, t) \in ChainState(r)
         /\ ~ Expired(r, Fed(r, c, a, n, t), t)
         /\ \/ Fed(r, c, a, n, t).opened = n
            \/ c # NoChain /\ Fed(r, c, a, n, t).opened = c.opened
<1>1. Opened(r, c, n, t) \in ChainState(r)
  BY OpenedFacts
<1>2. Fed(r, c, a, n, t) \in ChainState(r)
  BY <1>1, AdvanceType DEF Fed
<1>3. /\ Fed(r, c, a, n, t).chain_start = Opened(r, c, n, t).chain_start
      /\ Fed(r, c, a, n, t).opened = Opened(r, c, n, t).opened
  BY <1>1, AdvanceKeepsStart DEF Fed
<1>4. /\ ~ Expired(r, Opened(r, c, n, t), t)
      /\ \/ Opened(r, c, n, t).opened = n
         \/ c # NoChain /\ Opened(r, c, n, t).opened = c.opened
  <2>1. c # NoChain /\ Opened(r, c, n, t) = c
          => Opened(r, c, n, t).opened = c.opened
    OBVIOUS
  <2>2. QED
    BY <2>1, OpenedFacts
<1>5. QED
  BY <1>2, <1>3, <1>4 DEF Expired

LEMMA AfterType ==
  ASSUME NEW r \in Rule, NEW j \in JoinValue,
         NEW c \in ChainState(r) \cup {NoChain}, NEW a,
         NEW n \in Nat, NEW t \in Nat
  PROVE  After(r, j, c, a, n, t) \in ChainState(r) \cup {NoChain}
  BY FedFacts DEF After

\* A pruned map holds only chains that were there, none of them expired.
LEMMA PruneFacts ==
  ASSUME NEW chains, NEW t
  PROVE  /\ DOMAIN Prune(chains, t) = Rule
         /\ \A r \in Rule : /\ DOMAIN Prune(chains, t)[r] = JoinValue
                            /\ \A j \in JoinValue :
                                 \/ Prune(chains, t)[r][j] = NoChain
                                 \/ /\ Prune(chains, t)[r][j] = chains[r][j]
                                    /\ ~ Expired(r, chains[r][j], t)
  BY DEF Prune

(***************************************************************************)
(* The engine's type invariant.                                            *)
(***************************************************************************)

\* The chains an alert meets are those of the map, less what was evicted.
LEMMA BaseFacts ==
  ASSUME TypeOK, NEW r \in Rule, NEW j \in JoinValue
  PROVE  /\ Base[r][j] \in ChainState(r) \cup {NoChain}
         /\ Base[r][j] # NoChain => Base[r][j] = states[r][j]
<1>1. states[r][j] \in ChainState(r) \cup {NoChain}
  BY DEF TypeOK
<1>2. QED
  BY <1>1, PruneFacts DEF Base

\* A correlation alert reports a satisfied chain no older than the window.
LEMMA TriggeredFacts ==
  ASSUME TypeOK, NEW a \in Alert,
         NEW t \in Triggered(Base, a, Len(fed) + 1, now)
  PROVE  \E r \in Rule, j \in JoinValue :
           LET c == Fed(r, Base[r][j], a, Len(fed) + 1, now) IN
           /\ Fires(r, j, Base[r][j], a, Len(fed) + 1, now)
           /\ c \in ChainState(r)
           /\ ~ Expired(r, c, now)
           /\ Satisfied(r, c)
           /\ t = Report(r, j, c, Len(fed) + 1, now)
<1>1. PICK rj \in Rule \X JoinValue :
        /\ Fires(rj[1], rj[2], Base[rj[1]][rj[2]], a, Len(fed) + 1, now)
        /\ t = Report(rj[1], rj[2],
                      Fed(rj[1], Base[rj[1]][rj[2]], a, Len(fed) + 1, now),
                      Len(fed) + 1, now)
  BY DEF Triggered
<1> DEFINE r == rj[1]
           j == rj[2]
<1>2. r \in Rule /\ j \in JoinValue
  OBVIOUS
<1>3. Len(fed) + 1 \in Nat /\ now \in Nat
  BY DEF TypeOK
<1>4. Base[r][j] \in ChainState(r) \cup {NoChain}
  BY <1>2, BaseFacts
<1>5. QED
  BY <1>1, <1>2, <1>3, <1>4, FedFacts DEF Fires

LEMMA ReportType ==
  ASSUME NEW r \in Rule, NEW j \in JoinValue, NEW c \in ChainState(r),
         NEW n \in Nat, NEW t \in Nat
  PROVE  /\ Report(r, j, c, n, t).rule = r
         /\ Report(r, j, c, n, t) \in TriggerRecord(r)
  BY DEF Report, TriggerRecord, ChainState

LEMMA TypeInit == Init => TypeOK
  BY EngineAssumption DEF Init, TypeOK

LEMMA TypeStep == TypeOK /\ [Next]_vars => TypeOK'
<1> SUFFICES ASSUME TypeOK, [Next]_vars PROVE TypeOK'
  OBVIOUS
<1>1. ASSUME NEW a \in Alert, FeedUnclassified(a) PROVE TypeOK'
  BY <1>1 DEF FeedUnclassified, Record, TypeOK
<1>2. ASSUME NEW a \in Alert, Feed(a) PROVE TypeOK'
  <2> DEFINE n == Len(fed) + 1
  <2>1. n \in Nat /\ now \in Nat
    BY DEF TypeOK
  <2>2. DOMAIN states' = Rule
    BY <1>2 DEF Feed
  <2>3. \A r \in Rule : states'[r] \in [JoinValue -> ChainState(r) \cup {NoChain}]
    <3>1. ASSUME NEW r \in Rule
          PROVE  states'[r] = [j \in JoinValue |-> After(r, j, Base[r][j], a, n, now)]
      BY <1>2 DEF Feed
    <3>2. ASSUME NEW r \in Rule, NEW j \in JoinValue
          PROVE  After(r, j, Base[r][j], a, n, now) \in ChainState(r) \cup {NoChain}
      BY <2>1, BaseFacts, AfterType
    <3>3. QED
      BY <3>1, <3>2
  <2>4. feed_count' \in 0..(EvictPeriod - 1)
    BY <1>2, EngineAssumption DEF Feed, TypeOK
  <2>5. fed' \in Seq([alert : Alert, at : Nat]) /\ now' \in Nat
    BY <1>2 DEF Feed, Record, TypeOK
  <2>6. \A t \in triggered' : t.rule \in Rule /\ t \in TriggerRecord(t.rule)
    <3>1. ASSUME NEW t \in Triggered(Base, a, n, now)
          PROVE  t.rule \in Rule /\ t \in TriggerRecord(t.rule)
      BY <2>1, TriggeredFacts, ReportType
    <3>2. QED
      BY <1>2, <3>1 DEF Feed, TypeOK
  <2>7. QED
    BY <2>2, <2>3, <2>4, <2>5, <2>6 DEF TypeOK
<1>3. ASSUME NEW d \in ClockStep, Tick(d) PROVE TypeOK'
  BY <1>3, EngineAssumption DEF Tick, TypeOK
<1>4. CASE Restart
  BY <1>4, EngineAssumption DEF Restart, TypeOK
<1>5. CASE UNCHANGED vars
  BY <1>5 DEF vars, TypeOK
<1>6. QED
  BY <1>1, <1>2, <1>3, <1>4, <1>5 DEF Next

\* Type correctness: in particular the cursor of a chain stays within its
\* rule's steps, so states[rule_idx][join_value].step_counts is never indexed
\* out of bounds.
THEOREM TypeCorrect == Spec => []TypeOK
<1>1. QED
  BY TypeInit, TypeStep, PTL DEF Spec

(***************************************************************************)
(* The inductive invariant behind the safety properties: chains and        *)
(* reports of one rule and join value own disjoint stretches of the input. *)
(***************************************************************************)

\* A chain was opened by an alert that was fed, is incomplete, and is younger
\* than every report of its rule and join value.
ChainInv ==
    \A r \in Rule, j \in JoinValue : states[r][j] # NoChain =>
        /\ ~ Satisfied(r, states[r][j])
        /\ states[r][j].opened <= Len(fed)
        /\ \A t \in triggered : t.rule = r /\ t.join_value = j =>
              t.by < states[r][j].opened

\* A report is about alerts that were fed, all within its rule's window.
ReportInv ==
    \A t \in triggered :
        /\ t.by <= Len(fed)
        /\ t.chain_end - t.chain_start <= Window(t.rule)
        /\ \A i \in Step(t.rule) : t.step_counts[i] >= MinCount(t.rule, i)

IInv == TypeOK /\ ChainInv /\ ReportInv /\ NoSharedEvidence

\* What one call of feed_at reports, in the terms of the invariant.
LEMMA NewReportFacts ==
  ASSUME IInv, NEW a \in Alert, NEW t \in Triggered(Base, a, Len(fed) + 1, now)
  PROVE  /\ t.rule \in Rule /\ t.join_value \in JoinValue
         /\ Touches(t.rule, t.join_value, a)
         /\ After(t.rule, t.join_value, Base[t.rule][t.join_value], a,
                  Len(fed) + 1, now) = NoChain
         /\ t.by = Len(fed) + 1
         /\ t.chain_end - t.chain_start <= Window(t.rule)
         /\ \A i \in Step(t.rule) : t.step_counts[i] >= MinCount(t.rule, i)
         /\ \A u \in triggered :
               u.rule = t.rule /\ u.join_value = t.join_value => u.by < t.opened
         /\ t = Report(t.rule, t.join_value,
                       Fed(t.rule, Base[t.rule][t.join_value], a, Len(fed) + 1, now),
                       Len(fed) + 1, now)
<1> DEFINE n == Len(fed) + 1
<1>1. n \in Nat /\ now \in Nat /\ Len(fed) \in Nat
  BY DEF IInv, TypeOK
<1>2. PICK r \in Rule, j \in JoinValue :
        LET c == Fed(r, Base[r][j], a, n, now) IN
        /\ Fires(r, j, Base[r][j], a, n, now)
        /\ c \in ChainState(r)
        /\ ~ Expired(r, c, now)
        /\ Satisfied(r, c)
        /\ t = Report(r, j, c, n, now)
  BY TriggeredFacts DEF IInv
<1> DEFINE c == Fed(r, Base[r][j], a, n, now)
<1>3. /\ t.rule = r /\ t.join_value = j /\ t.by = n
      /\ t.chain_start = c.chain_start /\ t.chain_end = now
      /\ t.step_counts = c.step_counts /\ t.opened = c.opened
  BY <1>2 DEF Report
<1>4. After(r, j, Base[r][j], a, n, now) = NoChain /\ Touches(r, j, a)
  BY <1>2 DEF After, Fires
<1>5. t.chain_end - t.chain_start <= Window(r)
  <2>1. c.chain_start \in Nat /\ Window(r) \in Nat
    BY <1>2, RuleFacts DEF ChainState
  <2>2. QED
    BY <1>1, <1>2, <1>3, <2>1 DEF Expired
<1>6. \A i \in Step(r) : t.step_counts[i] >= MinCount(r, i)
  BY <1>2, <1>3 DEF Satisfied
<1>7. \A u \in triggered : u.rule = r /\ u.join_value = j => u.by < t.opened
  <2>1. /\ Base[r][j] \in ChainState(r) \cup {NoChain}
        /\ Base[r][j] # NoChain => Base[r][j] = states[r][j]
    BY BaseFacts DEF IInv
  <2>2. \/ c.opened = n
        \/ Base[r][j] # NoChain /\ c.opened = Base[r][j].opened
    BY <1>1, <2>1, FedFacts
  <2>3. CASE c.opened = n
    <3>1. \A u \in triggered : u.by <= Len(fed) /\ u.by \in Nat
      BY DEF IInv, ReportInv, TypeOK, TriggerRecord
    <3>2. QED
      BY <1>1, <1>3, <2>3, <3>1
  <2>4. CASE Base[r][j] # NoChain /\ c.opened = Base[r][j].opened
    BY <1>3, <2>1, <2>4 DEF IInv, ChainInv
  <2>5. QED
    BY <2>2, <2>3, <2>4
<1>8. QED
  BY <1>2, <1>3, <1>4, <1>5, <1>6, <1>7

\* What one call of feed_at leaves in the map.
LEMMA NewChainFacts ==
  ASSUME IInv, NEW a \in Alert, NEW r \in Rule, NEW j \in JoinValue,
         After(r, j, Base[r][j], a, Len(fed) + 1, now) # NoChain
  PROVE  LET c == After(r, j, Base[r][j], a, Len(fed) + 1, now) IN
         /\ ~ Satisfied(r, c)
         /\ c.opened <= Len(fed) + 1
         /\ \A t \in triggered : t.rule = r /\ t.join_value = j => t.by < c.opened
<1> DEFINE n == Len(fed) + 1
           c == After(r, j, Base[r][j], a, n, now)
<1>1. n \in Nat /\ now \in Nat /\ Len(fed) \in Nat
  BY DEF IInv, TypeOK
<1>2. /\ Base[r][j] \in ChainState(r) \cup {NoChain}
      /\ Base[r][j] # NoChain => Base[r][j] = states[r][j]
  BY BaseFacts DEF IInv
<1>3. Base[r][j] # NoChain =>
        /\ ~ Satisfied(r, Base[r][j])
        /\ Base[r][j].opened <= Len(fed)
        /\ Base[r][j].opened \in Nat
        /\ \A t \in triggered : t.rule = r /\ t.join_value = j =>
              t.by < Base[r][j].opened
  <2>1. ASSUME Base[r][j] # NoChain PROVE Base[r][j].opened \in Nat
    BY <1>2, <2>1 DEF ChainState
  <2>2. QED
    BY <1>2, <2>1 DEF IInv, ChainInv
<1>4. CASE ~ Touches(r, j, a)
  <2>1. c = Base[r][j]
    BY <1>4 DEF After
  <2>2. QED
    BY <1>1, <1>3, <2>1
<1>5. CASE Touches(r, j, a)
  <2>1. c = Fed(r, Base[r][j], a, n, now) /\ ~ Satisfied(r, c)
    BY <1>5 DEF After
  <2>2. \/ c.opened = n
        \/ Base[r][j] # NoChain /\ c.opened = Base[r][j].opened
    BY <1>1, <1>2, <2>1, FedFacts
  <2>3. CASE c.opened = n
    <3>1. \A t \in triggered : t.by <= Len(fed) /\ t.by \in Nat
      BY DEF IInv, ReportInv, TypeOK, TriggerRecord
    <3>2. QED
      BY <1>1, <2>1, <2>3, <3>1
  <2>4. CASE Base[r][j] # NoChain /\ c.opened = Base[r][j].opened
    BY <1>1, <1>3, <2>1, <2>4
  <2>5. QED
    BY <2>2, <2>3, <2>4
<1>6. QED
  BY <1>4, <1>5

LEMMA InvInit == Init => IInv
<1>1. Init => ChainInv /\ ReportInv /\ NoSharedEvidence
  BY DEF Init, ChainInv, ReportInv, NoSharedEvidence
<1>2. QED
  BY <1>1, TypeInit DEF IInv

LEMMA InvFeed ==
  ASSUME IInv, NEW a \in Alert, Feed(a)
  PROVE  ChainInv' /\ ReportInv' /\ NoSharedEvidence'
<1> DEFINE n == Len(fed) + 1
           new == Triggered(Base, a, n, now)
<1>1. /\ Len(fed) \in Nat /\ Len(fed') = n
      /\ triggered' = triggered \cup new
  BY DEF Feed, Record, IInv, TypeOK
<1>2. \A r \in Rule, j \in JoinValue :
        states'[r][j] = After(r, j, Base[r][j], a, n, now)
  BY DEF Feed
<1>3. ChainInv'
  <2> SUFFICES ASSUME NEW r \in Rule, NEW j \in JoinValue,
                      states'[r][j] # NoChain
               PROVE  /\ ~ Satisfied(r, states'[r][j])
                      /\ states'[r][j].opened <= n
                      /\ \A t \in triggered' : t.rule = r /\ t.join_value = j =>
                            t.by < states'[r][j].opened
    BY <1>1 DEF ChainInv
  <2>1. After(r, j, Base[r][j], a, n, now) # NoChain
    BY <1>2
  <2>2. \A t \in new : ~ (t.rule = r /\ t.join_value = j)
    BY <2>1, NewReportFacts
  <2>3. /\ ~ Satisfied(r, states'[r][j])
        /\ states'[r][j].opened <= n
        /\ \A t \in triggered : t.rule = r /\ t.join_value = j =>
              t.by < states'[r][j].opened
    BY <1>2, <2>1, NewChainFacts
  <2>4. QED
    BY <1>1, <2>2, <2>3
<1>4. ReportInv'
  <2>1. \A t \in triggered : t.by \in Nat
    BY DEF IInv, TypeOK, TriggerRecord
  <2>2. \A t \in triggered : t.by <= n
    BY <1>1, <2>1 DEF IInv, ReportInv
  <2>3. \A t \in new :
          /\ t.by <= n
          /\ t.chain_end - t.chain_start <= Window(t.rule)
          /\ \A i \in Step(t.rule) : t.step_counts[i] >= MinCount(t.rule, i)
    BY <1>1, NewReportFacts
  <2>4. QED
    BY <1>1, <2>2, <2>3 DEF IInv, ReportInv
<1>5. NoSharedEvidence'
  <2> SUFFICES ASSUME NEW t \in triggered', NEW u \in triggered',
                      t.rule = u.rule, t.join_value = u.join_value, t # u
               PROVE  t.by < u.opened \/ u.by < t.opened
    BY DEF NoSharedEvidence
  <2>1. CASE t \in triggered /\ u \in triggered
    BY <2>1 DEF IInv, NoSharedEvidence
  <2>2. CASE t \in triggered /\ u \in new
    BY <2>2, NewReportFacts
  <2>3. CASE t \in new /\ u \in triggered
    BY <2>3, NewReportFacts
  <2>4. CASE t \in new /\ u \in new
    BY <2>4, NewReportFacts
  <2>5. QED
    BY <1>1, <2>1, <2>2, <2>3, <2>4
<1>6. QED
  BY <1>3, <1>4, <1>5

LEMMA InvStep == IInv /\ [Next]_vars => IInv'
<1> SUFFICES ASSUME IInv, [Next]_vars PROVE IInv'
  OBVIOUS
<1>1. TypeOK'
  BY TypeStep DEF IInv
<1>2. ASSUME NEW a \in Alert, FeedUnclassified(a)
      PROVE  ChainInv' /\ ReportInv' /\ NoSharedEvidence'
  <2>1. Len(fed) \in Nat /\ Len(fed') = Len(fed) + 1
    BY <1>2 DEF FeedUnclassified, Record, IInv, TypeOK
  <2>2. \A t \in triggered : t.by \in Nat
    BY DEF IInv, TypeOK, TriggerRecord
  <2>3. \A r \in Rule, j \in JoinValue :
          states[r][j] # NoChain => states[r][j].opened \in Nat
    <3>1. \A r \in Rule, j \in JoinValue :
            states[r][j] # NoChain => states[r][j] \in ChainState(r)
      BY DEF IInv, TypeOK
    <3>2. QED
      BY <3>1 DEF ChainState
  <2>4. UNCHANGED <<states, triggered>>
    BY <1>2 DEF FeedUnclassified
  <2>5. ChainInv'
    BY <2>1, <2>3, <2>4 DEF IInv, ChainInv
  <2>6. ReportInv'
    BY <2>1, <2>2, <2>4 DEF IInv, ReportInv
  <2>7. QED
    BY <2>4, <2>5, <2>6 DEF IInv, NoSharedEvidence
<1>3. ASSUME NEW a \in Alert, Feed(a)
      PROVE  ChainInv' /\ ReportInv' /\ NoSharedEvidence'
  BY <1>3, InvFeed
<1>4. ASSUME NEW d \in ClockStep, Tick(d)
      PROVE  ChainInv' /\ ReportInv' /\ NoSharedEvidence'
  BY <1>4 DEF Tick, IInv, ChainInv, ReportInv, NoSharedEvidence
<1>5. CASE Restart
  BY <1>1, <1>5 DEF Restart, IInv, ChainInv, ReportInv, NoSharedEvidence
<1>6. CASE UNCHANGED vars
  BY <1>1, <1>6 DEF vars, IInv, ChainInv, ReportInv, NoSharedEvidence
<1>7. QED
  BY <1>1, <1>2, <1>3, <1>4, <1>5, <1>6 DEF IInv, Next

LEMMA InvHolds == Spec => []IInv
  BY InvInit, InvStep, PTL DEF Spec

\* feed_at removes a chain in the call that satisfies it: none stays in the
\* map to be reported a second time.
THEOREM SatisfiedChainsLeave == Spec => []NoSatisfiedChainWaits
<1>1. IInv => NoSatisfiedChainWaits
  BY DEF IInv, ChainInv, NoSatisfiedChainWaits
<1>2. QED
  BY <1>1, InvHolds, PTL

\* The pattern a correlation alert reports fits the configured window, even
\* when the clock is set back.
THEOREM WindowsRespected == Spec => []ReportsWithinWindow
<1>1. IInv => ReportsWithinWindow
  BY DEF IInv, ReportInv, ReportsWithinWindow
<1>2. QED
  BY <1>1, InvHolds, PTL

\* No input alert is ever evidence for two correlation alerts of the same rule
\* and join value.
THEOREM EvidenceIsExclusive == Spec => []NoSharedEvidence
<1>1. IInv => NoSharedEvidence
  BY DEF IInv
<1>2. QED
  BY <1>1, InvHolds, PTL

\* An alert changes no chain but those of its own join value, save by evicting
\* one whose window has passed.
THEOREM ChainsAreIsolated == Spec => Isolation
<1>1. ASSUME NEW a \in Alert, Feed(a), NEW r \in Rule, NEW j \in JoinValue,
             ~ Touches(r, j, a), states'[r][j] # states[r][j]
      PROVE  states'[r][j] = NoChain /\ Expired(r, states[r][j], now)
  <2>1. states'[r][j] = Base[r][j]
    BY <1>1 DEF Feed, After
  <2>2. Base = Prune(states, now)
    BY <1>1, <2>1 DEF Base
  <2>3. QED
    BY <1>1, <2>1, <2>2 DEF Prune
<1>2. [Next]_vars =>
        [\A a \in Alert : Feed(a) =>
            \A r \in Rule, j \in JoinValue :
                ~ Touches(r, j, a) /\ states'[r][j] # states[r][j]
                    => /\ states'[r][j] = NoChain
                       /\ Expired(r, states[r][j], now)]_vars
  BY <1>1
<1>3. QED
  BY <1>2, PTL DEF Spec, Isolation

(***************************************************************************)
(* Refinement: with a clock that never runs backwards, eviction and lazy   *)
(* replacement cannot be told from chains that vanish on time.             *)
(***************************************************************************)

\* The contract's copy of the vocabulary is the vocabulary.
LEMMA SameVocabulary ==
  /\ Contract!Rule = Rule
  /\ \A r, j, c, a, n, t : Contract!After(r, j, c, a, n, t) = After(r, j, c, a, n, t)
  /\ \A chains, a, n, t :
        Contract!Triggered(chains, a, n, t) = Triggered(chains, a, n, t)
  /\ \A chains, t : Contract!Prune(chains, t) = Prune(chains, t)
<1>1. Contract!Rule = Rule
  BY DEF Rule, Contract!Rule
<1>2. \A r : Contract!Step(r) = Step(r)
  BY DEF Step, Contract!Step
<1>3. \A r : Contract!Window(r) = Window(r)
  BY DEF Window, Contract!Window
<1>4. \A r, i : Contract!MinCount(r, i) = MinCount(r, i)
  BY DEF MinCount, Contract!MinCount
<1>5. \A r, n, t : Contract!NewChain(r, n, t) = NewChain(r, n, t)
  BY <1>2 DEF NewChain, Contract!NewChain
<1>6. \A a, f : Contract!ExtractField(a, f) = ExtractField(a, f)
  BY DEF ExtractField, Contract!ExtractField
<1>7. \A r, a : Contract!MatchingSteps(r, a) = MatchingSteps(r, a)
  BY <1>2 DEF MatchingSteps, Contract!MatchingSteps
<1>8. \A r, j, a : Contract!Touches(r, j, a) = Touches(r, j, a)
  BY <1>7, <1>6 DEF Touches, Contract!Touches
<1>9. \A r, c, t : Contract!Expired(r, c, t) = Expired(r, c, t)
  BY <1>3 DEF Expired, Contract!Expired
<1>10. \A r, c, n, t : Contract!Opened(r, c, n, t) = Opened(r, c, n, t)
  BY <1>9, <1>5 DEF Opened, Contract!Opened
<1>11. \A r, c, a, i : Contract!Completes(r, c, a, i) = Completes(r, c, a, i)
  BY <1>7, <1>4 DEF Completes, Contract!Completes
<1>12. \A r, c, a : Contract!Run(r, c, a) = Run(r, c, a)
  BY <1>11 DEF Run, Contract!Run
<1>13. \A r, c, a : Contract!Cursor(r, c, a) = Cursor(r, c, a)
  <2>1. ASSUME NEW S PROVE Contract!Cardinality(S) = Cardinality(S)
    BY Zenon DEF Cardinality, Contract!Cardinality
  <2>2. QED
    BY <1>12, <2>1 DEF Cursor, Contract!Cursor
<1>14. \A r, c, a : Contract!Counted(r, c, a) = Counted(r, c, a)
  BY <1>13, <1>7, <1>4 DEF Counted, Contract!Counted
<1>15. \A r, c, a, n : Contract!Advance(r, c, a, n) = Advance(r, c, a, n)
  <2> TAKE r, c, a, n
  <2> DEFINE counts == [i \in Step(r) |->
                          IF i \in Counted(r, c, a) THEN c.step_counts[i] + 1
                          ELSE c.step_counts[i]]
             samples == [i \in Step(r) |->
                          IF i \in Counted(r, c, a)
                               /\ Len(c.step_samples[i]) < 3
                          THEN Append(c.step_samples[i], n)
                          ELSE c.step_samples[i]]
  <2>1. Advance(r, c, a, n) = [c EXCEPT !.step_counts = counts,
                                        !.step_samples = samples,
                                        !.current_step = Cursor(r, c, a)]
    BY DEF Advance, SamplesPerStep
  <2>2. Contract!Advance(r, c, a, n)
          = [c EXCEPT !.step_counts = counts,
                      !.step_samples = samples,
                      !.current_step = Contract!Cursor(r, c, a)]
    BY <1>2, <1>14 DEF Contract!Advance, Contract!SamplesPerStep
  <2> HIDE DEF counts, samples
  <2>3. QED
    BY <1>13, <2>1, <2>2
<1>16. \A r, c : Contract!Satisfied(r, c) = Satisfied(r, c)
  BY <1>2, <1>4 DEF Satisfied, Contract!Satisfied
<1>17. \A r, c, a, n, t : Contract!Fed(r, c, a, n, t) = Fed(r, c, a, n, t)
  BY <1>15, <1>10 DEF Fed, Contract!Fed
<1>18. \A r, j, c, a, n, t :
       Contract!After(r, j, c, a, n, t) = After(r, j, c, a, n, t)
  BY <1>8, <1>16, <1>17 DEF After, Contract!After
<1>19. \A r, j, c, n, t :
       Contract!Report(r, j, c, n, t) = Report(r, j, c, n, t)
  BY DEF Report, Contract!Report
<1>20. \A r, j, c, a, n, t :
       Contract!Fires(r, j, c, a, n, t) = Fires(r, j, c, a, n, t)
  BY <1>8, <1>16, <1>17 DEF Fires, Contract!Fires
<1>21. \A chains, a, n, t :
       Contract!Triggered(chains, a, n, t) = Triggered(chains, a, n, t)
  BY <1>1, <1>19, <1>17, <1>20 DEF Triggered, Contract!Triggered
<1>22. \A chains, t : Contract!Prune(chains, t) = Prune(chains, t)
  BY <1>1, <1>9 DEF Prune, Contract!Prune
<1>23. QED
  BY <1>1, <1>18, <1>21, <1>22

\* What Prune does to one chain.
Live(r, c, t) == IF c = NoChain THEN NoChain
                 ELSE IF Expired(r, c, t) THEN NoChain ELSE c

LEMMA PruneIsLive ==
  ASSUME NEW chains, NEW t, NEW r \in Rule, NEW j \in JoinValue
  PROVE  Prune(chains, t)[r][j] = Live(r, chains[r][j], t)
  BY DEF Prune, Live

\* An alert cannot tell an expired chain from none.
LEMMA FedIgnoresExpired ==
  ASSUME NEW r \in Rule, NEW c, NEW d, NEW a, NEW n, NEW t,
         Live(r, c, t) = Live(r, d, t)
  PROVE  Fed(r, c, a, n, t) = Fed(r, d, a, n, t)
<1>1. Opened(r, c, n, t) = Opened(r, d, n, t)
  BY DEF Opened, Live
<1>2. QED
  BY <1>1 DEF Fed

LEMMA AfterIgnoresExpired ==
  ASSUME NEW r \in Rule, NEW j \in JoinValue,
         NEW c \in ChainState(r) \cup {NoChain}, NEW d, NEW a,
         NEW n \in Nat, NEW t \in Nat, d = Live(r, c, t)
  PROVE  Live(r, After(r, j, c, a, n, t), t) = After(r, j, d, a, n, t)
<1>1. CASE ~ Touches(r, j, a)
  BY <1>1 DEF After
<1>2. CASE Touches(r, j, a)
  <2>1. Live(r, d, t) = d
    BY DEF Live
  <2>2. Fed(r, c, a, n, t) = Fed(r, d, a, n, t)
    BY <2>1, FedIgnoresExpired
  <2>3. After(r, j, c, a, n, t) = After(r, j, d, a, n, t)
    BY <1>2, <2>2 DEF After
  <2>4. \/ After(r, j, c, a, n, t) = NoChain
        \/ ~ Expired(r, After(r, j, c, a, n, t), t)
    BY <1>2, FedFacts DEF After
  <2>5. QED
    BY <2>3, <2>4 DEF Live
<1>3. QED
  BY <1>1, <1>2

\* Evicting first makes no difference to what the chains stand for.
LEMMA BaseIsLive ==
  ASSUME NEW r \in Rule, NEW j \in JoinValue
  PROVE  Live(r, Base[r][j], now) = Prune(states, now)[r][j]
<1>1. Base[r][j] \in {states[r][j], Live(r, states[r][j], now)}
  BY PruneIsLive DEF Base
<1>2. Live(r, Live(r, states[r][j], now), now) = Live(r, states[r][j], now)
  BY DEF Live
<1>3. QED
  BY <1>1, <1>2, PruneIsLive

LEMMA TriggeredIgnoresExpired ==
  ASSUME NEW a, NEW n
  PROVE  Triggered(Base, a, n, now) = Triggered(Prune(states, now), a, n, now)
<1> DEFINE P == Prune(states, now)
<1>1. ASSUME NEW r \in Rule, NEW j \in JoinValue
      PROVE  Fed(r, Base[r][j], a, n, now) = Fed(r, P[r][j], a, n, now)
  <2>1. Live(r, Live(r, states[r][j], now), now) = Live(r, states[r][j], now)
    BY DEF Live
  <2>2. Live(r, P[r][j], now) = P[r][j]
    BY <2>1, PruneIsLive
  <2>3. Live(r, Base[r][j], now) = Live(r, P[r][j], now)
    BY <2>2, BaseIsLive
  <2>4. QED
    BY <2>3, FedIgnoresExpired
<1>2. ASSUME NEW r \in Rule, NEW j \in JoinValue
      PROVE  Fires(r, j, Base[r][j], a, n, now) <=> Fires(r, j, P[r][j], a, n, now)
  BY <1>1 DEF Fires
<1> HIDE DEF P
<1>3. {x \in Rule \X JoinValue : Fires(x[1], x[2], Base[x[1]][x[2]], a, n, now)}
        = {x \in Rule \X JoinValue : Fires(x[1], x[2], P[x[1]][x[2]], a, n, now)}
  BY <1>2
<1>4. \A x \in Rule \X JoinValue :
        Fed(x[1], Base[x[1]][x[2]], a, n, now) = Fed(x[1], P[x[1]][x[2]], a, n, now)
  BY <1>1
<1>5. Triggered(Base, a, n, now) = Triggered(P, a, n, now)
  BY <1>3, <1>4 DEF Triggered
<1>6. QED
  BY <1>5 DEF P

LEMMA FeedObserves ==
  ASSUME TypeOK, NEW a \in Alert, Feed(a)
  PROVE  Contract!Observe(a)
<1> DEFINE n == Len(fed) + 1
<1>1. n \in Nat /\ now \in Nat
  BY DEF TypeOK
<1>2. ASSUME NEW r \in Rule, NEW j \in JoinValue
      PROVE  Live(r, states'[r][j], now) = After(r, j, Prune(states, now)[r][j], a, n, now)
  <2>1. states'[r][j] = After(r, j, Base[r][j], a, n, now)
    BY DEF Feed
  <2>2. Base[r][j] \in ChainState(r) \cup {NoChain}
    BY BaseFacts
  <2>3. QED
    BY <1>1, <2>1, <2>2, BaseIsLive, AfterIgnoresExpired
<1>3. now' = now
  BY DEF Feed
<1>4. Prune(states, now)' = [r \in Rule |-> [j \in JoinValue |->
                                After(r, j, Prune(states, now)[r][j], a, n, now)]]
  <2>1. Prune(states, now)' = [r \in Rule |-> [j \in JoinValue |->
                                  Live(r, states'[r][j], now)]]
    BY <1>3 DEF Prune, Live
  <2>2. QED
    BY <1>2, <2>1
<1>5. triggered' = triggered \cup Triggered(Prune(states, now), a, n, now)
  BY TriggeredIgnoresExpired DEF Feed
<1>6. QED
  BY <1>3, <1>4, <1>5, SameVocabulary DEF Feed, Record, Contract!Observe

LEMMA UnclassifiedObserves ==
  ASSUME TypeOK, NEW a \in Alert, FeedUnclassified(a)
  PROVE  Contract!Observe(a)
<1> DEFINE n == Len(fed) + 1
           P == Prune(states, now)
<1>1. \A r \in Rule, j \in JoinValue : ~ Touches(r, j, a)
  BY DEF FeedUnclassified, Touches
<1>2. P = [r \in Rule |-> [j \in JoinValue |-> After(r, j, P[r][j], a, n, now)]]
  <2>1. \A r \in Rule, j \in JoinValue : After(r, j, P[r][j], a, n, now) = P[r][j]
    BY <1>1 DEF After
  <2>2. P = [r \in Rule |-> [j \in JoinValue |-> P[r][j]]]
    BY DEF Prune
  <2> HIDE DEF P
  <2>3. QED
    BY <2>1, <2>2
<1>3. Triggered(P, a, n, now) = {}
  <2> HIDE DEF P
  <2>1. \A x \in Rule \X JoinValue : ~ Fires(x[1], x[2], P[x[1]][x[2]], a, n, now)
    BY <1>1 DEF Fires
  <2>2. QED
    BY <2>1 DEF Triggered
<1>4. P' = P /\ UNCHANGED <<now, triggered>>
  BY DEF FeedUnclassified
<1>5. QED
  BY <1>2, <1>3, <1>4, SameVocabulary DEF FeedUnclassified, Record, Contract!Observe

LEMMA TickAdvances ==
  ASSUME TypeOK, MonotoneClock, NEW d \in ClockStep, Tick(d)
  PROVE  Contract!Advances(d)
<1>1. d \in Nat /\ now \in Nat /\ now' = now + d /\ UNCHANGED states
  BY DEF MonotoneClock, TypeOK, Tick
<1>2. ASSUME NEW r \in Rule, NEW j \in JoinValue
      PROVE  Live(r, states[r][j], now')
               = Live(r, Prune(states, now)[r][j], now')
  <2>1. states[r][j] \in ChainState(r) \cup {NoChain}
    BY DEF TypeOK
  <2>2. CASE states[r][j] = NoChain
    BY <2>2, PruneIsLive DEF Live
  <2>3. CASE states[r][j] # NoChain
    <3>1. states[r][j].chain_start \in Nat /\ Window(r) \in Nat
      BY <2>1, <2>3, RuleFacts DEF ChainState
    <3>2. Expired(r, states[r][j], now) => Expired(r, states[r][j], now')
      BY <1>1, <3>1 DEF Expired
    <3>3. QED
      BY <2>3, <3>2, PruneIsLive DEF Live
  <2>4. QED
    BY <2>2, <2>3
<1>3. Prune(states, now)' = Prune(Prune(states, now), now')
  <2> DEFINE P == Prune(states, now)
             t == now'
  <2>1. \A r \in Rule, j \in JoinValue : Live(r, states[r][j], t) = Live(r, P[r][j], t)
    BY <1>2
  <2>2. Prune(states, now)' = Prune(states, t)
    BY <1>1
  <2> HIDE DEF P, t
  <2>3. Prune(states, t) = Prune(P, t)
    BY <2>1 DEF Prune, Live
  <2>4. QED
    BY <2>2, <2>3 DEF P, t
<1>4. QED
  BY <1>3, SameVocabulary DEF Tick, Contract!Advances

\* The engine implements its contract: for the same alerts at the same times it
\* triggers the same correlations as an engine whose chains vanish on time.
THEOREM ImplementsContract ==
  ASSUME MonotoneClock
  PROVE  Spec => EvictionIsInvisible
<1>1. Init => Contract!Init
  BY SameVocabulary DEF Init, Contract!Init, Prune
<1>2. TypeOK /\ [Next]_vars => [Contract!Next]_(Contract!vars)
  <2> SUFFICES ASSUME TypeOK, [Next]_vars
               PROVE  Contract!Next \/ UNCHANGED Contract!vars
    OBVIOUS
  <2>1. ASSUME NEW a \in Alert, FeedUnclassified(a) PROVE Contract!Next
    BY <2>1, UnclassifiedObserves DEF Contract!Next
  <2>2. ASSUME NEW a \in Alert, Feed(a) PROVE Contract!Next
    BY <2>2, FeedObserves DEF Contract!Next
  <2>3. ASSUME NEW d \in ClockStep, Tick(d) PROVE Contract!Next
    BY <2>3, TickAdvances DEF Contract!Next
  <2>4. ASSUME Restart PROVE Contract!Next
    <3>1. Contract!Forget
      BY <2>4, SameVocabulary DEF Restart, Contract!Forget, Prune
    <3>2. QED
      BY <3>1 DEF Contract!Next
  <2>5. CASE UNCHANGED vars
    BY <2>5 DEF vars, Contract!vars
  <2>6. QED
    BY <2>1, <2>2, <2>3, <2>4, <2>5 DEF Next
<1>3. QED
  BY <1>1, <1>2, TypeCorrect, PTL DEF Spec, EvictionIsInvisible, Contract!Spec

(***************************************************************************)
(* How long an expired chain stays.                                        *)
(***************************************************************************)

\* The alerts of input f that came when chain c of rule r had outlived its window.
Stale(f, r, c) == {n \in DOMAIN f : /\ f[n].alert.rule_id # NoRuleId
                                    /\ f[n].at - c.chain_start > Window(r)}

\* A chain sees no more of them than were counted since the latest eviction.
StaleInv ==
    /\ \A n \in DOMAIN fed : fed[n].at <= now
    /\ \A r \in Rule, j \in JoinValue :
        states[r][j] # NoChain => Cardinality(Stale(fed, r, states[r][j])) <= feed_count

LEMMA FedTimes ==
  ASSUME NEW f \in Seq([alert : Alert, at : Nat])
  PROVE  \A n \in DOMAIN f : f[n].at \in Nat
<1>1. ASSUME NEW S, f \in Seq(S) PROVE \A n \in DOMAIN f : f[n] \in S
  BY <1>1
<1>2. \A n \in DOMAIN f : f[n] \in [alert : Alert, at : Nat]
  BY <1>1, Zenon
<1>3. QED
  BY <1>2

LEMMA StaleFinite ==
  ASSUME NEW f \in Seq([alert : Alert, at : Nat]), NEW r, NEW c
  PROVE  IsFiniteSet(Stale(f, r, c)) /\ Cardinality(Stale(f, r, c)) \in Nat
<1>1. DOMAIN f = 1..Len(f) /\ Len(f) \in Int /\ 1 \in Int
  OBVIOUS
<1>2. IsFiniteSet(DOMAIN f)
  BY <1>1, FS_Interval
<1>3. Stale(f, r, c) \in SUBSET DOMAIN f
  BY DEF Stale
<1>4. QED
  BY <1>2, <1>3, FS_Subset, FS_CardinalityType

\* A chain that is live now has seen none.
LEMMA LiveHasNoStale ==
  ASSUME NEW f \in Seq([alert : Alert, at : Nat]), NEW t \in Nat, \A n \in DOMAIN f : f[n].at <= t,
         NEW r \in Rule, NEW c \in ChainState(r), ~ Expired(r, c, t)
  PROVE  Cardinality(Stale(f, r, c)) = 0
<1>1. Window(r) \in Nat /\ c.chain_start \in Nat
  BY RuleFacts DEF ChainState
<1>2. \A n \in DOMAIN f : f[n].at \in Nat
  BY FedTimes
<1>3. Stale(f, r, c) = {}
  BY <1>1, <1>2 DEF Stale, Expired
<1>4. QED
  BY <1>3, FS_EmptySet

LEMMA StaleFeed ==
  ASSUME TypeOK, StaleInv, NEW a \in Alert, Feed(a)
  PROVE  StaleInv'
<1> DEFINE n == Len(fed) + 1
           e == [alert |-> a, at |-> now]
<1>1. /\ fed \in Seq([alert : Alert, at : Nat]) /\ now \in Nat /\ n \in Nat
      /\ feed_count \in 0..(EvictPeriod - 1) /\ EvictPeriod \in Nat \ {0}
  BY EngineAssumption DEF TypeOK
<1>2. /\ fed' = Append(fed, e) /\ now' = now
      /\ feed_count' = (feed_count + 1) % EvictPeriod
  BY DEF Feed, Record
<1>3. e \in [alert : Alert, at : Nat] /\ e.at = now
  BY <1>1
<1> HIDE DEF e
<1>4. /\ fed' \in Seq([alert : Alert, at : Nat])
      /\ DOMAIN fed' = DOMAIN fed \cup {n} /\ fed'[n] = e
      /\ \A i \in DOMAIN fed : fed'[i] = fed[i]
  BY <1>1, <1>2, <1>3
<1>5. \A i \in DOMAIN fed' : fed'[i].at <= now
  BY <1>1, <1>3, <1>4 DEF StaleInv
<1>6. IF feed_count + 1 = EvictPeriod
      THEN (feed_count + 1) % EvictPeriod = 0 /\ feed_count' = 0
      ELSE (feed_count + 1) % EvictPeriod # 0 /\ feed_count' = feed_count + 1
  <2>1. CASE feed_count + 1 = EvictPeriod
    <3>1. EvictPeriod % EvictPeriod = 0
      BY <1>1
    <3>2. QED
      BY <1>2, <2>1, <3>1
  <2>2. CASE feed_count + 1 # EvictPeriod
    <3>1. feed_count + 1 \in 1..(EvictPeriod - 1)
      BY <1>1, <2>2
    <3>2. (feed_count + 1) % EvictPeriod = feed_count + 1
      BY <1>1, <3>1
    <3>3. QED
      BY <1>1, <1>2, <2>2, <3>1, <3>2
  <2>3. QED
    BY <2>1, <2>2
<1>7. feed_count' \in Nat
  BY <1>1, <1>6
<1>8. ASSUME NEW r \in Rule, NEW j \in JoinValue, states'[r][j] # NoChain
      PROVE  Cardinality(Stale(fed', r, states'[r][j])) <= feed_count'
  <2> DEFINE c == states'[r][j]
  <2>1. c = After(r, j, Base[r][j], a, n, now)
    BY DEF Feed
  <2>2. /\ Base[r][j] \in ChainState(r) \cup {NoChain}
        /\ Base[r][j] # NoChain => Base[r][j] = states[r][j]
    BY BaseFacts
  <2>3. ASSUME c \in ChainState(r), ~ Expired(r, c, now)
        PROVE  Cardinality(Stale(fed', r, c)) <= feed_count'
    <3>1. Cardinality(Stale(fed', r, c)) = 0
      BY <1>1, <1>4, <1>5, <2>3, LiveHasNoStale
    <3>2. QED
      BY <1>7, <3>1
  <2> HIDE DEF n
  <2>4. CASE Touches(r, j, a)
    <3>1. c = Fed(r, Base[r][j], a, n, now)
      BY <1>8, <2>1, <2>4 DEF After
    <3>2. c \in ChainState(r) /\ ~ Expired(r, c, now)
      <4>1. /\ Fed(r, Base[r][j], a, n, now) \in ChainState(r)
            /\ ~ Expired(r, Fed(r, Base[r][j], a, n, now), now)
        BY <1>1, <2>2, FedFacts
      <4>2. QED
        BY <3>1, <4>1
    <3>3. QED
      BY <2>3, <3>2
  <2>5. CASE ~ Touches(r, j, a)
    <3>1. c = Base[r][j] /\ c = states[r][j] /\ c \in ChainState(r)
      BY <1>8, <2>1, <2>2, <2>5 DEF After
    <3>2. CASE feed_count + 1 = EvictPeriod
      <4>1. Base = Prune(states, now)
        BY <1>6, <3>2 DEF Base
      <4>2. ~ Expired(r, c, now)
        BY <1>8, <3>1, <4>1, PruneFacts
      <4>3. QED
        BY <2>3, <3>1, <4>2
    <3>3. CASE feed_count + 1 # EvictPeriod
      <4> HIDE DEF c
      <4>1. Cardinality(Stale(fed, r, c)) <= feed_count
        BY <1>8, <3>1 DEF StaleInv, c
      <4>2. Stale(fed', r, c) \in SUBSET (Stale(fed, r, c) \cup {n})
        BY <1>4 DEF Stale
      <4>3. /\ IsFiniteSet(Stale(fed, r, c)) /\ Cardinality(Stale(fed, r, c)) \in Nat
            /\ Cardinality(Stale(fed', r, c)) \in Nat
        BY <1>1, <1>4, StaleFinite
      <4>4. /\ IsFiniteSet(Stale(fed, r, c) \cup {n})
            /\ Cardinality(Stale(fed, r, c) \cup {n}) <= Cardinality(Stale(fed, r, c)) + 1
            /\ Cardinality(Stale(fed, r, c) \cup {n}) \in Nat
        <5> DEFINE S == Stale(fed, r, c)
        <5>1. /\ IsFiniteSet(S \cup {n})
              /\ Cardinality(S \cup {n}) = IF n \in S THEN Cardinality(S) ELSE Cardinality(S) + 1
          BY <4>3, FS_AddElement
        <5>2. Cardinality(S) \in Nat
          BY <4>3
        <5> HIDE DEF S
        <5>3. QED
          BY <5>1, <5>2 DEF S
      <4>5. Cardinality(Stale(fed', r, c)) <= Cardinality(Stale(fed, r, c) \cup {n})
        BY <4>2, <4>4, FS_Subset
      <4>6. Cardinality(Stale(fed', r, c)) <= feed_count'
        BY <1>1, <1>6, <3>3, <4>1, <4>3, <4>4, <4>5
      <4>7. QED
        BY <4>6 DEF c
    <3>4. QED
      BY <3>2, <3>3
  <2>6. QED
    BY <2>4, <2>5
<1>9. QED
  BY <1>2, <1>5, <1>8 DEF StaleInv

LEMMA StaleUnclassified ==
  ASSUME TypeOK, StaleInv, NEW a \in Alert, FeedUnclassified(a)
  PROVE  StaleInv'
<1> DEFINE n == Len(fed) + 1
           e == [alert |-> a, at |-> now]
<1>1. /\ fed \in Seq([alert : Alert, at : Nat]) /\ now \in Nat
  BY DEF TypeOK
<1>2. /\ fed' = Append(fed, e) /\ UNCHANGED <<now, states, feed_count>>
      /\ a.rule_id = NoRuleId
  BY DEF FeedUnclassified, Record
<1>3. e \in [alert : Alert, at : Nat] /\ e.at = now /\ e.alert.rule_id = NoRuleId
  BY <1>1, <1>2
<1> HIDE DEF e
<1>4. /\ DOMAIN fed' = DOMAIN fed \cup {n} /\ fed'[n] = e
      /\ \A i \in DOMAIN fed : fed'[i] = fed[i]
  BY <1>1, <1>2, <1>3
<1>5. \A i \in DOMAIN fed' : fed'[i].at <= now
  BY <1>1, <1>3, <1>4 DEF StaleInv
<1>6. \A r, c : Stale(fed', r, c) = Stale(fed, r, c)
  BY <1>3, <1>4 DEF Stale
<1>7. QED
  BY <1>2, <1>5, <1>6 DEF StaleInv

\* The eviction every EvictPeriod alerts bounds how long an expired chain stays: with a
\* clock that only moves forward, of the alerts fed since a chain that is in the map
\* was opened, fewer than EvictPeriod came after the end of its window.
\* (correlation.rs feed_at, evict_expired.)
THEOREM StaleChainsGo ==
  ASSUME MonotoneClock
  PROVE  Spec => []StaleChainsAreEvicted
<1>1. Init => StaleInv
  BY DEF Init, StaleInv
<1>2. TypeOK /\ StaleInv /\ [Next]_vars => StaleInv'
  <2> SUFFICES ASSUME TypeOK, StaleInv, [Next]_vars PROVE StaleInv'
    OBVIOUS
  <2>1. ASSUME NEW d \in ClockStep, Tick(d) PROVE StaleInv'
    <3>1. d \in Nat /\ now \in Nat /\ now' = now + d /\ UNCHANGED <<states, feed_count, fed>>
      BY <2>1 DEF MonotoneClock, TypeOK, Tick
    <3>2. \A n \in DOMAIN fed : fed[n].at \in Nat
      BY FedTimes DEF TypeOK
    <3>3. QED
      BY <3>1, <3>2 DEF StaleInv
  <2>2. CASE Restart
    BY <2>2 DEF Restart, StaleInv
  <2>3. CASE UNCHANGED vars
    BY <2>3 DEF vars, StaleInv
  <2>4. QED
    BY <2>1, <2>2, <2>3, StaleFeed, StaleUnclassified DEF Next
<1>3. TypeOK /\ StaleInv => StaleChainsAreEvicted
  <2> SUFFICES ASSUME TypeOK, StaleInv, NEW r \in Rule, NEW j \in JoinValue, states[r][j] # NoChain
               PROVE  Cardinality(Stale(fed, r, states[r][j])) < EvictPeriod
    BY DEF StaleChainsAreEvicted, Chains, Stale
  <2>1. /\ Cardinality(Stale(fed, r, states[r][j])) <= feed_count
        /\ Cardinality(Stale(fed, r, states[r][j])) \in Nat
    BY StaleFinite DEF StaleInv, TypeOK
  <2>2. QED
    BY <2>1, EngineAssumption DEF TypeOK
<1>4. QED
  BY <1>1, <1>2, <1>3, TypeCorrect, PTL DEF Spec

(***************************************************************************)
(* The loops of CorrelationHistory.                                        *)
(***************************************************************************)

\* A non-empty set of natural numbers has a least element.
LEMMA LeastNatural ==
  ASSUME NEW T \in SUBSET Nat, T # {}
  PROVE  \E m \in T : \A k \in T : m <= k
<1> DEFINE R == OpToRel(<, Nat)
<1>1. IsWellFoundedOn(R, Nat)
  BY NatLessThanWellFounded
<1>2. \A x \in Nat, y \in Nat : <<y, x>> \in R <=> y < x
  BY DEF OpToRel
<1> HIDE DEF R
<1>3. PICK m \in T : \A y \in T : ~ (<<y, m>> \in R)
  BY <1>1, WFMin
<1>4. ASSUME NEW k \in T PROVE m <= k
  <2>1. ~ (<<k, m>> \in R) /\ k \in Nat /\ m \in Nat
    BY <1>3
  <2>2. ~ (k < m)
    BY <1>2, <2>1
  <2>3. QED
    BY <2>1, <2>2
<1>5. QED
  BY <1>4

\* Each pass of the loops f and g that finds the same value leaves the same value.
SamePasses(f, g, lo, hi) ==
    \A n \in Nat : lo < n /\ n <= hi /\ f[n - 1] = g[n - 1] => f[n] = g[n]

\* Two loops that start alike and whose passes agree end alike.
LEMMA LoopsAgree ==
  ASSUME NEW lo \in Nat, NEW hi \in Nat, lo <= hi, NEW f, NEW g,
         f[lo] = g[lo], SamePasses(f, g, lo, hi)
  PROVE  f[hi] = g[hi]
<1> DEFINE T == {n \in Nat : lo <= n /\ n <= hi /\ f[n] # g[n]}
<1> SUFFICES ASSUME T # {} PROVE FALSE
  OBVIOUS
<1>1. PICK m \in T : \A k \in T : m <= k
  BY LeastNatural
<1>2. m \in Nat /\ lo <= m /\ m <= hi /\ f[m] # g[m]
  OBVIOUS
<1>3. m # lo
  BY <1>2
<1>4. m - 1 \in Nat /\ lo <= m - 1 /\ m - 1 <= hi /\ ~ (m <= m - 1)
  BY <1>2, <1>3
<1>5. f[m - 1] = g[m - 1]
  BY <1>1, <1>4
<1>6. QED
  BY <1>2, <1>3, <1>5 DEF SamePasses

\* The cursor of an ordered rule comes to rest at the first step, from where it
\* stood on, that the alert does not complete.
LEMMA CursorStops ==
  ASSUME NEW r \in Rule, NEW c \in ChainState(r), NEW a, Rules[r].ordered
  PROVE  /\ Cursor(r, c, a) \in Nat
         /\ c.current_step <= Cursor(r, c, a)
         /\ Cursor(r, c, a) <= Len(Rules[r].steps) + 1
         /\ \A i \in Nat : c.current_step <= i /\ i < Cursor(r, c, a)
                             => Completes(r, c, a, i)
         /\ Cursor(r, c, a) <= Len(Rules[r].steps)
              => ~ Completes(r, c, a, Cursor(r, c, a))
<1> PICK last \in Nat : last = Len(Rules[r].steps)
  BY RuleFacts
<1> PICK cs \in Nat : cs = c.current_step /\ 1 <= cs /\ cs <= last + 1
  BY DEF ChainState
<1> DEFINE T == {i \in Nat : /\ cs <= i
                             /\ \/ i = last + 1
                                \/ i <= last /\ ~ Completes(r, c, a, i)}
<1>1. last + 1 \in T
  OBVIOUS
<1>2. PICK e \in T : \A k \in T : e <= k
  BY <1>1, LeastNatural
<1>3. e \in Nat /\ cs <= e /\ e <= last + 1 /\ (e <= last => ~ Completes(r, c, a, e))
  OBVIOUS
<1>4. \A i \in Nat : cs <= i /\ i < e => Completes(r, c, a, i)
  <2>1. SUFFICES ASSUME NEW i \in Nat, cs <= i, i < e, ~ Completes(r, c, a, i) PROVE FALSE
    OBVIOUS
  <2>2. i \in T
    BY <1>3, <2>1
  <2>3. e <= i
    BY <1>2, <2>2
  <2>4. QED
    BY <1>3, <2>1, <2>3
<1> HIDE DEF T
<1>5. Run(r, c, a) = cs..(e - 1)
  <2>1. ASSUME NEW i \in cs..(e - 1) PROVE i \in Run(r, c, a)
    <3>1. i \in cs..last
      BY <1>3
    <3>2. \A k \in cs..i : Completes(r, c, a, k)
      BY <1>3, <1>4
    <3>3. QED
      BY <3>1, <3>2 DEF Run
  <2>2. ASSUME NEW i \in Run(r, c, a), i \notin cs..(e - 1) PROVE FALSE
    <3>1. i \in cs..last /\ \A k \in cs..i : Completes(r, c, a, k)
      BY DEF Run
    <3>2. e \in cs..i /\ e <= last
      BY <1>3, <2>2, <3>1
    <3>3. QED
      BY <1>3, <3>1, <3>2
  <2>3. QED
    BY <2>1, <2>2
<1>6. Cardinality(Run(r, c, a)) = e - cs
  <2>1. cs \in Int /\ e - 1 \in Int
    BY <1>3
  <2>2. Cardinality(cs..(e - 1)) = IF cs > e - 1 THEN 0 ELSE (e - 1) - cs + 1
    BY <2>1, FS_Interval
  <2>3. QED
    BY <1>3, <1>5, <2>2
<1>7. Cursor(r, c, a) = e
  BY <1>3, <1>6 DEF Cursor
<1>8. QED
  BY <1>3, <1>4, <1>7

\* The pass over step i counts the alert for it.
Counts(r, c, i) == IF Rules[r].ordered THEN i = c.current_step
                   ELSE c.step_counts[i] < MinCount(r, i)

\* The pass moves the cursor.
Moves(r, c, i) == /\ Counts(r, c, i)
                  /\ Rules[r].ordered
                  /\ c.step_counts[i] + 1 >= MinCount(r, i)

\* What one pass of the inner loop does to each part of a chain.
LEMMA CountStepFacts ==
  ASSUME NEW r \in Rule, NEW c \in ChainState(r), NEW i \in Step(r), NEW n \in Nat
  PROVE  /\ CountStep(r, c, i, n) \in ChainState(r)
         /\ CountStep(r, c, i, n).chain_start = c.chain_start
         /\ CountStep(r, c, i, n).opened = c.opened
         /\ CountStep(r, c, i, n).current_step =
              IF Moves(r, c, i) THEN c.current_step + 1 ELSE c.current_step
         /\ \A k \in Step(r) :
              /\ CountStep(r, c, i, n).step_counts[k] =
                   IF k = i /\ Counts(r, c, i) THEN c.step_counts[k] + 1
                   ELSE c.step_counts[k]
              /\ CountStep(r, c, i, n).step_samples[k] =
                   IF /\ k = i
                      /\ Counts(r, c, i)
                      /\ Len(c.step_samples[k]) < SamplesPerStep
                   THEN Append(c.step_samples[k], n)
                   ELSE c.step_samples[k]
<1> DEFINE counts  == [c.step_counts EXCEPT ![i] = @ + 1]
           samples == [c.step_samples EXCEPT ![i] =
                         IF Len(@) < SamplesPerStep THEN Append(@, n) ELSE @]
           d == [c EXCEPT !.step_counts[i]  = @ + 1,
                          !.step_samples[i] = IF Len(@) < SamplesPerStep
                                              THEN Append(@, n) ELSE @]
           m == [d EXCEPT !.current_step = @ + 1]
<1>1. /\ c.step_counts \in [Step(r) -> Nat]
      /\ c.step_samples \in [Step(r) -> Seq(Nat)]
      /\ c.chain_start \in Nat /\ c.opened \in Nat
      /\ c.current_step \in 1..(Len(Rules[r].steps) + 1)
  BY DEF ChainState
<1>2. /\ counts \in [Step(r) -> Nat]
      /\ samples \in [Step(r) -> Seq(Nat)]
      /\ \A k \in Step(r) :
           /\ counts[k] = IF k = i THEN c.step_counts[k] + 1 ELSE c.step_counts[k]
           /\ samples[k] = IF k = i /\ Len(c.step_samples[k]) < SamplesPerStep
                           THEN Append(c.step_samples[k], n) ELSE c.step_samples[k]
  BY <1>1
<1>3. /\ d \in ChainState(r)
      /\ d.step_counts = counts /\ d.step_samples = samples
      /\ d.chain_start = c.chain_start /\ d.opened = c.opened
      /\ d.current_step = c.current_step
  <2>1. d = [c EXCEPT !.step_counts = counts, !.step_samples = samples]
    BY DEF ChainState
  <2> HIDE DEF counts, samples, d
  <2>2. QED
    BY <1>2, <2>1 DEF ChainState
<1>4. Counts(r, c, i) /\ Rules[r].ordered =>
        /\ m \in ChainState(r)
        /\ m.step_counts = counts /\ m.step_samples = samples
        /\ m.chain_start = c.chain_start /\ m.opened = c.opened
        /\ m.current_step = c.current_step + 1
  <2> SUFFICES ASSUME Counts(r, c, i), Rules[r].ordered
               PROVE  /\ m \in ChainState(r)
                      /\ m.step_counts = counts /\ m.step_samples = samples
                      /\ m.chain_start = c.chain_start /\ m.opened = c.opened
                      /\ m.current_step = c.current_step + 1
    OBVIOUS
  <2>1. i = c.current_step
    BY DEF Counts
  <2>2. c.current_step + 1 \in 1..(Len(Rules[r].steps) + 1)
    BY <2>1, RuleFacts DEF Step
  <2> HIDE DEF counts, samples, d
  <2>3. QED
    BY <1>3, <2>2 DEF ChainState
<1>5. CountStep(r, c, i, n) = IF ~ Counts(r, c, i) THEN c
                              ELSE IF Rules[r].ordered /\ counts[i] >= MinCount(r, i)
                              THEN m ELSE d
  <2>1. CountStep(r, c, i, n) = IF ~ Counts(r, c, i) THEN c
                                ELSE IF Rules[r].ordered /\ d.step_counts[i] >= MinCount(r, i)
                                THEN m ELSE d
    BY DEF CountStep, Counts
  <2> HIDE DEF counts, samples, d, m
  <2>2. QED
    BY <1>3, <2>1
<1> HIDE DEF counts, samples, d, m
<1>6. counts[i] = c.step_counts[i] + 1
  BY <1>2
<1>7. CountStep(r, c, i, n) = IF ~ Counts(r, c, i) THEN c
                              ELSE IF Moves(r, c, i) THEN m ELSE d
  BY <1>5, <1>6 DEF Moves
<1>8. Moves(r, c, i) => Counts(r, c, i) /\ Rules[r].ordered
  BY DEF Moves
<1>9. CASE ~ Counts(r, c, i)
  BY <1>7, <1>8, <1>9
<1>10. CASE Counts(r, c, i) /\ Moves(r, c, i)
  BY <1>2, <1>4, <1>7, <1>8, <1>10
<1>11. CASE Counts(r, c, i) /\ ~ Moves(r, c, i)
  BY <1>2, <1>3, <1>7, <1>11
<1>12. QED
  BY <1>9, <1>10, <1>11

\* Chains that agree in every part are equal.
LEMMA ChainsEqual ==
  ASSUME NEW r \in Rule, NEW c \in ChainState(r), NEW d \in ChainState(r),
         c.chain_start = d.chain_start, c.opened = d.opened,
         c.current_step = d.current_step,
         \A k \in Step(r) : /\ c.step_counts[k] = d.step_counts[k]
                            /\ c.step_samples[k] = d.step_samples[k]
  PROVE  c = d
<1>1. c.step_counts = d.step_counts
  BY DEF ChainState
<1>2. c.step_samples = d.step_samples
  BY DEF ChainState
<1>3. ASSUME NEW e \in ChainState(r)
      PROVE  e = [step_counts  |-> e.step_counts,
                  step_samples |-> e.step_samples,
                  chain_start  |-> e.chain_start,
                  current_step |-> e.current_step,
                  opened       |-> e.opened]
  BY DEF ChainState
<1>4. QED
  BY <1>1, <1>2, <1>3, Zenon

(***************************************************************************)
(* The engine's closed forms are what the loop computes.                   *)
(***************************************************************************)

\* Where the cursor stands after the passes over steps 1..i.
CursorAfter(r, c, a, i) ==
    IF ~ Rules[r].ordered \/ i < c.current_step THEN c.current_step
    ELSE IF i < Cursor(r, c, a) THEN i + 1
    ELSE Cursor(r, c, a)

\* The chain after the passes over steps 1..i.
AfterPass(r, c, a, n, i) ==
    [step_counts  |-> [k \in Step(r) |->
         IF k <= i /\ k \in Counted(r, c, a) THEN c.step_counts[k] + 1
         ELSE c.step_counts[k]],
     step_samples |-> [k \in Step(r) |->
         IF k <= i /\ k \in Counted(r, c, a) /\ Len(c.step_samples[k]) < SamplesPerStep
         THEN Append(c.step_samples[k], n) ELSE c.step_samples[k]],
     chain_start  |-> c.chain_start,
     current_step |-> CursorAfter(r, c, a, i),
     opened       |-> c.opened]

\* Chain d is c after the passes over steps 1..i, part by part.
PassedTo(r, c, a, n, i, d) ==
    /\ d \in ChainState(r)
    /\ d.chain_start = c.chain_start /\ d.opened = c.opened
    /\ d.current_step = CursorAfter(r, c, a, i)
    /\ \A k \in Step(r) :
         /\ d.step_counts[k] =
              IF k <= i /\ k \in Counted(r, c, a) THEN c.step_counts[k] + 1
              ELSE c.step_counts[k]
         /\ d.step_samples[k] =
              IF k <= i /\ k \in Counted(r, c, a)
                   /\ Len(c.step_samples[k]) < SamplesPerStep
              THEN Append(c.step_samples[k], n) ELSE c.step_samples[k]

LEMMA AfterPassFacts ==
  ASSUME NEW r \in Rule, NEW c \in ChainState(r), NEW a, NEW n \in Nat,
         NEW i \in Nat, i <= Len(Rules[r].steps)
  PROVE  PassedTo(r, c, a, n, i, AfterPass(r, c, a, n, i))
<1> DEFINE counts  == [k \in Step(r) |->
                         IF k <= i /\ k \in Counted(r, c, a) THEN c.step_counts[k] + 1
                         ELSE c.step_counts[k]]
           samples == [k \in Step(r) |->
                         IF k <= i /\ k \in Counted(r, c, a)
                              /\ Len(c.step_samples[k]) < SamplesPerStep
                         THEN Append(c.step_samples[k], n) ELSE c.step_samples[k]]
           cursor  == CursorAfter(r, c, a, i)
<1>1. /\ c.step_counts \in [Step(r) -> Nat]
      /\ c.step_samples \in [Step(r) -> Seq(Nat)]
      /\ c.chain_start \in Nat /\ c.opened \in Nat
      /\ c.current_step \in 1..(Len(Rules[r].steps) + 1)
  BY DEF ChainState
<1>2. counts \in [Step(r) -> Nat] /\ samples \in [Step(r) -> Seq(Nat)]
  BY <1>1
<1>3. cursor \in 1..(Len(Rules[r].steps) + 1)
  <2>1. Cursor(r, c, a) \in 1..(Len(Rules[r].steps) + 1)
    BY CursorType
  <2>2. Len(Rules[r].steps) \in Nat
    BY RuleFacts
  <2>3. QED
    BY <1>1, <2>1, <2>2 DEF CursorAfter
<1>4. AfterPass(r, c, a, n, i) = [step_counts  |-> counts,
                                  step_samples |-> samples,
                                  chain_start  |-> c.chain_start,
                                  current_step |-> cursor,
                                  opened       |-> c.opened]
  BY DEF AfterPass
<1>5. \A k \in Step(r) :
        /\ counts[k] = IF k <= i /\ k \in Counted(r, c, a) THEN c.step_counts[k] + 1
                       ELSE c.step_counts[k]
        /\ samples[k] = IF k <= i /\ k \in Counted(r, c, a)
                             /\ Len(c.step_samples[k]) < SamplesPerStep
                        THEN Append(c.step_samples[k], n) ELSE c.step_samples[k]
  OBVIOUS
<1> HIDE DEF counts, samples, cursor
<1>6. /\ AfterPass(r, c, a, n, i) \in ChainState(r)
      /\ AfterPass(r, c, a, n, i).step_counts = counts
      /\ AfterPass(r, c, a, n, i).step_samples = samples
      /\ AfterPass(r, c, a, n, i).chain_start = c.chain_start
      /\ AfterPass(r, c, a, n, i).opened = c.opened
      /\ AfterPass(r, c, a, n, i).current_step = cursor
  BY <1>1, <1>2, <1>3, <1>4 DEF ChainState
<1>7. QED
  BY <1>5, <1>6 DEF cursor, PassedTo

\* Whether the pass over step i counts the alert and moves the cursor, when the
\* passes before it have left the chain of AfterPass.
LEMMA PassDecides ==
  ASSUME NEW r \in Rule, NEW c \in ChainState(r), NEW a, NEW n \in Nat,
         NEW i \in Step(r), NEW d \in ChainState(r),
         d.current_step = CursorAfter(r, c, a, i - 1),
         d.step_counts[i] = c.step_counts[i]
  PROVE  /\ i \in MatchingSteps(r, a) =>
              /\ Counts(r, d, i) <=> i \in Counted(r, c, a)
              /\ CursorAfter(r, c, a, i) =
                   IF Moves(r, d, i) THEN d.current_step + 1 ELSE d.current_step
         /\ i \notin MatchingSteps(r, a) =>
              /\ i \notin Counted(r, c, a)
              /\ CursorAfter(r, c, a, i) = d.current_step
<1> PICK last \in Nat : last = Len(Rules[r].steps)
  BY RuleFacts
<1> PICK cs \in Nat : cs = c.current_step /\ 1 <= cs /\ cs <= last + 1
  BY DEF ChainState
<1> PICK p \in Nat : p = i
  BY DEF Step
<1>1. 1 <= p /\ p <= last
  BY DEF Step
<1>2. Rules[r].ordered \in BOOLEAN
  BY RuleFacts
<1>3. CASE ~ Rules[r].ordered
  <2>1. d.current_step = cs /\ CursorAfter(r, c, a, i) = cs
    BY <1>3 DEF CursorAfter
  <2>2. ~ Moves(r, d, i)
    BY <1>3 DEF Moves
  <2>3. i \in Counted(r, c, a) <=> i \in MatchingSteps(r, a) /\ c.step_counts[i] < MinCount(r, i)
    BY <1>3 DEF Counted
  <2>4. Counts(r, d, i) <=> c.step_counts[i] < MinCount(r, i)
    BY <1>3 DEF Counts
  <2>5. QED
    BY <2>1, <2>2, <2>3, <2>4
<1>4. CASE Rules[r].ordered
  <2> PICK e \in Nat : e = Cursor(r, c, a)
    BY <1>4, CursorStops
  <2>1. /\ cs <= e /\ e <= last + 1
        /\ cs <= p /\ p < e => Completes(r, c, a, i)
        /\ p = e => ~ Completes(r, c, a, i)
    BY <1>1, <1>4, CursorStops
  <2>2. d.current_step = IF p - 1 < cs THEN cs ELSE IF p - 1 < e THEN p ELSE e
    BY <1>4 DEF CursorAfter
  <2>3. CursorAfter(r, c, a, i) = IF p < cs THEN cs ELSE IF p < e THEN p + 1 ELSE e
    BY <1>4 DEF CursorAfter
  <2>4. Completes(r, c, a, i) <=> /\ i \in MatchingSteps(r, a)
                                  /\ c.step_counts[i] + 1 >= MinCount(r, i)
    BY DEF Completes
  <2>5. i \in Counted(r, c, a) <=> i \in MatchingSteps(r, a) /\ cs <= p /\ p <= e
    BY <1>4 DEF Counted
  <2>6. Counts(r, d, i) <=> p = d.current_step
    BY <1>4 DEF Counts
  <2>7. Moves(r, d, i) <=> /\ p = d.current_step
                           /\ c.step_counts[i] + 1 >= MinCount(r, i)
    BY <1>4, <2>6 DEF Moves
  <2>8. p = d.current_step <=> cs <= p /\ p <= e
    BY <1>1, <2>1, <2>2
  <2>9. ASSUME i \in MatchingSteps(r, a)
        PROVE  CursorAfter(r, c, a, i) =
                 IF Moves(r, d, i) THEN d.current_step + 1 ELSE d.current_step
    <3>1. CASE cs <= p /\ p < e
      <4>1. Moves(r, d, i) /\ d.current_step = p
        BY <2>1, <2>4, <2>7, <2>8, <3>1
      <4>2. QED
        BY <2>3, <3>1, <4>1
    <3>2. CASE cs <= p /\ p = e
      <4>1. ~ Moves(r, d, i) /\ d.current_step = p
        BY <2>1, <2>4, <2>7, <2>8, <2>9, <3>2
      <4>2. QED
        BY <2>3, <3>2, <4>1
    <3>3. CASE p < cs \/ e < p
      <4>1. ~ Moves(r, d, i)
        BY <2>7, <2>8, <3>3
      <4>2. QED
        BY <2>1, <2>2, <2>3, <3>3, <4>1
    <3>4. QED
      BY <3>1, <3>2, <3>3
  <2>10. ASSUME i \notin MatchingSteps(r, a)
         PROVE  CursorAfter(r, c, a, i) = d.current_step
    <3>1. ~ (cs <= p /\ p < e)
      BY <2>1, <2>4, <2>10
    <3>2. QED
      BY <2>1, <2>2, <2>3, <3>1
  <2>11. QED
    BY <2>5, <2>6, <2>8, <2>9, <2>10
<1>5. QED
  BY <1>2, <1>3, <1>4

\* The pass over step i takes the chain of AfterPass one step further.
LEMMA PassStep ==
  ASSUME NEW r \in Rule, NEW c \in ChainState(r), NEW a, NEW n \in Nat,
         NEW i \in Step(r)
  PROVE  AfterPass(r, c, a, n, i) =
           IF i \in MatchingSteps(r, a)
           THEN CountStep(r, AfterPass(r, c, a, n, i - 1), i, n)
           ELSE AfterPass(r, c, a, n, i - 1)
<1>1. /\ i \in Nat /\ i - 1 \in Nat
      /\ i <= Len(Rules[r].steps) /\ i - 1 <= Len(Rules[r].steps)
  BY RuleFacts DEF Step
<1> DEFINE d == AfterPass(r, c, a, n, i - 1)
           e == AfterPass(r, c, a, n, i)
<1>2. /\ d \in ChainState(r)
      /\ d.chain_start = c.chain_start /\ d.opened = c.opened
      /\ d.current_step = CursorAfter(r, c, a, i - 1)
      /\ \A k \in Step(r) :
           /\ d.step_counts[k] =
                IF k <= i - 1 /\ k \in Counted(r, c, a) THEN c.step_counts[k] + 1
                ELSE c.step_counts[k]
           /\ d.step_samples[k] =
                IF k <= i - 1 /\ k \in Counted(r, c, a)
                     /\ Len(c.step_samples[k]) < SamplesPerStep
                THEN Append(c.step_samples[k], n) ELSE c.step_samples[k]
  <2>1. PassedTo(r, c, a, n, i - 1, d)
    BY <1>1, AfterPassFacts
  <2> HIDE DEF d
  <2>2. QED
    BY <2>1 DEF PassedTo
<1>3. /\ e \in ChainState(r)
      /\ e.chain_start = c.chain_start /\ e.opened = c.opened
      /\ e.current_step = CursorAfter(r, c, a, i)
      /\ \A k \in Step(r) :
           /\ e.step_counts[k] =
                IF k <= i /\ k \in Counted(r, c, a) THEN c.step_counts[k] + 1
                ELSE c.step_counts[k]
           /\ e.step_samples[k] =
                IF k <= i /\ k \in Counted(r, c, a)
                     /\ Len(c.step_samples[k]) < SamplesPerStep
                THEN Append(c.step_samples[k], n) ELSE c.step_samples[k]
  <2>1. PassedTo(r, c, a, n, i, e)
    BY <1>1, AfterPassFacts
  <2> HIDE DEF e
  <2>2. QED
    BY <2>1 DEF PassedTo
<1> HIDE DEF d, e
<1>4. /\ d.step_counts[i] = c.step_counts[i]
      /\ d.step_samples[i] = c.step_samples[i]
  BY <1>1, <1>2
<1>5. \A k \in Step(r) : k # i => /\ e.step_counts[k] = d.step_counts[k]
                                 /\ e.step_samples[k] = d.step_samples[k]
  <2>1. ASSUME NEW k \in Step(r), k # i PROVE k <= i <=> k <= i - 1
    BY <1>1, <2>1 DEF Step
  <2>2. QED
    BY <1>2, <1>3, <2>1
<1>6. /\ e.step_counts[i] = IF i \in Counted(r, c, a) THEN d.step_counts[i] + 1
                            ELSE d.step_counts[i]
      /\ e.step_samples[i] = IF i \in Counted(r, c, a) /\ Len(d.step_samples[i]) < SamplesPerStep
                             THEN Append(d.step_samples[i], n) ELSE d.step_samples[i]
  BY <1>1, <1>3, <1>4
<1>7. CASE i \in MatchingSteps(r, a)
  <2> DEFINE s == CountStep(r, d, i, n)
  <2>1. /\ Counts(r, d, i) <=> i \in Counted(r, c, a)
        /\ e.current_step = IF Moves(r, d, i) THEN d.current_step + 1 ELSE d.current_step
    BY <1>2, <1>3, <1>4, <1>7, PassDecides
  <2>2. /\ s \in ChainState(r)
        /\ s.chain_start = d.chain_start /\ s.opened = d.opened
        /\ s.current_step = IF Moves(r, d, i) THEN d.current_step + 1 ELSE d.current_step
        /\ \A k \in Step(r) :
             /\ s.step_counts[k] = IF k = i /\ Counts(r, d, i) THEN d.step_counts[k] + 1
                                   ELSE d.step_counts[k]
             /\ s.step_samples[k] =
                  IF k = i /\ Counts(r, d, i) /\ Len(d.step_samples[k]) < SamplesPerStep
                  THEN Append(d.step_samples[k], n) ELSE d.step_samples[k]
    BY <1>2, CountStepFacts
  <2> HIDE DEF s
  <2>3. ASSUME NEW k \in Step(r)
        PROVE  e.step_counts[k] = s.step_counts[k] /\ e.step_samples[k] = s.step_samples[k]
    <3>1. CASE k = i
      BY <1>6, <2>1, <2>2, <3>1
    <3>2. CASE k # i
      BY <1>5, <2>2, <3>2
    <3>3. QED
      BY <3>1, <3>2
  <2>4. e = s
    BY <1>2, <1>3, <2>1, <2>2, <2>3, ChainsEqual
  <2>5. QED
    BY <1>7, <2>4 DEF d, e, s
<1>8. CASE i \notin MatchingSteps(r, a)
  <2>1. i \notin Counted(r, c, a) /\ e.current_step = d.current_step
    BY <1>2, <1>3, <1>4, <1>8, PassDecides
  <2>2. ASSUME NEW k \in Step(r)
        PROVE  e.step_counts[k] = d.step_counts[k] /\ e.step_samples[k] = d.step_samples[k]
    BY <1>5, <1>6, <2>1
  <2>3. e = d
    BY <1>2, <1>3, <2>1, <2>2, ChainsEqual
  <2>4. QED
    BY <1>8, <2>3 DEF d, e
<1>9. QED
  BY <1>7, <1>8

\* The inner loop of feed_at computes what Advance says at once.
LEMMA LoopIsAdvance ==
  ASSUME NEW r \in Rule, NEW c \in ChainState(r), NEW a, NEW n \in Nat
  PROVE  FeedLoop(r, c, a, n) = Advance(r, c, a, n)
<1> PICK last \in Nat : last = Len(Rules[r].steps)
  BY RuleFacts
<1> DEFINE Loop(f) == [i \in 0..last |->
                         IF i = 0 THEN c
                         ELSE IF i \in MatchingSteps(r, a) THEN CountStep(r, f[i - 1], i, n)
                         ELSE f[i - 1]]
           pass == CHOOSE f : f = Loop(f)
           w == [i \in 0..last |-> AfterPass(r, c, a, n, i)]
<1>1. FeedLoop(r, c, a, n) = pass[last]
  BY DEF FeedLoop
<1>2. \A i \in Nat : 0 < i /\ i <= last => i \in Step(r)
  BY DEF Step
<1>3. w[0] = c
  <2>1. 0 \in Nat /\ 0 <= Len(Rules[r].steps) /\ 0 \in 0..last
    OBVIOUS
  <2>2. CursorAfter(r, c, a, 0) = c.current_step
    BY DEF CursorAfter, ChainState
  <2>3. \A k \in Step(r) : ~ (k <= 0)
    BY DEF Step
  <2> DEFINE d == AfterPass(r, c, a, n, 0)
  <2>4. PassedTo(r, c, a, n, 0, d)
    BY <2>1, AfterPassFacts
  <2> HIDE DEF d
  <2>6. /\ d \in ChainState(r)
        /\ d.chain_start = c.chain_start /\ d.opened = c.opened
        /\ d.current_step = c.current_step
        /\ \A k \in Step(r) : /\ d.step_counts[k] = c.step_counts[k]
                              /\ d.step_samples[k] = c.step_samples[k]
    BY <2>2, <2>3, <2>4 DEF PassedTo
  <2>7. d = c
    BY <2>6, ChainsEqual
  <2>5. QED
    BY <2>1, <2>7 DEF d
<1>4. \A i \in Nat : 0 < i /\ i <= last =>
        w[i] = IF i \in MatchingSteps(r, a) THEN CountStep(r, w[i - 1], i, n) ELSE w[i - 1]
  <2>1. ASSUME NEW i \in Nat, 0 < i, i <= last
        PROVE  w[i] = IF i \in MatchingSteps(r, a) THEN CountStep(r, w[i - 1], i, n)
                      ELSE w[i - 1]
    <3>1. i \in 0..last /\ i - 1 \in 0..last
      BY <2>1
    <3>2. i \in Step(r)
      BY <1>2, <2>1
    <3>3. w[i] = AfterPass(r, c, a, n, i) /\ w[i - 1] = AfterPass(r, c, a, n, i - 1)
      BY <3>1
    <3>4. QED
      BY <3>2, <3>3, PassStep
  <2>2. QED
    BY <2>1
<1>5. w = Loop(w)
  <2>1. ASSUME NEW i \in 0..last PROVE w[i] = Loop(w)[i]
    <3>1. i \in Nat /\ i <= last
      OBVIOUS
    <3> HIDE DEF w
    <3>2. CASE i = 0
      BY <1>3, <3>2
    <3>3. CASE i # 0
      BY <1>4, <3>1, <3>3
    <3>4. QED
      BY <3>2, <3>3
  <2>2. w = [i \in 0..last |-> w[i]]
    OBVIOUS
  <2> HIDE DEF w
  <2>3. QED
    BY <2>1, <2>2
<1> HIDE DEF w
<1>6. pass = Loop(pass)
  BY <1>5
<1> HIDE DEF pass
<1>7. pass[0] = c
  BY <1>6
<1>8. \A i \in Nat : 0 < i /\ i <= last =>
        pass[i] = IF i \in MatchingSteps(r, a) THEN CountStep(r, pass[i - 1], i, n)
                  ELSE pass[i - 1]
  BY <1>6
<1>9. pass[last] = w[last]
  <2>1. SamePasses(pass, w, 0, last)
    BY <1>4, <1>8 DEF SamePasses
  <2>2. 0 \in Nat /\ 0 <= last /\ pass[0] = w[0]
    BY <1>3, <1>7
  <2>3. QED
    BY <2>1, <2>2, LoopsAgree
<1>10. w[last] = Advance(r, c, a, n)
  <2>1. w[last] = AfterPass(r, c, a, n, last)
    BY DEF w
  <2> DEFINE d == AfterPass(r, c, a, n, last)
             e == Advance(r, c, a, n)
  <2>2. /\ d \in ChainState(r)
        /\ d.chain_start = c.chain_start /\ d.opened = c.opened
        /\ d.current_step = CursorAfter(r, c, a, last)
        /\ \A k \in Step(r) :
             /\ d.step_counts[k] = IF k <= last /\ k \in Counted(r, c, a) THEN c.step_counts[k] + 1
                                   ELSE c.step_counts[k]
             /\ d.step_samples[k] =
                  IF k <= last /\ k \in Counted(r, c, a)
                       /\ Len(c.step_samples[k]) < SamplesPerStep
                  THEN Append(c.step_samples[k], n) ELSE c.step_samples[k]
    <3>1. PassedTo(r, c, a, n, last, d)
      BY AfterPassFacts
    <3> HIDE DEF d
    <3>2. QED
      BY <3>1 DEF PassedTo
  <2>3. /\ e \in ChainState(r)
        /\ e.chain_start = c.chain_start /\ e.opened = c.opened
    BY AdvanceType, AdvanceKeepsStart
  <2>4. /\ e.current_step = Cursor(r, c, a)
        /\ \A k \in Step(r) :
             /\ e.step_counts[k] = IF k \in Counted(r, c, a) THEN c.step_counts[k] + 1
                                   ELSE c.step_counts[k]
             /\ e.step_samples[k] =
                  IF k \in Counted(r, c, a) /\ Len(c.step_samples[k]) < SamplesPerStep
                  THEN Append(c.step_samples[k], n) ELSE c.step_samples[k]
    BY DEF Advance, ChainState
  <2>5. CursorAfter(r, c, a, last) = Cursor(r, c, a)
    <3>1. CASE ~ Rules[r].ordered
      BY <3>1 DEF CursorAfter, Cursor
    <3>2. CASE Rules[r].ordered
      <4> PICK cs \in Nat : cs = c.current_step /\ cs <= last + 1
        BY DEF ChainState
      <4> PICK x \in Nat : x = Cursor(r, c, a) /\ cs <= x /\ x <= last + 1
        BY <3>2, CursorStops
      <4>1. CursorAfter(r, c, a, last) = IF last < cs THEN cs
                                         ELSE IF last < x THEN last + 1 ELSE x
        BY <3>2 DEF CursorAfter
      <4>2. QED
        BY <4>1
    <3>3. QED
      BY <3>1, <3>2
  <2>6. \A k \in Step(r) : k <= last
    BY DEF Step
  <2> HIDE DEF d, e
  <2>7. d = e
    BY <2>2, <2>3, <2>4, <2>5, <2>6, ChainsEqual
  <2>8. QED
    BY <2>1, <2>7 DEF d, e
<1>11. QED
  BY <1>1, <1>9, <1>10

(***************************************************************************)
(* Replay over the input.                                                  *)
(***************************************************************************)

\* h traces the chain of rule r and join value j, opened at lo, along input s.
Traces(s, r, j, lo, hi, h) ==
    /\ h[lo - 1] = NewChain(r, lo, s[lo].at)
    /\ \A n \in Nat : lo - 1 <= n /\ n <= hi => h[n] \in ChainState(r)
    /\ \A n \in Nat : lo <= n /\ n <= hi =>
         h[n] = IF Touches(r, j, s[n].alert) THEN Advance(r, h[n - 1], s[n].alert, n)
                ELSE h[n - 1]

\* The alerts at positions lo..hi of s build c, from a chain opened at lo.
BuiltBy(s, r, j, lo, hi, c) == \E h : Traces(s, r, j, lo, hi, h) /\ h[hi] = c

LEMMA ReplayIsBuilt ==
  ASSUME NEW r \in Rule, NEW j \in JoinValue, NEW lo \in Nat, NEW hi \in Nat,
         1 <= lo, lo <= hi, NEW c, BuiltBy(fed, r, j, lo, hi, c)
  PROVE  Replay(r, j, lo, hi) = c
<1>1. PICK h : Traces(fed, r, j, lo, hi, h) /\ h[hi] = c
  BY DEF BuiltBy
<1> PICK st \in Nat : st = lo - 1 /\ st < lo /\ st <= hi
  OBVIOUS
<1> DEFINE Loop(f) == [n \in (lo - 1)..hi |->
                         IF n = lo - 1 THEN NewChain(r, lo, fed[lo].at)
                         ELSE IF Touches(r, j, fed[n].alert)
                              THEN FeedLoop(r, f[n - 1], fed[n].alert, n)
                         ELSE f[n - 1]]
           chain == CHOOSE f : f = Loop(f)
           w == [n \in (lo - 1)..hi |-> h[n]]
<1>2. Replay(r, j, lo, hi) = chain[hi]
  BY DEF Replay
<1>3. \A n \in Nat : lo - 1 <= n /\ n <= hi => n \in (lo - 1)..hi
  OBVIOUS
<1>4. \A n \in (lo - 1)..hi : n \in Nat /\ lo - 1 <= n /\ n <= hi
  OBVIOUS
<1>5. w[lo - 1] = NewChain(r, lo, fed[lo].at)
  BY <1>1 DEF Traces
<1>6. \A n \in Nat : lo <= n /\ n <= hi =>
        w[n] = IF Touches(r, j, fed[n].alert) THEN FeedLoop(r, w[n - 1], fed[n].alert, n)
               ELSE w[n - 1]
  <2>1. ASSUME NEW n \in Nat, lo <= n, n <= hi
        PROVE  w[n] = IF Touches(r, j, fed[n].alert)
                      THEN FeedLoop(r, w[n - 1], fed[n].alert, n) ELSE w[n - 1]
    <3>1. n - 1 \in Nat /\ lo - 1 <= n - 1 /\ n - 1 <= hi /\ lo - 1 <= n
      BY <2>1
    <3>2. w[n] = h[n] /\ w[n - 1] = h[n - 1]
      BY <1>3, <2>1, <3>1
    <3>3. h[n - 1] \in ChainState(r)
      BY <1>1, <3>1 DEF Traces
    <3>4. h[n] = IF Touches(r, j, fed[n].alert) THEN Advance(r, h[n - 1], fed[n].alert, n)
                 ELSE h[n - 1]
      BY <1>1, <2>1 DEF Traces
    <3>5. FeedLoop(r, h[n - 1], fed[n].alert, n) = Advance(r, h[n - 1], fed[n].alert, n)
      BY <3>3, LoopIsAdvance
    <3> HIDE DEF w
    <3>6. QED
      BY <3>2, <3>4, <3>5
  <2>2. QED
    BY <2>1
<1>7. w = Loop(w)
  <2>1. ASSUME NEW n \in (lo - 1)..hi PROVE w[n] = Loop(w)[n]
    <3>1. n \in Nat /\ lo - 1 <= n /\ n <= hi
      BY <1>4
    <3>2. n # lo - 1 => lo <= n
      BY <3>1
    <3> HIDE DEF w
    <3>3. CASE n = lo - 1
      BY <1>5, <3>3
    <3>4. CASE n # lo - 1
      BY <1>6, <3>1, <3>2, <3>4
    <3>5. QED
      BY <3>3, <3>4
  <2>2. w = [n \in (lo - 1)..hi |-> w[n]]
    OBVIOUS
  <2> HIDE DEF w
  <2>3. QED
    BY <2>1, <2>2
<1> HIDE DEF w
<1>8. chain = Loop(chain)
  BY <1>7
<1> HIDE DEF chain
<1>9. chain[st] = w[st]
  BY <1>3, <1>5, <1>8
<1>10. \A n \in Nat : lo <= n /\ n <= hi =>
         chain[n] = IF Touches(r, j, fed[n].alert)
                    THEN FeedLoop(r, chain[n - 1], fed[n].alert, n) ELSE chain[n - 1]
  <2>1. ASSUME NEW n \in Nat, lo <= n, n <= hi
        PROVE  chain[n] = IF Touches(r, j, fed[n].alert)
                          THEN FeedLoop(r, chain[n - 1], fed[n].alert, n) ELSE chain[n - 1]
    <3>1. n \in (lo - 1)..hi /\ n # lo - 1
      BY <2>1
    <3>2. QED
      BY <1>8, <3>1
  <2>2. QED
    BY <2>1
<1>11. SamePasses(chain, w, st, hi)
  <2>1. SUFFICES ASSUME NEW n \in Nat, st < n, n <= hi, chain[n - 1] = w[n - 1]
                 PROVE  chain[n] = w[n]
    BY DEF SamePasses
  <2>2. lo <= n
    BY <2>1
  <2>3. QED
    BY <1>6, <1>10, <2>1, <2>2
<1>12. chain[hi] = w[hi]
  BY <1>9, <1>11, LoopsAgree
<1>13. w[hi] = h[hi]
  BY <1>3 DEF w
<1>14. QED
  BY <1>1, <1>2, <1>12, <1>13

\* What was built stays built when one more alert is fed.
LEMMA BuiltStays ==
  ASSUME NEW E, NEW s \in Seq(E), NEW e \in E, NEW r, NEW j, NEW c,
         NEW lo \in Nat, NEW hi \in Nat, 1 <= lo, lo <= hi, hi <= Len(s),
         BuiltBy(s, r, j, lo, hi, c)
  PROVE  BuiltBy(Append(s, e), r, j, lo, hi, c)
<1> DEFINE s2 == Append(s, e)
<1>1. \A n \in Nat : 1 <= n /\ n <= Len(s) => s2[n] = s[n]
  OBVIOUS
<1> HIDE DEF s2
<1>2. PICK h : Traces(s, r, j, lo, hi, h) /\ h[hi] = c
  BY DEF BuiltBy
<1>3. s2[lo] = s[lo]
  <2>1. lo <= Len(s)
    OBVIOUS
  <2>2. QED
    BY <1>1, <2>1
<1>4. \A n \in Nat : lo <= n /\ n <= hi => s2[n] = s[n]
  <2>1. ASSUME NEW n \in Nat, lo <= n, n <= hi PROVE 1 <= n /\ n <= Len(s)
    BY <2>1
  <2>2. QED
    BY <1>1, <2>1
<1>5. Traces(s2, r, j, lo, hi, h)
  BY <1>2, <1>3, <1>4 DEF Traces
<1>6. QED
  BY <1>2, <1>5 DEF BuiltBy, s2

\* One more alert takes a chain one alert further.
LEMMA BuiltGrows ==
  ASSUME NEW E, NEW s \in Seq(E), NEW e \in E, NEW r \in Rule, NEW j,
         NEW c \in ChainState(r), NEW lo \in Nat, 1 <= lo, lo <= Len(s) + 1,
         BuiltBy(Append(s, e), r, j, lo, Len(s), c)
  PROVE  BuiltBy(Append(s, e), r, j, lo, Len(s) + 1,
                 IF Touches(r, j, e.alert) THEN Advance(r, c, e.alert, Len(s) + 1) ELSE c)
<1> PICK m \in Nat : m = Len(s)
  OBVIOUS
<1> DEFINE s2 == Append(s, e)
           d == IF Touches(r, j, e.alert) THEN Advance(r, c, e.alert, m + 1) ELSE c
<1>1. s2[m + 1] = e
  OBVIOUS
<1>2. d \in ChainState(r)
  BY AdvanceType
<1> HIDE DEF s2
<1>3. PICK h : Traces(s2, r, j, lo, m, h) /\ h[m] = c
  BY DEF BuiltBy, s2
<1> DEFINE g == [n \in Nat |-> IF n = m + 1 THEN d ELSE h[n]]
<1>4. /\ g[m + 1] = d
      /\ \A n \in Nat : n <= m => g[n] = h[n]
  OBVIOUS
<1> HIDE DEF g
<1>5. g[lo - 1] = NewChain(r, lo, s2[lo].at)
  <2>1. lo - 1 \in Nat /\ lo - 1 <= m
    OBVIOUS
  <2>2. QED
    BY <1>3, <1>4, <2>1 DEF Traces
<1>6. ASSUME NEW n \in Nat, lo - 1 <= n, n <= m + 1 PROVE g[n] \in ChainState(r)
  <2>1. CASE n <= m
    BY <1>3, <1>4, <1>6, <2>1 DEF Traces
  <2>2. CASE n = m + 1
    BY <1>2, <1>4, <2>2
  <2>3. QED
    BY <1>6, <2>1, <2>2
<1>7. ASSUME NEW n \in Nat, lo <= n, n <= m + 1
      PROVE  g[n] = IF Touches(r, j, s2[n].alert) THEN Advance(r, g[n - 1], s2[n].alert, n)
                    ELSE g[n - 1]
  <2>1. n - 1 \in Nat /\ n - 1 <= m
    BY <1>7
  <2>2. g[n - 1] = h[n - 1]
    BY <1>4, <2>1
  <2>3. CASE n <= m
    <3>1. h[n] = IF Touches(r, j, s2[n].alert) THEN Advance(r, h[n - 1], s2[n].alert, n)
                 ELSE h[n - 1]
      BY <1>3, <1>7, <2>3 DEF Traces
    <3>2. g[n] = h[n]
      BY <1>4, <2>3
    <3>3. QED
      BY <2>2, <3>1, <3>2
  <2>4. CASE n = m + 1
    <3>1. g[n - 1] = c /\ s2[n] = e /\ g[n] = d
      BY <1>1, <1>3, <1>4, <2>2, <2>4
    <3>2. QED
      BY <2>4, <3>1
  <2>5. QED
    BY <1>7, <2>3, <2>4
<1>8. Traces(s2, r, j, lo, m + 1, g)
  BY <1>5, <1>6, <1>7 DEF Traces
<1>9. QED
  BY <1>4, <1>8 DEF BuiltBy, s2

\* A chain that an alert opens is built by nothing before it.
LEMMA BuiltFresh ==
  ASSUME NEW E, NEW s \in Seq(E), NEW e \in E, e.at \in Nat, NEW r \in Rule, NEW j
  PROVE  BuiltBy(Append(s, e), r, j, Len(s) + 1, Len(s), NewChain(r, Len(s) + 1, e.at))
<1> PICK m \in Nat : m = Len(s)
  OBVIOUS
<1> DEFINE s2 == Append(s, e)
           c == NewChain(r, m + 1, e.at)
           h == [n \in Nat |-> c]
<1>1. s2[m + 1] = e
  OBVIOUS
<1>2. c \in ChainState(r)
  BY NewChainType
<1>3. \A n \in Nat : h[n] = c
  OBVIOUS
<1> HIDE DEF s2, c, h
<1>4. (m + 1) - 1 = m /\ \A n \in Nat : ~ (m + 1 <= n /\ n <= m)
  OBVIOUS
<1>5. h[(m + 1) - 1] = NewChain(r, m + 1, s2[m + 1].at)
  BY <1>1, <1>3, <1>4 DEF c
<1>6. Traces(s2, r, j, m + 1, m, h)
  BY <1>2, <1>3, <1>4, <1>5 DEF Traces
<1>7. QED
  BY <1>3, <1>6 DEF BuiltBy, s2, c

\* A report carries the chain that the input built, and no alert before the
\* last had completed it.
ReportBuilt(s, t) ==
    /\ 1 <= t.opened /\ t.opened <= t.by /\ t.by <= Len(s)
    /\ \E c \in ChainState(t.rule) :
         /\ BuiltBy(s, t.rule, t.join_value, t.opened, t.by, c)
         /\ Satisfied(t.rule, c)
         /\ c.step_counts = t.step_counts
         /\ c.step_samples = t.step_samples
         /\ c.chain_start = t.chain_start
    /\ t.opened < t.by =>
         \E c \in ChainState(t.rule) :
           /\ BuiltBy(s, t.rule, t.join_value, t.opened, t.by - 1, c)
           /\ ~ Satisfied(t.rule, c)

\* A chain in the map is what the input built since the chain was opened.
ChainBuilt(s, r, j, c) ==
    /\ 1 <= c.opened /\ c.opened <= Len(s)
    /\ BuiltBy(s, r, j, c.opened, Len(s), c)

\* Every chain and every report is the work of the input.
ReplayInv ==
    /\ \A r \in Rule, j \in JoinValue :
         states[r][j] # NoChain => ChainBuilt(fed, r, j, states[r][j])
    /\ \A t \in triggered : ReportBuilt(fed, t)

\* A report stays what it was when one more alert is fed.
LEMMA ReportStaysBuilt ==
  ASSUME TypeOK, ReplayInv, NEW t \in triggered, NEW a \in Alert
  PROVE  ReportBuilt(Append(fed, [alert |-> a, at |-> now]), t)
<1> DEFINE E == [alert : Alert, at : Nat]
           e == [alert |-> a, at |-> now]
<1>1. fed \in Seq(E) /\ e \in E
  BY DEF TypeOK
<1>2. t.opened \in Nat /\ t.by \in Nat
  BY DEF TypeOK, TriggerRecord
<1> HIDE DEF E, e
<1>3. Len(fed) \in Nat /\ Len(Append(fed, e)) = Len(fed) + 1
  BY <1>1
<1>4. ReportBuilt(fed, t)
  BY DEF ReplayInv
<1>5. 1 <= t.opened /\ t.opened <= t.by /\ t.by <= Len(fed)
  BY <1>4 DEF ReportBuilt
<1>6. PICK c \in ChainState(t.rule) :
        /\ BuiltBy(fed, t.rule, t.join_value, t.opened, t.by, c)
        /\ Satisfied(t.rule, c)
        /\ c.step_counts = t.step_counts
        /\ c.step_samples = t.step_samples
        /\ c.chain_start = t.chain_start
  BY <1>4 DEF ReportBuilt
<1>7. BuiltBy(Append(fed, e), t.rule, t.join_value, t.opened, t.by, c)
  BY <1>1, <1>2, <1>5, <1>6, BuiltStays
<1>8. ASSUME t.opened < t.by
      PROVE  \E d \in ChainState(t.rule) :
               /\ BuiltBy(Append(fed, e), t.rule, t.join_value, t.opened, t.by - 1, d)
               /\ ~ Satisfied(t.rule, d)
  <2>1. PICK d \in ChainState(t.rule) :
          /\ BuiltBy(fed, t.rule, t.join_value, t.opened, t.by - 1, d)
          /\ ~ Satisfied(t.rule, d)
    BY <1>4, <1>8 DEF ReportBuilt
  <2>2. t.by - 1 \in Nat /\ t.opened <= t.by - 1 /\ t.by - 1 <= Len(fed)
    BY <1>2, <1>3, <1>5, <1>8
  <2>3. BuiltBy(Append(fed, e), t.rule, t.join_value, t.opened, t.by - 1, d)
    BY <1>1, <1>2, <1>5, <2>1, <2>2, BuiltStays
  <2>4. QED
    BY <2>1, <2>3
<1>9. t.by <= Len(Append(fed, e))
  BY <1>2, <1>3, <1>5
<1>10. ReportBuilt(Append(fed, e), t)
  BY <1>5, <1>6, <1>7, <1>8, <1>9 DEF ReportBuilt
<1>11. QED
  BY <1>10 DEF e

\* A chain that the alert does not touch is built by the longer input as well.
LEMMA UntouchedStaysBuilt ==
  ASSUME TypeOK, ReplayInv, NEW a \in Alert, NEW r \in Rule, NEW j \in JoinValue,
         states[r][j] # NoChain, ~ Touches(r, j, a)
  PROVE  ChainBuilt(Append(fed, [alert |-> a, at |-> now]), r, j, states[r][j])
<1> DEFINE E == [alert : Alert, at : Nat]
           e == [alert |-> a, at |-> now]
           c == states[r][j]
<1>1. fed \in Seq(E) /\ e \in E /\ e.alert = a
  BY DEF TypeOK
<1>2. c \in ChainState(r) /\ c.opened \in Nat
  BY DEF TypeOK, ChainState
<1>3. 1 <= c.opened /\ c.opened <= Len(fed) /\ BuiltBy(fed, r, j, c.opened, Len(fed), c)
  BY DEF ReplayInv, ChainBuilt
<1> HIDE DEF E, e, c
<1>4. /\ Len(fed) \in Nat /\ Len(Append(fed, e)) = Len(fed) + 1
      /\ c.opened <= Len(fed) + 1 /\ Len(fed) <= Len(fed)
  BY <1>1, <1>2, <1>3
<1>5. BuiltBy(Append(fed, e), r, j, c.opened, Len(fed), c)
  BY <1>1, <1>2, <1>3, <1>4, BuiltStays
<1>6. BuiltBy(Append(fed, e), r, j, c.opened, Len(fed) + 1,
              IF Touches(r, j, e.alert) THEN Advance(r, c, e.alert, Len(fed) + 1) ELSE c)
  BY <1>1, <1>2, <1>3, <1>4, <1>5, BuiltGrows
<1>7. ChainBuilt(Append(fed, e), r, j, c)
  BY <1>1, <1>3, <1>4, <1>6 DEF ChainBuilt
<1>8. QED
  BY <1>7 DEF e, c

\* The chain that an alert was applied to is built by the input up to the alert.
LEMMA FedIsBuilt ==
  ASSUME IInv, ReplayInv, NEW a \in Alert, NEW r \in Rule, NEW j \in JoinValue,
         Touches(r, j, a)
  PROVE  LET c == Fed(r, Base[r][j], a, Len(fed) + 1, now)
             s == Append(fed, [alert |-> a, at |-> now])
         IN  /\ ChainBuilt(s, r, j, c)
             /\ c.opened < Len(s) =>
                  \E d \in ChainState(r) : /\ BuiltBy(s, r, j, c.opened, Len(s) - 1, d)
                                           /\ ~ Satisfied(r, d)
<1> DEFINE E == [alert : Alert, at : Nat]
           e == [alert |-> a, at |-> now]
           s == Append(fed, e)
           b == Base[r][j]
           o == Opened(r, b, Len(fed) + 1, now)
           c == Fed(r, b, a, Len(fed) + 1, now)
<1>1. fed \in Seq(E) /\ e \in E /\ e.alert = a /\ e.at = now /\ now \in Nat
  BY DEF IInv, TypeOK
<1>2. /\ b \in ChainState(r) \cup {NoChain}
      /\ b # NoChain => b = states[r][j]
  BY BaseFacts DEF IInv
<1> HIDE DEF E, e
<1> PICK m \in Nat : m = Len(fed)
  BY <1>1
<1>3. Len(s) = m + 1 /\ m + 1 \in Nat
  BY <1>1
<1>4. o \in ChainState(r) /\ o.opened \in Nat
  <2>1. o \in ChainState(r)
    <3>1. Len(fed) + 1 \in Nat
      BY <1>1
    <3> HIDE DEF b
    <3>2. QED
      BY <1>1, <1>2, <3>1, OpenedFacts
  <2> HIDE DEF o
  <2>2. QED
    BY <2>1 DEF ChainState
<1>5. c = Advance(r, o, a, m + 1) /\ c.opened = o.opened
  <2>1. c = Advance(r, o, a, m + 1)
    BY DEF Fed
  <2> HIDE DEF o, c
  <2>2. QED
    BY <1>4, <2>1, AdvanceKeepsStart
<1>6. \/ o = NewChain(r, m + 1, now)
      \/ b # NoChain /\ o = b
  BY DEF Opened
<1> HIDE DEF b, o, c
<1>7. /\ 1 <= o.opened /\ o.opened <= m + 1
      /\ BuiltBy(s, r, j, o.opened, m, o)
      /\ o.opened < m + 1 => ~ Satisfied(r, o)
  <2>1. CASE o = NewChain(r, m + 1, now)
    <3>1. o.opened = m + 1
      BY <2>1 DEF NewChain
    <3>2. BuiltBy(s, r, j, m + 1, m, NewChain(r, m + 1, e.at))
      BY <1>1, BuiltFresh
    <3>3. QED
      BY <1>1, <2>1, <3>1, <3>2
  <2>2. CASE b # NoChain /\ o = b
    <3>1. o = states[r][j] /\ states[r][j] # NoChain
      BY <1>2, <2>2
    <3>2. /\ 1 <= o.opened /\ o.opened <= m
          /\ BuiltBy(fed, r, j, o.opened, m, o)
      BY <3>1 DEF ReplayInv, ChainBuilt
    <3>3. ~ Satisfied(r, o)
      BY <3>1 DEF IInv, ChainInv
    <3>4. m <= Len(fed)
      OBVIOUS
    <3>5. BuiltBy(s, r, j, o.opened, m, o)
      BY <1>1, <1>4, <3>2, <3>4, BuiltStays
    <3>6. QED
      BY <1>4, <3>2, <3>3, <3>5
  <2>3. QED
    BY <1>6, <2>1, <2>2
<1>8. BuiltBy(s, r, j, o.opened, m + 1,
              IF Touches(r, j, e.alert) THEN Advance(r, o, e.alert, m + 1) ELSE o)
  BY <1>1, <1>4, <1>7, BuiltGrows
<1>9. BuiltBy(s, r, j, c.opened, m + 1, c)
  BY <1>1, <1>5, <1>8
<1> HIDE DEF s
<1>10. ChainBuilt(s, r, j, c)
  BY <1>3, <1>5, <1>7, <1>9 DEF ChainBuilt
<1>11. Len(s) - 1 = m
  BY <1>3
<1>12. ASSUME c.opened < Len(s)
       PROVE  \E d \in ChainState(r) : /\ BuiltBy(s, r, j, c.opened, Len(s) - 1, d)
                                       /\ ~ Satisfied(r, d)
  BY <1>3, <1>4, <1>5, <1>7, <1>11, <1>12
<1>13. QED
  BY <1>10, <1>12 DEF b, c, s, e

LEMMA ReplayFeed ==
  ASSUME IInv, ReplayInv, NEW a \in Alert, Feed(a)
  PROVE  ReplayInv'
<1> DEFINE e == [alert |-> a, at |-> now]
           n == Len(fed) + 1
<1>1. fed' = Append(fed, e) /\ n \in Nat /\ now \in Nat /\ Len(Append(fed, e)) = n
  BY DEF Feed, Record, IInv, TypeOK
<1>2. ASSUME NEW r \in Rule, NEW j \in JoinValue, states'[r][j] # NoChain
      PROVE  ChainBuilt(fed', r, j, states'[r][j])
  <2>1. states'[r][j] = After(r, j, Base[r][j], a, n, now)
    BY DEF Feed
  <2>2. CASE Touches(r, j, a)
    <3>1. states'[r][j] = Fed(r, Base[r][j], a, n, now)
      BY <1>2, <2>1, <2>2 DEF After
    <3>2. QED
      BY <1>1, <2>2, <3>1, FedIsBuilt
  <2>3. CASE ~ Touches(r, j, a)
    <3>1. states'[r][j] = Base[r][j]
      BY <2>1, <2>3 DEF After
    <3>2. Base[r][j] = states[r][j] /\ states[r][j] # NoChain
      BY <1>2, <3>1, BaseFacts DEF IInv
    <3>3. QED
      BY <1>1, <2>3, <3>1, <3>2, UntouchedStaysBuilt DEF IInv
  <2>4. QED
    BY <2>2, <2>3
<1>3. ASSUME NEW t \in triggered' PROVE ReportBuilt(fed', t)
  <2>1. t \in triggered \/ t \in Triggered(Base, a, n, now)
    BY DEF Feed
  <2>2. CASE t \in triggered
    BY <1>1, <2>2, ReportStaysBuilt DEF IInv
  <2>3. CASE t \in Triggered(Base, a, n, now)
    <3>1. PICK r \in Rule, j \in JoinValue :
            LET c == Fed(r, Base[r][j], a, n, now) IN
            /\ Fires(r, j, Base[r][j], a, n, now)
            /\ c \in ChainState(r)
            /\ ~ Expired(r, c, now)
            /\ Satisfied(r, c)
            /\ t = Report(r, j, c, n, now)
      BY <2>3, TriggeredFacts DEF IInv
    <3> DEFINE c == Fed(r, Base[r][j], a, n, now)
               s == Append(fed, e)
    <3>2. /\ t.rule = r /\ t.join_value = j /\ t.by = n
          /\ t.chain_start = c.chain_start /\ t.opened = c.opened
          /\ t.step_counts = c.step_counts /\ t.step_samples = c.step_samples
      BY <3>1 DEF Report
    <3>3. Touches(r, j, a)
      BY <3>1 DEF Fires
    <3>4. /\ ChainBuilt(s, r, j, c)
          /\ c.opened < Len(s) =>
               \E d \in ChainState(r) : /\ BuiltBy(s, r, j, c.opened, Len(s) - 1, d)
                                        /\ ~ Satisfied(r, d)
      BY <3>3, FedIsBuilt
    <3>5. c \in ChainState(r) /\ Satisfied(r, c)
      BY <3>1
    <3>6. Len(s) = n
      BY <1>1
    <3> HIDE DEF c, s, n
    <3>7. ReportBuilt(s, t)
      <4>1. 1 <= t.opened /\ t.opened <= t.by /\ t.by <= Len(s)
        BY <1>1, <3>2, <3>4, <3>6 DEF ChainBuilt
      <4>2. BuiltBy(s, t.rule, t.join_value, t.opened, t.by, c)
        BY <3>2, <3>4, <3>6 DEF ChainBuilt
      <4>3. t.opened < t.by =>
              \E d \in ChainState(t.rule) :
                /\ BuiltBy(s, t.rule, t.join_value, t.opened, t.by - 1, d)
                /\ ~ Satisfied(t.rule, d)
        BY <3>2, <3>4, <3>6
      <4>4. \E d \in ChainState(t.rule) :
              /\ BuiltBy(s, t.rule, t.join_value, t.opened, t.by, d)
              /\ Satisfied(t.rule, d)
              /\ d.step_counts = t.step_counts
              /\ d.step_samples = t.step_samples
              /\ d.chain_start = t.chain_start
        BY <3>2, <3>5, <4>2
      <4>5. QED
        BY <4>1, <4>3, <4>4 DEF ReportBuilt
    <3>8. QED
      BY <1>1, <3>7 DEF s
  <2>4. QED
    BY <2>1, <2>2, <2>3
<1>4. QED
  BY <1>2, <1>3 DEF ReplayInv

LEMMA ReplayUnclassified ==
  ASSUME TypeOK, ReplayInv, NEW a \in Alert, FeedUnclassified(a)
  PROVE  ReplayInv'
<1>1. /\ fed' = Append(fed, [alert |-> a, at |-> now])
      /\ states' = states /\ triggered' = triggered
      /\ \A r \in Rule, j \in JoinValue : ~ Touches(r, j, a)
  BY DEF FeedUnclassified, Record, Touches
<1>2. QED
  BY <1>1, UntouchedStaysBuilt, ReportStaysBuilt DEF ReplayInv

LEMMA ReplayHolds == Spec => [](TypeOK /\ ReplayInv)
<1>1. Init => ReplayInv
  BY DEF Init, ReplayInv
<1>2. IInv /\ ReplayInv /\ [Next]_vars => ReplayInv'
  <2> SUFFICES ASSUME IInv, ReplayInv, [Next]_vars PROVE ReplayInv'
    OBVIOUS
  <2>1. ASSUME NEW d \in ClockStep, Tick(d) PROVE ReplayInv'
    BY <2>1 DEF Tick, ReplayInv
  <2>2. CASE Restart
    BY <2>2 DEF Restart, ReplayInv
  <2>3. CASE UNCHANGED vars
    BY <2>3 DEF vars, ReplayInv
  <2>4. TypeOK
    BY DEF IInv
  <2>5. QED
    BY <2>1, <2>2, <2>3, <2>4, ReplayFeed, ReplayUnclassified DEF Next
<1>3. IInv => TypeOK
  BY DEF IInv
<1>4. QED
  BY <1>1, <1>2, <1>3, InvHolds, PTL DEF Spec

\* Every chain in the map is what the loop of feed_at, replayed over the input,
\* computes from the alerts fed since the chain was opened: none lost, none
\* counted twice, whatever the rule, the clock, evictions and restarts.
\* (correlation.rs feed_at.)
THEOREM ChainsAreReplayed == Spec => []ChainIsReplay
<1>1. TypeOK /\ ReplayInv => ChainIsReplay
  <2> SUFFICES ASSUME TypeOK, ReplayInv, NEW r \in Rule, NEW j \in JoinValue,
                      states[r][j] # NoChain
               PROVE  states[r][j] = Replay(r, j, states[r][j].opened, Len(fed))
    BY DEF ChainIsReplay
  <2>1. states[r][j].opened \in Nat /\ Len(fed) \in Nat
    BY DEF TypeOK, ChainState
  <2>2. ChainBuilt(fed, r, j, states[r][j])
    BY DEF ReplayInv
  <2>3. QED
    BY <2>1, <2>2, ReplayIsBuilt DEF ChainBuilt
<1>2. QED
  BY <1>1, ReplayHolds, PTL

\* A correlation alert carries exactly what the loop computed, is complete, and
\* was not complete one alert earlier. (correlation.rs feed_at, is_satisfied.)
THEOREM ReportsAreReplayed == Spec => []ReportIsReplay
<1>1. TypeOK /\ ReplayInv => ReportIsReplay
  <2> SUFFICES ASSUME TypeOK, ReplayInv, NEW t \in triggered
               PROVE  /\ LET c == Replay(t.rule, t.join_value, t.opened, t.by) IN
                         /\ Satisfied(t.rule, c)
                         /\ <<c.step_counts, c.step_samples, c.chain_start>>
                              = <<t.step_counts, t.step_samples, t.chain_start>>
                      /\ t.by > t.opened =>
                           ~ Satisfied(t.rule, Replay(t.rule, t.join_value, t.opened, t.by - 1))
    BY DEF ReportIsReplay
  <2>1. /\ t.rule \in Rule /\ t.join_value \in JoinValue
        /\ t.opened \in Nat /\ t.by \in Nat
    BY DEF TypeOK, TriggerRecord
  <2>2. ReportBuilt(fed, t)
    BY DEF ReplayInv
  <2>3. 1 <= t.opened /\ t.opened <= t.by
    BY <2>2 DEF ReportBuilt
  <2>4. PICK c \in ChainState(t.rule) :
          /\ BuiltBy(fed, t.rule, t.join_value, t.opened, t.by, c)
          /\ Satisfied(t.rule, c)
          /\ c.step_counts = t.step_counts
          /\ c.step_samples = t.step_samples
          /\ c.chain_start = t.chain_start
    BY <2>2 DEF ReportBuilt
  <2>5. Replay(t.rule, t.join_value, t.opened, t.by) = c
    BY <2>1, <2>3, <2>4, ReplayIsBuilt
  <2>6. ASSUME t.by > t.opened
        PROVE  ~ Satisfied(t.rule, Replay(t.rule, t.join_value, t.opened, t.by - 1))
    <3>1. t.opened < t.by /\ t.by - 1 \in Nat /\ t.opened <= t.by - 1
      BY <2>1, <2>6
    <3>2. PICK d \in ChainState(t.rule) :
            /\ BuiltBy(fed, t.rule, t.join_value, t.opened, t.by - 1, d)
            /\ ~ Satisfied(t.rule, d)
      BY <2>2, <3>1 DEF ReportBuilt
    <3>3. Replay(t.rule, t.join_value, t.opened, t.by - 1) = d
      BY <2>1, <2>3, <3>1, <3>2, ReplayIsBuilt
    <3>4. QED
      BY <3>2, <3>3
  <2>7. QED
    BY <2>4, <2>5, <2>6
<1>2. QED
  BY <1>1, ReplayHolds, PTL
===============================================================================
