----------------------------- MODULE Correlation ------------------------------
(***************************************************************************)
(* CrossRuleEngine of src/correlated/src/correlation.rs: the state machine *)
(* that turns a stream of `ruled` alerts into correlation alerts.  A chain *)
(* whose window has passed stays in its HashMap until either an alert for  *)
(* the same join value replaces it or the periodic eviction drops it.      *)
(***************************************************************************)
EXTENDS CorrelationRules

CONSTANTS
    Alert,        \* the alerts the environment may feed
    EvictPeriod,  \* feeds between evictions (500 in the source)
    ClockStep,    \* what the wall clock may do between two alerts
    MaxFeeds,     \* bound: length of the input
    MaxTime       \* bound: the clock

ASSUME EngineAssumption ==
    /\ Alert \subseteq AlertRecord
    /\ EvictPeriod \in Nat \ {0}
    /\ ClockStep \subseteq Int
    /\ MaxFeeds \in Nat
    /\ MaxTime \in Nat

VARIABLES
    states,      \* states[rule][join value]: a chain or NoChain
    feed_count,  \* modulo EvictPeriod, which is all the source reads of it
    now,         \* now_secs()
    fed,         \* history: the alerts fed so far, with their times
    triggered    \* history: the correlation alerts returned by feed_at

vars == <<states, feed_count, now, fed, triggered>>

Init == /\ states = [r \in Rule |-> [j \in JoinValue |-> NoChain]]
        /\ feed_count = 0
        /\ now = 0
        /\ fed = << >>
        /\ triggered = {}

Record(a) == /\ Len(fed) < MaxFeeds
             /\ fed' = Append(fed, [alert |-> a, at |-> now])

\* feed_at returns before it counts an alert without a rule_id.
FeedUnclassified(a) ==
    /\ a.rule_id = NoRuleId
    /\ Record(a)
    /\ UNCHANGED <<states, feed_count, now, triggered>>

\* Mutant: no eviction.
BaseNever == states

\* Mutant: the eviction drops every chain.
BaseCleared ==
    IF (feed_count + 1) % EvictPeriod = 0
    THEN [r \in Rule |-> [j \in JoinValue |-> NoChain]] ELSE states

\* evict_expired runs on every EvictPeriod-th alert, before that alert.
Base == IF (feed_count + 1) % EvictPeriod = 0 THEN Prune(states, now) ELSE states

Feed(a) ==
    /\ a.rule_id # NoRuleId
    /\ Record(a)
    /\ feed_count' = (feed_count + 1) % EvictPeriod
    /\ states' = [r \in Rule |-> [j \in JoinValue |->
                     After(r, j, Base[r][j], a, Len(fed) + 1, now)]]
    /\ triggered' = triggered \cup Triggered(Base, a, Len(fed) + 1, now)
    /\ UNCHANGED now

Tick(d) == /\ now + d \in 0..MaxTime
           /\ now' = now + d
           /\ UNCHANGED <<states, feed_count, fed, triggered>>

\* The process dies and systemd starts it again: chains are not persisted.
Restart == /\ states' = [r \in Rule |-> [j \in JoinValue |-> NoChain]]
           /\ feed_count' = 0
           /\ UNCHANGED <<now, fed, triggered>>

Next == \/ \E a \in Alert : FeedUnclassified(a)
        \/ \E a \in Alert : Feed(a)
        \/ \E d \in ClockStep : Tick(d)
        \/ Restart

Spec == Init /\ [][Next]_vars

\* The entries of the HashMaps.
Chains == {rj \in Rule \X JoinValue : states[rj[1]][rj[2]] # NoChain}

TriggerRecord(r) == [rule         : Rule,
                     join_value   : JoinValue,
                     chain_start  : Nat,
                     chain_end    : Nat,
                     step_counts  : [Step(r) -> Nat],
                     step_samples : [Step(r) -> Seq(Nat)],
                     opened       : Nat,
                     by           : Nat]

\* Every variable holds a value of its type.
TypeOK ==
    /\ DOMAIN states = Rule
    /\ \A r \in Rule : states[r] \in [JoinValue -> ChainState(r) \cup {NoChain}]
    /\ feed_count \in 0..(EvictPeriod - 1)
    /\ now \in Nat
    /\ fed \in Seq([alert : Alert, at : Nat])
    /\ \A t \in triggered : t.rule \in Rule /\ t \in TriggerRecord(t.rule)

\* A chain that satisfies its rule never waits in the map: the engine removes it
\* in the call that completes it, so no later alert reports the same evidence.
NoSatisfiedChainWaits ==
    \A r \in Rule, j \in JoinValue :
        states[r][j] # NoChain => ~ Satisfied(r, states[r][j])

\* The span reported by a correlation alert never exceeds the rule's window,
\* and every step has fired often enough.
ReportsWithinWindow ==
    \A t \in triggered :
        /\ t.chain_end - t.chain_start <= Window(t.rule)
        /\ \A i \in Step(t.rule) : t.step_counts[i] >= MinCount(t.rule, i)

\* Two correlation alerts of one rule and join value never share an input
\* alert: the stretches of input they were built from are disjoint.
NoSharedEvidence ==
    \A t, u \in triggered :
        t.rule = u.rule /\ t.join_value = u.join_value /\ t # u
            => t.by < u.opened \/ u.by < t.opened

\* An alert changes only the chains of its own join value; any other chain can
\* only disappear, and only once its window has passed.
Isolation ==
    [][\A a \in Alert : Feed(a) =>
        \A r \in Rule, j \in JoinValue :
            ~ Touches(r, j, a) /\ states'[r][j] # states[r][j]
                => /\ states'[r][j] = NoChain
                   /\ Expired(r, states[r][j], now)]_vars
===============================================================================
