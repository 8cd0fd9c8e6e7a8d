--------------------------- MODULE CorrelationRules ---------------------------
(***************************************************************************)
(* The vocabulary of `correlated` (src/correlated/src/correlation.rs and   *)
(* config.rs): correlation rules, chains, and what one alert does to one   *)
(* chain.  There is no state here: the engine (Correlation), the contract  *)
(* it is measured against (CorrelationSpec) and the loop the source is     *)
(* written as (CorrelationHistory) share these operators.                  *)
(***************************************************************************)
EXTENDS Integers, Sequences, FiniteSets

CONSTANTS
    Rules,      \* the [[rule]] entries of correlations.toml, in file order
    Field,      \* names that may be a join_field
    RuleId,     \* rule_id values of Sigma rules
    JoinValue,  \* non-empty strings found in a join field
    Absent,     \* the field is missing, or is not a JSON string
    Empty,      \* the field is the empty string
    NoRuleId,   \* the alert has no rule_id string
    NoChain     \* no entry in the HashMap for this join value

StepConfig == [rule_id : RuleId, min_count : Nat]

CorrelationRule == [join_field     : Field,
                    window_seconds : Nat,
                    ordered        : BOOLEAN,
                    steps          : Seq(StepConfig)]

\* CorrelationConfig::load rejects a rule without steps; it accepts any
\* min_count, zero included.
ASSUME RulesAssumption ==
    /\ Rules \in Seq(CorrelationRule)
    /\ \A r \in 1..Len(Rules) : Rules[r].steps # << >>

ASSUME ValuesAssumption ==
    /\ Absent \notin JoinValue
    /\ Empty \notin JoinValue
    /\ NoRuleId \notin RuleId

Rule == 1..Len(Rules)
Step(r) == 1..Len(Rules[r].steps)
Window(r) == Rules[r].window_seconds
MinCount(r, i) == Rules[r].steps[i].min_count

FieldValue == JoinValue \cup {Absent, Empty}

\* What the engine reads of an alert: its rule_id, and each field both inside
\* the nested "event" object and at the top level.
AlertRecord == [rule_id : RuleId \cup {NoRuleId},
                event   : [Field -> FieldValue],
                top     : [Field -> FieldValue]]

(***************************************************************************)
(* A chain.  Alerts are named by their position in the input, so           *)
(* step_samples is a sequence of positions.  `opened` is history: the      *)
(* position of the alert that created the chain.                           *)
(***************************************************************************)
ChainState(r) == [step_counts  : [Step(r) -> Nat],
                  step_samples : [Step(r) -> Seq(Nat)],
                  chain_start  : Nat,
                  current_step : 1..(Len(Rules[r].steps) + 1),
                  opened       : Nat]

ASSUME NoChainAssumption == \A r \in Rule : NoChain \notin ChainState(r)

SamplesPerStep == 3   \* events kept per step

NewChain(r, n, t) == [step_counts  |-> [i \in Step(r) |-> 0],
                      step_samples |-> [i \in Step(r) |-> << >>],
                      chain_start  |-> t,
                      current_step |-> 1,
                      opened       |-> n]

\* The nested event wins as soon as it holds a string, even an empty one.
ExtractField(a, f) == IF a.event[f] # Absent THEN a.event[f] ELSE a.top[f]

MatchingSteps(r, a) == {i \in Step(r) : Rules[r].steps[i].rule_id = a.rule_id}

\* Alert a reaches the chain that rule r keeps for join value j.
Touches(r, j, a) == /\ a.rule_id # NoRuleId
                    /\ MatchingSteps(r, a) # {}
                    /\ ExtractField(a, Rules[r].join_field) = j

Expired(r, c, t) == t - c.chain_start > Window(r)

\* Mutant: an expired chain is kept.
OpenedForever(r, c, n, t) == IF c = NoChain THEN NewChain(r, n, t) ELSE c

\* The chain the alert is applied to: the live one, or a fresh one.
Opened(r, c, n, t) ==
    IF c = NoChain THEN NewChain(r, n, t)
    ELSE IF Expired(r, c, t) THEN NewChain(r, n, t) ELSE c

\* The alert is counted for step i and satisfies it.
Completes(r, c, a, i) == /\ i \in MatchingSteps(r, a)
                         /\ c.step_counts[i] + 1 >= MinCount(r, i)

\* The steps from the cursor on that the alert completes without a gap.
Run(r, c, a) == {i \in c.current_step..Len(Rules[r].steps) :
                    \A k \in c.current_step..i : Completes(r, c, a, k)}

\* Mutant: every completed step moves the cursor, wherever the cursor is.
CursorAnyStep(r, c, a) ==
    IF Rules[r].ordered
    THEN c.current_step + Cardinality({i \in Step(r) : Completes(r, c, a, i)})
    ELSE c.current_step

\* Mutant: one alert moves the cursor by at most one step.
CursorOneStep(r, c, a) ==
    IF Rules[r].ordered /\ Run(r, c, a) # {} THEN c.current_step + 1 ELSE c.current_step

\* Where the cursor of an ordered rule comes to rest: the loop over the
\* matching steps carries it past every step of the run.
Cursor(r, c, a) ==
    IF Rules[r].ordered THEN c.current_step + Cardinality(Run(r, c, a))
    ELSE c.current_step

\* Mutant: an unordered step is counted once more when it is already complete.
CountedTooOften(r, c, a) ==
    {i \in MatchingSteps(r, a) :
        IF Rules[r].ordered
        THEN i \in c.current_step..Cursor(r, c, a)
        ELSE c.step_counts[i] <= MinCount(r, i)}

\* The steps the alert is counted for.
Counted(r, c, a) ==
    {i \in MatchingSteps(r, a) :
        IF Rules[r].ordered
        THEN i \in c.current_step..Cursor(r, c, a)
        ELSE c.step_counts[i] < MinCount(r, i)}

Advance(r, c, a, n) ==
    [c EXCEPT
        !.step_counts  = [i \in Step(r) |->
            IF i \in Counted(r, c, a) THEN @[i] + 1 ELSE @[i]],
        !.step_samples = [i \in Step(r) |->
            IF i \in Counted(r, c, a) /\ Len(@[i]) < SamplesPerStep
            THEN Append(@[i], n) ELSE @[i]],
        !.current_step = Cursor(r, c, a)]

Satisfied(r, c) == \A i \in Step(r) : c.step_counts[i] >= MinCount(r, i)

\* The chain of (r, j) with the alert at position n, time t, applied to it.
Fed(r, c, a, n, t) == Advance(r, Opened(r, c, n, t), a, n)

\* Mutant: a satisfied chain stays in the map.
AfterKept(r, j, c, a, n, t) ==
    IF Touches(r, j, a) THEN Fed(r, c, a, n, t) ELSE c

\* What is left in the map: a satisfied chain is removed.
After(r, j, c, a, n, t) ==
    IF ~ Touches(r, j, a) THEN c
    ELSE IF Satisfied(r, Fed(r, c, a, n, t)) THEN NoChain
    ELSE Fed(r, c, a, n, t)

\* The correlation alert.  Its sample_events are the samples of the steps, in
\* step order, cut to five.
Report(r, j, c, n, t) == [rule         |-> r,
                          join_value   |-> j,
                          chain_start  |-> c.chain_start,
                          chain_end    |-> t,
                          step_counts  |-> c.step_counts,
                          step_samples |-> c.step_samples,
                          opened       |-> c.opened,
                          by           |-> n]

Fires(r, j, c, a, n, t) == /\ Touches(r, j, a)
                           /\ Satisfied(r, Fed(r, c, a, n, t))

\* Everything one alert triggers, over all rules.
Triggered(chains, a, n, t) ==
    {Report(rj[1], rj[2], Fed(rj[1], chains[rj[1]][rj[2]], a, n, t), n, t) :
        rj \in {x \in Rule \X JoinValue :
                    Fires(x[1], x[2], chains[x[1]][x[2]], a, n, t)}}

\* Mutant: a chain is dropped one second early.
PruneEarly(chains, t) ==
    [r \in Rule |-> [j \in JoinValue |->
        IF chains[r][j] = NoChain THEN NoChain
        ELSE IF t - chains[r][j].chain_start >= Window(r) THEN NoChain ELSE chains[r][j]]]

\* The chains with those whose window has passed at time t dropped.
Prune(chains, t) ==
    [r \in Rule |-> [j \in JoinValue |->
        IF chains[r][j] = NoChain THEN NoChain
        ELSE IF Expired(r, chains[r][j], t) THEN NoChain ELSE chains[r][j]]]
===============================================================================
