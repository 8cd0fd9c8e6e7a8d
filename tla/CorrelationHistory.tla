-------------------------- MODULE CorrelationHistory --------------------------
(***************************************************************************)
(* What the chains must be, computed from the input alone: the body of     *)
(* feed_at written as the loop it is in correlation.rs, run over the       *)
(* history.  The engine's closed forms (Cursor, Counted) and its handling  *)
(* of reset, removal and eviction are measured against this replay.        *)
(***************************************************************************)
EXTENDS Correlation

\* One pass of the inner loop `for &step_idx in &matching_steps`.
CountStep(r, c, i, n) ==
    LET counts == IF Rules[r].ordered
                  THEN i = c.current_step
                  ELSE c.step_counts[i] < MinCount(r, i)
        d == [c EXCEPT
                !.step_counts[i]  = @ + 1,
                !.step_samples[i] = IF Len(@) < SamplesPerStep
                                    THEN Append(@, n) ELSE @]
    IN  IF ~ counts THEN c
        ELSE IF Rules[r].ordered /\ d.step_counts[i] >= MinCount(r, i)
             THEN [d EXCEPT !.current_step = @ + 1]
             ELSE d

\* The inner loop: matching_steps holds the steps in increasing order.
FeedLoop(r, c, a, n) ==
    LET pass[i \in 0..Len(Rules[r].steps)] ==
            IF i = 0 THEN c
            ELSE IF i \in MatchingSteps(r, a) THEN CountStep(r, pass[i - 1], i, n)
            ELSE pass[i - 1]
    IN  pass[Len(Rules[r].steps)]

\* The chain that the alerts at positions lo..hi build for rule r and join
\* value j, were they fed to one chain opened at lo.
Replay(r, j, lo, hi) ==
    LET chain[n \in (lo - 1)..hi] ==
            IF n = lo - 1 THEN NewChain(r, lo, fed[lo].at)
            ELSE IF Touches(r, j, fed[n].alert)
                 THEN FeedLoop(r, chain[n - 1], fed[n].alert, n)
            ELSE chain[n - 1]
    IN  chain[hi]

\* Every chain in the map is exactly what the source's loop computes from the
\* alerts fed since the chain was opened, none lost and none counted twice.
ChainIsReplay ==
    \A r \in Rule, j \in JoinValue :
        states[r][j] # NoChain =>
            states[r][j] = Replay(r, j, states[r][j].opened, Len(fed))

\* A correlation alert is emitted by the first alert that completes the pattern
\* since the chain was opened, neither later nor earlier, and carries exactly the
\* counts, samples and start that the loop computed from those alerts.
ReportIsReplay ==
    \A t \in triggered :
        /\ LET c == Replay(t.rule, t.join_value, t.opened, t.by) IN
           /\ Satisfied(t.rule, c)
           /\ <<c.step_counts, c.step_samples, c.chain_start>>
                = <<t.step_counts, t.step_samples, t.chain_start>>
        /\ t.by > t.opened =>
             ~ Satisfied(t.rule, Replay(t.rule, t.join_value, t.opened, t.by - 1))
===============================================================================
