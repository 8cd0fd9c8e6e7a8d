-------------------------- MODULE CorrelationRefines --------------------------
(***************************************************************************)
(* The engine implements CorrelationSpec when the clock is monotone: an    *)
(* expired chain still in the map stands for no chain at all.  Nor does it *)
(* stay there for long.                                                    *)
(***************************************************************************)
EXTENDS Correlation

\* The clock may have stepped back since an eviction only if ClockStep says so.
MonotoneClock == ClockStep \subseteq Nat

Contract == INSTANCE CorrelationSpec WITH live <- Prune(states, now)

\* Lazy replacement and periodic eviction of expired chains are invisible: for
\* the same input, the engine triggers what an engine with exact windows does.
EvictionIsInvisible == Contract!Spec

\* With a clock that only moves forward, a chain that outlived its window is
\* held for fewer than EvictPeriod further alerts, whatever they are about.
\* (correlation.rs feed_at, evict_expired.)
StaleChainsAreEvicted ==
    \A rj \in Chains :
        LET c == states[rj[1]][rj[2]] IN
        Cardinality({n \in DOMAIN fed :
                        /\ fed[n].alert.rule_id # NoRuleId
                        /\ fed[n].at - c.chain_start > Window(rj[1])})
            < EvictPeriod
===============================================================================
