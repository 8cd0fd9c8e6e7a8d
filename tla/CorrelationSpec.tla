--------------------------- MODULE CorrelationSpec ----------------------------
(***************************************************************************)
(* What the correlation engine promises, without its bookkeeping: a chain  *)
(* exists for exactly as long as its window, and disappears the moment the *)
(* window has passed.  There is no eviction, no counter of feeds and no    *)
(* dead chain waiting to be replaced.  The clock never runs backwards.     *)
(***************************************************************************)
EXTENDS CorrelationRules

CONSTANTS Alert, ClockStep, MaxFeeds, MaxTime

VARIABLES
    live,      \* live[rule][join value]: an unexpired chain or NoChain
    now,
    fed,
    triggered

vars == <<live, now, fed, triggered>>

Init == /\ live = [r \in Rule |-> [j \in JoinValue |-> NoChain]]
        /\ now = 0
        /\ fed = << >>
        /\ triggered = {}

\* One alert: every live chain it touches advances, and those it completes
\* are reported and closed.
Observe(a) ==
    /\ Len(fed) < MaxFeeds
    /\ fed' = Append(fed, [alert |-> a, at |-> now])
    /\ live' = [r \in Rule |-> [j \in JoinValue |->
                   After(r, j, live[r][j], a, Len(fed) + 1, now)]]
    /\ triggered' = triggered \cup Triggered(live, a, Len(fed) + 1, now)
    /\ UNCHANGED now

\* Time passes, and with it the windows.
Advances(d) ==
    /\ now + d \in 0..MaxTime
    /\ now' = now + d
    /\ live' = Prune(live, now')
    /\ UNCHANGED <<fed, triggered>>

\* The process restarts and forgets its chains.
Forget == /\ live' = [r \in Rule |-> [j \in JoinValue |-> NoChain]]
          /\ UNCHANGED <<now, fed, triggered>>

Next == \/ \E a \in Alert : Observe(a)
        \/ \E d \in ClockStep : Advances(d)
        \/ Forget

Spec == Init /\ [][Next]_vars
===============================================================================
