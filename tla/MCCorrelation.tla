---------------------------- MODULE MCCorrelation -----------------------------
(***************************************************************************)
(* A small instance of the correlation engine.  Rule 1 is ordered and one  *)
(* alert can complete its first two steps at once; rule 2 is unordered     *)
(* and joins on another field.                                             *)
(***************************************************************************)
EXTENDS CorrelationHistory, CorrelationRefines, TLC

CONSTANTS fail, login, x, y, ip, user

MCRules ==
    << [join_field |-> ip, window_seconds |-> 1, ordered |-> TRUE,
        steps |-> << [rule_id |-> fail, min_count |-> 2],
                     [rule_id |-> fail, min_count |-> 1],
                     [rule_id |-> login, min_count |-> 1] >>],
       [join_field |-> user, window_seconds |-> 1, ordered |-> FALSE,
        steps |-> << [rule_id |-> fail, min_count |-> 1],
                     [rule_id |-> login, min_count |-> 1] >>] >>

MkAlert(id, i, u, t) == [rule_id |-> id,
                         event   |-> (ip :> i @@ user :> u),
                         top     |-> (ip :> t @@ user :> Absent)]

MCAlert == { MkAlert(fail, x, x, Absent),
             MkAlert(login, Absent, x, x),   \* join value found at top level
             MkAlert(login, Empty, y, x),    \* empty nested value shadows it
             MkAlert(NoRuleId, x, x, x) }

\* One more, so that both join values complete a pattern of rule 2.
MCAlertMore == MCAlert \cup { MkAlert(fail, x, y, Absent) }

\* The wall clock is not monotone: it can be set back between two alerts.
MCClockStep == {-1, 1}
===============================================================================
