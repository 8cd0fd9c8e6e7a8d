---------------------------- MODULE MCAlertWatch ------------------------------
(***************************************************************************)
(* Small instances of the notifier: the third alert is below "high".       *)
(***************************************************************************)
EXTENDS AlertWatch

MCLevel == [l \in Line |-> <<"critical", "high", "medium">>[l]]
===============================================================================
