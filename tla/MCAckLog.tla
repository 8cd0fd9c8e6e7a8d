------------------------------ MODULE MCAckLog -------------------------------
(***************************************************************************)
(* One rule, two analysts, hours of two seconds.                           *)
(***************************************************************************)
EXTENDS AckLog, TLC

\* The analysts run the same program.
MCAnalysts == Permutations(Analyst)
===============================================================================
