----------------------------- MODULE MCRawStore ------------------------------
(***************************************************************************)
(* Two writers, three lines of different lengths: an offset that belongs   *)
(* to another file falls into the middle of a line.                        *)
(***************************************************************************)
EXTENDS RawStore, TLC

MCLineUnits == <<2, 1, 2>>

\* The writers run the same program.
MCWriters == Permutations(Writer)
===============================================================================
