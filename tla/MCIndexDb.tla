------------------------------ MODULE MCIndexDb -------------------------------
(***************************************************************************)
(* Two consecutive hours, the first with a batch of lines and a line that  *)
(* cannot be parsed.                                                       *)
(***************************************************************************)
EXTENDS IndexDb

MCHour == {1, 2}
MCMaxLines == <<3, 1>>
===============================================================================
