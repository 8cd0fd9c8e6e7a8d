---------------------------- MODULE MCIndexdWatch -----------------------------
(***************************************************************************)
(* A small tree: data/raw/hour/second/ and one file in it.                 *)
(***************************************************************************)
EXTENDS IndexdWatch, TLC

CONSTANTS hour, second, f

MCDir == {Data, Root, hour, second}
MCParent == Root :> Data @@ hour :> Root @@ second :> hour
MCDirOf == f :> second
===============================================================================
