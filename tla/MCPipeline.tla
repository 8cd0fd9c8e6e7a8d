------------------------------ MODULE MCPipeline ------------------------------
(***************************************************************************)
(* Events 1 and 3 are repeats of each other for the first rule; event 2    *)
(* matches nothing.                                                        *)
(***************************************************************************)
EXTENDS Pipeline

CONSTANTS udp, tcp, brute, sudo, k

MCDetections == << <<brute>>, << >>, <<brute, sudo>> >>
MCDedupKey == <<k, k, k>>
===============================================================================
