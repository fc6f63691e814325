------------------------------ MODULE MCCluster ------------------------------
(***************************************************************************)
(* Bounds for Cluster: the second revision of the master configuration     *)
(* replaces source a by source b; slave s2 filters a out.  New revisions   *)
(* are pushed to a only.                                                   *)
(***************************************************************************)
EXTENDS Cluster

CONSTANTS a, b, s2

MCWanted == [r \in 0..1 |-> IF r = 0 THEN {a} ELSE {b}]
MCHidden == [p \in Procs |-> IF p = s2 THEN {a} ELSE {}]
MCMaxRev == [i \in Ids |-> IF i = b THEN 0 ELSE 1]
=============================================================================
