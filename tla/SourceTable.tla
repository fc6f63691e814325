----------------------------- MODULE SourceTable -----------------------------
(***************************************************************************)
(* What a table of sources promises its readers (the API, the UI, the      *)
(* tarball handler, the watch loop), whatever the loads and the failures:  *)
(* an entry appears only with the configuration that is wanted, is never   *)
(* overwritten in place, and disappears only when it is not wanted.        *)
(***************************************************************************)
CONSTANTS Ids, Values, Absent

VARIABLES
    want,    \* the value each id should have
    table    \* the value it has

Init ==
    /\ want = [i \in Ids |-> Absent]
    /\ table = [i \in Ids |-> Absent]

Retarget ==
    /\ want' \in [Ids -> Values \cup {Absent}]
    /\ UNCHANGED table

Drop(i) ==
    /\ table[i] \notin {want[i], Absent}
    /\ table' = [table EXCEPT ![i] = Absent]
    /\ UNCHANGED want

Add(i) ==
    /\ table[i] = Absent
    /\ want[i] \in Values
    /\ table' = [table EXCEPT ![i] = want[i]]
    /\ UNCHANGED want

Next == Retarget \/ \E i \in Ids : Drop(i) \/ Add(i)

Spec == Init /\ [][Next]_<<want, table>>
=============================================================================
