----------------------------- MODULE MCGitSource -----------------------------
(***************************************************************************)
(* Bounds for GitSource: two sources of one repository whose full clone    *)
(* they share, and a sparse source of the same repository.                 *)
(***************************************************************************)
EXTENDS GitSource, TLC

CONSTANTS a, b, sp, repo, f1, f2, master, devel, old, new

MCRepo       == [s \in {a, b, sp} |-> repo]
MCOneBranch  == [s \in {a, b, sp} |-> master]
MCTwoBranch  == [s \in {a, b, sp} |-> IF s = b THEN devel ELSE master]
\* Each commit has a file of its own: what is left of one clashes with that one.
MCFiles      == [d \in {repo, sp} |-> [r \in Revs |-> IF r.n = 0 THEN {old} ELSE {new}]]
\* On one branch the sources a and b are alike, and so are the refreshers.
MCSymmetry   == Permutations({a, b}) \cup Permutations({f1, f2})
=============================================================================
