------------------------------ MODULE MCTarball ------------------------------
(***************************************************************************)
(* Bounds for Tarball: the second revision removes a file and changes     *)
(* the other one.                                                          *)
(***************************************************************************)
EXTENDS Tarball

CONSTANTS a, b

MCFilesOf == [r \in 0..1 |-> IF r = 0 THEN {a, b} ELSE {b}]
=============================================================================
