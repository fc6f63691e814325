--------------------------- MODULE MCRegistrySerial ---------------------------
(***************************************************************************)
(* Bounds for RegistrySerial: two sources, two loadable configurations and *)
(* one that the tag filter leaves out, and every master configuration over *)
(* them, so that every pair of changes is followed: a source added,        *)
(* removed, changed, filtered out, taken back in.                          *)
(***************************************************************************)
EXTENDS RegistrySerial

MCMasterConfigs == [Sources -> OptConfs]
=============================================================================
