-------------------------- MODULE MCRegistryOverlap --------------------------
(***************************************************************************)
(* Bounds for Registry with reloads and refreshes that overlap: two        *)
(* sources, two configurations each, two coroutines of                     *)
(* _handle_master_config (say the one of init and the inotify watcher's).  *)
(***************************************************************************)
EXTENDS Registry

CONSTANTS a, b, c1, c2

Table2(x, y) == [s \in {a, b} |-> IF s = a THEN x ELSE y]

MCMasterConfigs == {Table2(c1, c1), Table2(c2, c2), Table2(c1, NoConf)}
=============================================================================
