-------------------------------- MODULE MCApi --------------------------------
(***************************************************************************)
(* Bounds for Api: a source on each of two branches, one of them for       *)
(* nobody but the administrators, and one that is no git source, which     *)
(* somebody may write to but not read.                                     *)
(***************************************************************************)
EXTENDS Api

CONSTANTS admin, writer, reader, main, dev

Conf(type, branch, readers, writers) ==
    [type |-> type, branch |-> branch, readers |-> readers, writers |-> writers]

MCConfs == {Conf("git", main, {writer, reader}, {writer}), Conf("git", dev, {}, {}),
            Conf("rsync", NoRef, {writer}, {writer, reader})}
MCMasterConf == Conf("git", main, {reader}, {writer})
=============================================================================
