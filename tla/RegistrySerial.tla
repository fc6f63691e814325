---------------------------- MODULE RegistrySerial ----------------------------
(***************************************************************************)
(* The registry when its triggers are served one at a time: by the inotify *)
(* task, or by webhooks or events of which each comes after the last ended. *)
(***************************************************************************)
EXTENDS Registry

ASSUME SingleReload == \E r \in Reloads : Reloads = {r}

\* No entry survives a reload that does not want it, and none is kept with an
\* outdated configuration: when the coroutine loads, and when it is done, every
\* entry is the one its master configuration asks for (_do_handle_master_config).
NoOutdatedSource ==
    \A r \in Reloads : phase[r] \in {"idle", "loading", "ready", "error"} =>
        \A s \in Sources : sources[s] \in {NoConf, Want(cfg[r])[s]}

\* The flag tells what happened: READY after a first attempt means that every
\* wanted source is loaded, ERROR that none of those to load is
\* (_handle_master_config, the use of success and errors).
VerdictSound ==
    \A r \in Reloads :
        /\ phase[r] = "ready" /\ attempt[r] = 1 => sources = Want(cfg[r])
        /\ phase[r] = "error" => /\ toReload[r] # {}
                                 /\ \A s \in toReload[r] : sources[s] = NoConf

\* The second attempt only loads what the first could not: it never removes or
\* replaces a source that the first attempt has loaded (_handle_master_config).
RetryOnlyLoads ==
    \A r \in Reloads : attempt[r] = 2 => phase[r] \notin {"removing", "replacing"}

\* A source listed as filtered is not served as a loaded one, except while its
\* removal is under way or was aborted (_do_handle_master_config, get_sources).
FilteredNotLoaded ==
    \A r \in Reloads : phase[r] \notin {"removing", "aborted"} =>
        \A s \in filtered : sources[s] = NoConf

\* The content of a directory is the one of its entry, whatever load failed
\* before: a failed load never leaves its content under an older entry
\* (load_source, _delete_source).
ContentMatchesEntry ==
    \A s \in Sources :
        \/ sources[s] \in {NoConf, target[s]}
        \/ \E r \in Reloads : job[r][s] = "deleted"

\* A stable master configuration is applied in the end, contents included.  A
\* rejected one before it does no harm when triggers bring their own coroutine; the
\* inotify task it ends, and no change of the file is applied after it
\* (_handle_master_config, watch_config).
Converges ==
    \A c \in MasterConfigs :
        <>[](published = c) => \/ <>[](sources = Want(c) /\ target = Want(c))
                               \/ <>(\E r \in Watchers : phase[r] = "aborted")

-----------------------------------------------------------------------------
(* The inductive invariant: what the subtasks of a stage know of the table. *)

DeleteJobs == {"delete", "deleting", "deleted"}
LoadJobs   == {"queued", "loading", "written", "loaded", "failed"}

Outdated(r, s) == sources[s] \notin {NoConf, Want(cfg[r])[s]}

DeletesOnlyOutdated(r) ==
    \A s \in Sources :
        /\ job[r][s] \in DeleteJobs \cup {"none"}
        /\ job[r][s] \in DeleteJobs => Outdated(r, s)

RemovalInv(r) ==
    /\ DeletesOnlyOutdated(r)
    /\ \A s \in Sources : Want(cfg[r])[s] = NoConf /\ sources[s] # NoConf
                          <=> job[r][s] \in DeleteJobs

ReplacementInv(r) ==
    /\ DeletesOnlyOutdated(r)
    /\ \A s \in Sources :
          /\ Outdated(r, s) => job[r][s] \in DeleteJobs
          /\ s \in toReload[r] <=> sources[s] # Want(cfg[r])[s]
          /\ s \in toReload[r] => Want(cfg[r])[s] # NoConf

LoadInv(r) ==
    \A s \in Sources :
        /\ job[r][s] \in LoadJobs \cup {"none"}
        /\ job[r][s] = "none" <=> s \notin toReload[r]
        /\ job[r][s] # "none" => Want(cfg[r])[s] # NoConf
        /\ sources[s] = IF job[r][s] \in {"none", "loaded"} THEN Want(cfg[r])[s] ELSE NoConf
        /\ job[r][s] = "written" /\ Refreshers = {} => target[s] = Want(cfg[r])[s]

StageInv(r) ==
    /\ phase[r] \in {"idle", "ready", "error"} =>
          job[r] = NoJob /\ \A s \in Sources : ~Outdated(r, s)
    /\ phase[r] = "aborted" => DeletesOnlyOutdated(r)
    /\ phase[r] = "removing" => RemovalInv(r)
    /\ phase[r] = "replacing" => ReplacementInv(r)
    /\ phase[r] = "loading" => LoadInv(r)

RetryInv(r) == attempt[r] = 2 => phase[r] \in {"loading", "ready", "idle", "aborted"}

SerialInv ==
    /\ VerdictSound
    /\ \A r \in Reloads : /\ filtered = FilteredIds(cfg[r])
                          /\ RetryInv(r)
                          /\ StageInv(r)

-----------------------------------------------------------------------------
TheReload == CHOOSE r \in Reloads : TRUE

Table == INSTANCE SourceTable
         WITH Ids <- Sources, Values <- Confs, Absent <- NoConf,
              want <- Want(cfg[TheReload]), table <- sources

\* The table of loaded sources implements the abstract one: entries appear only
\* as wanted, are never overwritten in place, and a wanted entry is never taken
\* away, by no interleaving of subtasks and no failure (_SOURCES).
ImplementsTable == Table!Spec
=============================================================================
