------------------------------- MODULE Registry -------------------------------
(***************************************************************************)
(* The source registry of one process (sources/registry.py): the table     *)
(* _SOURCES of loaded sources, the target directories they own, and the    *)
(* coroutines that work on both.                                           *)
(*                                                                         *)
(* A reload is one run of _handle_master_config.  It is started by init,   *)
(* by the inotify watcher, by a refresh of the master source or by a       *)
(* slave_fetch event; nothing serialises these, so Reloads is a set.  A    *)
(* refresher is one coroutine of registry.refresh, of the watch loop or of *)
(* _slave_fetch working on a source that is not the master.                *)
(*                                                                         *)
(* asyncio interleaves coroutines at awaits that suspend and nowhere else. *)
(* Each action is the code between two such awaits.                        *)
(***************************************************************************)
EXTENDS FiniteSets, Integers

CONSTANTS
    Sources,          \* ids of the sources
    Confs,            \* source configurations
    Admitted,         \* the configurations that carry the tag of tag_filter
    NoConf,           \* absent: not configured, not loaded, no directory
    MasterConfigs,    \* the well-formed master configurations
    BadConfig,        \* a master configuration that raises before any change
    Reloads,          \* coroutines running _handle_master_config
    Watchers,         \* those of them that are the inotify task
    Refreshers,       \* coroutines refreshing or fetching one source
    Concurrency,      \* settings.slave.init_sources_concurrency
    Fetches,          \* TRUE: not mode.is_master(), contents come by fetch()
    LoadsMayFail,     \* TRUE: a remote, or a clash on a directory, may fail a load
    PublishWhenBusy   \* TRUE: the master config may change during a reload

OptConfs == Confs \cup {NoConf}

ASSUME ConstantsAssumption ==
    /\ NoConf \notin Confs
    /\ Admitted \subseteq Confs
    /\ MasterConfigs \subseteq [Sources -> OptConfs]
    /\ BadConfig \notin MasterConfigs
    /\ Concurrency \in Nat \ {0}
    /\ Watchers \subseteq Reloads
    /\ {Fetches, LoadsMayFail, PublishWhenBusy} \subseteq BOOLEAN

VARIABLES
    published,   \* the master configuration as it stands in its file
    notify,      \* a trigger (start, inotify event, webhook) not yet served
    sources,     \* _SOURCES
    filtered,    \* the ids in FILTERED_SOURCES
    target,      \* the content of each target directory; NoConf: none, or torn
    status,      \* the status file
    phase,       \* where each reload is suspended
    cfg,         \* the master configuration each reload works on
    attempt,     \* first or second _do_handle_master_config
    toReload,    \* its local of that name
    job,         \* the subtask of each reload on each source
    refresh      \* what each refresher holds: stage, source, configuration

vars == <<published, notify, sources, filtered, target, status,
          phase, cfg, attempt, toReload, job, refresh>>

Phases == {"idle", "removing", "replacing", "loading", "ready", "error", "aborted"}
Jobs   == {"none", "delete", "deleting", "deleted",
           "queued", "loading", "written", "loaded", "failed"}
Idle   == [stage |-> "idle", src |-> NoConf, conf |-> NoConf]

-----------------------------------------------------------------------------
(* What a reload computes from a master configuration c and a table t.     *)
(* A definition commented "mutant" is a bug that the definition after it   *)
(* could have had; no specification uses it.                               *)

\* _filter_sources: the sources to load, and the ids it leaves out.
WantUnfiltered(c) == c                                              \* mutant
Want(c) == [s \in Sources |-> IF c[s] \in Admitted THEN c[s] ELSE NoConf]
FilteredConfs(c) == {c[s] : s \in Sources} \ Admitted                 \* mutant
FilteredIds(c) == {s \in Sources : c[s] \notin Admitted \cup {NoConf}}

RemovedAll(c, t) == {s \in Sources : t[s] # NoConf}                  \* mutant
Removed(c, t) == {s \in Sources : t[s] # NoConf /\ Want(c)[s] = NoConf}

OnlyNew(c, t) == {s \in Sources : Want(c)[s] # NoConf /\ t[s] = NoConf}  \* mutant
ToReload(c, t) == {s \in Sources : Want(c)[s] # NoConf /\ t[s] # Want(c)[s]}

NoneChanged(c, t) == {}                                             \* mutant
Changed(c, t) == {s \in ToReload(c, t) : t[s] # NoConf}

-----------------------------------------------------------------------------
NothingHandled == [s \in Sources |-> NoConf]
NoJob == [s \in Sources |-> "none"]

Init ==
    /\ published \in MasterConfigs
    /\ notify = TRUE
    /\ sources = NothingHandled
    /\ filtered = {}
    /\ target = NothingHandled
    /\ status = "LOADING"
    /\ phase = [r \in Reloads |-> "idle"]
    /\ cfg = [r \in Reloads |-> NothingHandled]
    /\ attempt = [r \in Reloads |-> 1]
    /\ toReload = [r \in Reloads |-> {}]
    /\ job = [r \in Reloads |-> NoJob]
    /\ refresh = [f \in Refreshers |-> Idle]

\* Someone writes or pushes another master configuration.
Publish ==
    /\ PublishWhenBusy \/ \A r \in Reloads : phase[r] \in {"idle", "aborted"}
    /\ published' \in (MasterConfigs \cup {BadConfig}) \ {published}
    /\ notify' = TRUE
    /\ UNCHANGED <<sources, filtered, target, status,
                   phase, cfg, attempt, toReload, job, refresh>>

-----------------------------------------------------------------------------
(* The reload coroutine.                                                   *)

Enter(r, p, S, j) ==
    /\ phase' = [phase EXCEPT ![r] = p]
    /\ job' = [job EXCEPT ![r] = [s \in Sources |-> IF s \in S THEN j ELSE "none"]]

\* An empty gather() does not suspend: the reload goes on to the next stage.
StartLoads(r, S) ==
    IF S = {} THEN Enter(r, "ready", {}, "none") ELSE Enter(r, "loading", S, "queued")

StartPlan(r, c) ==
    /\ toReload' = [toReload EXCEPT ![r] = ToReload(c, sources)]
    /\ IF Changed(c, sources) = {}
       THEN StartLoads(r, ToReload(c, sources))
       ELSE Enter(r, "replacing", Changed(c, sources), "delete")

DoHandleMasterConfig(r, c) ==
    /\ filtered' = FilteredIds(c)
    /\ IF Removed(c, sources) = {}
       THEN StartPlan(r, c)
       ELSE Enter(r, "removing", Removed(c, sources), "delete") /\ UNCHANGED toReload

\* A webhook and a slave_fetch event bring a coroutine of their own: an aborted run
\* leaves a place for the next.  The inotify task is one coroutine for all changes
\* of the file, and an exception ends it for good.
Free(r) ==
    /\ phase[r] = "idle" \/ (phase[r] = "aborted" /\ r \notin Watchers)
    /\ job[r] = NoJob

BeginReload(r) ==
    /\ Free(r)
    /\ published # BadConfig
    /\ notify' = FALSE
    /\ cfg' = [cfg EXCEPT ![r] = published]
    /\ attempt' = [attempt EXCEPT ![r] = 1]
    /\ DoHandleMasterConfig(r, published)
    /\ UNCHANGED <<published, sources, target, status, refresh>>

\* Unreadable YAML, no sources section, or a source named master: an exception.
RejectConfig(r) ==
    /\ Free(r)
    /\ published = BadConfig
    /\ notify
    /\ notify' = FALSE
    /\ phase' = IF r \in Watchers THEN [phase EXCEPT ![r] = "aborted"] ELSE phase
    /\ UNCHANGED <<published, sources, filtered, target, status,
                   cfg, attempt, toReload, job, refresh>>

FinishRemovals(r) ==
    /\ phase[r] = "removing"
    /\ job[r] = NoJob
    /\ StartPlan(r, cfg[r])
    /\ UNCHANGED <<published, notify, sources, filtered, target, status,
                   cfg, attempt, refresh>>

FinishReplacements(r) ==
    /\ phase[r] = "replacing"
    /\ job[r] = NoJob
    /\ StartLoads(r, toReload[r])
    /\ UNCHANGED <<published, notify, sources, filtered, target, status,
                   cfg, attempt, toReload, refresh>>

\* The results are counted; only a mixed first attempt is tried again, and the
\* outcome of a second attempt is not looked at.
RetriesAnyError(r, errors, success) == errors                       \* mutant
Retries(r, errors, success) == attempt[r] = 1 /\ errors /\ success

FinishLoads(r) ==
    /\ phase[r] = "loading"
    /\ \A s \in Sources : job[r][s] \in {"none", "loaded", "failed"}
    /\ LET errors  == \E s \in Sources : job[r][s] = "failed"
           success == \E s \in Sources : job[r][s] = "loaded"
       IN  IF Retries(r, errors, success)
           THEN /\ attempt' = [attempt EXCEPT ![r] = 2]
                /\ DoHandleMasterConfig(r, cfg[r])
           ELSE /\ Enter(r, IF attempt[r] = 1 /\ errors THEN "error" ELSE "ready",
                         {}, "none")
                /\ UNCHANGED <<filtered, attempt, toReload>>
    /\ UNCHANGED <<published, notify, sources, target, status, cfg, refresh>>

WriteFlag(r) ==
    /\ phase[r] \in {"ready", "error"}
    /\ status' = IF phase[r] = "ready" THEN "READY" ELSE "ERROR"
    /\ phase' = [phase EXCEPT ![r] = "idle"]
    /\ UNCHANGED <<published, notify, sources, filtered, target,
                   cfg, attempt, toReload, job, refresh>>

-----------------------------------------------------------------------------
(* Its subtasks: _delete_source and load_source, gathered per source.      *)

SetJob(r, s, j) == job' = [job EXCEPT ![r][s] = j]
Loading(r) == {s \in Sources : job[r][s] \in {"loading", "written"}}

\* The first exception of a gather() ends the reload; the other subtasks of
\* that gather() go on, with nobody waiting for them.
AbortReload(r, s) ==
    /\ phase' = [phase EXCEPT ![r] = "aborted"]
    /\ SetJob(r, s, "none")

\* The tasks of one gather() start in one iteration of the loop, one after the
\* other: each looks its source up, and a KeyError of one does not stop the rest.
StartDeletes(r) ==
    /\ \E s \in Sources : job[r][s] = "delete"
    /\ job' = [job EXCEPT ![r] = [s \in Sources |->
                 CASE job[r][s] # "delete" -> job[r][s]
                   [] job[r][s] = "delete" /\ sources[s] # NoConf -> "deleting"
                   [] job[r][s] = "delete" /\ sources[s] = NoConf -> "none"]]
    /\ phase' = IF \E s \in Sources : job[r][s] = "delete" /\ sources[s] = NoConf
                THEN [phase EXCEPT ![r] = "aborted"]
                ELSE phase
    /\ UNCHANGED <<published, notify, sources, filtered, target, status,
                   cfg, attempt, toReload, refresh>>

DeleteDirForgotten(r, s) ==                                         \* mutant
    /\ job[r][s] = "deleting"
    /\ SetJob(r, s, "deleted")
    /\ UNCHANGED <<published, notify, sources, filtered, target, status,
                   phase, cfg, attempt, toReload, refresh>>

\* With an ssh_key, its key file is removed between the directory and the entry.
DeleteDir(r, s) ==
    /\ job[r][s] = "deleting"
    /\ target' = [target EXCEPT ![s] = NoConf]
    /\ SetJob(r, s, "deleted")
    /\ UNCHANGED <<published, notify, sources, filtered, status,
                   phase, cfg, attempt, toReload, refresh>>

\* rmtree meets files that another coroutine is writing in that directory, and
\* leaves it as it was or half removed.
DeleteFail(r, s) ==
    /\ job[r][s] = "deleting"
    /\ \/ \E f \in Refreshers : refresh[f].src = s
       \/ \E q \in Reloads \ {r} : s \in Loading(q)
    /\ target' \in {target, [target EXCEPT ![s] = NoConf]}
    /\ AbortReload(r, s)
    /\ UNCHANGED <<published, notify, sources, filtered, status,
                   cfg, attempt, toReload, refresh>>

DeleteEntryForgotten(r, s) ==                                       \* mutant
    /\ job[r][s] = "deleted"
    /\ SetJob(r, s, "none")
    /\ UNCHANGED <<published, notify, sources, filtered, target, status,
                   phase, cfg, attempt, toReload, refresh>>

DeleteEntry(r, s) ==
    /\ job[r][s] = "deleted"
    /\ IF sources[s] = NoConf
       THEN AbortReload(r, s) /\ UNCHANGED sources  \* KeyError
       ELSE /\ sources' = [sources EXCEPT ![s] = NoConf]
            /\ SetJob(r, s, "none")
            /\ UNCHANGED phase
    /\ UNCHANGED <<published, notify, filtered, target, status,
                   cfg, attempt, toReload, refresh>>

LoadStart(r, s) ==
    /\ job[r][s] = "queued"
    /\ Cardinality(Loading(r)) < Concurrency
    /\ SetJob(r, s, "loading")
    /\ UNCHANGED <<published, notify, sources, filtered, target, status,
                   phase, cfg, attempt, toReload, refresh>>

LoadWrite(r, s) ==
    /\ job[r][s] = "loading"
    /\ target' = [target EXCEPT ![s] = cfg[r][s]]
    /\ SetJob(r, s, "written")
    /\ UNCHANGED <<published, notify, sources, filtered, status,
                   phase, cfg, attempt, toReload, refresh>>

LoadDone(r, s) ==
    /\ job[r][s] = "written"
    /\ sources' = [sources EXCEPT ![s] = cfg[r][s]]
    /\ SetJob(r, s, "loaded")
    /\ UNCHANGED <<published, notify, filtered, target, status,
                   phase, cfg, attempt, toReload, refresh>>

\* A failed fetch may have removed the directory already.
LoadFail(r, s) ==
    /\ LoadsMayFail
    /\ job[r][s] \in {"loading", "written"}
    /\ \/ UNCHANGED target
       \/ Fetches /\ target' = [target EXCEPT ![s] = NoConf]
    /\ SetJob(r, s, "failed")
    /\ UNCHANGED <<published, notify, sources, filtered, status,
                   phase, cfg, attempt, toReload, refresh>>

-----------------------------------------------------------------------------
(* A refresh or fetch of one loaded source.  The coroutine keeps the source *)
(* object it looked up, whatever happens to the table meanwhile.            *)

RefreshStart(f, s) ==
    /\ refresh[f] = Idle
    /\ sources[s] # NoConf
    /\ refresh' = [refresh EXCEPT ![f] =
                     [stage |-> "started", src |-> s, conf |-> sources[s]]]
    /\ UNCHANGED <<published, notify, sources, filtered, target, status,
                   phase, cfg, attempt, toReload, job>>

\* _do_fetch removes the directory before it extracts the tarball.
RefreshClear(f) ==
    /\ Fetches
    /\ refresh[f].stage = "started"
    /\ target' = [target EXCEPT ![refresh[f].src] = NoConf]
    /\ refresh' = [refresh EXCEPT ![f].stage = "cleared"]
    /\ UNCHANGED <<published, notify, sources, filtered, status,
                   phase, cfg, attempt, toReload, job>>

RefreshWrite(f) ==
    /\ refresh[f].stage = IF Fetches THEN "cleared" ELSE "started"
    /\ target' = [target EXCEPT ![refresh[f].src] = refresh[f].conf]
    /\ refresh' = [refresh EXCEPT ![f] = Idle]
    /\ UNCHANGED <<published, notify, sources, filtered, status,
                   phase, cfg, attempt, toReload, job>>

\* A fetch that fails once the directory is cleared leaves it so.
RefreshFail(f) ==
    /\ refresh[f].stage # "idle"
    /\ refresh' = [refresh EXCEPT ![f] = Idle]
    /\ UNCHANGED <<published, notify, sources, filtered, target, status,
                   phase, cfg, attempt, toReload, job>>

-----------------------------------------------------------------------------
ReloadStep(r) == StartDeletes(r) \/ FinishRemovals(r) \/ FinishReplacements(r)
                 \/ FinishLoads(r) \/ WriteFlag(r)
DeleteStep(r, s) == DeleteDir(r, s) \/ DeleteFail(r, s) \/ DeleteEntry(r, s)
LoadStep(r, s) == LoadStart(r, s) \/ LoadWrite(r, s) \/ LoadDone(r, s) \/ LoadFail(r, s)
RefreshStep(f) == RefreshClear(f) \/ RefreshWrite(f) \/ RefreshFail(f)

Next ==
    \/ Publish
    \/ \E r \in Reloads : BeginReload(r) \/ RejectConfig(r) \/ ReloadStep(r)
    \/ \E r \in Reloads, s \in Sources : DeleteStep(r, s) \/ LoadStep(r, s)
    \/ \E f \in Refreshers, s \in Sources : RefreshStart(f, s)
    \/ \E f \in Refreshers : RefreshStep(f)

\* The event loop runs every coroutine that can run, every subprocess and every
\* transfer ends (a fetch has a timeout), and a pending trigger is served.
Fairness ==
    /\ \A r \in Reloads : /\ WF_vars(notify /\ BeginReload(r))
                          /\ WF_vars(RejectConfig(r))
                          /\ WF_vars(ReloadStep(r))
    /\ \A r \in Reloads, s \in Sources : WF_vars(DeleteStep(r, s)) /\ WF_vars(LoadStep(r, s))
    /\ \A f \in Refreshers : WF_vars(RefreshStep(f))

Spec == Init /\ [][Next]_vars
FairSpec == Spec /\ Fairness

-----------------------------------------------------------------------------
TypeOK ==
    /\ published \in MasterConfigs \cup {BadConfig}
    /\ notify \in BOOLEAN
    /\ sources \in [Sources -> OptConfs]
    /\ filtered \subseteq Sources
    /\ target \in [Sources -> OptConfs]
    /\ status \in {"LOADING", "READY", "ERROR"}
    /\ phase \in [Reloads -> Phases]
    /\ cfg \in [Reloads -> [Sources -> OptConfs]]
    /\ attempt \in [Reloads -> {1, 2}]
    /\ toReload \in [Reloads -> SUBSET Sources]
    /\ job \in [Reloads -> [Sources -> Jobs]]
    /\ refresh \in [Refreshers -> {Idle} \cup
                       [stage : {"started", "cleared"}, src : Sources, conf : Confs]]

\* Nothing runs, nothing was aborted, and every trigger has been served.
Settled ==
    /\ ~notify
    /\ \A r \in Reloads : phase[r] = "idle"
    /\ \A f \in Refreshers : refresh[f] = Idle

\* A reload comes to an end whatever fails in it and whatever else runs: no
\* gather waits for a subtask that never ends, and the one retry is the last
\* (_handle_master_config).
ReloadEnds == \A r \in Reloads : phase[r] # "idle" ~> phase[r] \in {"idle", "aborted"}

\* Once the registry has served every trigger and no reload was aborted, the table
\* is the one the master configuration asks for: what the acceptance tests wait
\* for after each change (_do_handle_master_config).
SettledMatchesPublished == Settled /\ published # BadConfig => sources = Want(published)

\* The same when a reload may have been aborted by a KeyError of _delete_source,
\* but nothing is left running.
QuiescentMatchesPublished ==
    /\ ~notify
    /\ published # BadConfig
    /\ \A r \in Reloads : Free(r)
    => sources = Want(published)

\* Once the registry has served every trigger, a source that is not in the table
\* has no directory: what the acceptance tests assert after they removed one
\* (_delete_source against registry.refresh).
RemovedSourceHasNoDir ==
    Settled => \A s \in Sources : sources[s] = NoConf => target[s] = NoConf
=============================================================================
