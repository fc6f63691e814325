---------------------------- MODULE RegistryProofs ----------------------------
(***************************************************************************)
(* The registry with any sources, configurations, reloads and refreshers:  *)
(* the types, and the table that overlapping reloads leave when none of    *)
(* them was aborted.                                                       *)
(***************************************************************************)
EXTENDS Registry, TLAPS

\* What _filter_sources returns is a table of source configurations, and the ids
\* it leaves out are ids of sources (_filter_sources).
LEMMA WantType ==
    ASSUME NEW c \in [Sources -> OptConfs]
    PROVE  /\ Want(c) \in [Sources -> OptConfs]
           /\ \A s \in Sources : Want(c)[s] \in {c[s], NoConf}
           /\ FilteredIds(c) \subseteq Sources
  BY DEF Want, FilteredIds, OptConfs

\* Entering a stage gives the subtasks of that stage and no others
\* (the gather() calls of _do_handle_master_config).
LEMMA EnterType ==
    ASSUME TypeOK, NEW r \in Reloads, NEW p \in Phases, NEW S, NEW j \in Jobs,
           Enter(r, p, S, j)
    PROVE  /\ phase' \in [Reloads -> Phases]
           /\ job' \in [Reloads -> [Sources -> Jobs]]
  BY DEF Enter, TypeOK, Jobs

\* A reload that starts its loads, or has none to start, stays well typed
\* (the gather() of load_source).
LEMMA StartLoadsType ==
    ASSUME TypeOK, NEW r \in Reloads, NEW S, StartLoads(r, S)
    PROVE  /\ phase' \in [Reloads -> Phases]
           /\ job' \in [Reloads -> [Sources -> Jobs]]
  BY EnterType DEF StartLoads, Phases, Jobs

\* So does one that plans what to load and replaces what has changed
\* (_do_handle_master_config, from the computation of to_reload on).
LEMMA StartPlanType ==
    ASSUME TypeOK, NEW r \in Reloads, NEW c, StartPlan(r, c)
    PROVE  /\ phase' \in [Reloads -> Phases]
           /\ job' \in [Reloads -> [Sources -> Jobs]]
           /\ toReload' \in [Reloads -> SUBSET Sources]
  <1>1. toReload' \in [Reloads -> SUBSET Sources]
    BY DEF StartPlan, ToReload, TypeOK
  <1>2. CASE Changed(c, sources) = {}
    BY <1>1, <1>2, StartLoadsType DEF StartPlan
  <1>3. CASE Changed(c, sources) # {}
    BY <1>1, <1>3, EnterType DEF StartPlan, Phases, Jobs
  <1> QED
    BY <1>2, <1>3

\* So does one that starts an attempt (_do_handle_master_config).
LEMMA DoHandleType ==
    ASSUME TypeOK, NEW r \in Reloads, NEW c \in [Sources -> OptConfs],
           DoHandleMasterConfig(r, c)
    PROVE  /\ phase' \in [Reloads -> Phases]
           /\ job' \in [Reloads -> [Sources -> Jobs]]
           /\ toReload' \in [Reloads -> SUBSET Sources]
           /\ filtered' \subseteq Sources
  <1>1. filtered' \subseteq Sources
    BY WantType DEF DoHandleMasterConfig
  <1>2. CASE Removed(c, sources) = {}
    BY <1>1, <1>2, StartPlanType DEF DoHandleMasterConfig
  <1>3. CASE Removed(c, sources) # {}
    <2>1. Enter(r, "removing", Removed(c, sources), "delete") /\ UNCHANGED toReload
      BY <1>3 DEF DoHandleMasterConfig
    <2> QED
      BY <1>1, <2>1, EnterType DEF Phases, Jobs, TypeOK
  <1> QED
    BY <1>2, <1>3

\* Moving one subtask on keeps the table of subtasks well typed.
LEMMA SetJobType ==
    ASSUME TypeOK, NEW r \in Reloads, NEW s \in Sources, NEW j \in Jobs, SetJob(r, s, j)
    PROVE  job' \in [Reloads -> [Sources -> Jobs]]
  BY DEF SetJob, TypeOK

\* A subtask that raises keeps it so, and aborts its reload (_delete_source).
LEMMA AbortType ==
    ASSUME TypeOK, NEW r \in Reloads, NEW s \in Sources, AbortReload(r, s)
    PROVE  /\ phase' \in [Reloads -> Phases]
           /\ job' \in [Reloads -> [Sources -> Jobs]]
  BY DEF AbortReload, SetJob, TypeOK, Phases, Jobs

-----------------------------------------------------------------------------
(* One lemma per coroutine: its steps preserve TypeOK.                     *)

\* The steps of the reload coroutine keep every type (_handle_master_config).
LEMMA ReloadStepType ==
    ASSUME TypeOK, NEW r \in Reloads, BeginReload(r) \/ RejectConfig(r) \/ ReloadStep(r)
    PROVE  TypeOK'
  <1>1. CASE BeginReload(r)
    <2>1. published \in [Sources -> OptConfs]
      BY <1>1, ConstantsAssumption DEF BeginReload, TypeOK
    <2>2. DoHandleMasterConfig(r, published)
      BY <1>1 DEF BeginReload
    <2> QED
      BY <1>1, <2>1, <2>2, DoHandleType DEF BeginReload, TypeOK
  <1>2. CASE RejectConfig(r)
    <2>1. phase' \in [Reloads -> Phases]
      BY <1>2 DEF RejectConfig, TypeOK, Phases
    <2> QED
      BY <1>2, <2>1 DEF RejectConfig, TypeOK
  <1>3. CASE StartDeletes(r)
    BY <1>3 DEF StartDeletes, TypeOK, Jobs, Phases
  <1>4. CASE FinishRemovals(r)
    BY <1>4, StartPlanType DEF FinishRemovals, TypeOK
  <1>5. CASE FinishReplacements(r)
    BY <1>5, StartLoadsType DEF FinishReplacements, TypeOK
  <1>6. CASE FinishLoads(r)
    <2> DEFINE errors  == \E s \in Sources : job[r][s] = "failed"
               success == \E s \in Sources : job[r][s] = "loaded"
    <2>1. CASE Retries(r, errors, success)
      <3>1. /\ attempt' = [attempt EXCEPT ![r] = 2]
            /\ DoHandleMasterConfig(r, cfg[r])
            /\ UNCHANGED <<published, notify, sources, target, status, cfg, refresh>>
        BY <1>6, <2>1 DEF FinishLoads
      <3>2. cfg[r] \in [Sources -> OptConfs]
        BY DEF TypeOK
      <3> QED
        BY <3>1, <3>2, DoHandleType DEF TypeOK
    <2>2. CASE ~Retries(r, errors, success)
      <3>1. PICK p \in {"ready", "error"} : Enter(r, p, {}, "none")
        BY <1>6, <2>2 DEF FinishLoads
      <3>2. UNCHANGED <<filtered, attempt, toReload, published, notify, sources,
                        target, status, cfg, refresh>>
        BY <1>6, <2>2 DEF FinishLoads
      <3> QED
        BY <3>1, <3>2, EnterType DEF TypeOK, Phases, Jobs
    <2> QED
      BY <2>1, <2>2
  <1>7. CASE WriteFlag(r)
    BY <1>7 DEF WriteFlag, TypeOK, Phases
  <1> QED
    BY <1>1, <1>2, <1>3, <1>4, <1>5, <1>6, <1>7 DEF ReloadStep

\* The steps of its subtasks do (_delete_source, load_source).
LEMMA SubtaskStepType ==
    ASSUME TypeOK, NEW r \in Reloads, NEW s \in Sources, DeleteStep(r, s) \/ LoadStep(r, s)
    PROVE  TypeOK'
  <1> USE DEF SetJob, Jobs
  <1>1. CASE DeleteDir(r, s)
    BY <1>1 DEF DeleteDir, TypeOK, OptConfs
  <1>2. CASE DeleteFail(r, s)
    BY <1>2, AbortType DEF DeleteFail, TypeOK, OptConfs
  <1>3. CASE DeleteEntry(r, s)
    <2>1. CASE sources[s] = NoConf
      BY <1>3, <2>1, AbortType DEF DeleteEntry, TypeOK
    <2>2. CASE sources[s] # NoConf
      <3>1. sources' \in [Sources -> OptConfs]
        BY <1>3, <2>2 DEF DeleteEntry, TypeOK, OptConfs
      <3>2. job' \in [Reloads -> [Sources -> Jobs]]
        BY <1>3, <2>2, SetJobType DEF DeleteEntry
      <3> QED
        BY <1>3, <2>2, <3>1, <3>2 DEF DeleteEntry, TypeOK
    <2> QED
      BY <2>1, <2>2
  <1>4. CASE LoadStart(r, s)
    BY <1>4 DEF LoadStart, TypeOK
  <1>5. CASE LoadWrite(r, s)
    BY <1>5 DEF LoadWrite, TypeOK
  <1>6. CASE LoadDone(r, s)
    BY <1>6 DEF LoadDone, TypeOK
  <1>7. CASE LoadFail(r, s)
    BY <1>7 DEF LoadFail, TypeOK, OptConfs
  <1> QED
    BY <1>1, <1>2, <1>3, <1>4, <1>5, <1>6, <1>7 DEF DeleteStep, LoadStep

\* The steps of the refreshers do (BaseSource.refresh, BaseSource.fetch).
LEMMA RefreshStepType ==
    ASSUME TypeOK, NEW f \in Refreshers,
           RefreshStep(f) \/ \E s \in Sources : RefreshStart(f, s)
    PROVE  TypeOK'
  <1> DEFINE Busy == [stage : {"started", "cleared"}, src : Sources, conf : Confs]
  <1>1. CASE \E s \in Sources : RefreshStart(f, s)
    BY <1>1 DEF RefreshStart, TypeOK, OptConfs
  <1>2. CASE RefreshClear(f)
    <2>1. refresh[f] \in Busy
      BY <1>2 DEF RefreshClear, TypeOK, Idle
    <2>2. [refresh[f] EXCEPT !.stage = "cleared"] \in Busy
      BY <2>1
    <2> QED
      BY <1>2, <2>1, <2>2 DEF RefreshClear, TypeOK, OptConfs
  <1>3. CASE RefreshWrite(f)
    <2>1. refresh[f] \in Busy
      BY <1>3 DEF RefreshWrite, TypeOK, Idle
    <2> QED
      BY <1>3, <2>1 DEF RefreshWrite, TypeOK, OptConfs
  <1>4. CASE RefreshFail(f)
    BY <1>4 DEF RefreshFail, TypeOK
  <1> QED
    BY <1>1, <1>2, <1>3, <1>4 DEF RefreshStep

\* The registry's state has the types the code gives it, whatever overlaps.
THEOREM TypeCorrect == Spec => []TypeOK
  <1>1. Init => TypeOK
    BY ConstantsAssumption
    DEF Init, TypeOK, NothingHandled, NoJob, OptConfs, Phases, Jobs
  <1>2. TypeOK /\ [Next]_vars => TypeOK'
    <2> SUFFICES ASSUME TypeOK, [Next]_vars PROVE TypeOK'
      OBVIOUS
    <2>1. CASE Publish
      BY <2>1 DEF Publish, TypeOK
    <2>2. CASE \E r \in Reloads : BeginReload(r) \/ RejectConfig(r) \/ ReloadStep(r)
      BY <2>2, ReloadStepType
    <2>3. CASE \E r \in Reloads, s \in Sources : DeleteStep(r, s) \/ LoadStep(r, s)
      BY <2>3, SubtaskStepType
    <2>4. CASE \E f \in Refreshers, s \in Sources : RefreshStart(f, s)
      BY <2>4, RefreshStepType
    <2>5. CASE \E f \in Refreshers : RefreshStep(f)
      BY <2>5, RefreshStepType
    <2>6. CASE UNCHANGED vars
      BY <2>6 DEF vars, TypeOK
    <2> QED
      BY <2>1, <2>2, <2>3, <2>4, <2>5, <2>6 DEF Next
  <1> QED
    BY <1>1, <1>2, PTL DEF Spec

-----------------------------------------------------------------------------
(***************************************************************************)
(* Overlapping reloads.  Whatever they do to each other's entries, as long *)
(* as none has been aborted, each entry that is not as published has a     *)
(* reload in charge of it.                                                 *)
(***************************************************************************)

\* The configuration changes between reloads, and loads succeed.
QuietPublications == ~PublishWhenBusy
LoadsSucceed      == ~LoadsMayFail

AtWork(r)    == phase[r] \in {"removing", "replacing", "loading", "ready", "error"}
DeletePoints == {"delete", "deleting", "deleted"}
LoadPoints   == {"queued", "loading", "written"}

\* Each stage has subtasks of its kind, on sources that it is about.
JobsFit(r) ==
    /\ phase[r] \in {"idle", "ready", "error"} => \A s \in Sources : job[r][s] = "none"
    /\ phase[r] \in {"aborted", "removing", "replacing"} =>
          \A s \in Sources : job[r][s] \in DeletePoints \cup {"none"}
    /\ phase[r] = "removing" =>
          \A s \in Sources : job[r][s] # "none" => Want(cfg[r])[s] = NoConf
    /\ phase[r] = "replacing" =>
          /\ \A s \in Sources : job[r][s] # "none" => s \in toReload[r]
          /\ \A s \in toReload[r] : Want(cfg[r])[s] # NoConf
    /\ phase[r] = "loading" =>
          \A s \in Sources : job[r][s] # "none" => /\ job[r][s] \in LoadPoints \cup {"loaded"}
                                                   /\ Want(cfg[r])[s] # NoConf

\* Reload r is going to make the entry of s right.
InCharge(r, s) ==
    \/ phase[r] = "removing" /\ (Want(published)[s] # NoConf \/ job[r][s] # "none")
    \/ phase[r] = "replacing" /\ s \in toReload[r]
    \/ phase[r] = "loading" /\ job[r][s] \in LoadPoints

Attended ==
    ~notify /\ published # BadConfig /\ (\A r \in Reloads : phase[r] # "aborted") =>
        \A s \in Sources : sources[s] # Want(published)[s] => \E r \in Reloads : InCharge(r, s)

OverlapInv ==
    /\ \A r \in Reloads : AtWork(r) => cfg[r] = published
    /\ \A r \in Reloads : JobsFit(r)
    /\ Attended

\* What a step of reload r leaves of the others.
Apart(r) ==
    \A q \in Reloads \ {r} : /\ phase'[q] = phase[q] /\ job'[q] = job[q]
                             /\ toReload'[q] = toReload[q] /\ cfg'[q] = cfg[q]

\* The other reloads are where they were.
LEMMA OthersKeep ==
    ASSUME NEW r \in Reloads, NEW q \in Reloads \ {r}, Apart(r)
    PROVE  /\ JobsFit(q) => JobsFit(q)'
           /\ AtWork(q)' <=> AtWork(q)
           /\ published' = published => \A s \in Sources : InCharge(q, s)' <=> InCharge(q, s)
  <1>1. /\ phase'[q] = phase[q] /\ job'[q] = job[q]
        /\ toReload'[q] = toReload[q] /\ cfg'[q] = cfg[q]
    BY DEF Apart
  <1>2. JobsFit(q) => JobsFit(q)'
    BY <1>1 DEF JobsFit
  <1>3. AtWork(q)' <=> AtWork(q)
    BY <1>1 DEF AtWork
  <1>4. published' = published => \A s \in Sources : InCharge(q, s)' <=> InCharge(q, s)
    BY <1>1 DEF InCharge
  <1> QED
    BY <1>2, <1>3, <1>4

\* A stage with subtasks on S.
LEMMA EnterStage ==
    ASSUME TypeOK, NEW r \in Reloads, NEW p, NEW S, NEW j, Enter(r, p, S, j)
    PROVE  /\ phase'[r] = p
           /\ \A s \in Sources : job'[r][s] = IF s \in S THEN j ELSE "none"
           /\ \A q \in Reloads \ {r} : phase'[q] = phase[q] /\ job'[q] = job[q]
  BY DEF Enter, TypeOK

\* A reload that starts its loads is in charge of what it loads.
LEMMA StartLoadsCharge ==
    ASSUME TypeOK, NEW r \in Reloads, NEW S \in SUBSET Sources, StartLoads(r, S),
           \A s \in S : Want(cfg'[r])[s] # NoConf
    PROVE  /\ JobsFit(r)' /\ AtWork(r)' /\ \A s \in S : InCharge(r, s)'
           /\ \A q \in Reloads \ {r} : phase'[q] = phase[q] /\ job'[q] = job[q]
  <1>1. CASE S = {}
    <2>1. Enter(r, "ready", {}, "none")
      BY <1>1 DEF StartLoads
    <2>2. /\ phase'[r] = "ready" /\ \A s \in Sources : job'[r][s] = "none"
          /\ \A q \in Reloads \ {r} : phase'[q] = phase[q] /\ job'[q] = job[q]
      BY <2>1, EnterStage
    <2> QED
      BY <1>1, <2>2 DEF JobsFit, AtWork
  <1>2. CASE S # {}
    <2>1. Enter(r, "loading", S, "queued")
      BY <1>2 DEF StartLoads
    <2>2. /\ phase'[r] = "loading"
          /\ \A s \in Sources : job'[r][s] = IF s \in S THEN "queued" ELSE "none"
          /\ \A q \in Reloads \ {r} : phase'[q] = phase[q] /\ job'[q] = job[q]
      BY <2>1, EnterStage
    <2> QED
      BY <2>2 DEF JobsFit, AtWork, InCharge, LoadPoints
  <1> QED
    BY <1>1, <1>2

\* One that plans is in charge of what it found wrong.
LEMMA StartPlanCharge ==
    ASSUME TypeOK, NEW r \in Reloads, NEW c, StartPlan(r, c), cfg'[r] = c,
           \A q \in Reloads \ {r} : cfg'[q] = cfg[q]
    PROVE  /\ JobsFit(r)' /\ AtWork(r)' /\ Apart(r)
           /\ \A s \in ToReload(c, sources) : InCharge(r, s)'
  <1>1. /\ toReload'[r] = ToReload(c, sources)
        /\ \A q \in Reloads \ {r} : toReload'[q] = toReload[q]
    BY DEF StartPlan, TypeOK
  <1>2. /\ ToReload(c, sources) \in SUBSET Sources
        /\ \A s \in ToReload(c, sources) : Want(cfg'[r])[s] # NoConf
    BY DEF ToReload
  <1>3. CASE Changed(c, sources) = {}
    <2>1. StartLoads(r, ToReload(c, sources))
      BY <1>3 DEF StartPlan
    <2> QED
      BY <1>1, <1>2, <2>1, StartLoadsCharge DEF Apart
  <1>4. CASE Changed(c, sources) # {}
    <2>1. Enter(r, "replacing", Changed(c, sources), "delete")
      BY <1>4 DEF StartPlan
    <2>2. /\ phase'[r] = "replacing"
          /\ \A s \in Sources : job'[r][s] = IF s \in Changed(c, sources) THEN "delete" ELSE "none"
          /\ \A q \in Reloads \ {r} : phase'[q] = phase[q] /\ job'[q] = job[q]
      BY <2>1, EnterStage
    <2>3. Changed(c, sources) \subseteq ToReload(c, sources)
      BY DEF Changed
    <2>4. JobsFit(r)'
      BY <1>1, <1>2, <2>2, <2>3 DEF JobsFit, DeletePoints
    <2> QED
      BY <1>1, <2>2, <2>4 DEF AtWork, InCharge, Apart
  <1> QED
    BY <1>3, <1>4

\* One that begins is in charge of everything that is not as it should be.
LEMMA BeginCharge ==
    ASSUME TypeOK, NEW r \in Reloads, NEW c \in [Sources -> OptConfs],
           DoHandleMasterConfig(r, c), cfg'[r] = c, published' = c,
           \A q \in Reloads \ {r} : cfg'[q] = cfg[q]
    PROVE  /\ JobsFit(r)' /\ AtWork(r)' /\ Apart(r)
           /\ \A s \in Sources : sources[s] # Want(c)[s] => InCharge(r, s)'
  <1>1. CASE Removed(c, sources) = {}
    <2>1. StartPlan(r, c)
      BY <1>1 DEF DoHandleMasterConfig
    <2>2. \A s \in Sources : sources[s] # Want(c)[s] => s \in ToReload(c, sources)
      BY <1>1 DEF Removed, ToReload
    <2> QED
      BY <2>1, <2>2, StartPlanCharge
  <1>2. CASE Removed(c, sources) # {}
    <2>1. Enter(r, "removing", Removed(c, sources), "delete") /\ UNCHANGED toReload
      BY <1>2 DEF DoHandleMasterConfig
    <2>2. /\ phase'[r] = "removing"
          /\ \A s \in Sources : job'[r][s] = IF s \in Removed(c, sources) THEN "delete" ELSE "none"
          /\ \A q \in Reloads \ {r} : phase'[q] = phase[q] /\ job'[q] = job[q]
      BY <2>1, EnterStage
    <2>3. \A s \in Sources : s \in Removed(c, sources) <=> sources[s] # NoConf /\ Want(c)[s] = NoConf
      BY DEF Removed
    <2>4. JobsFit(r)'
      BY <2>2, <2>3 DEF JobsFit, DeletePoints
    <2>5. \A s \in Sources : sources[s] # Want(c)[s] => InCharge(r, s)'
      BY <2>2, <2>3 DEF InCharge
    <2> QED
      BY <2>1, <2>2, <2>4, <2>5 DEF AtWork, Apart
  <1> QED
    BY <1>1, <1>2

\* A step of one reload keeps the invariant when it keeps its part of it.
LEMMA OneReloadSteps ==
    ASSUME OverlapInv, NEW r \in Reloads, Apart(r), published' = published,
           JobsFit(r)', AtWork(r)' => cfg'[r] = published, Attended'
    PROVE  OverlapInv'
  <1>1. \A q \in Reloads : JobsFit(q)'
    BY OthersKeep DEF OverlapInv
  <1>2. \A q \in Reloads : AtWork(q)' => cfg'[q] = published'
    <2> SUFFICES ASSUME NEW q \in Reloads \ {r}, AtWork(q)'
                 PROVE  cfg'[q] = published'
      OBVIOUS
    <2>1. AtWork(q) /\ cfg'[q] = cfg[q]
      BY OthersKeep DEF Apart
    <2> QED
      BY <2>1 DEF OverlapInv
  <1> QED
    BY <1>1, <1>2 DEF OverlapInv

\* Nothing is left unattended when the reload that moves is still in charge of
\* what it was, or has made it right, and of what it makes wrong.
LEMMA StillAttended ==
    ASSUME Attended, NEW r \in Reloads, Apart(r), UNCHANGED <<published, notify>>,
           phase[r] = "aborted" => phase'[r] = "aborted",
           \A s \in Sources : sources'[s] # Want(published)[s] =>
               sources[s] # Want(published)[s] \/ InCharge(r, s)',
           \A s \in Sources : InCharge(r, s) =>
               InCharge(r, s)' \/ sources'[s] = Want(published)[s]
    PROVE  Attended'
  <1> SUFFICES ASSUME ~notify, published # BadConfig, \A q \in Reloads : phase'[q] # "aborted",
                      NEW s \in Sources, sources'[s] # Want(published)[s]
               PROVE  \E q \in Reloads : InCharge(q, s)'
    BY DEF Attended, Want
  <1>1. \A q \in Reloads : phase[q] # "aborted"
    BY DEF Apart
  <1>2. CASE sources[s] # Want(published)[s]
    <2>1. PICK q \in Reloads : InCharge(q, s)
      BY <1>1, <1>2 DEF Attended
    <2>2. CASE q = r
      BY <2>1, <2>2
    <2>3. CASE q # r
      BY <2>1, <2>3, OthersKeep
    <2> QED
      BY <2>2, <2>3
  <1>3. CASE InCharge(r, s)'
    BY <1>3
  <1> QED
    BY <1>2, <1>3

\* An aborted reload excuses everything until it begins again.
LEMMA AbortedKeeps ==
    ASSUME OverlapInv, NEW r \in Reloads, Apart(r), published' = published,
           JobsFit(r)', phase'[r] = "aborted"
    PROVE  OverlapInv'
  <1>1. ~AtWork(r)'
    BY DEF AtWork
  <1>2. Attended'
    BY DEF Attended
  <1> QED
    BY <1>1, <1>2, OneReloadSteps

\* What a step leaves of the subtasks when it moves one of them on.
LEMMA OneJobMoves ==
    ASSUME TypeOK, NEW r \in Reloads, NEW s \in Sources, NEW j, SetJob(r, s, j)
    PROVE  /\ job'[r][s] = j
           /\ \A t \in Sources \ {s} : job'[r][t] = job[r][t]
           /\ \A q \in Reloads \ {r} : job'[q] = job[q]
  BY DEF SetJob, TypeOK

\* What an exception of one subtask changes.
LEMMA OneAborts ==
    ASSUME TypeOK, NEW r \in Reloads, NEW s \in Sources, AbortReload(r, s)
    PROVE  /\ phase'[r] = "aborted"
           /\ job'[r][s] = "none"
           /\ \A t \in Sources \ {s} : job'[r][t] = job[r][t]
           /\ \A q \in Reloads \ {r} : phase'[q] = phase[q] /\ job'[q] = job[q]
  <1>1. SetJob(r, s, "none") /\ phase' = [phase EXCEPT ![r] = "aborted"]
    BY DEF AbortReload
  <1> QED
    BY <1>1, OneJobMoves DEF TypeOK

\* A reload with a deletion under way is in a stage of deletions, or aborted.
LEMMA DeletionStages ==
    ASSUME TypeOK, NEW r \in Reloads, JobsFit(r), NEW s \in Sources, job[r][s] \in DeletePoints
    PROVE  phase[r] \in {"aborted", "removing", "replacing"}
  <1>1. phase[r] \in Phases
    BY DEF TypeOK
  <1> QED
    BY <1>1 DEF JobsFit, Phases, DeletePoints, LoadPoints

\* And one with a load under way is in the stage of loads.
LEMMA LoadStages ==
    ASSUME TypeOK, NEW r \in Reloads, JobsFit(r), NEW s \in Sources, job[r][s] \in LoadPoints
    PROVE  phase[r] = "loading"
  <1>1. phase[r] \in Phases
    BY DEF TypeOK
  <1> QED
    BY <1>1 DEF JobsFit, Phases, DeletePoints, LoadPoints

\* An exception of a deletion keeps the invariant (_delete_source).
LEMMA AbortKeeps ==
    ASSUME TypeOK, OverlapInv, NEW r \in Reloads, NEW s \in Sources, job[r][s] \in DeletePoints,
           AbortReload(r, s), UNCHANGED <<published, cfg, toReload>>
    PROVE  OverlapInv'
  <1>1. JobsFit(r)
    BY DEF OverlapInv
  <1>2. phase[r] \in {"aborted", "removing", "replacing"}
    BY <1>1, DeletionStages
  <1>3. /\ phase'[r] = "aborted"
        /\ job'[r][s] = "none"
        /\ \A t \in Sources \ {s} : job'[r][t] = job[r][t]
        /\ \A q \in Reloads \ {r} : phase'[q] = phase[q] /\ job'[q] = job[q]
    BY OneAborts
  <1>4. JobsFit(r)'
    BY <1>1, <1>2, <1>3 DEF JobsFit
  <1>5. Apart(r)
    BY <1>3 DEF Apart
  <1> QED
    BY <1>3, <1>4, <1>5, AbortedKeeps

\* Every entry was right, or every reload aborted, and the trigger stands: a
\* publication only happens between reloads.
LEMMA PublishOverlap ==
    ASSUME QuietPublications, OverlapInv, Publish
    PROVE  OverlapInv'
  <1>1. /\ \A r \in Reloads : phase[r] \in {"idle", "aborted"}
        /\ notify' /\ UNCHANGED <<phase, job, cfg, toReload>>
    BY DEF Publish, QuietPublications
  <1>2. \A r \in Reloads : JobsFit(r)'
    BY <1>1 DEF OverlapInv, JobsFit
  <1>3. \A r \in Reloads : ~AtWork(r)'
    BY <1>1 DEF AtWork
  <1> QED
    BY <1>1, <1>2, <1>3 DEF OverlapInv, Attended

\* A reload that begins takes charge of all that is wrong.
LEMMA BeginReloadOverlap ==
    ASSUME ConstantsAssumption, TypeOK, OverlapInv, NEW r \in Reloads, BeginReload(r)
    PROVE  OverlapInv'
  <1>1. /\ published \in [Sources -> OptConfs]
        /\ cfg'[r] = published /\ \A q \in Reloads \ {r} : cfg'[q] = cfg[q]
        /\ UNCHANGED <<published, sources>>
    BY DEF BeginReload, TypeOK, ConstantsAssumption
  <1>2. /\ JobsFit(r)' /\ AtWork(r)' /\ Apart(r)
        /\ \A s \in Sources : sources[s] # Want(published)[s] => InCharge(r, s)'
    BY <1>1, BeginCharge DEF BeginReload
  <1>3. Attended'
    BY <1>1, <1>2 DEF Attended, Want
  <1> QED
    BY <1>1, <1>2, <1>3, OneReloadSteps

\* A rejected configuration asks for nothing, and it is not the one a reload at
\* work takes for the published one.
LEMMA RejectConfigOverlap ==
    ASSUME TypeOK, OverlapInv, NEW r \in Reloads, RejectConfig(r)
    PROVE  OverlapInv'
  <1>1. CASE r \notin Watchers
    BY <1>1 DEF RejectConfig, OverlapInv, JobsFit, AtWork, Attended
  <1>2. CASE r \in Watchers
    <2>1. /\ phase' = [phase EXCEPT ![r] = "aborted"]
          /\ job[r] = NoJob
          /\ published = BadConfig
          /\ UNCHANGED <<published, sources, filtered, cfg, attempt, toReload, job>>
      BY <1>2 DEF RejectConfig, Free
    <2>2. /\ phase'[r] = "aborted"
          /\ \A q \in Reloads \ {r} : phase'[q] = phase[q]
      BY <2>1 DEF TypeOK
    <2>3. \A q \in Reloads : AtWork(q)' => cfg'[q] = published'
      BY <2>1, <2>2 DEF OverlapInv, AtWork
    <2>4. ASSUME NEW q \in Reloads PROVE JobsFit(q)'
      <3>1. CASE q = r
        BY <3>1, <2>1, <2>2 DEF JobsFit, NoJob
      <3>2. CASE q # r
        BY <3>2, <2>1, <2>2 DEF OverlapInv, JobsFit
      <3> QED
        BY <3>1, <3>2
    <2>5. Attended'
      BY <2>1 DEF Attended
    <2> QED
      BY <2>3, <2>4, <2>5 DEF OverlapInv
  <1> QED
    BY <1>1, <1>2

\* Removals done, what is still wrong is to be loaded.
LEMMA FinishRemovalsOverlap ==
    ASSUME TypeOK, OverlapInv, NEW r \in Reloads, FinishRemovals(r)
    PROVE  OverlapInv'
  <1>1. /\ phase[r] = "removing" /\ \A s \in Sources : job[r][s] = "none"
        /\ StartPlan(r, cfg[r]) /\ UNCHANGED <<published, notify, sources, cfg>>
    BY DEF FinishRemovals, NoJob
  <1>2. cfg[r] = published
    BY <1>1 DEF OverlapInv, AtWork
  <1>3. /\ JobsFit(r)' /\ AtWork(r)' /\ Apart(r)
        /\ \A s \in ToReload(published, sources) : InCharge(r, s)'
    BY <1>1, <1>2, StartPlanCharge
  <1>4. \A s \in Sources : InCharge(r, s) => Want(published)[s] # NoConf
    BY <1>1 DEF InCharge
  <1>5. \A s \in Sources : InCharge(r, s) => InCharge(r, s)' \/ sources'[s] = Want(published)[s]
    BY <1>1, <1>3, <1>4 DEF ToReload
  <1>6. Attended'
    BY <1>1, <1>3, <1>5, StillAttended DEF OverlapInv
  <1> QED
    BY <1>1, <1>2, <1>3, <1>6, OneReloadSteps

\* Replaced sources deleted, everything to reload is queued.
LEMMA FinishReplacementsOverlap ==
    ASSUME TypeOK, OverlapInv, NEW r \in Reloads, FinishReplacements(r)
    PROVE  OverlapInv'
  <1>1. /\ phase[r] = "replacing" /\ StartLoads(r, toReload[r])
        /\ UNCHANGED <<published, notify, sources, cfg, toReload>>
    BY DEF FinishReplacements
  <1>2. cfg[r] = published /\ JobsFit(r)
    BY <1>1 DEF OverlapInv, AtWork
  <1>3. toReload[r] \in SUBSET Sources /\ \A s \in toReload[r] : Want(cfg'[r])[s] # NoConf
    BY <1>1, <1>2 DEF JobsFit, TypeOK
  <1>4. /\ JobsFit(r)' /\ AtWork(r)' /\ \A s \in toReload[r] : InCharge(r, s)'
        /\ \A q \in Reloads \ {r} : phase'[q] = phase[q] /\ job'[q] = job[q]
    BY <1>1, <1>3, StartLoadsCharge
  <1>5. Apart(r)
    BY <1>1, <1>4 DEF Apart
  <1>6. \A s \in Sources : InCharge(r, s) => InCharge(r, s)'
    BY <1>1, <1>4 DEF InCharge
  <1>7. Attended'
    BY <1>1, <1>5, <1>6, StillAttended DEF OverlapInv
  <1> QED
    BY <1>1, <1>2, <1>4, <1>5, <1>7, OneReloadSteps

\* No load failed, so the reload is not tried again and leaves nothing behind.
LEMMA FinishLoadsOverlap ==
    ASSUME TypeOK, OverlapInv, NEW r \in Reloads, FinishLoads(r)
    PROVE  OverlapInv'
  <1>1. /\ phase[r] = "loading" /\ \A s \in Sources : job[r][s] \in {"none", "loaded", "failed"}
        /\ UNCHANGED <<published, notify, sources, cfg>>
    BY DEF FinishLoads
  <1>2. cfg[r] = published /\ JobsFit(r)
    BY <1>1 DEF OverlapInv, AtWork
  <1>3. \A s \in Sources : job[r][s] \in {"none", "loaded"}
    BY <1>1, <1>2 DEF JobsFit, LoadPoints
  <1>4. Enter(r, "ready", {}, "none") /\ UNCHANGED toReload
    BY <1>3 DEF FinishLoads, Retries
  <1>5. /\ phase'[r] = "ready" /\ \A s \in Sources : job'[r][s] = "none"
        /\ \A q \in Reloads \ {r} : phase'[q] = phase[q] /\ job'[q] = job[q]
    BY <1>4, EnterStage
  <1>6. JobsFit(r)' /\ Apart(r)
    BY <1>1, <1>4, <1>5 DEF JobsFit, Apart
  <1>7. \A s \in Sources : ~InCharge(r, s)
    BY <1>1, <1>3 DEF InCharge, LoadPoints
  <1>8. Attended'
    BY <1>1, <1>5, <1>6, <1>7, StillAttended DEF OverlapInv
  <1> QED
    BY <1>1, <1>2, <1>6, <1>8, OneReloadSteps

\* A reload that ends was in charge of nothing any more (update_flag).
LEMMA WriteFlagOverlap ==
    ASSUME TypeOK, OverlapInv, NEW r \in Reloads, WriteFlag(r)
    PROVE  OverlapInv'
  <1>1. /\ phase[r] \in {"ready", "error"} /\ phase'[r] = "idle"
        /\ \A q \in Reloads \ {r} : phase'[q] = phase[q]
        /\ UNCHANGED <<published, notify, sources, cfg, toReload, job>>
    BY DEF WriteFlag, TypeOK
  <1>2. JobsFit(r)
    BY DEF OverlapInv
  <1>3. JobsFit(r)' /\ Apart(r) /\ ~AtWork(r)'
    BY <1>1, <1>2 DEF JobsFit, Apart, AtWork
  <1>4. \A s \in Sources : ~InCharge(r, s)
    BY <1>1 DEF InCharge
  <1>5. Attended'
    BY <1>1, <1>3, <1>4, StillAttended DEF OverlapInv
  <1> QED
    BY <1>1, <1>3, <1>5, OneReloadSteps

\* Each deletion finds its source, or one raises and the reload is aborted.
LEMMA StartDeletesOverlap ==
    ASSUME TypeOK, OverlapInv, NEW r \in Reloads, StartDeletes(r)
    PROVE  OverlapInv'
  <1>1. /\ UNCHANGED <<published, notify, sources, cfg, toReload>>
        /\ \A q \in Reloads \ {r} : job'[q] = job[q] /\ phase'[q] = phase[q]
        /\ \A s \in Sources : job[r][s] # "delete" => job'[r][s] = job[r][s]
        /\ \A s \in Sources : job[r][s] = "delete" => job'[r][s] \in {"deleting", "none"}
        /\ (\A s \in Sources : job'[r][s] = "none" => job[r][s] = "none") \/ phase'[r] = "aborted"
        /\ phase'[r] \in {phase[r], "aborted"}
    BY DEF StartDeletes, TypeOK
  <1>2. JobsFit(r)
    BY DEF OverlapInv
  <1>3. phase[r] \in {"aborted", "removing", "replacing"}
    BY <1>2, DeletionStages DEF StartDeletes, DeletePoints
  <1>4. \A s \in Sources : job'[r][s] # "none" => job[r][s] # "none"
    BY <1>1
  <1>5. \A s \in Sources : job'[r][s] \in DeletePoints \cup {"none"}
    BY <1>1, <1>2, <1>3 DEF JobsFit, DeletePoints
  <1>6. JobsFit(r)' /\ Apart(r)
    BY <1>1, <1>2, <1>3, <1>4, <1>5 DEF JobsFit, Apart
  <1>7. CASE phase'[r] = "aborted"
    BY <1>1, <1>6, <1>7, AbortedKeeps
  <1>8. CASE phase'[r] # "aborted"
    <2>1. phase'[r] = phase[r] /\ \A s \in Sources : job'[r][s] = "none" => job[r][s] = "none"
      BY <1>1, <1>8
    <2>2. \A s \in Sources : InCharge(r, s) => InCharge(r, s)'
      BY <1>1, <1>3, <1>8, <2>1 DEF InCharge
    <2>3. Attended'
      BY <1>1, <1>6, <1>8, <2>1, <2>2, StillAttended DEF OverlapInv
    <2>4. AtWork(r)' => cfg'[r] = published
      BY <1>1, <2>1 DEF OverlapInv, AtWork
    <2> QED
      BY <1>1, <1>6, <2>3, <2>4, OneReloadSteps
  <1> QED
    BY <1>7, <1>8

\* A directory that goes leaves the table as it was.
LEMMA DeleteDirOverlap ==
    ASSUME TypeOK, OverlapInv, NEW r \in Reloads, NEW s \in Sources, DeleteDir(r, s)
    PROVE  OverlapInv'
  <1>1. /\ job[r][s] = "deleting" /\ SetJob(r, s, "deleted")
        /\ UNCHANGED <<published, notify, sources, phase, cfg, toReload>>
    BY DEF DeleteDir
  <1>2. /\ job'[r][s] = "deleted"
        /\ \A t \in Sources \ {s} : job'[r][t] = job[r][t]
        /\ \A q \in Reloads \ {r} : job'[q] = job[q]
    BY <1>1, OneJobMoves
  <1>3. JobsFit(r)
    BY DEF OverlapInv
  <1>4. phase[r] \in {"aborted", "removing", "replacing"}
    BY <1>1, <1>3, DeletionStages DEF DeletePoints
  <1>5. JobsFit(r)' /\ Apart(r)
    BY <1>1, <1>2, <1>3, <1>4 DEF JobsFit, Apart, DeletePoints
  <1>6. \A t \in Sources : InCharge(r, t) => InCharge(r, t)'
    BY <1>1, <1>2, <1>4 DEF InCharge
  <1>7. Attended'
    BY <1>1, <1>5, <1>6, StillAttended DEF OverlapInv
  <1>8. AtWork(r)' => cfg'[r] = published
    BY <1>1 DEF OverlapInv, AtWork
  <1> QED
    BY <1>1, <1>5, <1>7, <1>8, OneReloadSteps

\* An rmtree that raises aborts its reload.
LEMMA DeleteFailOverlap ==
    ASSUME TypeOK, OverlapInv, NEW r \in Reloads, NEW s \in Sources, DeleteFail(r, s)
    PROVE  OverlapInv'
  BY AbortKeeps DEF DeleteFail, DeletePoints

\* A removed entry is one that nobody wants any more, a replaced one is to be
\* loaded; of two reloads that delete it, the second is aborted.
LEMMA DeleteEntryOverlap ==
    ASSUME TypeOK, OverlapInv, NEW r \in Reloads, NEW s \in Sources, DeleteEntry(r, s)
    PROVE  OverlapInv'
  <1>1. CASE sources[s] = NoConf
    BY <1>1, AbortKeeps DEF DeleteEntry, DeletePoints
  <1>2. CASE sources[s] # NoConf
    <2>1. /\ job[r][s] = "deleted" /\ SetJob(r, s, "none")
          /\ UNCHANGED <<published, notify, phase, cfg, toReload>>
          /\ sources' = [sources EXCEPT ![s] = NoConf]
      BY <1>2 DEF DeleteEntry
    <2>2. sources'[s] = NoConf /\ \A t \in Sources \ {s} : sources'[t] = sources[t]
      BY <2>1 DEF TypeOK
    <2>3. /\ job'[r][s] = "none"
          /\ \A t \in Sources \ {s} : job'[r][t] = job[r][t]
          /\ \A q \in Reloads \ {r} : job'[q] = job[q]
      BY <2>1, OneJobMoves
    <2>4. JobsFit(r)
      BY DEF OverlapInv
    <2>5. phase[r] \in {"aborted", "removing", "replacing"}
      BY <2>1, <2>4, DeletionStages DEF DeletePoints
    <2>6. JobsFit(r)' /\ Apart(r)
      BY <2>1, <2>3, <2>4, <2>5 DEF JobsFit, Apart
    <2>7. CASE phase[r] = "aborted"
      BY <2>1, <2>6, <2>7, AbortedKeeps
    <2>8. CASE phase[r] # "aborted"
      <3>1. cfg[r] = published
        BY <2>5, <2>8 DEF OverlapInv, AtWork
      <3>2. ASSUME phase[r] = "removing" PROVE Attended'
        <4>1. Want(published)[s] = NoConf
          BY <2>1, <2>4, <3>1, <3>2 DEF JobsFit
        <4>2. \A t \in Sources : InCharge(r, t) =>
                  InCharge(r, t)' \/ sources'[t] = Want(published)[t]
          BY <2>1, <2>2, <2>3, <3>2, <4>1 DEF InCharge
        <4>3. \A t \in Sources : sources'[t] # Want(published)[t] => sources[t] # Want(published)[t]
          BY <2>2, <4>1
        <4> QED
          BY <2>1, <2>6, <3>2, <4>2, <4>3, StillAttended DEF OverlapInv
      <3>3. ASSUME phase[r] = "replacing" PROVE Attended'
        <4>1. s \in toReload[r]
          BY <2>1, <2>4, <3>3 DEF JobsFit
        <4>2. \A t \in Sources : InCharge(r, t) => InCharge(r, t)'
          BY <2>1, <3>3 DEF InCharge
        <4>3. InCharge(r, s)'
          BY <2>1, <3>3, <4>1 DEF InCharge
        <4>4. \A t \in Sources : sources'[t] # Want(published)[t] =>
                  sources[t] # Want(published)[t] \/ InCharge(r, t)'
          BY <2>2, <4>3
        <4> QED
          BY <2>1, <2>6, <3>3, <4>2, <4>4, StillAttended DEF OverlapInv
      <3>4. Attended'
        BY <2>5, <2>8, <3>2, <3>3
      <3> QED
        BY <2>1, <2>6, <3>1, <3>4, OneReloadSteps
    <2> QED
      BY <2>7, <2>8
  <1> QED
    BY <1>1, <1>2

\* A load that goes on is still in charge.
LEMMA LoadMovesOverlap ==
    ASSUME TypeOK, OverlapInv, NEW r \in Reloads, NEW s \in Sources,
           LoadStart(r, s) \/ LoadWrite(r, s)
    PROVE  OverlapInv'
  <1>1. PICK j \in {"loading", "written"} : SetJob(r, s, j)
    BY DEF LoadStart, LoadWrite
  <1>2. job[r][s] \in LoadPoints /\ UNCHANGED <<published, notify, sources, phase, cfg, toReload>>
    BY DEF LoadStart, LoadWrite, LoadPoints
  <1>3. /\ job'[r][s] = j
        /\ \A t \in Sources \ {s} : job'[r][t] = job[r][t]
        /\ \A q \in Reloads \ {r} : job'[q] = job[q]
    BY <1>1, OneJobMoves
  <1>4. JobsFit(r)
    BY DEF OverlapInv
  <1>5. phase[r] = "loading" /\ cfg[r] = published
    BY <1>2, <1>4, LoadStages DEF OverlapInv, AtWork
  <1>6. job[r][s] # "none" /\ j # "none" /\ j \in LoadPoints
    BY <1>2 DEF LoadPoints
  <1>7. JobsFit(r)' /\ Apart(r)
    BY <1>2, <1>3, <1>4, <1>5, <1>6 DEF JobsFit, Apart
  <1>8. \A t \in Sources : InCharge(r, t) => InCharge(r, t)'
    BY <1>2, <1>3, <1>5, <1>6 DEF InCharge
  <1>9. Attended'
    BY <1>2, <1>5, <1>7, <1>8, StillAttended DEF OverlapInv
  <1> QED
    BY <1>2, <1>5, <1>7, <1>9, OneReloadSteps

\* A load puts in the table what the master configuration asks for.
LEMMA LoadDoneOverlap ==
    ASSUME TypeOK, OverlapInv, NEW r \in Reloads, NEW s \in Sources, LoadDone(r, s)
    PROVE  OverlapInv'
  <1>1. /\ job[r][s] = "written" /\ SetJob(r, s, "loaded")
        /\ UNCHANGED <<published, notify, phase, cfg, toReload>>
        /\ sources' = [sources EXCEPT ![s] = cfg[r][s]]
    BY DEF LoadDone
  <1>2. /\ job'[r][s] = "loaded"
        /\ \A t \in Sources \ {s} : job'[r][t] = job[r][t]
        /\ \A q \in Reloads \ {r} : job'[q] = job[q]
    BY <1>1, OneJobMoves
  <1>3. JobsFit(r)
    BY DEF OverlapInv
  <1>4. phase[r] = "loading" /\ cfg[r] = published
    BY <1>1, <1>3, LoadStages DEF OverlapInv, AtWork, LoadPoints
  <1>5. Want(cfg[r])[s] # NoConf
    BY <1>1, <1>3, <1>4 DEF JobsFit
  <1>6. cfg[r][s] = Want(published)[s]
    BY <1>4, <1>5, WantType DEF TypeOK
  <1>7. sources'[s] = Want(published)[s] /\ \A t \in Sources \ {s} : sources'[t] = sources[t]
    BY <1>1, <1>6 DEF TypeOK
  <1>8. JobsFit(r)' /\ Apart(r)
    BY <1>1, <1>2, <1>3, <1>4, <1>5 DEF JobsFit, Apart
  <1>9. \A t \in Sources : InCharge(r, t) => InCharge(r, t)' \/ sources'[t] = Want(published)[t]
    BY <1>1, <1>2, <1>4, <1>7 DEF InCharge
  <1>10. \A t \in Sources : sources'[t] # Want(published)[t] => sources[t] # Want(published)[t]
    BY <1>7
  <1>11. Attended'
    BY <1>1, <1>4, <1>8, <1>9, <1>10, StillAttended DEF OverlapInv
  <1> QED
    BY <1>1, <1>4, <1>8, <1>11, OneReloadSteps

\* Refreshers touch neither the table nor the reloads.
LEMMA OverlapStutters ==
    ASSUME OverlapInv, UNCHANGED <<published, notify, sources, phase, cfg, toReload, job>>
    PROVE  OverlapInv'
  BY DEF OverlapInv, AtWork, JobsFit, Attended, InCharge

\* Every reload works on the configuration in force, and each entry that is not
\* as it asks has a reload in charge of it unless one was aborted.
LEMMA OverlapStep ==
    ASSUME QuietPublications, LoadsSucceed, TypeOK, OverlapInv, [Next]_vars
    PROVE  OverlapInv'
  <1>1. CASE Publish
    BY <1>1, PublishOverlap
  <1>2. ASSUME NEW r \in Reloads, BeginReload(r) \/ RejectConfig(r) \/ ReloadStep(r)
        PROVE  OverlapInv'
    BY <1>2, ConstantsAssumption, BeginReloadOverlap, RejectConfigOverlap, StartDeletesOverlap,
       FinishRemovalsOverlap, FinishReplacementsOverlap, FinishLoadsOverlap, WriteFlagOverlap
       DEF ReloadStep
  <1>3. ASSUME NEW r \in Reloads, NEW s \in Sources, DeleteStep(r, s) \/ LoadStep(r, s)
        PROVE  OverlapInv'
    <2>1. ~LoadFail(r, s)
      BY DEF LoadFail, LoadsSucceed
    <2> QED
      BY <1>3, <2>1, DeleteDirOverlap, DeleteFailOverlap, DeleteEntryOverlap, LoadMovesOverlap,
         LoadDoneOverlap DEF DeleteStep, LoadStep
  <1>4. ASSUME NEW f \in Refreshers, RefreshStep(f) \/ \E s \in Sources : RefreshStart(f, s)
        PROVE  OverlapInv'
    BY <1>4, OverlapStutters DEF RefreshStep, RefreshStart, RefreshClear, RefreshWrite, RefreshFail
  <1>5. CASE UNCHANGED vars
    BY <1>5, OverlapStutters DEF vars
  <1> QED
    BY <1>1, <1>2, <1>3, <1>4, <1>5 DEF Next

\* At the start a trigger stands.
LEMMA OverlapInit ==
    ASSUME Init
    PROVE  OverlapInv
  BY DEF Init, OverlapInv, AtWork, JobsFit, Attended, NoJob

\* Reloads may overlap as they like, and refreshes with them: when all has come to
\* rest and none was aborted, the table is the one the master configuration asks
\* for, if it did not change during a reload and no load failed; without either
\* the claim is false (_do_handle_master_config).
THEOREM SettledIsPublished ==
    ASSUME QuietPublications, LoadsSucceed
    PROVE  Spec => []SettledMatchesPublished
  <1>1. TypeOK /\ OverlapInv => SettledMatchesPublished
    <2> SUFFICES ASSUME TypeOK, OverlapInv, Settled, published # BadConfig
                 PROVE  sources = Want(published)
      BY DEF SettledMatchesPublished
    <2>1. \A r \in Reloads, s \in Sources : ~InCharge(r, s)
      BY DEF Settled, InCharge
    <2>2. \A s \in Sources : sources[s] = Want(published)[s]
      BY <2>1 DEF OverlapInv, Attended, Settled
    <2>3. sources \in [Sources -> OptConfs] /\ Want(published) \in [Sources -> OptConfs]
      BY ConstantsAssumption, WantType DEF TypeOK, ConstantsAssumption
    <2> QED
      BY <2>2, <2>3
  <1>2. Init => OverlapInv
    BY OverlapInit
  <1>3. TypeOK /\ OverlapInv /\ [Next]_vars => OverlapInv'
    BY OverlapStep
  <1> QED
    BY <1>1, <1>2, <1>3, TypeCorrect, PTL DEF Spec
=============================================================================
