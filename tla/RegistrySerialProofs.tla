------------------------- MODULE RegistrySerialProofs -------------------------
(***************************************************************************)
(* The serial registry keeps SerialInv, hence its safety properties, and   *)
(* implements SourceTable: for any sources and configurations, with any    *)
(* number of refreshers and whatever fails.                                *)
(***************************************************************************)
EXTENDS RegistrySerial, RegistryProofs

\* What is wanted of a source is its configuration or nothing, and a filtered
\* source is not wanted (_filter_sources).
LEMMA WantFact ==
    ASSUME NEW c \in [Sources -> OptConfs], NEW s \in Sources
    PROVE  /\ Want(c)[s] \in OptConfs
           /\ Want(c)[s] # NoConf => Want(c)[s] = c[s]
           /\ s \in FilteredIds(c) => Want(c)[s] = NoConf
  BY ConstantsAssumption DEF Want, FilteredIds, OptConfs

\* There is a single reload coroutine (the trigger's, _handle_master_config).
LEMMA OneReload == ASSUME NEW q \in Reloads, NEW r \in Reloads PROVE q = r
  BY SingleReload

-----------------------------------------------------------------------------
(* Starting a stage establishes what its subtasks rely on.                 *)

\* Loads start from a table that holds no entry to load, and every other wanted
\* one (the gather() of load_source).
LEMMA StartLoadsInv ==
    ASSUME TypeOK, NEW r \in Reloads, NEW S \in SUBSET Sources, StartLoads(r, S),
           UNCHANGED sources, toReload'[r] = S,
           \A s \in Sources : /\ s \in S => sources[s] = NoConf
                              /\ s \in S => Want(cfg'[r])[s] # NoConf
                              /\ s \notin S => sources[s] = Want(cfg'[r])[s]
    PROVE  /\ StageInv(r)'
           /\ phase'[r] \in {"ready", "loading"}
           /\ phase'[r] = "ready" => sources' = Want(cfg'[r])
  <1>1. CASE S = {}
    <2>1. phase'[r] = "ready" /\ job'[r] = NoJob
      BY <1>1 DEF StartLoads, Enter, TypeOK, NoJob
    <2>2. sources' = Want(cfg'[r])
      BY <1>1 DEF TypeOK, Want
    <2> QED
      BY <2>1, <2>2 DEF StageInv, Outdated
  <1>2. CASE S # {}
    <2>1. /\ phase'[r] = "loading"
          /\ job'[r] = [s \in Sources |-> IF s \in S THEN "queued" ELSE "none"]
      BY <1>2 DEF StartLoads, Enter, TypeOK
    <2>2. LoadInv(r)'
      BY <2>1 DEF LoadInv, LoadJobs
    <2> QED
      BY <2>1, <2>2 DEF StageInv
  <1> QED
    BY <1>1, <1>2

\* The plan made of a table without unwanted entries is complete: it loads what is
\* missing and replaces what is outdated (the computation of to_reload).
LEMMA StartPlanInv ==
    ASSUME TypeOK, NEW r \in Reloads, StartPlan(r, cfg'[r]), UNCHANGED sources,
           cfg'[r] \in [Sources -> OptConfs],
           \A s \in Sources : Want(cfg'[r])[s] = NoConf => sources[s] = NoConf
    PROVE  /\ StageInv(r)'
           /\ phase'[r] \in {"replacing", "ready", "loading"}
           /\ phase'[r] = "ready" => sources' = Want(cfg'[r])
           /\ phase'[r] = "replacing" => \E s \in Sources : Outdated(r, s)'
  <1> DEFINE c == cfg'[r]
  <1>1. toReload'[r] = ToReload(c, sources)
    BY DEF StartPlan, TypeOK
  <1>2. CASE Changed(c, sources) = {}
    <2>1. StartLoads(r, ToReload(c, sources))
      BY <1>2 DEF StartPlan
    <2>2. \A s \in Sources :
             /\ s \in ToReload(c, sources) => sources[s] = NoConf /\ Want(c)[s] # NoConf
             /\ s \notin ToReload(c, sources) => sources[s] = Want(c)[s]
      BY <1>2 DEF Changed, ToReload
    <2>3. ToReload(c, sources) \in SUBSET Sources
      BY DEF ToReload
    <2> QED
      BY <1>1, <2>1, <2>2, <2>3, StartLoadsInv
  <1>3. CASE Changed(c, sources) # {}
    <2>1. /\ phase'[r] = "replacing"
          /\ job'[r] = [s \in Sources |-> IF s \in Changed(c, sources) THEN "delete" ELSE "none"]
      BY <1>3 DEF StartPlan, Enter, TypeOK
    <2>2. \A s \in Sources : s \in Changed(c, sources) <=> Outdated(r, s)'
      BY DEF Changed, ToReload, Outdated
    <2>3. ReplacementInv(r)'
      BY <1>1, <2>1, <2>2 DEF ReplacementInv, DeletesOnlyOutdated, DeleteJobs, ToReload, Outdated
    <2>4. \E s \in Sources : Outdated(r, s)'
      BY <1>3, <2>2 DEF Changed, ToReload
    <2> QED
      BY <2>1, <2>3, <2>4 DEF StageInv
  <1> QED
    BY <1>2, <1>3

\* An attempt that starts establishes the invariant of the stage it reaches
\* (_do_handle_master_config).
LEMMA DoHandleInv ==
    ASSUME TypeOK, NEW r \in Reloads, DoHandleMasterConfig(r, cfg'[r]), UNCHANGED sources,
           cfg'[r] \in [Sources -> OptConfs]
    PROVE  /\ StageInv(r)'
           /\ filtered' = FilteredIds(cfg'[r])
           /\ phase'[r] \in {"removing", "replacing", "ready", "loading"}
           /\ phase'[r] = "ready" => sources' = Want(cfg'[r])
           /\ phase'[r] \in {"removing", "replacing"} =>
                 \E s \in Sources : Outdated(r, s)'
  <1> DEFINE c == cfg'[r]
  <1>1. CASE Removed(c, sources) = {}
    <2>1. StartPlan(r, c) /\ filtered' = FilteredIds(c)
      BY <1>1 DEF DoHandleMasterConfig
    <2>2. \A s \in Sources : Want(c)[s] = NoConf => sources[s] = NoConf
      BY <1>1 DEF Removed
    <2> QED
      BY <2>1, <2>2, StartPlanInv
  <1>2. CASE Removed(c, sources) # {}
    <2>1. /\ phase'[r] = "removing"
          /\ job'[r] = [s \in Sources |-> IF s \in Removed(c, sources) THEN "delete" ELSE "none"]
          /\ filtered' = FilteredIds(c)
      BY <1>2 DEF DoHandleMasterConfig, Enter, TypeOK
    <2>2. RemovalInv(r)'
      BY <2>1 DEF RemovalInv, DeletesOnlyOutdated, DeleteJobs, Removed, Outdated
    <2>3. \E s \in Sources : Outdated(r, s)'
      BY <1>2 DEF Removed, Outdated
    <2> QED
      BY <2>1, <2>2, <2>3 DEF StageInv
  <1> QED
    BY <1>1, <1>2

-----------------------------------------------------------------------------
(* The steps of the reload coroutine.  A step that leaves the coroutine in  *)
(* one stage, and the rest alone, need only re-establish that stage.       *)

\* There being one reload, what holds of it is the invariant.
LEMMA SerialFromStage ==
    ASSUME NEW r \in Reloads, StageInv(r)', RetryInv(r)',
           filtered' = FilteredIds(cfg'[r]),
           phase'[r] = "ready" /\ attempt'[r] = 1 => sources' = Want(cfg'[r]),
           phase'[r] = "error" => /\ toReload'[r] # {}
                                  /\ \A s \in toReload'[r] : sources'[s] = NoConf
    PROVE  SerialInv'
  <1>1. \A q \in Reloads : q = r
    BY OneReload
  <1>2. VerdictSound'
    BY <1>1 DEF VerdictSound
  <1>3. \A q \in Reloads : /\ filtered' = FilteredIds(cfg'[q])
                           /\ RetryInv(q)'
                           /\ StageInv(q)'
    BY <1>1
  <1> QED
    BY <1>2, <1>3 DEF SerialInv

\* A new trigger keeps the invariant, however the last reload ended
\* (_handle_master_config).
LEMMA BeginReloadInv ==
    ASSUME TypeOK, SerialInv, NEW r \in Reloads, BeginReload(r)
    PROVE  SerialInv'
  <1>1. /\ cfg'[r] = published
        /\ attempt'[r] = 1
        /\ UNCHANGED sources
        /\ DoHandleMasterConfig(r, published)
    BY DEF BeginReload, TypeOK
  <1>2. published \in [Sources -> OptConfs]
    BY ConstantsAssumption DEF BeginReload, TypeOK
  <1>3. /\ StageInv(r)'
        /\ filtered' = FilteredIds(cfg'[r])
        /\ phase'[r] \in {"removing", "replacing", "ready", "loading"}
        /\ phase'[r] = "ready" => sources' = Want(cfg'[r])
    BY <1>1, <1>2, DoHandleInv
  <1>4. RetryInv(r)'
    BY <1>1 DEF RetryInv
  <1> QED
    BY <1>3, <1>4, SerialFromStage

\* The delete tasks of a serial reload all find their entry (_delete_source).
LEMMA StartDeletesInv ==
    ASSUME TypeOK, SerialInv, NEW r \in Reloads, StartDeletes(r)
    PROVE  SerialInv'
  <1> USE DEF StartDeletes
  <1>1. PICK s0 \in Sources : job[r][s0] = "delete"
    OBVIOUS
  <1>2. StageInv(r) /\ RetryInv(r) /\ filtered = FilteredIds(cfg[r])
    BY DEF SerialInv
  <1>3. phase[r] \in {"removing", "replacing", "aborted"}
    BY <1>1, <1>2 DEF StageInv, NoJob, LoadInv, LoadJobs, TypeOK, Phases
  <1>4. DeletesOnlyOutdated(r)
    BY <1>2, <1>3 DEF StageInv, RemovalInv, ReplacementInv
  <1>5. \A s \in Sources : job[r][s] = "delete" => sources[s] # NoConf
    BY <1>4 DEF DeletesOnlyOutdated, DeleteJobs, Outdated
  <1>6. UNCHANGED <<phase, sources, filtered, cfg, attempt, toReload>>
    BY <1>5
  <1>7. \A s \in Sources : /\ job'[r][s] \in DeleteJobs <=> job[r][s] \in DeleteJobs
                           /\ job'[r][s] = "none" <=> job[r][s] = "none"
    BY <1>5 DEF TypeOK, DeleteJobs
  <1>8. StageInv(r)'
    BY <1>2, <1>3, <1>6, <1>7
    DEF StageInv, RemovalInv, ReplacementInv, DeletesOnlyOutdated, Outdated
  <1> QED
    BY <1>2, <1>3, <1>6, <1>8, SerialFromStage DEF RetryInv

\* Once the removals are done no unwanted entry is left (the first gather()).
LEMMA FinishRemovalsInv ==
    ASSUME TypeOK, SerialInv, NEW r \in Reloads, FinishRemovals(r)
    PROVE  SerialInv'
  <1> USE DEF FinishRemovals
  <1>1. /\ StageInv(r)
        /\ RetryInv(r)
        /\ filtered = FilteredIds(cfg[r])
    BY DEF SerialInv
  <1>2. RemovalInv(r) /\ attempt[r] # 2
    BY <1>1 DEF StageInv, RetryInv
  <1>3. \A s \in Sources : Want(cfg'[r])[s] = NoConf => sources[s] = NoConf
    BY <1>2 DEF RemovalInv, NoJob, DeleteJobs
  <1>4. /\ StageInv(r)'
        /\ phase'[r] \in {"replacing", "ready", "loading"}
        /\ phase'[r] = "ready" => sources' = Want(cfg'[r])
    BY <1>3, StartPlanInv DEF TypeOK
  <1> QED
    BY <1>1, <1>2, <1>4, SerialFromStage DEF RetryInv

\* Once the replacements are done no outdated entry is left (the second gather()).
LEMMA FinishReplacementsInv ==
    ASSUME TypeOK, SerialInv, NEW r \in Reloads, FinishReplacements(r)
    PROVE  SerialInv'
  <1> USE DEF FinishReplacements
  <1>1. /\ StageInv(r)
        /\ RetryInv(r)
        /\ filtered = FilteredIds(cfg[r])
    BY DEF SerialInv
  <1>2. ReplacementInv(r) /\ attempt[r] # 2
    BY <1>1 DEF StageInv, RetryInv
  <1>3. \A s \in Sources :
           /\ s \in toReload[r] => sources[s] = NoConf
           /\ s \in toReload[r] => Want(cfg'[r])[s] # NoConf
           /\ s \notin toReload[r] => sources[s] = Want(cfg'[r])[s]
    BY <1>2 DEF ReplacementInv, NoJob, DeleteJobs, Outdated
  <1>4. toReload[r] \in SUBSET Sources
    BY DEF TypeOK
  <1>5. /\ StageInv(r)'
        /\ phase'[r] \in {"ready", "loading"}
        /\ phase'[r] = "ready" => sources' = Want(cfg'[r])
    BY <1>3, <1>4, StartLoadsInv
  <1> QED
    BY <1>1, <1>2, <1>5, SerialFromStage DEF RetryInv

\* The second attempt finds nothing outdated: the first one has seen to that.
LEMMA FinishLoadsInv ==
    ASSUME TypeOK, SerialInv, NEW r \in Reloads, FinishLoads(r)
    PROVE  SerialInv'
  <1> DEFINE errors  == \E s \in Sources : job[r][s] = "failed"
             success == \E s \in Sources : job[r][s] = "loaded"
  <1>1. /\ RetryInv(r)
        /\ filtered = FilteredIds(cfg[r])
        /\ LoadInv(r)
    BY DEF SerialInv, StageInv, FinishLoads
  <1>2. \A s \in Sources : job[r][s] \in {"none", "loaded", "failed"}
    BY DEF FinishLoads
  <1>3. UNCHANGED <<sources, cfg>>
    BY DEF FinishLoads
  <1>4. \A s \in Sources : ~Outdated(r, s)
    BY <1>1 DEF LoadInv, Outdated
  <1>5. CASE Retries(r, errors, success)
    <2>1. /\ attempt' = [attempt EXCEPT ![r] = 2]
          /\ DoHandleMasterConfig(r, cfg'[r])
      BY <1>3, <1>5 DEF FinishLoads
    <2>2. cfg'[r] \in [Sources -> OptConfs]
      BY <1>3 DEF TypeOK
    <2>3. ~\E s \in Sources : Outdated(r, s)'
      BY <1>3, <1>4 DEF Outdated
    <2>4. /\ StageInv(r)'
          /\ filtered' = FilteredIds(cfg'[r])
          /\ phase'[r] \in {"ready", "loading"}
      BY <1>3, <2>1, <2>2, <2>3, DoHandleInv
    <2>5. attempt'[r] = 2
      BY <2>1 DEF TypeOK
    <2> QED
      BY <2>4, <2>5, SerialFromStage DEF RetryInv
  <1>6. CASE ~Retries(r, errors, success)
    <2> DEFINE p == IF attempt[r] = 1 /\ errors THEN "error" ELSE "ready"
    <2>1. /\ Enter(r, p, {}, "none")
          /\ UNCHANGED <<filtered, attempt, toReload>>
      BY <1>6 DEF FinishLoads
    <2>2. phase'[r] = p /\ job'[r] = NoJob
      BY <2>1 DEF Enter, TypeOK, NoJob
    <2>3. StageInv(r)'
      BY <1>3, <1>4, <2>2 DEF StageInv, Outdated
    <2>4. p = "ready" /\ attempt[r] = 1 => sources' = Want(cfg'[r])
      <3>1. SUFFICES ASSUME p = "ready", attempt[r] = 1 PROVE sources' = Want(cfg'[r])
        OBVIOUS
      <3>2. \A s \in Sources : job[r][s] \in {"none", "loaded"}
        BY <1>2, <3>1
      <3>3. \A s \in Sources : sources[s] = Want(cfg[r])[s]
        BY <1>1, <3>2 DEF LoadInv
      <3> QED
        BY <1>3, <3>3 DEF TypeOK, Want
    <2>5. p = "error" => /\ toReload[r] # {}
                         /\ \A s \in toReload[r] : sources[s] = NoConf
      <3>1. SUFFICES ASSUME p = "error"
                     PROVE  /\ toReload[r] # {}
                            /\ \A s \in toReload[r] : sources[s] = NoConf
        OBVIOUS
      <3>2. errors /\ ~success
        BY <1>6, <3>1 DEF Retries
      <3>3. \A s \in Sources : job[r][s] \in {"none", "failed"}
        BY <1>2, <3>2
      <3>4. toReload[r] \subseteq Sources
        BY DEF TypeOK
      <3> QED
        BY <1>1, <3>2, <3>3, <3>4 DEF LoadInv
    <2> QED
      BY <1>1, <1>3, <2>1, <2>2, <2>3, <2>4, <2>5, SerialFromStage DEF RetryInv
  <1> QED
    BY <1>5, <1>6

\* The flag is written last, and changes nothing else (update_flag).
LEMMA WriteFlagInv ==
    ASSUME TypeOK, SerialInv, NEW r \in Reloads, WriteFlag(r)
    PROVE  SerialInv'
  <1>1. /\ StageInv(r)
        /\ filtered = FilteredIds(cfg[r])
    BY DEF SerialInv
  <1>2. /\ phase[r] \in {"ready", "error"}
        /\ phase'[r] = "idle"
        /\ UNCHANGED <<sources, filtered, cfg, attempt, job>>
    BY DEF WriteFlag, TypeOK
  <1>3. StageInv(r)'
    BY <1>1, <1>2 DEF StageInv, Outdated
  <1> QED
    BY <1>1, <1>2, <1>3, SerialFromStage DEF RetryInv

-----------------------------------------------------------------------------
(* The steps of the subtasks.                                              *)

\* A delete task at work tells the stage of its reload (_delete_source).
LEMMA DeleteJobStage ==
    ASSUME TypeOK, SerialInv, NEW r \in Reloads, NEW s \in Sources, job[r][s] \in DeleteJobs
    PROVE  /\ phase[r] \in {"removing", "replacing", "aborted"}
           /\ DeletesOnlyOutdated(r)
           /\ Outdated(r, s)
  <1>1. StageInv(r)
    BY DEF SerialInv
  <1>2. phase[r] \in {"removing", "replacing", "aborted"}
    BY <1>1 DEF StageInv, NoJob, LoadInv, LoadJobs, DeleteJobs, TypeOK, Phases
  <1>3. DeletesOnlyOutdated(r)
    BY <1>1, <1>2 DEF StageInv, RemovalInv, ReplacementInv
  <1> QED
    BY <1>2, <1>3 DEF DeletesOnlyOutdated

\* So does a load (load_source).
LEMMA LoadJobStage ==
    ASSUME TypeOK, SerialInv, NEW r \in Reloads, NEW s \in Sources, job[r][s] \in LoadJobs
    PROVE  phase[r] = "loading" /\ LoadInv(r)
  <1>1. StageInv(r)
    BY DEF SerialInv
  <1>2. job[r][s] \notin DeleteJobs \cup {"none"}
    BY DEF LoadJobs, DeleteJobs
  <1>3. job[r] # NoJob
    BY <1>2 DEF NoJob
  <1>4. ~DeletesOnlyOutdated(r)
    BY <1>2 DEF DeletesOnlyOutdated
  <1>5. phase[r] \notin {"idle", "ready", "error", "removing", "replacing", "aborted"}
    BY <1>1, <1>3, <1>4 DEF StageInv, RemovalInv, ReplacementInv
  <1>6. phase[r] = "loading"
    BY <1>5 DEF TypeOK, Phases
  <1> QED
    BY <1>1, <1>6 DEF StageInv

\* A subtask step that neither ends a load nor removes an entry moves one job on.
LEMMA JobMoveInv ==
    ASSUME TypeOK, SerialInv, NEW r \in Reloads, NEW s \in Sources, NEW j \in DeleteJobs,
           job[r][s] \in DeleteJobs, SetJob(r, s, j),
           UNCHANGED <<sources, filtered, phase, cfg, attempt, toReload>>
    PROVE  SerialInv'
  <1>1. /\ StageInv(r)
        /\ RetryInv(r)
        /\ filtered = FilteredIds(cfg[r])
    BY DEF SerialInv
  <1>2. phase[r] \in {"removing", "replacing", "aborted"}
    BY DeleteJobStage
  <1>3. \A q \in Sources : /\ job'[r][q] \in DeleteJobs <=> job[r][q] \in DeleteJobs
                           /\ job'[r][q] = "none" <=> job[r][q] = "none"
    BY DEF SetJob, TypeOK, DeleteJobs
  <1>4. StageInv(r)'
    BY <1>1, <1>2, <1>3
    DEF StageInv, RemovalInv, ReplacementInv, DeletesOnlyOutdated, Outdated
  <1> QED
    BY <1>1, <1>2, <1>4, SerialFromStage DEF RetryInv

\* A delete task that raises leaves only delete tasks behind (_delete_source).
LEMMA AbortInv ==
    ASSUME TypeOK, SerialInv, NEW r \in Reloads, NEW s \in Sources,
           job[r][s] \in DeleteJobs, AbortReload(r, s),
           UNCHANGED <<sources, filtered, cfg, attempt, toReload>>
    PROVE  SerialInv'
  <1>1. /\ RetryInv(r)
        /\ filtered = FilteredIds(cfg[r])
        /\ phase[r] \in {"removing", "replacing", "aborted"}
        /\ DeletesOnlyOutdated(r)
    BY DeleteJobStage DEF SerialInv
  <1>2. phase'[r] = "aborted"
    BY DEF AbortReload, TypeOK
  <1>3. \A q \in Sources : job'[r][q] \in {job[r][q], "none"}
    BY DEF AbortReload, SetJob, TypeOK
  <1>4. DeletesOnlyOutdated(r)'
    BY <1>1, <1>3 DEF DeletesOnlyOutdated, DeleteJobs, Outdated
  <1>5. StageInv(r)'
    BY <1>2, <1>4 DEF StageInv
  <1> QED
    BY <1>1, <1>2, <1>5, SerialFromStage DEF RetryInv

\* Taking an outdated entry out of the table, or failing to, keeps the invariant
\* (_delete_source).
LEMMA DeleteEntryInv ==
    ASSUME TypeOK, SerialInv, NEW r \in Reloads, NEW s \in Sources, DeleteEntry(r, s)
    PROVE  SerialInv'
  <1>1. job[r][s] \in DeleteJobs
    BY DEF DeleteEntry, DeleteJobs
  <1>2. /\ RetryInv(r)
        /\ filtered = FilteredIds(cfg[r])
        /\ StageInv(r)
        /\ phase[r] \in {"removing", "replacing", "aborted"}
        /\ DeletesOnlyOutdated(r)
        /\ Outdated(r, s)
    BY <1>1, DeleteJobStage DEF SerialInv
  <1>3. /\ sources' = [sources EXCEPT ![s] = NoConf]
        /\ SetJob(r, s, "none")
        /\ UNCHANGED <<phase, filtered, cfg, attempt, toReload>>
    BY <1>2 DEF DeleteEntry, Outdated
  <1>4. /\ sources'[s] = NoConf
        /\ job'[r][s] = "none"
        /\ \A q \in Sources \ {s} : sources'[q] = sources[q] /\ job'[r][q] = job[r][q]
    BY <1>3 DEF SetJob, TypeOK
  <1>5. DeletesOnlyOutdated(r)'
    BY <1>2, <1>3, <1>4 DEF DeletesOnlyOutdated, Outdated, DeleteJobs
  <1>6. CASE phase[r] = "removing"
    <2>1. RemovalInv(r)'
      BY <1>2, <1>3, <1>4, <1>5, <1>6 DEF StageInv, RemovalInv, DeleteJobs
    <2> QED
      BY <1>2, <1>3, <1>6, <2>1, SerialFromStage DEF RetryInv, StageInv
  <1>7. CASE phase[r] = "replacing"
    <2>1. ReplacementInv(r)
      BY <1>2, <1>7 DEF StageInv
    <2>2. s \in toReload[r] /\ Want(cfg[r])[s] # NoConf
      BY <1>2, <2>1 DEF ReplacementInv, Outdated
    <2>3. ReplacementInv(r)'
      BY <1>3, <1>4, <1>5, <2>1, <2>2 DEF ReplacementInv, Outdated, DeleteJobs
    <2> QED
      BY <1>2, <1>3, <1>7, <2>3, SerialFromStage DEF RetryInv, StageInv
  <1>8. CASE phase[r] = "aborted"
    BY <1>2, <1>3, <1>5, <1>8, SerialFromStage DEF RetryInv, StageInv
  <1> QED
    BY <1>2, <1>6, <1>7, <1>8

\* Each step of a load keeps the invariant, its failure included (load_source).
LEMMA LoadMoveInv ==
    ASSUME TypeOK, SerialInv, NEW r \in Reloads, NEW s \in Sources, LoadStep(r, s)
    PROVE  SerialInv'
  <1>1. job[r][s] \in LoadJobs \ {"loaded", "failed"}
    BY DEF LoadStep, LoadStart, LoadWrite, LoadDone, LoadFail, LoadJobs
  <1>2. /\ phase[r] = "loading"
        /\ LoadInv(r)
        /\ RetryInv(r)
        /\ filtered = FilteredIds(cfg[r])
    BY <1>1, LoadJobStage DEF SerialInv
  <1>3. UNCHANGED <<phase, filtered, cfg, attempt, toReload>>
    BY DEF LoadStep, LoadStart, LoadWrite, LoadDone, LoadFail
  <1>4. Want(cfg[r])[s] = cfg[r][s] /\ cfg[r][s] # NoConf /\ sources[s] = NoConf
    BY <1>1, <1>2, WantFact DEF LoadInv, TypeOK, LoadJobs
  <1>5. PICK j \in LoadJobs :
           /\ SetJob(r, s, j)
           /\ j = "loaded" => sources' = [sources EXCEPT ![s] = cfg[r][s]]
           /\ j # "loaded" => UNCHANGED sources
           /\ j = "written" => target' = [target EXCEPT ![s] = cfg[r][s]]
    BY DEF LoadStep, LoadStart, LoadWrite, LoadDone, LoadFail, LoadJobs
  <1>6. \A q \in Sources \ {s} : target'[q] = target[q]
    BY DEF LoadStep, LoadStart, LoadWrite, LoadDone, LoadFail, TypeOK
  <1>7. /\ job'[r][s] = j
        /\ \A q \in Sources \ {s} : job'[r][q] = job[r][q] /\ sources'[q] = sources[q]
        /\ sources'[s] = IF j = "loaded" THEN Want(cfg[r])[s] ELSE NoConf
        /\ j = "written" => target'[s] = Want(cfg[r])[s]
    BY <1>4, <1>5 DEF SetJob, TypeOK
  <1>8. LoadInv(r)'
    BY <1>1, <1>2, <1>3, <1>4, <1>6, <1>7 DEF LoadInv, LoadJobs
  <1> QED
    BY <1>2, <1>3, <1>8, SerialFromStage DEF StageInv, RetryInv

-----------------------------------------------------------------------------
\* Steps of others, refreshers included, do not touch what the invariant is about.
LEMMA FrameInv ==
    ASSUME SerialInv,
           UNCHANGED <<sources, filtered, phase, cfg, attempt, toReload, job>>,
           Refreshers = {} => UNCHANGED target
    PROVE  SerialInv'
  <1> SUFFICES ASSUME NEW r \in Reloads PROVE SerialInv'
    BY SingleReload
  <1>1. /\ StageInv(r)
        /\ RetryInv(r)
        /\ filtered = FilteredIds(cfg[r])
        /\ VerdictSound
    BY DEF SerialInv
  <1>2. StageInv(r)'
    BY <1>1
    DEF StageInv, RemovalInv, ReplacementInv, LoadInv, DeletesOnlyOutdated, Outdated
  <1> QED
    BY <1>1, <1>2, SerialFromStage DEF RetryInv, VerdictSound

\* A rejected configuration changes nothing but the place of the inotify task, which
\* has no subtask left (watch_config).
LEMMA RejectConfigInv ==
    ASSUME TypeOK, SerialInv, NEW r \in Reloads, RejectConfig(r)
    PROVE  SerialInv'
  <1>1. CASE r \notin Watchers
    BY <1>1, FrameInv DEF RejectConfig
  <1>2. CASE r \in Watchers
    <2>1. /\ job[r] = NoJob
          /\ phase' = [phase EXCEPT ![r] = "aborted"]
          /\ UNCHANGED <<sources, filtered, target, cfg, attempt, toReload, job>>
      BY <1>2 DEF RejectConfig, Free
    <2>2. phase'[r] = "aborted"
      BY <2>1 DEF TypeOK
    <2>3. DeletesOnlyOutdated(r)'
      BY <2>1 DEF DeletesOnlyOutdated, DeleteJobs, NoJob
    <2>4. StageInv(r)'
      BY <2>2, <2>3 DEF StageInv
    <2>5. RetryInv(r)'
      BY <2>2 DEF RetryInv
    <2>6. filtered' = FilteredIds(cfg'[r])
      BY <2>1 DEF SerialInv
    <2> QED
      BY <2>2, <2>4, <2>5, <2>6, SerialFromStage
  <1> QED
    BY <1>1, <1>2

\* Every step keeps the invariant.
LEMMA SerialInvStep == TypeOK /\ SerialInv /\ [Next]_vars => SerialInv'
  <1> SUFFICES ASSUME TypeOK, SerialInv, [Next]_vars PROVE SerialInv'
    OBVIOUS
  <1>1. CASE Publish
    BY <1>1, FrameInv DEF Publish
  <1>2. ASSUME NEW r \in Reloads, BeginReload(r) \/ RejectConfig(r) \/ ReloadStep(r)
        PROVE  SerialInv'
    <2> QED
      BY <1>2, RejectConfigInv, BeginReloadInv, StartDeletesInv, FinishRemovalsInv,
         FinishReplacementsInv, FinishLoadsInv, WriteFlagInv DEF ReloadStep
  <1>3. ASSUME NEW r \in Reloads, NEW s \in Sources, DeleteStep(r, s) \/ LoadStep(r, s)
        PROVE  SerialInv'
    <2>1. CASE DeleteDir(r, s)
      BY <2>1, JobMoveInv DEF DeleteDir, DeleteJobs
    <2>2. CASE DeleteFail(r, s)
      BY <2>2, AbortInv DEF DeleteFail, DeleteJobs
    <2> QED
      BY <1>3, <2>1, <2>2, DeleteEntryInv, LoadMoveInv DEF DeleteStep
  <1>4. ASSUME NEW f \in Refreshers,
               RefreshStep(f) \/ \E s \in Sources : RefreshStart(f, s)
        PROVE  SerialInv'
    BY <1>4, FrameInv DEF RefreshStep, RefreshStart, RefreshClear, RefreshWrite, RefreshFail
  <1>5. CASE UNCHANGED vars
    BY <1>5, FrameInv DEF vars
  <1> QED
    BY <1>1, <1>2, <1>3, <1>4, <1>5 DEF Next

\* An empty table satisfies the invariant (init).
LEMMA SerialInvInit == Init => SerialInv
  <1> SUFFICES ASSUME Init, NEW r \in Reloads PROVE SerialInv
    BY SingleReload
  <1>1. cfg[r] = NothingHandled /\ sources = NothingHandled
    BY DEF Init
  <1>2. \A s \in Sources : Want(cfg[r])[s] = NoConf
    BY <1>1, ConstantsAssumption DEF Want, NothingHandled
  <1>3. FilteredIds(cfg[r]) = {}
    BY <1>1 DEF FilteredIds, NothingHandled
  <1>4. \A q \in Reloads : StageInv(q)
    BY <1>1, <1>2, OneReload DEF Init, StageInv, NoJob, Outdated, NothingHandled
  <1> QED
    BY <1>3, <1>4, OneReload DEF Init, SerialInv, RetryInv, VerdictSound

\* The invariant that the properties below rest on.
THEOREM SerialInvariance == Spec => []SerialInv
  <1>1. TypeOK /\ SerialInv /\ [Next]_vars => SerialInv'
    BY SerialInvStep
  <1> QED
    BY <1>1, SerialInvInit, TypeCorrect, PTL DEF Spec

-----------------------------------------------------------------------------
\* No reload ends with an outdated entry (_do_handle_master_config).
THEOREM NoOutdatedSourceHolds == Spec => []NoOutdatedSource
  <1>1. SerialInv => NoOutdatedSource
    <2> SUFFICES ASSUME SerialInv, NEW r \in Reloads,
                        phase[r] \in {"idle", "loading", "ready", "error"}, NEW s \in Sources
                 PROVE  ~Outdated(r, s)
      BY DEF NoOutdatedSource, Outdated
    <2> QED
      BY DEF SerialInv, StageInv, LoadInv, Outdated
  <1> QED
    BY <1>1, SerialInvariance, PTL

\* READY and ERROR mean what the registry achieved (_handle_master_config).
THEOREM VerdictIsSound == Spec => []VerdictSound
  <1>1. SerialInv => VerdictSound
    BY DEF SerialInv
  <1> QED
    BY <1>1, SerialInvariance, PTL

\* The retry never undoes the first attempt (_handle_master_config).
THEOREM RetryKeepsLoaded == Spec => []RetryOnlyLoads
  <1>1. SerialInv => RetryOnlyLoads
    BY DEF SerialInv, RetryInv, RetryOnlyLoads
  <1> QED
    BY <1>1, SerialInvariance, PTL

\* A filtered source is not served as a loaded one (get_sources).
THEOREM FilteredStaysOut == Spec => []FilteredNotLoaded
  <1>1. TypeOK /\ SerialInv => FilteredNotLoaded
    <2> SUFFICES ASSUME TypeOK, SerialInv, NEW r \in Reloads,
                        phase[r] \notin {"removing", "aborted"}, NEW s \in filtered
                 PROVE  sources[s] = NoConf
      BY DEF FilteredNotLoaded
    <2>1. s \in Sources /\ Want(cfg[r])[s] = NoConf
      BY WantFact DEF SerialInv, TypeOK
    <2>2. CASE phase[r] \in {"idle", "ready", "error"}
      BY <2>1, <2>2 DEF SerialInv, StageInv, Outdated
    <2>3. CASE phase[r] = "replacing"
      <3>1. ReplacementInv(r)
        BY <2>3 DEF SerialInv, StageInv
      <3> QED
        BY <2>1, <3>1 DEF ReplacementInv
    <2>4. CASE phase[r] = "loading"
      BY <2>1, <2>4 DEF SerialInv, StageInv, LoadInv
    <2> QED
      BY <2>2, <2>3, <2>4 DEF TypeOK, Phases
  <1> QED
    BY <1>1, TypeCorrect, SerialInvariance, PTL

\* Without refreshers, only the subtasks write directories (load_source,
\* _delete_source).
LEMMA ContentStep ==
    ASSUME Refreshers = {}, TypeOK, SerialInv, ContentMatchesEntry, [Next]_vars
    PROVE  ContentMatchesEntry'
  <1> USE DEF ContentMatchesEntry
  <1>1. CASE /\ UNCHANGED <<sources, target>>
             /\ \A r \in Reloads, s \in Sources :
                   job[r][s] = "deleted" => job'[r][s] = "deleted"
    BY <1>1
  <1>2. ASSUME NEW r \in Reloads, BeginReload(r) \/ RejectConfig(r) \/ ReloadStep(r)
        PROVE  ContentMatchesEntry'
    <2>1. UNCHANGED <<sources, target>>
      BY <1>2 DEF BeginReload, RejectConfig, ReloadStep, StartDeletes, FinishRemovals,
                  FinishReplacements, FinishLoads, WriteFlag
    <2>2. CASE RejectConfig(r) \/ WriteFlag(r)
      BY <1>1, <2>1, <2>2 DEF RejectConfig, WriteFlag
    <2>3. CASE StartDeletes(r)
      <3>1. \A q \in Reloads, s \in Sources :
               job[q][s] = "deleted" => job'[q][s] = "deleted"
        BY <2>3, OneReload DEF StartDeletes, TypeOK
      <3> QED
        BY <1>1, <2>1, <3>1
    <2>4. CASE BeginReload(r) \/ FinishRemovals(r) \/ FinishReplacements(r) \/ FinishLoads(r)
      <3>1. \A q \in Reloads, s \in Sources : job[q][s] # "deleted"
        BY <2>4, OneReload
        DEF BeginReload, Free, FinishRemovals, FinishReplacements, FinishLoads, NoJob
      <3> QED
        BY <1>1, <2>1, <3>1
    <2> QED
      BY <1>2, <2>2, <2>3, <2>4 DEF ReloadStep
  <1>3. ASSUME NEW r \in Reloads, NEW s \in Sources, DeleteStep(r, s)
        PROVE  ContentMatchesEntry'
    <2>1. CASE DeleteDir(r, s)
      <3>1. /\ job'[r][s] = "deleted"
            /\ UNCHANGED sources
            /\ \A q \in Sources \ {s} : target'[q] = target[q] /\ job'[r][q] = job[r][q]
        BY <2>1 DEF DeleteDir, SetJob, TypeOK
      <3> QED
        BY <3>1, OneReload
    <2>2. CASE DeleteEntry(r, s)
      <3>1. /\ sources'[s] = NoConf
            /\ UNCHANGED target
            /\ \A q \in Sources \ {s} : sources'[q] = sources[q] /\ job'[r][q] = job[r][q]
        BY <2>2 DEF DeleteEntry, AbortReload, SetJob, TypeOK
      <3> QED
        BY <3>1, OneReload
    <2>3. CASE DeleteFail(r, s)
      <3>1. PICK q \in Reloads \ {r} : TRUE
        BY <2>3 DEF DeleteFail
      <3> QED
        BY <3>1, OneReload
    <2> QED
      BY <1>3, <2>1, <2>2, <2>3 DEF DeleteStep
  <1>4. ASSUME NEW r \in Reloads, NEW s \in Sources, LoadStep(r, s)
        PROVE  ContentMatchesEntry'
    <2>1. job[r][s] \in {"queued", "loading", "written"}
      BY <1>4 DEF LoadStep, LoadStart, LoadWrite, LoadDone, LoadFail
    <2>2. LoadInv(r)
      BY <2>1, LoadJobStage DEF LoadJobs
    <2>3. /\ sources[s] = NoConf
          /\ job[r][s] = "written" => target[s] = cfg[r][s]
      BY <2>1, <2>2, WantFact DEF LoadInv, TypeOK
    <2>4. sources'[s] \in {NoConf, target'[s]}
      BY <1>4, <2>3 DEF LoadStep, LoadStart, LoadWrite, LoadDone, LoadFail, TypeOK
    <2>5. \A q \in Sources \ {s} : sources'[q] = sources[q] /\ target'[q] = target[q]
      BY <1>4 DEF LoadStep, LoadStart, LoadWrite, LoadDone, LoadFail, TypeOK
    <2>6. \A q \in Sources : job[r][q] # "deleted"
      BY <2>2 DEF LoadInv, LoadJobs
    <2> QED
      BY <2>4, <2>5, <2>6, OneReload
  <1>5. CASE Publish
    BY <1>1, <1>5 DEF Publish
  <1>6. CASE UNCHANGED vars
    BY <1>1, <1>6 DEF vars
  <1> QED
    BY <1>2, <1>3, <1>4, <1>5, <1>6 DEF Next

\* Without refreshers, a source is served with its own content, whatever load
\* failed before (load_source, _delete_source).
THEOREM ContentIsRight ==
    ASSUME Refreshers = {}
    PROVE  Spec => []ContentMatchesEntry
  <1>1. Init => ContentMatchesEntry
    BY DEF Init, ContentMatchesEntry, NothingHandled
  <1>2. TypeOK /\ SerialInv /\ ContentMatchesEntry /\ [Next]_vars => ContentMatchesEntry'
    BY ContentStep
  <1> QED
    BY <1>1, <1>2, TypeCorrect, SerialInvariance, PTL DEF Spec

-----------------------------------------------------------------------------
(* The refinement.                                                         *)

\* The single reload coroutine that the refinement mapping follows.
LEMMA TheReloadIn == TheReload \in Reloads
  BY SingleReload DEF TheReload

\* An empty table is an initial state of SourceTable.
LEMMA TableInit == Init => Table!Init
  BY TheReloadIn, ConstantsAssumption DEF Init, Table!Init, Want, NothingHandled

\* Every step of the registry drops an outdated entry, adds a wanted one, changes
\* what is wanted, or does not touch the table.
LEMMA TableStep ==
    ASSUME TypeOK, SerialInv, [Next]_vars
    PROVE  [Table!Next]_<<Want(cfg[TheReload]), sources>>
  <1>1. CASE UNCHANGED <<sources, cfg>>
    BY <1>1
  <1>2. ASSUME NEW r \in Reloads, BeginReload(r)
        PROVE  Table!Retarget
    <2>1. cfg'[TheReload] \in [Sources -> OptConfs] /\ UNCHANGED sources
      BY <1>2, TheReloadIn, OneReload, ConstantsAssumption DEF BeginReload, TypeOK
    <2> QED
      BY <2>1, WantFact DEF Table!Retarget, Want, OptConfs
  <1>3. ASSUME NEW r \in Reloads, NEW s \in Sources, DeleteEntry(r, s), sources' # sources
        PROVE  Table!Drop(s)
    <2>1. r = TheReload
      BY TheReloadIn, OneReload
    <2>2. Outdated(r, s)
      BY <1>3, DeleteJobStage DEF DeleteEntry, DeleteJobs
    <2>3. sources' = [sources EXCEPT ![s] = NoConf] /\ UNCHANGED cfg
      BY <1>3 DEF DeleteEntry
    <2> QED
      BY <2>1, <2>2, <2>3 DEF Table!Drop, Outdated
  <1>4. ASSUME NEW r \in Reloads, NEW s \in Sources, LoadDone(r, s)
        PROVE  Table!Add(s)
    <2>1. r = TheReload
      BY TheReloadIn, OneReload
    <2>2. LoadInv(r) /\ job[r][s] = "written"
      BY <1>4, LoadJobStage DEF LoadDone, LoadJobs
    <2>3. /\ sources[s] = NoConf
          /\ Want(cfg[r])[s] = cfg[r][s]
          /\ cfg[r][s] \in Confs
      BY <2>2, WantFact DEF LoadInv, TypeOK, OptConfs
    <2>4. sources' = [sources EXCEPT ![s] = cfg[r][s]] /\ UNCHANGED cfg
      BY <1>4 DEF LoadDone
    <2> QED
      BY <2>1, <2>3, <2>4 DEF Table!Add
  <1>5. \/ UNCHANGED <<sources, cfg>>
        \/ \E r \in Reloads : BeginReload(r)
        \/ \E r \in Reloads, s \in Sources : DeleteEntry(r, s) /\ sources' # sources
        \/ \E r \in Reloads, s \in Sources : LoadDone(r, s)
    BY ZenonT(40) DEF Next, Publish, ReloadStep, RejectConfig, StartDeletes, FinishRemovals,
           FinishReplacements, FinishLoads, WriteFlag, DeleteStep, DeleteDir, DeleteFail,
           DeleteEntry, LoadStep, LoadStart, LoadWrite, LoadFail, RefreshStart,
           RefreshStep, RefreshClear, RefreshWrite, RefreshFail, vars
  <1> QED
    BY <1>1, <1>2, <1>3, <1>4, <1>5 DEF Table!Next

\* The table of loaded sources implements SourceTable (_SOURCES).
THEOREM TableImplemented == Spec => ImplementsTable
  <1>1. TypeOK /\ SerialInv /\ [Next]_vars => [Table!Next]_<<Want(cfg[TheReload]), sources>>
    BY TableStep
  <1> QED
    BY <1>1, TableInit, TypeCorrect, SerialInvariance, PTL
    DEF Spec, ImplementsTable, Table!Spec
=============================================================================
