------------------------------- MODULE Process -------------------------------
(***************************************************************************)
(* The life of one process, whose sources are listed in config.yaml: its   *)
(* start and restarts (start, _lifespan, shared_config_slave), the initial *)
(* reload and the task that watches the file (registry.init), and the      *)
(* status file, which the reloads and the watch loop (main.py) write and   *)
(* the readiness probe reads (scm-is-ready).  Registry looks into a        *)
(* reload, which is one step here when it ends.                            *)
(***************************************************************************)
EXTENDS Naturals

CONSTANTS
    MaxVersion,  \* bound: the changes of config.yaml
    MaxFaults,   \* bound: bad configurations, failed reloads and passes, crashes
    Interval,    \* watch_source_interval, in ticks
    PassTime,    \* bound: how long a pass of the watch loop takes
    None

ASSUME ProcessAssumption ==
    /\ MaxVersion \in Nat /\ MaxFaults \in Nat /\ None \notin Nat
    /\ Interval \in Nat \ {0} /\ PassTime \in Nat

VARIABLES
    slave,    \* the process is a slave: it has no watch loop
    file,     \* config.yaml: its version, whether it can be used, and is being written
    watch,    \* the inotify watch in the kernel
    event,    \* an event has not been read yet
    init,     \* registry.init
    task,     \* _WATCH_CONFIG_TASK
    applied,  \* the version of the last reload to end
    flag,     \* the status file, and its age
    loop,     \* _WATCH_SOURCE_TASK, and the ticks it has left
    faults,
    unseen,   \* history: a change that no event tells of
    overlapped \* history: two reloads at once

vars == <<slave, file, watch, event, init, task, applied, flag, loop, faults, unseen, overlapped>>
world == <<slave, file, watch, event>>

-----------------------------------------------------------------------------
MaxAge  == Interval + PassTime + 1
NoLoop  == [at |-> "none", left |-> 0]
PassAndSleep == [at |-> "pass", left |-> Interval + PassTime]        \* mutant
Pass    == [at |-> "pass", left |-> PassTime]
Asleep  == [at |-> "sleep", left |-> Interval]
NoTask  == [at |-> "none", version |-> 0]
Fault   == faults < MaxFaults /\ faults' = faults + 1
Flag(v) == flag' = [value |-> v, age |-> 0]
Usable  == file.ok /\ ~file.torn

\* scm-is-ready
Probe == CASE flag.value = None -> 2
           [] flag.value = "READY" -> IF flag.age > Interval THEN 4 ELSE 0
           [] flag.value = "LOADING" -> 1
           [] OTHER -> 3

Init ==
    /\ slave \in BOOLEAN
    /\ file = [version |-> 0, ok |-> TRUE, torn |-> FALSE]
    /\ watch = "none" /\ event = FALSE
    /\ init = [at |-> "start", version |-> 0] /\ task = NoTask
    /\ applied = None
    /\ flag = [value |-> None, age |-> 0] /\ loop = NoLoop
    /\ faults = 0 /\ unseen = FALSE /\ overlapped = FALSE

-----------------------------------------------------------------------------
(* config.yaml and its watch                                               *)

Write(f, event_) ==
    /\ file' = f
    /\ event' = (event \/ event_)
    /\ unseen' = (unseen \/ (~f.torn /\ watch = "gone"))
    /\ UNCHANGED <<slave, init, task, applied, flag, loop, overlapped>>

OpenFile ==
    /\ file.version < MaxVersion /\ ~file.torn
    /\ Write([file EXCEPT !.torn = TRUE], FALSE)
    /\ UNCHANGED <<watch, faults>>

CloseFile ==
    /\ file.torn
    /\ \/ Write([version |-> file.version + 1, ok |-> TRUE, torn |-> FALSE], watch = "armed")
          /\ UNCHANGED faults
       \/ Write([version |-> file.version + 1, ok |-> FALSE, torn |-> FALSE], watch = "armed")
          /\ Fault
    /\ UNCHANGED watch

\* Another file gets the name: the watch goes with the old one, and IN_IGNORED says so.
ReplaceFile ==
    /\ file.version < MaxVersion /\ ~file.torn
    /\ Write([file EXCEPT !.version = @ + 1, !.ok = TRUE], watch = "armed")
    /\ watch' = IF watch = "armed" THEN "gone" ELSE watch
    /\ UNCHANGED faults

-----------------------------------------------------------------------------
(* The process                                                             *)

\* What ends a process; the start script starts it again.  /tmp/status stays.
Die ==
    /\ watch' = "none" /\ event' = FALSE
    /\ init' = [at |-> "start", version |-> 0] /\ task' = NoTask
    /\ applied' = None /\ loop' = NoLoop
    /\ unseen' = FALSE /\ overlapped' = FALSE
    /\ UNCHANGED <<slave, file, flag>>

Crash == init.at # "start" /\ Die /\ Fault

StartReadyAtOnce ==                                                  \* mutant
    /\ init.at = "start"
    /\ init' = [init EXCEPT !.at = "read"]
    /\ loop' \in IF slave THEN {NoLoop} ELSE {Pass, Asleep}
    /\ UNCHANGED <<world, task, applied, flag, faults, unseen, overlapped>>

\* The first pass of the watch loop may write its READY before this LOADING.
Start ==
    /\ init.at = "start"
    /\ Flag("LOADING")
    /\ init' = [init EXCEPT !.at = "read"]
    /\ loop' \in IF slave THEN {NoLoop} ELSE {Pass, Asleep}
    /\ UNCHANGED <<world, task, applied, faults, unseen, overlapped>>

\* A file that cannot be used ends registry.init, and the process.
InitRead ==
    /\ init.at = "read"
    /\ IF Usable
       THEN /\ init' = [at |-> "reload", version |-> file.version]
            /\ task' = [NoTask EXCEPT !.at = "new"]
            /\ UNCHANGED <<world, applied, flag, loop, unseen, overlapped>>
       ELSE Die
    /\ UNCHANGED faults

AddWatch ==
    /\ task.at = "new"
    /\ watch' = "armed"
    /\ task' = [task EXCEPT !.at = "wait"]
    /\ unseen' = (file.version # init.version)
    /\ UNCHANGED <<slave, file, event, init, applied, flag, loop, faults, overlapped>>

NextEvent ==
    /\ task.at = "wait" /\ event
    /\ event' = FALSE
    /\ task' = [task EXCEPT !.at = "read"]
    /\ UNCHANGED <<slave, file, watch, init, applied, flag, loop, faults, unseen, overlapped>>

\* yaml.load or the configuration raises: nobody awaits the task.
TaskRead ==
    /\ task.at = "read"
    /\ task' = IF Usable THEN [at |-> "reload", version |-> file.version] ELSE [task EXCEPT !.at = "dead"]
    /\ unseen' = FALSE
    /\ overlapped' = (overlapped \/ (Usable /\ init.at = "reload"))
    /\ UNCHANGED <<world, init, applied, flag, loop, faults>>

ReloadEndsQuietly(version) ==                                        \* mutant
    /\ applied' = version
    /\ UNCHANGED <<flag, faults, world, loop, unseen, overlapped>>

\* _handle_master_config: ERROR if every load has failed.
ReloadEnds(version) ==
    /\ applied' = version
    /\ \/ Flag("READY") /\ UNCHANGED faults
       \/ Flag("ERROR") /\ Fault
    /\ UNCHANGED <<world, loop, unseen, overlapped>>

InitReload ==
    /\ init.at = "reload"
    /\ ReloadEnds(init.version)
    /\ init' = [init EXCEPT !.at = "done"]
    /\ UNCHANGED task

TaskReloadDropsEvents ==                                             \* mutant
    /\ task.at = "reload"
    /\ task' = [task EXCEPT !.at = "wait"]
    /\ applied' = task.version /\ Flag("READY") /\ event' = FALSE
    /\ UNCHANGED <<slave, file, watch, init, loop, faults, unseen, overlapped>>

\* A reload that raises (a deletion that fails) ends the task as well.
TaskReload ==
    /\ task.at = "reload"
    /\ \/ ReloadEnds(task.version) /\ task' = [task EXCEPT !.at = "wait"]
       \/ /\ Fault /\ task' = [task EXCEPT !.at = "dead"]
          /\ UNCHANGED <<world, applied, flag, loop, unseen, overlapped>>
    /\ UNCHANGED init

-----------------------------------------------------------------------------
(* _watch_source, and time                                                 *)

EndPassQuietly ==                                                    \* mutant
    /\ loop.at = "pass"
    /\ loop' = Asleep
    /\ \/ Flag("READY") /\ UNCHANGED faults
       \/ UNCHANGED flag /\ Fault
    /\ UNCHANGED <<world, init, task, applied, unseen, overlapped>>

EndPass ==
    /\ loop.at = "pass"
    /\ loop' = Asleep
    /\ \/ Flag("READY") /\ UNCHANGED faults
       \/ Flag("SOURCE_ERROR") /\ Fault
    /\ UNCHANGED <<world, init, task, applied, unseen, overlapped>>

Wake ==
    /\ loop.at = "sleep" /\ loop.left = 0
    /\ loop' = Pass
    /\ UNCHANGED <<world, init, task, applied, flag, faults, unseen, overlapped>>

Tick ==
    /\ loop.at # "none" => loop.left > 0
    /\ flag.age < MaxAge
    /\ flag' = [flag EXCEPT !.age = @ + 1]
    /\ loop' = [loop EXCEPT !.left = IF loop.at = "none" THEN 0 ELSE @ - 1]
    /\ UNCHANGED <<world, init, task, applied, faults, unseen, overlapped>>

-----------------------------------------------------------------------------
ProcessStep ==
    Start \/ InitRead \/ AddWatch \/ NextEvent \/ TaskRead \/ InitReload \/ TaskReload

Next ==
    \/ OpenFile \/ CloseFile \/ ReplaceFile
    \/ ProcessStep \/ Crash
    \/ EndPass \/ Wake \/ Tick

Spec == Init /\ [][Next]_vars

(* The event loop runs each coroutine that can go on, and whoever has opened *)
(* the file closes it.                                                     *)
FairSpec ==
    /\ Spec
    /\ WF_vars(Start) /\ WF_vars(InitRead) /\ WF_vars(AddWatch) /\ WF_vars(NextEvent)
    /\ WF_vars(TaskRead) /\ WF_vars(InitReload) /\ WF_vars(TaskReload) /\ WF_vars(CloseFile)

-----------------------------------------------------------------------------
TypeOK ==
    /\ file.version \in 0..MaxVersion /\ init.version <= file.version /\ task.version <= file.version
    /\ watch \in {"none", "armed", "gone"} /\ event \in BOOLEAN
    /\ applied \in 0..file.version \cup {None}
    /\ loop.left \in 0..(IF Interval > PassTime THEN Interval ELSE PassTime)
    /\ flag.age \in 0..MaxAge /\ faults \in 0..MaxFaults
    /\ watch # "none" => task.at \notin {"none", "new"}

\* The status file of an API process is older than the interval only during a pass, so
\* that the probe says 4 no longer than a pass takes, whatever that pass meets
\* (scm-is-ready, _watch_source).
StaleOnlyInPass ==
    ~slave /\ init.at # "start" /\ flag.age > Interval =>
        loop.at = "pass" /\ flag.age + loop.left <= Interval + PassTime

\* The probe never goes on saying LOADING when the initial reload is over, whoever
\* else writes the file (registry.init, _handle_master_config).
LoadingEnds == init.at = "done" => Probe # 1

\* A slave that says READY has loaded something in this life, although the file of its
\* last life is still there when it starts (registry.init, start).
SlaveReady == slave /\ init.at # "start" /\ Probe \in {0, 4} => applied # None

\* The last version of the file is applied in the end, whenever it came, unless its
\* event was lost, the task has died or two reloads overlapped (watch_config).
ChangesApplied ==
    <>[](\/ applied = file.version
         \/ unseen \/ overlapped
         \/ task.at = "dead" \/ ~file.ok)
=============================================================================
