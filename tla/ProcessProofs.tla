----------------------------- MODULE ProcessProofs -----------------------------
(***************************************************************************)
(* The types of Process and its invariants about the status file and the   *)
(* probe, for any number of changes, faults and ticks.                     *)
(***************************************************************************)
EXTENDS Process, TLAPS

\* The shape of each variable.
Shapes ==
    /\ watch \in {"none", "armed", "gone"}
    /\ init \in [at : {"start", "read", "reload", "done"}, version : Nat]
    /\ task \in [at : {"none", "new", "wait", "read", "reload", "dead"}, version : Nat]
    /\ applied \in Nat \cup {None}
    /\ flag \in [value : {None, "READY", "LOADING", "ERROR", "SOURCE_ERROR"}, age : Nat]
    /\ loop \in [at : {"none", "pass", "sleep"}, left : Nat]
    /\ faults \in Nat

Booleans  == slave \in BOOLEAN /\ event \in BOOLEAN
FileShape == file \in [version : Nat, ok : BOOLEAN, torn : BOOLEAN]

\* The bounds, and what has been read is not ahead of the file.
Bounds ==
    /\ file.version <= MaxVersion
    /\ file.torn = TRUE => file.version < MaxVersion
    /\ init.version <= file.version /\ task.version <= file.version
    /\ applied # None => applied <= file.version
    /\ flag.age <= MaxAge /\ faults <= MaxFaults
    /\ watch # "none" => task.at \notin {"none", "new"}
    /\ init.at \in {"start", "read"} => task.at = "none"

\* A slave has no watch loop, an API process has one while it runs.
LoopInv ==
    /\ slave => loop.at = "none"
    /\ ~slave /\ init.at # "start" => loop.at # "none"
    /\ loop.at = "none" => loop.left = 0
    /\ loop.at = "pass" => loop.left <= PassTime
    /\ loop.at = "sleep" => loop.left <= Interval

\* The watch loop writes the file before it can be older than the interval and a pass.
AgeInv ==
    loop.at # "none" =>
        /\ loop.at = "sleep" => flag.age + loop.left <= Interval
        /\ loop.at = "pass" => flag.age + loop.left <= Interval + PassTime

\* What the status file says of a slave, and of a process whose start is over.
FlagInv ==
    /\ init.at = "done" => flag.value # "LOADING"
    /\ slave /\ init.at # "start" /\ flag.value = "READY" => applied # None

ProcessInv == Booleans /\ FileShape /\ Shapes /\ Bounds /\ LoopInv /\ AgeInv /\ FlagInv

-----------------------------------------------------------------------------
\* The inductive invariant: types, who has a watch loop and where it is in its pass or
\* sleep, the age of the status file and what it says (registry.init, watch_source,
\* update_flag, scm-is-ready).
THEOREM ProcessInvariance == Spec => []ProcessInv
<1> USE ProcessAssumption
<1>1. ASSUME Init PROVE ProcessInv
  <2>1. Booleans
    BY <1>1, Zenon DEF Init, Booleans
  <2>2. FileShape
    BY <1>1 DEF Init, FileShape
  <2>3. Shapes /\ Bounds
    BY <1>1 DEF Init, Shapes, Bounds, NoTask, NoLoop, MaxAge
  <2>4. LoopInv /\ AgeInv /\ FlagInv
    BY <1>1 DEF Init, LoopInv, AgeInv, FlagInv, NoTask, NoLoop
  <2>5. QED
    BY <2>1, <2>2, <2>3, <2>4 DEF ProcessInv
<1>2. ASSUME ProcessInv, [Next]_vars PROVE ProcessInv'
  <2>1. CASE OpenFile
    <3>1. Booleans'
      BY <1>2, <2>1, Zenon DEF ProcessInv, Booleans, OpenFile, Write
    <3>2. FileShape'
      BY <1>2, <2>1 DEF ProcessInv, FileShape, OpenFile, Write
    <3>3. Shapes' /\ Bounds'
      BY <1>2, <2>1 DEF ProcessInv, FileShape, Shapes, Bounds, OpenFile, Write
    <3>4. LoopInv' /\ AgeInv' /\ FlagInv'
      BY <1>2, <2>1 DEF ProcessInv, FileShape, Shapes, LoopInv, AgeInv, FlagInv, OpenFile, Write
    <3>5. QED
      BY <3>1, <3>2, <3>3, <3>4 DEF ProcessInv
  <2>2. CASE CloseFile
    <3>1. Booleans'
      BY <1>2, <2>2, Zenon DEF ProcessInv, Booleans, CloseFile, Write
    <3>2. FileShape'
      <4>1. \E ok \in BOOLEAN : file' = [version |-> file.version + 1, ok |-> ok, torn |-> FALSE]
        BY <2>2, Zenon DEF CloseFile, Write
      <4>2. QED
        BY <1>2, <4>1 DEF ProcessInv, FileShape
    <3>3. Shapes' /\ Bounds'
      BY <1>2, <2>2 DEF ProcessInv, FileShape, Shapes, Bounds, CloseFile, Write, Fault
    <3>4. LoopInv' /\ AgeInv' /\ FlagInv'
      BY <1>2, <2>2 DEF ProcessInv, FileShape, Shapes, LoopInv, AgeInv, FlagInv, CloseFile,
         Write
    <3>5. QED
      BY <3>1, <3>2, <3>3, <3>4 DEF ProcessInv
  <2>3. CASE ReplaceFile
    <3>1. Booleans'
      BY <1>2, <2>3, Zenon DEF ProcessInv, Booleans, ReplaceFile, Write
    <3>2. FileShape'
      <4>1. file' = [file EXCEPT !.version = file.version + 1, !.ok = TRUE]
        BY <2>3, Zenon DEF ReplaceFile, Write
      <4>2. file \in [version : Nat, ok : BOOLEAN, torn : BOOLEAN]
        BY <1>2 DEF ProcessInv, FileShape
      <4>3. [file EXCEPT !.version = file.version + 1] \in [version : Nat, ok : BOOLEAN, torn : BOOLEAN]
        BY <4>2
      <4>4. file' = [[file EXCEPT !.version = file.version + 1] EXCEPT !.ok = TRUE]
        BY <4>1, <4>2
      <4>5. QED
        BY <4>3, <4>4 DEF FileShape
    <3>3. Shapes' /\ Bounds'
      BY <1>2, <2>3 DEF ProcessInv, FileShape, Shapes, Bounds, ReplaceFile, Write
    <3>4. LoopInv' /\ AgeInv' /\ FlagInv'
      BY <1>2, <2>3 DEF ProcessInv, FileShape, Shapes, LoopInv, AgeInv, FlagInv, ReplaceFile,
         Write
    <3>5. QED
      BY <3>1, <3>2, <3>3, <3>4 DEF ProcessInv
  <2>4. CASE Start
    <3>1. Booleans'
      BY <1>2, <2>4, Zenon DEF ProcessInv, Booleans, Start, world
    <3>2. FileShape'
      BY <1>2, <2>4 DEF ProcessInv, FileShape, Start, world
    <3>3. Shapes' /\ Bounds'
      BY <1>2, <2>4 DEF ProcessInv, FileShape, Shapes, Bounds, Start, Flag, NoLoop, Pass,
         Asleep, world, MaxAge
    <3>4. LoopInv' /\ AgeInv' /\ FlagInv'
      BY <1>2, <2>4 DEF ProcessInv, FileShape, Shapes, LoopInv, AgeInv, FlagInv, Start, Flag,
         NoLoop, Pass, Asleep, world
    <3>5. QED
      BY <3>1, <3>2, <3>3, <3>4 DEF ProcessInv
  <2>5. CASE InitRead
    <3>1. Booleans'
      BY <1>2, <2>5, Zenon DEF ProcessInv, Booleans, InitRead, Die, world
    <3>2. FileShape'
      BY <1>2, <2>5 DEF ProcessInv, FileShape, InitRead, Die, world
    <3>3. Shapes' /\ Bounds'
      <4>1. CASE Usable
        <5>1. /\ init' = [at |-> "reload", version |-> file.version]
              /\ task' = [at |-> "new", version |-> 0]
              /\ UNCHANGED <<file, watch, applied, flag, loop, faults>>
          BY <2>5, <4>1 DEF InitRead, NoTask, world
        <5>2. watch = "none"
          BY <1>2, <2>5 DEF ProcessInv, Bounds, InitRead
        <5>3. QED
          BY <1>2, <5>1, <5>2 DEF ProcessInv, FileShape, Shapes, Bounds
      <4>2. CASE ~Usable
        <5>1. /\ watch' = "none" /\ applied' = None
              /\ init' = [at |-> "start", version |-> 0] /\ task' = NoTask
              /\ loop' = NoLoop
              /\ UNCHANGED <<file, flag, faults>>
          BY <2>5, <4>2 DEF InitRead, Die
        <5>2. QED
          BY <1>2, <5>1 DEF ProcessInv, FileShape, Shapes, Bounds, NoTask, NoLoop
      <4>3. QED
        BY <4>1, <4>2
    <3>4. LoopInv' /\ AgeInv' /\ FlagInv'
      BY <1>2, <2>5 DEF ProcessInv, FileShape, Shapes, LoopInv, AgeInv, FlagInv, InitRead,
         Die, NoTask, NoLoop, world
    <3>5. QED
      BY <3>1, <3>2, <3>3, <3>4 DEF ProcessInv
  <2>6. CASE AddWatch
    <3>1. Booleans'
      BY <1>2, <2>6, Zenon DEF ProcessInv, Booleans, AddWatch
    <3>2. FileShape'
      BY <1>2, <2>6 DEF ProcessInv, FileShape, AddWatch
    <3>3. Shapes' /\ Bounds'
      BY <1>2, <2>6 DEF ProcessInv, FileShape, Shapes, Bounds, AddWatch
    <3>4. LoopInv' /\ AgeInv' /\ FlagInv'
      BY <1>2, <2>6 DEF ProcessInv, FileShape, Shapes, LoopInv, AgeInv, FlagInv, AddWatch
    <3>5. QED
      BY <3>1, <3>2, <3>3, <3>4 DEF ProcessInv
  <2>7. CASE NextEvent
    <3>1. Booleans'
      BY <1>2, <2>7, Zenon DEF ProcessInv, Booleans, NextEvent
    <3>2. FileShape'
      BY <1>2, <2>7 DEF ProcessInv, FileShape, NextEvent
    <3>3. Shapes' /\ Bounds'
      BY <1>2, <2>7 DEF ProcessInv, FileShape, Shapes, Bounds, NextEvent
    <3>4. LoopInv' /\ AgeInv' /\ FlagInv'
      BY <1>2, <2>7 DEF ProcessInv, FileShape, Shapes, LoopInv, AgeInv, FlagInv, NextEvent
    <3>5. QED
      BY <3>1, <3>2, <3>3, <3>4 DEF ProcessInv
  <2>8. CASE TaskRead
    <3>1. Booleans'
      BY <1>2, <2>8, Zenon DEF ProcessInv, Booleans, TaskRead, world
    <3>2. FileShape'
      BY <1>2, <2>8 DEF ProcessInv, FileShape, TaskRead, world
    <3>3. Shapes' /\ Bounds'
      BY <1>2, <2>8 DEF ProcessInv, FileShape, Shapes, Bounds, TaskRead, world
    <3>4. LoopInv' /\ AgeInv' /\ FlagInv'
      BY <1>2, <2>8 DEF ProcessInv, FileShape, Shapes, LoopInv, AgeInv, FlagInv, TaskRead, world
    <3>5. QED
      BY <3>1, <3>2, <3>3, <3>4 DEF ProcessInv
  <2>9. CASE InitReload
    <3>1. Booleans'
      BY <1>2, <2>9, Zenon DEF ProcessInv, Booleans, InitReload, ReloadEnds, world
    <3>2. FileShape'
      BY <1>2, <2>9 DEF ProcessInv, FileShape, InitReload, ReloadEnds, world
    <3>3. Shapes' /\ Bounds'
      BY <1>2, <2>9 DEF ProcessInv, FileShape, Shapes, Bounds, InitReload, ReloadEnds, Flag,
         Fault, world, MaxAge
    <3>4. LoopInv' /\ AgeInv' /\ FlagInv'
      BY <1>2, <2>9 DEF ProcessInv, FileShape, Shapes, LoopInv, AgeInv, FlagInv, InitReload,
         ReloadEnds, Flag, world
    <3>5. QED
      BY <3>1, <3>2, <3>3, <3>4 DEF ProcessInv
  <2>10. CASE TaskReload
    <3>1. Booleans'
      BY <1>2, <2>10, Zenon DEF ProcessInv, Booleans, TaskReload, ReloadEnds, world
    <3>2. FileShape'
      BY <1>2, <2>10 DEF ProcessInv, FileShape, TaskReload, ReloadEnds, world
    <3>3. Shapes' /\ Bounds'
      BY <1>2, <2>10 DEF ProcessInv, FileShape, Shapes, Bounds, TaskReload, ReloadEnds, Flag,
         Fault, world, MaxAge
    <3>4. LoopInv' /\ AgeInv' /\ FlagInv'
      BY <1>2, <2>10 DEF ProcessInv, FileShape, Shapes, LoopInv, AgeInv, FlagInv, TaskReload,
         ReloadEnds, Flag, world
    <3>5. QED
      BY <3>1, <3>2, <3>3, <3>4 DEF ProcessInv
  <2>11. CASE Crash
    <3>1. Booleans'
      BY <1>2, <2>11, Zenon DEF ProcessInv, Booleans, Crash, Die
    <3>2. FileShape'
      BY <1>2, <2>11 DEF ProcessInv, FileShape, Crash, Die
    <3>3. Shapes' /\ Bounds'
      BY <1>2, <2>11 DEF ProcessInv, FileShape, Shapes, Bounds, Crash, Die, Fault, NoTask,
         NoLoop
    <3>4. LoopInv' /\ AgeInv' /\ FlagInv'
      BY <1>2, <2>11 DEF ProcessInv, FileShape, Shapes, LoopInv, AgeInv, FlagInv, Crash, Die,
         NoTask, NoLoop
    <3>5. QED
      BY <3>1, <3>2, <3>3, <3>4 DEF ProcessInv
  <2>12. CASE EndPass
    <3>1. Booleans'
      BY <1>2, <2>12, Zenon DEF ProcessInv, Booleans, EndPass, world
    <3>2. FileShape'
      BY <1>2, <2>12 DEF ProcessInv, FileShape, EndPass, world
    <3>3. Shapes' /\ Bounds'
      BY <1>2, <2>12 DEF ProcessInv, FileShape, Shapes, Bounds, EndPass, Flag, Fault, Asleep,
         world, MaxAge
    <3>4. LoopInv' /\ AgeInv' /\ FlagInv'
      BY <1>2, <2>12 DEF ProcessInv, FileShape, Shapes, LoopInv, AgeInv, FlagInv, EndPass,
         Flag, Asleep, world
    <3>5. QED
      BY <3>1, <3>2, <3>3, <3>4 DEF ProcessInv
  <2>13. CASE Wake
    <3>1. Booleans'
      BY <1>2, <2>13, Zenon DEF ProcessInv, Booleans, Wake, world
    <3>2. FileShape'
      BY <1>2, <2>13 DEF ProcessInv, FileShape, Wake, world
    <3>3. Shapes' /\ Bounds'
      BY <1>2, <2>13 DEF ProcessInv, FileShape, Shapes, Bounds, Wake, Pass, world
    <3>4. LoopInv' /\ AgeInv' /\ FlagInv'
      BY <1>2, <2>13 DEF ProcessInv, FileShape, Shapes, LoopInv, AgeInv, FlagInv, Wake, Pass,
         world
    <3>5. QED
      BY <3>1, <3>2, <3>3, <3>4 DEF ProcessInv
  <2>14. CASE Tick
    <3>1. Booleans'
      BY <1>2, <2>14, Zenon DEF ProcessInv, Booleans, Tick, world
    <3>2. FileShape'
      BY <1>2, <2>14 DEF ProcessInv, FileShape, Tick, world
    <3>3. Shapes' /\ Bounds'
      BY <1>2, <2>14 DEF ProcessInv, FileShape, Shapes, Bounds, Tick, world, MaxAge
    <3>4. LoopInv' /\ AgeInv' /\ FlagInv'
      BY <1>2, <2>14 DEF ProcessInv, FileShape, Shapes, LoopInv, AgeInv, FlagInv, Tick, world
    <3>5. QED
      BY <3>1, <3>2, <3>3, <3>4 DEF ProcessInv
  <2>15. CASE UNCHANGED vars
    BY <1>2, <2>15 DEF vars, ProcessInv, Booleans, FileShape, Shapes, Bounds, LoopInv,
       AgeInv, FlagInv
  <2>16. QED
    BY <1>2, <2>1, <2>2, <2>3, <2>4, <2>5, <2>6, <2>7, <2>8, <2>9, <2>10, <2>11, <2>12, <2>13,
       <2>14, <2>15 DEF Next, ProcessStep
<1>3. QED
  BY <1>1, <1>2, PTL DEF Spec

-----------------------------------------------------------------------------
\* The state of a process has its types, and stays within its bounds.
THEOREM ProcessTypes == Spec => []TypeOK
<1>1. ASSUME ProcessInv PROVE TypeOK
  <2>1. event \in BOOLEAN
    BY <1>1, Zenon DEF ProcessInv, Booleans
  <2>2. file.version \in Nat
    BY <1>1 DEF ProcessInv, FileShape
  <2>3. loop.left \in 0..(IF Interval > PassTime THEN Interval ELSE PassTime)
    BY <1>1, ProcessAssumption DEF ProcessInv, Shapes, LoopInv
  <2>4. /\ file.version \in 0..MaxVersion /\ init.version <= file.version
        /\ task.version <= file.version
        /\ watch \in {"none", "armed", "gone"}
        /\ applied \in 0..file.version \cup {None}
        /\ flag.age \in 0..MaxAge /\ faults \in 0..MaxFaults
        /\ watch # "none" => task.at \notin {"none", "new"}
    BY <1>1, <2>2, ProcessAssumption DEF ProcessInv, Shapes, Bounds, MaxAge
  <2>5. QED
    BY <2>1, <2>3, <2>4 DEF TypeOK
<1>2. QED
  BY <1>1, ProcessInvariance, PTL

\* The status file of an API process is older than the interval only during a pass of
\* the watch loop, and no older than a pass can take.
THEOREM StaleOnlyInPassHolds == Spec => []StaleOnlyInPass
<1>1. ProcessInv => StaleOnlyInPass
  BY ProcessAssumption DEF ProcessInv, Shapes, LoopInv, AgeInv, StaleOnlyInPass
<1>2. QED
  BY <1>1, ProcessInvariance, PTL

\* The probe does not say LOADING when the initial reload is over.
THEOREM LoadingHasEnded == Spec => []LoadingEnds
<1>1. ProcessInv => LoadingEnds
  BY DEF ProcessInv, Shapes, FlagInv, LoadingEnds, Probe
<1>2. QED
  BY <1>1, ProcessInvariance, PTL

\* A slave that says READY has loaded something since it was started.
THEOREM SlaveReadyHolds == Spec => []SlaveReady
<1>1. ProcessInv => SlaveReady
  BY DEF ProcessInv, Shapes, FlagInv, SlaveReady, Probe
<1>2. QED
  BY <1>1, ProcessInvariance, PTL
=============================================================================
