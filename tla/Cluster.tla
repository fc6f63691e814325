------------------------------- MODULE Cluster -------------------------------
(***************************************************************************)
(* The API process and its slaves: refreshes asked for by a hook or by the *)
(* watch loop of the API process (main.py), the slave_fetch broadcast,     *)
(* which may be lost, the fetches it causes (registry.py), the statuses by *)
(* which the watch loop compares the processes (slave_status.py), and the  *)
(* restarts of a slave.  What a process shows of a source is the hash in   *)
(* its .gitstats; the sources are git sources.  The tables are those of    *)
(* Registry, one entry a step; GitSource and Tarball look into a refresh   *)
(* and a fetch.                                                            *)
(***************************************************************************)
EXTENDS Naturals, FiniteSets

CONSTANTS
    Api,        \* the process that serves the API
    Slaves,     \* the slave processes
    Sources,    \* ids of the sources
    Master,     \* id of the master source
    Wanted,     \* the sources that each revision of the master source asks for
    Hidden,     \* for each process, the sources that its tag filter excludes
    Hooks,      \* the requests to refresh a source
    MaxRev,     \* bound: the revisions pushed to each source
    MaxFaults,  \* bound: lost messages and answers, failed works, restarts
    LongInterval, \* TRUE: the watch loop sleeps longer than fetches take
    NoHash      \* no .gitstats

Procs   == {Api} \cup Slaves
Ids     == Sources \cup {Master}
Callers == Sources \cup Hooks    \* a task of the watch loop for each source
Hashes(i) == 0..MaxRev[i] \cup {NoHash}
Kinds   == {"unknown", "loaded", "filtered"}

ASSUME ClusterAssumption ==
    /\ Api \notin Slaves /\ IsFiniteSet(Slaves) /\ Master \notin Sources
    /\ Hooks \cap Sources = {} /\ NoHash \notin Nat
    /\ MaxRev \in [Ids -> Nat] /\ MaxFaults \in Nat
    /\ Wanted \in [0..MaxRev[Master] -> SUBSET Sources]
    /\ Hidden \in [Procs -> SUBSET Sources] /\ Hidden[Api] = {}

VARIABLES
    remote,   \* the revision of each source where it comes from
    hash,     \* what .gitstats shows of each source in each process
    entry,    \* _SOURCES and FILTERED_SOURCES of each process
    toload,   \* the loads that a reload still has to start
    fetch,    \* the fetch of each source under way in each slave
    inbox,    \* slave_fetch messages not yet handled
    caller,   \* the refreshes and watch tasks of the API process
    loaded,   \* the sources of the API process whose object says is_loaded
    replaced, \* the callers that hold an object which the table has dropped
    seen,     \* what a watch task has been answered
    faults,
    diverged, \* history: the processes differed since the watch task began
    missed    \* history: the sources of which a slave_fetch found nothing to fetch

vars == <<remote, hash, entry, toload, fetch, inbox, caller, loaded, replaced,
          seen, faults, diverged, missed>>
objects == <<loaded, replaced>>

-----------------------------------------------------------------------------
Entries(p, r) ==
    [i \in Sources |-> IF i \notin Wanted[r] THEN "unknown"
                       ELSE IF i \in Hidden[p] THEN "filtered" ELSE "loaded"]

StatusAlways(p, i) == {hash[p][i]}                                   \* mutant

\* _get_source_status: nothing to compare from a filtered source, no hash from an
\* unknown one.
Status(p, i) == CASE entry[p][i] = "loaded"   -> {hash[p][i]}
                  [] entry[p][i] = "filtered" -> {}
                  [] entry[p][i] = "unknown"  -> {NoHash}

NeedsRefreshIfNone(H) == NoHash \in H                                \* mutant
\* _source_needs_refresh, on the hashes of those that answered.
NeedsRefresh(H) == NoHash \in H \/ Cardinality(H) > 1
\* _is_valid, by which the pages of the web interface mark a source.
IsValid(H) == NoHash \notin H /\ Cardinality(H) <= 1
AllStatuses(i) == UNION {Status(p, i) : p \in Procs}

\* A hook asks once ("new"); the watch tasks rest between two passes.
Resting == [at |-> "rest", id |-> Master, rev |-> 0]
NothingSeen == [by |-> {}, hashes |-> {}]
NoFetch == [busy |-> FALSE, rev |-> NoHash, load |-> FALSE]
Rest(c) == caller' = [caller EXCEPT ![c] = Resting]
\* get_source: the sources that process p has.
Known(p) == {Master} \cup {i \in Sources : entry[p][i] = "loaded"}
At(i, places) == \E c \in Callers : caller[c].id = i /\ caller[c].at \in places
\* The tarball handler knows the source, and its object says that it is loaded: it
\* does so from the end of a refresh, even if another one is not at its end.
Served(i) == i \in Known(Api) /\ i \in loaded
Fault == faults < MaxFaults /\ faults' = faults + 1

Init ==
    /\ remote = [i \in Ids |-> 0]
    /\ hash = [p \in Procs |-> [i \in Ids |->
                 IF i = Master \/ (i \in Wanted[0] \ Hidden[p]) THEN 0 ELSE NoHash]]
    /\ entry = [p \in Procs |-> Entries(p, 0)]
    /\ toload = [p \in Procs |-> {}]
    /\ fetch = [p \in Slaves |-> [i \in Ids |-> NoFetch]]
    /\ inbox = [p \in Slaves |-> {}]
    /\ caller = [c \in Callers |-> IF c \in Hooks THEN [Resting EXCEPT !.at = "new"] ELSE Resting]
    /\ loaded = Ids
    /\ replaced = {}
    /\ seen = [i \in Sources |-> NothingSeen]
    /\ faults = 0
    /\ diverged = {}
    /\ missed = {}

\* What a status should tell: some process lacks source i, or two that have it differ.
Differ(i) == \E p, q \in Procs :
    \/ entry[p][i] = "unknown"
    \/ entry[p][i] = "loaded" /\ hash[p][i] = NoHash
    \/ entry[p][i] = "loaded" /\ entry[q][i] = "loaded" /\ hash[p][i] # hash[q][i]

\* Slave p handles a slave_fetch of source i that comes during the load of i, when
\* the slave does not know i yet, or for which the API process has no i any more.
Misses(p, i) ==
    /\ i \in inbox[p] \ inbox'[p]
    /\ IF i \in Known(p) THEN i \notin Known(Api) ELSE fetch[p][i].busy

\* Nothing else changes; diverged takes note of the differences, missed of the misses.
Only(rest) ==
    /\ UNCHANGED rest
    /\ diverged' = {i \in Sources : caller'[i].at # "rest" /\
                                   (i \in diverged \/ Differ(i)')}
    /\ missed' = missed \cup {i \in Sources : \E p \in Slaves : Misses(p, i)}

Push(i) ==
    /\ remote[i] < MaxRev[i]
    /\ remote' = [remote EXCEPT ![i] = @ + 1]
    /\ Only(<<hash, entry, toload, fetch, inbox, caller, seen, faults, objects>>)

-----------------------------------------------------------------------------
(* registry.refresh, and refresh and broadcast of _refresh_source_if_needed. *)

\* get_source_check_auth: an unknown id is a 404.
HookStart(h, i) ==
    /\ caller[h].at = "new"
    /\ i \in Known(Api)
    /\ caller' = [caller EXCEPT ![h] = [at |-> "copy", id |-> i, rev |-> 0]]
    /\ loaded' = loaded \ {i}
    /\ UNCHANGED replaced
    /\ Only(<<remote, hash, entry, toload, fetch, inbox, seen, faults>>)

\* rsync --delete removes .gitstats, which is written again after awaits.  Of the
\* master source it is the content that counts: the reload reads it from its file.
RefreshCopy(c) ==
    /\ caller[c].at = "copy"
    /\ hash' = [hash EXCEPT ![Api][caller[c].id] =
                   IF caller[c].id = Master THEN remote[Master] ELSE NoHash]
    /\ caller' = [caller EXCEPT ![c] = [at |-> "write", id |-> @.id, rev |-> remote[@.id]]]
    /\ Only(<<remote, entry, toload, fetch, inbox, seen, faults, objects>>)

\* A refresh begins or ends: its object says so, if the table still has that object.
Begins(c) == loaded' = IF c \in replaced THEN loaded ELSE loaded \ {caller[c].id}
Ends(c)   == loaded' = IF c \in replaced THEN loaded ELSE loaded \cup {caller[c].id}

\* The refresh raises before it has copied: no broadcast.
RefreshFail(c) ==
    /\ caller[c].at = "copy"
    /\ Fault
    /\ Rest(c)
    /\ Ends(c)
    /\ replaced' = replaced \ {c}
    /\ Only(<<remote, hash, entry, toload, fetch, inbox, seen>>)

AfterReloadKeeps(p, r) ==                                            \* mutant
    /\ UNCHANGED <<entry, toload>>
    /\ hash' = [hash EXCEPT ![p] = [i \in Ids |->
                  IF i = Master THEN r ELSE IF i \notin Wanted[r] THEN NoHash ELSE @[i]]]

\* The entries of process p after reload_master_config has removed what revision r
\* does not want; what it wants, and is not there, remains to be loaded.
AfterReload(p, r) ==
    /\ entry' = [entry EXCEPT ![p] = [i \in Sources |->
                   IF Entries(p, r)[i] = "loaded" /\ entry[p][i] # "loaded"
                   THEN "unknown" ELSE Entries(p, r)[i]]]
    /\ toload' = [toload EXCEPT ![p] =
                    {i \in Sources : Entries(p, r)[i] = "loaded" /\ entry[p][i] # "loaded"}]
    /\ hash' = [hash EXCEPT ![p] = [i \in Ids |->
                  IF i = Master THEN r
                  ELSE IF entry[p][i] = "loaded" /\ i \notin Wanted[r] THEN NoHash ELSE @[i]]]

\* The callers whose object the step takes from the table.
Dropped == {c \in Callers : /\ caller[c].at \in {"ask", "copy", "write"}
                            /\ caller[c].id \in Known(Api) /\ caller[c].id \notin Known(Api)'}

RefreshWrite(c) ==
    LET i == caller[c].id IN
    /\ caller[c].at = "write"
    /\ Ends(c)
    /\ IF i = Master
       THEN /\ AfterReload(Api, hash[Api][Master])
            /\ caller' = [caller EXCEPT ![c].at = "reload"]
       ELSE /\ hash' = [hash EXCEPT ![Api][i] = caller[c].rev]
            /\ caller' = [caller EXCEPT ![c].at = "publish"]
            /\ UNCHANGED <<entry, toload>>
    /\ replaced' = (replaced \cup Dropped) \ {c}
    /\ Only(<<remote, fetch, inbox, seen, faults>>)

ApiLoadMaster(i) ==                                                  \* mutant
    /\ i \in toload[Api]
    /\ toload' = [toload EXCEPT ![Api] = @ \ {i}]
    /\ hash' = [hash EXCEPT ![Api][i] = remote[Master]]
    /\ entry' = [entry EXCEPT ![Api][i] = "loaded"]
    /\ loaded' = loaded \cup {i}
    /\ Only(<<remote, fetch, inbox, caller, replaced, seen, faults>>)

\* The loads of the API process itself, each of a new object.
ApiLoad(i) ==
    /\ i \in toload[Api]
    /\ toload' = [toload EXCEPT ![Api] = @ \ {i}]
    /\ hash' = [hash EXCEPT ![Api][i] = remote[i]]
    /\ entry' = [entry EXCEPT ![Api][i] = "loaded"]
    /\ loaded' = loaded \cup {i}
    /\ Only(<<remote, fetch, inbox, caller, replaced, seen, faults>>)

ReloadEnd(c) ==
    /\ caller[c].at = "reload"
    /\ toload[Api] = {}
    /\ caller' = [caller EXCEPT ![c].at = "publish"]
    /\ Only(<<remote, hash, entry, toload, fetch, inbox, seen, faults, objects>>)

\* Redis pub/sub: whoever does not listen does not get it.
Broadcast(c) ==
    /\ caller[c].at = "publish"
    /\ \E lost \in SUBSET Slaves :
         /\ faults + Cardinality(lost) <= MaxFaults
         /\ faults' = faults + Cardinality(lost)
         /\ inbox' = [p \in Slaves |-> IF p \in lost THEN inbox[p]
                                       ELSE inbox[p] \cup {caller[c].id}]
    /\ Rest(c)
    /\ Only(<<remote, hash, entry, toload, fetch, seen, objects>>)

-----------------------------------------------------------------------------
(* _watch_source                                                           *)

\* What the pass before has caused has ended while the loop slept.
Calm == \A p \in Slaves : inbox[p] = {} /\ \A i \in Ids : ~fetch[p][i].busy

WatchPass ==
    /\ LongInterval => Calm
    /\ \A i \in Sources : caller[i].at = "rest"
    /\ LET S == Known(Api) \ {Master} IN
       /\ S # {}
       /\ caller' = [c \in Callers |->
                       IF c \in S THEN [at |-> "ask", id |-> c, rev |-> 0] ELSE caller[c]]
    /\ Only(<<remote, hash, entry, toload, fetch, inbox, seen, faults, objects>>)

Answer(i, p) ==
    /\ caller[i].at = "ask"
    /\ p \notin seen[i].by
    /\ seen' = [seen EXCEPT ![i] = [by |-> @.by \cup {p}, hashes |-> @.hashes \cup Status(p, i)]]
    /\ Only(<<remote, hash, entry, toload, fetch, inbox, caller, faults, objects>>)

\* All have answered, or those that have not are MissingAnswers.
Decide(i) ==
    /\ caller[i].at = "ask"
    /\ \/ seen[i].by = Procs /\ UNCHANGED faults
       \/ seen[i].by # Procs /\ Fault
    /\ IF NeedsRefresh(seen[i].hashes)
       THEN /\ caller' = [caller EXCEPT ![i].at = "copy"]
            /\ Begins(i)
            /\ UNCHANGED replaced
       ELSE Rest(i) /\ replaced' = replaced \ {i} /\ UNCHANGED loaded
    /\ seen' = [seen EXCEPT ![i] = NothingSeen]
    /\ Only(<<remote, hash, entry, toload, fetch, inbox>>)

-----------------------------------------------------------------------------
(* The slaves                                                              *)

HandleUnknown(p, i) ==
    /\ i \in inbox[p] \ Known(p)
    /\ inbox' = [inbox EXCEPT ![p] = @ \ {i}]
    /\ Only(<<remote, hash, entry, toload, fetch, caller, seen, faults, objects>>)

\* A fetch has got its response, and removes the directory; also under another one
\* of the same source, which then has to try again and gets what this one gets.
StartFetch(p, i, load) ==
    /\ fetch' = [fetch EXCEPT ![p][i] =
                   [busy |-> TRUE, rev |-> hash[Api][i], load |-> load \/ @.load]]
    /\ hash' = [hash EXCEPT ![p][i] = NoHash]

\* _slave_fetch of a source that the slave has.  While it is not loaded in the API
\* process, the attempts may all end before it is.
HandleFetch(p, i) ==
    /\ i \in inbox[p] \cap Known(p)
    /\ inbox' = [inbox EXCEPT ![p] = @ \ {i}]
    /\ \/ Served(i) /\ StartFetch(p, i, FALSE) /\ UNCHANGED faults
       \/ ~Served(i) /\ UNCHANGED <<fetch, hash, faults>>
       \/ Served(i) /\ Fault /\ UNCHANGED <<fetch, hash>>
    /\ Only(<<remote, entry, toload, caller, seen, objects>>)

\* load_source, of a source that the API process serves.
LoadStart(p, i) ==
    /\ i \in toload[p]
    /\ Served(i)
    /\ StartFetch(p, i, TRUE)
    /\ toload' = [toload EXCEPT ![p] = @ \ {i}]
    /\ Only(<<remote, entry, inbox, caller, seen, faults, objects>>)

\* A load that fails leaves the source unknown; so does one of a source that the
\* API process does not have.
LoadFail(p, i) ==
    /\ i \in toload[p]
    /\ Fault
    /\ toload' = [toload EXCEPT ![p] = @ \ {i}]
    /\ Only(<<remote, hash, entry, fetch, inbox, caller, seen, objects>>)
LoadUnserved(p, i) ==
    /\ i \in toload[p]
    /\ i \notin toload[Api] \cup Known(Api)
    /\ toload' = [toload EXCEPT ![p] = @ \ {i}]
    /\ Only(<<remote, hash, entry, fetch, inbox, caller, seen, faults, objects>>)

FetchEndNoReload(p, i) ==                                            \* mutant
    /\ fetch[p][i].busy
    /\ fetch' = [fetch EXCEPT ![p][i] = NoFetch]
    /\ hash' = [hash EXCEPT ![p][i] = fetch[p][i].rev]
    /\ entry' = IF fetch[p][i].load /\ i # Master THEN [entry EXCEPT ![p][i] = "loaded"] ELSE entry
    /\ Only(<<remote, toload, inbox, caller, seen, faults, objects>>)

FetchEnd(p, i) ==
    /\ fetch[p][i].busy
    /\ fetch' = [fetch EXCEPT ![p][i] = NoFetch]
    /\ IF i = Master THEN AfterReload(p, fetch[p][i].rev)
       ELSE /\ hash' = [hash EXCEPT ![p][i] = fetch[p][i].rev]
            /\ entry' = IF fetch[p][i].load THEN [entry EXCEPT ![p][i] = "loaded"] ELSE entry
            /\ UNCHANGED toload
    /\ Only(<<remote, inbox, caller, seen, faults, objects>>)

\* The transfer breaks, and the directory stays torn.
FetchBreak(p, i) ==
    /\ fetch[p][i].busy
    /\ ~(i = Master /\ fetch[p][i].load)
    /\ Fault
    /\ fetch' = [fetch EXCEPT ![p][i] = NoFetch]
    /\ Only(<<remote, hash, entry, toload, inbox, caller, seen, objects>>)

\* The process ends, and the start script starts it again, as often as the first
\* fetch of the master source fails: the directories are there, the tables empty.
Restart(p) ==
    /\ Fault
    /\ Served(Master)
    /\ entry' = [entry EXCEPT ![p] = [i \in Sources |-> "unknown"]]
    /\ toload' = [toload EXCEPT ![p] = {}]
    /\ inbox' = [inbox EXCEPT ![p] = {}]
    /\ fetch' = [fetch EXCEPT ![p] = [i \in Ids |->
                   IF i = Master THEN [busy |-> TRUE, rev |-> hash[Api][i], load |-> TRUE]
                   ELSE NoFetch]]
    /\ hash' = [hash EXCEPT ![p][Master] = NoHash]
    /\ Only(<<remote, caller, seen, objects>>)

-----------------------------------------------------------------------------
CallerStep(c) ==
    RefreshCopy(c) \/ RefreshWrite(c) \/ ReloadEnd(c) \/ Broadcast(c)

Next ==
    \/ \E i \in Ids : Push(i)
    \/ \E h \in Hooks, i \in Ids : HookStart(h, i)
    \/ \E c \in Callers : CallerStep(c) \/ RefreshFail(c)
    \/ WatchPass
    \/ \E i \in Sources : ApiLoad(i) \/ Decide(i) \/ \E p \in Procs : Answer(i, p)
    \/ \E p \in Slaves, i \in Ids : HandleUnknown(p, i) \/ HandleFetch(p, i)
    \/ \E p \in Slaves, i \in Ids : FetchEnd(p, i) \/ FetchBreak(p, i)
    \/ \E p \in Slaves, i \in Sources : LoadStart(p, i) \/ LoadFail(p, i) \/ LoadUnserved(p, i)
    \/ \E p \in Slaves : Restart(p)

Spec == Init /\ [][Next]_vars

(* A coroutine that is ready runs, a message that was not lost is handled,  *)
(* what was asked is answered, and a transfer ends.  A load meets a moment  *)
(* in which its source is served, if there is always one to come.           *)
FairSpec ==
    /\ Spec
    /\ WF_vars(WatchPass)
    /\ \A c \in Callers : WF_vars(CallerStep(c))
    /\ \A i \in Sources : WF_vars(ApiLoad(i)) /\ WF_vars(Decide(i))
    /\ \A i \in Sources, p \in Procs : WF_vars(Answer(i, p))
    /\ \A p \in Slaves, i \in Ids :
         /\ WF_vars(HandleUnknown(p, i) \/ HandleFetch(p, i))
         /\ WF_vars(FetchEnd(p, i))
    /\ \A p \in Slaves, i \in Sources :
         WF_vars(LoadUnserved(p, i)) /\ SF_vars(LoadStart(p, i))

-----------------------------------------------------------------------------
TypeOK ==
    /\ remote \in [Ids -> Nat] /\ \A i \in Ids : remote[i] \in Hashes(i)
    /\ \A p \in Procs, i \in Ids : hash[p][i] \in Hashes(i)
    /\ entry \in [Procs -> [Sources -> Kinds]]
    /\ toload \in [Procs -> SUBSET Sources]
    /\ inbox \in [Slaves -> SUBSET Ids]
    /\ \A p \in Slaves, i \in Ids : fetch[p][i].busy => fetch[p][i].rev \in Hashes(i)
    /\ \A c \in Callers : caller[c].rev \in Hashes(caller[c].id)
    /\ loaded \subseteq Ids /\ replaced \subseteq Callers /\ missed \subseteq Sources
    /\ faults \in 0..MaxFaults

\* The watch loop refreshes a source only if, while it was asking, the processes
\* that have it really differed, or one lacked it (_source_needs_refresh).
NoNeedlessRefresh == \A i \in Sources : caller[i].at = "copy" => i \in diverged

\* A slave_fetch of source i has come to slave p, or is going to be sent.
Coming(p, i) == i \in inbox[p] \/ At(i, {"copy", "write", "publish"})

\* As long as nothing fails, a loaded source without a hash is about to get one: in
\* the API process by the refresh that has removed it; in a slave by the fetch under
\* way, or, after a fetch of what another refresh was just writing, by the slave_fetch
\* of that refresh, unless it came too early or after the removal of the source
\* (is_loaded, _tarball, _refresh_source_if_needed, reload_master_config).
LoadedShowsHash ==
    faults = 0 => \A p \in Procs, i \in Sources :
        entry[p][i] = "loaded" /\ hash[p][i] = NoHash =>
            \/ p = Api /\ At(i, {"write"})
            \/ p # Api /\ (fetch[p][i].busy \/ Coming(p, i) \/ i \in missed)

\* Whatever was lost, torn or restarted, the processes that know a source agree on
\* it in the end, and the web interface says so; a process that does not know it is
\* beyond the watch loop (_watch_source).
Repaired == \A i \in Sources : <>[](\/ IsValid(AllStatuses(i))
                                    \/ \E p \in Procs : entry[p][i] = "unknown")

Settled == /\ \A p \in Procs : entry[p] = Entries(p, MaxRev[Master])
           /\ \A p \in Procs, i \in Ids :
                 i \in Known(p) => hash[p][i] = hash[Api][i] /\ hash[p][i] # NoHash

\* A refresh of the master source that nothing disturbs brings every process to the
\* right table and the same contents, also those that had lost a source
\* (registry.refresh, _slave_fetch).
MasterRefreshHeals ==
    (/\ faults = MaxFaults /\ remote[Master] = MaxRev[Master]
     /\ Calm /\ \A p \in Procs : toload[p] = {}
     /\ \E h \in Hooks : caller[h].at = "copy" /\ caller[h].id = Master) ~> []Settled
=============================================================================
