----------------------------- MODULE ClusterProofs -----------------------------
(***************************************************************************)
(* The types and the invariants of Cluster, for any slaves, sources, tag    *)
(* filters and hooks, and any number of revisions and faults.              *)
(***************************************************************************)
EXTENDS Cluster, FiniteSetTheorems, TLAPS

Hash == Nat \cup {NoHash}
CallerRec == [at : {"new", "rest", "ask", "copy", "write", "reload", "publish"}, id : Ids, rev : Nat]
FetchRec == [busy : BOOLEAN, rev : Hash, load : BOOLEAN]
\* What a fetch can bring: always a revision, if it is of the master source.
Brought(i) == IF i = Master THEN 0..MaxRev[i] ELSE Hashes(i)

\* The types that the proofs need: those of TypeOK, and those of the records.  The API
\* process always has some revision of the master source.
Shapes ==
    /\ remote \in [Ids -> Nat] /\ \A i \in Ids : remote[i] \in 0..MaxRev[i]
    /\ hash \in [Procs -> [Ids -> Hash]] /\ \A p \in Procs, i \in Ids : hash[p][i] \in Hashes(i)
    /\ hash[Api][Master] # NoHash
    /\ entry \in [Procs -> [Sources -> Kinds]]
    /\ toload \in [Procs -> SUBSET Sources]
    /\ fetch \in [Slaves -> [Ids -> FetchRec]]
    /\ \A p \in Slaves, i \in Ids : fetch[p][i].busy = TRUE => fetch[p][i].rev \in Brought(i)
    /\ inbox \in [Slaves -> SUBSET Ids]
    /\ caller \in [Callers -> CallerRec]
    /\ \A c \in Callers : caller[c].rev \in 0..MaxRev[caller[c].id]
    /\ seen \in [Sources -> [by : SUBSET Procs, hashes : SUBSET Hash]]
    /\ faults \in 0..MaxFaults

\* A process never has a source that its filter excludes, nor hides another.
EntryInv ==
    /\ \A p \in Procs, i \in Sources :
         /\ entry[p][i] = "filtered" => i \in Hidden[p]
         /\ entry[p][i] = "loaded" => i \notin Hidden[p]
         /\ i \in toload[p] => i \notin Hidden[p]
    /\ \A p \in Slaves, i \in Sources : fetch[p][i].load = TRUE => i \notin Hidden[p]

\* What hides the hash of a loaded source in the API process: a refresh that is going
\* to write it.
ApiShows == \A i \in Sources :
    entry[Api][i] = "loaded" /\ hash[Api][i] = NoHash =>
        \E c \in Callers : caller[c].at = "write" /\ caller[c].id = i

\* What a watch task has seen, as long as the processes have not differed: the hash of
\* the API process, or one that it had, if no slave has the source.
OnlyApiHas(i) == \A p \in Slaves : i \in Hidden[p]
SeenInv == \A i \in Sources :
    /\ caller[i].at # "rest" /\ i \notin diverged => ~Differ(i)
    /\ caller[i].at # "ask" => seen[i] = NothingSeen
    /\ caller[i].at = "ask" /\ i \notin diverged =>
         /\ ~OnlyApiHas(i) => seen[i].hashes \subseteq {hash[Api][i]}
         /\ OnlyApiHas(i) => /\ Api \notin seen[i].by => seen[i].hashes = {}
                             /\ \E h \in Nat : seen[i].hashes \subseteq {h}

\* What the watch loop refreshes has differed.
CopyInv == \A i \in Sources : caller[i].at = "copy" => i \in diverged

ClusterInv == Shapes /\ EntryInv /\ ApiShows /\ SeenInv /\ CopyInv

-----------------------------------------------------------------------------
(* Functions of functions and of records                                   *)

\* A table of each process is changed at one source (`[f EXCEPT ![a][b] = v]`).
LEMMA SetCell ==
    ASSUME NEW A, NEW B, NEW V, NEW f \in [A -> [B -> V]],
           NEW a \in A, NEW b \in B, NEW v \in V
    PROVE  LET g == [f EXCEPT ![a][b] = v] IN
           /\ g \in [A -> [B -> V]]
           /\ g[a][b] = v
           /\ \A x \in A, y \in B : x # a \/ y # b => g[x][y] = f[x][y]
           /\ \A x \in A : x # a => g[x] = f[x]
  OBVIOUS

\* The whole table of one process is changed.
LEMMA SetRow ==
    ASSUME NEW A, NEW W, NEW f \in [A -> W], NEW a \in A, NEW w \in W
    PROVE  LET g == [f EXCEPT ![a] = w] IN
           /\ g \in [A -> W] /\ g[a] = w
           /\ \A x \in A : x # a => g[x] = f[x]
  OBVIOUS

Ats == {"new", "rest", "ask", "copy", "write", "reload", "publish"}

\* A caller goes to another place, and keeps what it holds.
LEMMA CallerAt ==
    ASSUME NEW f \in [Callers -> CallerRec], NEW c \in Callers, NEW a \in Ats
    PROVE  LET g == [f EXCEPT ![c].at = a] IN
           /\ g \in [Callers -> CallerRec]
           /\ g[c].at = a /\ g[c].id = f[c].id /\ g[c].rev = f[c].rev
           /\ \A x \in Callers : x # c => g[x] = f[x]
  BY DEF CallerRec, Ats

\* A caller at rest holds nothing.
LEMMA RestingFields == Resting \in CallerRec /\ Resting.at = "rest" /\ Resting.id = Master /\ Resting.rev = 0
  BY DEF Resting, CallerRec, Ids

\* Nor does a fetch that is not made.
LEMMA NoFetchFields ==
    NoFetch \in FetchRec /\ NoFetch.busy = FALSE /\ NoFetch.load = FALSE
  BY DEF NoFetch, FetchRec, Hash

\* What the constants are.
LEMMA Consts ==
    /\ Api \in Procs /\ Slaves \subseteq Procs /\ Sources \subseteq Ids /\ Master \in Ids
    /\ Sources \subseteq Callers /\ Master \notin Sources
    /\ \A i \in Ids : i # Master => i \in Sources
    /\ \A p \in Procs : p # Api => p \in Slaves
    /\ \A p \in Slaves : p # Api
    /\ \A i \in Ids : MaxRev[i] \in Nat /\ 0..MaxRev[i] \subseteq Nat
    /\ \A i \in Ids : Hashes(i) \subseteq Hash /\ \A h \in Hashes(i) : h # NoHash => h \in 0..MaxRev[i]
    /\ \A i \in Ids : \A h \in 0..MaxRev[i] : h \in Hashes(i) /\ h # NoHash
    /\ \A i \in Ids : NoHash \in Hashes(i)
    /\ NoHash \notin Nat /\ NoHash \in Hash
  BY ClusterAssumption DEF Procs, Ids, Callers, Hashes, Hash

\* What a fetch can bring is a hash, and a revision if it is of the master source.
LEMMA BroughtHashes ==
    /\ \A i \in Ids : Brought(i) \subseteq Hashes(i)
    /\ \A i \in Sources : Brought(i) = Hashes(i)
    /\ Brought(Master) = 0..MaxRev[Master]
  BY Consts DEF Brought

\* What reload_master_config leaves of a process's table, of its loads and of its
\* directories: it drops what the revision does not want, and loads nothing itself.
LEMMA AfterReloadFields ==
    ASSUME Shapes, NEW p \in Procs, NEW r \in 0..MaxRev[Master], AfterReload(p, r)
    PROVE  /\ entry' \in [Procs -> [Sources -> Kinds]] /\ \A q \in Procs : q # p => entry'[q] = entry[q]
           /\ toload' \in [Procs -> SUBSET Sources] /\ \A q \in Procs : q # p => toload'[q] = toload[q]
           /\ hash' \in [Procs -> [Ids -> Hash]] /\ \A q \in Procs : q # p => hash'[q] = hash[q]
           /\ hash'[p][Master] = r /\ \A q \in Procs, j \in Ids : hash'[q][j] \in Hashes(j)
           /\ \A i \in Sources :
                /\ entry'[p][i] = "loaded" => entry[p][i] = "loaded" /\ i \notin Hidden[p] /\ hash'[p][i] = hash[p][i]
                /\ entry'[p][i] = "filtered" => i \in Hidden[p]
                /\ i \in toload'[p] => i \notin Hidden[p]
                /\ hash'[p][i] \in {hash[p][i], NoHash}
  <1> DEFINE E == Entries(p, r)
             e == [i \in Sources |-> IF E[i] = "loaded" /\ entry[p][i] # "loaded" THEN "unknown" ELSE E[i]]
             t == {i \in Sources : E[i] = "loaded" /\ entry[p][i] # "loaded"}
             h == [i \in Ids |-> IF i = Master THEN r
                     ELSE IF entry[p][i] = "loaded" /\ i \notin Wanted[r] THEN NoHash ELSE hash[p][i]]
  <1>1. entry' = [entry EXCEPT ![p] = e] /\ toload' = [toload EXCEPT ![p] = t]
    BY Zenon DEF AfterReload
  <1>2. hash' = [hash EXCEPT ![p] = h]
    BY DEF AfterReload
  <1>3. /\ \A i \in Sources : E[i] \in Kinds
        /\ \A i \in Sources : E[i] = "loaded" => i \in Wanted[r] /\ i \notin Hidden[p]
        /\ \A i \in Sources : E[i] = "filtered" => i \in Hidden[p]
    BY DEF Entries, Kinds
  <1> HIDE DEF E
  <1>4. /\ e \in [Sources -> Kinds]
        /\ \A i \in Sources : e[i] = "loaded" => entry[p][i] = "loaded" /\ i \in Wanted[r] /\ i \notin Hidden[p]
        /\ \A i \in Sources : e[i] = "filtered" => i \in Hidden[p]
    BY <1>3 DEF Kinds
  <1>5. t \in SUBSET Sources /\ \A i \in t : i \notin Hidden[p]
    BY <1>3
  <1>6. /\ h \in [Ids -> Hash] /\ h[Master] = r
        /\ \A i \in Sources : h[i] \in {hash[p][i], NoHash}
        /\ \A i \in Sources : i \in Wanted[r] => h[i] = hash[p][i]
        /\ \A j \in Ids : h[j] \in Hashes(j)
    BY Consts DEF Shapes
  <1>7. /\ entry \in [Procs -> [Sources -> Kinds]] /\ toload \in [Procs -> SUBSET Sources]
        /\ hash \in [Procs -> [Ids -> Hash]]
    BY DEF Shapes
  <1> HIDE DEF e, t, h
  <1>8. /\ entry' \in [Procs -> [Sources -> Kinds]] /\ entry'[p] = e
        /\ \A q \in Procs : q # p => entry'[q] = entry[q]
    BY <1>1, <1>4, <1>7
  <1>9. /\ toload' \in [Procs -> SUBSET Sources] /\ toload'[p] = t
        /\ \A q \in Procs : q # p => toload'[q] = toload[q]
    BY <1>1, <1>5, <1>7
  <1>10. /\ hash' \in [Procs -> [Ids -> Hash]] /\ hash'[p] = h
         /\ \A q \in Procs : q # p => hash'[q] = hash[q]
    BY <1>2, <1>6, <1>7
  <1>11. \A q \in Procs, j \in Ids : hash'[q][j] \in Hashes(j)
    BY <1>6, <1>10 DEF Shapes
  <1> QED
    BY <1>4, <1>5, <1>6, <1>8, <1>9, <1>10, <1>11

-----------------------------------------------------------------------------
(* The types, action by action                                             *)

\* Push keeps the types.
LEMMA PushShapes ==
    ASSUME Shapes, NEW i \in Ids, Push(i)
    PROVE  Shapes'
  BY Consts DEF Shapes, Push, Only

\* HookStart keeps the types.
LEMMA HookStartShapes ==
    ASSUME Shapes, NEW h \in Hooks, NEW i \in Ids, HookStart(h, i)
    PROVE  Shapes'
  <1> DEFINE v == [at |-> "copy", id |-> i, rev |-> 0]
  <1>1. v \in CallerRec /\ v.rev \in 0..MaxRev[v.id]
    BY Consts DEF CallerRec
  <1>2. caller' = [caller EXCEPT ![h] = v] /\ h \in Callers
    BY DEF HookStart, Callers
  <1>3. UNCHANGED <<remote, hash, entry, toload, fetch, inbox, seen, faults>>
    BY DEF HookStart, Only
  <1> HIDE DEF v
  <1>4. /\ caller' \in [Callers -> CallerRec]
        /\ \A c \in Callers : caller'[c].rev \in 0..MaxRev[caller'[c].id]
    BY <1>1, <1>2 DEF Shapes
  <1> QED
    BY <1>3, <1>4 DEF Shapes

\* RefreshCopy keeps the types.
LEMMA RefreshCopyShapes ==
    ASSUME Shapes, NEW c \in Callers, RefreshCopy(c)
    PROVE  Shapes'
  <1> DEFINE i == caller[c].id
             h == IF i = Master THEN remote[Master] ELSE NoHash
             r == remote[i]
  <1>1. i \in Ids /\ remote[i] \in 0..MaxRev[i]
    BY DEF Shapes, CallerRec
  <1>2. hash' = [hash EXCEPT ![Api][i] = h]
    BY DEF RefreshCopy
  <1>3. caller' = [caller EXCEPT ![c] = [at |-> "write", id |-> i, rev |-> r]]
    BY DEF RefreshCopy
  <1>4. UNCHANGED <<remote, entry, toload, fetch, inbox, seen, faults>>
    BY DEF RefreshCopy, Only
  <1>5. h \in Hashes(i) /\ (i = Master => h # NoHash)
    BY <1>1, Consts
  <1>6. r \in Nat /\ r \in 0..MaxRev[i] /\ caller[c].id = i
    BY <1>1, Consts
  <1>10. caller \in [Callers -> CallerRec]
    BY DEF Shapes
  <1> HIDE DEF i, h, r
  <1>7. /\ hash' \in [Procs -> [Ids -> Hash]] /\ \A p \in Procs, j \in Ids : hash'[p][j] \in Hashes(j)
        /\ hash'[Api][Master] # NoHash
    BY <1>1, <1>2, <1>5, Consts DEF Shapes
  <1>8. /\ caller' \in [Callers -> CallerRec]
        /\ \A x \in Callers : x # c => caller'[x] = caller[x]
        /\ caller'[c].id = i /\ caller'[c].rev = r
    BY <1>1, <1>3, <1>6, <1>10 DEF CallerRec
  <1>9. \A x \in Callers : caller'[x].rev \in 0..MaxRev[caller'[x].id]
    BY <1>6, <1>8 DEF Shapes
  <1> QED
    BY <1>4, <1>7, <1>8, <1>9 DEF Shapes

\* A caller that only goes to another place, or rests.
LEMMA CallerMoves ==
    ASSUME Shapes, NEW c \in Callers, NEW a \in Ats, caller' = [caller EXCEPT ![c].at = a]
    PROVE  /\ caller' \in [Callers -> CallerRec]
           /\ \A x \in Callers : caller'[x].rev \in 0..MaxRev[caller'[x].id]
           /\ \A x \in Callers : x # c => caller'[x] = caller[x]
           /\ caller'[c].at = a /\ caller'[c].id = caller[c].id
  <1>1. caller \in [Callers -> CallerRec] /\ \A x \in Callers : caller[x].rev \in 0..MaxRev[caller[x].id]
    BY DEF Shapes
  <1>2. /\ caller' \in [Callers -> CallerRec]
        /\ \A x \in Callers : x # c => caller'[x] = caller[x]
        /\ caller'[c].at = a /\ caller'[c].id = caller[c].id /\ caller'[c].rev = caller[c].rev
    BY <1>1, CallerAt
  <1> QED
    BY <1>1, <1>2

\* What a caller that goes to rest changes.
LEMMA CallerRests ==
    ASSUME Shapes, NEW c \in Callers, Rest(c)
    PROVE  /\ caller' \in [Callers -> CallerRec]
           /\ \A x \in Callers : caller'[x].rev \in 0..MaxRev[caller'[x].id]
           /\ \A x \in Callers : x # c => caller'[x] = caller[x]
           /\ caller'[c].at = "rest"
  <1>1. caller \in [Callers -> CallerRec] /\ \A x \in Callers : caller[x].rev \in 0..MaxRev[caller[x].id]
    BY DEF Shapes
  <1>2. caller' = [caller EXCEPT ![c] = Resting]
    BY DEF Rest
  <1> QED
    BY <1>1, <1>2, RestingFields, Consts

\* RefreshFail keeps the types.
LEMMA RefreshFailShapes ==
    ASSUME Shapes, NEW c \in Callers, RefreshFail(c)
    PROVE  Shapes'
  <1>1. UNCHANGED <<remote, hash, entry, toload, fetch, inbox, seen>> /\ Rest(c)
    BY DEF RefreshFail, Only
  <1>2. faults' \in 0..MaxFaults
    BY ClusterAssumption DEF Shapes, RefreshFail, Fault
  <1> QED
    BY <1>1, <1>2, CallerRests DEF Shapes

\* A refresh that ends writes its hash, or applies the master configuration.
LEMMA RefreshWriteShapes ==
    ASSUME Shapes, NEW c \in Callers, RefreshWrite(c)
    PROVE  Shapes'
  <1> DEFINE i == caller[c].id
             r == hash[Api][Master]
  <1>1. i \in Ids /\ caller[c].rev \in 0..MaxRev[i]
    BY DEF Shapes, CallerRec
  <1>2. UNCHANGED <<remote, fetch, inbox, seen, faults>>
    BY DEF RefreshWrite, Only
  <1>3. CASE i = Master
    <2>1. AfterReload(Api, r) /\ caller' = [caller EXCEPT ![c].at = "reload"]
      BY <1>3 DEF RefreshWrite
    <2>2. r \in 0..MaxRev[Master]
      BY Consts DEF Shapes
    <2>3. /\ entry' \in [Procs -> [Sources -> Kinds]]
          /\ toload' \in [Procs -> SUBSET Sources]
          /\ hash' \in [Procs -> [Ids -> Hash]] /\ \A q \in Procs : q # Api => hash'[q] = hash[q]
          /\ hash'[Api][Master] = r
          /\ \A p \in Procs, j \in Ids : hash'[p][j] \in Hashes(j)
      BY <2>1, <2>2, Consts, AfterReloadFields
    <2>4. /\ caller' \in [Callers -> CallerRec]
          /\ \A x \in Callers : caller'[x].rev \in 0..MaxRev[caller'[x].id]
      BY <2>1, CallerMoves DEF Ats
    <2> QED
      BY <1>2, <2>2, <2>3, <2>4, Consts DEF Shapes
  <1>4. CASE i # Master
    <2>1. /\ hash' = [hash EXCEPT ![Api][i] = caller[c].rev]
          /\ caller' = [caller EXCEPT ![c].at = "publish"]
          /\ UNCHANGED <<entry, toload>>
      BY <1>4 DEF RefreshWrite
    <2>2. caller[c].rev \in Hashes(i)
      BY <1>1, Consts
    <2> HIDE DEF i
    <2>3. /\ hash' \in [Procs -> [Ids -> Hash]] /\ \A p \in Procs, j \in Ids : hash'[p][j] \in Hashes(j)
          /\ hash'[Api][Master] # NoHash
      BY <1>1, <1>4, <2>1, <2>2, Consts DEF Shapes
    <2>4. /\ caller' \in [Callers -> CallerRec]
          /\ \A x \in Callers : caller'[x].rev \in 0..MaxRev[caller'[x].id]
      BY <2>1, CallerMoves DEF Ats
    <2> QED
      BY <1>2, <2>1, <2>3, <2>4 DEF Shapes
  <1> QED
    BY <1>3, <1>4

\* ApiLoad keeps the types.
LEMMA ApiLoadShapes ==
    ASSUME Shapes, NEW i \in Sources, ApiLoad(i)
    PROVE  Shapes'
  <1>1. UNCHANGED <<remote, fetch, inbox, caller, seen, faults>>
    BY DEF ApiLoad, Only
  <1>2. /\ toload' = [toload EXCEPT ![Api] = @ \ {i}]
        /\ hash' = [hash EXCEPT ![Api][i] = remote[i]]
        /\ entry' = [entry EXCEPT ![Api][i] = "loaded"]
    BY DEF ApiLoad
  <1>3. remote[i] \in Hashes(i)
    BY Consts DEF Shapes
  <1>4. /\ hash' \in [Procs -> [Ids -> Hash]] /\ \A p \in Procs, j \in Ids : hash'[p][j] \in Hashes(j)
        /\ hash'[Api][Master] # NoHash
    BY <1>2, <1>3, Consts DEF Shapes
  <1>5. entry' \in [Procs -> [Sources -> Kinds]] /\ toload' \in [Procs -> SUBSET Sources]
    BY <1>2, Consts DEF Shapes, Kinds
  <1> QED
    BY <1>1, <1>4, <1>5 DEF Shapes

\* A fault is one of the budget.
LEMMA FaultCounts ==
    ASSUME Shapes, Fault
    PROVE  faults' \in 0..MaxFaults /\ faults' # 0
  BY ClusterAssumption DEF Shapes, Fault

\* ReloadEnd keeps the types.
LEMMA ReloadEndShapes ==
    ASSUME Shapes, NEW c \in Callers, ReloadEnd(c)
    PROVE  Shapes'
  <1>1. UNCHANGED <<remote, hash, entry, toload, fetch, inbox, seen, faults>>
    BY DEF ReloadEnd, Only
  <1>2. caller' = [caller EXCEPT ![c].at = "publish"]
    BY DEF ReloadEnd
  <1>3. /\ caller' \in [Callers -> CallerRec]
        /\ \A x \in Callers : caller'[x].rev \in 0..MaxRev[caller'[x].id]
    BY <1>2, CallerMoves DEF Ats
  <1> QED
    BY <1>1, <1>3 DEF Shapes

\* A broadcast puts its source into the inboxes that it reaches.
LEMMA BroadcastShapes ==
    ASSUME Shapes, NEW c \in Callers, Broadcast(c)
    PROVE  Shapes'
  <1>1. UNCHANGED <<remote, hash, entry, toload, fetch, seen>> /\ Rest(c)
    BY DEF Broadcast, Only
  <1>2. caller[c].id \in Ids
    BY DEF Shapes, CallerRec
  <1>3. PICK lost \in SUBSET Slaves :
          /\ faults + Cardinality(lost) <= MaxFaults
          /\ faults' = faults + Cardinality(lost)
          /\ inbox' = [p \in Slaves |-> IF p \in lost THEN inbox[p] ELSE inbox[p] \cup {caller[c].id}]
    BY Zenon DEF Broadcast
  <1>4. inbox' \in [Slaves -> SUBSET Ids]
    BY <1>2, <1>3 DEF Shapes
  <1>5. Cardinality(lost) \in Nat
    BY ClusterAssumption, FS_Subset, FS_CardinalityType
  <1>6. faults' \in 0..MaxFaults
    BY <1>3, <1>5, ClusterAssumption DEF Shapes
  <1> QED
    BY <1>1, <1>4, <1>6, CallerRests DEF Shapes

\* A pass starts the tasks of the sources that the API process has.
LEMMA WatchPassFields ==
    ASSUME Shapes, WatchPass
    PROVE  /\ caller' \in [Callers -> CallerRec]
           /\ \A c \in Callers : caller'[c].rev \in 0..MaxRev[caller'[c].id]
           /\ \A c \in Callers : caller'[c] = caller[c] \/ (c \in Sources /\ caller'[c].at = "ask")
           /\ \A i \in Sources : caller[i].at = "rest"
           /\ UNCHANGED <<remote, hash, entry, toload, fetch, inbox, seen, faults>>
  <1> DEFINE S == Known(Api) \ {Master}
             v(c) == [at |-> "ask", id |-> c, rev |-> 0]
  <1>1. /\ caller' = [c \in Callers |-> IF c \in S THEN v(c) ELSE caller[c]]
        /\ \A i \in Sources : caller[i].at = "rest"
    BY Zenon DEF WatchPass
  <1>2. S \subseteq Sources
    BY DEF Known
  <1>3. \A c \in Sources : v(c) \in CallerRec /\ v(c).rev \in 0..MaxRev[v(c).id] /\ v(c).at = "ask"
    BY Consts DEF CallerRec
  <1>4. caller \in [Callers -> CallerRec] /\ \A c \in Callers : caller[c].rev \in 0..MaxRev[caller[c].id]
    BY DEF Shapes
  <1>5. UNCHANGED <<remote, hash, entry, toload, fetch, inbox, seen, faults>>
    BY DEF WatchPass, Only
  <1> HIDE DEF S, v
  <1>6. \A c \in Callers : caller'[c] = caller[c] \/ (c \in Sources /\ caller'[c] = v(c))
    BY <1>1, <1>2
  <1>7. caller' \in [Callers -> CallerRec]
    BY <1>1, <1>2, <1>3, <1>4
  <1>8. \A c \in Callers : caller'[c].rev \in 0..MaxRev[caller'[c].id]
    BY <1>3, <1>4, <1>6
  <1> QED
    BY <1>1, <1>3, <1>5, <1>6, <1>7, <1>8

\* WatchPass keeps the types.
LEMMA WatchPassShapes ==
    ASSUME Shapes, WatchPass
    PROVE  Shapes'
  <1>1. /\ caller' \in [Callers -> CallerRec]
        /\ \A c \in Callers : caller'[c].rev \in 0..MaxRev[caller'[c].id]
        /\ UNCHANGED <<remote, hash, entry, toload, fetch, inbox, seen, faults>>
    BY WatchPassFields
  <1> QED
    BY <1>1 DEF Shapes

\* What a status shows is a hash.
LEMMA StatusType ==
    ASSUME Shapes, NEW p \in Procs, NEW i \in Sources
    PROVE  Status(p, i) \subseteq Hash
  <1>1. entry[p][i] \in Kinds /\ hash[p][i] \in Hash
    BY Consts DEF Shapes
  <1> QED
    BY <1>1, Consts DEF Status, Kinds

\* What an answer adds to what a watch task has seen.
LEMMA AnswerFields ==
    ASSUME Shapes, NEW i \in Sources, NEW p \in Procs, Answer(i, p)
    PROVE  /\ seen' \in [Sources -> [by : SUBSET Procs, hashes : SUBSET Hash]]
           /\ \A j \in Sources : j # i => seen'[j] = seen[j]
           /\ seen'[i].by = seen[i].by \cup {p}
           /\ seen'[i].hashes = seen[i].hashes \cup Status(p, i)
           /\ caller[i].at = "ask"
           /\ UNCHANGED <<remote, hash, entry, toload, fetch, inbox, caller, faults>>
  <1> DEFINE st == Status(p, i)
             v == [by |-> seen[i].by \cup {p}, hashes |-> seen[i].hashes \cup st]
  <1>1. seen' = [seen EXCEPT ![i] = v]
    BY DEF Answer
  <1>2. caller[i].at = "ask" /\ UNCHANGED <<remote, hash, entry, toload, fetch, inbox, caller, faults>>
    BY DEF Answer, Only
  <1>3. st \subseteq Hash
    BY StatusType
  <1> HIDE DEF st
  <1>4. seen \in [Sources -> [by : SUBSET Procs, hashes : SUBSET Hash]]
    BY DEF Shapes
  <1>5. v \in [by : SUBSET Procs, hashes : SUBSET Hash]
    BY <1>3, <1>4
  <1>6. v.by = seen[i].by \cup {p} /\ v.hashes = seen[i].hashes \cup st
    OBVIOUS
  <1> HIDE DEF v
  <1>7. /\ seen' \in [Sources -> [by : SUBSET Procs, hashes : SUBSET Hash]]
        /\ \A j \in Sources : j # i => seen'[j] = seen[j]
        /\ seen'[i] = v
    BY <1>1, <1>4, <1>5, SetRow
  <1> QED
    BY <1>2, <1>6, <1>7 DEF st

\* Answer keeps the types.
LEMMA AnswerShapes ==
    ASSUME Shapes, NEW i \in Sources, NEW p \in Procs, Answer(i, p)
    PROVE  Shapes'
  <1>1. /\ seen' \in [Sources -> [by : SUBSET Procs, hashes : SUBSET Hash]]
        /\ UNCHANGED <<remote, hash, entry, toload, fetch, inbox, caller, faults>>
    BY AnswerFields
  <1> QED
    BY <1>1 DEF Shapes

\* What a watch task does once it has its answers (_refresh_source_if_needed).
LEMMA DecideFields ==
    ASSUME Shapes, NEW i \in Sources, Decide(i)
    PROVE  /\ caller' \in [Callers -> CallerRec]
           /\ \A c \in Callers : caller'[c].rev \in 0..MaxRev[caller'[c].id]
           /\ \A c \in Callers : c # i => caller'[c] = caller[c]
           /\ caller[i].at = "ask"
           /\ caller'[i].at = "rest" \/ (caller'[i].at = "copy" /\ NeedsRefresh(seen[i].hashes))
           /\ seen' \in [Sources -> [by : SUBSET Procs, hashes : SUBSET Hash]]
           /\ seen'[i] = NothingSeen
           /\ \A j \in Sources : j # i => seen'[j] = seen[j]
           /\ faults' \in 0..MaxFaults /\ (faults' = 0 => faults = 0)
           /\ UNCHANGED <<remote, hash, entry, toload, fetch, inbox>>
  <1>1. UNCHANGED <<remote, hash, entry, toload, fetch, inbox>> /\ caller[i].at = "ask"
    BY DEF Decide, Only
  <1>2. UNCHANGED faults \/ Fault
    BY DEF Decide
  <1>3. faults' \in 0..MaxFaults /\ (faults' = 0 => faults = 0)
    BY <1>2, FaultCounts DEF Shapes
  <1>4. seen' = [seen EXCEPT ![i] = NothingSeen]
    BY DEF Decide
  <1>5. /\ seen' \in [Sources -> [by : SUBSET Procs, hashes : SUBSET Hash]]
        /\ seen'[i] = NothingSeen /\ \A j \in Sources : j # i => seen'[j] = seen[j]
    <2>1. NothingSeen \in [by : SUBSET Procs, hashes : SUBSET Hash]
      BY DEF NothingSeen
    <2>2. seen \in [Sources -> [by : SUBSET Procs, hashes : SUBSET Hash]]
      BY DEF Shapes
    <2> QED
      BY <1>4, <2>1, <2>2, SetRow
  <1>6. i \in Callers
    BY Consts
  <1>7. CASE NeedsRefresh(seen[i].hashes)
    <2>1. caller' = [caller EXCEPT ![i].at = "copy"]
      BY <1>7, Zenon DEF Decide
    <2>2. /\ caller' \in [Callers -> CallerRec]
          /\ \A c \in Callers : caller'[c].rev \in 0..MaxRev[caller'[c].id]
          /\ \A c \in Callers : c # i => caller'[c] = caller[c]
          /\ caller'[i].at = "copy"
      BY <1>6, <2>1, CallerMoves DEF Ats
    <2> QED
      BY <1>1, <1>3, <1>5, <1>7, <2>2
  <1>8. CASE ~NeedsRefresh(seen[i].hashes)
    <2>1. Rest(i)
      BY <1>8, Zenon DEF Decide
    <2>2. /\ caller' \in [Callers -> CallerRec]
          /\ \A c \in Callers : caller'[c].rev \in 0..MaxRev[caller'[c].id]
          /\ \A c \in Callers : c # i => caller'[c] = caller[c]
          /\ caller'[i].at = "rest"
      BY <1>6, <2>1, CallerRests
    <2> QED
      BY <1>1, <1>3, <1>5, <2>2, Zenon
  <1> QED
    BY <1>7, <1>8

\* Decide keeps the types.
LEMMA DecideShapes ==
    ASSUME Shapes, NEW i \in Sources, Decide(i)
    PROVE  Shapes'
  <1>1. /\ caller' \in [Callers -> CallerRec]
        /\ \A c \in Callers : caller'[c].rev \in 0..MaxRev[caller'[c].id]
        /\ seen' \in [Sources -> [by : SUBSET Procs, hashes : SUBSET Hash]]
        /\ faults' \in 0..MaxFaults
        /\ UNCHANGED <<remote, hash, entry, toload, fetch, inbox>>
    BY DecideFields
  <1> QED
    BY <1>1 DEF Shapes

\* HandleUnknown keeps the types.
LEMMA HandleUnknownShapes ==
    ASSUME Shapes, NEW p \in Slaves, NEW i \in Ids, HandleUnknown(p, i)
    PROVE  Shapes'
  <1>1. UNCHANGED <<remote, hash, entry, toload, fetch, caller, seen, faults>>
    BY DEF HandleUnknown, Only
  <1>2. inbox' = [inbox EXCEPT ![p] = @ \ {i}]
    BY DEF HandleUnknown
  <1>3. inbox' \in [Slaves -> SUBSET Ids]
    BY <1>2 DEF Shapes
  <1> QED
    BY <1>1, <1>3 DEF Shapes

\* The fetch that a slave starts carries the hash that the API process shows.
LEMMA StartFetchFields ==
    ASSUME Shapes, NEW p \in Slaves, NEW i \in Ids, NEW ld \in BOOLEAN, StartFetch(p, i, ld)
    PROVE  /\ fetch' \in [Slaves -> [Ids -> FetchRec]]
           /\ fetch'[p][i].busy = TRUE /\ fetch'[p][i].rev = hash[Api][i]
           /\ fetch'[p][i].load = TRUE => ld = TRUE \/ fetch[p][i].load = TRUE
           /\ \A q \in Slaves, j \in Ids : q # p \/ j # i => fetch'[q][j] = fetch[q][j]
           /\ hash' \in [Procs -> [Ids -> Hash]] /\ hash'[p][i] = NoHash
           /\ \A q \in Procs, j \in Ids : q # p \/ j # i => hash'[q][j] = hash[q][j]
           /\ \A q \in Procs : q # p => hash'[q] = hash[q]
           /\ \A q \in Slaves, j \in Ids : fetch'[q][j].busy = TRUE => fetch'[q][j].rev \in Brought(j)
           /\ \A q \in Procs, j \in Ids : hash'[q][j] \in Hashes(j)
           /\ hash'[Api] = hash[Api]
  <1> DEFINE l == ld \/ fetch[p][i].load
             r == hash[Api][i]
             v == [busy |-> TRUE, rev |-> r, load |-> l]
  <1>1. fetch \in [Slaves -> [Ids -> FetchRec]] /\ hash \in [Procs -> [Ids -> Hash]] /\ r \in Hash
    BY Consts DEF Shapes
  <1>2. fetch' = [fetch EXCEPT ![p][i] = v] /\ hash' = [hash EXCEPT ![p][i] = NoHash]
    <2>1. fetch' = [fetch EXCEPT ![p][i] = [busy |-> TRUE, rev |-> hash[Api][i], load |-> ld \/ @.load]]
      BY Zenon DEF StartFetch
    <2> QED
      BY <2>1, Zenon DEF StartFetch
  <1>3. l \in BOOLEAN
    BY Zenon
  <1>4. fetch[p][i].load \in BOOLEAN
    BY <1>1 DEF FetchRec
  <1>5. l = TRUE => ld = TRUE \/ fetch[p][i].load = TRUE
    BY <1>4, Zenon
  <1> HIDE DEF l, r
  <1>6. v \in FetchRec /\ v.busy = TRUE /\ v.rev = r /\ v.load = l
    BY <1>1, <1>3 DEF FetchRec
  <1> HIDE DEF v
  <1>7. /\ fetch' \in [Slaves -> [Ids -> FetchRec]] /\ fetch'[p][i] = v
        /\ \A q \in Slaves, j \in Ids : q # p \/ j # i => fetch'[q][j] = fetch[q][j]
    BY <1>1, <1>2, <1>6, SetCell
  <1>8. /\ hash' \in [Procs -> [Ids -> Hash]] /\ hash'[p][i] = NoHash
        /\ \A q \in Procs, j \in Ids : q # p \/ j # i => hash'[q][j] = hash[q][j]
        /\ \A q \in Procs : q # p => hash'[q] = hash[q]
    BY <1>1, <1>2, Consts, SetCell
  <1>9. r = hash[Api][i]
    BY DEF r
  <1>10. r \in Brought(i)
    BY <1>9, Consts DEF Shapes, Brought
  <1>11. \A q \in Slaves, j \in Ids : fetch'[q][j].busy = TRUE => fetch'[q][j].rev \in Brought(j)
    <2> SUFFICES ASSUME NEW q \in Slaves, NEW j \in Ids, fetch'[q][j].busy = TRUE
        PROVE  fetch'[q][j].rev \in Brought(j)
      OBVIOUS
    <2>1. CASE q = p /\ j = i
      BY <1>6, <1>7, <1>10, <2>1
    <2>2. CASE q # p \/ j # i
      <3>1. fetch'[q][j] = fetch[q][j]
        BY <1>7, <2>2
      <3> QED
        BY <3>1 DEF Shapes
    <2> QED
      BY <2>1, <2>2
  <1>12. \A q \in Procs, j \in Ids : hash'[q][j] \in Hashes(j)
    BY <1>8, Consts DEF Shapes
  <1>13. hash'[Api] = hash[Api]
    BY <1>8, Consts
  <1> QED
    BY <1>5, <1>6, <1>7, <1>8, <1>9, <1>11, <1>12, <1>13

\* HandleFetch keeps the types.
LEMMA HandleFetchShapes ==
    ASSUME Shapes, NEW p \in Slaves, NEW i \in Ids, HandleFetch(p, i)
    PROVE  Shapes'
  <1>1. UNCHANGED <<remote, entry, toload, caller, seen>>
    BY DEF HandleFetch, Only
  <1>2. inbox' = [inbox EXCEPT ![p] = @ \ {i}]
    BY DEF HandleFetch
  <1>3. inbox' \in [Slaves -> SUBSET Ids]
    BY <1>2 DEF Shapes
  <1>4. \/ Served(i) /\ StartFetch(p, i, FALSE) /\ UNCHANGED faults
        \/ UNCHANGED <<fetch, hash, faults>>
        \/ Fault /\ UNCHANGED <<fetch, hash>>
    <2>1. \/ Served(i) /\ StartFetch(p, i, FALSE) /\ UNCHANGED faults
          \/ ~Served(i) /\ UNCHANGED <<fetch, hash, faults>>
          \/ Served(i) /\ Fault /\ UNCHANGED <<fetch, hash>>
      BY Zenon DEF HandleFetch
    <2> QED
      BY <2>1, Zenon
  <1>5. CASE Served(i) /\ StartFetch(p, i, FALSE) /\ UNCHANGED faults
    <2>1. /\ fetch' \in [Slaves -> [Ids -> FetchRec]]
          /\ \A q \in Slaves, j \in Ids : fetch'[q][j].busy = TRUE => fetch'[q][j].rev \in Brought(j)
          /\ hash' \in [Procs -> [Ids -> Hash]] /\ \A q \in Procs, j \in Ids : hash'[q][j] \in Hashes(j)
          /\ hash'[Api] = hash[Api]
      BY <1>5, StartFetchFields
    <2>2. faults' = faults
      BY <1>5
    <2> QED
      BY <1>1, <1>3, <2>1, <2>2, Consts DEF Shapes
  <1>6. CASE UNCHANGED <<fetch, hash, faults>>
    BY <1>1, <1>3, <1>6 DEF Shapes
  <1>7. CASE Fault /\ UNCHANGED <<fetch, hash>>
    BY <1>1, <1>3, <1>7, FaultCounts DEF Shapes
  <1> QED
    BY <1>4, <1>5, <1>6, <1>7

\* LoadStart keeps the types.
LEMMA LoadStartShapes ==
    ASSUME Shapes, NEW p \in Slaves, NEW i \in Sources, LoadStart(p, i)
    PROVE  Shapes'
  <1>1. UNCHANGED <<remote, entry, inbox, caller, seen, faults>>
    BY DEF LoadStart, Only
  <1>2. toload' = [toload EXCEPT ![p] = @ \ {i}]
    BY DEF LoadStart
  <1>3. toload' \in [Procs -> SUBSET Sources]
    BY <1>2 DEF Shapes
  <1>4. Served(i) /\ StartFetch(p, i, TRUE) /\ i \in Ids
    BY Consts DEF LoadStart
  <1>5. /\ fetch' \in [Slaves -> [Ids -> FetchRec]]
        /\ \A q \in Slaves, j \in Ids : fetch'[q][j].busy = TRUE => fetch'[q][j].rev \in Brought(j)
        /\ hash' \in [Procs -> [Ids -> Hash]] /\ \A q \in Procs, j \in Ids : hash'[q][j] \in Hashes(j)
        /\ hash'[Api] = hash[Api]
    BY <1>4, StartFetchFields
  <1> QED
    BY <1>1, <1>3, <1>5, Consts DEF Shapes

\* LoadFail keeps the types.
LEMMA LoadFailShapes ==
    ASSUME Shapes, NEW p \in Slaves, NEW i \in Sources, LoadFail(p, i) \/ LoadUnserved(p, i)
    PROVE  Shapes'
  <1>1. UNCHANGED <<remote, hash, entry, fetch, inbox, caller, seen>>
    BY DEF LoadFail, LoadUnserved, Only
  <1>2. toload' = [toload EXCEPT ![p] = @ \ {i}]
    BY DEF LoadFail, LoadUnserved
  <1>3. toload' \in [Procs -> SUBSET Sources]
    BY <1>2 DEF Shapes
  <1>4. Fault \/ UNCHANGED faults
    BY DEF LoadFail, LoadUnserved, Only
  <1>5. faults' \in 0..MaxFaults
    BY <1>4, FaultCounts DEF Shapes
  <1> QED
    BY <1>1, <1>3, <1>5 DEF Shapes

\* The slot of a fetch that has ended or broken.
LEMMA FetchRests ==
    ASSUME Shapes, NEW p \in Slaves, NEW i \in Ids, fetch' = [fetch EXCEPT ![p][i] = NoFetch]
    PROVE  /\ fetch' \in [Slaves -> [Ids -> FetchRec]]
           /\ fetch'[p][i] = NoFetch
           /\ \A q \in Slaves, j \in Ids : q # p \/ j # i => fetch'[q][j] = fetch[q][j]
           /\ \A q \in Slaves, j \in Ids : fetch'[q][j].busy = TRUE => fetch'[q][j].rev \in Brought(j)
  <1>1. fetch \in [Slaves -> [Ids -> FetchRec]]
    BY DEF Shapes
  <1>2. /\ fetch' \in [Slaves -> [Ids -> FetchRec]]
        /\ fetch'[p][i] = NoFetch
        /\ \A q \in Slaves, j \in Ids : q # p \/ j # i => fetch'[q][j] = fetch[q][j]
    BY <1>1, NoFetchFields, SetCell
  <1>3. ASSUME NEW q \in Slaves, NEW j \in Ids, fetch'[q][j].busy = TRUE
        PROVE  fetch'[q][j].rev \in Brought(j)
    <2>1. q # p \/ j # i
      BY <1>2, <1>3, NoFetchFields
    <2>2. fetch'[q][j] = fetch[q][j]
      BY <1>2, <2>1
    <2> QED
      BY <1>3, <2>2 DEF Shapes
  <1> QED
    BY <1>2, <1>3

\* The hash that a process shows of a source is written.
LEMMA HashWritten ==
    ASSUME Shapes, NEW p \in Procs, NEW i \in Ids, NEW h \in Hashes(i), p = Api => i # Master,
           hash' = [hash EXCEPT ![p][i] = h]
    PROVE  /\ hash' \in [Procs -> [Ids -> Hash]] /\ \A q \in Procs, j \in Ids : hash'[q][j] \in Hashes(j)
           /\ hash'[Api][Master] # NoHash
           /\ hash'[p][i] = h
           /\ \A q \in Procs, j \in Ids : q # p \/ j # i => hash'[q][j] = hash[q][j]
           /\ \A q \in Procs : q # p => hash'[q] = hash[q]
  <1>1. hash \in [Procs -> [Ids -> Hash]] /\ h \in Hash
    BY Consts DEF Shapes
  <1>2. /\ hash' \in [Procs -> [Ids -> Hash]] /\ hash'[p][i] = h
        /\ \A q \in Procs, j \in Ids : q # p \/ j # i => hash'[q][j] = hash[q][j]
        /\ \A q \in Procs : q # p => hash'[q] = hash[q]
    BY <1>1, SetCell
  <1>3. \A q \in Procs, j \in Ids : hash'[q][j] \in Hashes(j)
    BY <1>2 DEF Shapes
  <1>4. hash'[Api][Master] # NoHash
    BY <1>2, Consts DEF Shapes
  <1> QED
    BY <1>2, <1>3, <1>4

\* What a fetch that ends leaves: the master source brings a reload, another one its
\* hash, and its entry if it was loaded for the first time.
FetchEnded(p, i) ==
    /\ fetch[p][i].busy = TRUE
    /\ fetch' \in [Slaves -> [Ids -> FetchRec]]
    /\ fetch'[p][i] = NoFetch
    /\ \A q \in Slaves, j \in Ids : q # p \/ j # i => fetch'[q][j] = fetch[q][j]
    /\ \A q \in Slaves, j \in Ids : fetch'[q][j].busy = TRUE => fetch'[q][j].rev \in Brought(j)
    /\ hash' \in [Procs -> [Ids -> Hash]] /\ \A q \in Procs, j \in Ids : hash'[q][j] \in Hashes(j)
    /\ \A q \in Procs : q # p => hash'[q] = hash[q] /\ entry'[q] = entry[q] /\ toload'[q] = toload[q]
    /\ entry' \in [Procs -> [Sources -> Kinds]] /\ toload' \in [Procs -> SUBSET Sources]
    /\ \A j \in Sources :
         /\ entry'[p][j] = "loaded" /\ j # i =>
              entry[p][j] = "loaded" /\ hash'[p][j] = hash[p][j]
         /\ entry'[p][j] = "loaded" => \/ entry[p][j] = "loaded"
                                       \/ j = i /\ fetch[p][i].load = TRUE
         /\ entry'[p][j] = "filtered" => j \in Hidden[p] \/ entry[p][j] = "filtered"
         /\ j \in toload'[p] => j \notin Hidden[p] \/ j \in toload[p]
    /\ i # Master => hash'[p][i] = fetch[p][i].rev

\* What the end of a fetch changes, of the master source or of another.
LEMMA FetchEndFields ==
    ASSUME Shapes, NEW p \in Slaves, NEW i \in Ids, FetchEnd(p, i)
    PROVE  FetchEnded(p, i)
  <1> DEFINE r == fetch[p][i].rev
  <1>1. fetch \in [Slaves -> [Ids -> FetchRec]] /\ fetch[p][i] \in FetchRec
    BY DEF Shapes
  <1>2. fetch[p][i].busy /\ fetch[p][i].busy \in BOOLEAN /\ fetch[p][i].load \in BOOLEAN
    BY <1>1 DEF FetchEnd, FetchRec
  <1>3. fetch[p][i].busy = TRUE
    BY <1>2, Zenon
  <1>4. r \in Brought(i)
    BY <1>3 DEF Shapes
  <1>5. fetch' = [fetch EXCEPT ![p][i] = NoFetch]
    BY DEF FetchEnd
  <1>6. /\ fetch' \in [Slaves -> [Ids -> FetchRec]]
        /\ fetch'[p][i] = NoFetch
        /\ \A q \in Slaves, j \in Ids : q # p \/ j # i => fetch'[q][j] = fetch[q][j]
        /\ \A q \in Slaves, j \in Ids : fetch'[q][j].busy = TRUE => fetch'[q][j].rev \in Brought(j)
    BY <1>5, FetchRests
  <1>7. p \in Procs /\ p # Api
    BY Consts
  <1>8. CASE i = Master
    <2>1. AfterReload(p, r)
      BY <1>8 DEF FetchEnd
    <2>2. r \in 0..MaxRev[Master]
      BY <1>4, <1>8, BroughtHashes
    <2> HIDE DEF r
    <2>3. /\ entry' \in [Procs -> [Sources -> Kinds]] /\ \A q \in Procs : q # p => entry'[q] = entry[q]
          /\ toload' \in [Procs -> SUBSET Sources] /\ \A q \in Procs : q # p => toload'[q] = toload[q]
          /\ hash' \in [Procs -> [Ids -> Hash]] /\ \A q \in Procs : q # p => hash'[q] = hash[q]
          /\ \A q \in Procs, j \in Ids : hash'[q][j] \in Hashes(j)
          /\ \A j \in Sources :
               /\ entry'[p][j] = "loaded" => entry[p][j] = "loaded" /\ j \notin Hidden[p] /\ hash'[p][j] = hash[p][j]
               /\ entry'[p][j] = "filtered" => j \in Hidden[p]
               /\ j \in toload'[p] => j \notin Hidden[p]
      BY <1>7, <2>1, <2>2, AfterReloadFields
    <2> QED
      BY <1>3, <1>6, <1>8, <2>3 DEF FetchEnded
  <1>9. CASE i # Master
    <2>1. hash' = [hash EXCEPT ![p][i] = r] /\ UNCHANGED toload
      BY <1>9 DEF FetchEnd
    <2>2. entry' = IF fetch[p][i].load THEN [entry EXCEPT ![p][i] = "loaded"] ELSE entry
      BY <1>9, Zenon DEF FetchEnd
    <2>3. r \in Hashes(i) /\ i \in Sources
      BY <1>4, <1>9, Consts, BroughtHashes
    <2>4. /\ hash' \in [Procs -> [Ids -> Hash]] /\ \A q \in Procs, j \in Ids : hash'[q][j] \in Hashes(j)
          /\ hash'[p][i] = r
          /\ \A q \in Procs, j \in Ids : q # p \/ j # i => hash'[q][j] = hash[q][j]
          /\ \A q \in Procs : q # p => hash'[q] = hash[q]
      <3> HIDE DEF r
      <3>1. hash \in [Procs -> [Ids -> Hash]] /\ r \in Hash
        BY <2>3, Consts DEF Shapes
      <3>2. /\ hash' \in [Procs -> [Ids -> Hash]] /\ hash'[p][i] = r
            /\ \A q \in Procs, j \in Ids : q # p \/ j # i => hash'[q][j] = hash[q][j]
            /\ \A q \in Procs : q # p => hash'[q] = hash[q]
        BY <1>7, <2>1, <3>1, SetCell
      <3>3. \A q \in Procs, j \in Ids : hash'[q][j] \in Hashes(j)
        BY <2>3, <3>2 DEF Shapes
      <3> QED
        BY <3>2, <3>3
    <2>5. /\ entry' \in [Procs -> [Sources -> Kinds]]
          /\ \A q \in Procs : q # p => entry'[q] = entry[q]
          /\ \A j \in Sources : entry'[p][j] = entry[p][j]
                                \/ (j = i /\ fetch[p][i].load = TRUE /\ entry'[p][j] = "loaded")
      <3>1. CASE fetch[p][i].load
        <4>1. entry' = [entry EXCEPT ![p][i] = "loaded"] /\ fetch[p][i].load = TRUE
          BY <1>2, <2>2, <3>1, Zenon
        <4>2. entry \in [Procs -> [Sources -> Kinds]] /\ "loaded" \in Kinds
          BY DEF Shapes, Kinds
        <4> QED
          BY <1>7, <2>3, <4>1, <4>2, SetCell
      <3>2. CASE ~fetch[p][i].load
        <4>1. entry' = entry
          BY <2>2, <3>2, Zenon
        <4> QED
          BY <4>1 DEF Shapes
      <3> QED
        BY <3>1, <3>2
    <2>6. toload' \in [Procs -> SUBSET Sources] /\ \A q \in Procs : toload'[q] = toload[q]
      BY <2>1 DEF Shapes
    <2>7. \A j \in Sources : j # i => hash'[p][j] = hash[p][j]
      BY <1>7, <2>4, Consts
    <2> QED
      BY <1>3, <1>6, <1>7, <2>3, <2>4, <2>5, <2>6, <2>7 DEF FetchEnded
  <1> QED
    BY <1>8, <1>9

\* FetchEnd keeps the types.
LEMMA FetchEndShapes ==
    ASSUME Shapes, NEW p \in Slaves, NEW i \in Ids, FetchEnd(p, i)
    PROVE  Shapes'
  <1>1. UNCHANGED <<remote, inbox, caller, seen, faults>>
    BY DEF FetchEnd, Only
  <1>2. /\ fetch' \in [Slaves -> [Ids -> FetchRec]]
        /\ \A q \in Slaves, j \in Ids : fetch'[q][j].busy = TRUE => fetch'[q][j].rev \in Brought(j)
        /\ hash' \in [Procs -> [Ids -> Hash]] /\ \A q \in Procs, j \in Ids : hash'[q][j] \in Hashes(j)
        /\ \A q \in Procs : q # p => hash'[q] = hash[q]
        /\ entry' \in [Procs -> [Sources -> Kinds]] /\ toload' \in [Procs -> SUBSET Sources]
    <2>1. FetchEnded(p, i)
      BY FetchEndFields, Zenon
    <2> QED
      BY <2>1 DEF FetchEnded
  <1>3. hash'[Api] = hash[Api]
    BY <1>2, Consts
  <1> QED
    BY <1>1, <1>2, <1>3 DEF Shapes

\* FetchBreak keeps the types.
LEMMA FetchBreakShapes ==
    ASSUME Shapes, NEW p \in Slaves, NEW i \in Ids, FetchBreak(p, i)
    PROVE  Shapes'
  <1>1. UNCHANGED <<remote, hash, entry, toload, inbox, caller, seen>> /\ Fault
    BY DEF FetchBreak, Only
  <1>2. fetch' = [fetch EXCEPT ![p][i] = NoFetch]
    BY DEF FetchBreak
  <1>3. /\ fetch' \in [Slaves -> [Ids -> FetchRec]]
        /\ \A q \in Slaves, j \in Ids : fetch'[q][j].busy = TRUE => fetch'[q][j].rev \in Brought(j)
    BY <1>2, FetchRests
  <1>4. faults' \in 0..MaxFaults
    BY <1>1, FaultCounts
  <1> QED
    BY <1>1, <1>3, <1>4 DEF Shapes

\* A slave that starts again has empty tables, and fetches the master source.
LEMMA RestartFields ==
    ASSUME Shapes, NEW p \in Slaves, Restart(p)
    PROVE  /\ UNCHANGED <<remote, caller, seen>>
           /\ faults' \in 0..MaxFaults /\ faults' # 0
           /\ entry' \in [Procs -> [Sources -> Kinds]] /\ \A q \in Procs : q # p => entry'[q] = entry[q]
           /\ \A i \in Sources : entry'[p][i] = "unknown"
           /\ toload' \in [Procs -> SUBSET Sources] /\ \A q \in Procs : q # p => toload'[q] = toload[q]
           /\ toload'[p] = {}
           /\ inbox' \in [Slaves -> SUBSET Ids]
           /\ fetch' \in [Slaves -> [Ids -> FetchRec]] /\ \A q \in Slaves : q # p => fetch'[q] = fetch[q]
           /\ \A i \in Sources : fetch'[p][i].busy = FALSE /\ fetch'[p][i].load = FALSE
           /\ fetch'[p][Master].rev = hash[Api][Master]
           /\ hash' \in [Procs -> [Ids -> Hash]] /\ \A q \in Procs, j \in Ids : hash'[q][j] \in Hashes(j)
           /\ \A q \in Procs : q # p => hash'[q] = hash[q]
  <1> DEFINE e == [i \in Sources |-> "unknown"]
             v == [busy |-> TRUE, rev |-> hash[Api][Master], load |-> TRUE]
             g == [i \in Ids |-> IF i = Master THEN v ELSE NoFetch]
  <1>1. UNCHANGED <<remote, caller, seen>> /\ Fault
    BY DEF Restart, Only
  <1>2. /\ entry' = [entry EXCEPT ![p] = e] /\ toload' = [toload EXCEPT ![p] = {}]
        /\ inbox' = [inbox EXCEPT ![p] = {}] /\ hash' = [hash EXCEPT ![p][Master] = NoHash]
    BY DEF Restart
  <1>3. fetch' = [fetch EXCEPT ![p] = g]
    BY DEF Restart
  <1>4. p \in Procs /\ p # Api
    BY Consts
  <1>5. v \in FetchRec /\ v.rev = hash[Api][Master]
    BY Consts DEF FetchRec, Shapes
  <1> HIDE DEF v
  <1>6. g \in [Ids -> FetchRec] /\ g[Master] = v /\ \A i \in Sources : g[i].busy = FALSE /\ g[i].load = FALSE
    BY <1>5, NoFetchFields, Consts
  <1>7. e \in [Sources -> Kinds] /\ \A i \in Sources : e[i] = "unknown"
    BY DEF Kinds
  <1> HIDE DEF e, g
  <1>8. /\ entry' \in [Procs -> [Sources -> Kinds]] /\ \A q \in Procs : q # p => entry'[q] = entry[q]
        /\ entry'[p] = e
    BY <1>2, <1>4, <1>7, SetRow DEF Shapes
  <1>9. /\ toload' \in [Procs -> SUBSET Sources] /\ \A q \in Procs : q # p => toload'[q] = toload[q]
        /\ toload'[p] = {}
    BY <1>2, <1>4 DEF Shapes
  <1>10. inbox' \in [Slaves -> SUBSET Ids]
    BY <1>2 DEF Shapes
  <1>11. /\ fetch' \in [Slaves -> [Ids -> FetchRec]] /\ \A q \in Slaves : q # p => fetch'[q] = fetch[q]
         /\ fetch'[p] = g
    BY <1>3, <1>6 DEF Shapes
  <1>12. /\ hash' \in [Procs -> [Ids -> Hash]] /\ \A q \in Procs, j \in Ids : hash'[q][j] \in Hashes(j)
         /\ \A q \in Procs : q # p => hash'[q] = hash[q]
    BY <1>2, <1>4, Consts, HashWritten
  <1>13. faults' \in 0..MaxFaults /\ faults' # 0
    BY <1>1, FaultCounts
  <1> QED
    BY <1>1, <1>5, <1>6, <1>7, <1>8, <1>9, <1>10, <1>11, <1>12, <1>13

\* Restart keeps the types.
LEMMA RestartShapes ==
    ASSUME Shapes, NEW p \in Slaves, Restart(p)
    PROVE  Shapes'
  <1>1. /\ UNCHANGED <<remote, caller, seen>>
        /\ faults' \in 0..MaxFaults
        /\ entry' \in [Procs -> [Sources -> Kinds]]
        /\ toload' \in [Procs -> SUBSET Sources]
        /\ inbox' \in [Slaves -> SUBSET Ids]
        /\ fetch' \in [Slaves -> [Ids -> FetchRec]] /\ \A q \in Slaves : q # p => fetch'[q] = fetch[q]
        /\ \A i \in Sources : fetch'[p][i].busy = FALSE
        /\ fetch'[p][Master].rev = hash[Api][Master]
        /\ hash' \in [Procs -> [Ids -> Hash]] /\ \A q \in Procs, j \in Ids : hash'[q][j] \in Hashes(j)
        /\ \A q \in Procs : q # p => hash'[q] = hash[q]
    BY RestartFields
  <1>2. hash'[Api] = hash[Api] /\ hash[Api][Master] \in Brought(Master)
    BY <1>1, Consts, BroughtHashes DEF Shapes
  <1>3. \A q \in Slaves, j \in Ids : fetch'[q][j].busy = TRUE => fetch'[q][j].rev \in Brought(j)
    BY <1>1, <1>2, Consts DEF Shapes
  <1> QED
    BY <1>1, <1>2, <1>3 DEF Shapes

-----------------------------------------------------------------------------
(* What most actions leave as it is                                        *)

\* The API process's directories are left alone, and those who write them go on.
LEMMA ApiKeeps ==
    ASSUME ApiShows, entry'[Api] = entry[Api], hash'[Api] = hash[Api],
           \A c \in Callers : caller[c].at = "write" => caller'[c] = caller[c]
    PROVE  ApiShows'
  BY DEF ApiShows

\* When the processes do not differ over a source, each has it unless its filter
\* excludes it, the API process has it, and all show the same hash.
Agreed(i) ==
    /\ entry[Api][i] = "loaded" /\ hash[Api][i] \in Nat
    /\ \A p \in Procs : \/ entry[p][i] = "filtered" /\ i \in Hidden[p]
                        \/ entry[p][i] = "loaded" /\ i \notin Hidden[p] /\ hash[p][i] = hash[Api][i]
NoDifferenceAgreed == Shapes /\ EntryInv => \A i \in Sources : ~Differ(i) => Agreed(i)

\* Processes that do not differ agree.
LEMMA NoDifference == NoDifferenceAgreed
  <1> SUFFICES ASSUME Shapes, EntryInv, NEW i \in Sources, ~Differ(i)
      PROVE  Agreed(i)
    BY DEF NoDifferenceAgreed
  <1>1. \A p \in Procs : entry[p][i] # "unknown"
    BY Consts DEF Differ
  <1>2. \A p \in Procs : entry[p][i] = "loaded" => hash[p][i] # NoHash
    BY Consts DEF Differ
  <1>3. \A p, q \in Procs : entry[p][i] = "loaded" /\ entry[q][i] = "loaded" => hash[p][i] = hash[q][i]
    BY DEF Differ
  <1>4. \A p \in Procs : entry[p][i] \in {"loaded", "filtered"}
    BY <1>1 DEF Shapes, Kinds
  <1>5. \A p \in Procs : /\ entry[p][i] = "filtered" => i \in Hidden[p]
                         /\ entry[p][i] = "loaded" => i \notin Hidden[p]
    BY DEF EntryInv
  <1>6. entry[Api][i] = "loaded" /\ Api \in Procs
    BY <1>4, <1>5, Consts, ClusterAssumption
  <1>7. hash[Api][i] \in Nat
    <2>1. hash[Api][i] \in Hashes(i) /\ hash[Api][i] # NoHash
      BY <1>2, <1>6, Consts DEF Shapes
    <2> QED
      BY <2>1, Consts
  <1> QED
    BY <1>3, <1>4, <1>5, <1>6, <1>7 DEF Agreed

\* The same of the next state.
LEMMA NoDifferenceNext == NoDifferenceAgreed'
  BY NoDifference, PTL

\* What a watch task has seen stays true when the hashes of at most one process change:
\* another process that has the source still shows the hash it has seen, unless the
\* processes have come to differ.
LEMMA SeenKeeps ==
    ASSUME Shapes, EntryInv, SeenInv, Shapes', EntryInv',
           NEW P \in Procs, \A q \in Procs : q # P => hash'[q] = hash[q],
           \A i \in Sources : \/ seen'[i] = NothingSeen
                              \/ /\ seen'[i] = seen[i]
                                 /\ caller[i].at = "ask" => caller'[i].at = "ask",
           diverged' = {i \in Sources : caller'[i].at # "rest" /\ (i \in diverged \/ Differ(i)')}
    PROVE  SeenInv'
  <1> SUFFICES ASSUME NEW i \in Sources
      PROVE  /\ caller'[i].at # "rest" /\ i \notin diverged' => ~Differ(i)'
             /\ caller'[i].at # "ask" => seen'[i] = NothingSeen
             /\ caller'[i].at = "ask" /\ i \notin diverged' =>
                  /\ ~OnlyApiHas(i) => seen'[i].hashes \subseteq {hash'[Api][i]}
                  /\ OnlyApiHas(i) => /\ Api \notin seen'[i].by => seen'[i].hashes = {}
                                      /\ \E h \in Nat : seen'[i].hashes \subseteq {h}
    BY DEF SeenInv, OnlyApiHas
  <1>1. caller'[i].at # "rest" /\ i \notin diverged' => ~Differ(i)' /\ i \notin diverged
    OBVIOUS
  <1>2. caller[i].at # "ask" => seen[i] = NothingSeen
    BY DEF SeenInv
  <1>3. caller'[i].at # "ask" => seen'[i] = NothingSeen
    BY <1>2
  <1>4. NothingSeen.hashes = {} /\ NothingSeen.by = {}
    BY DEF NothingSeen
  <1>5. ASSUME caller'[i].at = "ask", i \notin diverged'
        PROVE  /\ ~OnlyApiHas(i) => seen'[i].hashes \subseteq {hash'[Api][i]}
               /\ OnlyApiHas(i) => /\ Api \notin seen'[i].by => seen'[i].hashes = {}
                                   /\ \E h \in Nat : seen'[i].hashes \subseteq {h}
    <2>1. CASE seen'[i] = NothingSeen
      <3>1. seen'[i].hashes = {} /\ 0 \in Nat
        BY <1>4, <2>1
      <3> QED
        BY <3>1
    <2>2. CASE seen'[i] = seen[i] /\ caller[i].at = "ask"
      <3>1. i \notin diverged /\ ~Differ(i)'
        BY <1>1, <1>5
      <3>2. /\ ~Differ(i)
            /\ ~OnlyApiHas(i) => seen[i].hashes \subseteq {hash[Api][i]}
            /\ OnlyApiHas(i) => /\ Api \notin seen[i].by => seen[i].hashes = {}
                                /\ \E h \in Nat : seen[i].hashes \subseteq {h}
        BY <2>2, <3>1 DEF SeenInv
      <3>3. CASE OnlyApiHas(i)
        BY <2>2, <3>2, <3>3
      <3>4. CASE ~OnlyApiHas(i)
        <4>1. PICK p \in Slaves : i \notin Hidden[p]
          BY <3>4 DEF OnlyApiHas
        <4>2. hash[p][i] = hash[Api][i] /\ p \in Procs /\ p # Api
          BY <3>2, <4>1, NoDifference, Consts DEF NoDifferenceAgreed, Agreed
        <4>3. hash'[p][i] = hash'[Api][i]
          <5>1. /\ entry'[Api][i] = "loaded" /\ hash'[Api][i] \in Nat
                /\ \A q \in Procs : \/ entry'[q][i] = "filtered" /\ i \in Hidden[q]
                                    \/ entry'[q][i] = "loaded" /\ i \notin Hidden[q] /\ hash'[q][i] = hash'[Api][i]
            BY <3>1, NoDifferenceNext DEF NoDifferenceAgreed, Agreed
          <5> QED
            BY <4>1, <4>2, <5>1
        <4>4. hash'[Api][i] = hash[Api][i]
          BY <4>2, <4>3, Consts
        <4> QED
          BY <2>2, <3>2, <3>4, <4>4
      <3> QED
        BY <3>3, <3>4
    <2> QED
      BY <1>2, <2>1, <2>2
  <1> QED
    BY <1>1, <1>3, <1>5

\* What the watch loop refreshes has differed, as long as it does not start a refresh.
LEMMA CopyKeeps ==
    ASSUME CopyInv,
           \A i \in Sources : caller'[i].at = "copy" => caller[i].at = "copy",
           diverged' = {i \in Sources : caller'[i].at # "rest" /\ (i \in diverged \/ Differ(i)')}
    PROVE  CopyInv'
  BY DEF CopyInv

-----------------------------------------------------------------------------
(* The invariant, action by action                                         *)

\* An action that leaves the directories and the entries alone.
LEMMA TablesKept ==
    ASSUME EntryInv, ApiShows, UNCHANGED <<hash, entry>>,
           \A p \in Procs : toload'[p] \subseteq toload[p],
           \A p \in Slaves, i \in Sources : fetch'[p][i].load = TRUE => fetch[p][i].load = TRUE,
           \A c \in Callers : caller[c].at = "write" => caller'[c] = caller[c]
    PROVE  EntryInv' /\ ApiShows'
  <1>1. EntryInv'
    BY DEF EntryInv
  <1>2. ApiShows'
    BY ApiKeeps
  <1> QED
    BY <1>1, <1>2

\* An action that changes neither what a watch task has seen, nor which are asked.
LEMMA WatchKept ==
    ASSUME ClusterInv, Shapes', EntryInv', UNCHANGED seen,
           NEW P \in Procs, \A q \in Procs : q # P => hash'[q] = hash[q],
           \A i \in Sources : /\ caller[i].at = "ask" => caller'[i].at = "ask"
                              /\ caller'[i].at = "copy" => caller[i].at = "copy",
           diverged' = {i \in Sources : caller'[i].at # "rest" /\ (i \in diverged \/ Differ(i)')}
    PROVE  SeenInv' /\ CopyInv'
  <1>1. Shapes /\ EntryInv /\ SeenInv /\ CopyInv
    BY DEF ClusterInv
  <1>2. \A i \in Sources : \/ seen'[i] = NothingSeen
                           \/ /\ seen'[i] = seen[i]
                              /\ caller[i].at = "ask" => caller'[i].at = "ask"
    OBVIOUS
  <1>3. SeenInv'
    BY <1>1, <1>2, SeenKeeps
  <1>4. CopyInv'
    BY <1>1, CopyKeeps
  <1> QED
    BY <1>3, <1>4

\* Both, for an action of a caller that is neither asking nor about to write, or of none.
LEMMA CallerAlone ==
    ASSUME ClusterInv, Shapes', UNCHANGED <<hash, entry, seen>>,
           \A p \in Procs : toload'[p] \subseteq toload[p],
           \A p \in Slaves, i \in Sources : fetch'[p][i].load = TRUE => fetch[p][i].load = TRUE,
           \A c \in Callers : \/ caller'[c] = caller[c]
                              \/ caller[c].at \notin {"ask", "write"} /\ (c \in Sources => caller'[c].at # "copy"),
           diverged' = {i \in Sources : caller'[i].at # "rest" /\ (i \in diverged \/ Differ(i)')}
    PROVE  ClusterInv'
  <1>1. EntryInv /\ ApiShows
    BY DEF ClusterInv
  <1>2. \A c \in Callers : caller[c].at = "write" => caller'[c] = caller[c]
    OBVIOUS
  <1>3. EntryInv' /\ ApiShows'
    BY <1>1, <1>2, TablesKept
  <1>4. \A i \in Sources : /\ caller[i].at = "ask" => caller'[i].at = "ask"
                           /\ caller'[i].at = "copy" => caller[i].at = "copy"
    BY Consts
  <1>5. Api \in Procs /\ \A q \in Procs : q # Api => hash'[q] = hash[q]
    BY Consts
  <1>6. SeenInv' /\ CopyInv'
    BY <1>3, <1>4, <1>5, WatchKept
  <1> QED
    BY <1>3, <1>6 DEF ClusterInv

\* Push keeps the invariant.
LEMMA PushKeeps ==
    ASSUME ClusterInv, NEW i \in Ids, Push(i)
    PROVE  ClusterInv'
  <1>1. /\ UNCHANGED <<hash, entry, toload, fetch, caller, seen, faults>>
        /\ diverged' = {j \in Sources : caller'[j].at # "rest" /\ (j \in diverged \/ Differ(j)')}
    BY DEF Push, Only
  <1>2. Shapes'
    BY PushShapes DEF ClusterInv
  <1> QED
    BY <1>1, <1>2, CallerAlone

\* HookStart keeps the invariant.
LEMMA HookStartKeeps ==
    ASSUME ClusterInv, NEW h \in Hooks, NEW i \in Ids, HookStart(h, i)
    PROVE  ClusterInv'
  <1>1. /\ UNCHANGED <<hash, entry, toload, fetch, seen, faults>>
        /\ diverged' = {j \in Sources : caller'[j].at # "rest" /\ (j \in diverged \/ Differ(j)')}
    BY DEF HookStart, Only
  <1>2. Shapes' /\ Shapes
    BY HookStartShapes DEF ClusterInv
  <1>3. /\ caller' = [caller EXCEPT ![h] = [at |-> "copy", id |-> i, rev |-> 0]]
        /\ caller[h].at = "new"
    BY DEF HookStart
  <1>4. h \in Callers /\ h \notin Sources
    BY ClusterAssumption DEF Callers
  <1>5. \A c \in Callers : \/ caller'[c] = caller[c]
                           \/ caller[c].at \notin {"ask", "write"} /\ (c \in Sources => caller'[c].at # "copy")
    BY <1>2, <1>3, <1>4 DEF Shapes
  <1> QED
    BY <1>1, <1>2, <1>5, CallerAlone

\* RefreshFail keeps the invariant.
LEMMA RefreshFailKeeps ==
    ASSUME ClusterInv, NEW c \in Callers, RefreshFail(c)
    PROVE  ClusterInv'
  <1>1. /\ UNCHANGED <<hash, entry, toload, fetch, seen>> /\ Rest(c) /\ Fault /\ caller[c].at = "copy"
        /\ diverged' = {j \in Sources : caller'[j].at # "rest" /\ (j \in diverged \/ Differ(j)')}
    BY DEF RefreshFail, Only
  <1>2. Shapes' /\ Shapes
    BY RefreshFailShapes DEF ClusterInv
  <1>3. faults' # 0
    BY <1>1, <1>2, FaultCounts
  <1>4. caller'[c].at = "rest" /\ \A x \in Callers : x # c => caller'[x] = caller[x]
    BY <1>1, <1>2, CallerRests
  <1>5. \A x \in Callers : \/ caller'[x] = caller[x]
                           \/ caller[x].at \notin {"ask", "write"} /\ (x \in Sources => caller'[x].at # "copy")
    BY <1>1, <1>4
  <1> QED
    BY <1>1, <1>2, <1>3, <1>5, CallerAlone

\* ReloadEnd keeps the invariant.
LEMMA ReloadEndKeeps ==
    ASSUME ClusterInv, NEW c \in Callers, ReloadEnd(c)
    PROVE  ClusterInv'
  <1>1. /\ UNCHANGED <<hash, entry, toload, fetch, seen, faults>>
        /\ caller[c].at = "reload" /\ caller' = [caller EXCEPT ![c].at = "publish"]
        /\ diverged' = {j \in Sources : caller'[j].at # "rest" /\ (j \in diverged \/ Differ(j)')}
    BY DEF ReloadEnd, Only
  <1>2. Shapes' /\ Shapes
    BY ReloadEndShapes DEF ClusterInv
  <1>3. caller'[c].at = "publish" /\ \A x \in Callers : x # c => caller'[x] = caller[x]
    BY <1>1, <1>2, CallerMoves DEF Ats
  <1>4. \A x \in Callers : \/ caller'[x] = caller[x]
                           \/ caller[x].at \notin {"ask", "write"} /\ (x \in Sources => caller'[x].at # "copy")
    BY <1>1, <1>3
  <1> QED
    BY <1>1, <1>2, <1>4, CallerAlone

\* Broadcast keeps the invariant.
LEMMA BroadcastKeeps ==
    ASSUME ClusterInv, NEW c \in Callers, Broadcast(c)
    PROVE  ClusterInv'
  <1>1. /\ UNCHANGED <<hash, entry, toload, fetch, seen>> /\ Rest(c) /\ caller[c].at = "publish"
        /\ diverged' = {j \in Sources : caller'[j].at # "rest" /\ (j \in diverged \/ Differ(j)')}
    BY DEF Broadcast, Only
  <1>2. Shapes' /\ Shapes
    BY BroadcastShapes DEF ClusterInv
  <1>3. PICK lost \in SUBSET Slaves : faults' = faults + Cardinality(lost)
    BY Zenon DEF Broadcast
  <1>4. Cardinality(lost) \in Nat
    BY ClusterAssumption, FS_Subset, FS_CardinalityType
  <1>5. faults' = 0 => faults = 0
    BY <1>2, <1>3, <1>4, ClusterAssumption DEF Shapes
  <1>6. caller'[c].at = "rest" /\ \A x \in Callers : x # c => caller'[x] = caller[x]
    BY <1>1, <1>2, CallerRests
  <1>7. \A x \in Callers : \/ caller'[x] = caller[x]
                           \/ caller[x].at \notin {"ask", "write"} /\ (x \in Sources => caller'[x].at # "copy")
    BY <1>1, <1>6
  <1> QED
    BY <1>1, <1>2, <1>5, <1>7, CallerAlone

\* WatchPass keeps the invariant.
LEMMA WatchPassKeeps ==
    ASSUME ClusterInv, WatchPass
    PROVE  ClusterInv'
  <1>1. Shapes' /\ Shapes
    BY WatchPassShapes DEF ClusterInv
  <1>2. /\ UNCHANGED <<hash, entry, toload, fetch, seen, faults>>
        /\ \A c \in Callers : caller'[c] = caller[c] \/ (c \in Sources /\ caller'[c].at = "ask")
        /\ \A i \in Sources : caller[i].at = "rest"
    BY <1>1, WatchPassFields
  <1>3. diverged' = {j \in Sources : caller'[j].at # "rest" /\ (j \in diverged \/ Differ(j)')}
    BY DEF WatchPass, Only
  <1>4. \A x \in Callers : \/ caller'[x] = caller[x]
                           \/ caller[x].at \notin {"ask", "write"} /\ (x \in Sources => caller'[x].at # "copy")
    BY <1>2
  <1> QED
    BY <1>1, <1>2, <1>3, <1>4, CallerAlone

\* And for an action that no caller takes.
LEMMA SlaveSideKeeps ==
    ASSUME ClusterInv, Shapes', UNCHANGED <<hash, entry, caller, seen>>,
           \A p \in Procs : toload'[p] \subseteq toload[p],
           \A p \in Slaves, i \in Sources : fetch'[p][i].load = TRUE => fetch[p][i].load = TRUE,
           diverged' = {i \in Sources : caller'[i].at # "rest" /\ (i \in diverged \/ Differ(i)')}
    PROVE  ClusterInv'
  BY CallerAlone

\* HandleUnknown keeps the invariant.
LEMMA HandleUnknownKeeps ==
    ASSUME ClusterInv, NEW p \in Slaves, NEW i \in Ids, HandleUnknown(p, i)
    PROVE  ClusterInv'
  <1>1. /\ UNCHANGED <<hash, entry, toload, fetch, caller, seen, faults>>
        /\ diverged' = {j \in Sources : caller'[j].at # "rest" /\ (j \in diverged \/ Differ(j)')}
    BY DEF HandleUnknown, Only
  <1>2. Shapes'
    BY HandleUnknownShapes DEF ClusterInv
  <1> QED
    BY <1>1, <1>2, SlaveSideKeeps

\* LoadFail keeps the invariant.
LEMMA LoadFailKeeps ==
    ASSUME ClusterInv, NEW p \in Slaves, NEW i \in Sources, LoadFail(p, i) \/ LoadUnserved(p, i)
    PROVE  ClusterInv'
  <1>1. UNCHANGED <<hash, entry, fetch, caller, seen>>
    BY DEF LoadFail, LoadUnserved, Only
  <1>2. diverged' = {j \in Sources : caller'[j].at # "rest" /\ (j \in diverged \/ Differ(j)')}
    BY DEF LoadFail, LoadUnserved, Only
  <1>3. Shapes' /\ Shapes
    BY LoadFailShapes DEF ClusterInv
  <1>4. toload' = [toload EXCEPT ![p] = @ \ {i}]
    BY DEF LoadFail, LoadUnserved
  <1>5. \A q \in Procs : toload'[q] \subseteq toload[q]
    BY <1>3, <1>4 DEF Shapes
  <1>6. Fault \/ UNCHANGED faults
    BY DEF LoadFail, LoadUnserved, Only
  <1>7. faults' = 0 => faults = 0
    BY <1>3, <1>6, FaultCounts
  <1> QED
    BY <1>1, <1>2, <1>3, <1>5, <1>7, SlaveSideKeeps

\* FetchBreak keeps the invariant.
LEMMA FetchBreakKeeps ==
    ASSUME ClusterInv, NEW p \in Slaves, NEW i \in Ids, FetchBreak(p, i)
    PROVE  ClusterInv'
  <1>1. UNCHANGED <<hash, entry, toload, caller, seen>> /\ Fault
    BY DEF FetchBreak, Only
  <1>2. diverged' = {j \in Sources : caller'[j].at # "rest" /\ (j \in diverged \/ Differ(j)')}
    BY DEF FetchBreak, Only
  <1>3. Shapes' /\ Shapes
    BY FetchBreakShapes DEF ClusterInv
  <1>4. fetch' = [fetch EXCEPT ![p][i] = NoFetch]
    BY DEF FetchBreak
  <1>5. \A q \in Slaves, j \in Sources : fetch'[q][j].load = TRUE => fetch[q][j].load = TRUE
    <2>1. /\ fetch'[p][i] = NoFetch
          /\ \A q \in Slaves, j \in Ids : q # p \/ j # i => fetch'[q][j] = fetch[q][j]
      BY <1>3, <1>4, FetchRests, ZenonT(40)
    <2> QED
      BY <2>1, NoFetchFields, Consts
  <1>6. faults' # 0
    BY <1>1, <1>3, FaultCounts
  <1> QED
    BY <1>1, <1>2, <1>3, <1>5, <1>6, SlaveSideKeeps

\* An answer tells the hash that the others have shown, or nothing, as long as the
\* processes do not differ.
LEMMA AnswerKeeps ==
    ASSUME ClusterInv, NEW i \in Sources, NEW p \in Procs, Answer(i, p)
    PROVE  ClusterInv'
  <1>1. Shapes /\ EntryInv /\ ApiShows /\ SeenInv /\ CopyInv
    BY DEF ClusterInv
  <1>2. Shapes'
    BY <1>1, AnswerShapes
  <1>3. /\ \A j \in Sources : j # i => seen'[j] = seen[j]
        /\ seen'[i].by = seen[i].by \cup {p}
        /\ seen'[i].hashes = seen[i].hashes \cup Status(p, i)
        /\ caller[i].at = "ask"
        /\ UNCHANGED <<hash, entry, toload, fetch, caller, faults>>
    BY <1>1, AnswerFields
  <1>4. diverged' = {j \in Sources : caller'[j].at # "rest" /\ (j \in diverged \/ Differ(j)')}
    BY DEF Answer, Only
  <1>5. p \notin seen[i].by
    BY DEF Answer
  <1>6. EntryInv' /\ ApiShows'
    BY <1>1, <1>3, TablesKept
  <1>7. CopyInv'
    BY <1>1, <1>3, <1>4, CopyKeeps
  <1>8. ASSUME NEW j \in Sources
        PROVE  /\ caller'[j].at # "rest" /\ j \notin diverged' => ~Differ(j)'
               /\ caller'[j].at # "ask" => seen'[j] = NothingSeen
               /\ caller'[j].at = "ask" /\ j \notin diverged' =>
                    /\ ~OnlyApiHas(j) => seen'[j].hashes \subseteq {hash'[Api][j]}
                    /\ OnlyApiHas(j) => /\ Api \notin seen'[j].by => seen'[j].hashes = {}
                                        /\ \E h \in Nat : seen'[j].hashes \subseteq {h}
    <2>1. caller'[j].at # "rest" /\ j \notin diverged' => ~Differ(j)' /\ j \notin diverged
      BY <1>4
    <2>2. CASE j # i
      <3>1. /\ caller[j].at # "ask" => seen[j] = NothingSeen
            /\ caller[j].at = "ask" /\ j \notin diverged =>
                 /\ ~OnlyApiHas(j) => seen[j].hashes \subseteq {hash[Api][j]}
                 /\ OnlyApiHas(j) => /\ Api \notin seen[j].by => seen[j].hashes = {}
                                     /\ \E h \in Nat : seen[j].hashes \subseteq {h}
        BY <1>1 DEF SeenInv
      <3>2. seen'[j] = seen[j] /\ caller' = caller /\ hash' = hash
        BY <1>3, <2>2
      <3>3. caller'[j].at = "ask" /\ j \notin diverged' => j \notin diverged
        BY <2>1
      <3> QED
        BY <2>1, <3>1, <3>2, <3>3
    <2>3. CASE j = i
      <3>1. caller'[j].at = "ask"
        BY <1>3, <2>3
      <3>2. ASSUME j \notin diverged'
            PROVE  /\ ~OnlyApiHas(j) => seen'[j].hashes \subseteq {hash'[Api][j]}
                   /\ OnlyApiHas(j) => /\ Api \notin seen'[j].by => seen'[j].hashes = {}
                                       /\ \E h \in Nat : seen'[j].hashes \subseteq {h}
        <4>1. i \notin diverged
          BY <2>1, <2>3, <3>1, <3>2
        <4>2. /\ ~Differ(i)
              /\ ~OnlyApiHas(i) => seen[i].hashes \subseteq {hash[Api][i]}
              /\ OnlyApiHas(i) /\ Api \notin seen[i].by => seen[i].hashes = {}
              /\ OnlyApiHas(i) => \E h \in Nat : seen[i].hashes \subseteq {h}
          BY <1>1, <1>3, <4>1 DEF SeenInv
        <4>3. Agreed(i)
          BY <1>1, <4>2, NoDifference DEF NoDifferenceAgreed
        <4>4. \/ Status(p, i) = {} /\ i \in Hidden[p]
              \/ Status(p, i) = {hash[Api][i]} /\ i \notin Hidden[p]
          BY <4>3 DEF Agreed, Status
        <4>5. CASE ~OnlyApiHas(i)
          BY <1>3, <2>3, <4>2, <4>4, <4>5
        <4>6. CASE OnlyApiHas(i)
          <5>1. CASE Api \in seen[i].by
            <6>1. Status(p, i) = {}
              BY <1>5, <4>4, <4>6, <5>1, Consts DEF OnlyApiHas
            <6> QED
              BY <1>3, <2>3, <4>2, <4>6, <5>1, <6>1
          <5>2. CASE Api \notin seen[i].by
            <6>1. seen'[i].hashes = Status(p, i)
              BY <1>3, <4>2, <4>6, <5>2
            <6>2. p = Api \/ Status(p, i) = {}
              BY <4>4, <4>6, Consts DEF OnlyApiHas
            <6>3. \E h \in Nat : Status(p, i) \subseteq {h}
              BY <4>3, <4>4 DEF Agreed
            <6> QED
              BY <1>3, <2>3, <4>6, <6>1, <6>2, <6>3
          <5> QED
            BY <5>1, <5>2
        <4> QED
          BY <4>5, <4>6
      <3> QED
        BY <2>1, <3>1, <3>2
    <2> QED
      BY <2>2, <2>3
  <1>9. SeenInv'
    BY <1>8 DEF SeenInv, OnlyApiHas
  <1> QED
    BY <1>2, <1>6, <1>7, <1>9 DEF ClusterInv

\* One hash, and one only, needs no refresh (_source_needs_refresh).
LEMMA OneHashSuffices ==
    ASSUME NEW h \in Nat, NEW H, H \subseteq {h}
    PROVE  ~NeedsRefresh(H)
  <1>1. NoHash \notin H
    BY ClusterAssumption
  <1>2. IsFiniteSet({h}) /\ Cardinality({h}) = 1
    BY FS_Singleton
  <1>3. Cardinality(H) <= 1
    <2>1. IsFiniteSet(H) /\ Cardinality(H) <= Cardinality({h})
      BY <1>2, FS_Subset
    <2> QED
      BY <1>2, <2>1
  <1>4. Cardinality(H) \in Nat
    BY <1>2, FS_Subset, FS_CardinalityType
  <1> QED
    BY <1>1, <1>3, <1>4 DEF NeedsRefresh

\* A task that refreshes has seen two hashes or a missing one: the processes differed.
LEMMA DecideKeeps ==
    ASSUME ClusterInv, NEW i \in Sources, Decide(i)
    PROVE  ClusterInv'
  <1>1. Shapes /\ EntryInv /\ ApiShows /\ SeenInv /\ CopyInv
    BY DEF ClusterInv
  <1>2. Shapes'
    BY <1>1, DecideShapes
  <1>3. /\ \A c \in Callers : c # i => caller'[c] = caller[c]
        /\ caller[i].at = "ask"
        /\ caller'[i].at = "rest" \/ (caller'[i].at = "copy" /\ NeedsRefresh(seen[i].hashes))
        /\ seen'[i] = NothingSeen
        /\ \A j \in Sources : j # i => seen'[j] = seen[j]
        /\ (faults' = 0 => faults = 0)
        /\ UNCHANGED <<hash, entry, toload, fetch>>
    BY <1>1, DecideFields
  <1>4. diverged' = {j \in Sources : caller'[j].at # "rest" /\ (j \in diverged \/ Differ(j)')}
    BY DEF Decide, Only
  <1>5. EntryInv' /\ ApiShows'
    <2>1. \A c \in Callers : caller[c].at = "write" => caller'[c] = caller[c]
      BY <1>3
    <2> QED
      BY <1>1, <1>3, <2>1, TablesKept
  <1>6. SeenInv'
    <2>1. \A j \in Sources : \/ seen'[j] = NothingSeen
                             \/ /\ seen'[j] = seen[j]
                                /\ caller[j].at = "ask" => caller'[j].at = "ask"
      BY <1>3, Consts
    <2>2. Api \in Procs /\ \A q \in Procs : q # Api => hash'[q] = hash[q]
      BY <1>3, Consts
    <2> QED
      BY <1>1, <1>2, <1>4, <1>5, <2>1, <2>2, SeenKeeps
  <1>7. NeedsRefresh(seen[i].hashes) => i \in diverged
    <2> SUFFICES ASSUME i \notin diverged
        PROVE  ~NeedsRefresh(seen[i].hashes)
      BY Zenon
    <2>1. /\ ~Differ(i)
          /\ ~OnlyApiHas(i) => seen[i].hashes \subseteq {hash[Api][i]}
          /\ OnlyApiHas(i) => \E h \in Nat : seen[i].hashes \subseteq {h}
      BY <1>1, <1>3 DEF SeenInv
    <2>2. hash[Api][i] \in Nat
      BY <1>1, <2>1, NoDifference DEF NoDifferenceAgreed, Agreed
    <2>3. PICK h \in Nat : seen[i].hashes \subseteq {h}
      BY <2>1, <2>2
    <2> QED
      BY <2>3, OneHashSuffices, Zenon
  <1>8. CopyInv'
    <2> SUFFICES ASSUME NEW j \in Sources, caller'[j].at = "copy"
        PROVE  j \in diverged'
      BY DEF CopyInv
    <2>1. j \in diverged
      <3>1. CASE j = i
        <4>1. caller'[i].at = "copy"
          BY <3>1
        <4>2. NeedsRefresh(seen[i].hashes)
          BY <1>3, <4>1
        <4> QED
          BY <1>7, <3>1, <4>2, Zenon
      <3>2. CASE j # i
        BY <1>1, <1>3, <3>2, Consts DEF CopyInv
      <3> QED
        BY <3>1, <3>2
    <2> QED
      BY <1>4, <2>1
  <1> QED
    BY <1>2, <1>5, <1>6, <1>8 DEF ClusterInv

\* An action that changes the directories and entries of one process, and no task.
LEMMA OneProcess ==
    ASSUME ClusterInv, Shapes', EntryInv', ApiShows', UNCHANGED <<caller, seen>>,
           NEW P \in Procs, \A q \in Procs : q # P => hash'[q] = hash[q],
           diverged' = {i \in Sources : caller'[i].at # "rest" /\ (i \in diverged \/ Differ(i)')}
    PROVE  ClusterInv'
  <1>1. \A i \in Sources : /\ caller[i].at = "ask" => caller'[i].at = "ask"
                           /\ caller'[i].at = "copy" => caller[i].at = "copy"
    OBVIOUS
  <1>2. UNCHANGED seen
    OBVIOUS
  <1>3. SeenInv' /\ CopyInv'
    BY <1>1, <1>2, WatchKept
  <1> QED
    BY <1>3 DEF ClusterInv

\* RefreshCopy keeps the invariant.
LEMMA RefreshCopyKeeps ==
    ASSUME ClusterInv, NEW c \in Callers, RefreshCopy(c)
    PROVE  ClusterInv'
  <1>1. Shapes /\ EntryInv /\ ApiShows
    BY DEF ClusterInv
  <1>2. Shapes'
    BY <1>1, RefreshCopyShapes
  <1> DEFINE i == caller[c].id
             h == IF i = Master THEN remote[Master] ELSE NoHash
             r == remote[i]
             v == [at |-> "write", id |-> i, rev |-> r]
  <1>3. /\ hash' = [hash EXCEPT ![Api][i] = h]
        /\ caller[c].at = "copy"
        /\ UNCHANGED <<entry, toload, fetch, seen, faults>>
    BY DEF RefreshCopy, Only
  <1>4. caller' = [caller EXCEPT ![c] = v]
    BY DEF RefreshCopy
  <1>5. diverged' = {j \in Sources : caller'[j].at # "rest" /\ (j \in diverged \/ Differ(j)')}
    BY DEF RefreshCopy, Only
  <1>6. v.at = "write" /\ v.id = i /\ i \in Ids
    BY <1>1 DEF Shapes, CallerRec
  <1> HIDE DEF h, i, v
  <1>7. /\ \A q \in Procs : q # Api => hash'[q] = hash[q]
        /\ \A j \in Ids : j # i => hash'[Api][j] = hash[Api][j]
    BY <1>1, <1>3, <1>6, Consts DEF Shapes
  <1>8. caller'[c] = v /\ \A x \in Callers : x # c => caller'[x] = caller[x]
    BY <1>1, <1>4 DEF Shapes
  <1>9. EntryInv'
    BY <1>1, <1>3 DEF EntryInv
  <1>10. ApiShows'
    <2> SUFFICES ASSUME NEW j \in Sources, entry'[Api][j] = "loaded", hash'[Api][j] = NoHash
        PROVE  \E x \in Callers : caller'[x].at = "write" /\ caller'[x].id = j
      BY DEF ApiShows
    <2>1. CASE j = i
      BY <1>6, <1>8, <2>1
    <2>2. CASE j # i
      <3>1. hash[Api][j] = NoHash /\ entry[Api][j] = "loaded"
        BY <1>3, <1>7, <2>2, Consts
      <3>2. PICK x \in Callers : caller[x].at = "write" /\ caller[x].id = j
        BY <1>1, <3>1 DEF ApiShows
      <3> QED
        BY <1>3, <1>8, <3>2
    <2> QED
      BY <2>1, <2>2
  <1>12. \A j \in Sources : /\ caller[j].at = "ask" => caller'[j].at = "ask"
                            /\ caller'[j].at = "copy" => caller[j].at = "copy"
    BY <1>3, <1>6, <1>8, Consts
  <1>13. SeenInv' /\ CopyInv'
    BY <1>2, <1>3, <1>5, <1>7, <1>9, <1>12, Consts, WatchKept
  <1> QED
    BY <1>2, <1>9, <1>10, <1>13 DEF ClusterInv

\* RefreshWrite keeps the invariant.
LEMMA RefreshWriteKeeps ==
    ASSUME ClusterInv, NEW c \in Callers, RefreshWrite(c)
    PROVE  ClusterInv'
  <1>1. Shapes /\ EntryInv /\ ApiShows
    BY DEF ClusterInv
  <1>2. Shapes'
    BY <1>1, RefreshWriteShapes
  <1> DEFINE i == caller[c].id
             r == hash[Api][Master]
  <1>3. UNCHANGED <<fetch, seen, faults>> /\ caller[c].at = "write"
    BY DEF RefreshWrite, Only
  <1>4. diverged' = {j \in Sources : caller'[j].at # "rest" /\ (j \in diverged \/ Differ(j)')}
    BY DEF RefreshWrite, Only
  <1>5. /\ \A x \in Callers : x # c => caller'[x] = caller[x]
        /\ caller'[c].at \in {"reload", "publish"}
    <2>1. PICK a \in {"reload", "publish"} : caller' = [caller EXCEPT ![c].at = a]
      <3>1. \/ caller' = [caller EXCEPT ![c].at = "reload"]
            \/ caller' = [caller EXCEPT ![c].at = "publish"]
        BY DEF RefreshWrite
      <3> QED
        BY <3>1
    <2> QED
      BY <1>1, <2>1, CallerMoves DEF Ats
  <1>6. /\ \A q \in Procs : q # Api => hash'[q] = hash[q] /\ entry'[q] = entry[q] /\ toload'[q] = toload[q]
        /\ \A j \in Sources :
             /\ entry'[Api][j] = "loaded" =>
                  /\ entry[Api][j] = "loaded"
                  /\ j # i => hash'[Api][j] = hash[Api][j]
                  /\ j = i => hash'[Api][j] # NoHash
             /\ entry'[Api][j] = "filtered" => j \in Hidden[Api] \/ entry[Api][j] = "filtered"
    <2>1. CASE i = Master
      <3>1. AfterReload(Api, r)
        BY <2>1 DEF RefreshWrite
      <3>2. r \in 0..MaxRev[Master] /\ Api \in Procs
        BY <1>1, Consts DEF Shapes
      <3> HIDE DEF r
      <3>3. /\ \A q \in Procs : q # Api => entry'[q] = entry[q]
            /\ \A q \in Procs : q # Api => toload'[q] = toload[q]
            /\ \A q \in Procs : q # Api => hash'[q] = hash[q]
            /\ \A j \in Sources :
                 /\ entry'[Api][j] = "loaded" =>
                      entry[Api][j] = "loaded" /\ j \notin Hidden[Api] /\ hash'[Api][j] = hash[Api][j]
                 /\ entry'[Api][j] = "filtered" => j \in Hidden[Api]
        BY <1>1, <3>1, <3>2, AfterReloadFields
      <3> QED
        BY <2>1, <3>3, Consts
    <2>2. CASE i # Master
      <3> DEFINE h == caller[c].rev
      <3>1. hash' = [hash EXCEPT ![Api][i] = h] /\ UNCHANGED <<entry, toload>>
        BY <2>2 DEF RefreshWrite
      <3>2. i \in Ids /\ h \in 0..MaxRev[i]
        BY <1>1 DEF Shapes, CallerRec
      <3>3. h \in Hashes(i) /\ h # NoHash /\ Api \in Procs /\ (Api = Api => i # Master)
        BY <2>2, <3>2, Consts
      <3> HIDE DEF i, h
      <3>4. /\ hash'[Api][i] = h
            /\ \A q \in Procs, j \in Ids : q # Api \/ j # i => hash'[q][j] = hash[q][j]
            /\ \A q \in Procs : q # Api => hash'[q] = hash[q]
        <4>1. hash \in [Procs -> [Ids -> Hash]] /\ h \in Hash
          BY <1>1, <3>2, <3>3, Consts DEF Shapes
        <4> QED
          BY <3>1, <3>2, <3>3, <4>1, SetCell
      <3> QED
        BY <3>1, <3>3, <3>4, Consts
    <2> QED
      BY <2>1, <2>2
  <1>7. EntryInv'
    BY <1>1, <1>3, <1>6, ClusterAssumption, Consts DEF EntryInv
  <1>8. ApiShows'
    <2> SUFFICES ASSUME NEW j \in Sources, entry'[Api][j] = "loaded", hash'[Api][j] = NoHash
        PROVE  \E x \in Callers : caller'[x].at = "write" /\ caller'[x].id = j
      BY DEF ApiShows
    <2>1. j # i /\ hash[Api][j] = NoHash /\ entry[Api][j] = "loaded"
      BY <1>6
    <2>2. PICK x \in Callers : caller[x].at = "write" /\ caller[x].id = j
      BY <1>1, <2>1 DEF ApiShows
    <2> QED
      BY <1>5, <2>1, <2>2
  <1>10. \A j \in Sources : /\ caller[j].at = "ask" => caller'[j].at = "ask"
                            /\ caller'[j].at = "copy" => caller[j].at = "copy"
    BY <1>3, <1>5, Consts
  <1>11. UNCHANGED seen /\ Api \in Procs /\ \A q \in Procs : q # Api => hash'[q] = hash[q]
    BY <1>3, <1>6, Consts
  <1>12. SeenInv' /\ CopyInv'
    BY <1>2, <1>4, <1>7, <1>10, <1>11, WatchKept
  <1> QED
    BY <1>2, <1>7, <1>8, <1>12 DEF ClusterInv

\* ApiLoad keeps the invariant.
LEMMA ApiLoadKeeps ==
    ASSUME ClusterInv, NEW i \in Sources, ApiLoad(i)
    PROVE  ClusterInv'
  <1>1. Shapes /\ EntryInv /\ ApiShows
    BY DEF ClusterInv
  <1>2. Shapes'
    BY <1>1, ApiLoadShapes
  <1>3. UNCHANGED <<fetch, caller, seen, faults>>
    BY DEF ApiLoad, Only
  <1>4. diverged' = {j \in Sources : caller'[j].at # "rest" /\ (j \in diverged \/ Differ(j)')}
    BY DEF ApiLoad, Only
  <1> DEFINE h == remote[i]
  <1>5. /\ toload' = [toload EXCEPT ![Api] = @ \ {i}]
        /\ hash' = [hash EXCEPT ![Api][i] = h]
        /\ entry' = [entry EXCEPT ![Api][i] = "loaded"]
    BY DEF ApiLoad
  <1>6. h \in Hashes(i) /\ h # NoHash /\ i \in Ids /\ i # Master /\ Api \in Procs
    BY <1>1, Consts DEF Shapes
  <1> HIDE DEF h
  <1>7. /\ hash'[Api][i] = h
        /\ \A q \in Procs, j \in Ids : q # Api \/ j # i => hash'[q][j] = hash[q][j]
        /\ \A q \in Procs : q # Api => hash'[q] = hash[q]
    <2>1. hash \in [Procs -> [Ids -> Hash]] /\ h \in Hash
      BY <1>1, <1>6, Consts DEF Shapes
    <2> QED
      BY <1>5, <1>6, <2>1, SetCell
  <1>8. /\ entry'[Api][i] = "loaded"
        /\ \A q \in Procs, j \in Sources : q # Api \/ j # i => entry'[q][j] = entry[q][j]
        /\ \A q \in Procs : q # Api => entry'[q] = entry[q]
        /\ \A q \in Procs : toload'[q] \subseteq toload[q]
    BY <1>1, <1>5, Consts DEF Shapes
  <1>9. EntryInv'
    BY <1>1, <1>3, <1>8, ClusterAssumption DEF EntryInv
  <1>10. ApiShows'
    BY <1>1, <1>3, <1>6, <1>7, <1>8, Consts DEF ApiShows
  <1>12. ApiShows' /\ UNCHANGED <<caller, seen>> /\ Api \in Procs
    BY <1>3, <1>10, Consts
  <1> QED
    BY <1>2, <1>4, <1>7, <1>9, <1>12, OneProcess

\* A slave that starts a fetch keeps the other tables, and has no hash until it ends.
LEMMA StartFetchKeeps ==
    ASSUME ClusterInv, Shapes', NEW p \in Slaves, NEW i \in Ids, UNCHANGED <<entry, caller, seen, faults>>,
           \A q \in Procs : toload'[q] \subseteq toload[q],
           \A q \in Procs : q # p => hash'[q] = hash[q],
           \A j \in Ids : j # i => hash'[p][j] = hash[p][j] /\ fetch'[p][j] = fetch[p][j],
           \A q \in Slaves, j \in Ids : q # p => fetch'[q][j] = fetch[q][j],
           fetch'[p][i].busy = TRUE,
           fetch'[p][i].load = TRUE => i \notin Hidden[p],
           diverged' = {j \in Sources : caller'[j].at # "rest" /\ (j \in diverged \/ Differ(j)')}
    PROVE  ClusterInv'
  <1>1. Shapes /\ EntryInv /\ ApiShows
    BY DEF ClusterInv
  <1>2. EntryInv'
    BY <1>1, Consts DEF EntryInv
  <1>3. ApiShows'
    BY <1>1, Consts, ApiKeeps
  <1>5. ApiShows' /\ UNCHANGED <<caller, seen>> /\ p \in Procs
    BY <1>3, Consts
  <1> QED
    BY <1>2, <1>5, OneProcess

\* HandleFetch keeps the invariant.
LEMMA HandleFetchKeeps ==
    ASSUME ClusterInv, NEW p \in Slaves, NEW i \in Ids, HandleFetch(p, i)
    PROVE  ClusterInv'
  <1>1. Shapes /\ EntryInv /\ ApiShows
    BY DEF ClusterInv
  <1>2. Shapes'
    BY <1>1, HandleFetchShapes
  <1>3. UNCHANGED <<entry, toload, caller, seen>>
    BY DEF HandleFetch, Only
  <1>4. diverged' = {j \in Sources : caller'[j].at # "rest" /\ (j \in diverged \/ Differ(j)')}
    BY DEF HandleFetch, Only
  <1>5. \/ Served(i) /\ StartFetch(p, i, FALSE) /\ UNCHANGED faults
        \/ UNCHANGED <<fetch, hash>> /\ (UNCHANGED faults \/ Fault)
    <2>1. \/ Served(i) /\ StartFetch(p, i, FALSE) /\ UNCHANGED faults
          \/ ~Served(i) /\ UNCHANGED <<fetch, hash, faults>>
          \/ Served(i) /\ Fault /\ UNCHANGED <<fetch, hash>>
      BY Zenon DEF HandleFetch
    <2> QED
      BY <2>1, Zenon
  <1>6. CASE Served(i) /\ StartFetch(p, i, FALSE) /\ UNCHANGED faults
    <2>1. /\ fetch'[p][i].busy = TRUE
          /\ fetch'[p][i].load = TRUE => FALSE = TRUE \/ fetch[p][i].load = TRUE
          /\ \A q \in Slaves, j \in Ids : q # p \/ j # i => fetch'[q][j] = fetch[q][j]
          /\ \A q \in Procs, j \in Ids : q # p \/ j # i => hash'[q][j] = hash[q][j]
          /\ \A q \in Procs : q # p => hash'[q] = hash[q]
      BY <1>1, <1>6, StartFetchFields, ZenonT(40)
    <2>2. fetch'[p][i].load = TRUE => i \notin Hidden[p]
      BY <1>1, <2>1, Consts, ClusterAssumption DEF EntryInv
    <2>3. UNCHANGED <<entry, caller, seen, faults>> /\ \A q \in Procs : toload'[q] \subseteq toload[q]
      BY <1>3, <1>6
    <2>4. /\ \A j \in Ids : j # i => hash'[p][j] = hash[p][j] /\ fetch'[p][j] = fetch[p][j]
          /\ \A q \in Slaves, j \in Ids : q # p => fetch'[q][j] = fetch[q][j]
      BY <2>1, Consts
    <2> QED
      BY <1>2, <1>4, <2>1, <2>2, <2>3, <2>4, StartFetchKeeps
  <1>7. CASE UNCHANGED <<fetch, hash>> /\ (UNCHANGED faults \/ Fault)
    <2>1. faults' = 0 => faults = 0
      BY <1>1, <1>7, FaultCounts
    <2> QED
      BY <1>2, <1>3, <1>4, <1>7, <2>1, SlaveSideKeeps
  <1> QED
    BY <1>5, <1>6, <1>7

\* LoadStart keeps the invariant.
LEMMA LoadStartKeeps ==
    ASSUME ClusterInv, NEW p \in Slaves, NEW i \in Sources, LoadStart(p, i)
    PROVE  ClusterInv'
  <1>1. Shapes /\ EntryInv /\ ApiShows
    BY DEF ClusterInv
  <1>2. Shapes'
    BY <1>1, LoadStartShapes
  <1>3. UNCHANGED <<entry, caller, seen, faults>>
    BY DEF LoadStart, Only
  <1>4. diverged' = {j \in Sources : caller'[j].at # "rest" /\ (j \in diverged \/ Differ(j)')}
    BY DEF LoadStart, Only
  <1>5. toload' = [toload EXCEPT ![p] = @ \ {i}] /\ i \in toload[p]
    BY DEF LoadStart
  <1>6. Served(i) /\ StartFetch(p, i, TRUE) /\ i \in Ids
    BY Consts DEF LoadStart
  <1>7. /\ fetch'[p][i].busy = TRUE
        /\ \A q \in Slaves, j \in Ids : q # p \/ j # i => fetch'[q][j] = fetch[q][j]
        /\ \A q \in Procs, j \in Ids : q # p \/ j # i => hash'[q][j] = hash[q][j]
        /\ \A q \in Procs : q # p => hash'[q] = hash[q]
    BY <1>1, <1>6, StartFetchFields, ZenonT(40)
  <1>8. \A q \in Procs : toload'[q] \subseteq toload[q]
    BY <1>1, <1>5 DEF Shapes
  <1>9. i \notin Hidden[p]
    BY <1>1, <1>5, Consts DEF EntryInv
  <1>10. /\ \A j \in Ids : j # i => hash'[p][j] = hash[p][j] /\ fetch'[p][j] = fetch[p][j]
         /\ \A q \in Slaves, j \in Ids : q # p => fetch'[q][j] = fetch[q][j]
    BY <1>7, Consts
  <1> QED
    BY <1>2, <1>3, <1>4, <1>6, <1>7, <1>8, <1>9, <1>10, StartFetchKeeps

\* FetchEnd keeps the invariant.
LEMMA FetchEndKeeps ==
    ASSUME ClusterInv, NEW p \in Slaves, NEW i \in Ids, FetchEnd(p, i)
    PROVE  ClusterInv'
  <1>1. Shapes /\ EntryInv /\ ApiShows
    BY DEF ClusterInv
  <1>2. Shapes'
    BY <1>1, FetchEndShapes
  <1>3. UNCHANGED <<caller, seen, faults>>
    BY DEF FetchEnd, Only
  <1>4. diverged' = {j \in Sources : caller'[j].at # "rest" /\ (j \in diverged \/ Differ(j)')}
    BY DEF FetchEnd, Only
  <1>5. FetchEnded(p, i)
    BY <1>1, FetchEndFields, Zenon
  <1>6. /\ fetch'[p][i] = NoFetch
        /\ \A q \in Slaves, j \in Ids : q # p \/ j # i => fetch'[q][j] = fetch[q][j]
        /\ \A q \in Procs : q # p => hash'[q] = hash[q] /\ entry'[q] = entry[q] /\ toload'[q] = toload[q]
    BY <1>5 DEF FetchEnded
  <1>7. \A j \in Sources :
          /\ entry'[p][j] = "loaded" /\ j # i => entry[p][j] = "loaded" /\ hash'[p][j] = hash[p][j]
          /\ entry'[p][j] = "loaded" => \/ entry[p][j] = "loaded"
                                        \/ j = i /\ fetch[p][i].load = TRUE
          /\ entry'[p][j] = "filtered" => j \in Hidden[p] \/ entry[p][j] = "filtered"
          /\ j \in toload'[p] => j \notin Hidden[p] \/ j \in toload[p]
    BY <1>5, Consts DEF FetchEnded
  <1>8. EntryInv'
    <2>1. \A q \in Slaves, j \in Sources : fetch'[q][j].load = TRUE => j \notin Hidden[q]
      BY <1>1, <1>6, NoFetchFields, Consts DEF EntryInv
    <2>2. \A j \in Sources : /\ entry'[p][j] = "filtered" => j \in Hidden[p]
                             /\ entry'[p][j] = "loaded" => j \notin Hidden[p]
                             /\ j \in toload'[p] => j \notin Hidden[p]
      BY <1>1, <1>7, Consts DEF EntryInv
    <2> QED
      BY <1>1, <1>6, <2>1, <2>2 DEF EntryInv
  <1>9. ApiShows'
    BY <1>1, <1>3, <1>6, Consts, ApiKeeps
  <1>11. ApiShows' /\ UNCHANGED <<caller, seen>> /\ p \in Procs
    BY <1>3, <1>9, Consts
  <1> QED
    BY <1>2, <1>4, <1>6, <1>8, <1>11, OneProcess

\* Restart keeps the invariant.
LEMMA RestartKeeps ==
    ASSUME ClusterInv, NEW p \in Slaves, Restart(p)
    PROVE  ClusterInv'
  <1>1. Shapes /\ EntryInv /\ ApiShows
    BY DEF ClusterInv
  <1>2. Shapes'
    BY <1>1, RestartShapes
  <1>3. diverged' = {j \in Sources : caller'[j].at # "rest" /\ (j \in diverged \/ Differ(j)')}
    BY DEF Restart, Only
  <1>4. /\ UNCHANGED <<caller, seen>>
        /\ faults' # 0
        /\ \A q \in Procs : q # p => entry'[q] = entry[q]
        /\ \A j \in Sources : entry'[p][j] = "unknown"
        /\ \A q \in Procs : q # p => toload'[q] = toload[q]
        /\ toload'[p] = {}
        /\ \A q \in Slaves : q # p => fetch'[q] = fetch[q]
        /\ \A j \in Sources : fetch'[p][j].busy = FALSE /\ fetch'[p][j].load = FALSE
        /\ \A q \in Procs : q # p => hash'[q] = hash[q]
    BY <1>1, RestartFields
  <1>5. EntryInv'
    BY <1>1, <1>4 DEF EntryInv
  <1>6. ApiShows'
    BY <1>1, <1>4, Consts, ApiKeeps
  <1>8. ApiShows' /\ UNCHANGED <<caller, seen>> /\ p \in Procs
    BY <1>4, <1>6, Consts
  <1> QED
    BY <1>2, <1>3, <1>4, <1>5, <1>8, OneProcess

\* Every step keeps the invariant.
LEMMA NextKeeps == ClusterInv /\ [Next]_vars => ClusterInv'
  <1> SUFFICES ASSUME ClusterInv, [Next]_vars PROVE ClusterInv'
    OBVIOUS
  <1>1. CASE UNCHANGED vars
    <2>1. UNCHANGED <<remote, hash, entry, toload, fetch, inbox, caller, seen, faults, diverged>>
      BY <1>1 DEF vars
    <2>2. Shapes'
      BY <2>1 DEF ClusterInv, Shapes
    <2>3. EntryInv' /\ ApiShows'
      BY <2>1 DEF ClusterInv, EntryInv, ApiShows
    <2>4. \A i \in Sources : Differ(i)' <=> Differ(i)
      BY <2>1 DEF Differ
    <2>5. SeenInv'
      BY <2>1, <2>4 DEF ClusterInv, SeenInv, OnlyApiHas
    <2>6. CopyInv'
      BY <2>1 DEF ClusterInv, CopyInv
    <2> QED
      BY <2>2, <2>3, <2>5, <2>6 DEF ClusterInv
  <1>2. CASE \E i \in Ids : Push(i)
    BY <1>2, PushKeeps
  <1>3. CASE \E h \in Hooks, i \in Ids : HookStart(h, i)
    BY <1>3, HookStartKeeps
  <1>4. CASE \E c \in Callers : CallerStep(c) \/ RefreshFail(c)
    <2>1. PICK c \in Callers : CallerStep(c) \/ RefreshFail(c)
      BY <1>4
    <2> QED
      BY <2>1, RefreshCopyKeeps, RefreshWriteKeeps, ReloadEndKeeps, BroadcastKeeps, RefreshFailKeeps
        DEF CallerStep
  <1>5. CASE WatchPass
    BY <1>5, WatchPassKeeps
  <1>6. CASE \E i \in Sources : ApiLoad(i) \/ Decide(i) \/ \E p \in Procs : Answer(i, p)
    BY <1>6, ApiLoadKeeps, DecideKeeps, AnswerKeeps
  <1>7. CASE \E p \in Slaves, i \in Ids : HandleUnknown(p, i) \/ HandleFetch(p, i)
    BY <1>7, HandleUnknownKeeps, HandleFetchKeeps
  <1>8. CASE \E p \in Slaves, i \in Ids : FetchEnd(p, i) \/ FetchBreak(p, i)
    BY <1>8, FetchEndKeeps, FetchBreakKeeps
  <1>9. CASE \E p \in Slaves, i \in Sources : LoadStart(p, i) \/ LoadFail(p, i) \/ LoadUnserved(p, i)
    BY <1>9, LoadStartKeeps, LoadFailKeeps
  <1>10. CASE \E p \in Slaves : Restart(p)
    BY <1>10, RestartKeeps
  <1> QED
    BY <1>1, <1>2, <1>3, <1>4, <1>5, <1>6, <1>7, <1>8, <1>9, <1>10, Zenon DEF Next

\* The invariant holds at the start.
LEMMA InitInv == Init => ClusterInv
  <1> SUFFICES ASSUME Init PROVE ClusterInv
    OBVIOUS
  <1>1. /\ \A i \in Ids : remote[i] = 0 /\ 0 \in 0..MaxRev[i] /\ 0 \in Nat
        /\ remote \in [Ids -> Nat]
    BY Consts DEF Init
  <1>2. /\ hash \in [Procs -> [Ids -> Hash]]
        /\ \A p \in Procs, i \in Ids :
             /\ hash[p][i] \in {0, NoHash}
             /\ i = Master \/ (i \in Wanted[0] \ Hidden[p]) => hash[p][i] = 0
    BY Consts DEF Init, Hash
  <1>3. \A p \in Procs, i \in Ids : hash[p][i] \in Hashes(i)
    BY <1>1, <1>2, Consts
  <1>4. hash[Api][Master] # NoHash
    BY <1>2, Consts
  <1>5. /\ entry \in [Procs -> [Sources -> Kinds]]
        /\ \A p \in Procs, i \in Sources :
             /\ entry[p][i] = "filtered" => i \in Hidden[p]
             /\ entry[p][i] = "loaded" => i \in Wanted[0] \ Hidden[p]
    BY DEF Init, Entries, Kinds
  <1>6. /\ toload \in [Procs -> SUBSET Sources] /\ \A p \in Procs : toload[p] = {}
        /\ inbox \in [Slaves -> SUBSET Ids]
    BY DEF Init
  <1>7. fetch \in [Slaves -> [Ids -> FetchRec]] /\ \A p \in Slaves, i \in Ids : fetch[p][i] = NoFetch
    BY NoFetchFields DEF Init
  <1>8. /\ caller \in [Callers -> CallerRec]
        /\ \A c \in Callers : caller[c].id = Master /\ caller[c].rev = 0 /\ caller[c].at \in {"new", "rest"}
        /\ \A i \in Sources : caller[i].at = "rest"
    <2> DEFINE v == [Resting EXCEPT !.at = "new"]
    <2>1. v \in CallerRec /\ v.at = "new" /\ v.id = Master /\ v.rev = 0
      BY RestingFields DEF CallerRec
    <2>2. caller = [c \in Callers |-> IF c \in Hooks THEN v ELSE Resting]
      BY DEF Init
    <2> HIDE DEF v
    <2>3. \A i \in Sources : i \notin Hooks
      BY ClusterAssumption
    <2> QED
      BY <2>1, <2>2, <2>3, RestingFields, Consts
  <1>9. /\ seen \in [Sources -> [by : SUBSET Procs, hashes : SUBSET Hash]]
        /\ \A i \in Sources : seen[i] = NothingSeen
    BY DEF Init, NothingSeen
  <1>10. faults \in 0..MaxFaults
    BY ClusterAssumption DEF Init
  <1>11. Shapes
    <2>1. \A p \in Slaves, i \in Ids : fetch[p][i].busy = TRUE => fetch[p][i].rev \in Brought(i)
      BY <1>7, NoFetchFields
    <2>2. \A c \in Callers : caller[c].rev \in 0..MaxRev[caller[c].id]
      BY <1>1, <1>8, Consts
    <2>3. \A i \in Ids : remote[i] \in 0..MaxRev[i]
      BY <1>1
    <2> QED
      BY <1>1, <1>2, <1>3, <1>4, <1>5, <1>6, <1>7, <1>8, <1>9, <1>10, <2>1, <2>2, <2>3 DEF Shapes
  <1>12. EntryInv
    BY <1>5, <1>6, <1>7, NoFetchFields, Consts DEF EntryInv
  <1>13. ApiShows
    <2>1. \A p \in Procs, i \in Sources : entry[p][i] = "loaded" => hash[p][i] # NoHash
      BY <1>2, <1>5, Consts
    <2> QED
      BY <2>1, Consts DEF ApiShows
  <1>14. SeenInv /\ CopyInv
    BY <1>8, <1>9 DEF SeenInv, CopyInv
  <1> QED
    BY <1>11, <1>12, <1>13, <1>14 DEF ClusterInv

-----------------------------------------------------------------------------
(* What is_loaded says, and what the slaves show                           *)

\* The object of a source says that it is not loaded only while a refresh of that
\* very object is under way.
ObjectInv ==
    /\ loaded \subseteq Ids /\ replaced \subseteq Callers /\ missed \subseteq Sources
    /\ \A c \in replaced : caller[c].at \in {"ask", "copy", "write"}
    /\ \A i \in Sources : entry[Api][i] = "loaded" /\ i \notin loaded =>
         \E c \in Callers \ replaced : caller[c].id = i /\ caller[c].at \in {"copy", "write"}

\* What hides the hash of a loaded source in a slave: a fetch, a slave_fetch that is
\* still to come, a fault or a miss; and a fetch brings no hash only if one is to come.
SlavesShow == faults = 0 => \A p \in Slaves, i \in Sources \ missed :
    /\ entry[p][i] = "loaded" /\ hash[p][i] = NoHash => fetch[p][i].busy = TRUE \/ Coming(p, i)
    /\ fetch[p][i].busy = TRUE /\ fetch[p][i].rev = NoHash => Coming(p, i)

FullInv == ClusterInv /\ ObjectInv /\ SlavesShow

\* A miss is not forgotten.
LEMMA MissesStay ==
    ASSUME Next, missed \subseteq Sources
    PROVE  missed \subseteq missed' /\ missed' \subseteq Sources
  <1> DEFINE Noted == missed' = missed \cup {i \in Sources : \E p \in Slaves : Misses(p, i)}
  <1>1. ASSUME NEW i \in Ids, Push(i) PROVE Noted
    BY <1>1 DEF Push, Only
  <1>2. ASSUME NEW h \in Hooks, NEW i \in Ids, HookStart(h, i) PROVE Noted
    BY <1>2 DEF HookStart, Only
  <1>3. ASSUME NEW c \in Callers, CallerStep(c) \/ RefreshFail(c) PROVE Noted
    BY <1>3 DEF CallerStep, RefreshCopy, RefreshWrite, ReloadEnd, Broadcast, RefreshFail, Only
  <1>4. ASSUME WatchPass PROVE Noted
    BY <1>4 DEF WatchPass, Only
  <1>5. ASSUME NEW i \in Sources, ApiLoad(i) \/ Decide(i) \/ \E p \in Procs : Answer(i, p) PROVE Noted
    BY <1>5 DEF ApiLoad, Decide, Answer, Only
  <1>6. ASSUME NEW p \in Slaves, NEW i \in Ids, HandleUnknown(p, i) \/ HandleFetch(p, i) PROVE Noted
    BY <1>6 DEF HandleUnknown, HandleFetch, Only
  <1>7. ASSUME NEW p \in Slaves, NEW i \in Ids, FetchEnd(p, i) \/ FetchBreak(p, i) PROVE Noted
    BY <1>7 DEF FetchEnd, FetchBreak, Only
  <1>8. ASSUME NEW p \in Slaves, NEW i \in Sources, LoadStart(p, i) \/ LoadFail(p, i) \/ LoadUnserved(p, i)
        PROVE  Noted
    BY <1>8 DEF LoadStart, LoadFail, LoadUnserved, Only
  <1>9. ASSUME NEW p \in Slaves, Restart(p) PROVE Noted
    BY <1>9 DEF Restart, Only
  <1>10. Noted
    <2> HIDE DEF Noted
    <2> QED
      BY <1>1, <1>2, <1>3, <1>4, <1>5, <1>6, <1>7, <1>8, <1>9 DEF Next
  <1> QED
    BY <1>10

\* The callers that hold an object go on with it.
GoOn == \A c \in Callers :
    /\ caller[c].at = "ask" => caller'[c] = caller[c]
    /\ caller[c].at \in {"copy", "write"} => /\ caller'[c].id = caller[c].id
                                             /\ caller'[c].at \in {"copy", "write"}

\* Nor do the flags change then.
LEMMA ObjectsKept ==
    ASSUME ObjectInv, UNCHANGED <<loaded, replaced>>, entry'[Api] = entry[Api], GoOn,
           missed' \subseteq Sources
    PROVE  ObjectInv'
  <1>1. \A c \in replaced' : caller'[c].at \in {"ask", "copy", "write"}
    BY DEF ObjectInv, GoOn
  <1>2. ASSUME NEW i \in Sources, entry'[Api][i] = "loaded", i \notin loaded'
        PROVE  \E c \in Callers \ replaced' : caller'[c].id = i /\ caller'[c].at \in {"copy", "write"}
    <2>1. PICK c \in Callers \ replaced : caller[c].id = i /\ caller[c].at \in {"copy", "write"}
      BY <1>2 DEF ObjectInv
    <2>2. caller'[c].id = i /\ caller'[c].at \in {"copy", "write"} /\ c \in Callers \ replaced'
      BY <2>1 DEF GoOn
    <2> QED
      BY <2>2
  <1> QED
    BY <1>1, <1>2 DEF ObjectInv

\* A slave_fetch that is to come still is.
StillComing == faults' = 0 => \A p \in Slaves, i \in Sources : Coming(p, i) => Coming(p, i)'

\* The slaves do nothing.
LEMMA SlavesKept ==
    ASSUME SlavesShow, faults' = 0 => faults = 0, missed \subseteq missed', StillComing,
           \A p \in Slaves : entry'[p] = entry[p] /\ hash'[p] = hash[p] /\ fetch'[p] = fetch[p]
    PROVE  SlavesShow'
  <1> SUFFICES ASSUME faults' = 0, NEW p \in Slaves, NEW i \in Sources \ missed'
      PROVE  /\ entry'[p][i] = "loaded" /\ hash'[p][i] = NoHash => fetch'[p][i].busy = TRUE \/ Coming(p, i)'
             /\ fetch'[p][i].busy = TRUE /\ fetch'[p][i].rev = NoHash => Coming(p, i)'
    BY DEF SlavesShow
  <1>1. /\ entry[p][i] = "loaded" /\ hash[p][i] = NoHash => fetch[p][i].busy = TRUE \/ Coming(p, i)
        /\ fetch[p][i].busy = TRUE /\ fetch[p][i].rev = NoHash => Coming(p, i)
    BY DEF SlavesShow
  <1>2. Coming(p, i) => Coming(p, i)'
    BY DEF StillComing
  <1> QED
    BY <1>1, <1>2

\* Whoever is to announce a source goes on to do so, or has done it.
LEMMA ComingKept ==
    ASSUME \A p \in Slaves : inbox[p] \subseteq inbox'[p],
           \A c \in Callers, i \in Sources :
              caller[c].id = i /\ caller[c].at \in {"copy", "write", "publish"} =>
                 \/ caller'[c].id = i /\ caller'[c].at \in {"copy", "write", "publish"}
                 \/ \A p \in Slaves : i \in inbox'[p]
    PROVE  \A p \in Slaves, i \in Sources : Coming(p, i) => Coming(p, i)'
  BY DEF Coming, At

\* Push keeps the flags and what the slaves show.
LEMMA PushObjects ==
    ASSUME FullInv, NEW i \in Ids, Push(i), missed \subseteq missed', missed' \subseteq Sources
    PROVE  ObjectInv' /\ SlavesShow'
  <1>1. UNCHANGED <<hash, entry, fetch, inbox, caller, loaded, replaced, faults>>
    BY DEF Push, Only, objects
  <1>2. GoOn
    BY <1>1 DEF GoOn
  <1>3. StillComing
    BY <1>1, ComingKept DEF StillComing
  <1> QED
    BY <1>1, <1>2, <1>3, ObjectsKept, SlavesKept DEF FullInv

\* A refresh that a hook begins is of the object that the table has.
LEMMA HookStartObjects ==
    ASSUME FullInv, NEW h \in Hooks, NEW i \in Ids, HookStart(h, i),
           missed \subseteq missed', missed' \subseteq Sources
    PROVE  ObjectInv' /\ SlavesShow'
  <1>1. /\ UNCHANGED <<hash, entry, fetch, inbox, replaced, faults>>
        /\ loaded' = loaded \ {i} /\ caller[h].at = "new"
        /\ caller' = [caller EXCEPT ![h] = [at |-> "copy", id |-> i, rev |-> 0]]
    BY DEF HookStart, Only
  <1>2. h \in Callers /\ caller \in [Callers -> CallerRec]
    BY DEF Callers, FullInv, ClusterInv, Shapes
  <1>3. /\ caller'[h].at = "copy" /\ caller'[h].id = i
        /\ \A c \in Callers : c # h => caller'[c] = caller[c]
    BY <1>1, <1>2
  <1>4. h \notin replaced
    BY <1>1 DEF FullInv, ObjectInv
  <1>5. ASSUME NEW j \in Sources, entry'[Api][j] = "loaded", j \notin loaded'
        PROVE  \E c \in Callers \ replaced' : caller'[c].id = j /\ caller'[c].at \in {"copy", "write"}
    <2>1. CASE j = i
      BY <1>1, <1>2, <1>3, <1>4, <2>1
    <2>2. CASE j # i
      <3>1. PICK c \in Callers \ replaced : caller[c].id = j /\ caller[c].at \in {"copy", "write"}
        BY <1>1, <1>5, <2>2 DEF FullInv, ObjectInv
      <3> QED
        BY <1>1, <1>3, <3>1
    <2> QED
      BY <2>1, <2>2
  <1>6. \A c \in replaced' : caller'[c].at \in {"ask", "copy", "write"}
    BY <1>1, <1>3 DEF FullInv, ObjectInv
  <1>7. ObjectInv'
    BY <1>1, <1>5, <1>6 DEF FullInv, ObjectInv
  <1>8. StillComing
    BY <1>1, <1>3, ComingKept DEF StillComing
  <1> QED
    BY <1>1, <1>7, <1>8, SlavesKept DEF FullInv

\* RefreshCopy keeps the flags and what the slaves show.
LEMMA RefreshCopyObjects ==
    ASSUME FullInv, NEW c \in Callers, RefreshCopy(c), missed \subseteq missed', missed' \subseteq Sources
    PROVE  ObjectInv' /\ SlavesShow'
  <1> DEFINE i == caller[c].id
             h == IF i = Master THEN remote[Master] ELSE NoHash
             v == [at |-> "write", id |-> i, rev |-> remote[i]]
  <1>1. /\ UNCHANGED <<entry, fetch, inbox, loaded, replaced, faults>>
        /\ hash' = [hash EXCEPT ![Api][i] = h]
        /\ caller[c].at = "copy"
    BY DEF RefreshCopy, Only, objects
  <1>2. caller' = [caller EXCEPT ![c] = v]
    BY DEF RefreshCopy
  <1>3. v.at = "write" /\ v.id = i
    OBVIOUS
  <1>4. caller \in [Callers -> CallerRec] /\ hash \in [Procs -> [Ids -> Hash]]
    BY DEF FullInv, ClusterInv, Shapes
  <1>5. caller[c].id = i
    OBVIOUS
  <1> HIDE DEF v, h, i
  <1>6. /\ caller'[c].at = "write" /\ caller'[c].id = caller[c].id
        /\ \A x \in Callers : x # c => caller'[x] = caller[x]
    BY <1>2, <1>3, <1>4, <1>5
  <1>7. \A p \in Slaves : hash'[p] = hash[p]
    BY <1>1, <1>4, Consts
  <1>8. GoOn
    BY <1>1, <1>6 DEF GoOn
  <1>9. StillComing
    BY <1>1, <1>6, ComingKept DEF StillComing
  <1> QED
    BY <1>1, <1>7, <1>8, <1>9, ObjectsKept, SlavesKept DEF FullInv

\* A refresh that has ended has set the flag of its object; the others go on.
LEMMA EndsKeep ==
    ASSUME FullInv, NEW c \in Callers, Ends(c),
           NEW D \in SUBSET Callers, replaced' = (replaced \cup D) \ {c},
           \A d \in D : /\ caller[d].at \in {"ask", "copy", "write"}
                        /\ caller[d].id \in Sources => entry'[Api][caller[d].id] # "loaded",
           \A i \in Sources : entry'[Api][i] = "loaded" => entry[Api][i] = "loaded",
           \A x \in Callers : x # c => caller'[x] = caller[x],
           missed' \subseteq Sources
    PROVE  ObjectInv'
  <1>1. loaded' \subseteq Ids
    BY DEF FullInv, ClusterInv, Shapes, ObjectInv, Ends, CallerRec
  <1>2. \A x \in replaced' : caller'[x].at \in {"ask", "copy", "write"} /\ x \in Callers
    BY DEF FullInv, ObjectInv
  <1>3. ASSUME NEW i \in Sources, entry'[Api][i] = "loaded", i \notin loaded'
        PROVE  \E x \in Callers \ replaced' : caller'[x].id = i /\ caller'[x].at \in {"copy", "write"}
    <2>1. i \notin loaded
      BY <1>3 DEF Ends
    <2>2. PICK x \in Callers \ replaced : caller[x].id = i /\ caller[x].at \in {"copy", "write"}
      BY <1>3, <2>1 DEF FullInv, ObjectInv
    <2>3. x # c
      BY <1>3, <2>2 DEF Ends
    <2>4. x \notin D
      BY <1>3, <2>2
    <2> QED
      BY <2>2, <2>3, <2>4
  <1> QED
    BY <1>1, <1>2, <1>3 DEF ObjectInv

\* RefreshFail keeps the flags; it is a fault.
LEMMA RefreshFailObjects ==
    ASSUME FullInv, NEW c \in Callers, RefreshFail(c), missed \subseteq missed', missed' \subseteq Sources
    PROVE  ObjectInv' /\ SlavesShow'
  <1>1. /\ UNCHANGED <<hash, entry, fetch, inbox>> /\ Rest(c) /\ Fault
        /\ Ends(c) /\ replaced' = replaced \ {c}
    BY DEF RefreshFail, Only
  <1>2. \A x \in Callers : x # c => caller'[x] = caller[x]
    BY <1>1, CallerRests DEF FullInv, ClusterInv
  <1>3. faults' # 0
    BY <1>1, FaultCounts DEF FullInv, ClusterInv
  <1>4. ObjectInv'
    <2> DEFINE D == {}
    <2>1. D \in SUBSET Callers /\ replaced' = (replaced \cup D) \ {c} /\ \A d \in D : FALSE
      BY <1>1
    <2> HIDE DEF D
    <2> QED
      BY <1>1, <1>2, <2>1, EndsKeep
  <1> QED
    BY <1>3, <1>4 DEF SlavesShow

\* RefreshWrite lets go of the objects that the reload drops.
LEMMA RefreshWriteObjects ==
    ASSUME FullInv, NEW c \in Callers, RefreshWrite(c), missed \subseteq missed', missed' \subseteq Sources
    PROVE  ObjectInv' /\ SlavesShow'
  <1> DEFINE i == caller[c].id
             r == hash[Api][Master]
  <1>1. /\ UNCHANGED <<fetch, inbox, faults>>
        /\ Ends(c) /\ replaced' = (replaced \cup Dropped) \ {c}
        /\ caller[c].at = "write"
    BY DEF RefreshWrite, Only
  <1>2. Shapes
    BY DEF FullInv, ClusterInv
  <1>3. /\ \A q \in Slaves : entry'[q] = entry[q] /\ hash'[q] = hash[q]
        /\ \A j \in Sources : entry'[Api][j] = "loaded" => entry[Api][j] = "loaded"
        /\ \A x \in Callers : x # c => caller'[x] = caller[x]
        /\ i # Master => caller'[c].id = i /\ caller'[c].at = "publish"
    <2>1. CASE i = Master
      <3>1. AfterReload(Api, r) /\ caller' = [caller EXCEPT ![c].at = "reload"]
        BY <2>1 DEF RefreshWrite
      <3>2. r \in 0..MaxRev[Master] /\ Api \in Procs
        BY <1>2, Consts DEF Shapes
      <3> HIDE DEF r
      <3>3. /\ \A q \in Procs : q # Api => entry'[q] = entry[q]
            /\ \A q \in Procs : q # Api => hash'[q] = hash[q]
            /\ \A j \in Sources : entry'[Api][j] = "loaded" => entry[Api][j] = "loaded"
        BY <1>2, <3>1, <3>2, AfterReloadFields
      <3>4. \A x \in Callers : x # c => caller'[x] = caller[x]
        BY <1>2, <3>1, CallerMoves DEF Ats
      <3> QED
        BY <2>1, <3>3, <3>4, Consts
    <2>2. CASE i # Master
      <3>1. /\ hash' = [hash EXCEPT ![Api][i] = caller[c].rev]
            /\ caller' = [caller EXCEPT ![c].at = "publish"]
            /\ UNCHANGED entry
        BY <2>2 DEF RefreshWrite
      <3>2. \A q \in Slaves : hash'[q] = hash[q]
        BY <1>2, <3>1, Consts DEF Shapes
      <3>3. /\ \A x \in Callers : x # c => caller'[x] = caller[x]
            /\ caller'[c].at = "publish" /\ caller'[c].id = caller[c].id
        BY <1>2, <3>1, CallerMoves DEF Ats
      <3> QED
        BY <3>1, <3>2, <3>3
    <2> QED
      BY <2>1, <2>2
  <1>4. ObjectInv'
    <2> DEFINE D == Dropped
    <2>1. D \in SUBSET Callers /\ replaced' = (replaced \cup D) \ {c}
      BY <1>1 DEF Dropped
    <2>2. \A d \in D : /\ caller[d].at \in {"ask", "copy", "write"}
                       /\ caller[d].id \in Sources => entry'[Api][caller[d].id] # "loaded"
      BY DEF Dropped, Known
    <2> HIDE DEF D
    <2> QED
      BY <1>1, <1>3, <2>1, <2>2, EndsKeep
  <1>5. StillComing
    <2>1. \A x \in Callers, j \in Sources :
             caller[x].id = j /\ caller[x].at \in {"copy", "write", "publish"} =>
                caller'[x].id = j /\ caller'[x].at \in {"copy", "write", "publish"}
      BY <1>3, Consts
    <2> QED
      BY <1>1, <2>1, ComingKept DEF StillComing
  <1> QED
    BY <1>1, <1>3, <1>4, <1>5, SlavesKept DEF FullInv

\* ReloadEnd keeps the flags and what the slaves show.
LEMMA ReloadEndObjects ==
    ASSUME FullInv, NEW c \in Callers, ReloadEnd(c), missed \subseteq missed', missed' \subseteq Sources
    PROVE  ObjectInv' /\ SlavesShow'
  <1>1. /\ UNCHANGED <<hash, entry, fetch, inbox, loaded, replaced, faults>>
        /\ caller[c].at = "reload" /\ caller' = [caller EXCEPT ![c].at = "publish"]
    BY DEF ReloadEnd, Only, objects
  <1>2. \A x \in Callers : x # c => caller'[x] = caller[x]
    BY <1>1, CallerMoves DEF Ats, FullInv, ClusterInv
  <1>3. GoOn
    BY <1>1, <1>2 DEF GoOn
  <1>4. StillComing
    BY <1>1, <1>2, ComingKept DEF StillComing
  <1> QED
    BY <1>1, <1>3, <1>4, ObjectsKept, SlavesKept DEF FullInv

\* A broadcast that loses nothing comes to every slave.
LEMMA BroadcastObjects ==
    ASSUME FullInv, NEW c \in Callers, Broadcast(c), missed \subseteq missed', missed' \subseteq Sources
    PROVE  ObjectInv' /\ SlavesShow'
  <1>1. /\ UNCHANGED <<hash, entry, fetch, loaded, replaced>>
        /\ caller[c].at = "publish" /\ Rest(c)
    BY DEF Broadcast, Only, objects
  <1>2. Shapes
    BY DEF FullInv, ClusterInv
  <1>3. \A x \in Callers : x # c => caller'[x] = caller[x]
    BY <1>1, <1>2, CallerRests
  <1>4. PICK lost \in SUBSET Slaves :
          /\ faults' = faults + Cardinality(lost)
          /\ inbox' = [p \in Slaves |-> IF p \in lost THEN inbox[p] ELSE inbox[p] \cup {caller[c].id}]
    BY Zenon DEF Broadcast
  <1>5. IsFiniteSet(lost) /\ Cardinality(lost) \in Nat
    BY ClusterAssumption, FS_Subset, FS_CardinalityType
  <1>6. faults' = 0 => faults = 0 /\ Cardinality(lost) = 0
    BY <1>2, <1>4, <1>5, ClusterAssumption DEF Shapes
  <1>7. faults' = 0 => lost = {}
    BY <1>5, <1>6, FS_EmptySet
  <1>8. GoOn
    BY <1>1, <1>3 DEF GoOn
  <1>9. StillComing
    <2> SUFFICES ASSUME faults' = 0
        PROVE  \A p \in Slaves, i \in Sources : Coming(p, i) => Coming(p, i)'
      BY DEF StillComing
    <2>1. \A p \in Slaves : inbox'[p] = inbox[p] \cup {caller[c].id}
      BY <1>4, <1>7
    <2>2. \A x \in Callers, i \in Sources :
             caller[x].id = i /\ caller[x].at \in {"copy", "write", "publish"} =>
                \/ caller'[x].id = i /\ caller'[x].at \in {"copy", "write", "publish"}
                \/ \A p \in Slaves : i \in inbox'[p]
      BY <1>3, <2>1
    <2> QED
      BY <2>1, <2>2, ComingKept
  <1> QED
    BY <1>1, <1>6, <1>8, <1>9, ObjectsKept, SlavesKept DEF FullInv

\* WatchPass keeps the flags and what the slaves show.
LEMMA WatchPassObjects ==
    ASSUME FullInv, WatchPass, missed \subseteq missed', missed' \subseteq Sources
    PROVE  ObjectInv' /\ SlavesShow'
  <1>1. /\ UNCHANGED <<hash, entry, fetch, inbox, faults>>
        /\ \A c \in Callers : caller'[c] = caller[c] \/ (c \in Sources /\ caller'[c].at = "ask")
        /\ \A i \in Sources : caller[i].at = "rest"
    BY WatchPassFields DEF FullInv, ClusterInv
  <1>2. UNCHANGED <<loaded, replaced>>
    BY DEF WatchPass, Only, objects
  <1>3. GoOn
    BY <1>1 DEF GoOn
  <1>4. StillComing
    BY <1>1, ComingKept DEF StillComing
  <1> QED
    BY <1>1, <1>2, <1>3, <1>4, ObjectsKept, SlavesKept DEF FullInv

\* A source that the API process loads has a new object, which says that it is loaded.
LEMMA ApiLoadObjects ==
    ASSUME FullInv, NEW i \in Sources, ApiLoad(i), missed \subseteq missed', missed' \subseteq Sources
    PROVE  ObjectInv' /\ SlavesShow'
  <1> DEFINE h == remote[i]
  <1>1. /\ UNCHANGED <<fetch, inbox, caller, replaced, faults>>
        /\ loaded' = loaded \cup {i}
        /\ hash' = [hash EXCEPT ![Api][i] = h]
        /\ entry' = [entry EXCEPT ![Api][i] = "loaded"]
    BY DEF ApiLoad, Only
  <1> HIDE DEF h
  <1>2. \A p \in Slaves : hash'[p] = hash[p] /\ entry'[p] = entry[p]
    BY <1>1, Consts DEF FullInv, ClusterInv, Shapes
  <1>3. \A j \in Sources : j # i => entry'[Api][j] = entry[Api][j]
    BY <1>1, Consts DEF FullInv, ClusterInv, Shapes
  <1>4. i \in Ids
    BY Consts
  <1>5. ObjectInv'
    BY <1>1, <1>3, <1>4 DEF FullInv, ObjectInv
  <1>6. StillComing
    BY <1>1, ComingKept DEF StillComing
  <1> QED
    BY <1>1, <1>2, <1>5, <1>6, SlavesKept DEF FullInv

\* A task of the watch loop refreshes the object it was given.
LEMMA DecideObjects ==
    ASSUME FullInv, NEW i \in Sources, Decide(i), missed \subseteq missed', missed' \subseteq Sources
    PROVE  ObjectInv' /\ SlavesShow'
  <1>1. Shapes /\ i \in Callers
    BY Consts DEF FullInv, ClusterInv
  <1>2. /\ \A c \in Callers : c # i => caller'[c] = caller[c]
        /\ caller[i].at = "ask"
        /\ faults' = 0 => faults = 0
        /\ UNCHANGED <<hash, entry, fetch, inbox>>
    BY <1>1, DecideFields
  <1>3. \/ caller' = [caller EXCEPT ![i].at = "copy"] /\ Begins(i) /\ UNCHANGED replaced
        \/ Rest(i) /\ replaced' = replaced \ {i} /\ UNCHANGED loaded
    BY Zenon DEF Decide
  <1>4. \A c \in Callers, j \in Sources :
           c # i /\ caller[c].id = j => caller'[c].id = j /\ caller'[c].at = caller[c].at
    BY <1>2
  <1>5. ASSUME caller' = [caller EXCEPT ![i].at = "copy"], Begins(i), UNCHANGED replaced
        PROVE  ObjectInv'
    <2>1. caller'[i].at = "copy" /\ caller'[i].id = caller[i].id
      BY <1>1, <1>5, CallerMoves DEF Ats
    <2>2. loaded' \subseteq Ids
      BY <1>5 DEF FullInv, ObjectInv, Begins
    <2>3. \A c \in replaced' : caller'[c].at \in {"ask", "copy", "write"}
      BY <1>2, <1>5, <2>1 DEF FullInv, ObjectInv
    <2>4. ASSUME NEW j \in Sources, entry'[Api][j] = "loaded", j \notin loaded'
          PROVE  \E c \in Callers \ replaced' : caller'[c].id = j /\ caller'[c].at \in {"copy", "write"}
      <3>1. CASE j \in loaded
        <4>1. i \notin replaced /\ caller[i].id = j
          BY <1>5, <2>4, <3>1 DEF Begins
        <4> QED
          BY <1>1, <1>5, <2>1, <4>1
      <3>2. CASE j \notin loaded
        <4>1. PICK c \in Callers \ replaced : caller[c].id = j /\ caller[c].at \in {"copy", "write"}
          BY <1>2, <2>4, <3>2 DEF FullInv, ObjectInv
        <4>2. c # i
          BY <1>2, <4>1
        <4> QED
          BY <1>2, <1>5, <4>1, <4>2
      <3> QED
        BY <3>1, <3>2
    <2> QED
      BY <1>5, <2>2, <2>3, <2>4 DEF FullInv, ObjectInv
  <1>6. ASSUME Rest(i), replaced' = replaced \ {i}, UNCHANGED loaded
        PROVE  ObjectInv'
    <2>1. ASSUME NEW j \in Sources, entry'[Api][j] = "loaded", j \notin loaded'
          PROVE  \E c \in Callers \ replaced' : caller'[c].id = j /\ caller'[c].at \in {"copy", "write"}
      <3>1. PICK c \in Callers \ replaced : caller[c].id = j /\ caller[c].at \in {"copy", "write"}
        BY <1>2, <1>6, <2>1 DEF FullInv, ObjectInv
      <3> QED
        BY <1>2, <1>6, <3>1
    <2>2. \A c \in replaced' : caller'[c].at \in {"ask", "copy", "write"}
      BY <1>2, <1>6 DEF FullInv, ObjectInv
    <2> QED
      BY <1>6, <2>1, <2>2 DEF FullInv, ObjectInv
  <1>7. StillComing
    BY <1>2, <1>4, ComingKept DEF StillComing
  <1>8. SlavesShow'
    BY <1>2, <1>7, SlavesKept DEF FullInv
  <1> QED
    BY <1>3, <1>5, <1>6, <1>8

\* Answer keeps the flags and what the slaves show.
LEMMA AnswerObjects ==
    ASSUME FullInv, NEW i \in Sources, NEW p \in Procs, Answer(i, p),
           missed \subseteq missed', missed' \subseteq Sources
    PROVE  ObjectInv' /\ SlavesShow'
  <1>1. UNCHANGED <<hash, entry, fetch, inbox, caller, loaded, replaced, faults>>
    BY DEF Answer, Only, objects
  <1>2. GoOn
    BY <1>1 DEF GoOn
  <1>3. StillComing
    BY <1>1, ComingKept DEF StillComing
  <1> QED
    BY <1>1, <1>2, <1>3, ObjectsKept, SlavesKept DEF FullInv

\* The actions of the slaves leave the objects of the API process alone.
LEMMA SlaveObjects ==
    ASSUME FullInv, UNCHANGED <<caller, loaded, replaced>>, entry'[Api] = entry[Api],
           missed' \subseteq Sources
    PROVE  ObjectInv'
  <1>1. GoOn
    BY DEF GoOn
  <1> QED
    BY <1>1, ObjectsKept DEF FullInv

\* Those of slave p on source i leave the other slaves and the other sources alone.
LEMMA OneFetch ==
    ASSUME FullInv, NEW p \in Slaves, NEW i \in Ids, UNCHANGED caller, missed \subseteq missed',
           faults' = 0 => faults = 0,
           \A q \in Slaves : /\ q # p => entry'[q] = entry[q] /\ hash'[q] = hash[q] /\ fetch'[q] = fetch[q]
                             /\ inbox[q] \ {i} \subseteq inbox'[q]
                             /\ q # p => inbox[q] \subseteq inbox'[q],
           \A j \in Sources : j # i =>
              /\ entry'[p][j] = "loaded" => entry[p][j] = "loaded" /\ hash'[p][j] = hash[p][j]
              /\ fetch'[p][j] = fetch[p][j],
           faults' = 0 /\ i \in Sources \ missed' =>
              /\ entry'[p][i] = "loaded" /\ hash'[p][i] = NoHash => fetch'[p][i].busy = TRUE \/ Coming(p, i)'
              /\ fetch'[p][i].busy = TRUE /\ fetch'[p][i].rev = NoHash => Coming(p, i)'
    PROVE  SlavesShow'
  <1> SUFFICES ASSUME faults' = 0, NEW q \in Slaves, NEW j \in Sources \ missed'
      PROVE  /\ entry'[q][j] = "loaded" /\ hash'[q][j] = NoHash => fetch'[q][j].busy = TRUE \/ Coming(q, j)'
             /\ fetch'[q][j].busy = TRUE /\ fetch'[q][j].rev = NoHash => Coming(q, j)'
    BY DEF SlavesShow
  <1>1. /\ entry[q][j] = "loaded" /\ hash[q][j] = NoHash => fetch[q][j].busy = TRUE \/ Coming(q, j)
        /\ fetch[q][j].busy = TRUE /\ fetch[q][j].rev = NoHash => Coming(q, j)
    BY DEF FullInv, SlavesShow
  <1>2. CASE q = p /\ j = i
    BY <1>2
  <1>3. CASE q # p \/ j # i
    <2>1. j \in inbox[q] => j \in inbox'[q]
      BY <1>3
    <2>2. Coming(q, j) => Coming(q, j)'
      BY <2>1 DEF Coming, At
    <2>3. /\ entry'[q][j] = "loaded" => entry[q][j] = "loaded" /\ hash'[q][j] = hash[q][j]
          /\ fetch'[q][j] = fetch[q][j]
      BY <1>3
    <2> QED
      BY <1>1, <2>2, <2>3
  <1> QED
    BY <1>2, <1>3

\* A slave_fetch of a source that the slave is loading is missed.
LEMMA HandleUnknownObjects ==
    ASSUME FullInv, NEW p \in Slaves, NEW i \in Ids, HandleUnknown(p, i),
           missed \subseteq missed', missed' \subseteq Sources
    PROVE  ObjectInv' /\ SlavesShow'
  <1>1. /\ UNCHANGED <<hash, entry, fetch, caller, loaded, replaced, faults>>
        /\ i \in inbox[p] \ Known(p)
        /\ inbox' = [inbox EXCEPT ![p] = @ \ {i}]
        /\ missed' = missed \cup {j \in Sources : \E q \in Slaves : Misses(q, j)}
    BY DEF HandleUnknown, Only, objects
  <1>2. /\ inbox'[p] = inbox[p] \ {i}
        /\ \A q \in Slaves : q # p => inbox'[q] = inbox[q]
    BY <1>1 DEF FullInv, ClusterInv, Shapes
  <1>3. \A q \in Slaves : /\ inbox[q] \ {i} \subseteq inbox'[q]
                          /\ q # p => inbox[q] \subseteq inbox'[q]
    BY <1>2
  <1>4. ASSUME i \in Sources \ missed'
        PROVE  entry[p][i] # "loaded" /\ fetch[p][i].busy # TRUE
    <2>1. entry[p][i] # "loaded"
      BY <1>1, <1>4 DEF Known
    <2>2. ~Misses(p, i)
      BY <1>1, <1>4
    <2>3. i \in inbox[p] \ inbox'[p] /\ i \notin Known(p)
      BY <1>1, <1>2
    <2>4. ~fetch[p][i].busy
      BY <2>2, <2>3 DEF Misses
    <2> QED
      BY <2>1, <2>4
  <1>5. ObjectInv'
    BY <1>1, SlaveObjects
  <1>6. SlavesShow'
    BY <1>1, <1>3, <1>4, OneFetch
  <1> QED
    BY <1>5, <1>6

\* A fetch that begins brings no hash only if a refresh is just writing one.
LEMMA StartsShow ==
    ASSUME FullInv, NEW p \in Slaves, NEW i \in Ids, Served(i),
           StartFetch(p, i, TRUE) \/ StartFetch(p, i, FALSE),
           UNCHANGED <<entry, caller, faults>>, missed \subseteq missed',
           \A q \in Slaves : /\ inbox[q] \ {i} \subseteq inbox'[q]
                             /\ q # p => inbox[q] \subseteq inbox'[q]
    PROVE  SlavesShow'
  <1>1. Shapes /\ ApiShows
    BY DEF FullInv, ClusterInv
  <1>2. /\ fetch'[p][i].busy = TRUE /\ fetch'[p][i].rev = hash[Api][i]
        /\ \A q \in Slaves, j \in Ids : q # p \/ j # i => fetch'[q][j] = fetch[q][j]
        /\ \A q \in Procs, j \in Ids : q # p \/ j # i => hash'[q][j] = hash[q][j]
        /\ \A q \in Procs : q # p => hash'[q] = hash[q]
        /\ fetch' \in [Slaves -> [Ids -> FetchRec]]
    <2>1. CASE StartFetch(p, i, TRUE)
      BY <1>1, <2>1, StartFetchFields, ZenonT(40)
    <2>2. CASE StartFetch(p, i, FALSE)
      BY <1>1, <2>2, StartFetchFields, ZenonT(40)
    <2> QED
      BY <2>1, <2>2
  <1>3. \A q \in Slaves : q # p => fetch'[q] = fetch[q] /\ hash'[q] = hash[q] /\ entry'[q] = entry[q]
    <2>1. fetch \in [Slaves -> [Ids -> FetchRec]]
      BY <1>1 DEF Shapes
    <2>2. \A q \in Slaves : q # p => fetch'[q] = fetch[q]
      BY <1>2, <2>1
    <2> QED
      BY <1>2, <2>2, Consts
  <1>4. \A j \in Sources : j # i => /\ entry'[p][j] = "loaded" => entry[p][j] = "loaded" /\ hash'[p][j] = hash[p][j]
                                    /\ fetch'[p][j] = fetch[p][j]
    <2>1. p \in Procs /\ \A j \in Sources : j \in Ids
      BY Consts
    <2>2. \A j \in Sources : j # i => hash'[p][j] = hash[p][j] /\ fetch'[p][j] = fetch[p][j]
      BY <1>2, <2>1
    <2>3. entry' = entry
      OBVIOUS
    <2> QED
      BY <2>2, <2>3
  <1>5. ASSUME i \in Sources, hash[Api][i] = NoHash
        PROVE  Coming(p, i)'
    <2>1. entry[Api][i] = "loaded"
      BY <1>5, Consts DEF Served, Known
    <2>2. PICK c \in Callers : caller[c].at = "write" /\ caller[c].id = i
      BY <1>1, <1>5, <2>1 DEF ApiShows
    <2> QED
      BY <2>2 DEF Coming, At
  <1>6. \A q \in Slaves : /\ q # p => entry'[q] = entry[q] /\ hash'[q] = hash[q] /\ fetch'[q] = fetch[q]
                          /\ inbox[q] \ {i} \subseteq inbox'[q]
                          /\ q # p => inbox[q] \subseteq inbox'[q]
    BY <1>3
  <1>7. faults' = 0 /\ i \in Sources \ missed' =>
          /\ entry'[p][i] = "loaded" /\ hash'[p][i] = NoHash => fetch'[p][i].busy = TRUE \/ Coming(p, i)'
          /\ fetch'[p][i].busy = TRUE /\ fetch'[p][i].rev = NoHash => Coming(p, i)'
    BY <1>2, <1>5
  <1>8. UNCHANGED caller /\ (faults' = 0 => faults = 0)
    OBVIOUS
  <1> QED
    BY <1>4, <1>6, <1>7, <1>8, OneFetch, Zenon

\* A slave_fetch that finds the source not loaded finds a refresh of it under way.
LEMMA HandleFetchObjects ==
    ASSUME FullInv, NEW p \in Slaves, NEW i \in Ids, HandleFetch(p, i),
           missed \subseteq missed', missed' \subseteq Sources
    PROVE  ObjectInv' /\ SlavesShow'
  <1>1. /\ UNCHANGED <<entry, caller, loaded, replaced>>
        /\ i \in inbox[p] \cap Known(p)
        /\ inbox' = [inbox EXCEPT ![p] = @ \ {i}]
        /\ missed' = missed \cup {j \in Sources : \E q \in Slaves : Misses(q, j)}
    BY DEF HandleFetch, Only, objects
  <1>2. /\ inbox'[p] = inbox[p] \ {i}
        /\ \A q \in Slaves : q # p => inbox'[q] = inbox[q]
    BY <1>1 DEF FullInv, ClusterInv, Shapes
  <1>3. \A q \in Slaves : /\ inbox[q] \ {i} \subseteq inbox'[q]
                          /\ q # p => inbox[q] \subseteq inbox'[q]
    BY <1>2
  <1>4. ObjectInv'
    BY <1>1, SlaveObjects
  <1>5. \/ Served(i) /\ StartFetch(p, i, FALSE) /\ UNCHANGED faults
        \/ ~Served(i) /\ UNCHANGED <<fetch, hash, faults>>
        \/ Served(i) /\ Fault /\ UNCHANGED <<fetch, hash>>
    BY Zenon DEF HandleFetch
  <1>6. CASE Served(i) /\ StartFetch(p, i, FALSE) /\ UNCHANGED faults
    <2>1. SlavesShow'
      BY <1>1, <1>3, <1>6, StartsShow
    <2> QED
      BY <1>4, <2>1
  <1>7. CASE ~Served(i) /\ UNCHANGED <<fetch, hash, faults>>
    <2>1. ASSUME i \in Sources \ missed'
          PROVE  Coming(p, i)'
      <3>1. i \in inbox[p] \ inbox'[p] /\ i \in Known(p) /\ ~Misses(p, i)
        BY <1>1, <1>2, <2>1
      <3>2. i \in Known(Api)
        BY <3>1 DEF Misses
      <3>3. entry[Api][i] = "loaded" /\ i \notin loaded
        BY <1>7, <2>1, <3>2, Consts DEF Served, Known
      <3>4. PICK c \in Callers : caller[c].id = i /\ caller[c].at \in {"copy", "write"}
        BY <2>1, <3>3 DEF FullInv, ObjectInv
      <3> QED
        BY <1>1, <3>4 DEF Coming, At
    <2>2. SlavesShow'
      BY <1>1, <1>3, <1>7, <2>1, OneFetch
    <2> QED
      BY <1>4, <2>2
  <1>8. CASE Served(i) /\ Fault /\ UNCHANGED <<fetch, hash>>
    <2>1. faults' # 0
      BY <1>8, FaultCounts DEF FullInv, ClusterInv
    <2> QED
      BY <1>4, <2>1 DEF SlavesShow
  <1> QED
    BY <1>5, <1>6, <1>7, <1>8

\* LoadStart keeps the flags and what the slaves show.
LEMMA LoadStartObjects ==
    ASSUME FullInv, NEW p \in Slaves, NEW i \in Sources, LoadStart(p, i),
           missed \subseteq missed', missed' \subseteq Sources
    PROVE  ObjectInv' /\ SlavesShow'
  <1>1. UNCHANGED <<entry, inbox, caller, loaded, replaced, faults>>
    BY DEF LoadStart, Only, objects
  <1>2. Served(i) /\ StartFetch(p, i, TRUE) /\ i \in Ids
    BY Consts DEF LoadStart
  <1>3. ObjectInv'
    BY <1>1, SlaveObjects
  <1>4. SlavesShow'
    BY <1>1, <1>2, StartsShow
  <1> QED
    BY <1>3, <1>4

\* LoadFail and LoadUnserved keep the flags and what the slaves show.
LEMMA LoadFailObjects ==
    ASSUME FullInv, NEW p \in Slaves, NEW i \in Sources, LoadFail(p, i) \/ LoadUnserved(p, i),
           missed \subseteq missed', missed' \subseteq Sources
    PROVE  ObjectInv' /\ SlavesShow'
  <1>1. UNCHANGED <<hash, entry, fetch, inbox, caller, loaded, replaced>>
    BY DEF LoadFail, LoadUnserved, Only, objects
  <1>2. UNCHANGED faults \/ Fault
    BY DEF LoadFail, LoadUnserved, Only
  <1>3. faults' = 0 => faults = 0
    BY <1>2, FaultCounts DEF FullInv, ClusterInv
  <1>4. ObjectInv'
    BY <1>1, SlaveObjects
  <1>5. StillComing
    BY <1>1, ComingKept DEF StillComing
  <1> QED
    BY <1>1, <1>3, <1>4, <1>5, SlavesKept DEF FullInv

\* A fetch that ends without a hash leaves the slave to the one who is to announce it.
LEMMA FetchEndObjects ==
    ASSUME FullInv, NEW p \in Slaves, NEW i \in Ids, FetchEnd(p, i),
           missed \subseteq missed', missed' \subseteq Sources
    PROVE  ObjectInv' /\ SlavesShow'
  <1>1. UNCHANGED <<inbox, caller, loaded, replaced, faults>>
    BY DEF FetchEnd, Only, objects
  <1>2. Shapes /\ p \in Procs /\ p # Api /\ Api \in Procs
    BY Consts DEF FullInv, ClusterInv
  <1>3. FetchEnded(p, i)
    BY <1>2, FetchEndFields, Zenon
  <1>4. /\ fetch'[p][i] = NoFetch /\ fetch[p][i].busy = TRUE
        /\ \A q \in Slaves, j \in Ids : q # p \/ j # i => fetch'[q][j] = fetch[q][j]
        /\ \A q \in Procs : q # p => hash'[q] = hash[q] /\ entry'[q] = entry[q]
        /\ \A j \in Sources : entry'[p][j] = "loaded" /\ j # i =>
             entry[p][j] = "loaded" /\ hash'[p][j] = hash[p][j]
        /\ i # Master => hash'[p][i] = fetch[p][i].rev
        /\ fetch' \in [Slaves -> [Ids -> FetchRec]]
    BY <1>3 DEF FetchEnded
  <1>5. \A q \in Slaves : q # p => fetch'[q] = fetch[q]
    <2>1. fetch \in [Slaves -> [Ids -> FetchRec]]
      BY <1>2 DEF Shapes
    <2> QED
      BY <1>4, <2>1
  <1>6. ASSUME faults' = 0, i \in Sources \ missed', hash'[p][i] = NoHash
        PROVE  Coming(p, i)'
    <2>1. fetch[p][i].rev = NoHash
      BY <1>4, <1>6, Consts
    <2>2. Coming(p, i)
      BY <1>1, <1>4, <1>6, <2>1 DEF FullInv, SlavesShow
    <2> QED
      BY <1>1, <2>2 DEF Coming, At
  <1>7. ObjectInv'
    BY <1>1, <1>2, <1>4, SlaveObjects
  <1>8. fetch'[p][i].busy # TRUE
    BY <1>4, NoFetchFields
  <1>9. \A q \in Slaves : q # p => entry'[q] = entry[q] /\ hash'[q] = hash[q] /\ fetch'[q] = fetch[q]
    BY <1>4, <1>5, Consts
  <1>10. \A j \in Sources : j # i =>
           /\ entry'[p][j] = "loaded" => entry[p][j] = "loaded" /\ hash'[p][j] = hash[p][j]
           /\ fetch'[p][j] = fetch[p][j]
    BY <1>4, Consts
  <1>11. SlavesShow'
    BY <1>1, <1>6, <1>8, <1>9, <1>10, OneFetch
  <1> QED
    BY <1>7, <1>11

\* FetchBreak and Restart keep the flags; they are faults.
LEMMA FaultObjects ==
    ASSUME FullInv, NEW p \in Slaves, Restart(p) \/ \E i \in Ids : FetchBreak(p, i),
           missed \subseteq missed', missed' \subseteq Sources
    PROVE  ObjectInv' /\ SlavesShow'
  <1>1. UNCHANGED <<caller, loaded, replaced>> /\ Fault
    BY DEF Restart, FetchBreak, Only, objects
  <1>2. entry'[Api] = entry[Api]
    <2>1. CASE Restart(p)
      <3>1. \A q \in Procs : q # p => entry'[q] = entry[q]
        <4>1. Shapes
          BY DEF FullInv, ClusterInv
        <4> QED
          BY <2>1, <4>1, RestartFields
      <3> QED
        BY <3>1, Consts
    <2>2. CASE \E i \in Ids : FetchBreak(p, i)
      BY <2>2 DEF FetchBreak, Only
    <2> QED
      BY <2>1, <2>2
  <1>3. faults' # 0
    BY <1>1, FaultCounts DEF FullInv, ClusterInv
  <1> QED
    BY <1>1, <1>2, <1>3, SlaveObjects DEF SlavesShow

\* Every step keeps the whole invariant.
LEMMA NextKeepsAll == FullInv /\ [Next]_vars => FullInv'
  <1> SUFFICES ASSUME FullInv, [Next]_vars PROVE FullInv'
    OBVIOUS
  <1>1. ClusterInv'
    BY NextKeeps DEF FullInv
  <1>2. CASE UNCHANGED vars
    <2>1. UNCHANGED <<hash, entry, fetch, inbox, caller, loaded, replaced, faults, missed>>
      BY <1>2 DEF vars
    <2>2. GoOn
      BY <2>1 DEF GoOn
    <2>3. StillComing
      BY <2>1, ComingKept DEF StillComing
    <2>4. missed \subseteq missed' /\ missed' \subseteq Sources
      BY <2>1 DEF FullInv, ObjectInv
    <2>5. ObjectInv' /\ SlavesShow'
      BY <2>1, <2>2, <2>3, <2>4, ObjectsKept, SlavesKept DEF FullInv
    <2> QED
      BY <1>1, <2>5 DEF FullInv
  <1>3. CASE Next
    <2> missed \subseteq missed' /\ missed' \subseteq Sources
      BY <1>3, MissesStay DEF FullInv, ObjectInv
    <2>1. ASSUME NEW i \in Ids, Push(i) PROVE ObjectInv' /\ SlavesShow'
      BY <2>1, PushObjects
    <2>2. ASSUME NEW h \in Hooks, NEW i \in Ids, HookStart(h, i) PROVE ObjectInv' /\ SlavesShow'
      BY <2>2, HookStartObjects
    <2>3. ASSUME NEW c \in Callers, CallerStep(c) \/ RefreshFail(c) PROVE ObjectInv' /\ SlavesShow'
      BY <2>3, RefreshCopyObjects, RefreshWriteObjects, ReloadEndObjects, BroadcastObjects,
         RefreshFailObjects DEF CallerStep
    <2>4. ASSUME WatchPass PROVE ObjectInv' /\ SlavesShow'
      BY <2>4, WatchPassObjects
    <2>5. ASSUME NEW i \in Sources, ApiLoad(i) \/ Decide(i) \/ \E p \in Procs : Answer(i, p)
          PROVE  ObjectInv' /\ SlavesShow'
      BY <2>5, ApiLoadObjects, DecideObjects, AnswerObjects
    <2>6. ASSUME NEW p \in Slaves, NEW i \in Ids, HandleUnknown(p, i) \/ HandleFetch(p, i)
          PROVE  ObjectInv' /\ SlavesShow'
      BY <2>6, HandleUnknownObjects, HandleFetchObjects
    <2>7. ASSUME NEW p \in Slaves, NEW i \in Ids, FetchEnd(p, i) \/ FetchBreak(p, i)
          PROVE  ObjectInv' /\ SlavesShow'
      BY <2>7, FetchEndObjects, FaultObjects
    <2>8. ASSUME NEW p \in Slaves, NEW i \in Sources, LoadStart(p, i) \/ LoadFail(p, i) \/ LoadUnserved(p, i)
          PROVE  ObjectInv' /\ SlavesShow'
      BY <2>8, LoadStartObjects, LoadFailObjects
    <2>9. ASSUME NEW p \in Slaves, Restart(p) PROVE ObjectInv' /\ SlavesShow'
      BY <2>9, FaultObjects
    <2>10. ObjectInv' /\ SlavesShow'
      BY <1>3, <2>1, <2>2, <2>3, <2>4, <2>5, <2>6, <2>7, <2>8, <2>9 DEF Next
    <2> QED
      BY <1>1, <2>10 DEF FullInv
  <1> QED
    BY <1>2, <1>3

\* The whole invariant holds at the start.
LEMMA InitAll == Init => FullInv
  <1> SUFFICES ASSUME Init PROVE FullInv
    OBVIOUS
  <1>1. ClusterInv
    BY InitInv
  <1>2. loaded = Ids /\ replaced = {} /\ missed = {}
    BY DEF Init
  <1>3. ObjectInv
    BY <1>2, Consts DEF ObjectInv
  <1>4. \A p \in Slaves, i \in Ids : fetch[p][i] = NoFetch
    BY DEF Init
  <1>5. \A p \in Slaves, i \in Sources : entry[p][i] = "loaded" => hash[p][i] # NoHash
    <2>1. \A p \in Procs, i \in Sources : entry[p][i] = "loaded" => i \in Wanted[0] \ Hidden[p]
      BY DEF Init, Entries
    <2>2. \A p \in Procs, i \in Ids : i \in Wanted[0] \ Hidden[p] => hash[p][i] = 0
      BY DEF Init
    <2>3. 0 # NoHash
      BY ClusterAssumption
    <2> QED
      BY <2>1, <2>2, <2>3, Consts
  <1>6. SlavesShow
    BY <1>4, <1>5, NoFetchFields, Consts DEF SlavesShow
  <1> QED
    BY <1>1, <1>3, <1>6 DEF FullInv

\* The inductive invariant holds, whatever is pushed, asked for, lost, torn or
\* restarted, and in whichever order the refreshes of one source begin and end.
THEOREM ClusterInvariance == Spec => []FullInv
  BY InitAll, NextKeepsAll, PTL DEF Spec

\* The invariant gives the types.
LEMMA InvTypes == FullInv => TypeOK
  <1> SUFFICES ASSUME FullInv PROVE TypeOK
    OBVIOUS
  <1>1. Shapes
    BY DEF FullInv, ClusterInv
  <1>2. \A i \in Ids : remote[i] \in Hashes(i)
    BY <1>1, Consts DEF Shapes
  <1>3. ASSUME NEW p \in Slaves, NEW i \in Ids, fetch[p][i].busy
        PROVE  fetch[p][i].rev \in Hashes(i)
    <2>1. fetch[p][i] \in FetchRec
      BY <1>1 DEF Shapes
    <2>2. fetch[p][i].busy \in BOOLEAN
      BY <2>1 DEF FetchRec
    <2>3. fetch[p][i].busy = TRUE
      BY <1>3, <2>2, Zenon
    <2>4. fetch[p][i].rev \in Brought(i)
      BY <1>1, <2>3 DEF Shapes
    <2> QED
      BY <2>4, BroughtHashes
  <1>4. \A c \in Callers : caller[c].rev \in Hashes(caller[c].id)
    <2>1. \A c \in Callers : caller[c].id \in Ids /\ caller[c].rev \in 0..MaxRev[caller[c].id]
      BY <1>1 DEF Shapes, CallerRec
    <2> QED
      BY <2>1, Consts
  <1>5. /\ remote \in [Ids -> Nat]
        /\ \A p \in Procs, i \in Ids : hash[p][i] \in Hashes(i)
        /\ entry \in [Procs -> [Sources -> Kinds]]
        /\ toload \in [Procs -> SUBSET Sources]
        /\ inbox \in [Slaves -> SUBSET Ids]
        /\ faults \in 0..MaxFaults
    BY <1>1 DEF Shapes
  <1>6. \A p \in Slaves, i \in Ids : fetch[p][i].busy => fetch[p][i].rev \in Hashes(i)
    BY <1>3, Zenon
  <1>7. loaded \subseteq Ids /\ replaced \subseteq Callers /\ missed \subseteq Sources
    BY DEF FullInv, ObjectInv
  <1> QED
    BY <1>2, <1>4, <1>5, <1>6, <1>7, Zenon DEF TypeOK

\* The types of the cluster's state: a hash shown, asked for or fetched is a revision
\* that was pushed, or none (Registry, SourceConfig and the statuses).
THEOREM ClusterTypes == Spec => []TypeOK
  BY ClusterInvariance, InvTypes, PTL

\* It gives what a loaded source shows (registry.get_source, .gitstats).
LEMMA InvShows == FullInv => LoadedShowsHash
  <1> SUFFICES ASSUME FullInv, faults = 0, NEW p \in Procs, NEW i \in Sources,
                      entry[p][i] = "loaded", hash[p][i] = NoHash
      PROVE  \/ p = Api /\ At(i, {"write"})
             \/ p # Api /\ (fetch[p][i].busy \/ Coming(p, i) \/ i \in missed)
    BY DEF LoadedShowsHash
  <1>1. CASE p = Api
    <2>1. At(i, {"write"})
      BY <1>1 DEF FullInv, ClusterInv, ApiShows, At
    <2> QED
      BY <1>1, <2>1
  <1>2. CASE p # Api
    <2>1. CASE i \in missed
      BY <1>2, <2>1
    <2>2. CASE i \notin missed
      <3>1. fetch[p][i].busy = TRUE \/ Coming(p, i)
        BY <1>2, <2>2, Consts DEF FullInv, SlavesShow
      <3> QED
        BY <1>2, <3>1
    <2> QED
      BY <2>1, <2>2
  <1> QED
    BY <1>1, <1>2

\* As long as nothing fails, a loaded source without a hash is about to get one, in
\* every process and in whichever order two refreshes of it overlap, but for the
\* slave_fetch that came too early or too late (base.BaseSource.refresh, _tarball,
\* _refresh_source_if_needed, _slave_fetch, reload_master_config).
THEOREM LoadedSourcesShow == Spec => []LoadedShowsHash
  BY ClusterInvariance, InvShows, PTL

\* It gives that the watch loop refreshes what differed (_refresh_source_if_needed).
LEMMA InvNeeded == FullInv => NoNeedlessRefresh
  BY DEF FullInv, ClusterInv, CopyInv, NoNeedlessRefresh

\* The watch loop refreshes a source only if the processes really differed, or one
\* lacked it, while it was asking: filtered processes, late answers and hashes that
\* change between two answers never make it refresh for nothing (_source_needs_refresh).
THEOREM RefreshesAreNeeded == Spec => []NoNeedlessRefresh
  BY ClusterInvariance, InvNeeded, PTL

====
