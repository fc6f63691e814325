------------------------------- MODULE Tarball -------------------------------
(***************************************************************************)
(* How the files of one source get from the directory of the API process   *)
(* to that of a slave: refreshes (base.py, git.py) rewrite the directory,  *)
(* the tarball handler (api.py) lists it and lets a tar read it file by    *)
(* file, and the fetches of a slave (_do_fetch) clear their directory and  *)
(* let another tar extract what arrives.  The copy of a refresh blocks the *)
(* event loop of the API process, but no tar.                              *)
(***************************************************************************)
EXTENDS Naturals, Sequences

CONSTANTS
    FilesOf,    \* the files of each revision, each with new content
    MaxRev,     \* bound: revisions of the source
    Refreshers, \* the refreshes, each of which runs once
    Fetchers,   \* the fetches of the slave, each of which runs once
    Attempts,   \* retry_number
    MaxFaults,  \* bound: failed refreshes and removals, broken transfers
    Stats, Absent, Empty   \* .gitstats, no file, a file opened for writing

Revs  == 0..MaxRev
Files == UNION {FilesOf[r] : r \in Revs}
Names == Files \cup {Stats}

ASSUME TarballAssumption ==
    /\ MaxRev \in Nat /\ Attempts \in Nat \ {0} /\ MaxFaults \in Nat
    /\ Stats \notin Files /\ Absent \notin Revs /\ Empty \notin Revs

VARIABLES
    remote,     \* the revision a checkout gets
    dir,        \* what each file of the source holds in the API process
    loaded,     \* _is_loaded there
    refresh,    \* the refreshes
    asked,      \* slave_fetch messages on their way
    fetch,      \* the fetches, each with the tars at both ends
    slave,      \* the directory of the slave: what it holds, and its generation
    orphans,    \* what tars of attempts that were given up have still to extract
    faults,
    overlapped, \* history: a fetch began while another one was under way
    mixed,      \* history: a refresh copied while a tar was reading
    unremoved   \* history: rmtree failed because of a tar that was still extracting

vars == <<remote, dir, loaded, refresh, asked, fetch, slave, orphans, faults, overlapped, mixed,
          unremoved>>
api  == <<remote, dir, loaded, refresh, mixed>>

-----------------------------------------------------------------------------
\* What a complete refresh of revision r leaves.
Target(r) == [n \in Names |-> IF n \in FilesOf[r] \cup {Stats} THEN r ELSE Absent]
Nothing   == [n \in Names |-> Absent]
\* subprocess.run: nothing else runs in the API process while rsync does.
Blocked   == \E r \in Refreshers : refresh[r].at = "copy"
Fault     == faults < MaxFaults /\ faults' = faults + 1

Init ==
    /\ remote = 0 /\ dir = Target(0) /\ loaded = TRUE
    /\ refresh = [r \in Refreshers |-> [at |-> "new", rev |-> 0]]
    /\ asked = 0
    /\ fetch = [f \in Fetchers |-> [at |-> "new", tries |-> Attempts, listed |-> {},
                                    left |-> {}, pipe |-> <<>>, bad |-> FALSE, gen |-> 0]]
    /\ slave = [files |-> Target(0), gen |-> 0]
    /\ orphans = {}
    /\ faults = 0 /\ overlapped = FALSE /\ mixed = FALSE /\ unremoved = FALSE

-----------------------------------------------------------------------------
(* refresh of a git source                                                 *)

Goto(r, at) == refresh' = [refresh EXCEPT ![r].at = at]
Refreshing(r, at) ==
    /\ refresh[r].at = at
    /\ UNCHANGED <<fetch, slave, orphans, overlapped, unremoved>>

RefreshStart(r) ==
    /\ Refreshing(r, "new") /\ ~Blocked
    /\ loaded' = FALSE
    /\ Goto(r, "checkout")
    /\ UNCHANGED <<remote, dir, asked, faults, mixed>>

Checkout(r) ==
    /\ Refreshing(r, "checkout") /\ ~Blocked
    /\ remote' \in remote..MaxRev
    /\ refresh' = [refresh EXCEPT ![r] = [at |-> "copy", rev |-> remote']]
    /\ UNCHANGED <<dir, loaded, asked, faults, mixed>>

\* finally: loaded, whatever is there; no broadcast.
RefreshFail(r) ==
    /\ Refreshing(r, "checkout") /\ ~Blocked
    /\ Fault
    /\ loaded' = TRUE
    /\ Goto(r, "done")
    /\ UNCHANGED <<remote, dir, asked, mixed>>

\* rsync --delete --checksum: the deletions in a directory, then what differs.
CopyFile(r) ==
    LET goal == [Target(refresh[r].rev) EXCEPT ![Stats] = Absent]
        todo == {n \in Names : dir[n] # goal[n]}
        extra == {n \in todo : goal[n] = Absent} IN
    /\ Refreshing(r, "copy")
    /\ IF todo = {} THEN Goto(r, "open") /\ UNCHANGED <<dir, mixed>>
       ELSE /\ \E n \in IF extra # {} THEN extra ELSE todo : dir' = [dir EXCEPT ![n] = goal[n]]
            /\ mixed' = (mixed \/ \E f \in Fetchers : fetch[f].left # {})
            /\ UNCHANGED refresh
    /\ UNCHANGED <<remote, loaded, asked, faults>>

OpenStats(r) ==
    /\ Refreshing(r, "open") /\ ~Blocked
    /\ dir' = [dir EXCEPT ![Stats] = Empty]
    /\ Goto(r, "write")
    /\ UNCHANGED <<remote, loaded, asked, faults, mixed>>

WriteStats(r) ==
    /\ Refreshing(r, "write") /\ ~Blocked
    /\ dir' = [dir EXCEPT ![Stats] = refresh[r].rev]
    /\ Goto(r, "end")
    /\ UNCHANGED <<remote, loaded, asked, faults, mixed>>

RefreshEndUnloaded(r) ==                                             \* mutant
    /\ Refreshing(r, "end") /\ ~Blocked
    /\ asked' = asked + 1
    /\ Goto(r, "done")
    /\ UNCHANGED <<remote, dir, loaded, faults, mixed>>

RefreshEnd(r) ==
    /\ Refreshing(r, "end") /\ ~Blocked
    /\ loaded' = TRUE
    /\ asked' = asked + 1
    /\ Goto(r, "done")
    /\ UNCHANGED <<remote, dir, faults, mixed>>

-----------------------------------------------------------------------------
(* _tarball, and the tar it runs                                           *)

GiveUpLate(f, rest) ==                                               \* mutant
    /\ fetch' = [fetch EXCEPT ![f] = [@ EXCEPT !.tries = @ - 1, !.pipe = <<>>, !.left = {},
                    !.at = IF fetch[f].tries > 0 THEN "ask" ELSE "failed"]]
    /\ UNCHANGED orphans

\* The tar of fetch f works in the directory that the slave has now.
InDirectory(f) == fetch[f].gen = slave.gen

\* The attempt of fetch f has failed; what its tar has received, it still extracts.
GiveUp(f, rest) ==
    /\ fetch' = [fetch EXCEPT ![f] = [@ EXCEPT !.tries = fetch[f].tries - 1,
                    !.pipe = <<>>, !.left = {},
                    !.at = IF fetch[f].tries > 1 THEN "ask" ELSE "failed"]]
    /\ orphans' = orphans \cup ({rest} \ {<<>>})

NotLoaded(f) ==
    /\ fetch[f].at = "ask" /\ ~Blocked /\ ~loaded
    /\ GiveUp(f, <<>>)
    /\ UNCHANGED <<api, asked, slave, faults, overlapped, unremoved>>

Accept(f) ==
    /\ fetch[f].at = "ask" /\ ~Blocked /\ loaded
    /\ fetch' = [fetch EXCEPT ![f].at = "accepted"]
    /\ UNCHANGED <<api, asked, slave, orphans, faults, overlapped, unremoved>>

\* The names are those of now, the contents those of later.
ListFiles(f) ==
    LET found == {n \in Names : dir[n] # Absent} IN
    /\ fetch[f].at = "accepted" /\ ~Blocked
    /\ fetch' = [fetch EXCEPT ![f] = [@ EXCEPT !.at = "response", !.listed = found,
                    !.left = found, !.pipe = <<>>, !.bad = FALSE]]
    /\ UNCHANGED <<api, asked, slave, orphans, faults, overlapped, unremoved>>

NextInAnyOrder(f) == fetch[f].left                                   \* mutant
\* .gitstats is put at the end.
NextToRead(f) == IF fetch[f].left = {Stats} THEN {Stats} ELSE fetch[f].left \ {Stats}

\* tar goes on after a file that is gone, and fails in the end.
ReadFile(f) ==
    /\ fetch[f].at \in {"response", "cleared", "extract"}
    /\ \E n \in NextToRead(f) :
         fetch' = [fetch EXCEPT ![f] = [@ EXCEPT !.left = fetch[f].left \ {n},
                     !.pipe = IF dir[n] = Absent THEN fetch[f].pipe
                              ELSE Append(fetch[f].pipe, [name |-> n, holds |-> dir[n]]),
                     !.bad = fetch[f].bad \/ dir[n] = Absent]]
    /\ UNCHANGED <<api, asked, slave, orphans, faults, overlapped, unremoved>>

-----------------------------------------------------------------------------
(* _do_fetch                                                               *)

FetchStart(f) ==
    /\ fetch[f].at = "new" /\ asked > 0
    /\ asked' = asked - 1
    /\ fetch' = [fetch EXCEPT ![f].at = "ask"]
    /\ overlapped' = (overlapped \/
                      \E g \in Fetchers : fetch[g].at \notin {"new", "done", "failed"})
    /\ UNCHANGED <<api, slave, orphans, faults, unremoved>>

\* rmtree and mkdir: a tar that works in the old directory has lost it.
Clear(f) ==
    /\ fetch[f].at = "response"
    /\ slave' = [files |-> Nothing, gen |-> slave.gen + 1]
    /\ fetch' = [fetch EXCEPT ![f].at = "cleared"]
    /\ orphans' = {}
    /\ UNCHANGED <<api, asked, faults, overlapped, unremoved>>

\* A tar that is still extracting lets rmtree find the directory not empty.
ClearFail(f) ==
    /\ fetch[f].at = "response"
    /\ Fault
    /\ \/ orphans # {}
       \/ \E g \in Fetchers : fetch[g].at = "extract" /\ InDirectory(g) /\ fetch[g].pipe # <<>>
    /\ slave' = [slave EXCEPT !.files = Nothing]
    /\ GiveUp(f, <<>>)
    /\ unremoved' = TRUE
    /\ UNCHANGED <<api, asked, overlapped>>

\* The tar starts in the directory that has the name by then.
StartTar(f) ==
    /\ fetch[f].at = "cleared"
    /\ fetch' = [fetch EXCEPT ![f] = [@ EXCEPT !.at = "extract", !.gen = slave.gen]]
    /\ UNCHANGED <<api, asked, slave, orphans, faults, overlapped, unremoved>>

Extracted(file) == slave' = [slave EXCEPT !.files[file.name] = file.holds]

ExtractFile(f) ==
    /\ fetch[f].at = "extract" /\ InDirectory(f) /\ fetch[f].pipe # <<>>
    /\ Extracted(Head(fetch[f].pipe))
    /\ fetch' = [fetch EXCEPT ![f].pipe = Tail(@)]
    /\ UNCHANGED <<api, asked, orphans, faults, overlapped, unremoved>>
ExtractLate ==
    \E o \in orphans :
      /\ orphans' = (orphans \ {o}) \cup ({Tail(o)} \ {<<>>})
      /\ Extracted(Head(o))
      /\ UNCHANGED <<api, asked, fetch, faults, overlapped, unremoved>>

\* A timeout, or a connection that breaks: also the one that the handler breaks
\* because its tar has failed.
Break(f) ==
    /\ fetch[f].at = "extract"
    /\ IF fetch[f].left = {} /\ fetch[f].bad THEN UNCHANGED faults ELSE Fault
    /\ GiveUp(f, IF InDirectory(f) THEN fetch[f].pipe ELSE <<>>)
    /\ UNCHANGED <<api, asked, slave, overlapped, unremoved>>

\* The tar can write nothing into a directory that has been removed, and fails.
LoseDirectory(f) ==
    /\ fetch[f].at = "extract" /\ ~InDirectory(f) /\ fetch[f].pipe # <<>>
    /\ GiveUp(f, <<>>)
    /\ UNCHANGED <<api, asked, slave, faults, overlapped, unremoved>>

FinishAnyway(f) ==                                                   \* mutant
    /\ fetch[f].at = "extract" /\ fetch[f].left = {} /\ fetch[f].pipe = <<>>
    /\ fetch' = [fetch EXCEPT ![f].at = "done"]
    /\ UNCHANGED <<api, asked, slave, orphans, faults, overlapped, unremoved>>

Finish(f) ==
    /\ fetch[f].at = "extract" /\ fetch[f].left = {} /\ fetch[f].pipe = <<>>
    /\ ~fetch[f].bad
    /\ fetch' = [fetch EXCEPT ![f].at = "done"]
    /\ UNCHANGED <<api, asked, slave, orphans, faults, overlapped, unremoved>>

-----------------------------------------------------------------------------
RefreshStep(r) == CopyFile(r) \/ OpenStats(r) \/ WriteStats(r) \/ RefreshEnd(r)
FetchStep(f) ==
    \/ FetchStart(f) \/ NotLoaded(f) \/ Accept(f) \/ ListFiles(f) \/ ReadFile(f) \/ Clear(f)
    \/ StartTar(f) \/ ExtractFile(f) \/ LoseDirectory(f) \/ Finish(f)

Next ==
    \/ \E r \in Refreshers : RefreshStart(r) \/ Checkout(r) \/ RefreshFail(r) \/ RefreshStep(r)
    \/ \E f \in Fetchers : FetchStep(f) \/ ClearFail(f) \/ Break(f)
    \/ ExtractLate

Spec == Init /\ [][Next]_vars

(* Whoever has begun goes on: the coroutines, rsync, and both tars.         *)
FairSpec ==
    /\ Spec
    /\ \A r \in Refreshers : WF_vars(Checkout(r)) /\ WF_vars(RefreshStep(r))
    /\ \A f \in Fetchers : WF_vars(FetchStep(f))
    /\ \A f \in Fetchers : WF_vars(fetch[f].left = {} /\ fetch[f].bad /\ Break(f))
    /\ WF_vars(ExtractLate)

-----------------------------------------------------------------------------
Contents == Revs \cup {Absent, Empty}

TypeOK ==
    /\ remote \in Revs /\ faults \in 0..MaxFaults /\ asked \in Nat
    /\ dir \in [Names -> Contents] /\ slave.files \in [Names -> Contents]
    /\ \A f \in Fetchers :
         /\ fetch[f].left \subseteq fetch[f].listed /\ fetch[f].tries \in 0..Attempts
         /\ \A k \in 1..Len(fetch[f].pipe) : fetch[f].pipe[k].holds \in Contents \ {Absent}

\* Unless a copy ran under a tar, two fetches worked at once, or a tar that was left
\* behind kept the directory from being removed, a slave that shows a hash has all the
\* files of one refresh, which is as new as that hash (_tarball).
HashMeansContent ==
    ~mixed /\ ~overlapped /\ ~unremoved /\ slave.files[Stats] \in Revs =>
        \E r \in slave.files[Stats]..MaxRev :
            slave.files = [Target(r) EXCEPT ![Stats] = slave.files[Stats]]

\* A fetch that succeeds has every file that the handler had listed, also if a refresh
\* came in between, and if earlier attempts broke (_do_fetch).
SuccessIsWhole ==
    [][\A f \in Fetchers : fetch[f].at # "done" /\ fetch'[f].at = "done" /\ ~overlapped =>
          \A n \in fetch[f].listed : slave.files[n] # Absent]_vars

\* Fetches that do not overlap leave in the end what the last refresh left, hash and
\* content, whatever 404 or copy under a tar they met (fetch); if something failed for
\* good, the hash gives it away, and the watch loop sees it, but for a tar that was left
\* behind: it may extract .gitstats after the files have been removed.
Settles == <>[](\/ overlapped
                \/ slave.files = dir
                \/ faults > 0 /\ slave.files[Stats] # dir[Stats]
                \/ faults > 1 /\ unremoved)
=============================================================================
