------------------------------ MODULE GitSource ------------------------------
(***************************************************************************)
(* The refresh of git sources on a master (sources/git.py): the clone      *)
(* directories under /tmp, which sources of one repository share, and the  *)
(* copies made from them.  Each action is the code between two awaits that *)
(* suspend; git, rsync and rm run by _exec block the event loop, so that   *)
(* a whole checkout is one step.                                           *)
(*                                                                         *)
(* The ssh_key files and the templates are not in this module.  As in      *)
(* Registry, a definition commented "mutant" is a bug that the definition  *)
(* after it could have had, and no specification uses it.                  *)
(***************************************************************************)
EXTENDS Integers

CONSTANTS
    Sources,        \* ids of the git sources
    Repos,          \* repositories
    Repo,           \* the repo of each source
    Branch,         \* the branch of each source
    Sparse,         \* the sources with a sub_dir and not sparse: false
    Names,          \* names of files
    Files,          \* the files of each revision in each clone directory
    Refreshers,     \* coroutines that refresh or load a source
    MaxCommits,     \* bound: commits on each branch
    RemoteMayFail,  \* TRUE: a fetch, clone or pull may fail for outer reasons
    Nothing,        \* no source, no content, no hash, no head
    EmptyFile       \* the content of a file just opened for writing

Branches == {Branch[s] : s \in Sources}
Revs     == [branch : Branches, n : 0..MaxCommits]
Dirs     == Repos \cup Sparse

ASSUME GitAssumption ==
    /\ Repos \cap Sources = {}
    /\ Nothing \notin Sources \cup Revs /\ EmptyFile \notin Revs \cup {Nothing}
    /\ Sparse \subseteq Sources
    /\ Repo \in [Sources -> Repos]
    /\ MaxCommits \in Nat
    /\ Files \in [Dirs -> [Revs -> SUBSET Names]]
    /\ RemoteMayFail \in BOOLEAN

VARIABLES
    remote,    \* commits on each branch of each repository
    clone,     \* the clone directories
    target,    \* the revision in the target directory of each source
    extra,     \* the files beside it that are not of that revision
    gitstats,  \* the hash in its .gitstats
    coro,      \* the refreshers
    crossed    \* history: the sources that two refreshers had in hand at once

vars == <<remote, clone, target, extra, gitstats, coro, crossed>>

(* A clone directory: whether it exists, whether .git is in it, the branch  *)
(* that a single-branch clone follows, the revision of its working tree,    *)
(* the one of HEAD, and the files left from earlier trees, which git does   *)
(* not track.                                                               *)
NoClone == [dir |-> FALSE, git |-> FALSE, follows |-> Nothing, tree |-> Nothing,
            head |-> Nothing, left |-> {}]
CloneOf(b, rev, files) == [dir |-> TRUE, git |-> TRUE, follows |-> b, tree |-> rev,
                           head |-> rev, left |-> files]

(* A refresher: where it is suspended, its source, what it found there      *)
(* before, the hash it is to write, whether its .gitstats is still linked.  *)
(* The last two are history: the commits on its branch when it was asked,   *)
(* and whether it ran alone, with a remote that answered.  One that failed  *)
(* so rests with its source and quiet = TRUE.                               *)
Stages == {"idle", "look", "checkout", "clone", "mkdir", "open", "write"}
Resting == [stage |-> "idle", src |-> Nothing, found |-> FALSE, hash |-> Nothing,
            linked |-> FALSE, asked |-> 0, quiet |-> FALSE]

-----------------------------------------------------------------------------
\* _clone_dir: the id for a sparse source, else a function of the repository.
CloneDir(s) == IF s \in Sparse THEN s ELSE Repo[s]

Tip(s) == [branch |-> Branch[s], n |-> remote[Repo[s]][Branch[s]]]

\* With an unborn HEAD, git tracks no file of the working tree.  A file that it
\* does not track is left alone, unless the revision brings one of that name:
\* git then writes over it with a warning (in a sparse checkout, since 2.27), or
\* refuses.
Untracked(d) ==
    IF clone[d].head # Nothing \/ clone[d].tree = Nothing THEN clone[d].left
    ELSE clone[d].left \cup Files[d][clone[d].tree]
LeftBy(d, rev)  == Untracked(d) \ Files[d][rev]
Clashes(d, rev) == Untracked(d) \cap Files[d][rev] # {}

Init ==
    /\ remote = [p \in Repos |-> [b \in Branches |-> 0]]
    /\ clone = [d \in Dirs |-> NoClone]
    /\ target = [s \in Sources |-> Nothing]
    /\ extra = [s \in Sources |-> {}]
    /\ gitstats = [s \in Sources |-> Nothing]
    /\ coro = [f \in Refreshers |-> Resting]
    /\ crossed = {}

\* Someone pushes.
Commit(p, b) ==
    /\ remote[p][b] < MaxCommits
    /\ remote' = [remote EXCEPT ![p][b] = @ + 1]
    /\ UNCHANGED <<clone, target, extra, gitstats, coro, crossed>>

At(c, st, found) == [c EXCEPT !.stage = st, !.found = found]
QuietIf(c, still) == [c EXCEPT !.quiet = @ /\ still]
Go(f, st) == coro' = [coro EXCEPT ![f] = At(@, st, FALSE)]
Failed(c, blameless) ==
    IF c.quiet /\ blameless THEN [Resting EXCEPT !.src = c.src, !.quiet = TRUE] ELSE Resting
Fail(f)   == coro' = [coro EXCEPT ![f] = Failed(@, TRUE)]
Busy(f)   == coro[f].stage # "idle"
\* Whatever runs now no longer runs undisturbed.
Disturbed == [g \in Refreshers |-> QuietIf(coro[g], ~Busy(g))]

-----------------------------------------------------------------------------
(* GitSource._checkout, with its source s and its clone directory d.       *)

Start(f, s) ==
    /\ ~Busy(f)
    /\ coro' = [Disturbed EXCEPT ![f] =
                  [Resting EXCEPT !.stage = "look", !.src = s, !.asked = Tip(s).n,
                                  !.quiet = \A h \in Refreshers : ~Busy(h)]]
    /\ crossed' = IF \E h \in Refreshers : Busy(h) /\ coro[h].src = s
                  THEN crossed \cup {s} ELSE crossed
    /\ UNCHANGED <<remote, clone, target, extra, gitstats>>

LookForHead(f, d) ==                                                \* mutant
    /\ coro[f].stage = "look"
    /\ coro' = [coro EXCEPT ![f] = At(@, "checkout", clone[d].head # Nothing)]
    /\ UNCHANGED <<remote, clone, target, extra, gitstats, crossed>>

\* await git_dir.is_dir(): a thread looks, the coroutine goes on later.
Look(f, d) ==
    /\ coro[f].stage = "look"
    /\ coro' = [coro EXCEPT ![f] = At(@, "checkout", clone[d].git)]
    /\ UNCHANGED <<remote, clone, target, extra, gitstats, crossed>>

FetchWithoutReset(f, s, d) ==                                       \* mutant
    /\ coro[f].stage = "checkout"
    /\ coro[f].found
    /\ clone[d].git
    /\ clone[d].follows \in {Nothing, Branch[s]}
    /\ Go(f, "mkdir")
    /\ UNCHANGED <<remote, clone, target, extra, gitstats, crossed>>

\* git fetch, checkout, reset --hard.
Fetch(f, s, d) ==
    /\ coro[f].stage = "checkout"
    /\ coro[f].found
    /\ clone[d].git
    /\ clone[d].follows \in {Nothing, Branch[s]}
    /\ clone' = [clone EXCEPT ![d] = CloneOf(@.follows, Tip(s), LeftBy(d, Tip(s)))]
    /\ Go(f, "mkdir")
    /\ UNCHANGED <<remote, target, extra, gitstats, crossed>>

\* One of them fails: the remote, a .git that is gone, a branch that the
\* single-branch clone does not follow, or a checkout over leftover files.  .git
\* is removed, the working tree stays, and _checkout is called again.
FetchFails(f, s, d) ==
    /\ coro[f].stage = "checkout"
    /\ coro[f].found
    /\ clone[d].dir
    /\ \/ RemoteMayFail
       \/ ~clone[d].git
       \/ clone[d].follows \notin {Nothing, Branch[s]}
       \/ Clashes(d, Tip(s))
    /\ clone' = [clone EXCEPT ![d] = [@ EXCEPT !.git = FALSE, !.head = Nothing, !.follows = Nothing]]
    /\ coro' = [coro EXCEPT ![f] = QuietIf(At(@, "look", FALSE),
                   clone[d].follows \notin {Nothing, Branch[s]} \/ Clashes(d, Tip(s)))]
    /\ UNCHANGED <<remote, target, extra, gitstats, crossed>>

\* The clone directory is gone since is_dir(): git cannot even be started in it.
FetchLost(f, d) ==
    /\ coro[f].stage = "checkout"
    /\ coro[f].found
    /\ ~clone[d].dir
    /\ Fail(f)
    /\ UNCHANGED <<remote, clone, target, extra, gitstats, crossed>>

\* git-sparse-clone: git init, git remote add, git pull into what is there.
SparseClone(f, s) ==
    /\ coro[f].stage = "checkout"
    /\ ~coro[f].found
    /\ s \in Sparse
    /\ ~clone[s].git
    /\ clone' = [clone EXCEPT ![s] = CloneOf(Nothing, Tip(s), LeftBy(s, Tip(s)))]
    /\ Go(f, "mkdir")
    /\ UNCHANGED <<remote, target, extra, gitstats, crossed>>

\* Another refresher was faster and the remote is there already; or the pull
\* fails, or is refused, and leaves an unborn HEAD.
SparseCloneFails(f, s) ==
    /\ coro[f].stage = "checkout"
    /\ ~coro[f].found
    /\ s \in Sparse
    /\ \/ /\ clone[s].git
          /\ Fail(f)
          /\ UNCHANGED clone
       \/ /\ ~clone[s].git
          /\ RemoteMayFail \/ Clashes(s, Tip(s))
          /\ clone' = [clone EXCEPT ![s] = [@ EXCEPT !.dir = TRUE, !.git = TRUE]]
          /\ coro' = [coro EXCEPT ![f] = Failed(@, Clashes(s, Tip(s)))]
    /\ UNCHANGED <<remote, target, extra, gitstats, crossed>>

\* await cwd.exists()
Exists(f, s, d) ==
    /\ coro[f].stage = "checkout"
    /\ ~coro[f].found
    /\ s \notin Sparse
    /\ coro' = [coro EXCEPT ![f] = At(@, "clone", clone[d].dir)]
    /\ UNCHANGED <<remote, clone, target, extra, gitstats, crossed>>

\* After await cwd.parent.mkdir().
Clone(f, s, d) ==
    /\ coro[f].stage = "clone"
    /\ ~coro[f].found
    /\ ~clone[d].dir
    /\ clone' = [clone EXCEPT ![d] = CloneOf(Branch[s], Tip(s), {})]
    /\ Go(f, "mkdir")
    /\ UNCHANGED <<remote, target, extra, gitstats, crossed>>

\* os.removedirs of a directory that holds a working tree, or no longer exists,
\* raises; git clone into a directory that another refresher filled fails; git
\* cleans up a clone that the remote broke off.
CloneFails(f, d) ==
    /\ coro[f].stage = "clone"
    /\ coro[f].found \/ clone[d].dir \/ RemoteMayFail
    /\ coro' = [coro EXCEPT ![f] = Failed(@, coro[f].found \/ clone[d].dir)]
    /\ UNCHANGED <<remote, clone, target, extra, gitstats, crossed>>

-----------------------------------------------------------------------------
(* _copy and the end of _do_refresh.                                       *)

\* The .gitstats of s is unlinked, also under the refreshers that have it open.
Unlinked(s) == [g \in Refreshers |->
                  IF coro[g].src = s THEN [coro[g] EXCEPT !.linked = FALSE] ELSE coro[g]]

CopyKeepsStats(f, s, d) ==                                          \* mutant
    /\ coro[f].stage = "mkdir"
    /\ clone[d].tree # Nothing
    /\ clone[d].head # Nothing
    /\ target' = [target EXCEPT ![s] = clone[d].tree]
    /\ extra' = [extra EXCEPT ![s] = clone[d].left]
    /\ coro' = [coro EXCEPT ![f] = [@ EXCEPT !.stage = "open", !.hash = clone[d].head]]
    /\ UNCHANGED <<remote, clone, gitstats, crossed>>

\* rsync --delete removes the old .gitstats; git rev-parse runs before the next
\* await.
Copy(f, s, d) ==
    /\ coro[f].stage = "mkdir"
    /\ clone[d].tree # Nothing
    /\ clone[d].head # Nothing
    /\ target' = [target EXCEPT ![s] = clone[d].tree]
    /\ extra' = [extra EXCEPT ![s] = clone[d].left]
    /\ gitstats' = [gitstats EXCEPT ![s] = Nothing]
    /\ coro' = [Unlinked(s) EXCEPT ![f] = [@ EXCEPT !.stage = "open", !.hash = clone[d].head]]
    /\ UNCHANGED <<remote, clone, crossed>>

\* The clone is gone: rsync fails.  Only .git is gone: rsync copies the working
\* tree, and git rev-parse fails.
CopyFails(f, s, d) ==
    /\ coro[f].stage = "mkdir"
    /\ \/ clone[d].tree = Nothing /\ Fail(f) /\ UNCHANGED <<target, extra, gitstats>>
       \/ /\ clone[d].tree # Nothing
          /\ clone[d].head = Nothing
          /\ target' = [target EXCEPT ![s] = clone[d].tree]
          /\ extra' = [extra EXCEPT ![s] = clone[d].left]
          /\ gitstats' = [gitstats EXCEPT ![s] = Nothing]
          /\ coro' = [Unlinked(s) EXCEPT ![f] = Failed(@, TRUE)]
    /\ UNCHANGED <<remote, clone, crossed>>

OpenDirectory(f, s) ==                                              \* mutant
    /\ coro[f].stage = "open"
    /\ target[s] # Nothing
    /\ target' = [target EXCEPT ![s] = EmptyFile]
    /\ coro' = [coro EXCEPT ![f] = [@ EXCEPT !.stage = "write", !.linked = TRUE]]
    /\ UNCHANGED <<remote, clone, extra, gitstats, crossed>>

\* await open("w"): the file is there, and empty.
OpenStats(f, s) ==
    /\ coro[f].stage = "open"
    /\ target[s] # Nothing
    /\ gitstats' = [gitstats EXCEPT ![s] = EmptyFile]
    /\ coro' = [coro EXCEPT ![f] = [@ EXCEPT !.stage = "write", !.linked = TRUE]]
    /\ UNCHANGED <<remote, clone, target, extra, crossed>>

\* The target directory has been deleted.
OpenFails(f, s) ==
    /\ coro[f].stage = "open"
    /\ target[s] = Nothing
    /\ Fail(f)
    /\ UNCHANGED <<remote, clone, target, extra, gitstats, crossed>>

WriteStatsLate(f, s) ==                                             \* mutant
    /\ coro[f].stage = "write"
    /\ gitstats' = IF coro[f].linked THEN [gitstats EXCEPT ![s] = clone[CloneDir(s)].head]
                   ELSE gitstats
    /\ coro' = [coro EXCEPT ![f] = Resting]
    /\ UNCHANGED <<remote, clone, target, extra, crossed>>

WriteStats(f, s) ==
    /\ coro[f].stage = "write"
    /\ gitstats' = IF coro[f].linked THEN [gitstats EXCEPT ![s] = coro[f].hash] ELSE gitstats
    /\ coro' = [coro EXCEPT ![f] = Resting]
    /\ UNCHANGED <<remote, clone, target, extra, crossed>>

-----------------------------------------------------------------------------
\* GitSource.delete on a master: the target directory, and the clone directory
\* whoever shares it.
Delete(s) ==
    /\ target[s] # Nothing
    /\ target' = [target EXCEPT ![s] = Nothing]
    /\ extra' = [extra EXCEPT ![s] = {}]
    /\ gitstats' = [gitstats EXCEPT ![s] = Nothing]
    /\ clone' = [clone EXCEPT ![CloneDir(s)] = NoClone]
    /\ coro' = [g \in Refreshers |-> QuietIf(Unlinked(s)[g], ~Busy(g))]
    /\ UNCHANGED <<remote, crossed>>

Checkout(f, s, d) ==
    \/ Look(f, d) \/ Fetch(f, s, d) \/ FetchFails(f, s, d) \/ FetchLost(f, d)
    \/ SparseClone(f, s) \/ SparseCloneFails(f, s)
    \/ Exists(f, s, d) \/ Clone(f, s, d) \/ CloneFails(f, d)
Publish(f, s, d) ==
    \/ Copy(f, s, d) \/ CopyFails(f, s, d)
    \/ OpenStats(f, s) \/ OpenFails(f, s) \/ WriteStats(f, s)
Refresh(f) ==
    LET s == coro[f].src
    IN  Busy(f) /\ (Checkout(f, s, CloneDir(s)) \/ Publish(f, s, CloneDir(s)))

Next ==
    \/ \E p \in Repos, b \in Branches : Commit(p, b)
    \/ \E f \in Refreshers, s \in Sources : Start(f, s)
    \/ \E f \in Refreshers : Refresh(f)
    \/ \E s \in Sources : Delete(s)

Spec == Init /\ [][Next]_vars

-----------------------------------------------------------------------------
TypeOK ==
    /\ remote \in [Repos -> [Branches -> 0..MaxCommits]]
    /\ clone \in [Dirs -> [dir : BOOLEAN, git : BOOLEAN, follows : Branches \cup {Nothing},
                           tree : Revs \cup {Nothing}, head : Revs \cup {Nothing},
                           left : SUBSET Names]]
    /\ target \in [Sources -> Revs \cup {Nothing}]
    /\ extra \in [Sources -> SUBSET Names]
    /\ gitstats \in [Sources -> Revs \cup {Nothing, EmptyFile}]
    /\ coro \in [Refreshers -> [stage : Stages, src : Sources \cup {Nothing}, found : BOOLEAN,
                                hash : Revs \cup {Nothing}, linked : BOOLEAN,
                                asked : 0..MaxCommits, quiet : BOOLEAN]]
    /\ crossed \subseteq Sources

\* The hash that .gitstats shows, and that the watch loop compares between the
\* slaves, is the one of the content beside it, whoever else fetches into the
\* same clone or deletes it, as long as no two refreshers had the source in hand
\* at once; and the target of a full clone holds nothing else.  That of a sparse
\* one may: what a failed fetch leaves in its clone (_do_refresh).
HashMatchesContent ==
    \A s \in Sources \ crossed : gitstats[s] \in Revs =>
        gitstats[s] = target[s] /\ (extra[s] # {} => s \in Sparse)

\* And if they had, it may be the hash of an older content, never of a newer one
\* (_do_refresh).
HashNeverAhead == \A s \in Sources : gitstats[s] \in Revs => gitstats[s].n <= target[s].n

\* Once a refresh has copied, the target holds the branch of its source, not
\* older than it was when the refresh was asked for (_do_refresh).
CopyIsFresh ==
    \A f \in Refreshers : LET s == coro[f].src IN
        coro[f].stage \in {"open", "write"} /\ target[s] # Nothing =>
            target[s].branch = Branch[s] /\ target[s].n >= coro[f].asked

\* A refresh that nothing disturbs and whose remote answers succeeds, whatever
\* collided or failed before it: no clone directory stays broken (_checkout).
UndisturbedSucceeds == \A f \in Refreshers : coro[f].quiet => Busy(f)

\* For the sparse sources, which have a clone directory of their own, one thing
\* only makes such a refresh fail: a git that refuses to write over files which a
\* failed fetch left there.  Neither a failed pull nor a deletion while git works
\* there leaves what git-sparse-clone cannot take over (_checkout).
SparseHeals ==
    [][\A f \in Refreshers : LET s == coro[f].src IN
          Busy(f) /\ s \in Sparse /\ coro[f]'.quiet /\ ~Busy(f)' => Clashes(s, Tip(s))]_vars
=============================================================================
