# shared_config_manager in TLA+

This directory holds TLA+ models of shared_config_manager, the TLC runs that
check them on small instances, and TLAPS proofs of what holds for every
instance. Paths below are relative to the repository; `registry.py`, `base.py`,
`git.py`, ... are the files of `app/shared_config_manager/sources/`.

## The system

One **master** process (the API) and any number of **slaves** run the same
code. A *master configuration*, read from a file, an environment variable or a
source of its own, lists *sources* (git, rsync, rclone). The master refreshes
each source from its origin into a target directory. A slave fetches tarballs
from the master into its own target directories. A webhook or a GET asks the
master for a refresh; when it is done, the master broadcasts `slave_fetch` over
Redis pub/sub. A watch loop in the API process asks all processes for the
hashes of their sources and refreshes a source on which they differ.

Everything in a process runs in one asyncio event loop. There is no lock:
coroutines interleave at the awaits that suspend, and nowhere else. Three kinds
of code do suspend: anyio file operations (run in threads), asyncio subprocesses
and HTTP transfers. `subprocess.run`, which git, rsync, rclone and rm go through
(`_exec`), does not: it blocks the loop.

### Inventory

| Component | State | Operations | Hard behaviour | What makes it correct |
|---|---|---|---|---|
| Registry (`registry.py`) | `_SOURCES`, `FILTERED_SOURCES`, `MASTER_SOURCE`, status file, target directories | init, reload of the master configuration with its gathered deletions and loads, one retry, refresh, slave_fetch | reloads overlap with each other and with refreshes; loads fail in part; a deletion raises | the table becomes what the configuration asks for; no outdated entry or content is served; the flag is right |
| Git sources (`git.py`, `scripts/git-sparse-clone`) | clone directories under `/tmp`, shared per repository; target; `.gitstats` | checkout (fetch or clone), copy, stats, delete | sources share a clone; a fetch fails and is retried; a source is deleted during a refresh | what is copied is fresh, its hash is its own, no clone stays broken |
| Base source (`base.py`) | target directory, `is_loaded`, error gauges | refresh, fetch with attempts and timeout, copy, delete | rmtree before the download; tar child of an attempt given up | a directory is never torn for good |
| Configuration watcher (`registry.py`, `watch_config`) | inotify watch, its task | reload on change | unreadable file, replaced file, gap before the watch | every change is applied in the end |
| Watch loop (`main.py`) | none | compare hashes, refresh, write flag | statuses stale when used; missing answers | slaves converge |
| Broadcast and status (`slave_status.py`, `broadcast_status.py`) | none (Redis is external) | status of slaves and of a source | lost or late messages | a difference is seen |
| HTTP API (`api.py`), permissions (`security.py`) | none | refresh, webhooks, refresh all, status, tarball | check then use around awaits; partial failure of refresh all | decisions follow the event and the branch; a tarball is whole |
| Readiness (`scripts/scm-is-ready`, status file) | status file and its age | probe | two writers, staleness | ready means loaded |
| SSH keys (`ssh.py`) | key files, `~/.ssh/config` | set up, delete | read, then rewrite of a shared file | each live key is listed once |
| Rclone, rsync (`rclone.py`, `rsync.py`) | configuration file, `.tmp` directory | refresh | first publication by rename | the target is whole |
| Template engines | files of the target | evaluate | outputs that meet files of the source | templates win, once |
| Mode, settings | constants | | | |
| UI, packaging, acceptance tests | none | | | |

## The modules

| Module | What it is |
|---|---|
| `Registry` | the registry of one process: any number of overlapping reloads and refreshers |
| `RegistrySerial` | the same with one reload at a time; its properties and its inductive invariant |
| `SourceTable` | abstract specification: what a table of sources promises its readers |
| `GitSource` | clones, copies and hashes of git sources on a master |
| `Cluster` | the API process and its slaves: refreshes, lossy broadcasts, statuses, the watch loop, restarts |
| `Tarball` | one source from the API process to a slave, file by file: refreshes, tars at both ends, attempts |
| `Api` | requests and pages: identities, permissions, webhooks, refreshes of all sources |
| `Process` | the life of one process: start, `config.yaml` and its watch, the status file and the probe |
| `Templates` | the template engines of one source over the files of its directory |
| `RegistryProofs`, `RegistrySerialProofs`, `GitSourceProofs`, `ClusterProofs`, `TarballProofs`, `ApiProofs`, `ProcessProofs`, `TemplatesProofs` | theorems about the module of that name, and their proofs |
| `MC...` | bounds for TLC; `Process` needs none |

The modules overlap where one component looks into what is a single step of
another: a reload is many steps in `Registry`, a few in `Cluster`, one in
`Process`; a fetch is two steps in `Registry` and `Cluster` and a tar at each end
in `Tarball`; a refresh of a git source is several steps in `GitSource` and
`Tarball`, two in `Cluster`, one in `Api`.

A definition that ends with the comment *mutant* is a bug the definition after
it could have had. No specification uses it. TLC was run with each of them in
place of the original, to see that the property paired with it in `PROJECT.json`
fails.

### Registry

Each action is the code between two awaits that suspend.

| State | Code |
|---|---|
| `published`, `notify` | the file of the master configuration, and a trigger not yet served |
| `sources`, `filtered` | `_SOURCES` (as source id to configuration), `FILTERED_SOURCES` |
| `target` | the content of each target directory, by the configuration it came from; `NoConf` if there is none or it is torn |
| `status` | the status file |
| `phase`, `cfg`, `attempt`, `toReload` | the frames of `_handle_master_config` and `_do_handle_master_config` |
| `job` | the subtasks of the three `gather` calls |
| `refresh` | the frame of a refresh or fetch of one source, with the object it looked up |

| Action | Code |
|---|---|
| `BeginReload`, `RejectConfig` | read the file; `_handle_master_config` up to its first suspension, or its exception |
| `FinishRemovals`, `FinishReplacements`, `FinishLoads` | a `gather` returns; the code runs on to the next one. A `gather` of nothing does not suspend, so a stage without work is passed over in the same step |
| `StartDeletes`, `DeleteDir`, `DeleteEntry`, `DeleteFail` | `_delete_source`: all tasks look up their source in one iteration of the loop; directory; `del`. With an `ssh_key`, `SshBaseSource.delete` suspends between the last two, which is why they are two actions |
| `LoadStart`, `LoadWrite`, `LoadDone`, `LoadFail` | `load_source` under its semaphore |
| `WriteFlag` | `update_flag` |
| `RefreshStart`, `RefreshClear`, `RefreshWrite`, `RefreshFail` | `registry.refresh`, `_slave_fetch` and the watch loop on a source that is not the master |

A subtask that raises ends the reload (`AbortReload`), and the other subtasks of
that `gather` go on, as asyncio has it. What comes next depends on whose coroutine it
was. A webhook and a `slave_fetch` event bring one of their own, so that the place of
an aborted reload is free for the next trigger. The inotify task of `config.yaml` is
one coroutine for all changes: an exception, of a reload or of a configuration that
is rejected, leaves its `async for` and ends it for good. `Watchers` says which of the
`Reloads` are such tasks; `Process` looks at their events.

Two sources with the same `target_dir` are not modelled: each id has its
directory.

**`SourceTable`** says that an entry appears only with the wanted configuration,
is never overwritten in place, and disappears only when it is not wanted. The
serial registry implements it with `want <- Want(cfg[TheReload])` and
`table <- sources`: `ImplementsTable`, both checked and proved.

### GitSource

The state is the remote's commits, the clone directories (`dir`, `git`,
`follows`, `tree`, `head`, `left`: whether the directory and its `.git` exist, the
branch of a single-branch clone, the revision checked out, the one of HEAD, and the
files of earlier revisions that git no longer tracks), the target of each source, its
`extra` files and its `.gitstats`, and the refreshers. Since `_exec`
blocks the loop, a whole `git fetch; git checkout; git reset --hard` is one step
(`Fetch`), and so is `rsync` followed by `git rev-parse` (`Copy`); the awaits are
`is_dir`, `exists`, `mkdir`, `open` and `write`. `FetchFails` is the except
branch, which removes `.git` and calls `_checkout` again; `SparseClone` is the
script `git-sparse-clone`, which pulls into whatever a failed fetch has left: files
of the same name as one of the new revision (`Clashes`) are written over or make git
refuse, the others stay (`LeftBy`) and are copied beside the new revision; `Delete`
removes the target and the clone, whoever
shares it. `linked` tells whether the `.gitstats` a refresher has open is still
in the directory: rsync's `--delete` unlinks it. `asked`, `quiet` and `crossed`
are history that the properties need.

What git does is taken from how `git.py` uses it: a `--depth=1` clone follows a
single branch; git started in a directory that does not exist raises something
else than `CalledProcessError`; `git remote add` fails when the remote exists; a
`git clone` that breaks off cleans up. A pull onto an unborn HEAD, over files that
the new revision has too, is refused by a git older than 2.27; in a sparse checkout a
newer one, such as that of the image, says that they "were already present" and
writes over them (tried with 2.39). The model allows both: the code does not ask for
a version.

### Cluster

| State | Code |
|---|---|
| `remote` | the repositories |
| `hash` | what `.gitstats` shows in each process, `NoHash` if it is missing or torn; of the master source, the configuration in its directory |
| `entry`, `toload` | `_SOURCES` and `FILTERED_SOURCES` of each process, and the loads a reload has still to start |
| `fetch`, `inbox` | the fetches of a slave, the `slave_fetch` messages on their way to it |
| `caller`, `seen` | the frames of `registry.refresh` and of `_refresh_source_if_needed`, and the answers the latter has got |
| `loaded`, `replaced` | `is_loaded` of the objects in the API process's table; the frames that hold an object which the table has dropped |
| `faults`, `diverged`, `missed` | the budget of faults; history |

| Action | Code |
|---|---|
| `Push` | external |
| `HookStart`, `RefreshCopy`, `RefreshWrite`, `RefreshFail`, `ReloadEnd`, `Broadcast` | `registry.refresh`; the reload of the API process; the pub/sub that may lose a message for any slave |
| `ApiLoad`, `LoadStart`, `LoadFail`, `LoadUnserved` | `load_source` in the API process and in a slave |
| `WatchPass`, `Answer`, `Decide` | `_watch_source`, `_get_source_status`, `_refresh_source_if_needed` |
| `HandleUnknown`, `HandleFetch`, `FetchEnd`, `FetchBreak` | `_slave_fetch` and the fetch |
| `Restart` | the start script, up to the fetch of the master source |

A reload in a slave removes and replaces in the step in which its fetch of the
master source ends. Changes of the configuration of a source that stays are left
to `Registry`. The API process answers a status request like any slave.

`is_loaded` belongs to the object: a refresh clears it when it begins (`Begins`) and
sets it when it ends (`Ends`), whoever else is refreshing the same source. So a hook
and the watch loop, or two hooks, may be at the same source, the first to end lets
the tarball handler serve it (`Served`), and a slave may fetch a directory from which
the other has just removed `.gitstats`. A frame whose object a reload has removed
(`Dropped`) sets the flag of an object that nobody serves.

### Tarball

A file holds the revision it came from; each revision changes every file it has.
The API side: `RefreshStart`, `Checkout`, `CopyFile` (rsync, one file a step,
deletions first), `OpenStats`, `WriteStats`, `RefreshEnd`, `RefreshFail`, and of
each fetch `NotLoaded`, `Accept`, `ListFiles`, `ReadFile`. While rsync runs the
event loop is blocked, but no tar is. The slave side: `FetchStart`, `Clear`
(`rmtree`, a new directory), `StartTar`, `ExtractFile`, `Finish`; `Break`,
`ClearFail`, `LoseDirectory` end an attempt, and `ExtractLate` is a tar whose
attempt has been given up: nothing kills it. `gen` tells the directories of one
name apart: a tar whose directory was removed writes nowhere. The files in the
pipe are in the order of the tar, `.gitstats` last. `asked`, `overlapped`, `mixed`
and `unremoved` are history: what the last refresh has asked for, whether two
fetches worked at once, whether a copy ran under a tar, and whether `rmtree` failed
because a tar left behind was still writing.

### Api

One request at a time goes through `Arrive`, its handler (`CheckSingle`,
`CheckEvery`, `CheckStatus`, `CheckIndex`, `CheckPage`), the refreshes that it
gathers (`Begin`, `EndRefresh`) and `Answer`; `Reload` may replace the table at any
moment. A configuration is its type, branch, readers and writers: the sets stand
for what GitHub says of a user and the repository of `auth`. `chosen` keeps the
configuration of a source as it was when it was checked, which is how the object
that a handler holds is modelled. A refresh that has begun ends either way:
`GitSource` and `Cluster` say how.

### Process

`file`, `watch` and `event` are the kernel's: whether `config.yaml` is being
written, whether it can be used, the inotify watch (`armed`, or `gone` after the
file was replaced) and whether there is something to read. `init` is
`registry.init`, `task` the watch task, `flag` the status file with its age,
`loop` the watch loop. `Die` ends the process and the start script starts it
again; `/tmp/status` outlives it. `Tick` is the passing of time, which a pass of
the watch loop or its sleep bounds: the loop is not late. `Probe` is
`scm-is-ready`, with its exit codes. The loop's interval
(`SCM__WATCH_SOURCE_INTERVAL`) and the probe's (`WATCH_SOURCE_INTERVAL`) are two
variables of the environment; `Interval` takes them as equal.

### Templates

A name is a sequence of parts, so that stem and suffix are `Front` and `Last`. A
path is a directory and a name; `inode` says which file it names, so that hard
links share `data`. A content is the name of the file it comes from and the
engines it went through. `CopySources` is the refresh or fetch that leaves the
root with nothing but the source files, `Glob` takes the list once, in any order,
and `Read`, `Write`, `RenderFail`, `Plain` and `Link` are the body of `evaluate`,
cut at its awaits. Directories inside a source are left out. The engines are
distinct configurations with a nonempty extension, the names of source files are
not empty; a glob that finds nothing, or a source without engines, ends at once.

## The runs

| Run | Instance | Result |
|---|---|---|
| `registry_serial` | 2 sources, 3 configurations (one filtered out), all 16 master configurations and a rejected one, loads that fail, changes during a reload; the reload is that of the inotify task | passes, 104,291 states |
| `registry_converges` | the same, loads succeed, liveness | passes, 26,694 states |
| `registry_overlap` | 2 reloads, 1 fetch, 2 sources, 3 master configurations, changes between reloads | passes, 852,070 states |
| `registry_lost_source` | 2 reloads | **violated**: overlapping reloads of one configuration lose sources |
| `registry_orphan_dir` | 1 reload, 1 refresh | **violated**: a removed source's directory comes back |
| `git_shared` | 2 refreshers; 2 full sources and a sparse one of one repository; 1 commit, each revision with a file of its own; remote may fail | passes, 1,273,603 states (up to symmetry) |
| `git_two_branches` | the full sources on two branches, remote never fails | **violated**: they break their common clone for good |
| `cluster` | API process and 2 slaves, one of which filters a source out; 2 sources, the second replaces the first in revision 1 of the master source; a hook; 1 fault | passes, 118,080 states |
| `tarball` | 2 revisions, of which the second removes a file; 2 refreshes, 2 fetches of 2 attempts, 1 fault | passes, 711,897 states |
| `api` | 2 sources with any of 3 configurations, 3 users, 1 reload | passes, 65,908 states |
| `process` | 3 changes of the file, 1 fault, interval of 2 ticks, passes of 1 | passes, 50,710 states |
| `templates` | 3 files, 3 engines, 2 evaluations, 1 fault | passes, 527,420 states |

What the passing runs show:

* `NoOutdatedSource`, `VerdictSound`, `RetryOnlyLoads`, `FilteredNotLoaded`,
  `ContentMatchesEntry`: with one reload at a time, at every point where it
  matters the table holds nothing outdated; `READY` after a first attempt and
  `ERROR` are true; the retry deletes nothing; a filtered source is not loaded;
  no directory holds another content than its entry's, whatever failed.
* `ReloadEnds`: no reload hangs. `Converges`: a master configuration that stays
  is applied in the end, contents included, whatever came before it, unless the
  trigger is the inotify task and something has ended it.
* `SettledMatchesPublished`: overlapping reloads that all end without an
  exception have applied the configuration. This needs the publications to fall
  between reloads (`PublishWhenBusy = FALSE`): if the configuration changes while
  a reload loads, the older reload may finish last and put its sources back.
* `HashMatchesContent`, `HashNeverAhead`, `CopyIsFresh`: sharing a clone, or
  losing it in the middle, never gives a source content older than asked for, nor
  the hash of another content. The target of a sparse source may hold other files
  beside the revision of its hash: those of a tree that a failed fetch left without
  its `.git`, and which nothing removes until the source is deleted. If two refreshes of the *same* source overlap, the
  hash may be older than the content, until the next refresh; never newer.
* `SparseHeals`: an undisturbed refresh of a sparse source, whose clone is its own,
  succeeds after any failure or deletion, except for one: if a failed fetch has left
  files in the way of the new revision and git refuses to write over them, it does
  so at every refresh. The full clones do not recover with any git, as the violated
  runs below say.
* `NoNeedlessRefresh`: the watch loop refreshes only what differed while it was
  asking. `LoadedShowsHash`: without faults a loaded source has a hash, except
  while the API process writes it or a slave fetches it; and a slave that fetched it
  between the copy and the `.gitstats` of a second refresh has none until the
  `slave_fetch` of that refresh. That one may come too early, during the load, when the
  slave says `Unknown id`, or after the source was removed (`missed`); then it is for
  the watch loop to repair. One hook and the watch loop are enough for the overlap.
  The exception of `missed` needs two hooks: with two hooks and one slave (929,741
  states) TLC violates the property without it.
* `Repaired`: whatever was lost or torn, the processes that know a source agree
  on it in the end. `MasterRefreshHeals`: a refresh of the master source, made when
  nothing else goes on, brings every process to the right table and contents.
  The second is needed because the watch loop skips the master source
  (`main.py:69`): a slave that missed its refresh, or whose load of a source
  failed, stays as it is. If it lacks a source it has no hash of it, the loop
  refreshes that source at every pass, and this does not help, since the slave
  answers `slave_fetch` with `Unknown id`.
* `HashMeansContent`: a slave that shows a hash has all the files of one refresh,
  as new as that hash. Excepted are a copy that ran under a tar (`mixed`), which
  pairs the files of two revisions until the fetch that this refresh causes, and
  two fetches of the source at once (`overlapped`), which `FetchStart` allows and
  which can leave a mixture. The third exception, `unremoved`, takes two failures: an
  attempt breaks and leaves its tar running, and the next `rmtree` fails because that
  tar writes into the directory after it was listed. The files are gone then, but the
  tar goes on and may extract `.gitstats` beside nothing. TLC shows it with
  `MaxFaults = 2` when `~unremoved` is taken out of `HashMeansContent`. One fault is not
  enough for it: it was the attempt to prove the property for any number that found it.
* `SuccessIsWhole`, `Settles`: a fetch that returns has every file that was
  listed; the last fetch leaves what the last refresh left, or the hash shows
  that it did not. The latter happens when all attempts met a source that was not
  loaded, and the refresh that held it then failed.
* `OneFailsAlone`, `AnswerHonest`: a refresh of all sources leaves none out and
  answers 200 only if all went well. It may answer 403 after it has refreshed some:
  the right to write to the master source does not include reading each source.
* `SameWebhook`, `LinksOpen`, `ButtonWorks`: decisions that the code takes in two
  places are the same. `WritersRefresh`: who has a source refreshed may read it as it
  is then, whatever was reloaded, and may write to the master source if he asked for
  all of them. That he may write to the one source he asked for is certain only if
  no reload comes between the check and the refresh, which asks for the read
  permission alone.
* `StaleOnlyInPass`, `LoadingEnds`, `SlaveReady`: the status file is older than the
  interval only during a pass of the watch loop (a slave has no such loop, and its
  `READY` is stale for good after the interval); `LOADING` goes away; a slave that
  says `READY` has loaded something in this life. An API process may say so too
  early: the loop starts before `registry.init` and finds an empty table.
* `ChangesApplied`: the last version of `config.yaml` is applied, unless its event
  was lost (a change before the watch is added, or after the file was replaced), the
  watch task died of an unusable file or of a reload that raised, or it overlapped the
  initial reload.
* `Outcome`: each engine leaves what it was asked for, in whatever order the files
  come, and outputs of one engine are not templates of the next.
  `OnlyOverlapAborts`: only another evaluation in the same directory makes one
  raise.

What the violated runs show (the findings of `PROJECT.json`):

* **`registry_lost_source`** Two reloads delete the same source: two webhooks on
  `master`, or two `slave_fetch` events for it; with an inline configuration, which has
  no webhook to reload it, the reload of `registry.init` and that of the inotify task
  of a change that comes meanwhile. The second meets a `KeyError` in
  `_delete_source`, which leaves `_handle_master_config` before it loads
  anything. In the run, both are aborted, and the sources are gone until the next
  trigger.
* **`registry_orphan_dir`** A refresh that started before its source was removed
  writes the directory again after the removal; no entry owns it any more.
* **`git_two_branches`** Two findings. The comment in `_clone_dir` says that the
  directory depends on the repository and the branch; it depends on the repository
  only. The second branch cannot be checked out of a single-branch clone. After
  such a failure, or after a failed fetch, `_checkout` removes `.git` only and goes
  on to clone; there `os.removedirs` raises on the working tree, now and at every
  later refresh, so that the clone stays broken.

### Bounds

Two sources are enough for one to fail, go or change while the other does not,
which is what the retry and the gathers depend on; the subtasks of different
sources only meet in the counts, in the semaphore and in a shared clone. Two
loadable configurations give a change, the third a filtered source. All 16
master configurations over them are tried, in sequences of any length. The
semaphore has room for one or two, so both the waiting and the overlap occur.
Two reloads show every pairwise overlap; three would only repeat it. In
`GitSource` two full sources and a sparse one, worked on by two refreshers, give
every pair of works on one clone, on one source, or on unrelated ones;
`MaxCommits = 1` gives an old and a new revision. Each has a file of its own
(`MCFiles`), so that what a failed fetch leaves is in the way of the same revision and
not in the way of the other. `git_shared` uses the symmetry
of the two full sources, which are configured alike there, and of the two
refreshers; it checks invariants and an action property that treats them alike.

`registry_serial` has no refreshers, because `ContentMatchesEntry` does not hold
beside them (see `registry_orphan_dir`). The proofs of the other properties cover
any number of them.

`MaxFaults = 1` everywhere: a fault at any moment of any behaviour, and then a
system that has to get over it; the properties that say "in the end" need the
faults to stop. In `Cluster` two slaves are one that differs and one that does
not, or one that filters. `MaxRev = 1` gives an old and a new revision, and two of
the master source give a source that comes and one that goes. In `Tarball` two
refreshes and two fetches give every pair; two attempts are a first and a last
one. In `Api` the three configurations are a public and a private git source on
different branches and a source that is none, and which somebody may write to and
not read; the initial table is any, and one reload gives any other. `Process` has
three changes so that one can fall before the watch, one during a reload and one
after; two ticks of sleep and one of a pass distinguish fresh, stale and stale for
longer than a pass. In `Templates` the output of a shell template looks like a
mako template, and three engines are two in one directory and one in place.

### Fairness

`FairSpec` assumes weak fairness of each coroutine's steps and of serving a
pending trigger. That is what asyncio gives: a ready coroutine is run, an anyio
thread returns, a subprocess ends, a transfer has a timeout
(`requests_timeout`). Nothing is assumed of `Publish`, of the start of a refresh,
of what users and pushers do, or of which way a load goes. `Converges` assumes
that loads succeed (`LoadsMayFail = FALSE`): a load that fails twice is not tried
again before the next trigger.

`Cluster` assumes strong fairness of `LoadStart`: a load of a slave needs a moment
in which its source is not being refreshed. It also takes the watch interval
(600 s by default) to be longer than what a pass causes (`LongInterval`): a pass
begins when the messages and fetches of the one before are gone. Without it TLC
finds a livelock, in which each pass sees the directory torn by the fetch that the
pass before has caused. `Tarball` is fair to the tars too, and to `Break` where
the handler itself breaks the connection; not to `Break` and `RefreshFail`
otherwise. `Process` is fair to `CloseFile`: a writer of the file ends.

## The proofs

Every invariant and every action property that a passing run checks is a theorem,
for any number of sources, processes, reloads, fetches, requests and faults.
Nothing is assumed but the constants' assumptions and, where it is said below, a
named hypothesis without which the property is false. Each module has an inductive
invariant, kept by one lemma per action and component, and the properties follow
from it.

`RegistryProofs` proves `TypeCorrect`: `Spec => []TypeOK` for any sources,
configurations, reloads and refreshers, from `ConstantsAssumption` alone. Its
second part is about reloads that overlap. `SettledIsPublished` says that the
table is right when all has come to rest and no reload was aborted. Reloads delete
and load each other's sources, so no stage knows the table, as it does in the
serial case. What is left is who is in charge. `OverlapInv`: every reload works on
the configuration in force; each stage has subtasks of its kind, and on sources it
is about (`JobsFit`); and as long as no trigger stands and no reload is aborted,
*each entry that is not as published has a reload in charge of it* (`Attended`):
one that is removing and will plan again, one that replaces and has it in
`toReload`, or one that is loading it. A reload may delete what another has just
loaded, but it only deletes what nobody wants any more or what it is itself going
to load again; the second of two deletions of one entry aborts its reload, and
that excuses the rest. The theorem has two hypotheses: `QuietPublications` (the
configuration does not change during a reload) and `LoadsSucceed`. They are
the settings of the run, and TLC finds the property violated without either.

`RegistrySerialProofs` adds `SingleReload` (triggers come one at a time). The
properties are not inductive: that the table is right when the loads are done
depends on what the removals and replacements left, and that on what the reload
computed at its start. `SerialInv` says, for each stage, what its subtasks know:

* `RemovalInv`: the entries not wanted are exactly those a delete task works on;
* `ReplacementInv`: nothing unwanted is left; the entries outdated have a delete
  task; `toReload` is exactly what differs from what is wanted;
* `LoadInv`: every wanted entry that is not being loaded is right, and every one
  being loaded is absent until its load is done;
* `RetryInv`: a second attempt is never in a deleting stage. This is where the
  invariant earns its keep: at the end of the loads nothing is outdated, so
  `DoHandleMasterConfig` finds nothing to remove or to replace;
* an aborted reload leaves only delete tasks for outdated entries behind, and one
  that a rejected configuration ended leaves none (`RejectConfigInv`).

There is one lemma per step; `SerialFromStage` reduces each to the stage it
reaches. `NoOutdatedSourceHolds`, `VerdictIsSound`, `RetryKeepsLoaded` and
`FilteredStaysOut` follow from `SerialInv`. `TableImplemented` is the refinement:
a step that changes the table is a `Drop` of an outdated entry or an `Add` of a
wanted one, `BeginReload` is a `Retarget`. `ContentIsRight` assumes `Refreshers =
{}`, as its property does not hold otherwise. All others hold with any number of
refreshers, and whatever fails.

`ProcessProofs` proves the four invariants of `Process` from `ProcessAssumption`,
for any interval, length of a pass and number of changes and faults. `ProcessInv`
adds to the types: `LoopInv`, who has a watch loop and how much of its pass or
sleep may be left; `AgeInv`, that the age of the status file and what is left of
the sleep never exceed the interval together, which is what makes
`StaleOnlyInPass` inductive; `FlagInv`, that whoever writes the file after the
initial reload does not write `LOADING`, and that a slave, where only reloads
write `READY`, has then applied something. The task and the watch exist only after
`init` has read the file (`Bounds`), which the types need.

`GitSourceProofs` proves `GitInv`: the types; that who is busy has a source; that
the HEAD of a clone is the revision of its working tree, and only a full clone
follows a branch (`CloneInv`); that the hash a refresher is about to write is that
of the target, and the `.gitstats` it has open belongs to it, unless another
refresh of the same source came in between (`CopyInv`, `StatsInv`); that a
refresher left alone is the only one and finds its sparse clone as it left it
(`QuietInv`); that a full clone has no leftover files, as it never loses its HEAD and
keeps its tree (`LeftInv`). `HashMatchesContent` and `SparseHeals` follow for any
sources, whoever shares a clone. `HashNeverAhead` and `CopyIsFresh` compare revisions and
have the hypothesis `OneBranchPerClone`: sources that share a clone are on one
branch. Their invariant is `FreshInv`: of each source, target, working tree and
remote never run ahead of each other in that order, and neither does what a
refresher holds. With two branches TLC violates both (the instance of
`git_two_branches`): the clone is deleted and cloned again for the other branch
while a refresher that had fetched is about to copy.

`ClusterProofs` proves `FullInv`, in two stages. `ClusterInv` is what holds whatever
the flags say: `Shapes`, the types and what each message and frame can carry;
`EntryInv`, that entries agree with the filter of their process; `ApiShows`, that a
loaded source of the API process without a hash has a refresh that is writing it;
`SeenInv` and `CopyInv`, what a watch task knows. The heart of `NoNeedlessRefresh` is
that a step changes the hashes of at most one process (`Only`): what has been seen of
the others is still true, so hashes that differ in the answers differed at one moment.
On top of it, `ObjectInv` says of the objects that one which the table holds and which
is not loaded has a refresh under way that will say so (`GoOn`: whoever holds an object
goes on with it), and `SlavesShow` who is about to give a slave its hash: a fetch that
brings one, or the `slave_fetch` of a refresh that is not at its end. The second is not
inductive without the first: a `slave_fetch` that finds the source not loaded changes
nothing, and it must be that another one is to come.

`TarballProofs` proves `TarInv`, about where each listed file is: still to be
read, in the pipe or extracted, and of which revision (`ListedInv`, with sequence
lemmas about the pipe: `Chunk`, `Piped`), what the API process's directory holds
(`DirInv`), and that a slave's directory whose fetch went without interference
holds one refresh (`CleanInv`). `HashMeansContent` and `SuccessIsWhole` follow.

`ApiProofs` proves `ApiInv`. `Progress` says what is chosen and asked for at each
stage of a request. `Checked` says what is left of the check while the refreshes run:
the permission for the master source and that to read what is being refreshed, and,
as long as no reload has come in between, that to write to the source, which is then
refreshed as it is. The six properties follow.

`TemplatesProofs` proves `Typed` for evaluations that overlap as they like, which
is enough for `OnlyOverlapAborts`, and `SerialInv` for those that do not. `Built`
says of the directory after any number of jobs what each of its files holds: it
depends only on the set of jobs done and failed, so the order that `Glob` finds
does not matter. One lemma for each kind of job (left alone, linked, failed,
written) takes `Built` one job further (`StepsDoOneJob`); that the list of an
engine has each file once is the cardinality of a finite set. `Outcome` is `Built`
when all jobs are done.

Only model-checked, because temporal arguments under fairness are out of the
prover's reach: `ReloadEnds`, `Converges`, `Repaired`, `MasterRefreshHeals`,
`Settles`, `ChangesApplied`. The three properties that are violated are refuted by
their runs.

## Not modelled, and what is left

Every invariant and action property of the runs is proved. The temporal
properties stay with TLC. What could be modelled next, in this order: the key files
of `ssh.py`, and the first publication of `rclone.py`.


* `~/.ssh/config` and the key files (`ssh.py`): two deletions, or one and a first
  refresh, may read and rewrite the file at once and lose or restore a line; what
  this does is decided by ssh.
* The first publication of an rclone source (`rclone.py`), which renames a `.tmp`
  directory: two first refreshes share it. How refreshes of one source overlap is
  shown by `GitSource` and `Tarball`, whose sources have the hash that makes it
  visible; rclone and rsync sources have none, so the watch loop refreshes them at
  every pass.
* Two sources with one `target_dir`; directories inside a source; a
  slave that is its own master (`api_base_url` not set) except in `Registry` and
  `GitSource`; `master_dispatch = False`, with which a slave reloads the
  master configuration it has.
* The rendering of pages and of one template, commit details, parsing of YAML and
  settings, Prometheus and Sentry, CORS and headers (no state of the program);
  packaging and the acceptance tests (read for what they promise); c2casgiutils
  and Redis except as the lossy channel of `Cluster`.

## Running it

`tlc -config registry_serial.cfg MCRegistrySerial.tla`, and likewise for the
other runs of `PROJECT.json`; `tlapm` on each
`...Proofs.tla` for the proofs.
