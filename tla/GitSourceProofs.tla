---------------------------- MODULE GitSourceProofs ----------------------------
(***************************************************************************)
(* The types and the invariants of GitSource, for any sources, repositories *)
(* and refreshers, and any number of commits.                              *)
(***************************************************************************)
EXTENDS GitSource, TLAPS

Coros == [stage : Stages, src : Sources \cup {Nothing}, found : BOOLEAN,
          hash : Revs \cup {Nothing}, linked : BOOLEAN, asked : 0..MaxCommits, quiet : BOOLEAN]
Clones == [dir : BOOLEAN, git : BOOLEAN, follows : Branches \cup {Nothing},
           tree : Revs \cup {Nothing}, head : Revs \cup {Nothing}, left : SUBSET Names]

-----------------------------------------------------------------------------
(* What the operators of the model return.                                 *)

\* Every source has its clone directory (_clone_dir).
LEMMA CloneDirType == \A s \in Sources : CloneDir(s) \in Dirs
  BY GitAssumption DEF CloneDir, Dirs

\* The tip of a branch is a revision (the remote).
LEMMA TipType ==
    ASSUME TypeOK, NEW s \in Sources
    PROVE  Tip(s) \in Revs /\ Tip(s).n \in 0..MaxCommits /\ Tip(s).branch = Branch[s]
  <1>1. Repo[s] \in Repos /\ Branch[s] \in Branches
    BY GitAssumption DEF Branches
  <1>2. remote[Repo[s]][Branch[s]] \in 0..MaxCommits
    BY <1>1 DEF TypeOK
  <1> QED
    BY <1>1, <1>2 DEF Tip, Revs

\* A complete clone has its revision checked out (git clone, git reset --hard).
LEMMA CloneOfFields ==
    ASSUME NEW b \in Branches \cup {Nothing}, NEW rev \in Revs, NEW files \in SUBSET Names
    PROVE  LET c == CloneOf(b, rev, files) IN
           /\ c \in Clones
           /\ c.dir = TRUE /\ c.git = TRUE /\ c.follows = b /\ c.tree = rev /\ c.head = rev
           /\ c.left = files
  BY DEF CloneOf, Clones

\* A clone that is not there holds nothing.
LEMMA NoCloneFields ==
    /\ NoClone \in Clones
    /\ NoClone.dir = FALSE /\ NoClone.git = FALSE /\ NoClone.follows = Nothing
    /\ NoClone.tree = Nothing /\ NoClone.head = Nothing /\ NoClone.left = {}
  BY DEF NoClone, Clones

\* What git leaves when it checks out a revision is among the files that were there
\* (git pull, git reset).
LEMMA LeftByType ==
    ASSUME TypeOK, NEW d \in Dirs, NEW rev
    PROVE  LeftBy(d, rev) \in SUBSET Names
  <1>1. clone[d].left \in SUBSET Names /\ clone[d].tree \in Revs \cup {Nothing}
    BY DEF TypeOK
  <1>2. clone[d].tree # Nothing => Files[d][clone[d].tree] \in SUBSET Names
    BY <1>1, GitAssumption
  <1> QED
    BY <1>1, <1>2 DEF LeftBy, Untracked

\* A refresher that goes on keeps all it holds but its place.
LEMMA AtFields ==
    ASSUME NEW c \in Coros, NEW st \in Stages, NEW found \in BOOLEAN
    PROVE  LET n == At(c, st, found) IN
           /\ n \in Coros /\ n.stage = st /\ n.found = found
           /\ n.src = c.src /\ n.hash = c.hash /\ n.linked = c.linked
           /\ n.asked = c.asked /\ n.quiet = c.quiet
  BY DEF At, Coros

\* Only quiet is ever lost by another one being at work.
LEMMA QuietIfFields ==
    ASSUME NEW c \in Coros, NEW still \in BOOLEAN, NEW n, n = QuietIf(c, still)
    PROVE  /\ n \in Coros /\ n.stage = c.stage /\ n.src = c.src /\ n.found = c.found
           /\ n.hash = c.hash /\ n.linked = c.linked /\ n.asked = c.asked
           /\ n.quiet = TRUE => c.quiet = TRUE /\ still = TRUE
  <1> DEFINE q == c.quiet /\ still
             m == [c EXCEPT !.quiet = q]
  <1>1. q \in BOOLEAN
    BY Zenon
  <1>2. m = n
    BY Zenon DEF QuietIf
  <1>3. q => c.quiet = TRUE /\ still = TRUE
    BY Zenon
  <1> HIDE DEF q
  <1>4. /\ m \in Coros /\ m.stage = c.stage /\ m.src = c.src /\ m.found = c.found
        /\ m.hash = c.hash /\ m.linked = c.linked /\ m.asked = c.asked /\ m.quiet = q
    BY <1>1 DEF Coros
  <1> HIDE DEF m
  <1> QED
    BY <1>2, <1>3, <1>4, Zenon

\* The same when it depends on a refresher being busy.
LEMMA QuietIfIdle ==
    ASSUME NEW c \in Coros, NEW g \in Refreshers, NEW n, n = QuietIf(c, ~Busy(g))
    PROVE  /\ n \in Coros /\ n.stage = c.stage /\ n.src = c.src /\ n.found = c.found
           /\ n.hash = c.hash /\ n.linked = c.linked /\ n.asked = c.asked
           /\ n.quiet = TRUE => c.quiet = TRUE /\ ~Busy(g)
  <1> DEFINE still == ~Busy(g)
  <1>1. still \in BOOLEAN /\ n = QuietIf(c, still)
    BY Zenon
  <1>2. still = TRUE => ~Busy(g)
    BY Zenon
  <1> HIDE DEF still
  <1> QED
    BY <1>1, <1>2, QuietIfFields, ZenonT(40)

\* A refresher at rest holds nothing.
LEMMA RestingFields ==
    /\ Resting \in Coros
    /\ Resting.stage = "idle" /\ Resting.src = Nothing /\ Resting.linked = FALSE /\ Resting.quiet = FALSE
  BY GitAssumption DEF Resting, Coros, Stages

\* One that fails rests, and is remembered only if it was undisturbed.
LEMMA FailedFields ==
    ASSUME NEW c \in Coros, NEW blameless \in BOOLEAN
    PROVE  LET n == Failed(c, blameless) IN
           /\ n \in Coros /\ n.stage = "idle" /\ n.linked = FALSE
           /\ n.quiet = TRUE => c.quiet = TRUE /\ blameless /\ n.src = c.src
  BY RestingFields DEF Failed, Coros, Resting

\* Unlinking .gitstats concerns the refreshers that have it open, and nothing else.
LEMMA UnlinkedFields ==
    ASSUME TypeOK, NEW s \in Sources
    PROVE  /\ Unlinked(s) \in [Refreshers -> Coros]
           /\ \A g \in Refreshers : LET c == coro[g] n == Unlinked(s)[g] IN
                /\ n.stage = c.stage /\ n.src = c.src /\ n.found = c.found /\ n.hash = c.hash
                /\ n.asked = c.asked /\ n.quiet = c.quiet
                /\ n.linked = TRUE => c.linked = TRUE /\ c.src # s
  <1> SUFFICES ASSUME NEW g \in Refreshers
      PROVE LET c == coro[g] n == Unlinked(s)[g] IN
                /\ n \in Coros
                /\ n.stage = c.stage /\ n.src = c.src /\ n.found = c.found /\ n.hash = c.hash
                /\ n.asked = c.asked /\ n.quiet = c.quiet
                /\ n.linked = TRUE => c.linked = TRUE /\ c.src # s
    BY DEF Unlinked
  <1>1. coro[g] \in Coros
    BY DEF TypeOK, Coros
  <1>2. CASE coro[g].src = s
    <2>1. Unlinked(s)[g] = [coro[g] EXCEPT !.linked = FALSE]
      BY <1>2 DEF Unlinked
    <2> QED
      BY <1>1, <1>2, <2>1 DEF Coros
  <1>3. CASE coro[g].src # s
    <2>1. Unlinked(s)[g] = coro[g]
      BY <1>3 DEF Unlinked
    <2>2. coro[g].linked = (coro[g].linked /\ coro[g].src # s)
      BY <1>1, <1>3 DEF Coros
    <2> QED
      BY <1>1, <2>1, <2>2, Zenon
  <1> QED
    BY <1>2, <1>3

\* Unlinking .gitstats only closes it to those that have it open.
LEMMA UnlinkedOf ==
    ASSUME TypeOK, NEW s \in Sources, NEW g \in Refreshers, NEW n, n = Unlinked(s)[g]
    PROVE  /\ n.stage = coro[g].stage /\ n.src = coro[g].src /\ n.found = coro[g].found
           /\ n.hash = coro[g].hash /\ n.asked = coro[g].asked /\ n.quiet = coro[g].quiet
           /\ n.linked = TRUE => coro[g].linked = TRUE /\ coro[g].src # s
  BY UnlinkedFields, Zenon

-----------------------------------------------------------------------------
(* What each action does to the refreshers and the clones, field by field. *)

\* The other refreshers are as they were.
OnlyMoves(f) ==
    /\ coro' \in [Refreshers -> Coros]
    /\ \A g \in Refreshers \ {f} : coro'[g] = coro[g]

\* So is what refresher f holds, but for where it is and what it found.
Keeps(f) ==
    /\ coro'[f].src = coro[f].src /\ coro'[f].hash = coro[f].hash
    /\ coro'[f].linked = coro[f].linked /\ coro'[f].asked = coro[f].asked
Goes(f, st) == OnlyMoves(f) /\ Keeps(f) /\ coro'[f].stage = st /\ coro'[f].quiet = coro[f].quiet
\* Refresher f has ended; if it was quiet, it is remembered where it failed.
Ends(f, blameless) ==
    /\ OnlyMoves(f)
    /\ coro'[f].stage = "idle" /\ coro'[f].linked = FALSE
    /\ coro'[f].quiet = TRUE => coro[f].quiet = TRUE /\ blameless /\ coro'[f].src = coro[f].src

\* One refresher moves.
LEMMA SetCoro ==
    ASSUME TypeOK, NEW f \in Refreshers, NEW c \in Coros, coro' = [coro EXCEPT ![f] = c]
    PROVE  OnlyMoves(f) /\ coro'[f] = c
  BY DEF TypeOK, Coros, OnlyMoves

\* One clone changes.
LEMMA SetClone ==
    ASSUME TypeOK, NEW d \in Dirs, NEW c \in Clones, clone' = [clone EXCEPT ![d] = c]
    PROVE  clone' \in [Dirs -> Clones] /\ clone'[d] = c /\ \A e \in Dirs \ {d} : clone'[e] = clone[e]
  BY DEF TypeOK, Clones

\* A refresher goes on.
LEMMA GoEffect ==
    ASSUME TypeOK, NEW f \in Refreshers, NEW st \in Stages, NEW found \in BOOLEAN,
           coro' = [coro EXCEPT ![f] = At(@, st, found)]
    PROVE  Goes(f, st) /\ coro'[f].found = found
  <1>1. coro[f] \in Coros
    BY DEF TypeOK, Coros
  <1> DEFINE n == At(coro[f], st, found)
  <1>2. /\ n \in Coros /\ n.stage = st /\ n.found = found
        /\ n.src = coro[f].src /\ n.hash = coro[f].hash /\ n.linked = coro[f].linked
        /\ n.asked = coro[f].asked /\ n.quiet = coro[f].quiet
    BY <1>1, AtFields
  <1> HIDE DEF n
  <1>3. OnlyMoves(f) /\ coro'[f] = n
    <2>1. coro' = [coro EXCEPT ![f] = n]
      BY Zenon DEF n
    <2> QED
      BY <1>2, <2>1, SetCoro
  <1> QED
    BY <1>2, <1>3 DEF Goes, Keeps

\* A refresh fails.
LEMMA FailEffect ==
    ASSUME TypeOK, NEW f \in Refreshers, NEW blameless \in BOOLEAN,
           coro' = [coro EXCEPT ![f] = Failed(@, blameless)]
    PROVE  Ends(f, blameless)
  <1>1. coro[f] \in Coros
    BY DEF TypeOK, Coros
  <1> DEFINE n == Failed(coro[f], blameless)
  <1>2. /\ n \in Coros /\ n.stage = "idle" /\ n.linked = FALSE
        /\ n.quiet = TRUE => coro[f].quiet = TRUE /\ blameless /\ n.src = coro[f].src
    BY <1>1, FailedFields
  <1> HIDE DEF n
  <1>3. OnlyMoves(f) /\ coro'[f] = n
    <2>1. coro' = [coro EXCEPT ![f] = n]
      BY Zenon DEF n
    <2> QED
      BY <1>2, <2>1, SetCoro
  <1> QED
    BY <1>2, <1>3 DEF Ends

\* A refresh is over.
LEMMA RestEffect ==
    ASSUME TypeOK, NEW f \in Refreshers, coro' = [coro EXCEPT ![f] = Resting]
    PROVE  OnlyMoves(f) /\ coro'[f] = Resting /\ Ends(f, FALSE)
  BY RestingFields, SetCoro DEF Ends

\* A refresh starts, and may spoil the quiet of the others (GitSource.refresh).
LEMMA StartEffect ==
    ASSUME TypeOK, NEW f \in Refreshers, NEW s \in Sources, Start(f, s)
    PROVE  /\ coro' \in [Refreshers -> Coros]
           /\ coro'[f].stage = "look" /\ coro'[f].src = s /\ coro'[f].asked = Tip(s).n
           /\ coro'[f].linked = FALSE
           /\ coro'[f].quiet = TRUE => \A g \in Refreshers : ~Busy(g)
           /\ \A g \in Refreshers \ {f} : LET c == coro[g] n == coro'[g] IN
                /\ n.stage = c.stage /\ n.src = c.src /\ n.found = c.found /\ n.hash = c.hash
                /\ n.asked = c.asked /\ n.linked = c.linked
                /\ n.quiet = TRUE => c.quiet = TRUE /\ ~Busy(g)
  <1> DEFINE alone == \A h \in Refreshers : ~Busy(h)
             new == [Resting EXCEPT !.stage = "look", !.src = s, !.asked = Tip(s).n, !.quiet = alone]
  <1>1. /\ new \in Coros /\ new.stage = "look" /\ new.src = s /\ new.asked = Tip(s).n
        /\ new.linked = FALSE
        /\ new.quiet = TRUE => alone
    <2> HIDE DEF alone
    <2>1. alone \in BOOLEAN
      BY Zenon DEF alone
    <2> QED
      BY <2>1, TipType, RestingFields DEF Coros, Resting, Stages
  <1>2. ASSUME NEW g \in Refreshers
        PROVE  LET c == coro[g] n == Disturbed[g] IN
                /\ n \in Coros
                /\ n.stage = c.stage /\ n.src = c.src /\ n.found = c.found /\ n.hash = c.hash
                /\ n.asked = c.asked /\ n.linked = c.linked
                /\ n.quiet = TRUE => c.quiet = TRUE /\ ~Busy(g)
    <2>1. Disturbed[g] = QuietIf(coro[g], ~Busy(g)) /\ coro[g] \in Coros
      BY DEF Disturbed, TypeOK, Coros
    <2>2. (~Busy(g)) \in BOOLEAN
      BY Zenon
    <2> QED
      BY <2>1, QuietIfIdle
  <1>3. Disturbed \in [Refreshers -> Coros]
    BY <1>2 DEF Disturbed
  <1>4. coro' = [Disturbed EXCEPT ![f] = new]
    BY Zenon DEF Start
  <1> HIDE DEF new
  <1>5. coro' \in [Refreshers -> Coros] /\ coro'[f] = new /\ \A g \in Refreshers \ {f} : coro'[g] = Disturbed[g]
    BY <1>1, <1>3, <1>4
  <1>6. coro'[f].quiet = TRUE => \A g \in Refreshers : ~Busy(g)
    <2>1. new.quiet = TRUE => alone
      BY <1>1
    <2>2. coro'[f] = new
      BY <1>5
    <2> QED
      BY <2>1, <2>2, Zenon
  <1>7. /\ coro'[f].stage = "look" /\ coro'[f].src = s /\ coro'[f].asked = Tip(s).n
        /\ coro'[f].linked = FALSE
    BY <1>1, <1>5, Zenon
  <1>8. ASSUME NEW g \in Refreshers \ {f}
        PROVE  LET c == coro[g] n == coro'[g] IN
                /\ n.stage = c.stage /\ n.src = c.src /\ n.found = c.found /\ n.hash = c.hash
                /\ n.asked = c.asked /\ n.linked = c.linked
                /\ n.quiet = TRUE => c.quiet = TRUE /\ ~Busy(g)
    <2>1. coro'[g] = Disturbed[g] /\ g \in Refreshers
      BY <1>5
    <2> QED
      BY <2>1, <1>2, Zenon
  <1> QED
    BY <1>5, <1>6, <1>7, <1>8, Zenon

\* A source is deleted with the clone that it may share (GitSource.delete).
LEMMA DeleteEffect ==
    ASSUME TypeOK, NEW s \in Sources, Delete(s)
    PROVE  /\ coro' \in [Refreshers -> Coros]
           /\ \A g \in Refreshers : LET c == coro[g] n == coro'[g] IN
                /\ n.stage = c.stage /\ n.src = c.src /\ n.found = c.found /\ n.hash = c.hash
                /\ n.asked = c.asked
                /\ n.linked = TRUE => c.linked = TRUE /\ c.src # s
                /\ n.quiet = TRUE => c.quiet = TRUE /\ ~Busy(g)
  <1> SUFFICES ASSUME NEW g \in Refreshers
        PROVE  LET c == coro[g] n == coro'[g] IN
                /\ n \in Coros
                /\ n.stage = c.stage /\ n.src = c.src /\ n.found = c.found /\ n.hash = c.hash
                /\ n.asked = c.asked
                /\ n.linked = TRUE => c.linked = TRUE /\ c.src # s
                /\ n.quiet = TRUE => c.quiet = TRUE /\ ~Busy(g)
    BY DEF Delete
  <1> DEFINE u == Unlinked(s)[g]
  <1>1. coro'[g] = QuietIf(u, ~Busy(g))
    BY DEF Delete
  <1>2. /\ u \in Coros
        /\ u.stage = coro[g].stage /\ u.src = coro[g].src /\ u.found = coro[g].found
        /\ u.hash = coro[g].hash /\ u.asked = coro[g].asked /\ u.quiet = coro[g].quiet
        /\ u.linked = TRUE => coro[g].linked = TRUE /\ coro[g].src # s
    <2>1. u \in Coros
      BY UnlinkedFields
    <2>2. /\ u.stage = coro[g].stage /\ u.src = coro[g].src /\ u.found = coro[g].found
          /\ u.hash = coro[g].hash /\ u.asked = coro[g].asked /\ u.quiet = coro[g].quiet
          /\ u.linked = TRUE => coro[g].linked = TRUE /\ coro[g].src # s
      BY UnlinkedOf, Zenon
    <2> QED
      BY <2>1, <2>2
  <1> HIDE DEF u
  <1>4. LET n == coro'[g] IN
        /\ n \in Coros
        /\ n.stage = u.stage /\ n.src = u.src /\ n.found = u.found /\ n.hash = u.hash
        /\ n.asked = u.asked /\ n.linked = u.linked
        /\ n.quiet = TRUE => u.quiet = TRUE /\ ~Busy(g)
    BY <1>1, <1>2, QuietIfIdle
  <1>5. /\ coro'[g].quiet = TRUE => coro[g].quiet = TRUE /\ ~Busy(g)
        /\ coro'[g].linked = TRUE => coro[g].linked = TRUE /\ coro[g].src # s
    BY <1>2, <1>4, Zenon
  <1> QED
    BY <1>2, <1>4, <1>5

\* The .gitstats of source s is gone; the others hold what they held otherwise.
OthersUnlink(f, s) ==
    /\ coro' \in [Refreshers -> Coros]
    /\ \A g \in Refreshers \ {f} : LET c == coro[g] n == coro'[g] IN
         /\ n.stage = c.stage /\ n.src = c.src /\ n.found = c.found /\ n.hash = c.hash
         /\ n.asked = c.asked /\ n.quiet = c.quiet
         /\ n.linked = TRUE => c.linked = TRUE /\ c.src # s

\* One refresher moves and unlinks the .gitstats of a source.
LEMMA SetUnlinked ==
    ASSUME TypeOK, NEW f \in Refreshers, NEW s \in Sources, NEW c \in Coros,
           coro' = [Unlinked(s) EXCEPT ![f] = c]
    PROVE  OthersUnlink(f, s) /\ coro'[f] = c
  <1>1. Unlinked(s) \in [Refreshers -> Coros]
    BY UnlinkedFields
  <1>2. coro' \in [Refreshers -> Coros] /\ coro'[f] = c
    BY <1>1
  <1>3. ASSUME NEW g \in Refreshers \ {f}
        PROVE  LET b == coro[g] n == coro'[g] IN
                 /\ n.stage = b.stage /\ n.src = b.src /\ n.found = b.found /\ n.hash = b.hash
                 /\ n.asked = b.asked /\ n.quiet = b.quiet
                 /\ n.linked = TRUE => b.linked = TRUE /\ b.src # s
    <2>1. coro'[g] = Unlinked(s)[g]
      BY <1>1
    <2> QED
      BY <2>1, UnlinkedFields, Zenon
  <1> QED
    BY <1>2, <1>3 DEF OthersUnlink

\* The copy into the target (_copy).
LEMMA CopyEffect ==
    ASSUME TypeOK, NEW f \in Refreshers, NEW s \in Sources, NEW d \in Dirs, s = coro[f].src,
           Copy(f, s, d)
    PROVE  /\ OthersUnlink(f, s)
           /\ coro'[f].stage = "open" /\ coro'[f].hash = clone[d].head
           /\ coro'[f].src = s /\ coro'[f].asked = coro[f].asked
           /\ coro'[f].quiet = coro[f].quiet /\ coro'[f].linked = FALSE
  <1> DEFINE u == Unlinked(s)[f]
             n == [u EXCEPT !.stage = "open", !.hash = clone[d].head]
  <1>1. /\ u \in Coros /\ u.src = s /\ u.asked = coro[f].asked /\ u.quiet = coro[f].quiet
        /\ u.linked = TRUE => coro[f].linked = TRUE /\ coro[f].src # s
    BY UnlinkedFields, ZenonT(40)
  <1>2. u.linked = FALSE
    BY <1>1
  <1>3. coro' = [Unlinked(s) EXCEPT ![f] = n]
    BY Zenon DEF Copy
  <1>4. clone[d].head \in Revs \cup {Nothing}
    BY DEF TypeOK
  <1> HIDE DEF u
  <1>5. /\ n \in Coros /\ n.stage = "open" /\ n.hash = clone[d].head /\ n.src = u.src
        /\ n.asked = u.asked /\ n.quiet = u.quiet /\ n.linked = u.linked
    BY <1>1, <1>4 DEF Coros, Stages
  <1> HIDE DEF n
  <1>6. OthersUnlink(f, s) /\ coro'[f] = n
    BY <1>3, <1>5, SetUnlinked
  <1> QED
    BY <1>1, <1>2, <1>5, <1>6

\* rsync has copied, and git rev-parse failed.
LEMMA CopyFailsEffect ==
    ASSUME TypeOK, NEW f \in Refreshers, NEW s \in Sources, NEW d, s = coro[f].src,
           CopyFails(f, s, d), clone[d].tree # Nothing
    PROVE  /\ OthersUnlink(f, s)
           /\ coro'[f].stage = "idle" /\ coro'[f].linked = FALSE
           /\ coro'[f].quiet = TRUE => coro[f].quiet = TRUE /\ coro'[f].src = s
  <1> DEFINE u == Unlinked(s)[f]
             n == Failed(u, TRUE)
  <1>1. u \in Coros /\ u.src = s /\ u.quiet = coro[f].quiet
    BY UnlinkedFields
  <1>2. coro' = [Unlinked(s) EXCEPT ![f] = n]
    BY Zenon DEF CopyFails
  <1> HIDE DEF u
  <1>3. /\ n \in Coros /\ n.stage = "idle" /\ n.linked = FALSE
        /\ n.quiet = TRUE => u.quiet = TRUE /\ n.src = u.src
    BY <1>1, FailedFields
  <1> HIDE DEF n
  <1>4. OthersUnlink(f, s) /\ coro'[f] = n
    BY <1>2, <1>3, SetUnlinked, Zenon
  <1> QED
    BY <1>1, <1>3, <1>4

\* A refresher truncates .gitstats (_refresh).
LEMMA OpenStatsEffect ==
    ASSUME TypeOK, NEW f \in Refreshers, NEW s \in Sources, OpenStats(f, s)
    PROVE  /\ OnlyMoves(f)
           /\ coro'[f].stage = "write" /\ coro'[f].linked = TRUE
           /\ coro'[f].src = coro[f].src /\ coro'[f].hash = coro[f].hash
           /\ coro'[f].asked = coro[f].asked /\ coro'[f].quiet = coro[f].quiet
  <1> DEFINE n == [coro[f] EXCEPT !.stage = "write", !.linked = TRUE]
  <1>1. coro[f] \in Coros
    BY DEF TypeOK, Coros
  <1>2. /\ n \in Coros /\ n.stage = "write" /\ n.linked = TRUE
        /\ n.src = coro[f].src /\ n.hash = coro[f].hash
        /\ n.asked = coro[f].asked /\ n.quiet = coro[f].quiet
    BY <1>1 DEF Coros, Stages
  <1>3. coro' = [coro EXCEPT ![f] = n]
    BY Zenon DEF OpenStats
  <1> HIDE DEF n
  <1> QED
    BY <1>2, <1>3, SetCoro

\* A checkout that failed begins again, and stays quiet only if it is blameless.
LEMMA FetchFailsEffect ==
    ASSUME TypeOK, NEW f \in Refreshers, NEW s \in Sources, NEW d \in Dirs, FetchFails(f, s, d)
    PROVE  /\ OnlyMoves(f) /\ Keeps(f)
           /\ coro'[f].stage = "look"
           /\ coro'[f].quiet = TRUE => coro[f].quiet = TRUE
           /\ clone' \in [Dirs -> Clones] /\ \A e \in Dirs \ {d} : clone'[e] = clone[e]
           /\ clone'[d].dir = clone[d].dir /\ clone'[d].tree = clone[d].tree
           /\ clone'[d].git = FALSE /\ clone'[d].head = Nothing /\ clone'[d].follows = Nothing
           /\ clone'[d].left = clone[d].left
  <1> DEFINE other == clone[d].follows \notin {Nothing, Branch[s]} \/ Clashes(d, Tip(s))
             k == [clone[d] EXCEPT !.git = FALSE, !.head = Nothing, !.follows = Nothing]
             a == At(coro[f], "look", FALSE)
             q == a.quiet /\ other
             m == [a EXCEPT !.quiet = q]
  <1>1. /\ a \in Coros /\ a.stage = "look" /\ a.src = coro[f].src /\ a.hash = coro[f].hash
        /\ a.linked = coro[f].linked /\ a.asked = coro[f].asked /\ a.quiet = coro[f].quiet
    <2>1. coro[f] \in Coros /\ "look" \in Stages /\ FALSE \in BOOLEAN
      BY DEF TypeOK, Coros, Stages
    <2> QED
      BY <2>1, AtFields
  <1>2. q \in BOOLEAN /\ (q => a.quiet = TRUE /\ other)
    BY Zenon
  <1>3. OnlyMoves(f) /\ Keeps(f) /\ coro'[f].stage = "look" /\ coro'[f].quiet = q
    <2>1. coro' = [coro EXCEPT ![f] = m]
      BY Zenon DEF FetchFails, QuietIf
    <2> HIDE DEF a, q
    <2>2. /\ m \in Coros /\ m.stage = a.stage /\ m.src = a.src
          /\ m.hash = a.hash /\ m.linked = a.linked /\ m.asked = a.asked /\ m.quiet = q
      BY <1>1, <1>2 DEF Coros
    <2> HIDE DEF m
    <2>3. OnlyMoves(f) /\ coro'[f] = m
      BY <2>1, <2>2, SetCoro
    <2> QED
      BY <1>1, <2>2, <2>3 DEF Keeps
  <1>4. /\ k \in Clones /\ k.dir = clone[d].dir /\ k.tree = clone[d].tree
        /\ k.git = FALSE /\ k.head = Nothing /\ k.follows = Nothing /\ k.left = clone[d].left
    <2>1. clone[d] \in Clones
      BY DEF TypeOK, Clones
    <2> QED
      BY <2>1 DEF Clones
  <1>5. clone' = [clone EXCEPT ![d] = k]
    BY Zenon DEF FetchFails
  <1> HIDE DEF k
  <1>6. /\ clone' \in [Dirs -> Clones] /\ \A e \in Dirs \ {d} : clone'[e] = clone[e]
        /\ clone'[d] = k
    BY <1>4, <1>5, SetClone
  <1>7. /\ clone' \in [Dirs -> Clones] /\ \A e \in Dirs \ {d} : clone'[e] = clone[e]
        /\ clone'[d].dir = clone[d].dir /\ clone'[d].tree = clone[d].tree
        /\ clone'[d].git = FALSE /\ clone'[d].head = Nothing /\ clone'[d].follows = Nothing
        /\ clone'[d].left = clone[d].left
    BY <1>4, <1>6
  <1> QED
    BY <1>1, <1>2, <1>3, <1>7, Zenon

\* What a fetch or a clone that succeeds leaves in directory d.
LEMMA CloneEffect ==
    ASSUME TypeOK, NEW f \in Refreshers, NEW s \in Sources, NEW d \in Dirs,
           NEW b \in Branches \cup {Nothing}, NEW files \in SUBSET Names,
           clone' = [clone EXCEPT ![d] = CloneOf(b, Tip(s), files)], Go(f, "mkdir")
    PROVE  /\ Goes(f, "mkdir")
           /\ clone' \in [Dirs -> Clones] /\ \A e \in Dirs \ {d} : clone'[e] = clone[e]
           /\ clone'[d].dir = TRUE /\ clone'[d].git = TRUE /\ clone'[d].follows = b
           /\ clone'[d].tree = Tip(s) /\ clone'[d].head = Tip(s) /\ clone'[d].left = files
  <1>1. Goes(f, "mkdir")
    BY GoEffect DEF Go, Stages
  <1> DEFINE k == CloneOf(b, Tip(s), files)
  <1>2. /\ k \in Clones /\ k.dir = TRUE /\ k.git = TRUE /\ k.follows = b /\ k.tree = Tip(s) /\ k.head = Tip(s)
        /\ k.left = files
    <2>1. Tip(s) \in Revs
      BY TipType
    <2> DEFINE r == Tip(s)
    <2>2. r \in Revs /\ k = CloneOf(b, r, files)
      BY <2>1
    <2> HIDE DEF r, k
    <2>3. /\ k \in Clones /\ k.dir = TRUE /\ k.git = TRUE /\ k.follows = b /\ k.tree = r /\ k.head = r
          /\ k.left = files
      BY <2>2, CloneOfFields, ZenonT(60)
    <2> QED
      BY <2>3 DEF r
  <1> HIDE DEF k
  <1>3. clone' = [clone EXCEPT ![d] = k]
    BY Zenon DEF k
  <1> QED
    BY <1>1, <1>2, <1>3, SetClone

\* A fetch, checkout and reset (_checkout).
LEMMA FetchEffect ==
    ASSUME TypeOK, NEW f \in Refreshers, NEW s \in Sources, NEW d \in Dirs, Fetch(f, s, d)
    PROVE  /\ Goes(f, "mkdir")
           /\ clone' \in [Dirs -> Clones] /\ \A e \in Dirs \ {d} : clone'[e] = clone[e]
           /\ clone'[d].dir = TRUE /\ clone'[d].git = TRUE /\ clone'[d].follows = clone[d].follows
           /\ clone'[d].tree = Tip(s) /\ clone'[d].head = Tip(s) /\ clone'[d].left = LeftBy(d, Tip(s))
  <1>1. clone[d].follows \in Branches \cup {Nothing}
    BY DEF TypeOK
  <1>2. /\ clone' = [clone EXCEPT ![d] = CloneOf(clone[d].follows, Tip(s), LeftBy(d, Tip(s)))]
        /\ Go(f, "mkdir")
    BY Zenon DEF Fetch
  <1> DEFINE b == clone[d].follows
             files == LeftBy(d, Tip(s))
  <1>3. files \in SUBSET Names /\ b \in Branches \cup {Nothing}
    BY <1>1, LeftByType
  <1>4. clone' = [clone EXCEPT ![d] = CloneOf(b, Tip(s), files)] /\ Go(f, "mkdir")
    BY <1>2
  <1> HIDE DEF b, files
  <1>5. /\ Goes(f, "mkdir")
        /\ clone' \in [Dirs -> Clones] /\ \A e \in Dirs \ {d} : clone'[e] = clone[e]
        /\ clone'[d].dir = TRUE /\ clone'[d].git = TRUE /\ clone'[d].follows = b
        /\ clone'[d].tree = Tip(s) /\ clone'[d].head = Tip(s) /\ clone'[d].left = files
    BY <1>3, <1>4, CloneEffect, ZenonT(60)
  <1> QED
    BY <1>5 DEF b, files

\* git-sparse-clone and a checkout: the directory is that of the source.
LEMMA SparseCloneEffect ==
    ASSUME TypeOK, NEW f \in Refreshers, NEW s \in Sparse, SparseClone(f, s)
    PROVE  /\ Goes(f, "mkdir")
           /\ clone' \in [Dirs -> Clones] /\ \A e \in Dirs \ {s} : clone'[e] = clone[e]
           /\ clone'[s].dir = TRUE /\ clone'[s].git = TRUE /\ clone'[s].follows = Nothing
           /\ clone'[s].tree = Tip(s) /\ clone'[s].head = Tip(s) /\ clone'[s].left = LeftBy(s, Tip(s))
  <1>1. s \in Dirs /\ s \in Sources
    BY GitAssumption DEF Dirs
  <1>2. /\ clone' = [clone EXCEPT ![s] = CloneOf(Nothing, Tip(s), LeftBy(s, Tip(s)))]
        /\ Go(f, "mkdir")
    BY Zenon DEF SparseClone
  <1> DEFINE b == Nothing
             files == LeftBy(s, Tip(s))
  <1>3. files \in SUBSET Names /\ b \in Branches \cup {Nothing}
    BY <1>1, LeftByType
  <1>4. clone' = [clone EXCEPT ![s] = CloneOf(b, Tip(s), files)] /\ Go(f, "mkdir")
    BY <1>2
  <1> HIDE DEF b, files
  <1>5. /\ Goes(f, "mkdir")
        /\ clone' \in [Dirs -> Clones] /\ \A e \in Dirs \ {s} : clone'[e] = clone[e]
        /\ clone'[s].dir = TRUE /\ clone'[s].git = TRUE /\ clone'[s].follows = b
        /\ clone'[s].tree = Tip(s) /\ clone'[s].head = Tip(s) /\ clone'[s].left = files
    BY <1>1, <1>3, <1>4, CloneEffect, ZenonT(60)
  <1> QED
    BY <1>5 DEF b, files

\* git-sparse-clone whose pull fails leaves a .git without a head.
LEMMA PullFailsEffect ==
    ASSUME TypeOK, NEW f \in Refreshers, NEW s \in Sparse, NEW blameless \in BOOLEAN,
           clone' = [clone EXCEPT ![s] = [@ EXCEPT !.dir = TRUE, !.git = TRUE]],
           coro' = [coro EXCEPT ![f] = Failed(@, blameless)]
    PROVE  /\ Ends(f, blameless)
           /\ clone' \in [Dirs -> Clones] /\ \A e \in Dirs \ {s} : clone'[e] = clone[e]
           /\ clone'[s].dir = TRUE /\ clone'[s].git = TRUE /\ clone'[s].follows = clone[s].follows
           /\ clone'[s].tree = clone[s].tree /\ clone'[s].head = clone[s].head
  <1> DEFINE k == [clone[s] EXCEPT !.dir = TRUE, !.git = TRUE]
  <1>1. s \in Dirs
    BY DEF Dirs
  <1>2. /\ k \in Clones /\ k.dir = TRUE /\ k.git = TRUE /\ k.follows = clone[s].follows
        /\ k.tree = clone[s].tree /\ k.head = clone[s].head
    <2>1. clone[s] \in Clones
      BY <1>1 DEF TypeOK, Clones
    <2> QED
      BY <2>1 DEF Clones
  <1>3. clone' = [clone EXCEPT ![s] = k]
    BY Zenon DEF k
  <1> HIDE DEF k
  <1> QED
    BY <1>1, <1>2, <1>3, SetClone, FailEffect

-----------------------------------------------------------------------------
(* The steps of a refresh, by what they do to the clone directory and to    *)
(* the target.                                                             *)

BusyHasSource == \A f \in Refreshers : Busy(f) => coro[f].src \in Sources

\* Refresher f ends, or is before _copy.
Calm(f) ==
    /\ OnlyMoves(f)
    /\ coro'[f].stage \in {"idle", "look", "checkout", "clone"}
    /\ coro'[f].stage # "idle" => coro'[f].src = coro[f].src /\ coro'[f].asked = coro[f].asked
    /\ coro'[f].linked = TRUE => coro[f].linked = TRUE /\ coro[f].stage # "write"
OnlyClone(d) == clone' \in [Dirs -> Clones] /\ \A e \in Dirs \ {d} : clone'[e] = clone[e]

Waits(f, s) ==
    /\ Calm(f)
    /\ coro'[f].stage = "clone" => s \notin Sparse
    /\ UNCHANGED <<clone, target, gitstats>>
LosesGit(f, d) ==
    /\ Calm(f) /\ coro'[f].stage # "clone"
    /\ OnlyClone(d)
    /\ clone'[d].dir = clone[d].dir /\ clone'[d].tree = clone[d].tree
    /\ clone'[d].git = FALSE /\ clone'[d].head = Nothing /\ clone'[d].follows = Nothing
    /\ UNCHANGED <<target, gitstats>>
BreaksPull(f, s) ==
    /\ Calm(f) /\ coro'[f].stage # "clone"
    /\ s \in Sparse /\ OnlyClone(s)
    /\ clone'[s].dir = TRUE /\ clone'[s].git = TRUE /\ clone'[s].follows = clone[s].follows
    /\ clone'[s].tree = clone[s].tree /\ clone'[s].head = clone[s].head
    /\ UNCHANGED <<target, gitstats>>
GetsTip(f, s, d) ==
    /\ Goes(f, "mkdir")
    /\ coro[f].stage \in {"checkout", "clone"}
    /\ OnlyClone(d)
    /\ clone'[d].dir = TRUE /\ clone'[d].git = TRUE
    /\ clone'[d].tree = Tip(s) /\ clone'[d].head = Tip(s)
    /\ coro[f].stage = "clone" \/ clone'[d].follows \in {Nothing, clone[d].follows}
    /\ UNCHANGED <<target, gitstats>>

\* rsync has copied, and git rev-parse failed.
CopiesOnly(f, s, d) == CopyFails(f, s, d) /\ clone[d].tree # Nothing

\* A refresher that has copied nothing goes on to check out or to clone.
LEMMA MovesOn ==
    ASSUME TypeOK, NEW f \in Refreshers, NEW st \in {"checkout", "clone"}, NEW found \in BOOLEAN,
           coro[f].stage # "write", coro' = [coro EXCEPT ![f] = At(@, st, found)]
    PROVE  Calm(f) /\ coro'[f].stage = st
  <1>1. st \in Stages
    BY DEF Stages
  <1>2. Goes(f, st)
    BY <1>1, GoEffect
  <1> QED
    BY <1>2 DEF Goes, Keeps, Calm

\* One that ends holds nothing.
LEMMA EndsCalm ==
    ASSUME NEW f, NEW blameless, Ends(f, blameless)
    PROVE  Calm(f) /\ coro'[f].stage # "clone"
  BY DEF Ends, Calm

\* A refresher that steps works on a source.
LEMMA RefreshSource ==
    ASSUME TypeOK, BusyHasSource, NEW f \in Refreshers, NEW s, s = coro[f].src, Refresh(f)
    PROVE  /\ s \in Sources /\ Busy(f)
           /\ Checkout(f, s, CloneDir(s)) \/ Publish(f, s, CloneDir(s))
  BY DEF Refresh, BusyHasSource

\* What the steps of _checkout do.
LEMMA CheckoutSteps ==
    ASSUME TypeOK, NEW f \in Refreshers, NEW s \in Sources, NEW d \in Dirs, d = CloneDir(s),
           Checkout(f, s, d)
    PROVE  /\ UNCHANGED <<remote, crossed>>
           /\ Waits(f, s) \/ LosesGit(f, d) \/ BreaksPull(f, s) \/ GetsTip(f, s, d)
  <1>0. clone[d] \in Clones
    BY DEF TypeOK, Clones
  <1>1. CASE Look(f, d)
    <2>1. clone[d].git \in BOOLEAN
      BY <1>0 DEF Clones
    <2>2. Calm(f) /\ coro'[f].stage = "checkout"
      BY <1>1, <2>1, MovesOn DEF Look
    <2> QED
      BY <1>1, <2>2 DEF Look, Waits
  <1>2. CASE Fetch(f, s, d)
    <2>1. coro[f].stage = "checkout" /\ UNCHANGED <<remote, target, gitstats, crossed>>
      BY <1>2 DEF Fetch
    <2> QED
      BY <1>2, <2>1, FetchEffect DEF GetsTip, OnlyClone
  <1>3. CASE FetchFails(f, s, d)
    <2>1. coro[f].stage = "checkout" /\ UNCHANGED <<remote, target, gitstats, crossed>>
      BY <1>3 DEF FetchFails
    <2>2. Calm(f) /\ coro'[f].stage # "clone"
      BY <1>3, <2>1, FetchFailsEffect DEF Keeps, Calm
    <2>3. /\ clone' \in [Dirs -> Clones] /\ \A e \in Dirs \ {d} : clone'[e] = clone[e]
          /\ clone'[d].dir = clone[d].dir /\ clone'[d].tree = clone[d].tree
          /\ clone'[d].git = FALSE /\ clone'[d].head = Nothing /\ clone'[d].follows = Nothing
      BY <1>3, FetchFailsEffect, ZenonT(40)
    <2> QED
      BY <2>1, <2>2, <2>3, Zenon DEF LosesGit, OnlyClone
  <1>4. CASE FetchLost(f, d)
    BY <1>4, FailEffect, EndsCalm DEF FetchLost, Fail, Waits
  <1>5. CASE SparseClone(f, s)
    <2>1. s = d /\ s \in Sparse
      BY <1>5 DEF SparseClone, CloneDir
    <2>2. coro[f].stage = "checkout" /\ UNCHANGED <<remote, target, gitstats, crossed>>
      BY <1>5, Zenon DEF SparseClone
    <2> QED
      BY <1>5, <2>1, <2>2, SparseCloneEffect, ZenonT(60) DEF GetsTip, OnlyClone
  <1>6. CASE SparseCloneFails(f, s)
    <2>1. CASE clone[s].git /\ Fail(f) /\ UNCHANGED clone
      BY <1>6, <2>1, FailEffect, EndsCalm DEF SparseCloneFails, Fail, Waits
    <2>2. CASE ~(clone[s].git /\ Fail(f) /\ UNCHANGED clone)
      <3>1. /\ s \in Sparse
            /\ clone' = [clone EXCEPT ![s] = [@ EXCEPT !.dir = TRUE, !.git = TRUE]]
            /\ coro' = [coro EXCEPT ![f] = Failed(@, Clashes(s, Tip(s)))]
            /\ UNCHANGED <<remote, target, gitstats, crossed>>
        BY <1>6, <2>2 DEF SparseCloneFails
      <3>2. Clashes(s, Tip(s)) \in BOOLEAN
        BY DEF Clashes
      <3> QED
        BY <3>1, <3>2, PullFailsEffect, EndsCalm DEF BreaksPull, OnlyClone
    <2> QED
      BY <2>1, <2>2
  <1>7. CASE Exists(f, s, d)
    <2>1. clone[d].dir \in BOOLEAN
      BY <1>0 DEF Clones
    <2>2. Calm(f)
      BY <1>7, <2>1, MovesOn DEF Exists
    <2> QED
      BY <1>7, <2>2 DEF Exists, Waits
  <1>8. CASE Clone(f, s, d)
    <2>1. Branch[s] \in Branches \cup {Nothing} /\ {} \in SUBSET Names
      BY DEF Branches
    <2> QED
      BY <1>8, <2>1, CloneEffect DEF Clone, GetsTip, OnlyClone
  <1>9. CASE CloneFails(f, d)
    <2>1. (coro[f].found \/ clone[d].dir) \in BOOLEAN
      BY Zenon
    <2>2. Calm(f) /\ coro'[f].stage # "clone"
      BY <1>9, <2>1, FailEffect, EndsCalm, Zenon DEF CloneFails
    <2> QED
      BY <1>9, <2>2 DEF CloneFails, Waits
  <1> QED
    BY <1>1, <1>2, <1>3, <1>4, <1>5, <1>6, <1>7, <1>8, <1>9 DEF Checkout

\* What the steps of _copy and of writing .gitstats do.
LEMMA PublishSteps ==
    ASSUME TypeOK, NEW f \in Refreshers, NEW s \in Sources, NEW d \in Dirs, Publish(f, s, d)
    PROVE  /\ UNCHANGED <<remote, crossed>>
           /\ \/ Waits(f, s) \/ Copy(f, s, d) \/ CopiesOnly(f, s, d)
              \/ OpenStats(f, s) \/ WriteStats(f, s)
  <1>1. CASE Copy(f, s, d)
    BY <1>1 DEF Copy
  <1>2. CASE CopyFails(f, s, d)
    <2>1. CASE clone[d].tree = Nothing
      BY <1>2, <2>1, FailEffect, EndsCalm DEF CopyFails, Fail, Waits
    <2>2. CASE clone[d].tree # Nothing
      BY <1>2, <2>2 DEF CopyFails, CopiesOnly
    <2> QED
      BY <2>1, <2>2
  <1>3. CASE OpenStats(f, s)
    BY <1>3 DEF OpenStats
  <1>4. CASE OpenFails(f, s)
    BY <1>4, FailEffect, EndsCalm DEF OpenFails, Fail, Waits
  <1>5. CASE WriteStats(f, s)
    BY <1>5 DEF WriteStats
  <1> QED
    BY <1>1, <1>2, <1>3, <1>4, <1>5 DEF Publish

\* Every step of a refresh is one of eight kinds.
LEMMA RefreshSteps ==
    ASSUME TypeOK, BusyHasSource, NEW f \in Refreshers, NEW s, s = coro[f].src,
           NEW d, d = CloneDir(s), Refresh(f)
    PROVE  /\ s \in Sources /\ d \in Dirs /\ Busy(f)
           /\ UNCHANGED <<remote, crossed>>
           /\ \/ Waits(f, s) \/ LosesGit(f, d) \/ BreaksPull(f, s) \/ GetsTip(f, s, d)
              \/ Copy(f, s, d) \/ CopiesOnly(f, s, d) \/ OpenStats(f, s) \/ WriteStats(f, s)
  BY RefreshSource, CloneDirType, CheckoutSteps, PublishSteps

-----------------------------------------------------------------------------
(* The types.                                                              *)

\* The parts of the types that the provers are given.
LEMMA TypeParts ==
    ASSUME TypeOK
    PROVE  /\ remote \in [Repos -> [Branches -> 0..MaxCommits]]
           /\ clone \in [Dirs -> Clones]
           /\ target \in [Sources -> Revs \cup {Nothing}]
           /\ extra \in [Sources -> SUBSET Names]
           /\ gitstats \in [Sources -> Revs \cup {Nothing, EmptyFile}]
           /\ coro \in [Refreshers -> Coros]
           /\ crossed \subseteq Sources
  BY DEF TypeOK, Clones, Coros

\* The parts make the whole.
LEMMA TypeWhole ==
    ASSUME remote' \in [Repos -> [Branches -> 0..MaxCommits]],
           clone' \in [Dirs -> Clones],
           target' \in [Sources -> Revs \cup {Nothing}],
           extra' \in [Sources -> SUBSET Names],
           gitstats' \in [Sources -> Revs \cup {Nothing, EmptyFile}],
           coro' \in [Refreshers -> Coros],
           crossed' \subseteq Sources
    PROVE  TypeOK'
  BY DEF TypeOK, Clones, Coros

\* What a refresher holds.
LEMMA CoroType ==
    ASSUME TypeOK, NEW f \in Refreshers
    PROVE  /\ coro[f] \in Coros /\ coro[f].src \in Sources \cup {Nothing}
           /\ coro[f].hash \in Revs \cup {Nothing} /\ coro[f].asked \in 0..MaxCommits
           /\ coro[f].quiet \in BOOLEAN /\ coro[f].linked \in BOOLEAN /\ coro[f].found \in BOOLEAN
  BY DEF TypeOK, Coros

\* What a clone holds.
LEMMA CloneType ==
    ASSUME TypeOK, NEW d \in Dirs
    PROVE  /\ clone[d].tree \in Revs \cup {Nothing} /\ clone[d].head \in Revs \cup {Nothing}
           /\ clone[d].git \in BOOLEAN /\ clone[d].dir \in BOOLEAN
           /\ clone[d].left \in SUBSET Names
  BY DEF TypeOK

\* Only a copy and a deletion touch what stands beside the content of a source, and
\* a copy brings what is left in its clone (_copy, delete).
LEMMA ExtraSteps ==
    ASSUME Next
    PROVE  \/ UNCHANGED extra
           \/ \E f \in Refreshers : LET s == coro[f].src IN
                /\ Refresh(f) /\ UNCHANGED clone
                /\ extra' = [extra EXCEPT ![s] = clone[CloneDir(s)].left]
           \/ \E s \in Sources : extra' = [extra EXCEPT ![s] = {}]
  <1>1. CASE \E p \in Repos, b \in Branches : Commit(p, b)
    BY <1>1 DEF Commit
  <1>2. CASE \E f \in Refreshers, s \in Sources : Start(f, s)
    BY <1>2 DEF Start
  <1>3. ASSUME NEW f \in Refreshers, Refresh(f)
        PROVE  \/ UNCHANGED extra
               \/ /\ UNCHANGED clone
                  /\ extra' = [extra EXCEPT ![coro[f].src] = clone[CloneDir(coro[f].src)].left]
    <2>1. PICK s, d : s = coro[f].src /\ d = CloneDir(s)
      OBVIOUS
    <2>2. Checkout(f, s, d) \/ Publish(f, s, d)
      BY <1>3, <2>1 DEF Refresh
    <2>3. CASE Checkout(f, s, d)
      BY <2>3, Zenon DEF Checkout, Look, Fetch, FetchFails, FetchLost, SparseClone, SparseCloneFails,
                         Exists, Clone, CloneFails
    <2>4. CASE Publish(f, s, d)
      BY <2>1, <2>4, Zenon DEF Publish, Copy, CopyFails, OpenStats, OpenFails, WriteStats
    <2> QED
      BY <2>2, <2>3, <2>4
  <1>4. CASE \E s \in Sources : Delete(s)
    BY <1>4 DEF Delete
  <1> QED
    BY <1>1, <1>2, <1>3, <1>4 DEF Next

\* What stands there are files (_copy, delete).
LEMMA ExtraType ==
    ASSUME TypeOK, BusyHasSource, Next
    PROVE  extra' \in [Sources -> SUBSET Names]
  <1>1. ASSUME NEW f \in Refreshers, Refresh(f)
        PROVE  coro[f].src \in Sources /\ clone[CloneDir(coro[f].src)].left \in SUBSET Names
    BY <1>1, CloneDirType, CloneType DEF Refresh, BusyHasSource
  <1> QED
    BY <1>1, ExtraSteps, TypeParts

\* Every step keeps the types, and a refresher that is under way has a source
\* (_do_refresh, delete).
LEMMA TypeStep ==
    ASSUME TypeOK, BusyHasSource, Next
    PROVE  TypeOK' /\ BusyHasSource'
  <1>0. extra' \in [Sources -> SUBSET Names]
    BY ExtraType
  <1> USE <1>0, TypeParts
  <1>1. ASSUME NEW p \in Repos, NEW b \in Branches, Commit(p, b)
        PROVE  TypeOK' /\ BusyHasSource'
    <2>1. remote' \in [Repos -> [Branches -> 0..MaxCommits]]
      BY <1>1, GitAssumption DEF Commit
    <2> QED
      BY <1>1, <2>1, TypeWhole DEF Commit, BusyHasSource, Busy
  <1>2. ASSUME NEW f \in Refreshers, NEW s \in Sources, Start(f, s)
        PROVE  TypeOK' /\ BusyHasSource'
    <2>1. /\ coro' \in [Refreshers -> Coros] /\ coro'[f].src = s
          /\ \A g \in Refreshers \ {f} : coro'[g].stage = coro[g].stage /\ coro'[g].src = coro[g].src
      BY <1>2, StartEffect
    <2>2. crossed' \subseteq Sources /\ UNCHANGED <<remote, clone, target, gitstats>>
      BY <1>2 DEF Start
    <2> QED
      BY <2>1, <2>2, TypeWhole DEF BusyHasSource, Busy
  <1>3. ASSUME NEW f \in Refreshers, Refresh(f)
        PROVE  TypeOK' /\ BusyHasSource'
    <2>2. PICK r, e : r = coro[f].src /\ e = CloneDir(r)
      OBVIOUS
    <2>3. /\ r \in Sources /\ e \in Dirs /\ Busy(f)
          /\ UNCHANGED <<remote, crossed>>
          /\ \/ Waits(f, r) \/ LosesGit(f, e) \/ BreaksPull(f, r) \/ GetsTip(f, r, e)
             \/ Copy(f, r, e) \/ CopiesOnly(f, r, e) \/ OpenStats(f, r) \/ WriteStats(f, r)
      BY <1>3, <2>2, RefreshSteps
    <2>4. ASSUME Calm(f) PROVE coro' \in [Refreshers -> Coros] /\ BusyHasSource'
      BY <2>2, <2>3, <2>4 DEF Calm, OnlyMoves, BusyHasSource, Busy
    <2>5. CASE Waits(f, r)
      BY <2>3, <2>4, <2>5, TypeWhole DEF Waits
    <2>6. CASE LosesGit(f, e)
      BY <2>3, <2>4, <2>6, TypeWhole DEF LosesGit, OnlyClone
    <2>7. CASE BreaksPull(f, r)
      BY <2>3, <2>4, <2>7, TypeWhole DEF BreaksPull, OnlyClone
    <2>8. CASE GetsTip(f, r, e)
      <3>1. coro' \in [Refreshers -> Coros] /\ BusyHasSource'
        BY <2>2, <2>3, <2>8 DEF GetsTip, Goes, Keeps, OnlyMoves, BusyHasSource, Busy
      <3> QED
        BY <2>3, <2>8, <3>1, TypeWhole DEF GetsTip, OnlyClone
    <2>9. ASSUME OthersUnlink(f, r), coro'[f].stage = "idle" \/ coro'[f].src = r
          PROVE  coro' \in [Refreshers -> Coros] /\ BusyHasSource'
      BY <2>3, <2>9 DEF OthersUnlink, BusyHasSource, Busy
    <2>10. ASSUME target' = [target EXCEPT ![r] = clone[e].tree],
                  gitstats' = [gitstats EXCEPT ![r] = Nothing]
           PROVE  /\ target' \in [Sources -> Revs \cup {Nothing}]
                  /\ gitstats' \in [Sources -> Revs \cup {Nothing, EmptyFile}]
      BY <2>3, <2>10, CloneType
    <2>11. CASE Copy(f, r, e)
      <3>1. coro' \in [Refreshers -> Coros] /\ BusyHasSource'
        BY <2>2, <2>3, <2>9, <2>11, CopyEffect
      <3>2. /\ UNCHANGED clone
            /\ target' = [target EXCEPT ![r] = clone[e].tree] /\ gitstats' = [gitstats EXCEPT ![r] = Nothing]
        BY <2>11 DEF Copy
      <3> QED
        BY <2>3, <2>10, <3>1, <3>2, TypeWhole
    <2>12. CASE CopiesOnly(f, r, e)
      <3>1. coro' \in [Refreshers -> Coros] /\ BusyHasSource'
        BY <2>2, <2>3, <2>9, <2>12, CopyFailsEffect DEF CopiesOnly
      <3>2. /\ UNCHANGED clone
            /\ target' = [target EXCEPT ![r] = clone[e].tree] /\ gitstats' = [gitstats EXCEPT ![r] = Nothing]
        BY <2>12 DEF CopiesOnly, CopyFails
      <3> QED
        BY <2>3, <2>10, <3>1, <3>2, TypeWhole
    <2>13. CASE OpenStats(f, r)
      <3>1. coro' \in [Refreshers -> Coros] /\ BusyHasSource'
        BY <2>2, <2>3, <2>13, OpenStatsEffect DEF OnlyMoves, BusyHasSource, Busy
      <3>2. UNCHANGED <<clone, target>> /\ gitstats' = [gitstats EXCEPT ![r] = EmptyFile]
        BY <2>13 DEF OpenStats
      <3>3. gitstats' \in [Sources -> Revs \cup {Nothing, EmptyFile}]
        BY <2>3, <3>2
      <3> QED
        BY <2>3, <3>1, <3>2, <3>3, TypeWhole
    <2>14. CASE WriteStats(f, r)
      <3>1. coro' \in [Refreshers -> Coros] /\ BusyHasSource'
        <4>1. coro' = [coro EXCEPT ![f] = Resting]
          BY <2>14 DEF WriteStats
        <4> QED
          BY <2>2, <4>1, RestEffect DEF Ends, OnlyMoves, BusyHasSource, Busy
      <3>2. UNCHANGED <<clone, target>> /\ gitstats' \in {gitstats, [gitstats EXCEPT ![r] = coro[f].hash]}
        BY <2>14 DEF WriteStats
      <3>3. gitstats' \in [Sources -> Revs \cup {Nothing, EmptyFile}]
        BY <2>3, <3>2, CoroType
      <3> QED
        BY <2>3, <3>1, <3>2, <3>3, TypeWhole
    <2> QED
      BY <2>3, <2>5, <2>6, <2>7, <2>8, <2>11, <2>12, <2>13, <2>14
  <1>4. ASSUME NEW s \in Sources, Delete(s)
        PROVE  TypeOK' /\ BusyHasSource'
    <2>1. coro' \in [Refreshers -> Coros] /\ BusyHasSource'
      BY <1>4, DeleteEffect DEF BusyHasSource, Busy
    <2>2. /\ UNCHANGED <<remote, crossed>>
          /\ target' = [target EXCEPT ![s] = Nothing] /\ gitstats' = [gitstats EXCEPT ![s] = Nothing]
          /\ clone' = [clone EXCEPT ![CloneDir(s)] = NoClone]
      BY <1>4 DEF Delete
    <2>3. /\ target' \in [Sources -> Revs \cup {Nothing}]
          /\ gitstats' \in [Sources -> Revs \cup {Nothing, EmptyFile}]
      BY <2>2
    <2>4. clone' \in [Dirs -> Clones]
      BY <2>2, CloneDirType, NoCloneFields, SetClone
    <2> QED
      BY <2>1, <2>2, <2>3, <2>4, TypeWhole
  <1> QED
    BY <1>1, <1>2, <1>3, <1>4 DEF Next

-----------------------------------------------------------------------------
(* The clone directories: a head is the revision of the working tree beside *)
(* it, and only an ordinary clone follows a single branch.                 *)

CloneInv ==
    /\ \A d \in Dirs :
         /\ clone[d].head # Nothing => clone[d].git = TRUE /\ clone[d].head = clone[d].tree
         /\ clone[d].git = TRUE => clone[d].dir = TRUE
         /\ d \in Sparse => clone[d].follows = Nothing
    /\ \A f \in Refreshers : coro[f].stage = "clone" => coro[f].src \notin Sparse

\* Whoever shares a clone directory or deletes it keeps it so (_checkout, delete).
LEMMA CloneStep ==
    ASSUME TypeOK, BusyHasSource, CloneInv, Next
    PROVE  CloneInv'
  <1>1. ASSUME NEW p \in Repos, NEW b \in Branches, Commit(p, b)
        PROVE  CloneInv'
    BY <1>1 DEF Commit, CloneInv
  <1>2. ASSUME NEW f \in Refreshers, NEW s \in Sources, Start(f, s)
        PROVE  CloneInv'
    <2>1. UNCHANGED clone
      BY <1>2 DEF Start
    <2>2. /\ coro'[f].stage = "look"
          /\ \A g \in Refreshers \ {f} : coro'[g].stage = coro[g].stage /\ coro'[g].src = coro[g].src
      BY <1>2, StartEffect
    <2> QED
      BY <2>1, <2>2 DEF CloneInv
  <1>3. ASSUME NEW f \in Refreshers, Refresh(f)
        PROVE  CloneInv'
    <2>1. PICK s, d : s = coro[f].src /\ d = CloneDir(s)
      OBVIOUS
    <2>2. /\ s \in Sources /\ d \in Dirs /\ Busy(f)
          /\ UNCHANGED <<remote, crossed>>
          /\ \/ Waits(f, s) \/ LosesGit(f, d) \/ BreaksPull(f, s) \/ GetsTip(f, s, d)
             \/ Copy(f, s, d) \/ CopiesOnly(f, s, d) \/ OpenStats(f, s) \/ WriteStats(f, s)
      BY <1>3, <2>1, RefreshSteps
    <2>3. CASE Waits(f, s)
      BY <2>1, <2>3 DEF Waits, Calm, OnlyMoves, CloneInv
    <2>4. CASE LosesGit(f, d)
      BY <2>1, <2>2, <2>4 DEF LosesGit, Calm, OnlyMoves, OnlyClone, CloneInv
    <2>5. CASE BreaksPull(f, s)
      BY <2>1, <2>2, <2>5 DEF BreaksPull, Calm, OnlyMoves, OnlyClone, CloneInv, Dirs
    <2>6. CASE GetsTip(f, s, d)
      <3>1. d \in Sparse => coro[f].stage # "clone"
        BY <2>1, <2>2, GitAssumption DEF CloneDir, CloneInv
      <3> QED
        BY <2>2, <2>6, <3>1 DEF GetsTip, Goes, OnlyMoves, OnlyClone, CloneInv
    <2>7. ASSUME UNCHANGED clone, coro'[f].stage # "clone",
                 \A g \in Refreshers \ {f} : coro'[g].stage = coro[g].stage /\ coro'[g].src = coro[g].src
          PROVE  CloneInv'
      BY <2>7 DEF CloneInv
    <2>8. CASE Copy(f, s, d)
      <3>1. OthersUnlink(f, s) /\ coro'[f].stage = "open"
        BY <2>1, <2>2, <2>8, CopyEffect
      <3>2. UNCHANGED clone
        BY <2>8 DEF Copy
      <3> QED
        BY <2>7, <3>1, <3>2 DEF OthersUnlink
    <2>9. CASE CopiesOnly(f, s, d)
      <3>1. OthersUnlink(f, s) /\ coro'[f].stage = "idle"
        BY <2>1, <2>2, <2>9, CopyFailsEffect DEF CopiesOnly
      <3>2. UNCHANGED clone
        BY <2>9 DEF CopiesOnly, CopyFails
      <3> QED
        BY <2>7, <3>1, <3>2 DEF OthersUnlink
    <2>10. CASE OpenStats(f, s)
      BY <2>2, <2>7, <2>10, OpenStatsEffect DEF OpenStats, OnlyMoves
    <2>11. CASE WriteStats(f, s)
      BY <2>7, <2>11, RestEffect, RestingFields DEF WriteStats, OnlyMoves
    <2> QED
      BY <2>2, <2>3, <2>4, <2>5, <2>6, <2>8, <2>9, <2>10, <2>11
  <1>4. ASSUME NEW s \in Sources, Delete(s)
        PROVE  CloneInv'
    <2>1. \A g \in Refreshers : coro'[g].stage = coro[g].stage /\ coro'[g].src = coro[g].src
      BY <1>4, DeleteEffect
    <2>2. clone'[CloneDir(s)] = NoClone /\ \A e \in Dirs \ {CloneDir(s)} : clone'[e] = clone[e]
      BY <1>4, CloneDirType, NoCloneFields, SetClone DEF Delete
    <2> QED
      BY <2>1, <2>2, NoCloneFields DEF CloneInv
  <1> QED
    BY <1>1, <1>2, <1>3, <1>4 DEF Next

-----------------------------------------------------------------------------
(* The leftovers: a full clone has none, as git tracks its working tree as  *)
(* long as there is a .git, and nothing clones into it otherwise.           *)

LeftInv ==
    /\ \A d \in Dirs \ Sparse :
         clone[d].left = {} /\ (clone[d].git = TRUE => clone[d].head # Nothing)
    /\ \A s \in Sources \ Sparse : extra[s] = {}

\* The clone directory of a full source is none of a sparse one (_clone_dir).
LEMMA FullClone ==
    ASSUME NEW s \in Sources, s \notin Sparse
    PROVE  CloneDir(s) \in Dirs \ Sparse
  BY GitAssumption DEF CloneDir, Dirs

\* No fetch, clone, copy or deletion brings leftovers to a full clone (_checkout,
\* _copy, delete).
LEMMA LeftStep ==
    ASSUME TypeOK, BusyHasSource, CloneInv, LeftInv, Next
    PROVE  LeftInv'
  <1>1. \A s \in Sources \ Sparse : extra'[s] = {}
    <2>1. CASE UNCHANGED extra
      BY <2>1 DEF LeftInv
    <2>2. ASSUME NEW f \in Refreshers, NEW r, r = coro[f].src, Refresh(f),
                 extra' = [extra EXCEPT ![r] = clone[CloneDir(r)].left]
          PROVE  \A s \in Sources \ Sparse : extra'[s] = {}
      <3>1. r \in Sources
        BY <2>2, RefreshSource
      <3>2. r \notin Sparse => clone[CloneDir(r)].left = {}
        BY <3>1, FullClone, Zenon DEF LeftInv
      <3> QED
        BY <2>2, <3>1, <3>2, TypeParts DEF LeftInv
    <2>3. ASSUME NEW r \in Sources, extra' = [extra EXCEPT ![r] = {}]
          PROVE  \A s \in Sources \ Sparse : extra'[s] = {}
      BY <2>3, TypeParts DEF LeftInv
    <2> QED
      BY <2>1, <2>2, <2>3, ExtraSteps
  <1>2. ASSUME NEW f \in Refreshers, Refresh(f), NEW e \in Dirs \ Sparse
        PROVE  clone'[e].left = {} /\ (clone'[e].git = TRUE => clone'[e].head # Nothing)
    <2>1. PICK s, d : s = coro[f].src /\ d = CloneDir(s)
      OBVIOUS
    <2>2. s \in Sources /\ d \in Dirs /\ (Checkout(f, s, d) \/ Publish(f, s, d))
      BY <1>2, <2>1, RefreshSource, CloneDirType
    <2>3. /\ clone[e].left = {} /\ (clone[e].git = TRUE => clone[e].head # Nothing)
          /\ Tip(s) # Nothing /\ clone[e].git \in BOOLEAN
      <3>1. Tip(s) \in Revs
        BY <2>2, TipType
      <3>2. Tip(s) # Nothing /\ clone[e].git \in BOOLEAN
        BY <3>1, CloneType, GitAssumption
      <3> QED
        BY <3>2, Zenon DEF LeftInv
    <2>4. CASE UNCHANGED clone
      BY <2>3, <2>4
    <2>5. CASE Fetch(f, s, d)
      <3>1. /\ \A h \in Dirs \ {d} : clone'[h] = clone[h]
            /\ clone'[d].head = Tip(s) /\ clone'[d].left = LeftBy(d, Tip(s))
        BY <2>2, <2>5, FetchEffect
      <3>2. clone[d].git
        BY <2>5 DEF Fetch
      <3>3. d = e => LeftBy(d, Tip(s)) = {}
        BY <2>3, <3>2 DEF LeftBy, Untracked
      <3> QED
        BY <2>3, <3>1, <3>3
    <2>6. CASE FetchFails(f, s, d)
      <3>1. /\ \A h \in Dirs \ {d} : clone'[h] = clone[h]
            /\ clone'[d].git = FALSE /\ clone'[d].left = clone[d].left
        BY <2>2, <2>6, FetchFailsEffect, Zenon
      <3> QED
        BY <2>3, <3>1
    <2>7. CASE SparseClone(f, s) \/ SparseCloneFails(f, s)
      <3>1. s \in Sparse /\ \E c : clone' = [clone EXCEPT ![s] = c]
        <4>1. CASE SparseClone(f, s)
          BY <4>1, Zenon DEF SparseClone
        <4>2. CASE SparseCloneFails(f, s) /\ UNCHANGED clone
          BY <2>4, <4>2, TypeParts DEF SparseCloneFails
        <4>3. CASE SparseCloneFails(f, s) /\ ~UNCHANGED clone
          BY <4>3, Zenon DEF SparseCloneFails
        <4> QED
          BY <2>7, <4>1, <4>2, <4>3
      <3> QED
        BY <2>3, <3>1, TypeParts
    <2>8. CASE Clone(f, s, d)
      <3>1. Branch[s] \in Branches \cup {Nothing} /\ {} \in SUBSET Names
        BY <2>2 DEF Branches
      <3>2. clone' = [clone EXCEPT ![d] = CloneOf(Branch[s], Tip(s), {})] /\ Go(f, "mkdir")
        BY <2>8, Zenon DEF Clone
      <3>3. /\ \A h \in Dirs \ {d} : clone'[h] = clone[h]
            /\ clone'[d].head = Tip(s) /\ clone'[d].left = {}
        BY <2>2, <3>1, <3>2, CloneEffect
      <3> QED
        BY <2>3, <3>3
    <2> QED
      BY <2>2, <2>4, <2>5, <2>6, <2>7, <2>8
      DEF Checkout, Publish, Look, FetchLost, Exists, CloneFails, Copy, CopyFails, OpenStats,
          OpenFails, WriteStats
  <1>3. ASSUME NEW s \in Sources, Delete(s), NEW e \in Dirs \ Sparse
        PROVE  clone'[e].left = {} /\ (clone'[e].git = TRUE => clone'[e].head # Nothing)
    <2>1. clone' = [clone EXCEPT ![CloneDir(s)] = NoClone]
      BY <1>3 DEF Delete
    <2>2. CloneDir(s) \in Dirs /\ clone \in [Dirs -> Clones]
      BY CloneDirType, TypeParts
    <2>3. clone'[e] \in {NoClone, clone[e]}
      BY <2>1, <2>2
    <2> QED
      BY <2>3, NoCloneFields, Zenon DEF LeftInv
  <1>4. UNCHANGED clone => \A e \in Dirs \ Sparse :
          clone'[e].left = {} /\ (clone'[e].git = TRUE => clone'[e].head # Nothing)
    BY DEF LeftInv
  <1>5. \A e \in Dirs \ Sparse :
          clone'[e].left = {} /\ (clone'[e].git = TRUE => clone'[e].head # Nothing)
    BY <1>2, <1>3, <1>4 DEF Next, Commit, Start
  <1> QED
    BY <1>1, <1>5 DEF LeftInv

-----------------------------------------------------------------------------
(* The copies.  Two refreshers that work on one source have crossed; the    *)
(* hash that one is to write is that of the target, unless the target is    *)
(* gone or another refresher is there too; and the .gitstats one has open   *)
(* is that of the target.                                                  *)

CopyInv ==
    /\ \A f, g \in Refreshers :
         f # g /\ Busy(f) /\ Busy(g) /\ coro[f].src = coro[g].src => coro[f].src \in crossed
    /\ \A f \in Refreshers : LET s == coro[f].src IN
         /\ coro[f].linked = TRUE => coro[f].stage = "write" /\ target[s] # Nothing
         /\ coro[f].stage \in {"open", "write"} =>
              target[s] \in {coro[f].hash, Nothing} \/ s \in crossed

HashTells == \A s \in Sources \ crossed : gitstats[s] \in Revs => gitstats[s] = target[s]
StatsInv ==
    /\ HashTells
    /\ \A s \in Sources : target[s] = Nothing => gitstats[s] = Nothing

\* Every step keeps what copies and hashes have to do with each other.
LEMMA CopyStep ==
    ASSUME TypeOK, BusyHasSource, CloneInv, CopyInv, StatsInv, Next
    PROVE  CopyInv' /\ StatsInv'
  <1> USE TypeParts
  \* What the calm steps have in common: refresher f has not copied.
  <1>0. ASSUME NEW f \in Refreshers, Busy(f), Calm(f), UNCHANGED <<target, gitstats, crossed>>
        PROVE  CopyInv' /\ StatsInv'
    <2>1. StatsInv'
      BY <1>0 DEF StatsInv, HashTells
    <2>2. /\ coro'[f].stage \in {"idle", "look", "checkout", "clone"}
          /\ coro'[f].stage # "idle" => coro'[f].src = coro[f].src
          /\ \A g \in Refreshers \ {f} : coro'[g] = coro[g]
      BY <1>0 DEF Calm, OnlyMoves
    <2>3. coro'[f].linked # TRUE
      BY <1>0 DEF Calm, CopyInv
    <2>4. ASSUME NEW g \in Refreshers
          PROVE  LET r == coro'[g].src IN
                 /\ coro'[g].linked = TRUE => coro'[g].stage = "write" /\ target'[r] # Nothing
                 /\ coro'[g].stage \in {"open", "write"} =>
                      target'[r] \in {coro'[g].hash, Nothing} \/ r \in crossed'
      <3>1. CASE g = f
        BY <2>2, <2>3, <3>1
      <3>2. CASE g # f
        BY <1>0, <2>2, <3>2 DEF CopyInv
      <3> QED
        BY <3>1, <3>2
    <2>5. ASSUME Busy(f)
          PROVE  \A g, h \in Refreshers : g # h /\ Busy(g)' /\ Busy(h)' /\ coro'[g].src = coro'[h].src =>
                                       coro'[g].src \in crossed'
      BY <1>0, <2>2, <2>5 DEF CopyInv, Busy
    <2> QED
      BY <1>0, <2>1, <2>4, <2>5 DEF CopyInv
  <1>1. ASSUME NEW p \in Repos, NEW b \in Branches, Commit(p, b)
        PROVE  CopyInv' /\ StatsInv'
    BY <1>1 DEF Commit, CopyInv, StatsInv, HashTells, Busy
  <1>2. ASSUME NEW f \in Refreshers, NEW s \in Sources, Start(f, s)
        PROVE  CopyInv' /\ StatsInv'
    <2>1. /\ coro'[f].stage = "look" /\ coro'[f].src = s /\ coro'[f].linked = FALSE
          /\ \A g \in Refreshers \ {f} : LET c == coro[g] n == coro'[g] IN
               n.stage = c.stage /\ n.src = c.src /\ n.hash = c.hash /\ n.linked = c.linked
      BY <1>2, StartEffect, ZenonT(40)
    <2>2. /\ UNCHANGED <<target, gitstats>>
          /\ crossed \subseteq crossed'
          /\ (\E h \in Refreshers : Busy(h) /\ coro[h].src = s) => s \in crossed'
          /\ ~Busy(f)
      BY <1>2 DEF Start
    <2>3. CopyInv'
      BY <2>1, <2>2 DEF CopyInv, Busy
    <2>4. StatsInv'
      BY <2>2 DEF StatsInv, HashTells
    <2> QED
      BY <2>3, <2>4
  <1>3. ASSUME NEW f \in Refreshers, Refresh(f)
        PROVE  CopyInv' /\ StatsInv'
    <2>1. PICK s, d : s = coro[f].src /\ d = CloneDir(s)
      OBVIOUS
    <2>2. /\ s \in Sources /\ d \in Dirs /\ Busy(f)
          /\ UNCHANGED <<remote, crossed>>
          /\ \/ Waits(f, s) \/ LosesGit(f, d) \/ BreaksPull(f, s) \/ GetsTip(f, s, d)
             \/ Copy(f, s, d) \/ CopiesOnly(f, s, d) \/ OpenStats(f, s) \/ WriteStats(f, s)
      BY <1>3, <2>1, RefreshSteps
    <2>3. CASE Waits(f, s) \/ LosesGit(f, d) \/ BreaksPull(f, s)
      BY <1>0, <2>2, <2>3 DEF Waits, LosesGit, BreaksPull
    <2>4. CASE GetsTip(f, s, d)
      BY <2>1, <2>2, <2>4
      DEF GetsTip, Goes, Keeps, OnlyMoves, CopyInv, StatsInv, HashTells, Busy
    \* rsync has removed .gitstats: no one has that of s open any more.
    <2>5. ASSUME target' = [target EXCEPT ![s] = clone[d].tree],
                 gitstats' = [gitstats EXCEPT ![s] = Nothing],
                 clone[d].tree # Nothing,
                 OthersUnlink(f, s), coro'[f].linked = FALSE,
                 \/ coro'[f].stage = "idle"
                 \/ coro'[f].stage = "open" /\ coro'[f].src = s /\ coro'[f].hash = clone[d].tree
          PROVE  CopyInv' /\ StatsInv'
      <3>1. /\ target'[s] = clone[d].tree /\ gitstats'[s] = Nothing
            /\ \A r \in Sources \ {s} : target'[r] = target[r] /\ gitstats'[r] = gitstats[r]
        BY <2>2, <2>5
      <3>2. StatsInv'
        BY <2>2, <2>5, <3>1, GitAssumption DEF StatsInv, HashTells
      <3>3. \A g, h \in Refreshers : g # h /\ Busy(g)' /\ Busy(h)' /\ coro'[g].src = coro'[h].src =>
                                       coro'[g].src \in crossed
        BY <2>1, <2>2, <2>5 DEF OthersUnlink, CopyInv, Busy
      <3>4. ASSUME NEW g \in Refreshers \ {f}
            PROVE  LET r == coro'[g].src IN
                   /\ coro'[g].linked = TRUE => coro'[g].stage = "write" /\ target'[r] # Nothing
                   /\ coro'[g].stage \in {"open", "write"} =>
                        target'[r] \in {coro'[g].hash, Nothing} \/ r \in crossed
        <4>1. /\ coro'[g].stage = coro[g].stage /\ coro'[g].src = coro[g].src
              /\ coro'[g].hash = coro[g].hash
              /\ coro'[g].linked = TRUE => coro[g].linked = TRUE /\ coro[g].src # s
          BY <2>5 DEF OthersUnlink
        <4>2. /\ coro[g].linked = TRUE => coro[g].stage = "write" /\ target[coro[g].src] # Nothing
              /\ coro[g].stage \in {"open", "write"} =>
                   coro[g].src \in Sources /\ (target[coro[g].src] \in {coro[g].hash, Nothing} \/ coro[g].src \in crossed)
          BY DEF CopyInv, BusyHasSource, Busy
        <4>3. coro[g].stage \in {"open", "write"} /\ coro[g].src = s => s \in crossed
          BY <2>1, <2>2 DEF CopyInv, Busy
        <4> QED
          BY <3>1, <4>1, <4>2, <4>3
      <3> QED
        BY <2>1, <2>2, <2>5, <3>1, <3>2, <3>3, <3>4, ZenonT(40) DEF CopyInv, Busy
    <2>6. CASE Copy(f, s, d)
      <3>1. /\ target' = [target EXCEPT ![s] = clone[d].tree] /\ gitstats' = [gitstats EXCEPT ![s] = Nothing]
            /\ clone[d].tree # Nothing /\ clone[d].head # Nothing
        BY <2>6 DEF Copy
      <3>2. clone[d].head = clone[d].tree
        BY <2>2, <3>1 DEF CloneInv
      <3>3. /\ OthersUnlink(f, s) /\ coro'[f].linked = FALSE
            /\ coro'[f].stage = "open" /\ coro'[f].src = s /\ coro'[f].hash = clone[d].tree
        BY <2>1, <2>2, <2>6, <3>2, CopyEffect
      <3> QED
        BY <2>5, <3>1, <3>3
    <2>7. CASE CopiesOnly(f, s, d)
      <3>1. /\ target' = [target EXCEPT ![s] = clone[d].tree] /\ gitstats' = [gitstats EXCEPT ![s] = Nothing]
            /\ clone[d].tree # Nothing
        BY <2>7 DEF CopiesOnly, CopyFails
      <3>2. OthersUnlink(f, s) /\ coro'[f].linked = FALSE /\ coro'[f].stage = "idle"
        BY <2>1, <2>2, <2>7, CopyFailsEffect DEF CopiesOnly
      <3> QED
        BY <2>5, <3>1, <3>2
    <2>8. CASE OpenStats(f, s)
      <3>1. /\ coro[f].stage = "open" /\ target[s] # Nothing /\ UNCHANGED target
            /\ gitstats'[s] = EmptyFile /\ \A r \in Sources \ {s} : gitstats'[r] = gitstats[r]
        BY <2>2, <2>8 DEF OpenStats
      <3>2. /\ OnlyMoves(f) /\ coro'[f].stage = "write" /\ coro'[f].linked = TRUE
            /\ coro'[f].src = s /\ coro'[f].hash = coro[f].hash
        BY <2>1, <2>2, <2>8, OpenStatsEffect
      <3>3. CopyInv'
        BY <2>1, <2>2, <3>1, <3>2 DEF OnlyMoves, CopyInv, Busy
      <3>4. StatsInv'
        BY <2>2, <3>1, GitAssumption DEF StatsInv, HashTells
      <3> QED
        BY <3>3, <3>4
    <2>9. CASE WriteStats(f, s)
      <3>1. /\ coro[f].stage = "write" /\ UNCHANGED target
            /\ coro[f].linked = TRUE => gitstats'[s] = coro[f].hash
            /\ coro[f].linked # TRUE => gitstats'[s] = gitstats[s]
            /\ \A r \in Sources \ {s} : gitstats'[r] = gitstats[r]
        BY <2>2, <2>9, CoroType DEF WriteStats
      <3>2. OnlyMoves(f) /\ coro'[f].stage = "idle" /\ coro'[f].linked = FALSE
        BY <2>9, RestEffect, RestingFields DEF WriteStats
      <3>3. CopyInv'
        BY <2>2, <3>1, <3>2 DEF OnlyMoves, CopyInv, Busy
      <3>4. /\ coro[f].linked = TRUE => target[s] # Nothing
            /\ target[s] \in {coro[f].hash, Nothing} \/ s \in crossed
        BY <2>1, <2>2, <3>1 DEF CopyInv
      <3>5. StatsInv'
        BY <2>2, <3>1, <3>4 DEF StatsInv, HashTells
      <3> QED
        BY <3>3, <3>5
    <2> QED
      BY <2>2, <2>3, <2>4, <2>6, <2>7, <2>8, <2>9
  <1>4. ASSUME NEW s \in Sources, Delete(s)
        PROVE  CopyInv' /\ StatsInv'
    <2>1. \A g \in Refreshers : LET c == coro[g] n == coro'[g] IN
            /\ n.stage = c.stage /\ n.src = c.src /\ n.hash = c.hash
            /\ n.linked = TRUE => c.linked = TRUE /\ c.src # s
      BY <1>4, DeleteEffect
    <2>2. /\ target'[s] = Nothing /\ gitstats'[s] = Nothing /\ UNCHANGED crossed
          /\ \A r \in Sources \ {s} : target'[r] = target[r] /\ gitstats'[r] = gitstats[r]
      BY <1>4 DEF Delete
    <2>3. CopyInv'
      <3>1. ASSUME NEW g \in Refreshers
            PROVE  LET r == coro'[g].src IN
                   /\ coro'[g].linked = TRUE => coro'[g].stage = "write" /\ target'[r] # Nothing
                   /\ coro'[g].stage \in {"open", "write"} =>
                        target'[r] \in {coro'[g].hash, Nothing} \/ r \in crossed
        <4>1. /\ coro[g].linked = TRUE => coro[g].stage = "write" /\ target[coro[g].src] # Nothing
              /\ coro[g].stage \in {"open", "write"} =>
                   coro[g].src \in Sources /\ (target[coro[g].src] \in {coro[g].hash, Nothing} \/ coro[g].src \in crossed)
          BY DEF CopyInv, BusyHasSource, Busy
        <4> QED
          BY <2>1, <2>2, <4>1
      <3>2. \A g, h \in Refreshers : g # h /\ Busy(g)' /\ Busy(h)' /\ coro'[g].src = coro'[h].src =>
                                       coro'[g].src \in crossed
        <4>1. \A g \in Refreshers : coro'[g].stage = coro[g].stage /\ coro'[g].src = coro[g].src
          BY <2>1
        <4> QED
          BY <4>1 DEF CopyInv, Busy
      <3>3. UNCHANGED crossed
        BY <2>2
      <3> QED
        BY <3>1, <3>2, <3>3 DEF CopyInv
    <2>4. StatsInv'
      BY <2>2, GitAssumption DEF StatsInv, HashTells
    <2> QED
      BY <2>3, <2>4
  <1> QED
    BY <1>1, <1>2, <1>3, <1>4 DEF Next

-----------------------------------------------------------------------------
(* The undisturbed refreshes.  A quiet refresher that is under way is the   *)
(* only one, and one of a sparse source still finds what it found before.  *)

Healthy(f) ==
    LET s == coro[f].src IN
    /\ coro[f].stage # "clone"
    /\ coro[f].stage = "checkout" => (coro[f].found = TRUE <=> clone[s].git = TRUE)
    /\ coro[f].stage = "mkdir" => clone[s].head # Nothing
    /\ coro[f].stage = "open" => target[s] # Nothing

QuietInv ==
    \A f \in Refreshers :
        coro[f].quiet = TRUE =>
            /\ Busy(f) => \A g \in Refreshers \ {f} : ~Busy(g)
            /\ coro[f].src \in Sparse => Healthy(f)

\* A step of refresher f says nothing of the others: if they are quiet, they rest.
LEMMA QuietAlone ==
    ASSUME QuietInv, NEW f \in Refreshers, Busy(f),
           \A g \in Refreshers \ {f} :
               /\ coro'[g].stage = coro[g].stage /\ coro'[g].src = coro[g].src
               /\ coro'[g].quiet = coro[g].quiet,
           coro'[f].quiet = TRUE => coro[f].quiet = TRUE,
           coro'[f].quiet = TRUE /\ coro'[f].src \in Sparse => Healthy(f)'
    PROVE  QuietInv'
  <1>1. ASSUME NEW g \in Refreshers \ {f}, coro'[g].quiet = TRUE
        PROVE  ~Busy(g)' /\ Healthy(g)'
    <2>1. coro[g].quiet = TRUE /\ coro'[g].stage = coro[g].stage
      BY <1>1
    <2>2. ~Busy(g)
      BY <2>1 DEF QuietInv
    <2> QED
      BY <2>1, <2>2 DEF Busy, Healthy
  <1>2. coro'[f].quiet = TRUE => \A g \in Refreshers \ {f} : ~Busy(g)'
    BY DEF QuietInv, Busy
  <1> QED
    BY <1>1, <1>2 DEF QuietInv

\* A refresher that goes on spoils the quiet of nobody.
LEMMA GoesAlone ==
    ASSUME QuietInv, NEW f \in Refreshers, Busy(f), NEW st, Goes(f, st),
           coro[f].quiet = TRUE /\ coro[f].src \in Sparse => Healthy(f)'
    PROVE  QuietInv'
  BY QuietAlone DEF Goes, Keeps, OnlyMoves

\* Nor does one that ends.
LEMMA EndsAlone ==
    ASSUME QuietInv, NEW f \in Refreshers, Busy(f), NEW blameless, Ends(f, blameless)
    PROVE  QuietInv'
  BY QuietAlone DEF Ends, OnlyMoves, Healthy

\* No step breaks a clone directory of a sparse source for a refresh that follows
\* (_checkout, _copy, delete).
LEMMA QuietStep ==
    ASSUME TypeOK, BusyHasSource, CloneInv, QuietInv, Next
    PROVE  QuietInv'
  <1>1. ASSUME NEW p \in Repos, NEW b \in Branches, Commit(p, b)
        PROVE  QuietInv'
    BY <1>1 DEF Commit, QuietInv, Healthy, Busy
  <1>2. ASSUME NEW f \in Refreshers, NEW s \in Sources, Start(f, s)
        PROVE  QuietInv'
    <2>1. /\ coro'[f].stage = "look" /\ coro'[f].src = s
          /\ coro'[f].quiet = TRUE => \A g \in Refreshers : ~Busy(g)
      BY <1>2, StartEffect, Zenon
    <2>2. ASSUME NEW g \in Refreshers \ {f}
          PROVE  /\ coro'[g].stage = coro[g].stage /\ coro'[g].src = coro[g].src
                 /\ coro'[g].quiet = TRUE => coro[g].quiet = TRUE /\ ~Busy(g)
      BY <1>2, StartEffect, Zenon
    <2>3. ASSUME NEW g \in Refreshers \ {f}, coro'[g].quiet = TRUE
          PROVE  ~Busy(g)' /\ Healthy(g)'
      BY <2>2, <2>3 DEF Busy, Healthy
    <2>4. /\ coro'[f].quiet = TRUE => \A g \in Refreshers \ {f} : ~Busy(g)'
          /\ Healthy(f)'
      BY <2>1, <2>2 DEF Busy, Healthy
    <2> QED
      BY <2>3, <2>4 DEF QuietInv
  <1>3. ASSUME NEW f \in Refreshers, Refresh(f)
        PROVE  QuietInv'
    <2>1. PICK s, d : s = coro[f].src /\ d = CloneDir(s)
      OBVIOUS
    <2>2. /\ s \in Sources /\ Busy(f)
          /\ Checkout(f, s, d) \/ Publish(f, s, d)
      BY <1>3, <2>1, RefreshSource
    <2>3. d \in Dirs /\ (s \in Sparse => d = s)
      BY <2>1, <2>2, CloneDirType DEF CloneDir
    <2>5. Tip(s) # Nothing
      BY <2>2, TipType, GitAssumption
    <2>6. CASE Look(f, d)
      <3>1. clone[d].git \in BOOLEAN /\ "checkout" \in Stages
        BY <2>3, CloneType DEF Stages
      <3>2. Goes(f, "checkout") /\ coro'[f].found = clone[d].git /\ UNCHANGED clone
        BY <2>6, <3>1, GoEffect DEF Look
      <3>3. coro[f].src \in Sparse => Healthy(f)'
        BY <2>1, <2>3, <3>2 DEF Goes, Keeps, Healthy
      <3> QED
        BY <2>2, <3>2, <3>3, GoesAlone
    <2>7. CASE Fetch(f, s, d)
      <3>1. Goes(f, "mkdir") /\ clone'[d].head = Tip(s)
        BY <2>2, <2>3, <2>7, FetchEffect
      <3>2. coro[f].src \in Sparse => Healthy(f)'
        BY <2>1, <2>3, <2>5, <3>1 DEF Goes, Keeps, Healthy
      <3> QED
        BY <2>2, <3>1, <3>2, GoesAlone
    <2>8. CASE FetchFails(f, s, d)
      <3>1. OnlyMoves(f) /\ coro'[f].stage = "look" /\ (coro'[f].quiet = TRUE => coro[f].quiet = TRUE)
        BY <2>2, <2>3, <2>8, FetchFailsEffect, Zenon
      <3>2. Healthy(f)'
        BY <3>1 DEF Healthy
      <3> QED
        BY <2>2, <3>1, <3>2, QuietAlone DEF OnlyMoves
    <2>9. CASE FetchLost(f, d)
      BY <2>2, <2>9, FailEffect, EndsAlone DEF FetchLost, Fail
    <2>10. CASE SparseClone(f, s)
      <3>1. s \in Sparse
        BY <2>10, Zenon DEF SparseClone
      <3>2. Goes(f, "mkdir") /\ clone'[d].head = Tip(s)
        BY <2>2, <2>3, <2>10, <3>1, SparseCloneEffect DEF CloneDir
      <3>3. coro[f].src \in Sparse => Healthy(f)'
        BY <2>1, <2>3, <2>5, <3>2 DEF Goes, Keeps, Healthy
      <3> QED
        BY <2>2, <3>2, <3>3, GoesAlone
    <2>11. CASE SparseCloneFails(f, s)
      <3>1. \E blameless \in BOOLEAN : coro' = [coro EXCEPT ![f] = Failed(@, blameless)]
        BY <2>11 DEF SparseCloneFails, Fail, Clashes
      <3> QED
        BY <2>2, <3>1, FailEffect, EndsAlone
    <2>12. CASE Exists(f, s, d)
      <3>1. clone[d].dir \in BOOLEAN /\ "clone" \in Stages
        BY <2>3, CloneType DEF Stages
      <3>2. Goes(f, "clone") /\ s \notin Sparse
        BY <2>12, <3>1, GoEffect DEF Exists
      <3> QED
        BY <2>1, <2>2, <3>2, GoesAlone
    <2>13. CASE Clone(f, s, d)
      <3>1. coro[f].stage = "clone"
        BY <2>13 DEF Clone
      <3>2. coro[f].src \notin Sparse
        BY <3>1 DEF CloneInv
      <3>3. Goes(f, "mkdir")
        BY <2>13, GoEffect DEF Clone, Go, Stages
      <3> QED
        BY <2>2, <3>2, <3>3, GoesAlone
    <2>14. CASE CloneFails(f, d)
      <3>1. coro[f].stage = "clone" /\ (coro[f].found \/ clone[d].dir) \in BOOLEAN
        BY <2>14, Zenon DEF CloneFails
      <3>2. Ends(f, coro[f].found \/ clone[d].dir)
        BY <2>14, <3>1, FailEffect, Zenon DEF CloneFails
      <3> QED
        BY <2>2, <3>2, EndsAlone
    <2>15. CASE Copy(f, s, d)
      <3>1. /\ OthersUnlink(f, s) /\ coro'[f].stage = "open" /\ coro'[f].src = s
            /\ coro'[f].quiet = coro[f].quiet
        BY <2>1, <2>2, <2>3, <2>15, CopyEffect
      <3>2. target'[s] # Nothing
        BY <2>2, <2>15, TypeParts DEF Copy
      <3> QED
        BY <2>2, <3>1, <3>2, QuietAlone DEF OthersUnlink, Healthy
    <2>16. CASE CopyFails(f, s, d)
      <3>1. CASE clone[d].tree = Nothing
        BY <2>2, <2>16, <3>1, FailEffect, EndsAlone DEF CopyFails, Fail
      <3>2. CASE clone[d].tree # Nothing
        <4>1. /\ OthersUnlink(f, s) /\ coro'[f].stage = "idle"
              /\ coro'[f].quiet = TRUE => coro[f].quiet = TRUE
          BY <2>1, <2>2, <2>16, <3>2, CopyFailsEffect
        <4> QED
          BY <2>2, <4>1, QuietAlone DEF OthersUnlink, Healthy
      <3> QED
        BY <3>1, <3>2
    <2>17. CASE OpenStats(f, s)
      BY <2>1, <2>2, <2>17, OpenStatsEffect, QuietAlone DEF OnlyMoves, Healthy
    <2>18. CASE OpenFails(f, s)
      BY <2>2, <2>18, FailEffect, EndsAlone DEF OpenFails, Fail
    <2>19. CASE WriteStats(f, s)
      BY <2>2, <2>19, RestEffect, EndsAlone DEF WriteStats
    <2> QED
      BY <2>2, <2>6, <2>7, <2>8, <2>9, <2>10, <2>11, <2>12, <2>13, <2>14, <2>15, <2>16, <2>17,
         <2>18, <2>19 DEF Checkout, Publish
  <1>4. ASSUME NEW s \in Sources, Delete(s)
        PROVE  QuietInv'
    <2>1. ASSUME NEW g \in Refreshers
          PROVE  /\ coro'[g].stage = coro[g].stage /\ coro'[g].src = coro[g].src
                 /\ coro'[g].quiet = TRUE => coro[g].quiet = TRUE /\ ~Busy(g)
      BY <1>4, DeleteEffect, Zenon
    <2>2. ASSUME NEW g \in Refreshers, coro'[g].quiet = TRUE
          PROVE  ~Busy(g)' /\ Healthy(g)'
      BY <2>1, <2>2 DEF Busy, Healthy
    <2> QED
      BY <2>2 DEF QuietInv
  <1> QED
    BY <1>1, <1>2, <1>3, <1>4 DEF Next

\* A quiet refresh of a sparse source fails only where git refuses to write over
\* leftover files: it finds the clone directory that it saw (_checkout, _copy).
LEMMA HealRefresh ==
    ASSUME TypeOK, BusyHasSource, CloneInv, QuietInv, NEW f \in Refreshers, Refresh(f),
           NEW s, s = coro[f].src, s \in Sparse, coro'[f].quiet = TRUE, coro'[f].stage = "idle"
    PROVE  Clashes(s, Tip(s))
  <1>1. PICK d : d = CloneDir(s)
    OBVIOUS
  <1>2. /\ s \in Sources /\ d \in Dirs /\ d = s
        /\ Checkout(f, s, d) \/ Publish(f, s, d)
    BY <1>1, RefreshSource, CloneDirType DEF CloneDir
  <1>3. /\ clone[d].dir \in BOOLEAN /\ clone[d].git \in BOOLEAN
        /\ coro[f].found \in BOOLEAN /\ clone[d].git = TRUE => clone[d].dir = TRUE
    BY <1>2, CloneType, CoroType DEF CloneInv
  \* It was quiet before, and so its clone directory is as it found it.
  <1>4. ASSUME NEW blameless, Ends(f, blameless)
        PROVE  blameless /\ Healthy(f)
    BY <1>4 DEF Ends, QuietInv
  <1>5. ASSUME NEW st, Goes(f, st), st # "idle"
        PROVE  FALSE
    BY <1>5 DEF Goes
  <1>6. CASE Look(f, d)
    <2>1. Goes(f, "checkout")
      BY <1>3, <1>6, GoEffect DEF Look, Stages
    <2> QED
      BY <1>5, <2>1
  <1>7. CASE Fetch(f, s, d)
    BY <1>2, <1>5, <1>7, FetchEffect
  <1>8. CASE FetchFails(f, s, d)
    BY <1>2, <1>8, FetchFailsEffect
  <1>9. CASE FetchLost(f, d)
    <2>1. Healthy(f)
      BY <1>4, <1>9, FailEffect DEF FetchLost, Fail
    <2> QED
      BY <1>2, <1>3, <1>9, <2>1 DEF FetchLost, Healthy
  <1>10. CASE SparseClone(f, s)
    <2>1. Goes(f, "mkdir")
      BY <1>10, GoEffect DEF SparseClone, Go, Stages
    <2> QED
      BY <1>5, <2>1
  <1>11. CASE SparseCloneFails(f, s)
    <2>1. CASE clone[s].git /\ Fail(f)
      <3>1. Healthy(f)
        BY <1>4, <2>1, FailEffect DEF Fail
      <3> QED
        BY <1>2, <1>3, <1>11, <2>1, <3>1 DEF SparseCloneFails, Healthy
    <2>2. CASE ~(clone[s].git /\ Fail(f))
      <3>1. coro' = [coro EXCEPT ![f] = Failed(@, Clashes(s, Tip(s)))]
        BY <1>11, <2>2 DEF SparseCloneFails
      <3>2. Clashes(s, Tip(s)) \in BOOLEAN
        BY DEF Clashes
      <3> QED
        BY <1>4, <3>1, <3>2, FailEffect
    <2> QED
      BY <2>1, <2>2
  <1>12. CASE Exists(f, s, d)
    BY <1>12 DEF Exists
  <1>13. CASE Clone(f, s, d) \/ CloneFails(f, d)
    <2>1. coro[f].stage = "clone"
      BY <1>13 DEF Clone, CloneFails
    <2> QED
      BY <2>1 DEF CloneInv
  <1>14. CASE Copy(f, s, d)
    BY <1>2, <1>14, CopyEffect
  <1>15. CASE CopyFails(f, s, d)
    <2>1. coro[f].stage = "mkdir" /\ (clone[d].tree = Nothing \/ clone[d].head = Nothing)
      BY <1>15 DEF CopyFails
    <2>2. coro[f].quiet = TRUE
      <3>1. CASE clone[d].tree = Nothing
        BY <1>15, <3>1, FailEffect DEF CopyFails, Fail, Ends
      <3>2. CASE clone[d].tree # Nothing
        BY <1>2, <1>15, <3>2, CopyFailsEffect
      <3> QED
        BY <3>1, <3>2
    <2> QED
      BY <1>2, <2>1, <2>2 DEF QuietInv, Healthy, CloneInv
  <1>16. CASE OpenStats(f, s)
    BY <1>2, <1>16, OpenStatsEffect
  <1>17. CASE OpenFails(f, s)
    <2>1. Healthy(f)
      BY <1>4, <1>17, FailEffect DEF OpenFails, Fail
    <2> QED
      BY <1>17, <2>1 DEF OpenFails, Healthy
  <1>18. CASE WriteStats(f, s)
    BY <1>4, <1>18, RestEffect DEF WriteStats
  <1> QED
    BY <1>2, <1>6, <1>7, <1>8, <1>9, <1>10, <1>11, <1>12, <1>13, <1>14, <1>15, <1>16, <1>17, <1>18
    DEF Checkout, Publish

\* Nothing else makes it fail (refresh, delete).
LEMMA HealStep ==
    ASSUME TypeOK, BusyHasSource, CloneInv, QuietInv, [Next]_vars, NEW f \in Refreshers,
           Busy(f), coro[f].src \in Sparse, coro'[f].quiet = TRUE, ~Busy(f)'
    PROVE  Clashes(coro[f].src, Tip(coro[f].src))
  <1>1. coro'[f].stage = "idle" /\ coro[f].stage # "idle"
    BY DEF Busy
  <1>2. CASE UNCHANGED vars
    BY <1>1, <1>2 DEF vars
  <1>3. CASE \E p \in Repos, b \in Branches : Commit(p, b)
    BY <1>1, <1>3 DEF Commit
  <1>4. ASSUME NEW g \in Refreshers, NEW s \in Sources, Start(g, s)
        PROVE  FALSE
    BY <1>1, <1>4, StartEffect
  <1>5. ASSUME NEW s \in Sources, Delete(s)
        PROVE  FALSE
    BY <1>1, <1>5, DeleteEffect
  <1>6. ASSUME NEW g \in Refreshers, Refresh(g)
        PROVE  Clashes(coro[f].src, Tip(coro[f].src))
    <2>1. CASE g = f
      BY <1>1, <1>6, <2>1, HealRefresh
    <2>2. CASE g # f
      <3>1. PICK s, d : s = coro[g].src /\ d = CloneDir(s)
        OBVIOUS
      <3>2. /\ s \in Sources /\ d \in Dirs
            /\ \/ Waits(g, s) \/ LosesGit(g, d) \/ BreaksPull(g, s) \/ GetsTip(g, s, d)
               \/ Copy(g, s, d) \/ CopiesOnly(g, s, d) \/ OpenStats(g, s) \/ WriteStats(g, s)
        BY <1>6, <3>1, RefreshSteps
      <3>3. OnlyMoves(g) \/ OthersUnlink(g, s)
        <4>1. CASE Waits(g, s) \/ LosesGit(g, d) \/ BreaksPull(g, s) \/ GetsTip(g, s, d)
          BY <4>1 DEF Waits, LosesGit, BreaksPull, GetsTip, Calm, Goes
        <4>2. CASE Copy(g, s, d) \/ CopiesOnly(g, s, d)
          BY <3>1, <3>2, <4>2, CopyEffect, CopyFailsEffect DEF CopiesOnly
        <4>3. CASE OpenStats(g, s) \/ WriteStats(g, s)
          BY <3>2, <4>3, OpenStatsEffect, RestEffect DEF WriteStats
        <4> QED
          BY <3>2, <4>1, <4>2, <4>3
      <3>4. coro'[f].stage = coro[f].stage
        BY <2>2, <3>3 DEF OnlyMoves, OthersUnlink
      <3> QED
        BY <1>1, <3>4
    <2> QED
      BY <2>1, <2>2
  <1> QED
    BY <1>2, <1>3, <1>4, <1>5, <1>6 DEF Next

-----------------------------------------------------------------------------
(* The revisions, where the sources that share a clone follow one branch:   *)
(* what a refresher holds and what is published never runs ahead of the     *)
(* working tree, nor the working tree of the remote.                        *)

OneBranchPerClone ==
    \A s, t \in Sources : CloneDir(s) = CloneDir(t) => Branch[s] = Branch[t]

Tree(s) == clone[CloneDir(s)].tree

SourceFresh(s) ==
    /\ Tree(s) # Nothing => Tree(s).branch = Branch[s] /\ Tree(s).n <= Tip(s).n
    /\ target[s] # Nothing => target[s].branch = Branch[s] /\ target[s].n <= Tip(s).n
    /\ target[s] # Nothing /\ Tree(s) # Nothing => target[s].n <= Tree(s).n
    /\ gitstats[s] \in Revs => gitstats[s].n <= target[s].n
CoroFresh(f) ==
    LET s == coro[f].src IN
    /\ Busy(f) => coro[f].asked <= Tip(s).n
    /\ coro[f].stage \in {"mkdir", "open", "write"} /\ Tree(s) # Nothing => coro[f].asked <= Tree(s).n
    /\ coro[f].stage \in {"open", "write"} =>
         /\ coro[f].hash # Nothing /\ coro[f].hash.n <= Tip(s).n
         /\ Tree(s) # Nothing => coro[f].hash.n <= Tree(s).n
         /\ target[s] # Nothing => coro[f].hash.n <= target[s].n /\ coro[f].asked <= target[s].n
FreshInv ==
    /\ \A s \in Sources : SourceFresh(s)
    /\ \A f \in Refreshers : CoroFresh(f)

\* Revisions are numbered.
LEMMA RevNumber == ASSUME NEW r \in Revs PROVE r.n \in 0..MaxCommits /\ r.n <= r.n
  BY GitAssumption DEF Revs

\* Sources on one branch have one tip.
LEMMA SameTip ==
    ASSUME OneBranchPerClone, NEW s \in Sources, NEW t \in Sources, CloneDir(s) = CloneDir(t)
    PROVE  Tip(s) = Tip(t)
  BY GitAssumption DEF OneBranchPerClone, CloneDir, Tip

\* What of the state the invariant depends on, for one source or one refresher.
LEMMA SourceStays ==
    ASSUME NEW s \in Sources, SourceFresh(s), UNCHANGED remote, Tree(s)' \in {Tree(s), Nothing},
           target'[s] \in {target[s], Nothing},
           gitstats'[s] \in Revs => gitstats'[s] = gitstats[s] /\ target'[s] = target[s]
    PROVE  SourceFresh(s)'
  BY DEF SourceFresh, Tip

\* What keeps a refresher fresh.
LEMMA CoroStays ==
    ASSUME NEW f \in Refreshers, BusyHasSource, CoroFresh(f), UNCHANGED remote,
           coro'[f].stage = coro[f].stage, coro'[f].src = coro[f].src,
           coro'[f].hash = coro[f].hash, coro'[f].asked = coro[f].asked,
           \A s \in Sources : Tree(s)' \in {Tree(s), Nothing} /\ target'[s] \in {target[s], Nothing}
    PROVE  CoroFresh(f)'
  <1>1. CASE ~Busy(f)
    BY <1>1 DEF CoroFresh, Busy
  <1>2. CASE Busy(f)
    <2>1. coro[f].src \in Sources
      BY <1>2 DEF BusyHasSource
    <2> QED
      BY <1>2, <2>1 DEF CoroFresh, Busy, Tip
  <1> QED
    BY <1>1, <1>2

\* Two fetches into one clone, a copy beside them, a deletion and a new clone, a
\* push: none makes a content or a hash run ahead (_checkout, _copy, delete).
LEMMA FreshStep ==
    ASSUME OneBranchPerClone, TypeOK, BusyHasSource, CloneInv, CopyInv, StatsInv, FreshInv, Next
    PROVE  FreshInv'
  <1>0. \A s \in Sources : /\ Tree(s) \in Revs \cup {Nothing} /\ target[s] \in Revs \cup {Nothing}
                           /\ gitstats[s] \in Revs \cup {Nothing, EmptyFile}
                           /\ Tip(s) \in Revs
    BY CloneDirType, CloneType, TipType, TypeParts DEF Tree
  <1>1. ASSUME NEW p \in Repos, NEW b \in Branches, Commit(p, b)
        PROVE  FreshInv'
    <2>1. UNCHANGED <<clone, target, gitstats, coro>>
      BY <1>1 DEF Commit
    <2>2. ASSUME NEW s \in Sources, NEW n \in 0..MaxCommits, n <= Tip(s).n
          PROVE  n <= Tip(s)'.n
      <3>1. Repo[s] \in Repos /\ Branch[s] \in Branches
        BY GitAssumption DEF Branches
      <3>2. remote[Repo[s]][Branch[s]] \in 0..MaxCommits
        BY <3>1, TypeParts
      <3>3. remote'[Repo[s]][Branch[s]] \in {remote[Repo[s]][Branch[s]], remote[Repo[s]][Branch[s]] + 1}
        BY <1>1, <3>1, TypeParts DEF Commit
      <3> QED
        BY <2>2, <3>2, <3>3, GitAssumption DEF Tip
    <2>3. ASSUME NEW s \in Sources
          PROVE  SourceFresh(s)'
      BY <1>0, <2>1, <2>2, RevNumber DEF FreshInv, SourceFresh, Tree
    <2>4. ASSUME NEW f \in Refreshers
          PROVE  CoroFresh(f)'
      <3>1. CASE ~Busy(f)
        BY <2>1, <3>1 DEF CoroFresh, Busy
      <3>2. CASE Busy(f)
        <4>1. coro[f].src \in Sources
          BY <3>2 DEF BusyHasSource
        <4>2. coro[f].asked \in 0..MaxCommits /\ coro[f].hash \in Revs \cup {Nothing}
          BY CoroType
        <4> QED
          BY <2>1, <2>2, <3>2, <4>1, <4>2, RevNumber DEF FreshInv, CoroFresh, Tree, Busy
      <3> QED
        BY <3>1, <3>2
    <2> QED
      BY <2>3, <2>4 DEF FreshInv
  <1>2. ASSUME NEW f \in Refreshers, NEW s \in Sources, Start(f, s)
        PROVE  FreshInv'
    <2>1. UNCHANGED <<remote, clone, target, gitstats>>
      BY <1>2 DEF Start
    <2>2. /\ coro'[f].stage = "look" /\ coro'[f].src = s /\ coro'[f].asked = Tip(s).n
          /\ \A g \in Refreshers \ {f} : LET c == coro[g] n == coro'[g] IN
               n.stage = c.stage /\ n.src = c.src /\ n.hash = c.hash /\ n.asked = c.asked
      BY <1>2, StartEffect
    <2>3. \A t \in Sources : SourceFresh(t)'
      BY <2>1 DEF FreshInv, SourceFresh, Tree, Tip
    <2>4. \A g \in Refreshers \ {f} : CoroFresh(g)'
      BY <2>1, <2>2, CoroStays DEF FreshInv, Tree
    <2>5. CoroFresh(f)'
      BY <1>0, <2>1, <2>2, RevNumber DEF CoroFresh, Busy, Tip
    <2> QED
      BY <2>3, <2>4, <2>5 DEF FreshInv
  <1>3. ASSUME NEW f \in Refreshers, Refresh(f)
        PROVE  FreshInv'
    <2>1. PICK s, d : s = coro[f].src /\ d = CloneDir(s)
      OBVIOUS
    <2>2. /\ s \in Sources /\ d \in Dirs /\ Busy(f)
          /\ UNCHANGED <<remote, crossed>>
          /\ \/ Waits(f, s) \/ LosesGit(f, d) \/ BreaksPull(f, s) \/ GetsTip(f, s, d)
             \/ Copy(f, s, d) \/ CopiesOnly(f, s, d) \/ OpenStats(f, s) \/ WriteStats(f, s)
      BY <1>3, <2>1, RefreshSteps
    <2>3. SourceFresh(s) /\ CoroFresh(f)
      BY <2>2 DEF FreshInv
    <2>4. CASE Waits(f, s) \/ LosesGit(f, d) \/ BreaksPull(f, s)
      <3>1. Calm(f) /\ UNCHANGED <<target, gitstats>>
        BY <2>4 DEF Waits, LosesGit, BreaksPull
      <3>2. \A e \in Dirs : clone'[e].tree = clone[e].tree
        BY <2>4 DEF Waits, LosesGit, BreaksPull, OnlyClone
      <3>3. \A t \in Sources : Tree(t)' = Tree(t)
        BY <3>2, CloneDirType DEF Tree
      <3>4. \A t \in Sources : SourceFresh(t)'
        BY <2>2, <3>1, <3>3, SourceStays DEF FreshInv
      <3>5. \A g \in Refreshers \ {f} : CoroFresh(g)'
        BY <2>2, <3>1, <3>3, CoroStays DEF FreshInv, Calm, OnlyMoves
      <3>6. CoroFresh(f)'
        BY <2>1, <2>2, <2>3, <3>1 DEF CoroFresh, Calm, Busy, Tip
      <3> QED
        BY <3>4, <3>5, <3>6 DEF FreshInv
    <2>5. CASE GetsTip(f, s, d)
      <3>1. /\ Goes(f, "mkdir") /\ UNCHANGED <<target, gitstats>>
            /\ clone'[d].tree = Tip(s) /\ \A e \in Dirs \ {d} : clone'[e] = clone[e]
        BY <2>5 DEF GetsTip, OnlyClone
      <3>2. \A t \in Sources : Tree(t)' \in {Tip(t), Tree(t)}
        BY <2>1, <2>2, <3>1, CloneDirType, SameTip DEF Tree
      <3>3. Tree(s)' = Tip(s)
        BY <2>1, <3>1 DEF Tree
      <3>4. ASSUME NEW t \in Sources
            PROVE  SourceFresh(t)'
        <4>1. Tip(t).branch = Branch[t] /\ Tip(t).n <= Tip(t).n /\ Tip(t)' = Tip(t)
          BY <1>0, <2>2, TipType, RevNumber DEF Tip
        <4> QED
          BY <3>1, <3>2, <4>1 DEF FreshInv, SourceFresh
      <3>5. ASSUME NEW g \in Refreshers \ {f}
            PROVE  CoroFresh(g)'
        <4>1. coro'[g] = coro[g] /\ CoroFresh(g)
          BY <3>1 DEF Goes, OnlyMoves, FreshInv
        <4>2. CASE ~Busy(g)
          BY <4>1, <4>2 DEF CoroFresh, Busy
        <4>3. CASE Busy(g)
          <5>1. coro[g].src \in Sources
            BY <4>3 DEF BusyHasSource
          <5>2. Tip(coro[g].src)' = Tip(coro[g].src)'
            BY <2>2 DEF Tip
          <5> QED
            BY <2>2, <3>1, <3>2, <4>1, <4>3, <5>1 DEF CoroFresh, Busy, Tip
        <4> QED
          BY <4>2, <4>3
      <3>6. CoroFresh(f)'
        BY <2>1, <2>2, <2>3, <3>1, <3>3 DEF CoroFresh, Goes, Keeps, Busy, Tip
      <3> QED
        BY <3>4, <3>5, <3>6 DEF FreshInv
    \* rsync has copied the working tree, which is not older than what is copied before.
    <2>6. ASSUME target'[s] = clone[d].tree, gitstats'[s] = Nothing, clone[d].tree # Nothing,
                 \A t \in Sources \ {s} : target'[t] = target[t] /\ gitstats'[t] = gitstats[t],
                 UNCHANGED clone, OthersUnlink(f, s), CoroFresh(f)'
          PROVE  FreshInv'
      <3>1. \A t \in Sources : Tree(t)' = Tree(t) /\ Tip(t)' = Tip(t)
        BY <2>2, <2>6 DEF Tree, Tip
      <3>2. Tree(s) = clone[d].tree /\ Tree(s).n <= Tree(s).n
        BY <1>0, <2>1, <2>2, <2>6, RevNumber DEF Tree
      <3>3. SourceFresh(s)'
        BY <2>2, <2>3, <2>6, <3>1, <3>2, GitAssumption DEF SourceFresh
      <3>4. \A t \in Sources \ {s} : SourceFresh(t)'
        BY <2>2, <2>6, <3>1, SourceStays DEF FreshInv
      <3>5. ASSUME NEW g \in Refreshers \ {f}
            PROVE  CoroFresh(g)'
        <4>1. /\ coro'[g].stage = coro[g].stage /\ coro'[g].src = coro[g].src
              /\ coro'[g].hash = coro[g].hash /\ coro'[g].asked = coro[g].asked
              /\ CoroFresh(g)
          BY <2>6 DEF OthersUnlink, FreshInv
        <4>2. CASE ~Busy(g)
          BY <4>1, <4>2 DEF CoroFresh, Busy
        <4>3. CASE Busy(g)
          <5>1. coro[g].src \in Sources
            BY <4>3 DEF BusyHasSource
          <5> QED
            BY <2>6, <3>1, <3>2, <4>1, <4>3, <5>1 DEF CoroFresh, Busy
        <4> QED
          BY <4>2, <4>3
      <3> QED
        BY <2>6, <3>3, <3>4, <3>5 DEF FreshInv
    <2>7. CASE Copy(f, s, d)
      <3>1. /\ target'[s] = clone[d].tree /\ gitstats'[s] = Nothing /\ UNCHANGED clone
            /\ clone[d].tree # Nothing /\ clone[d].head # Nothing /\ coro[f].stage = "mkdir"
            /\ \A t \in Sources \ {s} : target'[t] = target[t] /\ gitstats'[t] = gitstats[t]
        BY <2>2, <2>7, TypeParts DEF Copy
      <3>2. clone[d].head = clone[d].tree /\ clone[d].tree = Tree(s)
        BY <2>1, <2>2, <3>1 DEF CloneInv, Tree
      <3>3. /\ OthersUnlink(f, s) /\ coro'[f].stage = "open" /\ coro'[f].hash = clone[d].head
            /\ coro'[f].src = s /\ coro'[f].asked = coro[f].asked
        BY <2>1, <2>2, <2>7, CopyEffect
      <3>4. Tree(s)' = Tree(s) /\ Tip(s)' = Tip(s) /\ Tree(s).n <= Tree(s).n
        BY <1>0, <2>2, <3>1, <3>2, RevNumber DEF Tree, Tip
      <3>5. CoroFresh(f)'
        BY <2>1, <2>2, <2>3, <3>1, <3>2, <3>3, <3>4 DEF CoroFresh, SourceFresh, Busy
      <3> QED
        BY <2>6, <3>1, <3>3, <3>5
    <2>8. CASE CopiesOnly(f, s, d)
      <3>1. /\ target'[s] = clone[d].tree /\ gitstats'[s] = Nothing /\ UNCHANGED clone
            /\ clone[d].tree # Nothing
            /\ \A t \in Sources \ {s} : target'[t] = target[t] /\ gitstats'[t] = gitstats[t]
        BY <2>2, <2>8, TypeParts DEF CopiesOnly, CopyFails
      <3>2. OthersUnlink(f, s) /\ coro'[f].stage = "idle"
        BY <2>1, <2>2, <2>8, CopyFailsEffect DEF CopiesOnly
      <3> QED
        BY <2>6, <3>1, <3>2 DEF CoroFresh, Busy
    <2>9. CASE OpenStats(f, s)
      <3>1. /\ coro[f].stage = "open" /\ UNCHANGED <<clone, target>>
            /\ gitstats'[s] = EmptyFile /\ \A t \in Sources \ {s} : gitstats'[t] = gitstats[t]
        BY <2>2, <2>9, TypeParts DEF OpenStats
      <3>2. /\ OnlyMoves(f) /\ coro'[f].stage = "write"
            /\ coro'[f].src = s /\ coro'[f].hash = coro[f].hash /\ coro'[f].asked = coro[f].asked
        BY <2>1, <2>2, <2>9, OpenStatsEffect
      <3>3. \A t \in Sources : SourceFresh(t)'
        BY <2>2, <3>1, SourceStays, GitAssumption DEF FreshInv, Tree
      <3>4. \A g \in Refreshers \ {f} : CoroFresh(g)'
        BY <2>2, <3>1, <3>2, CoroStays DEF FreshInv, OnlyMoves, Tree
      <3>5. CoroFresh(f)'
        BY <2>1, <2>2, <2>3, <3>1, <3>2 DEF CoroFresh, Busy, Tree, Tip
      <3> QED
        BY <3>3, <3>4, <3>5 DEF FreshInv
    <2>10. CASE WriteStats(f, s)
      <3>1. /\ coro[f].stage = "write" /\ UNCHANGED <<clone, target>>
            /\ \A t \in Sources \ {s} : gitstats'[t] = gitstats[t]
            /\ gitstats'[s] = gitstats[s] \/ (coro[f].linked = TRUE /\ gitstats'[s] = coro[f].hash)
        BY <2>2, <2>10, TypeParts, CoroType DEF WriteStats
      <3>2. OnlyMoves(f) /\ coro'[f].stage = "idle"
        BY <2>10, RestEffect, RestingFields DEF WriteStats
      <3>3. coro[f].linked = TRUE => target[s] # Nothing
        BY <2>1 DEF CopyInv
      <3>4. SourceFresh(s)'
        BY <2>1, <2>2, <2>3, <3>1, <3>3 DEF SourceFresh, CoroFresh, Tree, Tip
      <3>5. \A t \in Sources \ {s} : SourceFresh(t)'
        BY <2>2, <3>1, SourceStays DEF FreshInv, Tree
      <3>6. \A g \in Refreshers \ {f} : CoroFresh(g)'
        BY <2>2, <3>1, <3>2, CoroStays DEF FreshInv, OnlyMoves, Tree
      <3>7. CoroFresh(f)'
        BY <3>2 DEF CoroFresh, Busy
      <3> QED
        BY <3>4, <3>5, <3>6, <3>7 DEF FreshInv
    <2> QED
      BY <2>2, <2>4, <2>5, <2>7, <2>8, <2>9, <2>10
  <1>4. ASSUME NEW s \in Sources, Delete(s)
        PROVE  FreshInv'
    <2>1. \A g \in Refreshers : LET c == coro[g] n == coro'[g] IN
            n.stage = c.stage /\ n.src = c.src /\ n.hash = c.hash /\ n.asked = c.asked
      BY <1>4, DeleteEffect
    <2>2. /\ target'[s] = Nothing /\ gitstats'[s] = Nothing /\ UNCHANGED remote
          /\ \A t \in Sources \ {s} : target'[t] = target[t] /\ gitstats'[t] = gitstats[t]
      BY <1>4, TypeParts DEF Delete
    <2>3. clone'[CloneDir(s)] = NoClone /\ \A e \in Dirs \ {CloneDir(s)} : clone'[e] = clone[e]
      BY <1>4, CloneDirType, TypeParts DEF Delete
    <2>4. \A t \in Sources : Tree(t)' \in {Tree(t), Nothing}
      BY <2>3, CloneDirType, NoCloneFields DEF Tree
    <2>5. \A t \in Sources : SourceFresh(t)'
      BY <2>2, <2>4, SourceStays, GitAssumption DEF FreshInv
    <2>6. \A g \in Refreshers : CoroFresh(g)'
      BY <2>1, <2>2, <2>4, CoroStays DEF FreshInv
    <2> QED
      BY <2>5, <2>6 DEF FreshInv
  <1> QED
    BY <1>1, <1>2, <1>3, <1>4 DEF Next

-----------------------------------------------------------------------------
(* The theorems.                                                           *)

\* The parts of the inductive invariant that hold for all sources.
GitInv == TypeOK /\ BusyHasSource /\ CloneInv /\ LeftInv /\ CopyInv /\ StatsInv /\ QuietInv

\* The invariant holds at the start.
LEMMA GitInit ==
    ASSUME Init
    PROVE  GitInv /\ FreshInv
  <1>1. \A f \in Refreshers : /\ coro[f] = Resting /\ coro[f].stage = "idle" /\ coro[f].linked = FALSE
                              /\ coro[f].quiet = FALSE /\ coro[f] \in Coros
    BY RestingFields DEF Init
  <1>2. \A d \in Dirs : clone[d] = NoClone
    BY DEF Init
  <1>3. TypeOK
    <2>1. coro \in [Refreshers -> Coros] /\ clone \in [Dirs -> Clones]
      BY <1>1, NoCloneFields DEF Init
    <2>2. /\ remote \in [Repos -> [Branches -> 0..MaxCommits]]
          /\ target \in [Sources -> Revs \cup {Nothing}] /\ extra \in [Sources -> SUBSET Names]
          /\ gitstats \in [Sources -> Revs \cup {Nothing, EmptyFile}]
          /\ crossed \subseteq Sources
      BY GitAssumption DEF Init
    <2> QED
      BY <2>1, <2>2 DEF TypeOK, Coros, Clones
  <1>4. BusyHasSource /\ CopyInv /\ QuietInv
    BY <1>1 DEF BusyHasSource, CopyInv, QuietInv, Busy
  <1>5. CloneInv /\ LeftInv
    BY <1>1, <1>2, NoCloneFields DEF CloneInv, LeftInv, Init
  <1>6. StatsInv
    BY GitAssumption DEF Init, StatsInv, HashTells
  <1>7. FreshInv
    <2>1. \A s \in Sources : Tree(s) = Nothing /\ target[s] = Nothing /\ gitstats[s] = Nothing
      BY <1>2, NoCloneFields, CloneDirType DEF Init, Tree
    <2> QED
      BY <1>1, <2>1, GitAssumption DEF FreshInv, SourceFresh, CoroFresh, Busy
  <1> QED
    BY <1>3, <1>4, <1>5, <1>6, <1>7 DEF GitInv

\* Every step keeps it.
LEMMA GitStep ==
    ASSUME GitInv, [Next]_vars
    PROVE  GitInv'
  <1>1. CASE Next
    BY <1>1, TypeStep, CloneStep, LeftStep, CopyStep, QuietStep DEF GitInv
  <1>2. CASE UNCHANGED vars
    <2>1. TypeOK' /\ BusyHasSource'
      BY <1>2 DEF GitInv, vars, TypeOK, BusyHasSource, Busy
    <2>2. CloneInv' /\ LeftInv' /\ CopyInv' /\ StatsInv'
      BY <1>2 DEF GitInv, vars, CloneInv, LeftInv, CopyInv, StatsInv, HashTells, Busy
    <2>3. QuietInv'
      BY <1>2 DEF GitInv, vars, QuietInv, Healthy, Busy
    <2> QED
      BY <2>1, <2>2, <2>3 DEF GitInv
  <1> QED
    BY <1>1, <1>2

\* It always holds.
LEMMA GitCorrect == Spec => []GitInv
  <1>1. Init => GitInv
    BY GitInit
  <1>2. GitInv /\ [Next]_vars => GitInv'
    BY GitStep
  <1> QED
    BY <1>1, <1>2, PTL DEF Spec

\* The types of the clones, the targets and the refreshers (_do_refresh, delete).
THEOREM GitTypes == Spec => []TypeOK
  <1>1. GitInv => TypeOK
    BY DEF GitInv
  <1> QED
    BY <1>1, GitCorrect, PTL

\* A hash beside a content that two refreshers have not crossed on is the hash of
\* that content, whoever fetches into the same clone or deletes it; and beside the
\* content of a full clone stands nothing else, whatever failed (_copy, _checkout).
THEOREM StatsTellContent == Spec => []HashMatchesContent
  <1>1. GitInv => HashMatchesContent
    BY DEF GitInv, StatsInv, HashTells, LeftInv, HashMatchesContent
  <1> QED
    BY <1>1, GitCorrect, PTL

\* No collision, failure or deletion leaves the clone directory of a sparse source
\* in a state that makes an undisturbed refresh fail, unless git refuses to write
\* over files that a failed fetch left there (_checkout).
THEOREM SparseSourcesHeal == Spec => SparseHeals
  <1>1. GitInv /\ [Next]_vars =>
          [\A f \in Refreshers : LET s == coro[f].src IN
             Busy(f) /\ s \in Sparse /\ coro[f]'.quiet /\ ~Busy(f)' => Clashes(s, Tip(s))]_vars
    <2> SUFFICES ASSUME GitInv, [Next]_vars, NEW f \in Refreshers,
                        Busy(f), coro[f].src \in Sparse, coro[f]'.quiet, ~Busy(f)'
                 PROVE  Clashes(coro[f].src, Tip(coro[f].src))
      OBVIOUS
    <2>1. coro'[f].quiet = TRUE
      BY GitStep, CoroType DEF GitInv, TypeOK
    <2> QED
      BY <2>1, HealStep DEF GitInv
  <1> QED
    BY <1>1, GitCorrect, PTL DEF Spec, SparseHeals

\* So does the one about fresh copies, if sources that share a clone are on one branch.
LEMMA FreshCorrect == ASSUME OneBranchPerClone PROVE Spec => [](GitInv /\ FreshInv)
  <1>1. Init => FreshInv
    BY GitInit
  <1>2. GitInv /\ FreshInv /\ [Next]_vars => FreshInv'
    <2> SUFFICES ASSUME GitInv, FreshInv, [Next]_vars
                 PROVE  FreshInv'
      OBVIOUS
    <2>1. CASE Next
      BY <2>1, FreshStep DEF GitInv
    <2>2. CASE UNCHANGED vars
      BY <2>2 DEF vars, FreshInv, SourceFresh, CoroFresh, Tree, Tip, Busy
    <2> QED
      BY <2>1, <2>2
  <1> QED
    BY <1>1, <1>2, GitCorrect, PTL DEF Spec

\* Where the sources that share a clone follow one branch, the hash in .gitstats
\* is never newer than the content beside it, even after refreshers have crossed
\* (_copy and the end of _do_refresh).
THEOREM HashesNeverAhead == ASSUME OneBranchPerClone PROVE Spec => []HashNeverAhead
  <1>1. FreshInv => HashNeverAhead
    BY DEF FreshInv, SourceFresh, HashNeverAhead
  <1> QED
    BY <1>1, FreshCorrect, PTL

\* And what a refresh has copied is of the branch of its source, and not older than
\* the branch was when the refresh was asked for (_do_refresh).
THEOREM CopiesAreFresh == ASSUME OneBranchPerClone PROVE Spec => []CopyIsFresh
  <1>1. GitInv /\ FreshInv => CopyIsFresh
    <2> SUFFICES ASSUME GitInv, FreshInv, NEW f \in Refreshers,
                        coro[f].stage \in {"open", "write"}, target[coro[f].src] # Nothing
                 PROVE  /\ target[coro[f].src].branch = Branch[coro[f].src]
                        /\ target[coro[f].src].n >= coro[f].asked
      BY DEF CopyIsFresh
    <2>1. coro[f].src \in Sources
      BY DEF GitInv, BusyHasSource, Busy
    <2>2. coro[f].asked \in Int /\ target[coro[f].src].n \in Int
      <3>1. target[coro[f].src] \in Revs /\ coro[f].asked \in 0..MaxCommits
        BY <2>1, TypeParts, CoroType DEF GitInv
      <3> QED
        BY <3>1, RevNumber, GitAssumption
    <2> QED
      BY <2>1, <2>2 DEF FreshInv, SourceFresh, CoroFresh
  <1> QED
    BY <1>1, FreshCorrect, PTL
=============================================================================
