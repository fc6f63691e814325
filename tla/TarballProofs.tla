----------------------------- MODULE TarballProofs -----------------------------
(***************************************************************************)
(* The types and the invariants of Tarball, for any revisions and files,    *)
(* refreshes, fetches, attempts and faults.                                *)
(***************************************************************************)
EXTENDS Tarball, SequenceTheorems, TLAPS

RefreshRec == [at : {"new", "checkout", "copy", "open", "write", "end", "done"}, rev : Revs]
Ats == {"new", "ask", "accepted", "response", "cleared", "extract", "done", "failed"}
Part == [name : Names, holds : Contents \ {Absent}]
FetchRec == [at : Ats, tries : 0..Attempts, listed : SUBSET Names, left : SUBSET Names,
             pipe : Seq(Part), bad : BOOLEAN, gen : Nat]
Active(f) == fetch[f].at \notin {"new", "done", "failed"}

Trying(f) == fetch[f].at \notin {"done", "failed"}

\* The types that the proofs need: those of TypeOK, and those of the records.
Shapes ==
    /\ remote \in Revs /\ dir \in [Names -> Contents] /\ loaded \in BOOLEAN
    /\ refresh \in [Refreshers -> RefreshRec] /\ asked \in Nat
    /\ fetch \in [Fetchers -> FetchRec]
    /\ slave \in [files : [Names -> Contents], gen : Nat]
    /\ orphans \subseteq Seq(Part) \ {<<>>}
    /\ faults \in 0..MaxFaults
    /\ overlapped \in BOOLEAN /\ mixed \in BOOLEAN /\ unremoved \in BOOLEAN
    /\ \A f \in Fetchers : /\ fetch[f].left \subseteq fetch[f].listed
                           /\ Trying(f) => fetch[f].tries > 0

\* Checkouts, and so the copies, come one after the other: unless one is copying, the
\* directory of the API process has the files of the last one, and a hash not newer.
DirInv ==
    /\ \A r, s \in Refreshers : refresh[r].at = "copy" /\ refresh[s].at = "copy" => r = s
    /\ \A r \in Refreshers : /\ refresh[r].rev <= remote
                             /\ refresh[r].at = "copy" => refresh[r].rev = remote
    /\ ~Blocked => \A n \in Files : dir[n] = Target(remote)[n]
    /\ dir[Stats] \in {Absent, Empty} \cup 0..remote

OneFetch == overlapped = FALSE => \A f, g \in Fetchers : Active(f) /\ Active(g) => f = g

Piped(s) == {s[k].name : k \in 1..Len(s)}

\* Every file that the handler has listed is still to be read, is in the pipe, or is there.
Listed(f) ==
    /\ fetch[f].at \in {"response", "cleared"} /\ fetch[f].bad = FALSE =>
         fetch[f].listed \subseteq fetch[f].left \cup Piped(fetch[f].pipe)
    /\ fetch[f].at = "extract" =>
         /\ fetch[f].gen = slave.gen
         /\ fetch[f].bad = FALSE => \A n \in fetch[f].listed :
              n \in fetch[f].left \cup Piped(fetch[f].pipe) \/ slave.files[n] # Absent

ListedInv == overlapped = FALSE => \A f \in Fetchers : Listed(f)

\* A part of the tarball of revision r, .gitstats at its end.
Chunk(s, r, left) == \A k \in 1..Len(s) :
    /\ s[k].name \in FilesOf[r] \cup {Stats}
    /\ s[k].name # Stats => s[k].holds = r
    /\ s[k].name = Stats => s[k].holds \in {Empty} \cup 0..r /\ k = Len(s) /\ left = {}

\* The directory of the API process has the files of revision r, and a hash not newer.
Current(r) ==
    /\ \A n \in Files : dir[n] = Target(r)[n]
    /\ dir[Stats] \in {Absent, Empty} \cup 0..r
    /\ r <= remote /\ (~Blocked => r = remote)

\* A tar reads revision r.
Reads(f, r) ==
    /\ fetch[f].listed \subseteq FilesOf[r] \cup {Stats}
    /\ Chunk(fetch[f].pipe, r, fetch[f].left)
    /\ fetch[f].left # {} => Current(r)

Got(r) == {n \in FilesOf[r] : slave.files[n] = r}

\* What there is in the slave is of revision r, and .gitstats only with all the rest.
Here(r) ==
    /\ \A n \in Files : slave.files[n] # Absent => n \in FilesOf[r] /\ slave.files[n] = r
    /\ slave.files[Stats] \in {Absent, Empty} \cup 0..r
    /\ slave.files[Stats] # Absent => FilesOf[r] \subseteq Got(r)

\* So is what is still to be extracted, of an attempt that was given up or of one under way.
Late(r) == \A o \in orphans :
    /\ Chunk(o, r, {})
    /\ Stats \in Piped(o) => FilesOf[r] \subseteq Piped(o) \cup Got(r)
Extracting(f, r) == fetch[f].at = "extract" =>
    /\ Reads(f, r)
    /\ FilesOf[r] \subseteq fetch[f].left \cup Piped(fetch[f].pipe) \cup Got(r)

Partial(r) == Here(r) /\ Late(r) /\ \A f \in Fetchers : Extracting(f, r)

\* The tar of the handler reads all of a revision, and extracts into an empty directory.
Ready(f) == fetch[f].at \in {"response", "cleared"} =>
    \E r \in Revs : Reads(f, r) /\ FilesOf[r] \subseteq fetch[f].left \cup Piped(fetch[f].pipe)
Alone(f) ==
    /\ fetch[f].at = "cleared" => slave.files = Nothing
    /\ fetch[f].at \in {"cleared", "extract"} => orphans = {}

Clean == mixed = FALSE /\ overlapped = FALSE /\ unremoved = FALSE

CleanInv == Clean =>
    /\ \A f \in Fetchers : Ready(f) /\ Alone(f)
    /\ \E r \in Revs : Partial(r)

TarInv == Shapes /\ DirInv /\ OneFetch /\ ListedInv /\ CleanInv

-----------------------------------------------------------------------------
(* Sequences, and records                                                  *)

\* One cell of a function changes.
LEMMA SetRow ==
    ASSUME NEW A, NEW W, NEW g \in [A -> W], NEW a \in A, NEW w \in W
    PROVE  LET h == [g EXCEPT ![a] = w] IN
           /\ h \in [A -> W] /\ h[a] = w
           /\ \A x \in A : x # a => h[x] = g[x]
  OBVIOUS

\* The names of what a pipe holds.
LEMMA PipedEmpty == Piped(<<>>) = {}
  BY DEF Piped

\* A file read into the pipe.
LEMMA PipedAppend ==
    ASSUME NEW s \in Seq(Part), NEW e \in Part
    PROVE  Piped(Append(s, e)) = Piped(s) \cup {e.name}
  <1>1. /\ Len(Append(s, e)) = Len(s) + 1 /\ Len(s) \in Nat
        /\ \A k \in 1..Len(s) : Append(s, e)[k] = s[k]
        /\ Append(s, e)[Len(s) + 1] = e
    BY AppendProperties, LenProperties
  <1> QED
    BY <1>1 DEF Piped

\* A file taken out of it.
LEMMA PipedTail ==
    ASSUME NEW s \in Seq(Part), s # <<>>
    PROVE  Piped(s) = {Head(s).name} \cup Piped(Tail(s))
  <1>1. /\ Len(s) \in Nat /\ Len(s) >= 1 /\ Head(s) = s[1]
        /\ Len(Tail(s)) = Len(s) - 1
        /\ \A k \in 1..Len(Tail(s)) : Tail(s)[k] = s[k + 1]
    BY HeadTailProperties, EmptySeq, LenProperties
  <1>2. ASSUME NEW n \in Piped(s)
        PROVE  n \in {Head(s).name} \cup Piped(Tail(s))
    <2>1. PICK k \in 1..Len(s) : n = s[k].name
      BY DEF Piped
    <2>2. CASE k = 1
      BY <1>1, <2>1, <2>2
    <2>3. CASE k # 1
      <3>1. k - 1 \in 1..Len(Tail(s)) /\ Tail(s)[k - 1] = s[k]
        BY <1>1, <2>3
      <3> QED
        BY <2>1, <3>1 DEF Piped
    <2> QED
      BY <2>2, <2>3
  <1>3. ASSUME NEW n \in {Head(s).name} \cup Piped(Tail(s))
        PROVE  n \in Piped(s)
    <2>1. CASE n = Head(s).name
      BY <1>1, <2>1 DEF Piped
    <2>2. CASE n \in Piped(Tail(s))
      <3>1. PICK k \in 1..Len(Tail(s)) : n = Tail(s)[k].name
        BY <2>2 DEF Piped
      <3>2. k + 1 \in 1..Len(s) /\ Tail(s)[k] = s[k + 1]
        BY <1>1
      <3> QED
        BY <3>1, <3>2 DEF Piped
    <2> QED
      BY <1>3, <2>1, <2>2
  <1> QED
    BY <1>2, <1>3

\* What is left of a part of a tarball is one, too.
LEMMA ChunkTail ==
    ASSUME NEW s \in Seq(Part), s # <<>>, NEW r \in Revs, NEW left, Chunk(s, r, left)
    PROVE  Chunk(Tail(s), r, left) /\ (Head(s).name = Stats => Tail(s) = <<>>)
  <1>1. /\ Len(s) \in Nat /\ Len(s) >= 1 /\ Head(s) = s[1] /\ Tail(s) \in Seq(Part)
        /\ Len(Tail(s)) = Len(s) - 1
        /\ \A k \in 1..Len(Tail(s)) : Tail(s)[k] = s[k + 1]
    BY HeadTailProperties, EmptySeq, LenProperties
  <1>2. \A k \in 1..Len(s) :
          /\ s[k].name \in FilesOf[r] \cup {Stats}
          /\ s[k].name # Stats => s[k].holds = r
          /\ s[k].name = Stats => s[k].holds \in {Empty} \cup 0..r /\ k = Len(s) /\ left = {}
    BY Zenon DEF Chunk
  <1>3. ASSUME NEW k \in 1..Len(Tail(s))
        PROVE  /\ Tail(s)[k].name \in FilesOf[r] \cup {Stats}
               /\ Tail(s)[k].name # Stats => Tail(s)[k].holds = r
               /\ Tail(s)[k].name = Stats =>
                    Tail(s)[k].holds \in {Empty} \cup 0..r /\ k = Len(Tail(s)) /\ left = {}
    <2>1. Tail(s)[k] = s[k + 1]
      BY <1>1, Zenon
    <2>4. k + 1 \in 1..Len(s) /\ (k + 1 = Len(s) => k = Len(Tail(s)))
      <3> DEFINE N == Len(s)
                 M == Len(Tail(s))
      <3>1. N \in Nat /\ N >= 1 /\ M = N - 1 /\ k \in 1..M
        BY <1>1, Zenon
      <3> HIDE DEF N, M
      <3>2. k + 1 \in 1..N /\ (k + 1 = N => k = M)
        BY <3>1
      <3> QED
        BY <3>2, Zenon DEF N, M
    <2> DEFINE e == Tail(s)[k]
               m == k + 1
    <2>2. e = s[m] /\ m \in 1..Len(s) /\ (m = Len(s) => k = Len(Tail(s)))
      BY <2>1, <2>4, Zenon
    <2> HIDE DEF e, m
    <2>3. /\ e.name \in FilesOf[r] \cup {Stats}
          /\ e.name # Stats => e.holds = r
          /\ e.name = Stats => e.holds \in {Empty} \cup 0..r /\ k = Len(Tail(s)) /\ left = {}
      BY <1>2, <2>2, Zenon
    <2> QED
      BY <2>3 DEF e
  <1>4. ASSUME Head(s).name = Stats
        PROVE  Tail(s) = <<>>
    <2>1. 1 \in 1..Len(s)
      BY <1>1
    <2>3. s[1].name = Stats
      BY <1>1, <1>4, Zenon
    <2>4. Len(s) = 1
      BY <1>2, <2>1, <2>3, Zenon
    <2>5. \A m, n \in Nat : n = 1 /\ m = n - 1 => m = 0
      OBVIOUS
    <2>6. Tail(s) \in Seq(Part)
      BY <1>1, Zenon
    <2>7. Len(Tail(s)) \in Nat
      BY <2>6, LenProperties
    <2>2. Len(Tail(s)) = 0
      BY <1>1, <2>4, <2>5, <2>7, Zenon
    <2> QED
      BY <1>1, <2>2, EmptySeq
  <1> QED
    BY <1>3, <1>4, Zenon DEF Chunk

\* A tar that reads revision r goes on with it, .gitstats last.
LEMMA ChunkAppend ==
    ASSUME NEW s \in Seq(Part), NEW e \in Part, NEW r \in Revs, NEW left, NEW rest,
           Chunk(s, r, left), left # {},
           e.name \in FilesOf[r] => e.name # Stats,
           \/ e.name \in FilesOf[r] /\ e.holds = r
           \/ e.name = Stats /\ e.holds \in {Empty} \cup 0..r /\ rest = {}
    PROVE  Chunk(Append(s, e), r, rest)
  <1>1. /\ Len(Append(s, e)) = Len(s) + 1 /\ Len(s) \in Nat
        /\ \A k \in 1..Len(s) : Append(s, e)[k] = s[k]
        /\ Append(s, e)[Len(s) + 1] = e
    BY AppendProperties, LenProperties
  <1>2. \A k \in 1..Len(s) : s[k].name # Stats /\ s[k].name \in FilesOf[r] /\ s[k].holds = r
    BY DEF Chunk
  <1> QED
    BY <1>1, <1>2 DEF Chunk

\* An empty pipe is a part of any tarball.
LEMMA ChunkEmpty ==
    ASSUME NEW r, NEW left
    PROVE  Chunk(<<>>, r, left)
  BY DEF Chunk

-----------------------------------------------------------------------------
(* What the actions of a fetch change                                      *)

\* What the constants are.
LEMMA Consts ==
    /\ Stats \in Names /\ Files \subseteq Names /\ Stats \notin Files
    /\ \A n \in Names : n # Stats => n \in Files
    /\ \A r \in Revs : FilesOf[r] \subseteq Files /\ r \in Contents /\ r # Absent /\ r # Empty
    /\ Absent \in Contents /\ Empty \in Contents
    /\ Revs \subseteq Nat /\ 0 \in Revs /\ MaxRev \in Nat /\ Attempts \in Nat /\ Attempts > 0
  BY TarballAssumption DEF Names, Files, Revs, Contents

\* A complete refresh leaves the files of its revision, and no other.
LEMMA TargetFields ==
    ASSUME NEW r \in Revs
    PROVE  /\ Target(r) \in [Names -> Contents]
           /\ \A n \in FilesOf[r] : Target(r)[n] = r
           /\ \A n \in Files : n \notin FilesOf[r] => Target(r)[n] = Absent
           /\ Target(r)[Stats] = r
  BY Consts DEF Target

\* An empty directory.
LEMMA NothingFields == Nothing \in [Names -> Contents] /\ \A n \in Names : Nothing[n] = Absent
  BY Consts DEF Nothing

\* One fetch changes, and has still to type.
Changed(f, v) ==
    /\ fetch' \in [Fetchers -> FetchRec]
    /\ fetch'[f] = v
    /\ \A g \in Fetchers : g # f => fetch'[g] = fetch[g]

\* What a fetch that changes leaves of the others.
LEMMA FetchSet ==
    ASSUME Shapes, NEW f \in Fetchers, NEW v \in FetchRec, fetch' = [fetch EXCEPT ![f] = v]
    PROVE  Changed(f, v)
  <1>1. fetch \in [Fetchers -> FetchRec]
    BY DEF Shapes
  <1> QED
    BY <1>1, SetRow DEF Changed

\* A fetch that goes on keeps all it holds but its place.
LEMMA FetchAt ==
    ASSUME Shapes, NEW f \in Fetchers, NEW a \in Ats, fetch' = [fetch EXCEPT ![f].at = a]
    PROVE  /\ fetch' \in [Fetchers -> FetchRec]
           /\ \A g \in Fetchers : g # f => fetch'[g] = fetch[g]
           /\ fetch'[f].at = a /\ fetch'[f].tries = fetch[f].tries
           /\ fetch'[f].listed = fetch[f].listed /\ fetch'[f].left = fetch[f].left
           /\ fetch'[f].pipe = fetch[f].pipe /\ fetch'[f].bad = fetch[f].bad
           /\ fetch'[f].gen = fetch[f].gen
  BY ZenonT(40) DEF Shapes, FetchRec

\* An attempt that is given up leaves a fetch that asks again, or has failed, and has
\* nothing under way.
LEMMA GiveUpFields ==
    ASSUME Shapes, NEW f \in Fetchers, Active(f), NEW rest, GiveUp(f, rest)
    PROVE  /\ fetch' \in [Fetchers -> FetchRec]
           /\ \A g \in Fetchers : g # f => fetch'[g] = fetch[g]
           /\ fetch'[f].at \in {"ask", "failed"}
           /\ fetch'[f].at = "ask" => fetch'[f].tries > 0
           /\ fetch'[f].left = {}
           /\ orphans' = orphans \cup ({rest} \ {<<>>})
  <1> DEFINE c == fetch[f]
             a == IF c.tries > 1 THEN "ask" ELSE "failed"
             v == [c EXCEPT !.tries = c.tries - 1, !.pipe = <<>>, !.left = {}, !.at = a]
  <1>1. c \in FetchRec /\ c.tries > 0
    BY DEF Shapes, Active, Trying
  <1>2. fetch' = [fetch EXCEPT ![f] = v]
    BY Zenon DEF GiveUp
  <1>3. <<>> \in Seq(Part)
    BY EmptySeq
  <1>4. c.tries \in 0..Attempts
    BY <1>1 DEF FetchRec
  <1>5. c.tries - 1 \in 0..Attempts
    BY <1>1, <1>4, Consts
  <1>6. a \in {"ask", "failed"} /\ (a = "ask" => c.tries - 1 > 0)
    BY <1>4, Consts
  <1> HIDE DEF c, a
  <1>7. v \in FetchRec /\ v.at = a /\ v.left = {} /\ v.tries = c.tries - 1
    BY <1>1, <1>3, <1>5, <1>6 DEF FetchRec, Ats
  <1> HIDE DEF v
  <1>8. Changed(f, v)
    BY <1>2, <1>7, FetchSet
  <1>9. orphans' = orphans \cup ({rest} \ {<<>>})
    BY DEF GiveUp
  <1> QED
    BY <1>6, <1>7, <1>8, <1>9 DEF Changed

\* The handler lists what is there.
LEMMA ListFields ==
    ASSUME Shapes, NEW f \in Fetchers, ListFiles(f)
    PROVE  LET found == {n \in Names : dir[n] # Absent} IN
           /\ fetch' \in [Fetchers -> FetchRec]
           /\ \A g \in Fetchers : g # f => fetch'[g] = fetch[g]
           /\ fetch'[f].at = "response" /\ fetch'[f].tries = fetch[f].tries
           /\ fetch'[f].listed = found /\ fetch'[f].left = found
           /\ fetch'[f].pipe = <<>> /\ fetch'[f].bad = FALSE
           /\ fetch[f].at = "accepted" /\ ~Blocked
  <1> DEFINE found == {n \in Names : dir[n] # Absent}
             c == fetch[f]
             v == [c EXCEPT !.at = "response", !.listed = found, !.left = found, !.pipe = <<>>, !.bad = FALSE]
  <1>1. c \in FetchRec /\ fetch[f].at = "accepted" /\ ~Blocked
    BY DEF Shapes, ListFiles
  <1>2. fetch' = [fetch EXCEPT ![f] = v]
    BY DEF ListFiles
  <1>3. <<>> \in Seq(Part)
    BY EmptySeq
  <1>4. found \subseteq Names
    OBVIOUS
  <1> HIDE DEF c, found
  <1>5. /\ v \in FetchRec /\ v.at = "response" /\ v.listed = found /\ v.left = found
        /\ v.pipe = <<>> /\ v.bad = FALSE /\ v.tries = c.tries
    BY <1>1, <1>3, <1>4 DEF FetchRec, Ats
  <1> HIDE DEF v
  <1>6. Changed(f, v)
    BY <1>2, <1>5, FetchSet
  <1> QED
    BY <1>1, <1>5, <1>6 DEF Changed, c, found

\* The tar of the handler reads a file, .gitstats if there is no other, and goes on
\* after one that is gone.
LEMMA ReadFields ==
    ASSUME Shapes, NEW f \in Fetchers, ReadFile(f)
    PROVE  /\ fetch[f].at \in {"response", "cleared", "extract"}
           /\ fetch' \in [Fetchers -> FetchRec]
           /\ \A g \in Fetchers : g # f => fetch'[g] = fetch[g]
           /\ fetch'[f].at = fetch[f].at /\ fetch'[f].tries = fetch[f].tries
           /\ fetch'[f].listed = fetch[f].listed /\ fetch'[f].gen = fetch[f].gen
           /\ \E n \in fetch[f].left :
                /\ n = Stats => fetch[f].left = {Stats}
                /\ fetch'[f].left = fetch[f].left \ {n}
                /\ \/ /\ dir[n] = Absent
                      /\ fetch'[f].pipe = fetch[f].pipe /\ fetch'[f].bad = TRUE
                   \/ /\ dir[n] # Absent
                      /\ fetch'[f].bad = fetch[f].bad
                      /\ \E e \in Part : e.name = n /\ e.holds = dir[n] /\
                                         fetch'[f].pipe = Append(fetch[f].pipe, e)
  <1> DEFINE c == fetch[f]
  <1>1. c \in FetchRec /\ c.at \in {"response", "cleared", "extract"} /\ dir \in [Names -> Contents]
    BY DEF Shapes, ReadFile
  <1>2. PICK n \in NextToRead(f) :
          fetch' = [fetch EXCEPT ![f] = [@ EXCEPT !.left = fetch[f].left \ {n},
                     !.pipe = IF dir[n] = Absent THEN fetch[f].pipe
                              ELSE Append(fetch[f].pipe, [name |-> n, holds |-> dir[n]]),
                     !.bad = fetch[f].bad \/ dir[n] = Absent]]
    BY Zenon DEF ReadFile
  <1>3. n \in c.left /\ (n = Stats => c.left = {Stats})
    BY DEF NextToRead
  <1> DEFINE e == [name |-> n, holds |-> dir[n]]
             p == IF dir[n] = Absent THEN c.pipe ELSE Append(c.pipe, e)
             b == c.bad \/ dir[n] = Absent
             l == c.left \ {n}
             v == [c EXCEPT !.left = l, !.pipe = p, !.bad = b]
  <1>4. fetch' = [fetch EXCEPT ![f] = v]
    BY <1>2, Zenon
  <1>5. n \in Names /\ c.pipe \in Seq(Part) /\ l \subseteq Names /\ c.bad \in BOOLEAN
    BY <1>1, <1>3 DEF FetchRec
  <1>6. dir[n] # Absent => e \in Part /\ e.name = n /\ e.holds = dir[n]
    BY <1>1, <1>5 DEF Part
  <1>7. p \in Seq(Part)
    BY <1>5, <1>6, AppendProperties
  <1>8. b \in BOOLEAN /\ (dir[n] = Absent => b = TRUE) /\ (dir[n] # Absent => b = c.bad)
    BY <1>5, Zenon
  <1>9. /\ dir[n] = Absent => p = c.pipe
        /\ dir[n] # Absent => p = Append(c.pipe, e)
    BY Zenon
  <1> HIDE DEF p, b, l, c
  <1>10. /\ v \in FetchRec /\ v.left = l /\ v.pipe = p /\ v.bad = b
         /\ v.at = c.at /\ v.tries = c.tries /\ v.listed = c.listed /\ v.gen = c.gen
    BY <1>1, <1>5, <1>7, <1>8 DEF FetchRec
  <1> HIDE DEF v
  <1>11. Changed(f, v)
    BY <1>4, <1>10, FetchSet
  <1>12. /\ fetch' \in [Fetchers -> FetchRec]
         /\ \A g \in Fetchers : g # f => fetch'[g] = fetch[g]
         /\ fetch'[f] = v
    BY <1>11 DEF Changed
  <1>13. \E m \in fetch[f].left :
                /\ m = Stats => fetch[f].left = {Stats}
                /\ fetch'[f].left = fetch[f].left \ {m}
                /\ \/ /\ dir[m] = Absent
                      /\ fetch'[f].pipe = fetch[f].pipe /\ fetch'[f].bad = TRUE
                   \/ /\ dir[m] # Absent
                      /\ fetch'[f].bad = fetch[f].bad
                      /\ \E y \in Part : y.name = m /\ y.holds = dir[m] /\
                                         fetch'[f].pipe = Append(fetch[f].pipe, y)
    <2>1. n \in fetch[f].left /\ (n = Stats => fetch[f].left = {Stats})
      BY <1>3 DEF c
    <2>2. fetch'[f].left = fetch[f].left \ {n}
      BY <1>10, <1>12 DEF l, c
    <2>3. CASE dir[n] = Absent
      <3>1. fetch'[f].pipe = fetch[f].pipe /\ fetch'[f].bad = TRUE
        BY <1>8, <1>9, <1>10, <1>12, <2>3 DEF c
      <3> QED
        BY <2>1, <2>2, <2>3, <3>1
    <2>4. CASE dir[n] # Absent
      <3>1. fetch'[f].pipe = Append(fetch[f].pipe, e) /\ fetch'[f].bad = fetch[f].bad
        BY <1>8, <1>9, <1>10, <1>12, <2>4, Zenon DEF c
      <3>2. e \in Part /\ e.name = n /\ e.holds = dir[n]
        BY <1>6, <2>4
      <3> HIDE DEF e
      <3> QED
        BY <2>1, <2>2, <2>4, <3>1, <3>2
    <2> QED
      BY <2>3, <2>4
  <1> QED
    BY <1>1, <1>10, <1>12, <1>13 DEF c

-----------------------------------------------------------------------------
(* The refreshes                                                           *)

\* A refresh that goes on keeps its revision.
LEMMA GotoFields ==
    ASSUME Shapes, NEW r \in Refreshers,
           NEW a \in {"new", "checkout", "copy", "open", "write", "end", "done"}, Goto(r, a)
    PROVE  /\ refresh' \in [Refreshers -> RefreshRec]
           /\ refresh'[r].at = a /\ refresh'[r].rev = refresh[r].rev
           /\ \A s \in Refreshers : s # r => refresh'[s] = refresh[s]
  BY DEF Shapes, Goto, RefreshRec

\* A checkout blocks the loop and takes the newest revision (git.py, _checkout).
LEMMA CheckoutFields ==
    ASSUME Shapes, NEW r \in Refreshers, Checkout(r)
    PROVE  /\ remote' \in Revs /\ remote <= remote' /\ ~Blocked
           /\ refresh' \in [Refreshers -> RefreshRec]
           /\ refresh'[r].at = "copy" /\ refresh'[r].rev = remote'
           /\ \A s \in Refreshers : s # r => refresh'[s] = refresh[s]
           /\ Blocked'
  <1> DEFINE v == [at |-> "copy", rev |-> remote']
  <1>1. remote \in Revs /\ refresh \in [Refreshers -> RefreshRec]
    BY DEF Shapes
  <1>2. remote' \in remote..MaxRev /\ ~Blocked /\ refresh' = [refresh EXCEPT ![r] = v]
    BY DEF Checkout
  <1>3. remote' \in Revs /\ remote <= remote'
    BY <1>1, <1>2, Consts DEF Revs
  <1>4. v \in RefreshRec /\ v.at = "copy" /\ v.rev = remote'
    BY <1>3 DEF RefreshRec
  <1> HIDE DEF v
  <1>5. /\ refresh' \in [Refreshers -> RefreshRec] /\ refresh'[r] = v
        /\ \A s \in Refreshers : s # r => refresh'[s] = refresh[s]
    BY <1>1, <1>2, <1>4, SetRow
  <1>6. refresh'[r].at = "copy" /\ refresh'[r].rev = remote'
    BY <1>4, <1>5
  <1> QED
    BY <1>2, <1>3, <1>5, <1>6 DEF Blocked

\* rsync changes a file, while the event loop is blocked; or it has them all, and ends.
LEMMA CopyFields ==
    ASSUME Shapes, DirInv, NEW r \in Refreshers, CopyFile(r)
    PROVE  /\ refresh[r].at = "copy" /\ UNCHANGED <<remote, loaded, asked, faults>>
           /\ \/ /\ refresh' = refresh /\ dir' \in [Names -> Contents]
                 /\ mixed' = (mixed \/ \E f \in Fetchers : fetch[f].left # {})
                 /\ dir'[Stats] \in {dir[Stats], Absent}
              \/ /\ Goto(r, "open") /\ UNCHANGED <<dir, mixed>>
                 /\ \A n \in Files : dir[n] = Target(remote)[n]
  <1> DEFINE v == refresh[r].rev
             goal == [Target(v) EXCEPT ![Stats] = Absent]
             todo == {n \in Names : dir[n] # goal[n]}
             extra == {n \in todo : goal[n] = Absent}
  <1>1. refresh[r].at = "copy" /\ UNCHANGED <<remote, loaded, asked, faults>>
    BY DEF CopyFile, Refreshing
  <1>2. v = remote /\ v \in Revs
    BY <1>1 DEF DirInv, Shapes, RefreshRec
  <1>3. /\ goal \in [Names -> Contents] /\ goal[Stats] = Absent
        /\ \A n \in Files : goal[n] = Target(remote)[n]
    BY <1>2, TargetFields, Consts
  <1>4. IF todo = {} THEN Goto(r, "open") /\ UNCHANGED <<dir, mixed>>
        ELSE /\ \E n \in IF extra # {} THEN extra ELSE todo : dir' = [dir EXCEPT ![n] = goal[n]]
             /\ mixed' = (mixed \/ \E f \in Fetchers : fetch[f].left # {})
             /\ UNCHANGED refresh
    BY Zenon DEF CopyFile
  <1> HIDE DEF goal, v
  <1>5. CASE todo = {}
    <2>1. \A n \in Files : dir[n] = Target(remote)[n]
      BY <1>3, <1>5, Consts
    <2> QED
      BY <1>1, <1>4, <1>5, <2>1, Zenon
  <1>6. CASE todo # {}
    <2>1. PICK n \in Names : dir' = [dir EXCEPT ![n] = goal[n]]
      BY <1>4, <1>6
    <2>2. dir \in [Names -> Contents]
      BY DEF Shapes
    <2>3. dir' \in [Names -> Contents] /\ dir'[Stats] \in {dir[Stats], Absent}
      BY <1>3, <2>1, <2>2, Consts
    <2>4. mixed' = (mixed \/ \E f \in Fetchers : fetch[f].left # {}) /\ refresh' = refresh
      BY <1>4, <1>6, Zenon
    <2> QED
      BY <1>1, <2>3, <2>4, Zenon
  <1> QED
    BY <1>5, <1>6

AnyRefresh(r) == RefreshStart(r) \/ Checkout(r) \/ RefreshFail(r) \/ RefreshStep(r)

\* The steps of a refresh leave the fetches and the slave alone.
LEMMA RefreshFrame ==
    ASSUME NEW r \in Refreshers, AnyRefresh(r)
    PROVE  UNCHANGED <<fetch, slave, orphans, overlapped, unremoved>>
  BY DEF AnyRefresh, RefreshStart, Checkout, RefreshFail, RefreshStep, CopyFile, OpenStats,
         WriteStats, RefreshEnd, Refreshing

\* All of them but the copy find the event loop free.
LEMMA RefreshCases ==
    ASSUME Shapes, DirInv, NEW r \in Refreshers, AnyRefresh(r)
    PROVE  \/ Checkout(r)
           \/ CopyFile(r)
           \/ /\ ~Blocked /\ remote' = remote /\ UNCHANGED mixed
              /\ \E a \in {"checkout", "write", "end", "done"} : Goto(r, a)
              /\ dir' \in [Names -> Contents]
              /\ \A n \in Files : dir'[n] = dir[n]
              /\ dir'[Stats] \in {dir[Stats], Empty} \cup 0..remote
              /\ loaded' \in BOOLEAN /\ asked' \in Nat /\ faults' \in 0..MaxFaults
  <1>0. /\ dir \in [Names -> Contents] /\ loaded \in BOOLEAN /\ asked \in Nat
        /\ faults \in 0..MaxFaults /\ remote \in Revs /\ refresh[r].rev \in Revs
    BY DEF Shapes, RefreshRec
  <1>1. refresh[r].rev <= remote
    BY DEF DirInv
  <1>2. CASE RefreshStart(r)
    BY <1>0, <1>2 DEF RefreshStart
  <1>3. CASE RefreshFail(r)
    <2>1. faults' \in 0..MaxFaults
      BY <1>0, <1>3, TarballAssumption DEF RefreshFail, Fault
    <2> QED
      BY <1>0, <1>3, <2>1 DEF RefreshFail
  <1>4. CASE OpenStats(r)
    <2>1. /\ dir' \in [Names -> Contents] /\ \A n \in Files : dir'[n] = dir[n]
          /\ dir'[Stats] = Empty
      BY <1>0, <1>4, Consts DEF OpenStats
    <2> QED
      BY <1>0, <1>4, <2>1 DEF OpenStats
  <1>5. CASE WriteStats(r)
    <2>1. /\ dir' \in [Names -> Contents] /\ \A n \in Files : dir'[n] = dir[n]
          /\ dir'[Stats] = refresh[r].rev
      BY <1>0, <1>5, Consts DEF WriteStats
    <2>2. dir'[Stats] \in 0..remote
      BY <1>0, <1>1, <2>1 DEF Revs
    <2> QED
      BY <1>0, <1>5, <2>1, <2>2 DEF WriteStats
  <1>6. CASE RefreshEnd(r)
    BY <1>0, <1>6 DEF RefreshEnd
  <1> QED
    BY <1>2, <1>3, <1>4, <1>5, <1>6 DEF AnyRefresh, RefreshStep

\* A refresh keeps the types.
LEMMA RefreshShapes ==
    ASSUME Shapes, DirInv, NEW r \in Refreshers, AnyRefresh(r)
    PROVE  Shapes'
  <1>1. UNCHANGED <<fetch, slave, orphans, overlapped, unremoved>>
    BY RefreshFrame
  <1>2. /\ remote' \in Revs /\ dir' \in [Names -> Contents] /\ loaded' \in BOOLEAN
        /\ refresh' \in [Refreshers -> RefreshRec] /\ asked' \in Nat
        /\ faults' \in 0..MaxFaults /\ mixed' \in BOOLEAN
    <2>0. /\ remote \in Revs /\ dir \in [Names -> Contents] /\ loaded \in BOOLEAN
          /\ refresh \in [Refreshers -> RefreshRec] /\ asked \in Nat
          /\ faults \in 0..MaxFaults /\ mixed \in BOOLEAN
      BY DEF Shapes
    <2>1. CASE Checkout(r)
      BY <2>0, <2>1, CheckoutFields DEF Checkout
    <2>2. CASE CopyFile(r)
      <3>1. CASE Goto(r, "open") /\ UNCHANGED <<dir, mixed>>
        BY <2>0, <2>2, <3>1, CopyFields, GotoFields
      <3>2. CASE refresh' = refresh /\ dir' \in [Names -> Contents]
                 /\ mixed' = (mixed \/ \E f \in Fetchers : fetch[f].left # {})
        <4>1. mixed' \in BOOLEAN
          BY <2>0, <3>2, Zenon
        <4> QED
          BY <2>0, <2>2, <3>2, <4>1, CopyFields
      <3> QED
        BY <2>2, <3>1, <3>2, CopyFields
    <2>3. CASE ~Checkout(r) /\ ~CopyFile(r)
      BY <2>0, <2>3, RefreshCases, GotoFields
    <2> QED
      BY <2>1, <2>2, <2>3
  <1>3. /\ fetch' \in [Fetchers -> FetchRec] /\ slave' \in [files : [Names -> Contents], gen : Nat]
        /\ orphans' \subseteq Seq(Part) \ {<<>>}
        /\ overlapped' \in BOOLEAN /\ unremoved' \in BOOLEAN
    BY <1>1 DEF Shapes
  <1>4. \A f \in Fetchers : /\ fetch[f].left \subseteq fetch[f].listed
                            /\ Trying(f) => fetch[f].tries > 0
    BY DEF Shapes
  <1>5. \A f \in Fetchers : /\ fetch'[f].left \subseteq fetch'[f].listed
                            /\ Trying(f)' => fetch'[f].tries > 0
    BY <1>1, <1>4 DEF Trying
  <1> QED
    BY <1>2, <1>3, <1>5 DEF Shapes

\* A refresh keeps what the directory of the API process holds.
LEMMA RefreshDir ==
    ASSUME Shapes, DirInv, NEW r \in Refreshers, AnyRefresh(r)
    PROVE  DirInv'
  <1>0. /\ \A x, s \in Refreshers : refresh[x].at = "copy" /\ refresh[s].at = "copy" => x = s
        /\ \A s \in Refreshers : /\ refresh[s].rev <= remote
                                 /\ refresh[s].at = "copy" => refresh[s].rev = remote
        /\ ~Blocked => \A n \in Files : dir[n] = Target(remote)[n]
        /\ dir[Stats] \in {Absent, Empty} \cup 0..remote
    BY DEF DirInv
  <1>t. /\ remote \in Revs /\ refresh \in [Refreshers -> RefreshRec]
        /\ \A s \in Refreshers : refresh[s].rev \in Revs
    BY DEF Shapes, RefreshRec
  <1>1. CASE Checkout(r)
    <2>1. /\ remote' \in Revs /\ remote <= remote' /\ ~Blocked
          /\ refresh'[r].at = "copy" /\ refresh'[r].rev = remote'
          /\ \A s \in Refreshers : s # r => refresh'[s] = refresh[s]
          /\ Blocked' /\ dir' = dir
      BY <1>1, CheckoutFields DEF Checkout
    <2>a. /\ remote \in Nat /\ remote' \in Nat
          /\ \A s \in Refreshers : refresh[s].rev \in Nat
      BY <1>t, <2>1, Consts
    <2>2. \A s \in Refreshers : refresh[s].at # "copy"
      BY <2>1 DEF Blocked
    <2>3. \A x, s \in Refreshers : refresh'[x].at = "copy" /\ refresh'[s].at = "copy" => x = s
      BY <2>1, <2>2
    <2>4. \A s \in Refreshers : /\ refresh'[s].rev <= remote'
                                /\ refresh'[s].at = "copy" => refresh'[s].rev = remote'
      <3>1. ASSUME NEW s \in Refreshers
            PROVE  /\ refresh'[s].rev <= remote'
                   /\ refresh'[s].at = "copy" => refresh'[s].rev = remote'
        <4>1. CASE s = r
          BY <2>1, <2>a, <4>1
        <4>2. CASE s # r
          <5>1. refresh'[s] = refresh[s] /\ refresh[s].at # "copy"
            BY <2>1, <2>2, <4>2
          <5>2. refresh[s].rev \in Nat /\ refresh[s].rev <= remote
            BY <1>0, <1>t, <2>a
          <5>3. refresh[s].rev <= remote'
            BY <2>1, <2>a, <5>2
          <5> QED
            BY <5>1, <5>3
        <4> QED
          BY <4>1, <4>2
      <3> QED
        BY <3>1, Zenon
    <2>5. dir'[Stats] \in {Absent, Empty} \cup 0..remote'
      BY <1>0, <2>1, <2>a
    <2> QED
      BY <2>1, <2>3, <2>4, <2>5 DEF DirInv
  <1>2. CASE CopyFile(r)
    <2>1. refresh[r].at = "copy" /\ remote' = remote
      BY <1>2, CopyFields
    <2>2. CASE Goto(r, "open") /\ dir' = dir /\ \A n \in Files : dir[n] = Target(remote)[n]
      <3>1. /\ refresh'[r].at = "open" /\ refresh'[r].rev = refresh[r].rev
            /\ \A s \in Refreshers : s # r => refresh'[s] = refresh[s]
        BY <2>2, GotoFields
      <3>2. \A s \in Refreshers : refresh'[s].rev = refresh[s].rev
                                  /\ (refresh'[s].at = "copy" => refresh[s].at = "copy")
        BY <3>1
      <3> QED
        BY <1>0, <2>1, <2>2, <3>2 DEF DirInv
    <2>3. CASE refresh' = refresh /\ dir'[Stats] \in {dir[Stats], Absent}
      <3>1. Blocked'
        BY <2>1, <2>3 DEF Blocked
      <3> QED
        BY <1>0, <2>1, <2>3, <3>1 DEF DirInv
    <2> QED
      BY <1>2, <2>2, <2>3, CopyFields
  <1>3. CASE ~Checkout(r) /\ ~CopyFile(r)
    <2>1. /\ ~Blocked /\ remote' = remote
          /\ \A n \in Files : dir'[n] = dir[n]
          /\ dir'[Stats] \in {dir[Stats], Empty} \cup 0..remote
      BY <1>3, RefreshCases
    <2>2. PICK a \in {"checkout", "write", "end", "done"} : Goto(r, a)
      BY <1>3, RefreshCases
    <2>3. /\ refresh'[r].at = a /\ refresh'[r].rev = refresh[r].rev
          /\ \A s \in Refreshers : s # r => refresh'[s] = refresh[s]
      BY <2>2, GotoFields
    <2>4. \A s \in Refreshers : refresh'[s].rev = refresh[s].rev
                                /\ (refresh'[s].at = "copy" => refresh[s].at = "copy")
      BY <2>3
    <2> QED
      BY <1>0, <2>1, <2>4 DEF DirInv
  <1> QED
    BY <1>1, <1>2, <1>3

\* Two revisions that a tar cannot tell apart: the same, or both without files.
Same(r, q) == r = q \/ (FilesOf[r] = {} /\ FilesOf[q] = {} /\ r <= q)

\* The directory of revision r can be that of revision q only if both have no files.
LEMMA CurrentSame ==
    ASSUME NEW r \in Revs, NEW q \in Revs, r <= q, \A n \in Files : Target(r)[n] = Target(q)[n]
    PROVE  Same(r, q)
  <1>1. SUFFICES ASSUME r # q
                 PROVE  FilesOf[r] = {} /\ FilesOf[q] = {}
    BY DEF Same
  <1>2. ASSUME NEW n \in FilesOf[r]
        PROVE  FALSE
    <2>1. n \in Files /\ Target(r)[n] = r
      BY <1>2, Consts, TargetFields
    <2>2. Target(q)[n] \in {q, Absent}
      BY <2>1, TargetFields
    <2> QED
      BY <1>1, <2>1, <2>2, Consts
  <1>3. ASSUME NEW n \in FilesOf[q]
        PROVE  FALSE
    <2>1. n \in Files /\ Target(q)[n] = q
      BY <1>3, Consts, TargetFields
    <2>2. Target(r)[n] \in {r, Absent}
      BY <2>1, TargetFields
    <2> QED
      BY <1>1, <2>1, <2>2, Consts
  <1> QED
    BY <1>2, <1>3

\* A part of a tarball of one revision is one of another with the same files.
LEMMA ChunkSame ==
    ASSUME NEW r \in Revs, NEW q \in Revs, Same(r, q), NEW s, NEW left, Chunk(s, r, left)
    PROVE  Chunk(s, q, left)
  <1>1. CASE r = q
    BY <1>1
  <1>2. CASE FilesOf[r] = {} /\ FilesOf[q] = {} /\ r <= q
    <2>1. r \in Nat /\ q \in Nat
      BY Consts
    <2>2. 0..r \subseteq 0..q
      BY <1>2, <2>1
    <2> QED
      BY <1>2, <2>2 DEF Chunk
  <1> QED
    BY <1>1, <1>2 DEF Same

\* While no copy runs under a tar, the directory stays that of the revision it is of.
LEMMA CurrentStays ==
    ASSUME Shapes, DirInv, NEW x \in Refreshers, AnyRefresh(x), mixed' = FALSE,
           NEW g \in Fetchers, fetch[g].left # {}, NEW r \in Revs, Current(r)
    PROVE  \E q \in Revs : Same(r, q) /\ Current(q)'
  <1>0. /\ \A n \in Files : dir[n] = Target(r)[n]
        /\ dir[Stats] \in {Absent, Empty} \cup 0..r
        /\ r <= remote /\ (~Blocked => r = remote)
    BY DEF Current
  <1>t. remote \in Revs /\ remote \in Nat /\ r \in Nat /\ Same(r, r)
    BY Consts DEF Shapes, Same
  <1>1. CASE Checkout(x)
    <2>1. remote' \in Revs /\ remote <= remote' /\ Blocked' /\ dir' = dir
      BY <1>1, CheckoutFields DEF Checkout
    <2>2. r <= remote'
      <3>1. remote' \in Nat
        BY <2>1, Consts
      <3>2. r <= remote
        BY <1>0
      <3> QED
        BY <1>t, <2>1, <3>1, <3>2
    <2>3. Current(r)'
      BY <1>0, <2>1, <2>2 DEF Current
    <2> QED
      BY <1>t, <2>3
  <1>2. CASE CopyFile(x)
    <2>1. remote' = remote
      BY <1>2, CopyFields
    <2>2. CASE mixed' = (mixed \/ \E f \in Fetchers : fetch[f].left # {})
      <3>1. \E f \in Fetchers : fetch[f].left # {}
        OBVIOUS
      <3>2. mixed' = TRUE
        BY <2>2, <3>1, Zenon
      <3> QED
        BY <3>2
    <2>3. CASE dir' = dir /\ \A n \in Files : dir[n] = Target(remote)[n]
      <3>1. Same(r, remote)
        BY <1>0, <1>t, <2>3, CurrentSame
      <3>2. dir[Stats] \in {Absent, Empty} \cup 0..remote
        BY DEF DirInv
      <3>3. Current(remote)'
        BY <1>t, <2>1, <2>3, <3>2 DEF Current
      <3> QED
        BY <1>t, <3>1, <3>3, <2>1, Zenon
    <2> QED
      BY <1>2, <2>2, <2>3, CopyFields
  <1>3. CASE ~Checkout(x) /\ ~CopyFile(x)
    <2>1. /\ ~Blocked /\ remote' = remote
          /\ \A n \in Files : dir'[n] = dir[n]
          /\ dir'[Stats] \in {dir[Stats], Empty} \cup 0..remote
      BY <1>3, RefreshCases
    <2>2. r = remote
      BY <1>0, <2>1
    <2>3. Current(r)'
      BY <1>0, <1>t, <2>1, <2>2 DEF Current
    <2> QED
      BY <1>t, <2>3
  <1> QED
    BY <1>1, <1>2, <1>3

\* So every tar goes on reading a revision.
LEMMA ReadsStay ==
    ASSUME Shapes, DirInv, NEW x \in Refreshers, AnyRefresh(x), mixed' = FALSE,
           NEW r \in Revs
    PROVE  \E q \in Revs : /\ Same(r, q)
                           /\ \A f \in Fetchers : Reads(f, r) => Reads(f, q)'
  <1>1. fetch' = fetch
    BY RefreshFrame
  <1>2. CASE \E g \in Fetchers : Reads(g, r) /\ fetch[g].left # {}
    <2>1. PICK g \in Fetchers : Reads(g, r) /\ fetch[g].left # {}
      BY <1>2
    <2>2. Current(r)
      BY <2>1 DEF Reads
    <2>3. PICK q \in Revs : Same(r, q) /\ Current(q)'
      BY <2>1, <2>2, CurrentStays
    <2>4. FilesOf[r] = FilesOf[q]
      BY <2>3 DEF Same
    <2>5. ASSUME NEW f \in Fetchers, Reads(f, r)
          PROVE  Reads(f, q)'
      <3>1. fetch[f].listed \subseteq FilesOf[q] \cup {Stats}
        BY <2>4, <2>5 DEF Reads
      <3>2. Chunk(fetch[f].pipe, q, fetch[f].left)
        BY <2>3, <2>5, ChunkSame DEF Reads
      <3> QED
        BY <1>1, <2>3, <3>1, <3>2 DEF Reads, Chunk
    <2> QED
      BY <2>3, <2>5
  <1>3. CASE ~\E g \in Fetchers : Reads(g, r) /\ fetch[g].left # {}
    <2>1. ASSUME NEW f \in Fetchers, Reads(f, r)
          PROVE  Reads(f, r)'
      BY <1>1, <1>3, <2>1 DEF Reads, Chunk
    <2> QED
      BY <2>1 DEF Same
  <1> QED
    BY <1>2, <1>3

\* What the slave has of the one revision, it has of the other.
LEMMA PartialSame ==
    ASSUME NEW r \in Revs, NEW q \in Revs, Same(r, q), Partial(r),
           UNCHANGED <<fetch, slave, orphans>>,
           \A f \in Fetchers : Reads(f, r) => Reads(f, q)'
    PROVE  Partial(q)'
  <1>0. FilesOf[r] = FilesOf[q] /\ 0..r \subseteq 0..q /\ Got(r) = Got(q) /\ Got(q)' = Got(q)
    <2>1. r \in Nat /\ q \in Nat
      BY Consts
    <2> QED
      BY <2>1 DEF Same, Got
  <1>1. Here(q)'
    <2>1. \A n \in Files : slave'.files[n] # Absent => n \in FilesOf[q] /\ slave'.files[n] = q
      BY DEF Partial, Here, Same
    <2> QED
      BY <1>0, <2>1 DEF Partial, Here
  <1>2. ASSUME NEW o \in orphans'
        PROVE  /\ Chunk(o, q, {})
               /\ Stats \in Piped(o) => FilesOf[q] \subseteq Piped(o) \cup Got(q)'
    <2>1. o \in orphans /\ Chunk(o, r, {})
      BY <1>2 DEF Partial, Late
    <2>2. Chunk(o, q, {})
      BY <2>1, ChunkSame
    <2> QED
      BY <1>0, <2>1, <2>2 DEF Partial, Late
  <1>3. ASSUME NEW f \in Fetchers
        PROVE  Extracting(f, q)'
    <2>1. Extracting(f, r) /\ (Reads(f, r) => Reads(f, q)')
      BY DEF Partial
    <2> QED
      BY <1>0, <2>1 DEF Extracting, Piped
  <1>4. Late(q)'
    BY <1>2 DEF Late, Chunk, Piped
  <1> QED
    BY <1>1, <1>3, <1>4 DEF Partial

\* A refresh keeps what the fetches know.
LEMMA RefreshClean ==
    ASSUME TarInv, NEW x \in Refreshers, AnyRefresh(x)
    PROVE  OneFetch' /\ ListedInv' /\ CleanInv'
  <1>0. UNCHANGED <<fetch, slave, orphans, overlapped, unremoved>>
    BY RefreshFrame
  <1>1. OneFetch'
    BY <1>0 DEF TarInv, OneFetch, Active
  <1>2. ListedInv'
    BY <1>0 DEF TarInv, ListedInv, Listed, Piped
  <1>3. ASSUME Clean'
        PROVE  Clean /\ mixed' = FALSE
    <2>1. mixed' = FALSE /\ overlapped = FALSE /\ unremoved = FALSE
      BY <1>0, <1>3 DEF Clean
    <2>2. mixed = FALSE
      <3>1. mixed \in BOOLEAN
        BY DEF TarInv, Shapes
      <3>2. CASE UNCHANGED mixed
        BY <2>1, <3>2
      <3>3. CASE mixed' = (mixed \/ \E f \in Fetchers : fetch[f].left # {})
        BY <2>1, <3>1, <3>3, Zenon
      <3>4. CASE Checkout(x)
        BY <3>2, <3>4 DEF Checkout
      <3> QED
        BY <3>2, <3>3, <3>4, RefreshCases, CopyFields DEF TarInv
    <2> QED
      BY <2>1, <2>2 DEF Clean
  <1>4. ASSUME Clean'
        PROVE  /\ \A f \in Fetchers : Ready(f)' /\ Alone(f)'
               /\ \E r \in Revs : Partial(r)'
    <2>1. /\ \A f \in Fetchers : Ready(f) /\ Alone(f)
          /\ \E r \in Revs : Partial(r)
      BY <1>3, <1>4 DEF TarInv, CleanInv
    <2>2. mixed' = FALSE /\ Shapes /\ DirInv
      BY <1>3, <1>4 DEF TarInv
    <2>3. ASSUME NEW f \in Fetchers
          PROVE  Ready(f)'
      <3>1. SUFFICES ASSUME fetch'[f].at \in {"response", "cleared"}
                     PROVE  \E r \in Revs : /\ Reads(f, r)'
                               /\ FilesOf[r] \subseteq fetch'[f].left \cup Piped(fetch'[f].pipe)
        BY DEF Ready, Piped
      <3>2. PICK r \in Revs : /\ Reads(f, r)
                              /\ FilesOf[r] \subseteq fetch[f].left \cup Piped(fetch[f].pipe)
        BY <1>0, <2>1, <3>1 DEF Ready
      <3>3. PICK q \in Revs : Same(r, q) /\ \A g \in Fetchers : Reads(g, r) => Reads(g, q)'
        BY <2>2, ReadsStay
      <3>4. FilesOf[q] = FilesOf[r]
        BY <3>3 DEF Same
      <3> QED
        BY <1>0, <3>2, <3>3, <3>4
    <2>4. \E r \in Revs : Partial(r)'
      <3>1. PICK r \in Revs : Partial(r)
        BY <2>1
      <3>2. PICK q \in Revs : Same(r, q) /\ \A g \in Fetchers : Reads(g, r) => Reads(g, q)'
        BY <2>2, ReadsStay
      <3>3. Partial(q)'
        BY <1>0, <3>1, <3>2, PartialSame
      <3> QED
        BY <3>3
    <2>5. \A f \in Fetchers : Alone(f)'
      BY <1>0, <2>1 DEF Alone, Nothing
    <2> QED
      BY <2>3, <2>4, <2>5
  <1>5. CleanInv'
    BY <1>4 DEF CleanInv
  <1> QED
    BY <1>1, <1>2, <1>5

-----------------------------------------------------------------------------
(* The fetches: types, and one at a time                                   *)

AnyFetch(f) == FetchStep(f) \/ ClearFail(f) \/ Break(f)

\* A fetch leaves the API process alone.
LEMMA FetchFrame ==
    ASSUME NEW f \in Fetchers, AnyFetch(f)
    PROVE  UNCHANGED api
  BY DEF AnyFetch, FetchStep, FetchStart, NotLoaded, Accept, ListFiles, ReadFile, Clear, ClearFail,
         StartTar, ExtractFile, Break, LoseDirectory, Finish

\* The slave leaves the directory of the API process alone.
LEMMA ApiDir ==
    ASSUME DirInv, UNCHANGED api
    PROVE  DirInv' /\ \A r : Current(r) => Current(r)'
  BY DEF api, DirInv, Current, Blocked, Target

\* A fetch that changes keeps the types.
LEMMA FetchShapes ==
    ASSUME Shapes, UNCHANGED api, NEW f \in Fetchers,
           fetch' \in [Fetchers -> FetchRec],
           \A g \in Fetchers : g # f => fetch'[g] = fetch[g],
           fetch'[f].left \subseteq fetch'[f].listed,
           Trying(f)' => fetch'[f].tries > 0,
           asked' \in Nat, slave' \in [files : [Names -> Contents], gen : Nat],
           orphans' \subseteq Seq(Part) \ {<<>>}, faults' \in 0..MaxFaults,
           overlapped' \in BOOLEAN, unremoved' \in BOOLEAN
    PROVE  Shapes'
  <1>1. \A g \in Fetchers : /\ fetch[g].left \subseteq fetch[g].listed
                            /\ Trying(g) => fetch[g].tries > 0
    BY DEF Shapes
  <1>2. \A g \in Fetchers : g # f => (Trying(g)' <=> Trying(g))
    BY DEF Trying
  <1>3. \A g \in Fetchers : /\ fetch'[g].left \subseteq fetch'[g].listed
                            /\ Trying(g)' => fetch'[g].tries > 0
    BY <1>1, <1>2
  <1>4. /\ remote' \in Revs /\ dir' \in [Names -> Contents] /\ loaded' \in BOOLEAN
        /\ refresh' \in [Refreshers -> RefreshRec] /\ mixed' \in BOOLEAN
    BY DEF Shapes, api
  <1> QED
    BY <1>3, <1>4 DEF Shapes

\* What a fault, a lost directory or a handler that is not loaded leaves of a fetch.
LEMMA GiveUpShapes ==
    ASSUME Shapes, UNCHANGED api, NEW f \in Fetchers, Active(f),
           NEW rest \in Seq(Part), GiveUp(f, rest),
           asked' = asked, slave' \in [files : [Names -> Contents], gen : Nat],
           faults' \in 0..MaxFaults, overlapped' = overlapped, unremoved' \in BOOLEAN
    PROVE  Shapes'
  <1>1. /\ fetch' \in [Fetchers -> FetchRec]
        /\ \A g \in Fetchers : g # f => fetch'[g] = fetch[g]
        /\ fetch'[f].at \in {"ask", "failed"}
        /\ fetch'[f].at = "ask" => fetch'[f].tries > 0
        /\ fetch'[f].left = {}
        /\ orphans' = orphans \cup ({rest} \ {<<>>})
    BY GiveUpFields
  <1>2. Trying(f)' => fetch'[f].tries > 0
    BY <1>1 DEF Trying
  <1>3. orphans' \subseteq Seq(Part) \ {<<>>}
    BY <1>1 DEF Shapes
  <1>4. asked' \in Nat /\ overlapped' \in BOOLEAN /\ fetch'[f].left \subseteq fetch'[f].listed
    BY <1>1 DEF Shapes
  <1> QED
    BY <1>1, <1>2, <1>3, <1>4, FetchShapes

\* A fault is one of the budget.
LEMMA AnyFault ==
    ASSUME Shapes, Fault \/ UNCHANGED faults
    PROVE  faults' \in 0..MaxFaults
  BY TarballAssumption DEF Shapes, Fault

\* A tar extracts a file: the directory holds it, and the others as before.
LEMMA ExtractedFields ==
    ASSUME Shapes, NEW e \in Part, Extracted(e)
    PROVE  /\ slave' \in [files : [Names -> Contents], gen : Nat]
           /\ slave'.gen = slave.gen /\ slave'.files[e.name] = e.holds
           /\ \A n \in Names : n # e.name => slave'.files[n] = slave.files[n]
           /\ e.holds # Absent /\ e.name \in Names
  <1> DEFINE m == e.name
             h == e.holds
  <1>1. m \in Names /\ h \in Contents /\ h # Absent
    BY DEF Part
  <1>2. slave' = [slave EXCEPT !.files[m] = h]
    BY Zenon DEF Extracted
  <1>3. slave \in [files : [Names -> Contents], gen : Nat]
    BY DEF Shapes
  <1> HIDE DEF m, h
  <1>4. /\ slave' \in [files : [Names -> Contents], gen : Nat]
        /\ slave'.gen = slave.gen /\ slave'.files[m] = h
        /\ \A n \in Names : n # m => slave'.files[n] = slave.files[n]
    BY <1>1, <1>2, <1>3
  <1> QED
    BY <1>1, <1>4 DEF m, h

\* The same for the tar of a fetch.
LEMMA ExtractFields ==
    ASSUME Shapes, NEW f \in Fetchers, ExtractFile(f)
    PROVE  /\ fetch[f].at = "extract" /\ fetch[f].pipe # <<>> /\ fetch[f].pipe \in Seq(Part)
           /\ Head(fetch[f].pipe) \in Part /\ Extracted(Head(fetch[f].pipe))
           /\ fetch' \in [Fetchers -> FetchRec]
           /\ \A g \in Fetchers : g # f => fetch'[g] = fetch[g]
           /\ fetch'[f].at = "extract" /\ fetch'[f].tries = fetch[f].tries
           /\ fetch'[f].listed = fetch[f].listed /\ fetch'[f].left = fetch[f].left
           /\ fetch'[f].pipe = Tail(fetch[f].pipe) /\ fetch'[f].bad = fetch[f].bad
           /\ fetch'[f].gen = fetch[f].gen
  <1> DEFINE c == fetch[f]
             s == Tail(c.pipe)
             v == [c EXCEPT !.pipe = s]
  <1>1. c \in FetchRec /\ c.at = "extract" /\ c.pipe # <<>> /\ Extracted(Head(c.pipe))
    BY DEF Shapes, ExtractFile
  <1>2. c.pipe \in Seq(Part)
    BY <1>1 DEF FetchRec
  <1>3. Head(c.pipe) \in Part /\ s \in Seq(Part)
    BY <1>1, <1>2, HeadTailProperties
  <1>4. fetch' = [fetch EXCEPT ![f] = v]
    BY Zenon DEF ExtractFile
  <1> HIDE DEF c, s
  <1>5. /\ v \in FetchRec /\ v.at = c.at /\ v.tries = c.tries /\ v.listed = c.listed
        /\ v.left = c.left /\ v.pipe = s /\ v.bad = c.bad /\ v.gen = c.gen
    BY <1>1, <1>3 DEF FetchRec
  <1> HIDE DEF v
  <1>6. Changed(f, v)
    BY <1>4, <1>5, FetchSet
  <1> QED
    BY <1>1, <1>2, <1>3, <1>5, <1>6 DEF Changed, c, s

\* What the start of a tar changes (_do_fetch).
LEMMA StartFields ==
    ASSUME Shapes, NEW f \in Fetchers, StartTar(f)
    PROVE  /\ fetch[f].at = "cleared"
           /\ fetch' \in [Fetchers -> FetchRec]
           /\ \A g \in Fetchers : g # f => fetch'[g] = fetch[g]
           /\ fetch'[f].at = "extract" /\ fetch'[f].tries = fetch[f].tries
           /\ fetch'[f].listed = fetch[f].listed /\ fetch'[f].left = fetch[f].left
           /\ fetch'[f].pipe = fetch[f].pipe /\ fetch'[f].bad = fetch[f].bad
           /\ fetch'[f].gen = slave.gen
  <1> DEFINE c == fetch[f]
             k == slave.gen
             v == [c EXCEPT !.at = "extract", !.gen = k]
  <1>1. c \in FetchRec /\ c.at = "cleared" /\ k \in Nat
    BY DEF Shapes, StartTar
  <1>2. fetch' = [fetch EXCEPT ![f] = v]
    BY Zenon DEF StartTar
  <1> HIDE DEF c, k
  <1>3. /\ v \in FetchRec /\ v.at = "extract" /\ v.tries = c.tries /\ v.listed = c.listed
        /\ v.left = c.left /\ v.pipe = c.pipe /\ v.bad = c.bad /\ v.gen = k
    BY <1>1 DEF FetchRec, Ats
  <1> HIDE DEF v
  <1>4. Changed(f, v)
    BY <1>2, <1>3, FetchSet
  <1> QED
    BY <1>1, <1>3, <1>4 DEF Changed, c, k

\* Every step of a fetch keeps the types.
LEMMA FetchTypes ==
    ASSUME Shapes, NEW f \in Fetchers, AnyFetch(f)
    PROVE  Shapes'
  <1>0. UNCHANGED api
    BY FetchFrame
  <1>t. /\ asked \in Nat /\ slave \in [files : [Names -> Contents], gen : Nat]
        /\ orphans \subseteq Seq(Part) \ {<<>>} /\ faults \in 0..MaxFaults
        /\ overlapped \in BOOLEAN /\ unremoved \in BOOLEAN
        /\ fetch[f] \in FetchRec /\ fetch[f].left \subseteq fetch[f].listed
        /\ (Trying(f) => fetch[f].tries > 0)
        /\ <<>> \in Seq(Part) /\ fetch[f].pipe \in Seq(Part)
    BY EmptySeq DEF Shapes, FetchRec
  <1>n. /\ Nothing \in [Names -> Contents] /\ slave.gen \in Nat /\ slave.gen + 1 \in Nat
        /\ slave.files \in [Names -> Contents]
    BY <1>t, NothingFields
  <1>1. CASE FetchStart(f)
    <2>1. asked > 0 /\ asked' = asked - 1 /\ fetch' = [fetch EXCEPT ![f].at = "ask"]
          /\ UNCHANGED <<slave, orphans, faults, unremoved>>
          /\ overlapped' = (overlapped \/
                      \E g \in Fetchers : fetch[g].at \notin {"new", "done", "failed"})
      BY <1>1 DEF FetchStart
    <2>2. asked' \in Nat
      BY <1>t, <2>1
    <2>3. overlapped' \in BOOLEAN
      BY <1>t, <2>1, Zenon
    <2>4. fetch[f].tries > 0
      BY <1>1 DEF FetchStart, Shapes, Trying
    <2> QED
      BY <1>0, <1>t, <2>1, <2>2, <2>3, <2>4, FetchAt, FetchShapes DEF Ats
  <1>2. CASE NotLoaded(f)
    <2>1. /\ GiveUp(f, <<>>) /\ UNCHANGED <<asked, slave, faults, overlapped, unremoved>>
          /\ fetch[f].at = "ask"
      BY <1>2, Zenon DEF NotLoaded
    <2>2. Active(f)
      BY <2>1 DEF Active
    <2> QED
      BY <1>0, <1>t, <2>1, <2>2, GiveUpShapes
  <1>3. CASE Accept(f)
    <2>1. /\ fetch' = [fetch EXCEPT ![f].at = "accepted"] /\ fetch[f].at = "ask"
          /\ UNCHANGED <<asked, slave, orphans, faults, overlapped, unremoved>>
      BY <1>3 DEF Accept
    <2>2. fetch[f].tries > 0
      BY <1>t, <2>1 DEF Trying
    <2> QED
      BY <1>0, <1>t, <2>1, <2>2, FetchAt, FetchShapes DEF Ats
  <1>4. CASE ListFiles(f)
    <2>1. UNCHANGED <<asked, slave, orphans, faults, overlapped, unremoved>>
      BY <1>4 DEF ListFiles
    <2>2. /\ fetch' \in [Fetchers -> FetchRec]
          /\ \A g \in Fetchers : g # f => fetch'[g] = fetch[g]
          /\ fetch'[f].tries = fetch[f].tries
          /\ fetch'[f].left \subseteq fetch'[f].listed
          /\ fetch[f].at = "accepted"
      BY <1>4, ListFields
    <2>3. fetch[f].tries > 0
      BY <1>t, <2>2 DEF Trying
    <2> QED
      BY <1>0, <1>t, <2>1, <2>2, <2>3, FetchShapes
  <1>5. CASE ReadFile(f)
    <2>1. UNCHANGED <<asked, slave, orphans, faults, overlapped, unremoved>>
      BY <1>5 DEF ReadFile
    <2>2. /\ fetch' \in [Fetchers -> FetchRec]
          /\ \A g \in Fetchers : g # f => fetch'[g] = fetch[g]
          /\ fetch'[f].tries = fetch[f].tries
          /\ fetch'[f].listed = fetch[f].listed
          /\ \E n \in fetch[f].left : fetch'[f].left = fetch[f].left \ {n}
          /\ fetch[f].at \in {"response", "cleared", "extract"}
      BY <1>5, ReadFields
    <2>3. fetch[f].tries > 0
      BY <1>t, <2>2 DEF Trying
    <2>4. fetch'[f].left \subseteq fetch'[f].listed
      BY <1>t, <2>2
    <2> QED
      BY <1>0, <1>t, <2>1, <2>2, <2>3, <2>4, FetchShapes
  <1>6. CASE Clear(f)
    <2>1. /\ fetch' = [fetch EXCEPT ![f].at = "cleared"] /\ fetch[f].at = "response"
          /\ slave' = [files |-> Nothing, gen |-> slave.gen + 1] /\ orphans' = {}
          /\ UNCHANGED <<asked, faults, overlapped, unremoved>>
      BY <1>6 DEF Clear
    <2>2. fetch[f].tries > 0
      BY <1>t, <2>1 DEF Trying
    <2>3. slave' \in [files : [Names -> Contents], gen : Nat]
      BY <1>n, <2>1
    <2> QED
      BY <1>0, <1>t, <2>1, <2>2, <2>3, FetchAt, FetchShapes DEF Ats
  <1>7. CASE ClearFail(f)
    <2>1. /\ GiveUp(f, <<>>) /\ UNCHANGED <<asked, overlapped>> /\ unremoved' = TRUE
          /\ fetch[f].at = "response" /\ Fault
          /\ slave' = [slave EXCEPT !.files = Nothing]
      BY <1>7, Zenon DEF ClearFail
    <2>2. Active(f)
      BY <2>1 DEF Active
    <2>3. slave' \in [files : [Names -> Contents], gen : Nat]
      BY <1>t, <1>n, <2>1
    <2>4. faults' \in 0..MaxFaults
      BY <2>1, AnyFault
    <2> QED
      BY <1>0, <1>t, <2>1, <2>2, <2>3, <2>4, GiveUpShapes
  <1>8. CASE StartTar(f)
    <2>1. UNCHANGED <<asked, slave, orphans, faults, overlapped, unremoved>>
      BY <1>8 DEF StartTar
    <2>2. fetch[f].tries > 0
      BY <1>t, <1>8, StartFields DEF Trying
    <2> QED
      BY <1>0, <1>t, <1>8, <2>1, <2>2, StartFields, FetchShapes
  <1>9. CASE ExtractFile(f)
    <2>1. UNCHANGED <<asked, orphans, faults, overlapped, unremoved>>
      BY <1>9 DEF ExtractFile
    <2>2. fetch[f].tries > 0
      BY <1>t, <1>9, ExtractFields DEF Trying
    <2>3. slave' \in [files : [Names -> Contents], gen : Nat]
      BY <1>9, ExtractFields, ExtractedFields
    <2> QED
      BY <1>0, <1>t, <1>9, <2>1, <2>2, <2>3, ExtractFields, FetchShapes
  <1>10. CASE Break(f)
    <2> DEFINE rest == IF InDirectory(f) THEN fetch[f].pipe ELSE <<>>
    <2>1. /\ GiveUp(f, rest) /\ UNCHANGED <<asked, slave, overlapped, unremoved>>
          /\ fetch[f].at = "extract" /\ (Fault \/ UNCHANGED faults)
      BY <1>10 DEF Break
    <2>2. Active(f)
      BY <2>1 DEF Active
    <2>3. rest \in Seq(Part)
      BY <1>t
    <2>4. faults' \in 0..MaxFaults
      BY <2>1, AnyFault
    <2> HIDE DEF rest
    <2> QED
      BY <1>0, <1>t, <2>1, <2>2, <2>3, <2>4, GiveUpShapes
  <1>11. CASE LoseDirectory(f)
    <2>1. /\ GiveUp(f, <<>>) /\ UNCHANGED <<asked, slave, faults, overlapped, unremoved>>
          /\ fetch[f].at = "extract"
      BY <1>11, Zenon DEF LoseDirectory
    <2>2. Active(f)
      BY <2>1 DEF Active
    <2> QED
      BY <1>0, <1>t, <2>1, <2>2, GiveUpShapes
  <1>12. CASE Finish(f)
    <2>1. /\ fetch' = [fetch EXCEPT ![f].at = "done"] /\ fetch[f].at = "extract"
          /\ UNCHANGED <<asked, slave, orphans, faults, overlapped, unremoved>>
      BY <1>12 DEF Finish
    <2>2. fetch[f].tries > 0
      BY <1>t, <2>1 DEF Trying
    <2> QED
      BY <1>0, <1>t, <2>1, <2>2, FetchAt, FetchShapes DEF Ats
  <1> QED
    BY <1>1, <1>2, <1>3, <1>4, <1>5, <1>6, <1>7, <1>8, <1>9, <1>10, <1>11, <1>12
    DEF AnyFetch, FetchStep

\* A tar that was left behind only changes the slave.
LEMMA LateTypes ==
    ASSUME Shapes, ExtractLate
    PROVE  /\ Shapes' /\ UNCHANGED <<api, fetch, overlapped, unremoved>>
           /\ \E o \in orphans : /\ o \in Seq(Part) /\ o # <<>> /\ Head(o) \in Part
                                 /\ Extracted(Head(o))
                                 /\ orphans' = (orphans \ {o}) \cup ({Tail(o)} \ {<<>>})
  <1>1. PICK o \in orphans : /\ orphans' = (orphans \ {o}) \cup ({Tail(o)} \ {<<>>})
                             /\ Extracted(Head(o))
                             /\ UNCHANGED <<api, asked, fetch, faults, overlapped, unremoved>>
    BY Zenon DEF ExtractLate
  <1>2. o \in Seq(Part) /\ o # <<>>
    BY DEF Shapes
  <1>3. Head(o) \in Part /\ Tail(o) \in Seq(Part)
    BY <1>2, HeadTailProperties
  <1>4. slave' \in [files : [Names -> Contents], gen : Nat]
    BY <1>1, <1>3, ExtractedFields
  <1>5. orphans' \subseteq Seq(Part) \ {<<>>}
    BY <1>1, <1>3 DEF Shapes
  <1>6. Shapes'
    <2>1. \A f \in Fetchers : /\ fetch[f].left \subseteq fetch[f].listed
                              /\ Trying(f) => fetch[f].tries > 0
      BY DEF Shapes
    <2>2. \A f \in Fetchers : /\ fetch'[f].left \subseteq fetch'[f].listed
                              /\ Trying(f)' => fetch'[f].tries > 0
      BY <1>1, <2>1 DEF Trying
    <2> QED
      BY <1>1, <1>4, <1>5, <2>2 DEF Shapes, api
  <1> QED
    BY <1>1, <1>2, <1>3, <1>6

-----------------------------------------------------------------------------
(* The fetches: what they read, and what they extract                      *)

\* Whoever is under way has been asked for; a second one that starts says so.
LEMMA FetchOnes ==
    ASSUME Shapes, OneFetch, NEW f \in Fetchers, AnyFetch(f)
    PROVE  OneFetch'
  <1>1. CASE FetchStart(f)
    <2>1. /\ fetch' = [fetch EXCEPT ![f].at = "ask"]
          /\ overlapped' = (overlapped \/
                      \E g \in Fetchers : fetch[g].at \notin {"new", "done", "failed"})
      BY <1>1 DEF FetchStart
    <2>2. \A g \in Fetchers : g # f => fetch'[g] = fetch[g]
      BY <2>1, FetchAt DEF Ats
    <2>3. overlapped' = FALSE => \A g \in Fetchers : ~Active(g)
      BY <2>1, Zenon DEF Active
    <2> QED
      BY <2>2, <2>3 DEF OneFetch, Active
  <1>2. CASE ~FetchStart(f)
    <2>1. /\ Active(f) /\ overlapped' = overlapped
          /\ \A g \in Fetchers : g # f => fetch'[g] = fetch[g]
      <3>1. CASE NotLoaded(f) \/ ClearFail(f) \/ Break(f) \/ LoseDirectory(f)
        <4>1. Active(f) /\ overlapped' = overlapped
          BY <3>1 DEF NotLoaded, ClearFail, Break, LoseDirectory, Active
        <4>2. \E rest : GiveUp(f, rest)
          BY <3>1, Zenon DEF NotLoaded, ClearFail, Break, LoseDirectory
        <4> QED
          BY <4>1, <4>2, GiveUpFields
      <3>2. CASE Accept(f) \/ Clear(f) \/ Finish(f)
        <4>1. Active(f) /\ overlapped' = overlapped
          BY <3>2 DEF Accept, Clear, Finish, Active
        <4>2. \E a \in {"accepted", "cleared", "done"} : fetch' = [fetch EXCEPT ![f].at = a]
          BY <3>2 DEF Accept, Clear, Finish
        <4> QED
          BY <4>1, <4>2, FetchAt DEF Ats
      <3>3. CASE ListFiles(f)
        BY <3>3, ListFields DEF ListFiles, Active
      <3>4. CASE ReadFile(f)
        BY <3>4, ReadFields DEF ReadFile, Active
      <3>5. CASE StartTar(f)
        BY <3>5, StartFields DEF StartTar, Active
      <3>6. CASE ExtractFile(f)
        BY <3>6, ExtractFields DEF ExtractFile, Active
      <3> QED
        BY <1>2, <3>1, <3>2, <3>3, <3>4, <3>5, <3>6 DEF AnyFetch, FetchStep
    <2> QED
      BY <2>1 DEF OneFetch, Active
  <1> QED
    BY <1>1, <1>2

\* Of fetches that do not overlap, only the one that takes a step says anything.
LEMMA OnlyOne ==
    ASSUME OneFetch', overlapped' = FALSE, NEW f \in Fetchers,
           \A g \in Fetchers : g # f => fetch'[g] = fetch[g],
           (\A g \in Fetchers : g # f => ~Active(g)),
           Listed(f)'
    PROVE  /\ ListedInv'
           /\ \A g \in Fetchers : g # f => Ready(g)' /\ Alone(g)'
           /\ \A g \in Fetchers, r \in Revs : g # f => Extracting(g, r)'
  <1>1. \A g \in Fetchers : g # f =>
          fetch'[g].at \notin {"response", "cleared", "extract"}
    BY DEF Active
  <1>2. \A g \in Fetchers : g # f => Listed(g)' /\ Ready(g)' /\ Alone(g)'
    BY <1>1 DEF Listed, Ready, Alone
  <1>3. \A g \in Fetchers, r \in Revs : g # f => Extracting(g, r)'
    BY <1>1 DEF Extracting
  <1> QED
    BY <1>2, <1>3 DEF ListedInv

\* The other fetches are not under way when one takes a step.
LEMMA OthersRest ==
    ASSUME Shapes, OneFetch, NEW f \in Fetchers, AnyFetch(f), overlapped' = FALSE
    PROVE  /\ \A g \in Fetchers : g # f => ~Active(g)
           /\ overlapped = FALSE
           /\ ~FetchStart(f) => Active(f)
  <1>1. CASE FetchStart(f)
    <2>1. overlapped' = (overlapped \/
                      \E g \in Fetchers : fetch[g].at \notin {"new", "done", "failed"})
      BY <1>1 DEF FetchStart
    <2>2. overlapped = FALSE /\ \A g \in Fetchers : ~Active(g)
      <3>1. overlapped \in BOOLEAN
        BY DEF Shapes
      <3> QED
        BY <2>1, <3>1, Zenon DEF Active
    <2> QED
      BY <1>1, <2>2
  <1>2. CASE ~FetchStart(f)
    <2>1. Active(f) /\ overlapped' = overlapped
      BY <1>2 DEF AnyFetch, FetchStep, NotLoaded, Accept, ListFiles, ReadFile, Clear, ClearFail,
                  StartTar, ExtractFile, Break, LoseDirectory, Finish, Active
    <2> QED
      BY <2>1 DEF OneFetch
  <1> QED
    BY <1>1, <1>2

\* A tar that extracts a file of a revision leaves the slave with more of it.
LEMMA PutFile ==
    ASSUME Shapes, NEW r \in Revs, NEW e \in Part, Extracted(e), Here(r),
           \/ e.name \in FilesOf[r] /\ e.holds = r
           \/ e.name = Stats /\ e.holds \in {Empty} \cup 0..r /\ FilesOf[r] \subseteq Got(r)
    PROVE  /\ Here(r)' /\ Got(r) \subseteq Got(r)'
           /\ e.name # Stats => e.name \in Got(r)'
           /\ e.name = Stats => FilesOf[r] \subseteq Got(r)'
  <1>1. /\ slave'.files[e.name] = e.holds
        /\ \A n \in Names : n # e.name => slave'.files[n] = slave.files[n]
    BY ExtractedFields
  <1>2. FilesOf[r] \subseteq Files /\ Files \subseteq Names /\ Stats \in Names /\ Stats \notin Files
    BY Consts
  <1>3. CASE e.name \in FilesOf[r] /\ e.holds = r
    <2>1. Got(r) \subseteq Got(r)' /\ e.name \in Got(r)' /\ e.name # Stats
      BY <1>1, <1>2, <1>3 DEF Got
    <2>2. slave'.files[Stats] = slave.files[Stats]
      BY <1>1, <1>2, <2>1
    <2>3. \A n \in Files : slave'.files[n] # Absent => n \in FilesOf[r] /\ slave'.files[n] = r
      BY <1>1, <1>2, <1>3 DEF Here
    <2> QED
      BY <2>1, <2>2, <2>3 DEF Here
  <1>4. CASE e.name = Stats /\ e.holds \in {Empty} \cup 0..r /\ FilesOf[r] \subseteq Got(r)
    <2>1. Got(r) \subseteq Got(r)'
      BY <1>1, <1>2, <1>4 DEF Got
    <2>2. \A n \in Files : slave'.files[n] = slave.files[n]
      BY <1>1, <1>2, <1>4
    <2> QED
      BY <1>1, <1>4, <2>1, <2>2 DEF Here
  <1> QED
    BY <1>3, <1>4

\* The first file of a chunk is one of its revision, or .gitstats as the last of all.
LEMMA ChunkHead ==
    ASSUME NEW s \in Seq(Part), s # <<>>, NEW r \in Revs, NEW left, Chunk(s, r, left)
    PROVE  /\ Head(s) \in Part
           /\ \/ Head(s).name \in FilesOf[r] /\ Head(s).holds = r
              \/ /\ Head(s).name = Stats /\ Head(s).holds \in {Empty} \cup 0..r
                 /\ Tail(s) = <<>> /\ Piped(s) = {Stats} /\ left = {}
  <1>1. 1 \in 1..Len(s) /\ Head(s) = s[1] /\ Head(s) \in Part
    BY HeadTailProperties, EmptySeq, LenProperties
  <1> DEFINE e == Head(s)
  <1>2. /\ e.name \in FilesOf[r] \cup {Stats}
        /\ e.name # Stats => e.holds = r
        /\ e.name = Stats => e.holds \in {Empty} \cup 0..r /\ left = {}
    BY <1>1 DEF Chunk
  <1>3. e.name = Stats => Tail(s) = <<>>
    BY ChunkTail
  <1>4. Piped(s) = {e.name} \cup Piped(Tail(s))
    BY PipedTail
  <1> HIDE DEF e
  <1>5. e.name = Stats => Piped(s) = {Stats}
    BY <1>3, <1>4, PipedEmpty
  <1>6. \/ e.name \in FilesOf[r] /\ e.holds = r
        \/ /\ e.name = Stats /\ e.holds \in {Empty} \cup 0..r
           /\ Tail(s) = <<>> /\ Piped(s) = {Stats} /\ left = {}
    BY <1>2, <1>3, <1>5
  <1> QED
    BY <1>1, <1>6 DEF e

\* No file that the handler has listed gets lost.
LEMMA FetchListed ==
    ASSUME TarInv, NEW f \in Fetchers, AnyFetch(f), overlapped = FALSE
    PROVE  Listed(f)'
  <1>0. Shapes /\ Listed(f) /\ fetch[f].bad \in BOOLEAN /\ fetch[f].pipe \in Seq(Part)
    BY DEF TarInv, ListedInv, Shapes, FetchRec
  <1>1. CASE fetch'[f].at \notin {"response", "cleared", "extract"}
    BY <1>1 DEF Listed
  <1>2. CASE ListFiles(f)
    BY <1>0, <1>2, ListFields DEF Listed
  <1>3. CASE ReadFile(f)
    <2>1. /\ fetch'[f].at = fetch[f].at /\ fetch'[f].listed = fetch[f].listed
          /\ fetch'[f].gen = fetch[f].gen /\ slave' = slave
      BY <1>0, <1>3, ReadFields DEF ReadFile
    <2>2. PICK n \in fetch[f].left :
                /\ n = Stats => fetch[f].left = {Stats}
                /\ fetch'[f].left = fetch[f].left \ {n}
                /\ \/ /\ dir[n] = Absent
                      /\ fetch'[f].pipe = fetch[f].pipe /\ fetch'[f].bad = TRUE
                   \/ /\ dir[n] # Absent
                      /\ fetch'[f].bad = fetch[f].bad
                      /\ \E e \in Part : e.name = n /\ e.holds = dir[n] /\
                                         fetch'[f].pipe = Append(fetch[f].pipe, e)
      BY <1>0, <1>3, ReadFields
    <2>3. CASE fetch'[f].bad = TRUE
      BY <1>0, <2>1, <2>3 DEF Listed
    <2>4. CASE fetch'[f].bad = fetch[f].bad /\
               \E e \in Part : e.name = n /\ fetch'[f].pipe = Append(fetch[f].pipe, e)
      <3>1. Piped(fetch'[f].pipe) = Piped(fetch[f].pipe) \cup {n}
        BY <1>0, <2>4, PipedAppend
      <3>2. fetch'[f].left \cup Piped(fetch'[f].pipe) = fetch[f].left \cup Piped(fetch[f].pipe)
        BY <2>2, <3>1
      <3>3. Piped(fetch[f].pipe)' = Piped(fetch'[f].pipe)
        BY DEF Piped
      <3> HIDE DEF Piped
      <3> QED
        BY <1>0, <2>1, <2>4, <3>2, <3>3 DEF Listed
    <2> QED
      BY <2>2, <2>3, <2>4
  <1>4. CASE Clear(f)
    <2>1. fetch' = [fetch EXCEPT ![f].at = "cleared"] /\ fetch[f].at = "response"
      BY <1>4 DEF Clear
    <2>2. /\ fetch'[f].at = "cleared" /\ fetch'[f].listed = fetch[f].listed
          /\ fetch'[f].left = fetch[f].left /\ fetch'[f].pipe = fetch[f].pipe
          /\ fetch'[f].bad = fetch[f].bad
      BY <1>0, <2>1, FetchAt DEF Ats
    <2> QED
      BY <1>0, <2>1, <2>2 DEF Listed, Piped
  <1>5. CASE StartTar(f)
    <2>1. /\ fetch[f].at = "cleared" /\ fetch'[f].at = "extract"
          /\ fetch'[f].listed = fetch[f].listed /\ fetch'[f].left = fetch[f].left
          /\ fetch'[f].pipe = fetch[f].pipe /\ fetch'[f].bad = fetch[f].bad
          /\ fetch'[f].gen = slave.gen
      BY <1>0, <1>5, StartFields
    <2>2. slave' = slave
      BY <1>5 DEF StartTar
    <2>3. fetch[f].bad = FALSE =>
            fetch[f].listed \subseteq fetch[f].left \cup Piped(fetch[f].pipe)
      BY <1>0, <2>1 DEF Listed
    <2>4. Piped(fetch[f].pipe)' = Piped(fetch[f].pipe)
      BY <2>1 DEF Piped
    <2> QED
      BY <2>1, <2>2, <2>3, <2>4 DEF Listed
  <1>6. CASE ExtractFile(f)
    <2> DEFINE e == Head(fetch[f].pipe)
    <2>1. /\ fetch[f].at = "extract" /\ fetch[f].pipe # <<>> /\ e \in Part /\ Extracted(e)
          /\ fetch'[f].listed = fetch[f].listed /\ fetch'[f].left = fetch[f].left
          /\ fetch'[f].pipe = Tail(fetch[f].pipe) /\ fetch'[f].bad = fetch[f].bad
          /\ fetch'[f].gen = fetch[f].gen /\ fetch'[f].at = "extract"
      BY <1>0, <1>6, ExtractFields
    <2>2. Piped(fetch[f].pipe) = {e.name} \cup Piped(fetch'[f].pipe)
      BY <1>0, <2>1, PipedTail
    <2> HIDE DEF e
    <2>3. /\ slave'.gen = slave.gen /\ slave'.files[e.name] = e.holds /\ e.holds # Absent
          /\ \A n \in Names : n # e.name => slave'.files[n] = slave.files[n]
      BY <1>0, <2>1, ExtractedFields
    <2>4. fetch[f].listed \subseteq Names
      BY <1>0 DEF Shapes, FetchRec
    <2>5. Piped(fetch[f].pipe)' = Piped(fetch'[f].pipe)
      BY DEF Piped
    <2>6. ASSUME fetch[f].bad = FALSE, NEW n \in fetch[f].listed
          PROVE  n \in fetch[f].left \cup Piped(fetch'[f].pipe) \/ slave'.files[n] # Absent
      <3>1. n \in fetch[f].left \cup Piped(fetch[f].pipe) \/ slave.files[n] # Absent
        BY <1>0, <2>1, <2>6 DEF Listed
      <3> QED
        BY <2>2, <2>3, <2>4, <3>1
    <2>7. fetch'[f].gen = slave'.gen
      BY <1>0, <2>1, <2>3 DEF Listed
    <2> QED
      BY <2>1, <2>5, <2>6, <2>7 DEF Listed
  <1>7. CASE FetchStart(f) \/ Accept(f) \/ Finish(f)
    <2>1. \E a \in {"ask", "accepted", "done"} : fetch' = [fetch EXCEPT ![f].at = a]
      BY <1>7 DEF FetchStart, Accept, Finish
    <2>2. fetch'[f].at \in {"ask", "accepted", "done"}
      BY <1>0, <2>1, FetchAt DEF Ats
    <2> QED
      BY <1>1, <2>2
  <1>8. CASE NotLoaded(f) \/ ClearFail(f) \/ Break(f) \/ LoseDirectory(f)
    <2>1. Active(f)
      BY <1>8 DEF NotLoaded, ClearFail, Break, LoseDirectory, Active
    <2>2. \E rest : GiveUp(f, rest)
      BY <1>8, Zenon DEF NotLoaded, ClearFail, Break, LoseDirectory
    <2> QED
      BY <1>0, <1>1, <2>1, <2>2, GiveUpFields
  <1> QED
    BY <1>2, <1>3, <1>4, <1>5, <1>6, <1>7, <1>8 DEF AnyFetch, FetchStep

\* A tar that reads goes on reading all of its revision: a file can be gone only if it is
\* the hash, which was not there when the tar came to it.
LEMMA ReadOn ==
    ASSUME Shapes, NEW f \in Fetchers, ReadFile(f), NEW r \in Revs, Reads(f, r), NEW X,
           FilesOf[r] \subseteq fetch[f].left \cup Piped(fetch[f].pipe) \cup X,
           Current(r) => Current(r)'
    PROVE  /\ Reads(f, r)'
           /\ FilesOf[r] \subseteq fetch'[f].left \cup Piped(fetch'[f].pipe) \cup X
  <1>0. fetch[f].left \subseteq fetch[f].listed /\ fetch[f].pipe \in Seq(Part)
    BY DEF Shapes, FetchRec
  <1>1. fetch'[f].listed = fetch[f].listed
    BY ReadFields
  <1>2. PICK n \in fetch[f].left :
                /\ n = Stats => fetch[f].left = {Stats}
                /\ fetch'[f].left = fetch[f].left \ {n}
                /\ \/ /\ dir[n] = Absent
                      /\ fetch'[f].pipe = fetch[f].pipe /\ fetch'[f].bad = TRUE
                   \/ /\ dir[n] # Absent
                      /\ fetch'[f].bad = fetch[f].bad
                      /\ \E e \in Part : e.name = n /\ e.holds = dir[n] /\
                                         fetch'[f].pipe = Append(fetch[f].pipe, e)
    BY ReadFields
  <1>3. /\ fetch[f].listed \subseteq FilesOf[r] \cup {Stats}
        /\ Chunk(fetch[f].pipe, r, fetch[f].left)
        /\ Current(r)
    BY <1>2 DEF Reads
  <1>4. /\ \A m \in Files : dir[m] = Target(r)[m]
        /\ dir[Stats] \in {Absent, Empty} \cup 0..r
    BY <1>3 DEF Current
  <1>5. n \in FilesOf[r] \cup {Stats} /\ Stats \notin FilesOf[r] /\ FilesOf[r] \subseteq Files
    BY <1>0, <1>3, Consts
  <1>6. n \in FilesOf[r] => dir[n] = r /\ dir[n] # Absent
    BY <1>4, <1>5, TargetFields, Consts
  <1>7. CASE dir[n] = Absent
    <2>1. n = Stats /\ fetch'[f].left = {} /\ fetch'[f].pipe = fetch[f].pipe
      BY <1>2, <1>5, <1>6, <1>7
    <2>2. Chunk(fetch'[f].pipe, r, fetch'[f].left)
      BY <1>3, <2>1 DEF Chunk
    <2>3. FilesOf[r] \subseteq fetch'[f].left \cup Piped(fetch'[f].pipe) \cup X
      BY <1>2, <1>5, <2>1
    <2>4. Chunk(fetch[f].pipe, r, fetch[f].left)' <=> Chunk(fetch'[f].pipe, r, fetch'[f].left)
      BY DEF Chunk
    <2> QED
      BY <1>1, <1>3, <2>1, <2>2, <2>3, <2>4 DEF Reads
  <1>8. CASE dir[n] # Absent
    <2>1. PICK e \in Part : /\ e.name = n /\ e.holds = dir[n]
                            /\ fetch'[f].pipe = Append(fetch[f].pipe, e)
      BY <1>2, <1>8
    <2>2. \/ e.name \in FilesOf[r] /\ e.holds = r
          \/ e.name = Stats /\ e.holds \in {Empty} \cup 0..r /\ fetch'[f].left = {}
      BY <1>2, <1>4, <1>5, <1>6, <1>8, <2>1
    <2>3. fetch[f].left # {} /\ (e.name \in FilesOf[r] => e.name # Stats)
      BY <1>2, <1>5
    <2> DEFINE rest == fetch'[f].left
               s == fetch[f].pipe
               left == fetch[f].left
    <2>4. Chunk(s, r, left) /\ left # {} /\ s \in Seq(Part)
          /\ (\/ e.name \in FilesOf[r] /\ e.holds = r
              \/ e.name = Stats /\ e.holds \in {Empty} \cup 0..r /\ rest = {})
      BY <1>0, <1>3, <2>2, <2>3
    <2> HIDE DEF rest, s, left
    <2>5. Chunk(Append(s, e), r, rest)
      BY <2>3, <2>4, ChunkAppend
    <2>6. Chunk(fetch[f].pipe, r, fetch[f].left)'
      BY <2>1, <2>5, Zenon DEF rest, s, Chunk
    <2>7. Piped(fetch'[f].pipe) = Piped(fetch[f].pipe) \cup {n}
      BY <1>0, <2>1, PipedAppend
    <2>8. FilesOf[r] \subseteq fetch'[f].left \cup Piped(fetch'[f].pipe) \cup X
      BY <1>2, <2>7
    <2> QED
      BY <1>1, <1>3, <2>6, <2>8 DEF Reads
  <1> QED
    BY <1>7, <1>8

\* A fetch that holds what it held reads what it read.
LEMMA ReadsKept ==
    ASSUME NEW f \in Fetchers, NEW r \in Revs, Reads(f, r), Current(r) => Current(r)',
           fetch'[f].listed = fetch[f].listed, fetch'[f].left = fetch[f].left,
           fetch'[f].pipe = fetch[f].pipe
    PROVE  Reads(f, r)'
  BY DEF Reads, Chunk

\* The part of CleanInv that is about one fetch, if the others are not under way.
Sound(f) ==
    /\ Ready(f) /\ Alone(f)
    /\ \E r \in Revs : Here(r) /\ Late(r) /\ Extracting(f, r)

\* Nothing under way, and no more in the slave or left behind than before.
LEMMA SoundRest ==
    ASSUME NEW f \in Fetchers, NEW r \in Revs, Partial(r), slave' = slave, orphans' \subseteq orphans,
           fetch'[f].at \notin {"response", "cleared", "extract"}
    PROVE  Sound(f)'
  <1>1. Ready(f)' /\ Alone(f)' /\ Extracting(f, r)'
    BY DEF Ready, Alone, Extracting
  <1>2. Here(r)'
    BY DEF Partial, Here, Got
  <1>3. Late(r)'
    BY DEF Partial, Late, Got, Chunk, Piped
  <1> QED
    BY <1>1, <1>2, <1>3, Zenon DEF Sound

\* Every step of a fetch keeps where its files are and of which revision.
LEMMA FetchSound ==
    ASSUME TarInv, NEW f \in Fetchers, AnyFetch(f), Clean, Clean'
    PROVE  Sound(f)'
  <1>0. /\ Shapes /\ DirInv /\ Listed(f) /\ Ready(f) /\ Alone(f)
        /\ overlapped = FALSE /\ unremoved' = FALSE
    BY DEF TarInv, ListedInv, CleanInv, Clean
  <1>1. PICK r \in Revs : Partial(r)
    BY DEF TarInv, CleanInv
  <1>2. Here(r) /\ Late(r) /\ Extracting(f, r)
    BY <1>1 DEF Partial
  <1>3. UNCHANGED api /\ \A q : Current(q) => Current(q)'
    BY <1>0, FetchFrame, ApiDir
  <1>4. fetch[f].pipe \in Seq(Part) /\ fetch[f].left \subseteq fetch[f].listed
    BY <1>0 DEF Shapes, FetchRec
  <1>5. \A q \in Revs : FilesOf[q] \subseteq Files /\ Stats \notin FilesOf[q]
    BY Consts
  <1>6. CASE FetchStart(f) \/ Accept(f) \/ Finish(f)
    <2>1. \E a \in {"ask", "accepted", "done"} : fetch' = [fetch EXCEPT ![f].at = a]
      BY <1>6 DEF FetchStart, Accept, Finish
    <2>2. fetch'[f].at \in {"ask", "accepted", "done"}
      BY <1>0, <2>1, FetchAt DEF Ats
    <2>3. slave' = slave /\ orphans' = orphans
      BY <1>6 DEF FetchStart, Accept, Finish
    <2> QED
      BY <1>1, <2>2, <2>3, SoundRest
  <1>7. CASE NotLoaded(f) \/ LoseDirectory(f)
    <2>1. GiveUp(f, <<>>) /\ slave' = slave /\ Active(f)
      BY <1>7, Zenon DEF NotLoaded, LoseDirectory, Active
    <2>2. fetch'[f].at \in {"ask", "failed"} /\ orphans' = orphans
      BY <1>0, <2>1, GiveUpFields
    <2> QED
      BY <1>1, <2>1, <2>2, SoundRest
  <1>8. CASE ClearFail(f)
    BY <1>0, <1>8 DEF ClearFail
  <1>9. CASE ListFiles(f)
    <2>1. LET found == {n \in Names : dir[n] # Absent} IN
          /\ fetch'[f].at = "response" /\ fetch'[f].listed = found /\ fetch'[f].left = found
          /\ fetch'[f].pipe = <<>> /\ ~Blocked
      BY <1>0, <1>9, ListFields
    <2>2. slave' = slave /\ orphans' = orphans
      BY <1>9 DEF ListFiles
    <2>3. PICK q \in Revs : Current(q)
      <3>1. remote \in Revs /\ remote \in Nat
        BY <1>0, Consts DEF Shapes
      <3> QED
        BY <1>0, <2>1, <3>1 DEF DirInv, Current
    <2>4. /\ \A n \in Names : dir[n] # Absent => n \in FilesOf[q] \cup {Stats}
          /\ \A n \in FilesOf[q] : dir[n] # Absent /\ n \in Names
      <3>1. \A n \in Files : dir[n] = Target(q)[n]
        BY <2>3 DEF Current
      <3>2. \A n \in FilesOf[q] : n \in Files /\ n \in Names /\ Target(q)[n] = q
        BY <2>3, TargetFields, Consts
      <3>3. q # Absent
        BY <2>3, Consts
      <3>4. \A n \in Names : n \notin FilesOf[q] \cup {Stats} =>
              n \in Files /\ Target(q)[n] = Absent
        BY <2>3, TargetFields, Consts
      <3> QED
        BY <3>1, <3>2, <3>3, <3>4
    <2>5. Chunk(<<>>, q, fetch'[f].left)
      BY ChunkEmpty
    <2>6. Reads(f, q)'
      <3>1. Current(q)'
        BY <1>3, <2>3
      <3>2. fetch'[f].listed \subseteq FilesOf[q] \cup {Stats}
        BY <2>1, <2>4
      <3>3. Chunk(fetch[f].pipe, q, fetch[f].left)'
        BY <2>1, <2>5 DEF Chunk
      <3> QED
        BY <3>1, <3>2, <3>3 DEF Reads
    <2>7. FilesOf[q] \subseteq fetch'[f].left \cup Piped(fetch'[f].pipe)
      BY <2>1, <2>4
    <2>8. Ready(f)'
      BY <2>3, <2>6, <2>7 DEF Ready, Piped
    <2>10. Alone(f)' /\ Extracting(f, r)'
      BY <2>1 DEF Alone, Extracting
    <2>11. Here(r)' /\ Late(r)'
      BY <1>2, <2>2 DEF Here, Late, Got, Chunk, Piped
    <2> QED
      BY <2>8, <2>10, <2>11, Zenon DEF Sound
  <1>10. CASE ReadFile(f)
    <2>1. /\ fetch'[f].at = fetch[f].at /\ slave' = slave /\ orphans' = orphans
          /\ fetch[f].at \in {"response", "cleared", "extract"}
      BY <1>0, <1>10, ReadFields DEF ReadFile
    <2>2. Alone(f)'
      BY <1>0, <2>1 DEF Alone, Nothing
    <2>3. Here(r)' /\ Late(r)' /\ Got(r)' = Got(r)
      BY <1>2, <2>1 DEF Here, Late, Got, Chunk, Piped
    <2>4. CASE fetch[f].at \in {"response", "cleared"}
      <3>1. PICK q \in Revs : /\ Reads(f, q)
                              /\ FilesOf[q] \subseteq fetch[f].left \cup Piped(fetch[f].pipe)
        BY <1>0, <2>4 DEF Ready
      <3>2. /\ Reads(f, q)'
            /\ FilesOf[q] \subseteq fetch'[f].left \cup Piped(fetch'[f].pipe) \cup {}
        BY <1>0, <1>3, <1>10, <3>1, ReadOn
      <3>3. Ready(f)'
        BY <3>2 DEF Ready, Piped
      <3>4. Extracting(f, r)'
        BY <2>1, <2>4 DEF Extracting
      <3> QED
        BY <2>2, <2>3, <3>3, <3>4, Zenon DEF Sound
    <2>5. CASE fetch[f].at = "extract"
      <3>1. /\ Reads(f, r)
            /\ FilesOf[r] \subseteq fetch[f].left \cup Piped(fetch[f].pipe) \cup Got(r)
        BY <1>2, <2>5 DEF Extracting
      <3>2. /\ Reads(f, r)'
            /\ FilesOf[r] \subseteq fetch'[f].left \cup Piped(fetch'[f].pipe) \cup Got(r)
        BY <1>0, <1>3, <1>10, <3>1, ReadOn
      <3>3. Extracting(f, r)'
        BY <2>3, <3>2 DEF Extracting, Piped
      <3>4. Ready(f)'
        BY <2>1, <2>5 DEF Ready
      <3> QED
        BY <2>2, <2>3, <3>3, <3>4, Zenon DEF Sound
    <2> QED
      BY <2>1, <2>4, <2>5
  <1>11. CASE Clear(f)
    <2>1. /\ fetch' = [fetch EXCEPT ![f].at = "cleared"] /\ fetch[f].at = "response"
          /\ slave'.files = Nothing /\ orphans' = {}
      BY <1>11 DEF Clear
    <2>2. /\ fetch'[f].at = "cleared" /\ fetch'[f].listed = fetch[f].listed
          /\ fetch'[f].left = fetch[f].left /\ fetch'[f].pipe = fetch[f].pipe
      BY <1>0, <2>1, FetchAt DEF Ats
    <2>3. PICK q \in Revs : /\ Reads(f, q)
                            /\ FilesOf[q] \subseteq fetch[f].left \cup Piped(fetch[f].pipe)
      BY <1>0, <2>1 DEF Ready
    <2>4. Reads(f, q)'
      BY <1>3, <2>2, <2>3, ReadsKept
    <2>5. Ready(f)'
      BY <2>2, <2>3, <2>4 DEF Ready, Piped
    <2>6. Alone(f)' /\ Late(r)' /\ Extracting(f, r)'
      BY <2>1, <2>2 DEF Alone, Late, Extracting, Nothing
    <2>7. Here(r)'
      BY <2>1, NothingFields, Consts DEF Here
    <2> QED
      BY <2>5, <2>6, <2>7, Zenon DEF Sound
  <1>12. CASE StartTar(f)
    <2>1. /\ fetch[f].at = "cleared" /\ fetch'[f].at = "extract"
          /\ fetch'[f].listed = fetch[f].listed /\ fetch'[f].left = fetch[f].left
          /\ fetch'[f].pipe = fetch[f].pipe
          /\ slave' = slave /\ orphans' = orphans
      BY <1>0, <1>12, StartFields DEF StartTar
    <2>2. PICK q \in Revs : /\ Reads(f, q)
                            /\ FilesOf[q] \subseteq fetch[f].left \cup Piped(fetch[f].pipe)
      BY <1>0, <2>1 DEF Ready
    <2>3. Reads(f, q)'
      BY <1>3, <2>1, <2>2, ReadsKept
    <2>4. Extracting(f, q)'
      BY <2>1, <2>2, <2>3 DEF Extracting, Piped
    <2>5. slave.files = Nothing /\ orphans = {}
      BY <1>0, <2>1 DEF Alone
    <2>6. Here(q)' /\ Late(q)'
      BY <2>1, <2>5, NothingFields, Consts DEF Here, Late
    <2>7. Ready(f)' /\ Alone(f)'
      BY <2>1, <2>5 DEF Ready, Alone
    <2> QED
      BY <2>4, <2>6, <2>7, Zenon DEF Sound
  <1>13. CASE ExtractFile(f)
    <2> DEFINE e == Head(fetch[f].pipe)
    <2>1. /\ fetch[f].at = "extract" /\ fetch[f].pipe # <<>> /\ e \in Part /\ Extracted(e)
          /\ fetch'[f].listed = fetch[f].listed /\ fetch'[f].left = fetch[f].left
          /\ fetch'[f].pipe = Tail(fetch[f].pipe) /\ fetch'[f].at = "extract"
      BY <1>0, <1>13, ExtractFields
    <2>2. /\ Reads(f, r)
          /\ FilesOf[r] \subseteq fetch[f].left \cup Piped(fetch[f].pipe) \cup Got(r)
      BY <1>2, <2>1 DEF Extracting
    <2>3. Chunk(fetch[f].pipe, r, fetch[f].left)
      BY <2>2 DEF Reads
    <2>4. \/ e.name \in FilesOf[r] /\ e.holds = r
          \/ /\ e.name = Stats /\ e.holds \in {Empty} \cup 0..r
             /\ Piped(fetch[f].pipe) = {Stats} /\ fetch[f].left = {}
      BY <1>4, <2>1, <2>3, ChunkHead
    <2>5. Chunk(Tail(fetch[f].pipe), r, fetch[f].left)
      BY <1>4, <2>1, <2>3, ChunkTail
    <2>6. Piped(fetch[f].pipe) = {e.name} \cup Piped(Tail(fetch[f].pipe))
      BY <1>4, <2>1, PipedTail
    <2> HIDE DEF e
    <2>7. \/ e.name \in FilesOf[r] /\ e.holds = r
          \/ e.name = Stats /\ e.holds \in {Empty} \cup 0..r /\ FilesOf[r] \subseteq Got(r)
      BY <1>5, <2>2, <2>4
    <2>8. /\ Here(r)' /\ Got(r) \subseteq Got(r)'
          /\ e.name # Stats => e.name \in Got(r)'
      BY <1>0, <1>2, <2>1, <2>7, PutFile
    <2>9. FilesOf[r] \subseteq fetch'[f].left \cup Piped(fetch'[f].pipe) \cup Got(r)'
      BY <1>5, <2>1, <2>2, <2>6, <2>8
    <2>10. Reads(f, r)'
      <3>1. Chunk(fetch[f].pipe, r, fetch[f].left)'
        BY <2>1, <2>5 DEF Chunk
      <3> QED
        BY <1>3, <2>1, <2>2, <3>1 DEF Reads
    <2>11. Extracting(f, r)'
      BY <2>9, <2>10 DEF Extracting, Piped
    <2>12. orphans = {} /\ orphans' = orphans
      BY <1>0, <1>13, <2>1 DEF Alone, ExtractFile
    <2>13. Late(r)' /\ Alone(f)' /\ Ready(f)'
      BY <2>1, <2>12 DEF Late, Alone, Ready
    <2> QED
      BY <2>8, <2>11, <2>13, Zenon DEF Sound
  <1>14. CASE Break(f)
    <2>1. fetch[f].at = "extract" /\ InDirectory(f)
      BY <1>0, <1>14 DEF Break, Listed, InDirectory
    <2>2. GiveUp(f, fetch[f].pipe) /\ slave' = slave /\ Active(f)
      BY <1>14, <2>1 DEF Break, Active
    <2>3. fetch'[f].at \in {"ask", "failed"} /\ orphans' = orphans \cup ({fetch[f].pipe} \ {<<>>})
      BY <1>0, <2>2, GiveUpFields
    <2>4. /\ Reads(f, r)
          /\ FilesOf[r] \subseteq fetch[f].left \cup Piped(fetch[f].pipe) \cup Got(r)
      BY <1>2, <2>1 DEF Extracting
    <2>5. Chunk(fetch[f].pipe, r, {})
      BY <2>4 DEF Reads, Chunk
    <2>6. Stats \in Piped(fetch[f].pipe) => FilesOf[r] \subseteq Piped(fetch[f].pipe) \cup Got(r)
      <3>1. SUFFICES ASSUME Stats \in Piped(fetch[f].pipe)
                     PROVE  fetch[f].left = {}
        BY <2>4
      <3> QED
        BY <2>4, <3>1 DEF Reads, Chunk, Piped
    <2>7. Late(r)'
      <3>1. Got(r)' = Got(r)
        BY <2>2 DEF Got
      <3>2. \A o \in orphans' : /\ Chunk(o, r, {})
                                /\ Stats \in Piped(o) => FilesOf[r] \subseteq Piped(o) \cup Got(r)
        BY <1>2, <2>3, <2>5, <2>6 DEF Late
      <3> QED
        BY <3>1, <3>2 DEF Late, Chunk, Piped
    <2>8. Here(r)'
      BY <1>2, <2>2 DEF Here, Got
    <2>9. Ready(f)' /\ Alone(f)' /\ Extracting(f, r)'
      BY <2>3 DEF Ready, Alone, Extracting
    <2> QED
      BY <2>7, <2>8, <2>9, Zenon DEF Sound
  <1> QED
    BY <1>6, <1>7, <1>8, <1>9, <1>10, <1>11, <1>12, <1>13, <1>14 DEF AnyFetch, FetchStep

\* The step of a fetch.
LEMMA FetchClean ==
    ASSUME TarInv, NEW f \in Fetchers, AnyFetch(f)
    PROVE  OneFetch' /\ ListedInv' /\ CleanInv'
  <1>0. Shapes /\ OneFetch
    BY DEF TarInv
  <1>1. OneFetch'
    BY <1>0, FetchOnes
  <1>2. \A g \in Fetchers : g # f => fetch'[g] = fetch[g]
    <2>1. CASE \E a \in {"ask", "accepted", "cleared", "done"} :
                 fetch' = [fetch EXCEPT ![f].at = a]
      BY <1>0, <2>1, FetchAt DEF Ats
    <2>2. CASE (\E rest : GiveUp(f, rest)) /\ Active(f)
      BY <1>0, <2>2, GiveUpFields
    <2>3. CASE FetchStart(f) \/ Accept(f) \/ Clear(f) \/ Finish(f)
      BY <2>1, <2>3 DEF FetchStart, Accept, Clear, Finish
    <2>4. CASE NotLoaded(f) \/ ClearFail(f) \/ Break(f) \/ LoseDirectory(f)
      <3>1. Active(f)
        BY <2>4 DEF NotLoaded, ClearFail, Break, LoseDirectory, Active
      <3>2. \E rest : GiveUp(f, rest)
        BY <2>4, Zenon DEF NotLoaded, ClearFail, Break, LoseDirectory
      <3> QED
        BY <2>2, <3>1, <3>2
    <2> QED
      BY <1>0, <2>3, <2>4, ListFields, ReadFields, StartFields, ExtractFields
      DEF AnyFetch, FetchStep
  <1>3. ASSUME overlapped' = FALSE
        PROVE  /\ ListedInv' /\ overlapped = FALSE
               /\ \A g \in Fetchers : g # f => Ready(g)' /\ Alone(g)'
               /\ \A g \in Fetchers, r \in Revs : g # f => Extracting(g, r)'
    <2>1. /\ \A g \in Fetchers : g # f => ~Active(g)
          /\ overlapped = FALSE
      BY <1>0, <1>3, OthersRest
    <2>2. Listed(f)'
      BY <2>1, FetchListed
    <2> QED
      BY <1>1, <1>2, <1>3, <2>1, <2>2, OnlyOne
  <1>4. ListedInv'
    BY <1>3 DEF ListedInv
  <1>5. ASSUME Clean'
        PROVE  /\ \A g \in Fetchers : Ready(g)' /\ Alone(g)'
               /\ \E r \in Revs : Partial(r)'
    <2>1. mixed' = FALSE /\ overlapped' = FALSE /\ unremoved' = FALSE
      BY <1>5 DEF Clean
    <2>2. Clean
      <3>1. mixed' = mixed
        BY FetchFrame DEF api
      <3>2. ~ClearFail(f)
        BY <2>1 DEF ClearFail
      <3>3. unremoved' = unremoved
        BY <3>2 DEF AnyFetch, FetchStep, FetchStart, NotLoaded, Accept, ListFiles, ReadFile,
                    Clear, StartTar, ExtractFile, Break, LoseDirectory, Finish
      <3> QED
        BY <1>3, <2>1, <3>1, <3>3 DEF Clean
    <2>3. Sound(f)'
      BY <1>5, <2>2, FetchSound
    <2>4. Ready(f)' /\ Alone(f)' /\ \E r \in Revs : Here(r)' /\ Late(r)' /\ Extracting(f, r)'
      BY <2>3, Zenon DEF Sound
    <2>5. PICK r \in Revs : Here(r)' /\ Late(r)' /\ Extracting(f, r)'
      BY <2>4
    <2>6. \A g \in Fetchers : Extracting(g, r)'
      BY <1>3, <2>1, <2>5
    <2>7. Partial(r)'
      BY <2>5, <2>6 DEF Partial
    <2>8. \A g \in Fetchers : Ready(g)' /\ Alone(g)'
      BY <1>3, <2>1, <2>4
    <2> QED
      BY <2>7, <2>8
  <1>6. CleanInv'
    BY <1>5 DEF CleanInv
  <1> QED
    BY <1>1, <1>4, <1>6

\* The step of a tar that was left behind: no other one extracts then.
LEMMA LateClean ==
    ASSUME TarInv, ExtractLate
    PROVE  DirInv' /\ OneFetch' /\ ListedInv' /\ CleanInv'
  <1>0. Shapes /\ DirInv
    BY DEF TarInv
  <1>1. UNCHANGED <<api, fetch, overlapped, unremoved>>
    BY <1>0, LateTypes
  <1>2. PICK o \in orphans : /\ o \in Seq(Part) /\ o # <<>> /\ Head(o) \in Part
                             /\ Extracted(Head(o))
                             /\ orphans' = (orphans \ {o}) \cup ({Tail(o)} \ {<<>>})
    BY <1>0, LateTypes
  <1> DEFINE e == Head(o)
  <1>3. /\ slave'.gen = slave.gen /\ slave'.files[e.name] = e.holds /\ e.holds # Absent
        /\ \A n \in Names : n # e.name => slave'.files[n] = slave.files[n]
    BY <1>0, <1>2, ExtractedFields
  <1>4. DirInv' /\ \A r : Current(r) => Current(r)'
    BY <1>0, <1>1, ApiDir
  <1>5. OneFetch'
    BY <1>1 DEF TarInv, OneFetch, Active
  <1>6. ListedInv'
    <2>1. SUFFICES ASSUME overlapped = FALSE, NEW f \in Fetchers
                   PROVE  Listed(f)'
      BY <1>1 DEF ListedInv
    <2>2. Listed(f) /\ fetch[f].listed \subseteq Names
      BY <1>0, <2>1 DEF TarInv, ListedInv, Shapes, FetchRec
    <2>3. \A n \in Names : slave.files[n] # Absent => slave'.files[n] # Absent
      BY <1>3
    <2> HIDE DEF e
    <2>4. Piped(fetch[f].pipe)' = Piped(fetch[f].pipe)
      BY <1>1 DEF Piped
    <2> QED
      BY <1>1, <1>3, <2>2, <2>3, <2>4 DEF Listed
  <1>7. ASSUME Clean'
        PROVE  /\ \A f \in Fetchers : Ready(f)' /\ Alone(f)'
               /\ \E r \in Revs : Partial(r)'
    <2>1. Clean
      BY <1>1, <1>7 DEF Clean, api
    <2>2. \A f \in Fetchers : Ready(f) /\ Alone(f)
      BY <2>1 DEF TarInv, CleanInv
    <2>3. PICK r \in Revs : Partial(r)
      BY <2>1 DEF TarInv, CleanInv
    <2>4. \A f \in Fetchers : fetch[f].at \notin {"cleared", "extract"}
      BY <1>2, <2>2 DEF Alone
    <2>5. \A f \in Fetchers : Alone(f)' /\ Extracting(f, r)'
      BY <1>1, <2>4 DEF Alone, Extracting
    <2>6. ASSUME NEW f \in Fetchers
          PROVE  Ready(f)'
      <3>1. SUFFICES ASSUME fetch[f].at \in {"response", "cleared"}
                     PROVE  Ready(f)'
        BY <1>1 DEF Ready
      <3>2. PICK q \in Revs : /\ Reads(f, q)
                              /\ FilesOf[q] \subseteq fetch[f].left \cup Piped(fetch[f].pipe)
        BY <2>2, <3>1 DEF Ready
      <3>3. Reads(f, q)'
        BY <1>1, <1>4, <3>2, ReadsKept
      <3> QED
        BY <1>1, <3>2, <3>3 DEF Ready, Piped
    <2>7. /\ Here(r) /\ Chunk(o, r, {})
          /\ Stats \in Piped(o) => FilesOf[r] \subseteq Piped(o) \cup Got(r)
      BY <1>2, <2>3 DEF Partial, Late
    <2>8. FilesOf[r] \subseteq Files /\ Stats \notin FilesOf[r]
      BY Consts
    <2>9. \/ e.name \in FilesOf[r] /\ e.holds = r
          \/ e.name = Stats /\ e.holds \in {Empty} \cup 0..r /\ Piped(o) = {Stats}
      BY <1>2, <2>7, ChunkHead
    <2>10. Chunk(Tail(o), r, {}) /\ Piped(o) = {e.name} \cup Piped(Tail(o))
      BY <1>2, <2>7, ChunkTail, PipedTail
    <2>11. e \in Part /\ Extracted(e)
      BY <1>2
    <2> HIDE DEF e
    <2>12. \/ e.name \in FilesOf[r] /\ e.holds = r
           \/ e.name = Stats /\ e.holds \in {Empty} \cup 0..r /\ FilesOf[r] \subseteq Got(r)
      BY <2>7, <2>8, <2>9
    <2>13. /\ Here(r)' /\ Got(r) \subseteq Got(r)'
           /\ e.name # Stats => e.name \in Got(r)'
           /\ e.name = Stats => FilesOf[r] \subseteq Got(r)'
      BY <1>0, <2>7, <2>11, <2>12, PutFile
    <2>14. ASSUME NEW p \in orphans'
           PROVE  /\ Chunk(p, r, {})
                  /\ Stats \in Piped(p) => FilesOf[r] \subseteq Piped(p) \cup Got(r)'
      <3>1. CASE p \in orphans
        <4>1. Chunk(p, r, {}) /\ (Stats \in Piped(p) => FilesOf[r] \subseteq Piped(p) \cup Got(r))
          BY <2>3, <3>1 DEF Partial, Late
        <4> QED
          BY <2>13, <4>1
      <3>2. CASE p = Tail(o)
        <4>1. Stats \in Piped(p) => FilesOf[r] \subseteq Piped(p) \cup Got(r)'
          BY <2>7, <2>10, <2>13, <3>2
        <4> QED
          BY <2>10, <3>2, <4>1
      <3> QED
        BY <1>2, <2>14, <3>1, <3>2
    <2>15. Late(r)'
      BY <2>14 DEF Late, Chunk, Piped
    <2>16. Partial(r)'
      BY <2>5, <2>13, <2>15 DEF Partial
    <2> QED
      BY <2>5, <2>6, <2>16
  <1>8. CleanInv'
    BY <1>7 DEF CleanInv
  <1> QED
    BY <1>4, <1>5, <1>6, <1>8

-----------------------------------------------------------------------------
(* The theorems                                                            *)

\* The invariant holds at the start.
LEMMA TarInit == Init => TarInv
  <1> SUFFICES ASSUME Init
               PROVE  TarInv
    OBVIOUS
  <1>0. 0 \in Revs /\ 0 \in 0..0 /\ 0 \in Nat /\ MaxFaults \in Nat
    BY Consts, TarballAssumption
  <1>1. /\ Target(0) \in [Names -> Contents] /\ Target(0)[Stats] = 0
        /\ \A n \in FilesOf[0] : Target(0)[n] = 0
        /\ \A n \in Files : n \notin FilesOf[0] => Target(0)[n] = Absent
    BY <1>0, TargetFields
  <1>2. Shapes
    <2>1. refresh \in [Refreshers -> RefreshRec]
      BY <1>0 DEF Init, RefreshRec
    <2> DEFINE v == [at |-> "new", tries |-> Attempts, listed |-> {},
                     left |-> {}, pipe |-> <<>>, bad |-> FALSE, gen |-> 0]
    <2>2. v \in FetchRec /\ v.left \subseteq v.listed /\ v.tries > 0
      <3>1. <<>> \in Seq(Part) /\ Attempts \in 0..Attempts
        BY EmptySeq, Consts
      <3> QED
        BY <1>0, <3>1, Consts DEF FetchRec, Ats
    <2>3. fetch = [f \in Fetchers |-> v]
      BY DEF Init
    <2> HIDE DEF v
    <2>4. /\ fetch \in [Fetchers -> FetchRec]
          /\ \A f \in Fetchers : /\ fetch[f].left \subseteq fetch[f].listed
                                 /\ Trying(f) => fetch[f].tries > 0
      BY <2>2, <2>3
    <2>5. slave \in [files : [Names -> Contents], gen : Nat]
      BY <1>0, <1>1 DEF Init
    <2>6. faults \in 0..MaxFaults
      BY <1>0 DEF Init
    <2> QED
      BY <1>0, <1>1, <2>1, <2>4, <2>5, <2>6 DEF Init, Shapes
  <1>3. DirInv
    BY <1>0, <1>1 DEF Init, DirInv
  <1>4. \A f \in Fetchers : fetch[f].at = "new"
    BY DEF Init
  <1>5. OneFetch /\ ListedInv
    BY <1>4 DEF OneFetch, Active, ListedInv, Listed
  <1>6. \A f \in Fetchers : Ready(f) /\ Alone(f) /\ Extracting(f, 0)
    BY <1>4 DEF Ready, Alone, Extracting
  <1>7. Late(0) /\ slave.files = Target(0)
    BY DEF Init, Late
  <1>8. Here(0)
    <2>1. FilesOf[0] \subseteq Got(0)
      BY <1>1, <1>7 DEF Got
    <2>2. \A n \in Files : slave.files[n] # Absent => n \in FilesOf[0] /\ slave.files[n] = 0
      BY <1>1, <1>7
    <2> QED
      BY <1>0, <1>1, <1>7, <2>1, <2>2 DEF Here
  <1>9. CleanInv
    BY <1>0, <1>6, <1>7, <1>8 DEF CleanInv, Partial
  <1> QED
    BY <1>2, <1>3, <1>5, <1>9 DEF TarInv

\* It holds when nothing happens.
LEMMA TarStutter == TarInv /\ UNCHANGED vars => TarInv'
  <1> SUFFICES ASSUME TarInv, UNCHANGED vars
               PROVE  TarInv'
    OBVIOUS
  <1>1. Shapes'
    BY DEF TarInv, vars, Shapes, Trying
  <1>2. DirInv'
    BY ApiDir DEF TarInv, vars, api
  <1>3. OneFetch'
    BY DEF TarInv, vars, OneFetch, Active
  <1>4. ListedInv'
    BY DEF TarInv, vars, ListedInv, Listed, Piped
  <1>5. ASSUME Clean'
        PROVE  (\A f \in Fetchers : Ready(f)' /\ Alone(f)') /\ \E r \in Revs : Partial(r)'
    <2>1. \A q : Current(q) => Current(q)'
      BY ApiDir DEF TarInv, vars, api
    <2>2. Clean
      BY <1>5 DEF Clean, vars
    <2>3. \A f \in Fetchers, q \in Revs : Reads(f, q) => Reads(f, q)'
      BY <2>1, ReadsKept DEF vars
    <2>4. \A f \in Fetchers : Ready(f)' /\ Alone(f)'
      <3>1. \A f \in Fetchers : Ready(f) /\ Alone(f)
        BY <2>2 DEF TarInv, CleanInv
      <3>2. \A f \in Fetchers : Ready(f)'
        BY <2>3, <3>1 DEF vars, Ready, Piped
      <3> QED
        BY <3>1, <3>2 DEF vars, Alone, Nothing
    <2>5. PICK r \in Revs : Partial(r)
      BY <2>2 DEF TarInv, CleanInv
    <2>6. Partial(r)'
      BY <2>3, <2>5, PartialSame DEF vars, Same
    <2> QED
      BY <2>4, <2>6
  <1>6. CleanInv'
    BY <1>5 DEF CleanInv
  <1> QED
    BY <1>1, <1>2, <1>3, <1>4, <1>6 DEF TarInv

\* The invariant holds throughout, for any revisions, files, refreshes, fetches and faults.
THEOREM TarballInvariance == Spec => []TarInv
  <1>1. TarInv /\ [Next]_vars => TarInv'
    <2> SUFFICES ASSUME TarInv, [Next]_vars
                 PROVE  TarInv'
      OBVIOUS
    <2>1. ASSUME NEW r \in Refreshers, AnyRefresh(r)
          PROVE  TarInv'
      BY <2>1, RefreshShapes, RefreshDir, RefreshClean DEF TarInv
    <2>2. ASSUME NEW f \in Fetchers, AnyFetch(f)
          PROVE  TarInv'
      <3>1. Shapes' /\ UNCHANGED api
        BY <2>2, FetchTypes, FetchFrame DEF TarInv
      <3>2. DirInv'
        BY <3>1, ApiDir DEF TarInv
      <3>3. OneFetch' /\ ListedInv' /\ CleanInv'
        BY <2>2, FetchClean
      <3> QED
        BY <3>1, <3>2, <3>3 DEF TarInv
    <2>3. CASE ExtractLate
      <3>1. Shapes'
        BY <2>3, LateTypes DEF TarInv
      <3> QED
        BY <2>3, <3>1, LateClean DEF TarInv
    <2>4. CASE UNCHANGED vars
      BY <2>4, TarStutter
    <2> QED
      BY <2>1, <2>2, <2>3, <2>4 DEF Next, AnyRefresh, AnyFetch
  <1> QED
    BY <1>1, TarInit, PTL DEF Spec

\* The types of the directories at both ends and of the fetches, and no fetch makes more than
\* retry_number attempts.
THEOREM TarballTypes == Spec => []TypeOK
  <1>1. TarInv => TypeOK
    <2> SUFFICES ASSUME TarInv
                 PROVE  TypeOK
      OBVIOUS
    <2>1. /\ remote \in Revs /\ faults \in 0..MaxFaults /\ asked \in Nat
          /\ dir \in [Names -> Contents] /\ slave.files \in [Names -> Contents]
      BY DEF TarInv, Shapes
    <2>2. ASSUME NEW f \in Fetchers
          PROVE  /\ fetch[f].left \subseteq fetch[f].listed /\ fetch[f].tries \in 0..Attempts
                 /\ \A k \in 1..Len(fetch[f].pipe) : fetch[f].pipe[k].holds \in Contents \ {Absent}
      <3>1. /\ fetch[f].left \subseteq fetch[f].listed /\ fetch[f] \in FetchRec
        BY DEF TarInv, Shapes
      <3>2. fetch[f].tries \in 0..Attempts /\ fetch[f].pipe \in Seq(Part)
        BY <3>1 DEF FetchRec
      <3>3. \A k \in 1..Len(fetch[f].pipe) : fetch[f].pipe[k] \in Part
        BY <3>2, ElementOfSeq
      <3> QED
        BY <3>1, <3>2, <3>3 DEF Part
    <2> QED
      BY <2>1, <2>2 DEF TypeOK
  <1> QED
    BY <1>1, TarballInvariance, PTL

\* However refreshes, broken attempts and retries interleave: a slave that shows a hash has all
\* the files of one refresh, at least as new as the hash, unless a copy ran under a tar, two
\* fetches overlapped, or the tar of an attempt that was given up kept a directory from being
\* removed.
THEOREM HashesMeanContent == Spec => []HashMeansContent
  <1>1. TarInv => HashMeansContent
    <2> SUFFICES ASSUME TarInv, ~mixed, ~overlapped, ~unremoved, slave.files[Stats] \in Revs
                 PROVE  \E r \in slave.files[Stats]..MaxRev :
                            slave.files = [Target(r) EXCEPT ![Stats] = slave.files[Stats]]
      BY DEF HashMeansContent
    <2>1. Clean
      BY DEF TarInv, Shapes, Clean
    <2>2. PICK r \in Revs : Here(r)
      BY <2>1 DEF TarInv, CleanInv, Partial
    <2> DEFINE h == slave.files[Stats]
               goal == [Target(r) EXCEPT ![Stats] = h]
    <2>3. h \in Revs /\ h # Absent /\ h # Empty
      BY Consts
    <2>4. h \in 0..r /\ FilesOf[r] \subseteq Got(r)
      BY <2>2, <2>3 DEF Here
    <2>5. r \in h..MaxRev
      <3>1. r \in 0..MaxRev
        BY DEF Revs
      <3> QED
        BY <2>3, <2>4, <3>1, Consts
    <2>6. /\ slave.files \in [Names -> Contents] /\ Target(r) \in [Names -> Contents]
          /\ h \in Contents
      BY <2>3, TargetFields, Consts DEF TarInv, Shapes
    <2> HIDE DEF h
    <2>7. goal \in [Names -> Contents] /\ goal[Stats] = h /\ \A n \in Files : goal[n] = Target(r)[n]
      BY <2>6, Consts
    <2>8. \A n \in Files : slave.files[n] = Target(r)[n]
      <3>1. ASSUME NEW n \in Files
            PROVE  slave.files[n] = Target(r)[n]
        <4>1. CASE n \in FilesOf[r]
          BY <2>4, <4>1, TargetFields DEF Got
        <4>2. CASE n \notin FilesOf[r]
          BY <2>2, <4>2, TargetFields DEF Here
        <4> QED
          BY <4>1, <4>2
      <3> QED
        BY <3>1
    <2>9. \A n \in Names : slave.files[n] = goal[n]
      BY <2>7, <2>8, Consts DEF h
    <2>10. slave.files = goal
      <3> HIDE DEF goal
      <3> QED
        BY <2>6, <2>7, <2>9
    <2> QED
      BY <2>5, <2>10 DEF h
  <1> QED
    BY <1>1, TarballInvariance, PTL

\* Only Finish ends a fetch well: all that was listed has been read, and is in the slave.
LEMMA SuccessStep ==
    ASSUME TarInv, [Next]_vars, NEW f \in Fetchers,
           fetch[f].at # "done", fetch'[f].at = "done", ~overlapped
    PROVE  \A n \in fetch[f].listed : slave.files[n] # Absent
  <1>0. Shapes /\ overlapped = FALSE
    BY DEF TarInv, Shapes
  <1>1. CASE Finish(f)
    <2>1. Listed(f)
      BY <1>0 DEF TarInv, ListedInv
    <2>2. /\ fetch[f].at = "extract" /\ fetch[f].left = {} /\ fetch[f].pipe = <<>>
          /\ fetch[f].bad = FALSE
      <3>1. fetch[f].bad \in BOOLEAN
        BY <1>0 DEF Shapes, FetchRec
      <3> QED
        BY <1>1, <3>1 DEF Finish
    <2> QED
      BY <2>1, <2>2, PipedEmpty DEF Listed
  <1>2. CASE fetch' = fetch
    BY <1>2
  <1>3. ASSUME NEW g \in Fetchers, AnyFetch(g), ~Finish(f)
        PROVE  FALSE
    <2>1. CASE FetchStart(g) \/ Accept(g) \/ Clear(g)
      <3>1. \E a \in {"ask", "accepted", "cleared"} : fetch' = [fetch EXCEPT ![g].at = a]
        BY <2>1 DEF FetchStart, Accept, Clear
      <3> QED
        BY <1>0, <3>1, FetchAt DEF Ats
    <2>2. CASE NotLoaded(g) \/ ClearFail(g) \/ Break(g) \/ LoseDirectory(g)
      <3>1. Active(g)
        BY <2>2 DEF NotLoaded, ClearFail, Break, LoseDirectory, Active
      <3>2. \E rest : GiveUp(g, rest)
        BY <2>2, Zenon DEF NotLoaded, ClearFail, Break, LoseDirectory
      <3> QED
        BY <1>0, <3>1, <3>2, GiveUpFields
    <2>3. CASE Finish(g)
      <3>1. fetch' = [fetch EXCEPT ![g].at = "done"]
        BY <2>3 DEF Finish
      <3> QED
        BY <1>0, <1>3, <2>3, <3>1, FetchAt DEF Ats
    <2>4. CASE ListFiles(g)
      BY <1>0, <2>4, ListFields
    <2>5. CASE ReadFile(g)
      BY <1>0, <2>5, ReadFields
    <2>6. CASE StartTar(g)
      BY <1>0, <2>6, StartFields
    <2>7. CASE ExtractFile(g)
      BY <1>0, <2>7, ExtractFields
    <2> QED
      BY <1>3, <2>1, <2>2, <2>3, <2>4, <2>5, <2>6, <2>7 DEF AnyFetch, FetchStep
  <1>4. ASSUME NEW r \in Refreshers, AnyRefresh(r)
        PROVE  fetch' = fetch
    BY <1>4, RefreshFrame
  <1>5. CASE ExtractLate
    BY <1>0, <1>5, <1>2, LateTypes
  <1>6. CASE UNCHANGED vars
    BY <1>6, <1>2 DEF vars
  <1> QED
    BY <1>1, <1>2, <1>3, <1>4, <1>5, <1>6 DEF Next, AnyRefresh, AnyFetch

\* A fetch that succeeds leaves every file that the handler had listed, whatever was refreshed
\* in between and however many attempts broke, unless another fetch worked at the same time.
THEOREM SuccessesAreWhole == Spec => SuccessIsWhole
  <1>1. TarInv /\ [Next]_vars =>
          [\A f \in Fetchers : fetch[f].at # "done" /\ fetch'[f].at = "done" /\ ~overlapped =>
             \A n \in fetch[f].listed : slave.files[n] # Absent]_vars
    BY SuccessStep
  <1> QED
    BY <1>1, TarballInvariance, PTL DEF Spec, SuccessIsWhole

=============================================================================
