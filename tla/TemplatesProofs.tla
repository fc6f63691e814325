--------------------------- MODULE TemplatesProofs ---------------------------
(***************************************************************************)
(* Proofs about Templates.  What the evaluations do to the files is said   *)
(* first of any files, as lemmas about one link, one output and one        *)
(* failure: no order of the files and no number of engines matters to it.  *)
(***************************************************************************)
EXTENDS Templates, FiniteSetTheorems, TLAPS

IsTmpl(k, n) == Suffix(n) = Engines[k].ext

(***************************************************************************)
(* What the constants are.                                                 *)
(***************************************************************************)

\* The source files have names, and the engines extensions and directories.
LEMMA Consts ==
  /\ IsFiniteSet(Sources) /\ MaxFaults \in Nat /\ None \notin Paths
  /\ \A n \in Sources : n \in Seq(STRING) /\ Len(n) \in Nat \ {0} /\ DOMAIN n = 1..Len(n)
  /\ Len(Engines) \in Nat /\ DOMAIN Engines = 1..Len(Engines)
  /\ Root \in Dirs
  /\ \A k \in DOMAIN Engines : Engines[k].sub \in Dirs /\ Engines[k].ext \in STRING
  /\ \A k \in DOMAIN Engines : Engines[k].ext # ""
  <1>1. /\ Engines \in Seq([ext : STRING, sub : Dirs])
        /\ Sources \subseteq Seq(STRING) \ {<<>>}
        /\ IsFiniteSet(Sources) /\ MaxFaults \in Nat /\ None \notin Paths
    BY TemplatesAssumption
  <1>2. Root \in Dirs
    BY DEF Dirs
  <1>3. \A n \in Sources : n \in Seq(STRING) /\ Len(n) \in Nat \ {0} /\ DOMAIN n = 1..Len(n)
    <2> SUFFICES ASSUME NEW n \in Sources
                 PROVE  n \in Seq(STRING) /\ Len(n) \in Nat \ {0} /\ DOMAIN n = 1..Len(n)
      OBVIOUS
    <2>1. n \in Seq(STRING) /\ n # <<>>
      BY <1>1
    <2> QED
      BY <2>1
  <1>4. /\ Len(Engines) \in Nat /\ DOMAIN Engines = 1..Len(Engines)
        /\ \A k \in DOMAIN Engines : Engines[k].sub \in Dirs /\ Engines[k].ext \in STRING
    <2> DEFINE R == [ext : STRING, sub : Dirs]
    <2>1. Engines \in Seq(R)
      BY <1>1
    <2>2. \A k \in DOMAIN Engines : Engines[k] \in R
      <3> HIDE DEF R
      <3> QED
        BY <2>1
    <2>3. Len(Engines) \in Nat /\ DOMAIN Engines = 1..Len(Engines)
      <3> HIDE DEF R
      <3> QED
        BY <2>1
    <2> QED
      BY <2>2, <2>3
  <1>5. \A k \in DOMAIN Engines : Engines[k].ext # ""
    BY TemplatesAssumption
  <1> QED
    BY <1>1, <1>2, <1>3, <1>4, <1>5

\* An empty list of engines is the only one without a first one.
LEMMA EnginesOrNone == Engines # <<>> => 1 \in DOMAIN Engines
  <1> DEFINE R == [ext : STRING, sub : Dirs]
  <1>1. Engines \in Seq(R)
    BY TemplatesAssumption
  <1> HIDE DEF R
  <1> QED
    BY <1>1

\* The outputs of different templates have different names, which no source file has.
LEMMA OutputsDiffer ==
  ASSUME NEW n \in Sources, NEW k \in DOMAIN Engines, IsTmpl(k, n)
  PROVE  /\ Stem(n) \notin Sources
         /\ \A m \in Sources : Stem(m) = Stem(n) => m = n
  BY TemplatesAssumption, Zenon DEF IsTmpl

\* A name is what a source file's name begins with.
LEMMA NamesArePrefixes ==
  ASSUME NEW n
  PROVE  n \in Names <=> \E s \in Sources : \E k \in DOMAIN s : n = SubSeq(s, 1, k)
  <1> DEFINE Begins(s) == {SubSeq(s, 1, k) : k \in DOMAIN s}
  <1>1. Names = UNION {Begins(s) : s \in Sources}
    BY DEF Names
  <1>2. \A s : n \in Begins(s) <=> \E k \in DOMAIN s : n = SubSeq(s, 1, k)
    OBVIOUS
  <1> HIDE DEF Begins
  <1>3. n \in Names <=> \E s \in Sources : n \in Begins(s)
    BY <1>1
  <1> QED
    BY <1>2, <1>3

\* A name is a sequence that is not empty.
LEMMA NamesAreSequences ==
  ASSUME NEW n \in Names
  PROVE  n \in Seq(STRING) /\ Len(n) \in Nat \ {0}
  <1>1. PICK s \in Sources : \E k \in DOMAIN s : n = SubSeq(s, 1, k)
    BY NamesArePrefixes
  <1>2. PICK k \in DOMAIN s : n = SubSeq(s, 1, k)
    BY <1>1
  <1>3. s \in Seq(STRING) /\ k \in 1..Len(s)
    BY Consts
  <1> QED
    BY <1>2, <1>3

\* The source files are among the names.
LEMMA SourcesAreNames == Sources \subseteq Names
  <1> SUFFICES ASSUME NEW n \in Sources
               PROVE  n \in Names
    OBVIOUS
  <1>1. n \in Seq(STRING) /\ Len(n) \in Nat \ {0} /\ DOMAIN n = 1..Len(n)
    BY Consts
  <1>2. n = SubSeq(n, 1, Len(n)) /\ Len(n) \in DOMAIN n
    BY <1>1
  <1> QED
    BY <1>1, <1>2, NamesArePrefixes

\* Only a name of several parts has a suffix (Path.suffix).
LEMMA SuffixedAreLonger ==
  ASSUME NEW n, NEW l \in Nat, l # 0, Len(n) = l, NEW x, x # "", Suffix(n) = x
  PROVE  Len(n) > 1
  BY DEF Suffix

\* A template's output has one part less, and is a name again (Path.stem).
LEMMA StemsAreNames ==
  ASSUME NEW n \in Names, NEW k \in DOMAIN Engines, IsTmpl(k, n)
  PROVE  Stem(n) \in Names /\ Len(Stem(n)) = Len(n) - 1 /\ Suffix(n) \in STRING
  <1>1. PICK s \in Sources : \E j \in DOMAIN s : n = SubSeq(s, 1, j)
    BY NamesArePrefixes
  <1>2. PICK j \in DOMAIN s : n = SubSeq(s, 1, j)
    BY <1>1
  <1>3. s \in Seq(STRING) /\ j \in 1..Len(s) /\ DOMAIN s = 1..Len(s)
    BY Consts
  <1>4. Engines[k].ext \in STRING /\ Engines[k].ext # ""
    BY Consts
  <1>5. Len(n) = j /\ Len(n) > 1
    <2>1. Len(n) = j
      BY <1>2, <1>3
    <2>2. j \in Nat /\ j # 0
      BY <1>3
    <2> QED
      BY <1>4, <2>1, <2>2, SuffixedAreLonger DEF IsTmpl
  <1>6. Stem(n) = SubSeq(s, 1, j - 1)
    BY <1>2, <1>3, <1>5 DEF Stem, Front
  <1>7. j - 1 \in DOMAIN s
    BY <1>3, <1>5
  <1>8. Stem(n) \in Names
    BY <1>6, <1>7, NamesArePrefixes
  <1>9. Len(Stem(n)) = Len(n) - 1
    BY <1>3, <1>5, <1>6
  <1> QED
    BY <1>4, <1>8, <1>9, Zenon DEF IsTmpl

\* There are finitely many names, so that a glob has an end.
LEMMA NamesAreFinite == IsFiniteSet(Names)
  <1> DEFINE Begins(n) == {SubSeq(n, 1, k) : k \in DOMAIN n}
             All == {Begins(n) : n \in Sources}
  <1>1. ASSUME NEW n \in Sources
        PROVE  IsFiniteSet(Begins(n))
    <2> DEFINE f == [k \in DOMAIN n |-> SubSeq(n, 1, k)]
    <2>1. f \in Surjection(DOMAIN n, Begins(n))
      BY DEF Surjection
    <2>2. IsFiniteSet(DOMAIN n)
      <3>1. DOMAIN n = 1..Len(n) /\ Len(n) \in Nat
        BY Consts
      <3>2. Len(n) \in Int /\ 1 \in Int
        BY <3>1
      <3>3. IsFiniteSet(1..Len(n))
        BY <3>2, FS_Interval
      <3> QED
        BY <3>1, <3>3
    <2> HIDE DEF Begins, f
    <2> QED
      BY <2>1, <2>2, FS_Surjection
  <1>2. IsFiniteSet(All)
    <2> DEFINE f == [n \in Sources |-> Begins(n)]
    <2> HIDE DEF Begins
    <2>1. f \in Surjection(Sources, All)
      BY DEF Surjection
    <2> HIDE DEF f, All
    <2> QED
      BY <2>1, Consts, FS_Surjection
  <1>3. Names = UNION All
    BY DEF Names
  <1>4. \A T \in All : IsFiniteSet(T)
    <2> HIDE DEF Begins
    <2> QED
      BY <1>1
  <1> HIDE DEF All
  <1> QED
    BY <1>2, <1>3, <1>4, FS_UNION

\* A glob lists every file of a finite directory once (SetToSeqs).
LEMMA ListsAreComplete ==
  ASSUME NEW S, IsFiniteSet(S), NEW l \in SetToSeqs(S)
  PROVE  /\ l \in Seq(S)
         /\ \A n \in S : \E k \in DOMAIN l : l[k] = n
         /\ \A j, k \in DOMAIN l : l[j] = l[k] => j = k
  <1> DEFINE D == 1..Cardinality(S)
  <1>1. Cardinality(S) \in Nat
    BY FS_CardinalityType
  <1>2. l \in [D -> S] /\ \A i, j \in D : i # j => l[i] # l[j]
    BY DEF SetToSeqs
  <1>3. l \in Injection(D, S)
    BY <1>2 DEF Injection, IsInjective
  <1>4. Cardinality(D) = Cardinality(S)
    BY <1>1, FS_Interval
  <1>5. l \in Surjection(D, S)
    <2> HIDE DEF D
    <2> QED
      BY <1>3, <1>4, FS_Injection
  <1>6. DOMAIN l = D /\ \A n \in S : \E k \in D : l[k] = n
    BY <1>2, <1>5 DEF Surjection
  <1> QED
    BY <1>1, <1>2, <1>6

(***************************************************************************)
(* What is in the directories when the engines P have been applied to      *)
(* files, pairs of an engine and a file, and have failed on the pairs F.   *)
(***************************************************************************)

Jobs == (DOMAIN Engines) \X Sources

\* The source file m is in d: it is its own, or an engine has linked it there.
Linked(P, d, m) ==
    d = Root \/ \E k \in DOMAIN Engines : <<k, m>> \in P /\ Engines[k].sub = d /\ ~IsTmpl(k, m)

\* An engine has written the output of n to d.
Output(P, F, d, n) ==
    \E k \in DOMAIN Engines : <<k, n>> \in P \ F /\ Engines[k].sub = d /\ IsTmpl(k, n)

Holds(i, c, P, F) ==
    /\ \A d \in Dirs, m \in Sources :
          i[<<d, m>>] = IF Linked(P, d, m) THEN <<Root, m>> ELSE None
    /\ \A m \in Sources : c[<<Root, m>>] = <<m>>
    /\ \A d \in Dirs, m \in Names \ Sources :
          i[<<d, m>>] = IF \E n \in Sources : Output(P, F, d, n) /\ Stem(n) = m
                        THEN <<d, m>> ELSE None
    /\ \A d \in Dirs, n \in Sources :
          Output(P, F, d, n) => c[<<d, Stem(n)>>] = Append(<<n>>, Suffix(n))

\* A path is made of its directory and its name.
LEMMA PathParts ==
  /\ \A d \in Dirs, n \in Names : <<d, n>> \in Paths
  /\ \A p \in Paths : p[1] \in Dirs /\ p[2] \in Names /\ p = <<p[1], p[2]>>
  BY DEF Paths

\* A copy leaves the source files and nothing else (rsync --delete, rmtree).
LEMMA CleanHolds == Holds(Clean, [p \in Paths |-> <<p[2]>>], {}, {})
  <1>1. \A d, m : ~Linked({}, d, m) \/ d = Root
    BY DEF Linked
  <1>2. \A d, n : ~Output({}, {}, d, n)
    BY DEF Output
  <1>3. ASSUME NEW d \in Dirs, NEW n \in Names
        PROVE  Clean[<<d, n>>] = IF d = Root /\ n \in Sources THEN <<d, n>> ELSE None
    BY <1>3, PathParts DEF Clean
  <1>4. ASSUME NEW d \in Dirs, NEW m \in Sources
        PROVE  Clean[<<d, m>>] = IF Linked({}, d, m) THEN <<Root, m>> ELSE None
    <2>1. Linked({}, d, m) <=> d = Root
      BY <1>1 DEF Linked
    <2> QED
      BY <1>3, <2>1, SourcesAreNames
  <1>5. ASSUME NEW d \in Dirs, NEW m \in Names \ Sources
        PROVE  Clean[<<d, m>>] = IF \E n \in Sources : Output({}, {}, d, n) /\ Stem(n) = m
                                 THEN <<d, m>> ELSE None
    BY <1>2, <1>3
  <1>6. ASSUME NEW m \in Sources
        PROVE  [p \in Paths |-> <<p[2]>>][<<Root, m>>] = <<m>>
    BY Consts, PathParts, SourcesAreNames
  <1> QED
    BY <1>2, <1>4, <1>5, <1>6 DEF Holds

\* The next job (k, n) of some evaluation.
Job(k, n, P, F) == k \in DOMAIN Engines /\ n \in Sources /\ <<k, n>> \notin P /\ F \subseteq P

\* A file that is no template, and is in its place already, changes nothing (evaluate).
LEMMA SkipHolds ==
  ASSUME NEW i, NEW c, NEW P, NEW F, Holds(i, c, P, F),
         NEW k \in DOMAIN Engines, NEW n \in Sources, Job(k, n, P, F), ~IsTmpl(k, n),
         <<Engines[k].sub, n>> = <<Root, n>> \/ i[<<Engines[k].sub, n>>] # None
  PROVE  Holds(i, c, P \cup {<<k, n>>}, F)
  <1> DEFINE Q == P \cup {<<k, n>>}
  <1>1. Engines[k].sub \in Dirs
    BY Consts
  <1>2. ASSUME NEW d \in Dirs, NEW m \in Sources
        PROVE  Linked(Q, d, m) <=> Linked(P, d, m)
    <2>1. CASE m = n /\ d = Engines[k].sub
      <3>1. Linked(P, d, m)
        <4>1. CASE d = Root
          BY <4>1 DEF Linked
        <4>2. CASE d # Root
          <5>1. i[<<d, m>>] # None
            BY <2>1, <4>2
          <5> QED
            BY <5>1 DEF Holds
        <4> QED
          BY <4>1, <4>2
      <3> QED
        BY <3>1 DEF Linked
    <2>2. CASE ~(m = n /\ d = Engines[k].sub)
      BY <2>2 DEF Linked
    <2> QED
      BY <2>1, <2>2
  <1>3. ASSUME NEW d \in Dirs, NEW m \in Sources
        PROVE  Output(Q, F, d, m) <=> Output(P, F, d, m)
    BY DEF Output
  <1> HIDE DEF Q
  <1>4. Holds(i, c, Q, F)
    BY <1>2, <1>3 DEF Holds
  <1> QED
    BY <1>4 DEF Q

\* A link puts the file where the engine wants it (hardlink_to).
LEMMA LinkHolds ==
  ASSUME NEW i \in [Paths -> Paths \cup {None}], NEW c, NEW P, NEW F, Holds(i, c, P, F),
         NEW k \in DOMAIN Engines, NEW n \in Sources, Job(k, n, P, F), ~IsTmpl(k, n)
  PROVE  Holds([i EXCEPT ![<<Engines[k].sub, n>>] = i[<<Root, n>>]], c, P \cup {<<k, n>>}, F)
  <1> DEFINE Q == P \cup {<<k, n>>}
             to == Engines[k].sub
             j == [i EXCEPT ![<<to, n>>] = i[<<Root, n>>]]
  <1>1. to \in Dirs /\ Root \in Dirs /\ <<to, n>> \in Paths /\ n \in Names
    BY Consts, PathParts, SourcesAreNames
  <1>2. i[<<Root, n>>] = <<Root, n>>
    BY <1>1 DEF Holds, Linked
  <1>3. ASSUME NEW d \in Dirs, NEW m \in Names
        PROVE  j[<<d, m>>] = IF d = to /\ m = n THEN <<Root, n>> ELSE i[<<d, m>>]
    BY <1>1, <1>2, PathParts
  <1>4. ASSUME NEW d \in Dirs, NEW m \in Sources
        PROVE  Linked(Q, d, m) <=> Linked(P, d, m) \/ (d = to /\ m = n)
    BY DEF Linked
  <1>5. ASSUME NEW d \in Dirs, NEW m \in Sources
        PROVE  Output(Q, F, d, m) <=> Output(P, F, d, m)
    BY DEF Output
  <1> HIDE DEF Q, j, to
  <1>6. ASSUME NEW d \in Dirs, NEW m \in Sources
        PROVE  j[<<d, m>>] = IF Linked(Q, d, m) THEN <<Root, m>> ELSE None
    <2>1. i[<<d, m>>] = IF Linked(P, d, m) THEN <<Root, m>> ELSE None
      BY DEF Holds
    <2> QED
      BY <1>3, <1>4, <2>1, SourcesAreNames
  <1>7. ASSUME NEW d \in Dirs, NEW m \in Names \ Sources
        PROVE  j[<<d, m>>] = IF \E x \in Sources : Output(Q, F, d, x) /\ Stem(x) = m
                             THEN <<d, m>> ELSE None
    <2>1. i[<<d, m>>] = IF \E x \in Sources : Output(P, F, d, x) /\ Stem(x) = m
                        THEN <<d, m>> ELSE None
      BY DEF Holds
    <2>2. j[<<d, m>>] = i[<<d, m>>]
      BY <1>3
    <2>3. (\E x \in Sources : Output(Q, F, d, x) /\ Stem(x) = m)
            <=> (\E x \in Sources : Output(P, F, d, x) /\ Stem(x) = m)
      BY <1>5
    <2> QED
      BY <2>1, <2>2, <2>3
  <1>8. /\ \A m \in Sources : c[<<Root, m>>] = <<m>>
        /\ \A d \in Dirs, m \in Sources : Output(Q, F, d, m) => c[<<d, Stem(m)>>] = Append(<<m>>, Suffix(m))
    BY <1>5 DEF Holds
  <1>9. Holds(j, c, Q, F)
    BY <1>6, <1>7, <1>8 DEF Holds
  <1> QED
    BY <1>9 DEF Q, j, to

\* A template that cannot be applied leaves everything as it was (evaluate).
LEMMA FailHolds ==
  ASSUME NEW i, NEW c, NEW P, NEW F, Holds(i, c, P, F),
         NEW k \in DOMAIN Engines, NEW n \in Sources, Job(k, n, P, F), IsTmpl(k, n)
  PROVE  Holds(i, c, P \cup {<<k, n>>}, F \cup {<<k, n>>})
  <1> DEFINE Q == P \cup {<<k, n>>}
             G == F \cup {<<k, n>>}
  <1>1. Q \ G = P \ F
    BY DEF Job
  <1>2. ASSUME NEW d \in Dirs, NEW m \in Sources
        PROVE  Linked(Q, d, m) <=> Linked(P, d, m)
    BY DEF Linked
  <1>3. ASSUME NEW d \in Dirs, NEW m \in Sources
        PROVE  Output(Q, G, d, m) <=> Output(P, F, d, m)
    BY <1>1 DEF Output
  <1> HIDE DEF Q, G
  <1>4. Holds(i, c, Q, G)
    BY <1>2, <1>3 DEF Holds
  <1> QED
    BY <1>4 DEF Q, G

\* The output of a template gets a name of its own (write_text).
LEMMA WriteHolds ==
  ASSUME NEW i \in [Paths -> Paths \cup {None}], NEW c, NEW P, NEW F, Holds(i, c, P, F),
         NEW k \in DOMAIN Engines, NEW n \in Sources, Job(k, n, P, F), IsTmpl(k, n),
         DOMAIN c = Paths, NEW p, p = <<Engines[k].sub, Stem(n)>>
  PROVE  /\ i[p] \in {p, None}
         /\ Holds([i EXCEPT ![p] = p], [c EXCEPT ![p] = Append(<<n>>, Engines[k].ext)],
                  P \cup {<<k, n>>}, F)
  <1> DEFINE Q == P \cup {<<k, n>>}
             to == Engines[k].sub
             new == Append(<<n>>, Suffix(n))
             j == [i EXCEPT ![p] = p]
             e == [c EXCEPT ![p] = new]
  <1>1. to \in Dirs /\ n \in Names /\ Stem(n) \in Names \ Sources /\ p \in Paths
    BY Consts, PathParts, SourcesAreNames, StemsAreNames, OutputsDiffer
  <1>2. \A m \in Sources : Stem(m) = Stem(n) => m = n
    BY OutputsDiffer
  <1>3. ASSUME NEW d \in Dirs, NEW m \in Names
        PROVE  /\ j[<<d, m>>] = IF d = to /\ m = Stem(n) THEN <<d, m>> ELSE i[<<d, m>>]
               /\ e[<<d, m>>] = IF d = to /\ m = Stem(n) THEN new ELSE c[<<d, m>>]
    <2> HIDE DEF new
    <2> QED
      BY <1>1, PathParts
  <1>4. ASSUME NEW d \in Dirs, NEW m \in Sources
        PROVE  Linked(Q, d, m) <=> Linked(P, d, m)
    BY DEF Linked
  <1>5. ASSUME NEW d \in Dirs, NEW m \in Sources
        PROVE  Output(Q, F, d, m) <=> Output(P, F, d, m) \/ (d = to /\ m = n)
    <2>1. <<k, n>> \in Q \ F
      BY DEF Job
    <2> QED
      BY <2>1 DEF Output
  <1> HIDE DEF Q, j, to, e, new
  <1>6. ASSUME NEW d \in Dirs, NEW m \in Sources
        PROVE  j[<<d, m>>] = IF Linked(Q, d, m) THEN <<Root, m>> ELSE None
    <2>1. i[<<d, m>>] = IF Linked(P, d, m) THEN <<Root, m>> ELSE None
      BY DEF Holds
    <2>2. j[<<d, m>>] = i[<<d, m>>]
      BY <1>1, <1>3, SourcesAreNames
    <2> QED
      BY <1>4, <2>1, <2>2
  <1>7. ASSUME NEW m \in Sources
        PROVE  e[<<Root, m>>] = <<m>>
    <2>1. e[<<Root, m>>] = c[<<Root, m>>]
      BY <1>1, <1>3, SourcesAreNames, Consts
    <2> QED
      BY <2>1 DEF Holds
  <1>8. ASSUME NEW d \in Dirs, NEW m \in Names \ Sources
        PROVE  j[<<d, m>>] = IF \E x \in Sources : Output(Q, F, d, x) /\ Stem(x) = m
                             THEN <<d, m>> ELSE None
    <2>1. i[<<d, m>>] = IF \E x \in Sources : Output(P, F, d, x) /\ Stem(x) = m
                        THEN <<d, m>> ELSE None
      BY DEF Holds
    <2>2. CASE d = to /\ m = Stem(n)
      <3>1. Output(Q, F, d, n) /\ Stem(n) = m
        BY <1>5, <2>2
      <3> QED
        BY <1>3, <2>2, <3>1
    <2>3. CASE ~(d = to /\ m = Stem(n))
      <3>1. j[<<d, m>>] = i[<<d, m>>]
        BY <1>3, <2>3
      <3>2. (\E x \in Sources : Output(Q, F, d, x) /\ Stem(x) = m)
              <=> (\E x \in Sources : Output(P, F, d, x) /\ Stem(x) = m)
        BY <1>5, <2>3
      <3> QED
        BY <2>1, <3>1, <3>2
    <2> QED
      BY <2>2, <2>3
  <1>9. ASSUME NEW d \in Dirs, NEW m \in Sources, Output(Q, F, d, m)
        PROVE  e[<<d, Stem(m)>>] = Append(<<m>>, Suffix(m))
    <2>1. PICK l \in DOMAIN Engines : IsTmpl(l, m)
      BY <1>9 DEF Output
    <2>2. Stem(m) \in Names
      BY <2>1, StemsAreNames, SourcesAreNames
    <2>3. CASE d = to /\ m = n
      BY <1>3, <2>2, <2>3 DEF new
    <2>4. CASE ~(d = to /\ m = n)
      <3>1. Output(P, F, d, m)
        BY <1>5, <1>9, <2>4
      <3>2. ~(d = to /\ Stem(m) = Stem(n))
        BY <1>2, <2>4
      <3>3. e[<<d, Stem(m)>>] = c[<<d, Stem(m)>>]
        BY <1>3, <2>2, <3>2
      <3> QED
        BY <3>1, <3>3 DEF Holds
    <2> QED
      BY <2>3, <2>4
  <1>10. Holds(j, e, Q, F)
    BY <1>6, <1>7, <1>8, <1>9 DEF Holds
  <1>11. i[p] \in {p, None}
    <2>1. p = <<to, Stem(n)>>
      BY DEF to
    <2> QED
      BY <1>1, <2>1 DEF Holds
  <1>12. Engines[k].ext = Suffix(n)
    BY DEF IsTmpl
  <1> QED
    BY <1>10, <1>11, <1>12 DEF Q, j, e, new

\* Once every engine has been applied to every file, the directories are what the
\* configuration asks for.
LEMMA AllHold ==
  ASSUME NEW e \in Runs, Holds(inode, data, Jobs, failed[e]), NEW p \in Paths
  PROVE  (IF Exists(p) THEN {Content(p)} ELSE {}) = Rendered(e, p[1], p[2]) \cup Copied(p[1], p[2])
  <1> DEFINE d == p[1]
             m == p[2]
             F == failed[e]
  <1>1. d \in Dirs /\ m \in Names /\ p = <<d, m>>
    BY PathParts
  <1>2. \A x : x \in Rendered(e, d, m) <=>
          \E n \in Sources, k \in DOMAIN Engines :
             /\ IsTmpl(k, n) /\ Stem(n) = m /\ Engines[k].sub = d /\ <<k, n>> \notin F
             /\ x = Append(<<n>>, Engines[k].ext)
    <2> DEFINE T == {x \in Sources \X DOMAIN Engines :
                       /\ Suffix(x[1]) = Engines[x[2]].ext /\ Stem(x[1]) = m
                       /\ Engines[x[2]].sub = d /\ <<x[2], x[1]>> \notin F}
    <2>1. \A n, k : <<n, k>> \in T <=>
            /\ n \in Sources /\ k \in DOMAIN Engines
            /\ IsTmpl(k, n) /\ Stem(n) = m /\ Engines[k].sub = d /\ <<k, n>> \notin F
      BY DEF IsTmpl
    <2>2. \A y \in T : y = <<y[1], y[2]>>
      OBVIOUS
    <2>3. \A x : x \in Rendered(e, d, m) <=> \E y \in T : x = Append(<<y[1]>>, Engines[y[2]].ext)
      BY DEF Rendered
    <2> HIDE DEF T
    <2>4. ASSUME NEW x, x \in Rendered(e, d, m)
          PROVE  \E n \in Sources, k \in DOMAIN Engines :
                    /\ IsTmpl(k, n) /\ Stem(n) = m /\ Engines[k].sub = d /\ <<k, n>> \notin F
                    /\ x = Append(<<n>>, Engines[k].ext)
      <3>1. PICK y \in T : x = Append(<<y[1]>>, Engines[y[2]].ext)
        BY <2>3, <2>4
      <3>2. <<y[1], y[2]>> \in T
        BY <2>2
      <3> QED
        BY <2>1, <3>1, <3>2
    <2>5. ASSUME NEW x, NEW n \in Sources, NEW k \in DOMAIN Engines,
                 IsTmpl(k, n), Stem(n) = m, Engines[k].sub = d, <<k, n>> \notin F,
                 x = Append(<<n>>, Engines[k].ext)
          PROVE  x \in Rendered(e, d, m)
      <3>1. <<n, k>> \in T /\ <<n, k>>[1] = n /\ <<n, k>>[2] = k
        BY <2>1, <2>5
      <3> QED
        BY <2>3, <2>5, <3>1
    <2> QED
      BY <2>4, <2>5
  <1>3. \A n \in Sources : Output(Jobs, F, d, n) <=>
          \E k \in DOMAIN Engines : IsTmpl(k, n) /\ Engines[k].sub = d /\ <<k, n>> \notin F
    BY DEF Output, Jobs
  <1>4. m \in Sources => (Linked(Jobs, d, m) <=>
          d = Root \/ \E k \in DOMAIN Engines : Engines[k].sub = d /\ Suffix(m) # Engines[k].ext)
    BY DEF Linked, Jobs, IsTmpl
  <1> HIDE DEF d, m, F
  <1>5. CASE m \in Sources
    <2>1. \A x : x \notin Rendered(e, d, m)
      BY <1>2, <1>5, OutputsDiffer
    <2>2. Copied(d, m) = IF Linked(Jobs, d, m) THEN {<<m>>} ELSE {}
      BY <1>4, <1>5 DEF Copied
    <2>3. inode[p] = IF Linked(Jobs, d, m) THEN <<Root, m>> ELSE None
      BY <1>1, <1>5 DEF Holds
    <2>4. data[<<Root, m>>] = <<m>> /\ <<Root, m>> # None
      BY <1>5, PathParts, SourcesAreNames, Consts DEF Holds
    <2>5. (IF Exists(p) THEN {Content(p)} ELSE {}) = IF Linked(Jobs, d, m) THEN {<<m>>} ELSE {}
      BY <2>3, <2>4 DEF Exists, Content
    <2> QED
      BY <2>1, <2>2, <2>5 DEF d, m
  <1>6. CASE m \notin Sources
    <2>1. Copied(d, m) = {}
      BY <1>6 DEF Copied
    <2>2. inode[p] = IF \E n \in Sources : Output(Jobs, F, d, n) /\ Stem(n) = m THEN p ELSE None
      BY <1>1, <1>6 DEF Holds, F
    <2>3. CASE \E n \in Sources : Output(Jobs, F, d, n) /\ Stem(n) = m
      <3>1. PICK n \in Sources : Output(Jobs, F, d, n) /\ Stem(n) = m
        BY <2>3
      <3>2. inode[p] = p /\ p # None /\ data[p] = Append(<<n>>, Suffix(n))
        BY <1>1, <2>2, <3>1, Consts DEF Holds, F
      <3>3. PICK k \in DOMAIN Engines : IsTmpl(k, n) /\ Engines[k].sub = d /\ <<k, n>> \notin F
        BY <1>3, <3>1
      <3>4. \A y \in Sources : Stem(y) = m => y = n
        BY <3>1, <3>3, OutputsDiffer
      <3>5. \A l \in DOMAIN Engines : IsTmpl(l, n) => Append(<<n>>, Engines[l].ext) = Append(<<n>>, Suffix(n))
        BY DEF IsTmpl
      <3>6. \A x : x \in Rendered(e, d, m) <=> x = Append(<<n>>, Suffix(n))
        BY <1>2, <3>1, <3>3, <3>4, <3>5
      <3>7. Rendered(e, d, m) = {data[p]}
        BY <3>2, <3>6
      <3> QED
        BY <2>1, <3>2, <3>7 DEF Exists, Content, d, m
    <2>4. CASE ~\E n \in Sources : Output(Jobs, F, d, n) /\ Stem(n) = m
      <3>1. \A x : x \notin Rendered(e, d, m)
        BY <1>2, <1>3, <2>4
      <3> QED
        BY <2>1, <2>2, <2>4, <3>1 DEF Exists, d, m
    <2> QED
      BY <2>3, <2>4
  <1> QED
    BY <1>5, <1>6

(***************************************************************************)
(* The evaluation as a walk through the jobs.                              *)
(***************************************************************************)

Ats     == {"new", "glob", "file", "write", "link", "done", "aborted"}
Working == {"file", "write", "link"}
Texts   == Seq(Names \cup STRING)
Row     == [at : Ats, files : Seq(Names), engine : Nat, pos : Nat, read : Texts \cup {None}]

\* The position of r is one of its files, for one of the engines.
InRange(r) == r.engine \in DOMAIN Engines /\ r.pos \in DOMAIN r.files

\* The list has each source file once.
Listed(l) ==
    /\ \A k \in DOMAIN l : l[k] \in Sources
    /\ \A n \in Sources : \E k \in DOMAIN l : l[k] = n
    /\ \A j, k \in DOMAIN l : l[j] = l[k] => j = k

\* The jobs that an evaluation in r has behind it.
Did(r) == {x \in Jobs : \/ r.at = "done"
                        \/ x[1] < r.engine
                        \/ x[1] = r.engine /\ \E k \in 1..(r.pos - 1) : r.files[k] = x[2]}

\* Step, as a function of where the evaluation is.
NextRow(r) ==
    IF r.pos < Len(r.files) THEN [r EXCEPT !.at = "file", !.pos = r.pos + 1]
    ELSE IF r.engine < Len(Engines)
         THEN [r EXCEPT !.at = "file", !.pos = 1, !.engine = r.engine + 1]
         ELSE [r EXCEPT !.at = "done"]

\* The same, as the model writes it.
LEMMA StepIsNextRow == \A e : Step(e) = NextRow(run[e])
  BY DEF Step, NextRow

\* A step keeps to the files and the engines, and to the list it took.
LEMMA StepsInRange ==
  ASSUME NEW r \in Row, InRange(r)
  PROVE  /\ NextRow(r) \in Row /\ NextRow(r).at \in {"file", "done"}
         /\ NextRow(r).files = r.files
         /\ NextRow(r).at = "file" => InRange(NextRow(r))
  <1>1. /\ r.files \in Seq(Names) /\ r.engine \in Nat /\ r.pos \in Nat
        /\ r.engine \in 1..Len(Engines) /\ Len(Engines) \in Nat
        /\ r.pos \in 1..Len(r.files) /\ Len(r.files) \in Nat /\ DOMAIN r.files = 1..Len(r.files)
        /\ DOMAIN Engines = 1..Len(Engines)
    <2>1. r.files \in Seq(Names) /\ r.engine \in Nat /\ r.pos \in Nat
      BY DEF Row
    <2>2. r.engine \in DOMAIN Engines /\ r.pos \in DOMAIN r.files
      BY DEF InRange
    <2>3. Len(r.files) \in Nat /\ DOMAIN r.files = 1..Len(r.files)
      BY <2>1
    <2> QED
      BY <2>1, <2>2, <2>3, Consts
  <1>2. CASE r.pos < Len(r.files)
    <2>1. NextRow(r) = [r EXCEPT !.at = "file", !.pos = r.pos + 1]
      BY <1>2 DEF NextRow
    <2>2. r.pos + 1 \in Nat /\ r.pos + 1 \in 1..Len(r.files)
      BY <1>1, <1>2
    <2> QED
      BY <1>1, <2>1, <2>2 DEF Row, Ats, InRange
  <1>3. CASE ~(r.pos < Len(r.files)) /\ r.engine < Len(Engines)
    <2>1. NextRow(r) = [r EXCEPT !.at = "file", !.pos = 1, !.engine = r.engine + 1]
      BY <1>3 DEF NextRow
    <2>2. /\ r.engine + 1 \in Nat /\ r.engine + 1 \in DOMAIN Engines
          /\ 1 \in DOMAIN r.files /\ 1 \in Nat
      BY <1>1, <1>3
    <2>3. NextRow(r) \in Row /\ NextRow(r).at = "file" /\ NextRow(r).files = r.files
      BY <1>1, <2>1, <2>2 DEF Row, Ats
    <2>4. NextRow(r).engine = r.engine + 1 /\ NextRow(r).pos = 1
      BY <2>1 DEF Row
    <2> QED
      BY <2>2, <2>3, <2>4 DEF InRange
  <1>4. CASE ~(r.pos < Len(r.files)) /\ ~(r.engine < Len(Engines))
    <2>1. NextRow(r) = [r EXCEPT !.at = "done"]
      BY <1>4 DEF NextRow
    <2> QED
      BY <1>1, <2>1 DEF Row, Ats, InRange
  <1> QED
    BY <1>2, <1>3, <1>4

\* A step leaves exactly one job behind, which was not done before.
LEMMA StepsDoOneJob ==
  ASSUME NEW r \in Row, InRange(r), Listed(r.files), r.at # "done"
  PROVE  /\ r.files[r.pos] \in Sources /\ <<r.engine, r.files[r.pos]>> \notin Did(r)
         /\ Did(NextRow(r)) = Did(r) \cup {<<r.engine, r.files[r.pos]>>}
  <1> DEFINE job == <<r.engine, r.files[r.pos]>>
             s == NextRow(r)
  <1>1. /\ r.files \in Seq(Names) /\ r.engine \in Nat /\ r.pos \in Nat
        /\ r.engine \in 1..Len(Engines) /\ Len(Engines) \in Nat
        /\ r.pos \in 1..Len(r.files) /\ Len(r.files) \in Nat /\ DOMAIN r.files = 1..Len(r.files)
        /\ DOMAIN Engines = 1..Len(Engines)
    <2>1. r.files \in Seq(Names) /\ r.engine \in Nat /\ r.pos \in Nat
      BY DEF Row
    <2>2. r.engine \in DOMAIN Engines /\ r.pos \in DOMAIN r.files
      BY DEF InRange
    <2>3. Len(r.files) \in Nat /\ DOMAIN r.files = 1..Len(r.files)
      BY <2>1
    <2> QED
      BY <2>1, <2>2, <2>3, Consts
  <1>2. r.files[r.pos] \in Sources
    BY <1>1 DEF Listed
  <1>3. job \in Jobs /\ job[1] = r.engine /\ job[2] = r.files[r.pos]
    BY <1>1, <1>2 DEF Jobs
  <1>4. \A x \in Jobs : /\ x[1] \in 1..Len(Engines) /\ x[2] \in Sources
                        /\ x = <<x[1], x[2]>>
    BY <1>1 DEF Jobs
  <1>5. \A x \in Jobs : x = job <=> x[1] = r.engine /\ x[2] = r.files[r.pos]
    BY <1>3, <1>4
  <1> HIDE DEF job
  <1>6. job \notin Did(r)
    <2>1. \A k \in 1..(r.pos - 1) : k \in DOMAIN r.files /\ k # r.pos
      BY <1>1
    <2>2. \A k \in 1..(r.pos - 1) : r.files[k] # r.files[r.pos]
      BY <1>1, <2>1 DEF Listed
    <2> QED
      BY <1>1, <1>3, <2>2 DEF Did
  <1>7. ASSUME NEW x \in Jobs
        PROVE  x \in Did(s) <=> x \in Did(r) \/ x = job
    <2>1. x[1] \in 1..Len(Engines) /\ x[2] \in Sources
      BY <1>4
    <2>2. x \in Did(r) <=> \/ x[1] < r.engine
                           \/ x[1] = r.engine /\ \E k \in 1..(r.pos - 1) : r.files[k] = x[2]
      BY DEF Did
    <2>3. CASE r.pos < Len(r.files)
      <3>1. s = [r EXCEPT !.at = "file", !.pos = r.pos + 1]
        BY <2>3 DEF NextRow
      <3>2. s.at = "file" /\ s.engine = r.engine /\ s.pos = r.pos + 1 /\ s.files = r.files
        BY <3>1 DEF Row
      <3>3. s.pos - 1 = r.pos
        BY <1>1, <3>2
      <3> HIDE DEF s
      <3>4. x \in Did(s) <=> \/ x[1] < r.engine
                             \/ x[1] = r.engine /\ \E k \in 1..r.pos : r.files[k] = x[2]
        BY <3>2, <3>3 DEF Did
      <3>5. (\E k \in 1..r.pos : r.files[k] = x[2])
              <=> (\E k \in 1..(r.pos - 1) : r.files[k] = x[2]) \/ x[2] = r.files[r.pos]
        BY <1>1
      <3> QED
        BY <1>5, <2>2, <3>4, <3>5
    <2>4. CASE ~(r.pos < Len(r.files))
      <3>1. r.pos = Len(r.files)
        BY <1>1, <2>4
      <3>2. PICK k \in 1..Len(r.files) : r.files[k] = x[2]
        BY <1>1, <2>1 DEF Listed
      <3>3. k \in 1..(r.pos - 1) \/ k = r.pos
        BY <1>1, <3>1
      <3>4. x \in Did(r) \/ x = job <=> x[1] < r.engine \/ x[1] = r.engine
        BY <1>5, <2>2, <3>2, <3>3
      <3>5. CASE r.engine < Len(Engines)
        <4>1. s = [r EXCEPT !.at = "file", !.pos = 1, !.engine = r.engine + 1]
          BY <2>4, <3>5 DEF NextRow
        <4>2. s.at = "file" /\ s.engine = r.engine + 1 /\ s.pos = 1
          BY <4>1 DEF Row
        <4> HIDE DEF s
        <4>3. x \in Did(s) <=> x[1] < r.engine + 1
          BY <4>2 DEF Did
        <4> QED
          BY <1>1, <2>1, <3>4, <4>3
      <3>6. CASE ~(r.engine < Len(Engines))
        <4>1. s = [r EXCEPT !.at = "done"]
          BY <2>4, <3>6 DEF NextRow
        <4>2. s.at = "done"
          BY <4>1 DEF Row
        <4> HIDE DEF s
        <4>3. x \in Did(s)
          BY <4>2 DEF Did
        <4>4. x[1] < r.engine \/ x[1] = r.engine
          BY <1>1, <2>1, <3>6
        <4> QED
          BY <3>4, <4>3, <4>4
      <3> QED
        BY <3>5, <3>6
    <2> QED
      BY <2>3, <2>4
  <1>8. Did(s) \subseteq Jobs /\ Did(r) \subseteq Jobs
    BY DEF Did
  <1> HIDE DEF s
  <1>9. Did(s) = Did(r) \cup {job}
    BY <1>3, <1>7, <1>8
  <1> QED
    BY <1>2, <1>6, <1>9 DEF job, s

(***************************************************************************)
(* The types.  A file has been through what its name has lost.             *)
(***************************************************************************)

\* A file of the name n holds c: the name it comes from, and the extensions that
\* engines have taken off it.
FileOK(n, c) ==
    c \in Texts /\ Len(c) >= 1 /\ c[1] \in Names /\ Len(n) + Len(c) = 1 + Len(c[1])

FileAt(r) == r.files[r.pos]

RowOK(r) ==
    /\ r.at \in {"new", "glob"} => r.engine = 1 /\ r.pos = 1
    /\ r.at \in Working => InRange(r)
    /\ r.at = "write" => IsTmpl(r.engine, FileAt(r)) /\ FileOK(FileAt(r), r.read)
    /\ r.at = "link" => ~IsTmpl(r.engine, FileAt(r))

FilesTyped ==
    /\ inode \in [Paths -> Paths \cup {None}]
    /\ \A p \in Paths : inode[p] # None => inode[p][2] = p[2]
    /\ data \in [Paths -> Texts]
    /\ \A p \in Paths : FileOK(p[2], data[p])

RunsTyped == run \in [Runs -> Row] /\ \A e \in Runs : RowOK(run[e])

RestTyped ==
    /\ failed \in [Runs -> SUBSET ((DOMAIN Engines) \X Names)]
    /\ faults \in 0..MaxFaults /\ overlapped \in BOOLEAN

Typed == FilesTyped /\ RunsTyped /\ RestTyped

\* The files of a copy.
LEMMA CleanTyped ==
  /\ Clean \in [Paths -> Paths \cup {None}]
  /\ \A p \in Paths : Clean[p] # None => Clean[p][2] = p[2]
  /\ [p \in Paths |-> <<p[2]>>] \in [Paths -> Texts]
  /\ \A p \in Paths : FileOK(p[2], [q \in Paths |-> <<q[2]>>][p])
  <1>1. /\ Clean \in [Paths -> Paths \cup {None}]
        /\ \A p \in Paths : Clean[p] # None => Clean[p][2] = p[2]
    BY DEF Clean
  <1>2. ASSUME NEW n \in Names
        PROVE  <<n>> \in Texts /\ Len(<<n>>) = 1 /\ <<n>>[1] = n
    BY DEF Texts
  <1>3. ASSUME NEW p \in Paths
        PROVE  <<p[2]>> \in Texts /\ FileOK(p[2], <<p[2]>>)
    <2>1. p[2] \in Names
      BY PathParts
    <2>2. Len(p[2]) \in Nat
      BY <2>1, NamesAreSequences
    <2> QED
      BY <1>2, <2>1, <2>2 DEF FileOK
  <1> QED
    BY <1>1, <1>3

\* A step of one evaluation leaves the others where they are.
LEMMA SetRun ==
  ASSUME RunsTyped, NEW e \in Runs, NEW r \in Row, RowOK(r), run' = [run EXCEPT ![e] = r]
  PROVE  /\ RunsTyped' /\ run'[e] = r
         /\ \A o \in Runs \ {e} : run'[o] = run[o]
  <1>1. /\ run' \in [Runs -> Row] /\ run'[e] = r
        /\ \A o \in Runs \ {e} : run'[o] = run[o]
    BY DEF RunsTyped
  <1>2. \A o \in Runs : RowOK(run'[o])
    BY <1>1 DEF RunsTyped
  <1> QED
    BY <1>1, <1>2 DEF RunsTyped

\* What the position of an evaluation stands for.
LEMMA Position ==
  ASSUME RunsTyped, NEW e \in Runs, run[e].at \in Working
  PROVE  /\ run[e] \in Row /\ RowOK(run[e]) /\ InRange(run[e])
         /\ File(e) = FileAt(run[e]) /\ File(e) \in Names
         /\ run[e].engine \in DOMAIN Engines /\ Engine(e) = Engines[run[e].engine]
         /\ IsTemplate(e) <=> IsTmpl(run[e].engine, FileAt(run[e]))
         /\ Src(e) = <<Root, File(e)>> /\ Src(e) \in Paths
         /\ Dest(e) = <<Engine(e).sub, IF IsTemplate(e) THEN Stem(File(e)) ELSE File(e)>>
         /\ Dest(e) \in Paths
  <1>1. run[e] \in Row /\ RowOK(run[e]) /\ InRange(run[e])
    BY DEF RunsTyped, RowOK
  <1>2. run[e].files \in Seq(Names)
    BY <1>1 DEF Row
  <1>3. File(e) \in Names /\ run[e].engine \in DOMAIN Engines
    BY <1>1, <1>2 DEF InRange, File
  <1>4. /\ File(e) = FileAt(run[e]) /\ Engine(e) = Engines[run[e].engine]
        /\ IsTemplate(e) <=> IsTmpl(run[e].engine, FileAt(run[e]))
    BY DEF File, FileAt, Engine, IsTemplate, IsTmpl
  <1>5. Src(e) = <<Root, File(e)>> /\ Src(e) \in Paths
    BY <1>3, PathParts, Consts DEF Src
  <1>6. Dest(e) = <<Engine(e).sub, IF IsTemplate(e) THEN Stem(File(e)) ELSE File(e)>>
    BY DEF Dest
  <1>7. Engine(e).sub \in Dirs
    BY <1>3, <1>4, Consts
  <1>8. IsTemplate(e) => Stem(File(e)) \in Names
    BY <1>3, <1>4, StemsAreNames
  <1>9. Dest(e) \in Paths
    BY <1>3, <1>6, <1>7, <1>8, PathParts
  <1> QED
    BY <1>1, <1>3, <1>4, <1>5, <1>6, <1>9

\* The next job is well typed.
LEMMA NextRowOK ==
  ASSUME NEW r \in Row, InRange(r)
  PROVE  NextRow(r) \in Row /\ RowOK(NextRow(r))
  BY StepsInRange DEF RowOK, Working

\* What a file may become is well typed.
LEMMA ChangeFiles ==
  ASSUME FilesTyped, NEW p \in Paths, NEW q \in Paths, q[2] = p[2]
  PROVE  /\ [inode EXCEPT ![p] = q] \in [Paths -> Paths \cup {None}]
         /\ \A x \in Paths : [inode EXCEPT ![p] = q][x] # None
                                => [inode EXCEPT ![p] = q][x][2] = x[2]
  BY DEF FilesTyped

(* Every action, in the serial case and in any other.                      *)

\* The refresh or fetch before an evaluation (base.py).
LEMMA TypedCopy ==
  ASSUME Typed, NEW e \in Runs, CopySources(e)
  PROVE  /\ Typed' /\ run'[e].at = "glob" /\ \A o \in Runs \ {e} : run'[o] = run[o]
  <1> DEFINE r == [run[e] EXCEPT !.at = "glob"]
  <1>1. /\ run[e].at = "new" /\ inode' = Clean /\ data' = [p \in Paths |-> <<p[2]>>]
        /\ run' = [run EXCEPT ![e] = r]
        /\ overlapped' \in BOOLEAN /\ failed' = failed /\ faults' = faults
    BY DEF CopySources, Typed, RestTyped
  <1>2. r \in Row /\ RowOK(r) /\ r.at = "glob"
    BY <1>1 DEF Typed, RunsTyped, Row, Ats, RowOK, Working
  <1>3. FilesTyped'
    BY <1>1, CleanTyped DEF FilesTyped
  <1>4. RestTyped'
    BY <1>1 DEF Typed, RestTyped
  <1> HIDE DEF r
  <1> QED
    BY <1>1, <1>2, <1>3, <1>4, SetRun DEF Typed

\* Glob keeps the types, and moves its own evaluation only.
LEMMA TypedGlob ==
  ASSUME Typed, NEW e \in Runs, Glob(e)
  PROVE  /\ Typed' /\ \A o \in Runs \ {e} : run'[o] = run[o]
         /\ UNCHANGED <<inode, data, failed, overlapped>>
         /\ \E list \in SetToSeqs(InRoot) :
              /\ run'[e] \in Row /\ run'[e].files = list
              /\ run'[e].at = IF Engines = <<>> \/ list = <<>> THEN "done" ELSE "file"
              /\ run'[e].engine = 1 /\ run'[e].pos = 1
  <1>1. /\ run[e].at = "glob" /\ UNCHANGED <<inode, data, failed, faults, overlapped>>
        /\ \E list \in SetToSeqs(InRoot) :
              run' = [run EXCEPT ![e] = [run[e] EXCEPT !.files = list,
                        !.at = IF Engines = <<>> \/ list = <<>> THEN "done" ELSE "file"]]
    BY DEF Glob
  <1>2. PICK list \in SetToSeqs(InRoot) :
              run' = [run EXCEPT ![e] = [run[e] EXCEPT !.files = list,
                        !.at = IF Engines = <<>> \/ list = <<>> THEN "done" ELSE "file"]]
    BY <1>1
  <1> DEFINE at == IF Engines = <<>> \/ list = <<>> THEN "done" ELSE "file"
             r == [run[e] EXCEPT !.files = list, !.at = at]
  <1>3. run' = [run EXCEPT ![e] = r]
    BY <1>2
  <1>4. list \in Seq(Names)
    <2>1. InRoot \subseteq Names
      BY DEF InRoot
    <2>2. IsFiniteSet(InRoot)
      BY <2>1, NamesAreFinite, FS_Subset
    <2>3. list \in Seq(InRoot)
      BY <2>2, ListsAreComplete
    <2> QED
      BY <2>1, <2>3
  <1>5. run[e] \in Row /\ run[e].engine = 1 /\ run[e].pos = 1
    BY <1>1 DEF Typed, RunsTyped, RowOK
  <1>6. at \in {"done", "file"}
    OBVIOUS
  <1> HIDE DEF at
  <1>7. r \in Row /\ r.files = list /\ r.at = at /\ r.engine = 1 /\ r.pos = 1
    BY <1>4, <1>5, <1>6 DEF Row, Ats
  <1>8. at = "file" => 1 \in DOMAIN Engines /\ 1 \in DOMAIN list
    <2>1. Engines # <<>> => 1 \in DOMAIN Engines
      BY EnginesOrNone
    <2>2. list # <<>> => 1 \in DOMAIN list
      BY <1>4
    <2> QED
      BY <2>1, <2>2 DEF at
  <1> HIDE DEF r
  <1>9. RowOK(r)
    BY <1>6, <1>7, <1>8 DEF RowOK, Working, InRange
  <1>10. RunsTyped' /\ run'[e] = r /\ \A o \in Runs \ {e} : run'[o] = run[o]
    BY <1>3, <1>7, <1>9, SetRun DEF Typed
  <1>11. FilesTyped' /\ RestTyped'
    BY <1>1 DEF Typed, FilesTyped, RestTyped
  <1> QED
    BY <1>1, <1>7, <1>10, <1>11 DEF Typed, at

\* A job that raises.
LEMMA TypedFailed ==
  ASSUME Typed, NEW e \in Runs, run[e].at \in Working, Failed(e), faults' \in 0..MaxFaults
  PROVE  Typed' /\ run'[e] = NextRow(run[e]) /\ \A o \in Runs \ {e} : run'[o] = run[o]
  <1>1. /\ failed' = [failed EXCEPT ![e] = failed[e] \cup {<<run[e].engine, File(e)>>}]
        /\ run' = [run EXCEPT ![e] = NextRow(run[e])]
        /\ UNCHANGED <<inode, data, overlapped>>
    BY StepIsNextRow DEF Failed, Goto
  <1>2. run[e] \in Row /\ InRange(run[e]) /\ File(e) \in Names /\ run[e].engine \in DOMAIN Engines
    BY Position DEF Typed
  <1>3. RunsTyped' /\ run'[e] = NextRow(run[e]) /\ \A o \in Runs \ {e} : run'[o] = run[o]
    BY <1>1, <1>2, NextRowOK, SetRun DEF Typed
  <1>4. FilesTyped'
    BY <1>1 DEF Typed, FilesTyped
  <1>5. failed' \in [Runs -> SUBSET ((DOMAIN Engines) \X Names)]
    BY <1>1, <1>2 DEF Typed, RestTyped
  <1>6. RestTyped'
    BY <1>1, <1>5 DEF Typed, RestTyped
  <1> QED
    BY <1>3, <1>4, <1>6 DEF Typed

\* Read keeps the types, and moves its own evaluation only.
LEMMA TypedRead ==
  ASSUME Typed, NEW e \in Runs, Read(e)
  PROVE  /\ Typed' /\ \A o \in Runs \ {e} : run'[o] = run[o]
         /\ run[e].at = "file" /\ IsTemplate(e)
         /\ IF Exists(Src(e))
            THEN /\ run'[e] = [run[e] EXCEPT !.at = "write", !.read = Content(Src(e))]
                 /\ UNCHANGED <<inode, data, failed, overlapped>>
            ELSE Failed(e)
  <1>1. run[e].at = "file" /\ IsTemplate(e) /\ faults' = faults
    BY DEF Read
  <1>2. run[e].at \in Working
    BY <1>1 DEF Working
  <1>3. CASE Exists(Src(e))
    <2> DEFINE c == Content(Src(e))
               r == [run[e] EXCEPT !.at = "write", !.read = c]
    <2>1. run' = [run EXCEPT ![e] = r] /\ UNCHANGED <<inode, data, failed, overlapped>>
      BY <1>3 DEF Read, Goto
    <2>2. /\ run[e] \in Row /\ InRange(run[e]) /\ Src(e) \in Paths /\ Src(e) = <<Root, File(e)>>
          /\ File(e) = FileAt(run[e]) /\ IsTmpl(run[e].engine, FileAt(run[e]))
      BY <1>1, <1>2, Position DEF Typed
    <2>3. inode[Src(e)] \in Paths /\ inode[Src(e)][2] = File(e)
      BY <1>3, <2>2 DEF Exists, Typed, FilesTyped
    <2>4. c \in Texts /\ FileOK(File(e), c)
      BY <2>3 DEF Content, Typed, FilesTyped
    <2> HIDE DEF c
    <2>5. /\ r \in Row /\ r.at = "write" /\ r.files = run[e].files /\ r.pos = run[e].pos
          /\ r.engine = run[e].engine /\ r.read = c
      BY <2>2, <2>4 DEF Row, Ats
    <2> HIDE DEF r
    <2>6. RowOK(r)
      BY <2>2, <2>4, <2>5 DEF RowOK, InRange, FileAt
    <2>7. RunsTyped' /\ run'[e] = r /\ \A o \in Runs \ {e} : run'[o] = run[o]
      BY <2>1, <2>5, <2>6, SetRun DEF Typed
    <2>8. FilesTyped' /\ RestTyped'
      BY <1>1, <2>1 DEF Typed, FilesTyped, RestTyped
    <2> QED
      BY <1>1, <1>3, <2>1, <2>7, <2>8 DEF Typed, r, c
  <1>4. CASE ~Exists(Src(e))
    <2>1. Failed(e)
      BY <1>4 DEF Read
    <2>2. faults' \in 0..MaxFaults
      BY <1>1 DEF Typed, RestTyped
    <2> QED
      BY <1>1, <1>2, <1>4, <2>1, <2>2, TypedFailed
  <1> QED
    BY <1>3, <1>4

\* RenderFail keeps the types, and moves its own evaluation only.
LEMMA TypedRenderFail ==
  ASSUME Typed, NEW e \in Runs, RenderFail(e)
  PROVE  /\ Typed' /\ run'[e] = NextRow(run[e]) /\ \A o \in Runs \ {e} : run'[o] = run[o]
         /\ run[e].at = "write" /\ Failed(e)
  <1>1. run[e].at = "write" /\ Failed(e) /\ faults < MaxFaults /\ faults' = faults + 1
    BY DEF RenderFail
  <1>2. run[e].at \in Working
    BY <1>1 DEF Working
  <1>3. faults' \in 0..MaxFaults
    <2>1. MaxFaults \in Nat
      BY Consts
    <2> QED
      BY <1>1, <2>1 DEF Typed, RestTyped
  <1> QED
    BY <1>1, <1>2, <1>3, TypedFailed

\* Write keeps the types, and moves its own evaluation only.
LEMMA TypedWrite ==
  ASSUME Typed, NEW e \in Runs, Write(e)
  PROVE  /\ Typed' /\ run'[e] = NextRow(run[e]) /\ \A o \in Runs \ {e} : run'[o] = run[o]
         /\ run[e].at = "write" /\ UNCHANGED <<failed, overlapped>>
  <1> DEFINE to == IF Exists(Dest(e)) THEN inode[Dest(e)] ELSE Dest(e)
             c == Append(run[e].read, Engine(e).ext)
  <1>1. /\ run[e].at = "write" /\ UNCHANGED <<failed, faults, overlapped>>
        /\ inode' = [inode EXCEPT ![Dest(e)] = to]
        /\ data' = [data EXCEPT ![to] = c]
        /\ run' = [run EXCEPT ![e] = NextRow(run[e])]
    BY StepIsNextRow DEF Write, Goto
  <1>2. run[e].at \in Working
    BY <1>1 DEF Working
  <1>3. /\ run[e] \in Row /\ RowOK(run[e]) /\ InRange(run[e]) /\ Dest(e) \in Paths
        /\ File(e) = FileAt(run[e]) /\ File(e) \in Names /\ run[e].engine \in DOMAIN Engines
        /\ Engine(e) = Engines[run[e].engine]
        /\ IsTemplate(e) <=> IsTmpl(run[e].engine, FileAt(run[e]))
        /\ Dest(e) = <<Engine(e).sub, IF IsTemplate(e) THEN Stem(File(e)) ELSE File(e)>>
    BY <1>2, Position DEF Typed
  <1>4. IsTmpl(run[e].engine, File(e)) /\ FileOK(File(e), run[e].read) /\ IsTemplate(e)
    BY <1>1, <1>3 DEF RowOK
  <1>5. Dest(e)[2] = Stem(File(e)) /\ Len(Stem(File(e))) = Len(File(e)) - 1
    BY <1>3, <1>4, StemsAreNames
  <1>6. to \in Paths /\ to[2] = Dest(e)[2]
    BY <1>3 DEF Exists, Typed, FilesTyped
  <1>7. FileOK(Stem(File(e)), c)
    <2>1. Engine(e).ext \in STRING
      BY <1>3, Consts
    <2>2. Engine(e).ext \in Names \cup STRING
      BY <2>1
    <2>3. run[e].read \in Seq(Names \cup STRING) /\ Len(run[e].read) >= 1
      BY <1>4 DEF FileOK, Texts
    <2> DEFINE S == Names \cup STRING
               x == Engine(e).ext
    <2> HIDE DEF S, x
    <2>4. run[e].read \in Seq(S) /\ x \in S
      BY <2>2, <2>3 DEF S, x
    <2>5. /\ Append(run[e].read, x) \in Seq(S) /\ Append(run[e].read, x)[1] = run[e].read[1]
          /\ Len(Append(run[e].read, x)) = Len(run[e].read) + 1 /\ Len(run[e].read) \in Nat
      BY <2>3, <2>4
    <2>6. c \in Texts /\ c[1] = run[e].read[1] /\ Len(c) = Len(run[e].read) + 1
      BY <2>5 DEF S, x, Texts
    <2>7. Len(File(e)) \in Nat
      BY <1>3, NamesAreSequences
    <2>8. run[e].read[1] \in Names /\ Len(File(e)) + Len(run[e].read) = 1 + Len(run[e].read[1])
      BY <1>4 DEF FileOK
    <2>9. Len(run[e].read[1]) \in Nat
      BY <2>8, NamesAreSequences
    <2> HIDE DEF c
    <2> QED
      BY <1>5, <2>3, <2>5, <2>6, <2>7, <2>8, <2>9, SMTT(30) DEF FileOK
  <1> HIDE DEF to, c
  <1>8. data' \in [Paths -> Texts] /\ \A p \in Paths : FileOK(p[2], data'[p])
    <2>1. c \in Texts
      BY <1>7 DEF FileOK
    <2>2. data' \in [Paths -> Texts] /\ \A p \in Paths : data'[p] = IF p = to THEN c ELSE data[p]
      BY <1>1, <1>6, <2>1 DEF Typed, FilesTyped
    <2>3. \A p \in Paths : FileOK(p[2], data[p])
      BY DEF Typed, FilesTyped
    <2> QED
      BY <1>5, <1>6, <1>7, <2>2, <2>3
  <1>9. FilesTyped'
    BY <1>1, <1>3, <1>6, <1>8, ChangeFiles DEF FilesTyped, Typed
  <1>10. RunsTyped' /\ run'[e] = NextRow(run[e]) /\ \A o \in Runs \ {e} : run'[o] = run[o]
    BY <1>1, <1>3, NextRowOK, SetRun DEF Typed
  <1>11. RestTyped'
    BY <1>1 DEF Typed, RestTyped
  <1> QED
    BY <1>1, <1>9, <1>10, <1>11 DEF Typed

\* Plain keeps the types, and moves its own evaluation only.
LEMMA TypedPlain ==
  ASSUME Typed, NEW e \in Runs, Plain(e)
  PROVE  /\ Typed' /\ \A o \in Runs \ {e} : run'[o] = run[o]
         /\ run[e].at = "file" /\ ~IsTemplate(e) /\ UNCHANGED <<inode, data, failed, overlapped>>
         /\ run'[e] = IF NeedsLink(e) THEN [run[e] EXCEPT !.at = "link"] ELSE NextRow(run[e])
  <1>1. /\ run[e].at = "file" /\ ~IsTemplate(e) /\ UNCHANGED <<inode, data, failed, faults, overlapped>>
        /\ run' = [run EXCEPT ![e] = IF NeedsLink(e) THEN [run[e] EXCEPT !.at = "link"]
                                     ELSE NextRow(run[e])]
    BY StepIsNextRow DEF Plain, Goto
  <1>2. run[e].at \in Working
    BY <1>1 DEF Working
  <1>3. /\ run[e] \in Row /\ InRange(run[e])
        /\ IsTemplate(e) <=> IsTmpl(run[e].engine, FileAt(run[e]))
    BY <1>2, Position DEF Typed
  <1> DEFINE l == [run[e] EXCEPT !.at = "link"]
             r == IF NeedsLink(e) THEN l ELSE NextRow(run[e])
  <1>4. /\ l \in Row /\ l.at = "link" /\ l.files = run[e].files /\ l.engine = run[e].engine
        /\ l.pos = run[e].pos
    BY <1>3 DEF Row, Ats
  <1> HIDE DEF l
  <1>5. RowOK(l)
    BY <1>1, <1>3, <1>4 DEF RowOK, InRange, FileAt
  <1>6. r \in Row /\ RowOK(r)
    BY <1>3, <1>4, <1>5, NextRowOK
  <1>7. run' = [run EXCEPT ![e] = r]
    BY <1>1 DEF l
  <1> HIDE DEF r
  <1>8. RunsTyped' /\ run'[e] = r /\ \A o \in Runs \ {e} : run'[o] = run[o]
    BY <1>6, <1>7, SetRun DEF Typed
  <1>9. FilesTyped' /\ RestTyped'
    BY <1>1 DEF Typed, FilesTyped, RestTyped
  <1> QED
    BY <1>1, <1>8, <1>9 DEF Typed, r, l

\* Link keeps the types, and moves its own evaluation only.
LEMMA TypedLink ==
  ASSUME Typed, NEW e \in Runs, Link(e)
  PROVE  /\ Typed' /\ \A o \in Runs \ {e} : run'[o] = run[o]
         /\ run[e].at = "link" /\ UNCHANGED <<data, failed, overlapped>>
         /\ Exists(Src(e)) /\ ~Exists(Dest(e)) =>
              inode' = [inode EXCEPT ![Dest(e)] = inode[Src(e)]] /\ run'[e] = NextRow(run[e])
  <1>1. run[e].at = "link" /\ UNCHANGED <<data, failed, faults, overlapped>>
    BY DEF Link
  <1>2. run[e].at \in Working
    BY <1>1 DEF Working
  <1>3. /\ run[e] \in Row /\ RowOK(run[e]) /\ InRange(run[e])
        /\ IsTemplate(e) <=> IsTmpl(run[e].engine, FileAt(run[e]))
        /\ Src(e) = <<Root, File(e)>> /\ Src(e) \in Paths /\ Dest(e) \in Paths
        /\ Dest(e) = <<Engine(e).sub, IF IsTemplate(e) THEN Stem(File(e)) ELSE File(e)>>
    BY <1>2, Position DEF Typed
  <1>4. ~IsTemplate(e)
    BY <1>1, <1>3 DEF RowOK
  <1>5. RestTyped'
    BY <1>1 DEF Typed, RestTyped
  <1>6. CASE Exists(Src(e)) /\ ~Exists(Dest(e))
    <2>1. inode' = [inode EXCEPT ![Dest(e)] = inode[Src(e)]] /\ run' = [run EXCEPT ![e] = NextRow(run[e])]
      BY <1>6, StepIsNextRow DEF Link, Goto
    <2>2. inode[Src(e)] \in Paths /\ inode[Src(e)][2] = Dest(e)[2]
      BY <1>3, <1>4, <1>6 DEF Exists, Typed, FilesTyped
    <2>3. FilesTyped'
      BY <1>1, <1>3, <2>1, <2>2, ChangeFiles DEF FilesTyped, Typed
    <2>4. RunsTyped' /\ run'[e] = NextRow(run[e]) /\ \A o \in Runs \ {e} : run'[o] = run[o]
      BY <1>3, <2>1, NextRowOK, SetRun DEF Typed
    <2> QED
      BY <1>1, <1>5, <2>1, <2>3, <2>4 DEF Typed
  <1>7. CASE ~(Exists(Src(e)) /\ ~Exists(Dest(e)))
    <2> DEFINE r == [run[e] EXCEPT !.at = "aborted"]
    <2>1. inode' = inode /\ run' = [run EXCEPT ![e] = r]
      BY <1>7 DEF Link, Goto
    <2>2. r \in Row /\ r.at = "aborted"
      BY <1>3 DEF Row, Ats
    <2> HIDE DEF r
    <2>3. RowOK(r)
      BY <2>2 DEF RowOK, Working
    <2>4. RunsTyped' /\ \A o \in Runs \ {e} : run'[o] = run[o]
      BY <2>1, <2>2, <2>3, SetRun DEF Typed
    <2>5. FilesTyped'
      BY <1>1, <2>1 DEF Typed, FilesTyped
    <2> QED
      BY <1>1, <1>5, <1>7, <2>4, <2>5 DEF Typed
  <1> QED
    BY <1>6, <1>7

\* Whatever evaluations overlap, what they leave is well typed.
LEMMA TypedSteps ==
  ASSUME Typed, [Next]_vars
  PROVE  Typed'
  <1>1. CASE UNCHANGED vars
    BY <1>1 DEF vars, Typed, FilesTyped, RunsTyped, RestTyped
  <1>2. ASSUME NEW e \in Runs,
               \/ CopySources(e) \/ Glob(e) \/ Read(e) \/ RenderFail(e) \/ Write(e)
               \/ Plain(e) \/ Link(e)
        PROVE  Typed'
    BY <1>2, TypedCopy, TypedGlob, TypedRead, TypedRenderFail, TypedWrite, TypedPlain, TypedLink
  <1> QED
    BY <1>1, <1>2 DEF Next

\* The types hold at the start.
LEMMA TypedInit == Init => Typed
  <1> SUFFICES ASSUME Init
               PROVE  Typed
    OBVIOUS
  <1>1. FilesTyped
    BY CleanTyped DEF Init, FilesTyped
  <1> DEFINE r == [at |-> "new", files |-> <<>>, engine |-> 1, pos |-> 1, read |-> None]
  <1>2. r \in Row /\ r.at = "new" /\ r.engine = 1 /\ r.pos = 1
    BY DEF Row, Ats
  <1>3. run = [e \in Runs |-> r]
    BY DEF Init
  <1> HIDE DEF r
  <1>4. RowOK(r)
    BY <1>2 DEF RowOK, Working
  <1>5. RunsTyped
    BY <1>2, <1>3, <1>4 DEF RunsTyped
  <1>6. MaxFaults \in Nat
    BY Consts
  <1>7. RestTyped
    <2>0. faults = 0 /\ overlapped = FALSE
      BY DEF Init
    <2>1. faults \in 0..MaxFaults
      BY <1>6, <2>0
    <2>3. overlapped \in BOOLEAN
      BY <2>0
    <2>2. failed \in [Runs -> SUBSET ((DOMAIN Engines) \X Names)]
      BY DEF Init
    <2> QED
      BY <2>1, <2>2, <2>3 DEF RestTyped
  <1> QED
    BY <1>1, <1>5, <1>7 DEF Typed

(***************************************************************************)
(* One evaluation after the other.                                         *)
(***************************************************************************)

\* What the evaluation e, alone so far, has made of the copy.
Built(e) ==
    IF run[e].at = "glob" THEN Holds(inode, data, {}, {}) /\ failed[e] = {}
    ELSE /\ run[e].at \in Working \cup {"done"}
         /\ Listed(run[e].files) /\ failed[e] \subseteq Did(run[e])
         /\ Holds(inode, data, Did(run[e]), failed[e])
         /\ run[e].at = "write" => run[e].read = <<File(e)>>
         /\ run[e].at = "link" => NeedsLink(e)

Alone(e) ==
    /\ run[e].at \notin {"new", "aborted"}
    /\ \A o \in Runs \ {e} : run[o].at \in {"new", "done"}

\* The evaluation at work, or else the last one that was, has built what there is.
SerialInv ==
    overlapped = FALSE =>
        /\ \A e \in Runs : run[e].at = "new" => failed[e] = {}
        /\ \/ \A e \in Runs : run[e].at = "new"
           \/ \E e \in Runs : Alone(e) /\ Built(e)

\* After a job, if the files are right again, the next one may begin.
LEMMA BuiltNext ==
  ASSUME Typed, NEW e \in Runs, run[e].at \in Working, Built(e),
         run'[e] = NextRow(run[e]), failed'[e] \subseteq Did(run[e]) \cup {<<run[e].engine, File(e)>>},
         Holds(inode', data', Did(run[e]) \cup {<<run[e].engine, File(e)>>}, failed'[e])
  PROVE  Built(e)' /\ run'[e].at \notin {"new", "aborted"}
  <1>1. run[e] \in Row /\ InRange(run[e]) /\ File(e) = FileAt(run[e])
    BY Position DEF Typed
  <1>2. Listed(run[e].files) /\ run[e].at # "done"
    BY DEF Built, Working
  <1>3. Did(run'[e]) = Did(run[e]) \cup {<<run[e].engine, File(e)>>}
    BY <1>1, <1>2, StepsDoOneJob DEF FileAt
  <1>4. run'[e].at \in {"file", "done"} /\ run'[e].files = run[e].files
    BY <1>1, StepsInRange
  <1>5. Holds(inode', data', Did(run'[e]), failed'[e]) /\ failed'[e] \subseteq Did(run'[e])
    BY <1>3
  <1> QED
    BY <1>2, <1>4, <1>5 DEF Built, Working

\* The job at hand.
LEMMA TheJob ==
  ASSUME Typed, NEW e \in Runs, run[e].at \in Working, Built(e)
  PROVE  /\ Listed(run[e].files) /\ failed[e] \subseteq Did(run[e])
         /\ Holds(inode, data, Did(run[e]), failed[e])
         /\ File(e) \in Sources /\ run[e].engine \in DOMAIN Engines
         /\ Job(run[e].engine, File(e), Did(run[e]), failed[e])
         /\ Src(e) = <<Root, File(e)>> /\ inode[Src(e)] = Src(e) /\ Exists(Src(e))
         /\ data[Src(e)] = <<File(e)>>
  <1>1. /\ run[e] \in Row /\ InRange(run[e]) /\ File(e) = FileAt(run[e])
        /\ run[e].engine \in DOMAIN Engines /\ Src(e) = <<Root, File(e)>> /\ Src(e) \in Paths
    BY Position DEF Typed
  <1>2. /\ Listed(run[e].files) /\ run[e].at # "done" /\ failed[e] \subseteq Did(run[e])
        /\ Holds(inode, data, Did(run[e]), failed[e])
    BY DEF Built, Working
  <1>3. File(e) \in Sources /\ <<run[e].engine, File(e)>> \notin Did(run[e])
    BY <1>1, <1>2, StepsDoOneJob DEF FileAt
  <1>4. Root \in Dirs /\ Linked(Did(run[e]), Root, File(e))
    BY Consts DEF Linked
  <1>5. inode[Src(e)] = Src(e) /\ data[Src(e)] = <<File(e)>>
    BY <1>1, <1>2, <1>3, <1>4 DEF Holds
  <1>6. Exists(Src(e))
    BY <1>1, <1>5, Consts DEF Exists
  <1> QED
    BY <1>1, <1>2, <1>3, <1>5, <1>6 DEF Job

\* A template that fails is a job done.
LEMMA BuiltFailed ==
  ASSUME Typed, NEW e \in Runs, run[e].at = "write", Built(e), Failed(e), run'[e] = NextRow(run[e])
  PROVE  Built(e)' /\ run'[e].at \notin {"new", "aborted"}
  <1> DEFINE k == run[e].engine
             n == File(e)
             P == Did(run[e])
             F == failed[e]
  <1>1. run[e].at \in Working
    BY DEF Working
  <1>2. /\ F \subseteq P /\ Holds(inode, data, P, F) /\ n \in Sources
        /\ k \in DOMAIN Engines /\ Job(k, n, P, F)
    BY <1>1, TheJob
  <1>3. IsTmpl(k, n)
    <2>1. RowOK(run[e]) /\ File(e) = FileAt(run[e])
      BY <1>1, Position DEF Typed
    <2> QED
      BY <2>1 DEF RowOK
  <1>4. failed'[e] = F \cup {<<k, n>>} /\ inode' = inode /\ data' = data
    BY DEF Failed, Typed, RestTyped
  <1> HIDE DEF k, n, P, F
  <1>5. Holds(inode, data, P \cup {<<k, n>>}, F \cup {<<k, n>>})
    BY <1>2, <1>3, FailHolds
  <1>6. /\ failed'[e] \subseteq P \cup {<<k, n>>}
        /\ Holds(inode', data', P \cup {<<k, n>>}, failed'[e])
    BY <1>2, <1>4, <1>5
  <1> QED
    BY <1>1, <1>6, BuiltNext DEF k, n, P, F

\* The list of the glob has the source files.
LEMMA BuiltGlob ==
  ASSUME Typed, NEW e \in Runs, Built(e), Glob(e)
  PROVE  Built(e)' /\ run'[e].at \notin {"new", "aborted"}
  <1>1. run[e].at = "glob"
    BY DEF Glob
  <1>2. Holds(inode, data, {}, {}) /\ failed[e] = {}
    BY <1>1 DEF Built
  <1>3. UNCHANGED <<inode, data, failed>>
    BY TypedGlob
  <1>4. PICK list \in SetToSeqs(InRoot) :
              /\ run'[e] \in Row /\ run'[e].files = list
              /\ run'[e].at = IF Engines = <<>> \/ list = <<>> THEN "done" ELSE "file"
              /\ run'[e].engine = 1 /\ run'[e].pos = 1
    BY TypedGlob
  <1>5. InRoot = Sources
    <2>1. ASSUME NEW n \in Names
          PROVE  Exists(<<Root, n>>) <=> n \in Sources
      <3>1. Root \in Dirs /\ <<Root, n>> \in Paths /\ <<Root, n>> # None
        BY Consts, PathParts
      <3>2. CASE n \in Sources
        BY <1>2, <3>1, <3>2 DEF Holds, Linked, Exists
      <3>3. CASE n \notin Sources
        <4>1. \A x \in Sources : ~Output({}, {}, Root, x)
          BY DEF Output
        <4> QED
          BY <1>2, <3>1, <3>3, <4>1 DEF Holds, Exists
      <3> QED
        BY <3>2, <3>3
    <2> QED
      BY <2>1, SourcesAreNames DEF InRoot
  <1>6. list \in Seq(Sources) /\ Listed(list)
    <2>1. IsFiniteSet(Sources)
      BY Consts
    <2>2. /\ list \in Seq(Sources)
          /\ \A n \in Sources : \E k \in DOMAIN list : list[k] = n
          /\ \A j, k \in DOMAIN list : list[j] = list[k] => j = k
      BY <1>5, <2>1, ListsAreComplete
    <2>3. \A k \in DOMAIN list : list[k] \in Sources
      BY <2>2
    <2> QED
      BY <2>2, <2>3 DEF Listed
  <1>7. Did(run'[e]) = {}
    <2>1. ASSUME NEW x \in Jobs
          PROVE  x \notin Did(run'[e])
      <3>1. x[1] \in DOMAIN Engines /\ x[2] \in Sources
        BY DEF Jobs
      <3>2. Engines # <<>> /\ list # <<>>
        <4>1. Engines = <<>> => DOMAIN Engines = {}
          OBVIOUS
        <4>2. list = <<>> => DOMAIN list = {}
          OBVIOUS
        <4> QED
          BY <1>6, <3>1, <4>1, <4>2 DEF Listed
      <3>3. run'[e].at # "done"
        BY <1>4, <3>2
      <3>4. x[1] \in Nat /\ x[1] >= 1
        <4>1. Len(Engines) \in Nat /\ DOMAIN Engines = 1..Len(Engines)
          BY Consts
        <4> QED
          BY <3>1, <4>1
      <3> QED
        BY <1>4, <3>3, <3>4 DEF Did
    <2> QED
      BY <2>1 DEF Did
  <1>8. run'[e].at \in {"done", "file"}
    BY <1>4
  <1> QED
    BY <1>2, <1>3, <1>4, <1>6, <1>7, <1>8 DEF Built, Working

\* A move within a job: its engine, its file and what is done stay.
LEMMA SameJob ==
  ASSUME NEW r \in Row, NEW s, r.at # "done", s.at # "done",
         s.files = r.files, s.engine = r.engine, s.pos = r.pos
  PROVE  Did(s) = Did(r)
  BY DEF Did

\* A source file that is a template is there to be read.
LEMMA BuiltRead ==
  ASSUME Typed, NEW e \in Runs, Built(e), Read(e)
  PROVE  Built(e)' /\ run'[e].at \notin {"new", "aborted"}
  <1>1. run[e].at = "file"
    BY TypedRead
  <1>2. run[e].at \in Working
    BY <1>1 DEF Working
  <1>3. run[e] \in Row
    BY <1>2, Position DEF Typed
  <1>4. /\ Listed(run[e].files) /\ failed[e] \subseteq Did(run[e])
        /\ Holds(inode, data, Did(run[e]), failed[e])
        /\ inode[Src(e)] = Src(e) /\ Exists(Src(e)) /\ data[Src(e)] = <<File(e)>>
    BY <1>2, TheJob
  <1>5. Content(Src(e)) = <<File(e)>>
    BY <1>4 DEF Content
  <1>6. /\ run'[e] = [run[e] EXCEPT !.at = "write", !.read = Content(Src(e))]
        /\ inode' = inode /\ data' = data /\ failed' = failed
    BY <1>4, TypedRead
  <1> DEFINE c == Content(Src(e))
  <1> HIDE DEF c
  <1>7. run'[e] = [run[e] EXCEPT !.at = "write", !.read = c]
    BY <1>6 DEF c
  <1>8. /\ run'[e].at = "write" /\ run'[e].files = run[e].files /\ run'[e].engine = run[e].engine
        /\ run'[e].pos = run[e].pos /\ run'[e].read = c
    BY <1>3, <1>7 DEF Row
  <1>9. Did(run'[e]) = Did(run[e])
    BY <1>1, <1>3, <1>8, SameJob
  <1>10. File(e)' = File(e)
    BY <1>8 DEF File
  <1>11. /\ Listed(run'[e].files) /\ failed'[e] \subseteq Did(run'[e])
         /\ Holds(inode', data', Did(run'[e]), failed'[e])
         /\ run'[e].read = <<File(e)'>>
    BY <1>4, <1>5, <1>6, <1>8, <1>9, <1>10 DEF c
  <1> QED
    BY <1>8, <1>11 DEF Built, Working

\* The output of a template.
LEMMA BuiltWrite ==
  ASSUME Typed, NEW e \in Runs, Built(e), Write(e)
  PROVE  Built(e)' /\ run'[e].at \notin {"new", "aborted"}
  <1> DEFINE k == run[e].engine
             n == File(e)
             P == Did(run[e])
             F == failed[e]
             p == Dest(e)
  <1>1. run[e].at = "write" /\ run'[e] = NextRow(run[e]) /\ failed' = failed
    BY TypedWrite
  <1>2. run[e].at \in Working
    BY <1>1 DEF Working
  <1>3. /\ F \subseteq P /\ Holds(inode, data, P, F) /\ n \in Sources
        /\ k \in DOMAIN Engines /\ Job(k, n, P, F)
    BY <1>2, TheJob
  <1>4. RowOK(run[e]) /\ n = FileAt(run[e]) /\ Engine(e) = Engines[k]
    BY <1>2, Position DEF Typed
  <1>5. IsTmpl(k, n) /\ IsTemplate(e)
    <2>1. IsTmpl(k, n)
      BY <1>1, <1>4 DEF RowOK
    <2> QED
      BY <2>1, <1>2, <1>4, Position DEF Typed
  <1>6. p = <<Engines[k].sub, Stem(n)>>
    BY <1>4, <1>5 DEF Dest
  <1>7. run[e].read = <<n>>
    BY <1>1 DEF Built
  <1> DEFINE to == IF Exists(p) THEN inode[p] ELSE p
  <1>8. /\ inode' = [inode EXCEPT ![p] = to]
        /\ data' = [data EXCEPT ![to] = Append(<<n>>, Engines[k].ext)]
    <2>1. /\ inode' = [inode EXCEPT ![p] = to]
          /\ data' = [data EXCEPT ![to] = Append(run[e].read, Engine(e).ext)]
      BY DEF Write
    <2>2. Append(run[e].read, Engine(e).ext) = Append(<<n>>, Engines[k].ext)
      BY <1>4, <1>7
    <2> HIDE DEF to, p, n, k
    <2> QED
      BY <2>1, <2>2
  <1>9. inode \in [Paths -> Paths \cup {None}] /\ DOMAIN data = Paths
    BY DEF Typed, FilesTyped
  <1> HIDE DEF k, n, P, F, p, to
  <1>10. /\ inode[p] \in {p, None}
         /\ Holds([inode EXCEPT ![p] = p], [data EXCEPT ![p] = Append(<<n>>, Engines[k].ext)],
                  P \cup {<<k, n>>}, F)
    BY <1>3, <1>5, <1>6, <1>9, WriteHolds
  <1>11. to = p
    BY <1>10 DEF to, Exists
  <1>12. failed'[e] = F
    BY <1>1 DEF F
  <1>13. /\ failed'[e] \subseteq P \cup {<<k, n>>}
         /\ Holds(inode', data', P \cup {<<k, n>>}, failed'[e])
    BY <1>3, <1>8, <1>10, <1>11, <1>12
  <1> QED
    BY <1>1, <1>2, <1>13, BuiltNext DEF k, n, P, F

\* A file that is no template, and may be in its place already.
LEMMA BuiltPlain ==
  ASSUME Typed, NEW e \in Runs, Built(e), Plain(e)
  PROVE  Built(e)' /\ run'[e].at \notin {"new", "aborted"}
  <1> DEFINE k == run[e].engine
             n == File(e)
             P == Did(run[e])
             F == failed[e]
  <1>1. /\ run[e].at = "file" /\ ~IsTemplate(e)
        /\ inode' = inode /\ data' = data /\ failed' = failed
        /\ run'[e] = IF NeedsLink(e) THEN [run[e] EXCEPT !.at = "link"] ELSE NextRow(run[e])
    BY TypedPlain
  <1>2. run[e].at \in Working
    BY <1>1 DEF Working
  <1>3. /\ F \subseteq P /\ Holds(inode, data, P, F) /\ n \in Sources
        /\ k \in DOMAIN Engines /\ Job(k, n, P, F) /\ Listed(run[e].files)
    BY <1>2, TheJob
  <1>4. /\ run[e] \in Row /\ n = FileAt(run[e]) /\ Engine(e) = Engines[k]
        /\ Src(e) = <<Root, n>> /\ ~IsTmpl(k, n)
    BY <1>1, <1>2, Position DEF Typed
  <1>5. Dest(e) = <<Engines[k].sub, n>>
    BY <1>1, <1>4 DEF Dest
  <1>6. CASE NeedsLink(e)
    <2>1. run'[e] = [run[e] EXCEPT !.at = "link"]
      BY <1>1, <1>6
    <2>2. /\ run'[e].at = "link" /\ run'[e].files = run[e].files /\ run'[e].engine = run[e].engine
          /\ run'[e].pos = run[e].pos
      BY <1>4, <2>1 DEF Row
    <2>3. Did(run'[e]) = Did(run[e])
      BY <1>1, <1>4, <2>2, SameJob
    <2>4. NeedsLink(e)'
      BY <1>1, <1>6, <2>2 DEF NeedsLink, Src, Dest, Exists, File, Engine, IsTemplate
    <2>5. /\ Listed(run'[e].files) /\ failed'[e] \subseteq Did(run'[e])
          /\ Holds(inode', data', Did(run'[e]), failed'[e])
      BY <1>1, <1>3, <2>2, <2>3
    <2> QED
      BY <2>2, <2>4, <2>5 DEF Built, Working
  <1>7. CASE ~NeedsLink(e)
    <2>1. <<Engines[k].sub, n>> = <<Root, n>> \/ inode[<<Engines[k].sub, n>>] # None
      BY <1>4, <1>5, <1>7 DEF NeedsLink, Exists
    <2>2. run'[e] = NextRow(run[e]) /\ failed'[e] = F
      BY <1>1, <1>7
    <2> HIDE DEF k, n, P, F
    <2>3. Holds(inode, data, P \cup {<<k, n>>}, F)
      BY <1>3, <1>4, <2>1, SkipHolds
    <2>4. /\ failed'[e] \subseteq P \cup {<<k, n>>}
          /\ Holds(inode', data', P \cup {<<k, n>>}, failed'[e])
      BY <1>1, <1>3, <2>2, <2>3
    <2> QED
      BY <1>2, <2>2, <2>4, BuiltNext DEF k, n, P, F
  <1> QED
    BY <1>6, <1>7

\* Nobody has taken the place of the link, or the file that it links to.
LEMMA BuiltLink ==
  ASSUME Typed, NEW e \in Runs, Built(e), Link(e)
  PROVE  Built(e)' /\ run'[e].at \notin {"new", "aborted"}
  <1> DEFINE k == run[e].engine
             n == File(e)
             P == Did(run[e])
             F == failed[e]
  <1>1. run[e].at = "link" /\ data' = data /\ failed' = failed
    BY TypedLink
  <1>2. run[e].at \in Working
    BY <1>1 DEF Working
  <1>3. /\ F \subseteq P /\ Holds(inode, data, P, F) /\ n \in Sources
        /\ k \in DOMAIN Engines /\ Job(k, n, P, F) /\ Exists(Src(e))
    BY <1>2, TheJob
  <1>4. /\ RowOK(run[e]) /\ n = FileAt(run[e]) /\ Engine(e) = Engines[k]
        /\ Src(e) = <<Root, n>> /\ (IsTemplate(e) <=> IsTmpl(k, FileAt(run[e])))
    BY <1>2, Position DEF Typed
  <1>5. ~IsTmpl(k, n) /\ ~IsTemplate(e)
    BY <1>1, <1>4 DEF RowOK
  <1>6. Dest(e) = <<Engines[k].sub, n>>
    BY <1>4, <1>5 DEF Dest
  <1>7. ~Exists(Dest(e))
    BY <1>1 DEF Built, NeedsLink
  <1>8. inode' = [inode EXCEPT ![Dest(e)] = inode[Src(e)]] /\ run'[e] = NextRow(run[e])
    BY <1>3, <1>7, TypedLink
  <1>9. inode \in [Paths -> Paths \cup {None}]
    BY DEF Typed, FilesTyped
  <1>10. inode' = [inode EXCEPT ![<<Engines[k].sub, n>>] = inode[<<Root, n>>]]
    BY <1>4, <1>6, <1>8
  <1> HIDE DEF k, n, P, F
  <1>11. Holds([inode EXCEPT ![<<Engines[k].sub, n>>] = inode[<<Root, n>>]], data,
               P \cup {<<k, n>>}, F)
    BY <1>3, <1>5, <1>9, LinkHolds
  <1>12. failed'[e] = F
    BY <1>1 DEF F
  <1>13. /\ failed'[e] \subseteq P \cup {<<k, n>>}
         /\ Holds(inode', data', P \cup {<<k, n>>}, failed'[e])
    BY <1>1, <1>3, <1>10, <1>11, <1>12
  <1> QED
    BY <1>2, <1>8, <1>13, BuiltNext DEF k, n, P, F

\* Any step of an evaluation that is alone keeps what is built.
LEMMA BuiltSteps ==
  ASSUME Typed, NEW e \in Runs, Built(e),
         Glob(e) \/ Read(e) \/ RenderFail(e) \/ Write(e) \/ Plain(e) \/ Link(e)
  PROVE  Built(e)' /\ run'[e].at \notin {"new", "aborted"}
  <1>1. CASE Glob(e)
    BY <1>1, BuiltGlob
  <1>2. CASE Read(e)
    BY <1>2, BuiltRead
  <1>3. CASE RenderFail(e)
    BY <1>3, TypedRenderFail, BuiltFailed
  <1>4. CASE Write(e)
    BY <1>4, BuiltWrite
  <1>5. CASE Plain(e)
    BY <1>5, BuiltPlain
  <1>6. CASE Link(e)
    BY <1>6, BuiltLink
  <1> QED
    BY <1>1, <1>2, <1>3, <1>4, <1>5, <1>6

\* What the other evaluations see of such a step.
LEMMA StepsOfOne ==
  ASSUME Typed, NEW e \in Runs,
         Glob(e) \/ Read(e) \/ RenderFail(e) \/ Write(e) \/ Plain(e) \/ Link(e)
  PROVE  /\ run[e].at \in Working \cup {"glob"} /\ overlapped' = overlapped
         /\ \A o \in Runs \ {e} : run'[o] = run[o] /\ failed'[o] = failed[o]
  <1>1. \A o \in Runs \ {e} : run'[o] = run[o]
    BY TypedGlob, TypedRead, TypedRenderFail, TypedWrite, TypedPlain, TypedLink
  <1>2. run[e].at \in Working \cup {"glob"}
    BY DEF Glob, Read, RenderFail, Write, Plain, Link, Working
  <1>3. Failed(e) => overlapped' = overlapped /\ \A o \in Runs \ {e} : failed'[o] = failed[o]
    BY DEF Failed, Typed, RestTyped
  <1>4. (failed' = failed /\ overlapped' = overlapped) \/ Failed(e)
    BY TypedGlob, TypedRead, TypedRenderFail, TypedWrite, TypedPlain, TypedLink
  <1> QED
    BY <1>1, <1>2, <1>3, <1>4

\* The refresh or fetch leaves the source files only.
LEMMA SerialCopy ==
  ASSUME Typed, SerialInv, NEW e \in Runs, CopySources(e)
  PROVE  SerialInv'
  <1> SUFFICES ASSUME overlapped' = FALSE
               PROVE  /\ \A o \in Runs : run'[o].at = "new" => failed'[o] = {}
                      /\ \E o \in Runs : Alone(o)' /\ Built(o)'
    BY DEF SerialInv
  <1>1. /\ run'[e].at = "glob" /\ \A o \in Runs \ {e} : run'[o] = run[o]
    BY TypedCopy
  <1>2. /\ run[e].at = "new" /\ inode' = Clean /\ data' = [p \in Paths |-> <<p[2]>>]
        /\ failed' = failed
    BY DEF CopySources
  <1>3. /\ overlapped = FALSE
        /\ \A o \in Runs : run[o].at \in {"new", "done", "aborted"}
    BY DEF CopySources, Typed, RestTyped
  <1>4. \A o \in Runs : run[o].at = "new" => failed[o] = {}
    BY <1>3 DEF SerialInv
  <1>5. \A o \in Runs : run[o].at \in {"new", "done"}
    <2>1. CASE \A o \in Runs : run[o].at = "new"
      BY <2>1
    <2>2. CASE \E o \in Runs : Alone(o)
      BY <1>3, <2>2 DEF Alone
    <2> QED
      BY <1>3, <2>1, <2>2 DEF SerialInv
  <1>6. Alone(e)'
    BY <1>1, <1>5 DEF Alone
  <1>7. Built(e)'
    BY <1>1, <1>2, <1>4, CleanHolds DEF Built
  <1>8. \A o \in Runs : run'[o].at = "new" => failed'[o] = {}
    BY <1>1, <1>2, <1>4
  <1> QED
    BY <1>6, <1>7, <1>8

\* Each step of an evaluation does its part of a job, or none.
LEMMA SerialOther ==
  ASSUME Typed, SerialInv, NEW e \in Runs,
         Glob(e) \/ Read(e) \/ RenderFail(e) \/ Write(e) \/ Plain(e) \/ Link(e)
  PROVE  SerialInv'
  <1> SUFFICES ASSUME overlapped' = FALSE
               PROVE  /\ \A o \in Runs : run'[o].at = "new" => failed'[o] = {}
                      /\ \E o \in Runs : Alone(o)' /\ Built(o)'
    BY DEF SerialInv
  <1>1. /\ run[e].at \in Working \cup {"glob"} /\ overlapped' = overlapped
        /\ \A o \in Runs \ {e} : run'[o] = run[o] /\ failed'[o] = failed[o]
    BY StepsOfOne
  <1>2. run[e].at \notin {"new", "done"}
    BY <1>1 DEF Working
  <1>3. PICK a \in Runs : Alone(a) /\ Built(a)
    BY <1>1, <1>2 DEF SerialInv
  <1>4. a = e
    BY <1>2, <1>3 DEF Alone
  <1>5. Built(e)' /\ run'[e].at \notin {"new", "aborted"}
    BY <1>3, <1>4, BuiltSteps
  <1>6. Alone(e)'
    BY <1>1, <1>3, <1>4, <1>5 DEF Alone
  <1>7. \A o \in Runs : run'[o].at = "new" => failed'[o] = {}
    BY <1>1, <1>5 DEF SerialInv
  <1> QED
    BY <1>5, <1>6, <1>7

(***************************************************************************)
(* The theorems.                                                           *)
(***************************************************************************)

TemplatesInv == Typed /\ SerialInv

\* The inductive invariant: what any evaluations leave is well typed (evaluate), and one
\* evaluation after the other has built, job by job, what its engines were asked for.
THEOREM TemplatesInvariance == Spec => []TemplatesInv
  <1>1. Init => TemplatesInv
    <2>1. Init => SerialInv
      BY DEF Init, SerialInv
    <2> QED
      BY <2>1, TypedInit DEF TemplatesInv
  <1>2. TemplatesInv /\ [Next]_vars => TemplatesInv'
    <2> SUFFICES ASSUME TemplatesInv, [Next]_vars
                 PROVE  TemplatesInv'
      OBVIOUS
    <2>1. Typed /\ SerialInv
      BY DEF TemplatesInv
    <2>2. Typed'
      BY <2>1, TypedSteps
    <2>3. ASSUME UNCHANGED vars
          PROVE  SerialInv'
      <3>1. /\ inode' = inode /\ data' = data /\ run' = run /\ failed' = failed
            /\ overlapped' = overlapped
        BY <2>3 DEF vars
      <3>2. \A e \in Runs : NeedsLink(e)' <=> NeedsLink(e)
        BY <3>1 DEF NeedsLink, Src, Dest, Exists, File, Engine, IsTemplate
      <3>3. \A e \in Runs : File(e)' = File(e)
        BY <3>1 DEF File
      <3>4. \A e \in Runs : Built(e) => Built(e)'
        BY <3>1, <3>2, <3>3 DEF Built
      <3>5. \A e \in Runs : Alone(e) => Alone(e)'
        BY <3>1 DEF Alone
      <3> QED
        BY <2>1, <3>1, <3>4, <3>5 DEF SerialInv
    <2>4. ASSUME Next
          PROVE  SerialInv'
      <3>1. PICK e \in Runs : \/ CopySources(e) \/ Glob(e) \/ Read(e) \/ RenderFail(e) \/ Write(e)
                              \/ Plain(e) \/ Link(e)
        BY <2>4 DEF Next
      <3> QED
        BY <2>1, <3>1, SerialCopy, SerialOther
    <2>5. SerialInv'
      BY <2>3, <2>4
    <2> QED
      BY <2>2, <2>5 DEF TemplatesInv
  <1> QED
    BY <1>1, <1>2, PTL DEF Spec

\* Whatever evaluations of a source overlap, a file holds what its name comes from, through
\* as many engines as its name has lost extensions, and each evaluation keeps to its list.
THEOREM TemplatesTypes == Spec => []TypeOK
  <1>1. TemplatesInv => TypeOK
    <2> SUFFICES ASSUME TemplatesInv
                 PROVE  TypeOK
      OBVIOUS
    <2>1. Typed
      BY DEF TemplatesInv
    <2>2. \A p \in Paths : Exists(p) => inode[p] \in Paths /\ inode[p][2] = p[2]
      BY <2>1 DEF Exists, Typed, FilesTyped
    <2>3. \A p \in Paths : data[p][1] \in Names /\ Len(p[2]) + Len(data[p]) = 1 + Len(data[p][1])
      BY <2>1 DEF Typed, FilesTyped, FileOK
    <2>4. \A e \in Runs : run[e].at = "file" => run[e].pos \in DOMAIN run[e].files
      BY <2>1 DEF Typed, RunsTyped, RowOK, Working, InRange
    <2>5. faults \in 0..MaxFaults
      BY <2>1 DEF Typed, RestTyped
    <2> QED
      BY <2>2, <2>3, <2>4, <2>5 DEF TypeOK
  <1> QED
    BY <1>1, TemplatesInvariance, PTL

\* With any engines, files and failures, in any order of the list: one evaluation after the
\* other leaves in every directory exactly what the configuration asks for (_eval_templates).
THEOREM OutcomesAreAsked == Spec => []Outcome
  <1>1. TemplatesInv => Outcome
    <2> SUFFICES ASSUME TemplatesInv, ~overlapped, \A e \in Runs : run[e].at \in {"new", "done"},
                        ~\A e \in Runs : run[e].at = "new"
                 PROVE  \E e \in Runs : \A p \in Paths :
                           (IF Exists(p) THEN {Content(p)} ELSE {}) =
                               Rendered(e, p[1], p[2]) \cup Copied(p[1], p[2])
      BY DEF Outcome
    <2>1. overlapped = FALSE
      BY DEF TemplatesInv, Typed, RestTyped
    <2>2. PICK e \in Runs : Alone(e) /\ Built(e)
      BY <2>1 DEF TemplatesInv, SerialInv
    <2>3. run[e].at = "done"
      BY <2>2 DEF Alone
    <2>4. Did(run[e]) = Jobs
      BY <2>3 DEF Did
    <2>5. Holds(inode, data, Jobs, failed[e])
      BY <2>2, <2>3, <2>4 DEF Built
    <2> QED
      BY <2>5, AllHold
  <1> QED
    BY <1>1, TemplatesInvariance, PTL

\* Only a second evaluation of the same source can make one give up (evaluate): no link ever
\* finds its place taken, or its file gone, by the evaluation's own earlier steps.
THEOREM OnlyOverlapsAbort == Spec => []OnlyOverlapAborts
  <1>1. TemplatesInv => OnlyOverlapAborts
    <2> SUFFICES ASSUME TemplatesInv, NEW e \in Runs, run[e].at = "aborted"
                 PROVE  overlapped
      BY DEF OnlyOverlapAborts
    <2>1. overlapped \in BOOLEAN
      BY DEF TemplatesInv, Typed, RestTyped
    <2>2. overlapped # FALSE
      BY DEF TemplatesInv, SerialInv, Alone
    <2> QED
      BY <2>1, <2>2
  <1> QED
    BY <1>1, TemplatesInvariance, PTL
=============================================================================
