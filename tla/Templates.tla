------------------------------ MODULE Templates ------------------------------
(***************************************************************************)
(* The template engines of one source (base.py, template_engines): what    *)
(* they make of the files that a copy or a fetch has put into its root     *)
(* directory, file by file and engine by engine, while another refresh of  *)
(* the same source may do the same.  A name is the sequence of its parts:  *)
(* <<"a", "mako">> stands for a.mako.  What a template renders to is       *)
(* external; a content is the file it comes from, and what it went through.*)
(***************************************************************************)
EXTENDS Naturals, Sequences, SequencesExt

CONSTANTS
    Sources,    \* the names of the files of the source
    Engines,    \* template_engines: the extension and dest_sub_dir of each
    Root,       \* the root directory, as a dest_sub_dir
    Runs,       \* the evaluations, each of which runs once
    MaxFaults,  \* bound: templates that cannot be rendered
    None

Stem(n)   == Front(n)
Suffix(n) == IF Len(n) > 1 THEN Last(n) ELSE ""
Dirs      == {Root} \cup {Engines[k].sub : k \in DOMAIN Engines}
Names     == UNION {{SubSeq(n, 1, k) : k \in DOMAIN n} : n \in Sources}
Paths     == Dirs \X Names

\* No two files want the same name; else the order of the files decides.
ASSUME TemplatesAssumption ==
    /\ MaxFaults \in Nat
    /\ IsFiniteSet(Sources) /\ Sources \subseteq Seq(STRING) \ {<<>>}
    /\ Engines \in Seq([ext : STRING, sub : Dirs])
    /\ \A k \in DOMAIN Engines : Engines[k].ext # ""
    /\ None \notin Paths
    /\ \A n \in Sources, k \in DOMAIN Engines :
         Suffix(n) = Engines[k].ext =>
            /\ Stem(n) \notin Sources
            /\ \A m \in Sources \ {n} : Stem(m) # Stem(n)

VARIABLES
    inode,   \* the file of each path, named after the path it was created at
    data,    \* the content of each file
    run,     \* the evaluations: at, the files, the engine, the position, what was read
    failed,  \* the templates that each evaluation could not apply, by engine
    faults,
    overlapped \* history: two evaluations at once

vars == <<inode, data, run, failed, faults, overlapped>>

-----------------------------------------------------------------------------
Exists(p) == inode[p] # None
Content(p) == data[inode[p]]
\* The source files and nothing else, as rsync --delete or a fetch leave them.
Clean == [p \in Paths |-> IF p[1] = Root /\ p[2] \in Sources THEN p ELSE None]

Init ==
    /\ inode = Clean /\ data = [p \in Paths |-> <<p[2]>>]
    /\ run = [e \in Runs |-> [at |-> "new", files |-> <<>>, engine |-> 1, pos |-> 1, read |-> None]]
    /\ failed = [e \in Runs |-> {}]
    /\ faults = 0 /\ overlapped = FALSE

CopySources(e) ==
    /\ run[e].at = "new"
    /\ inode' = Clean /\ data' = [p \in Paths |-> <<p[2]>>]
    /\ run' = [run EXCEPT ![e].at = "glob"]
    /\ overlapped' = (overlapped \/ \E o \in Runs : run[o].at \notin {"new", "done", "aborted"})
    /\ UNCHANGED <<failed, faults>>

InRoot == {n \in Names : Exists(<<Root, n>>)}

\* The list is taken once, in whatever order.
Glob(e) ==
    /\ run[e].at = "glob"
    /\ \E list \in SetToSeqs(InRoot) :
         run' = [run EXCEPT ![e] = [@ EXCEPT !.files = list,
                     !.at = IF Engines = <<>> \/ list = <<>> THEN "done" ELSE "file"]]
    /\ UNCHANGED <<inode, data, failed, faults, overlapped>>

-----------------------------------------------------------------------------
(* BaseEngine.evaluate                                                     *)

Engine(e) == Engines[run[e].engine]
File(e)   == run[e].files[run[e].pos]
Src(e)    == <<Root, File(e)>>
IsTemplate(e) == Suffix(File(e)) = Engine(e).ext
Dest(e)   == <<Engine(e).sub, IF IsTemplate(e) THEN Stem(File(e)) ELSE File(e)>>

StepGlobsAgain(e) ==                                                 \* mutant
    IF run[e].pos < Len(run[e].files) THEN [run[e] EXCEPT !.at = "file", !.pos = @ + 1]
    ELSE IF run[e].engine < Len(Engines)
         THEN [run[e] EXCEPT !.at = "file", !.pos = 1, !.engine = @ + 1, !.files = SetToSeq(InRoot)]
         ELSE [run[e] EXCEPT !.at = "done"]
StepTooFar(e) ==                                                     \* mutant
    IF run[e].pos <= Len(run[e].files) THEN [run[e] EXCEPT !.at = "file", !.pos = @ + 1]
    ELSE [run[e] EXCEPT !.at = "done"]
\* The next file, or the same files for the next engine.
Step(e) ==
    IF run[e].pos < Len(run[e].files) THEN [run[e] EXCEPT !.at = "file", !.pos = @ + 1]
    ELSE IF run[e].engine < Len(Engines)
         THEN [run[e] EXCEPT !.at = "file", !.pos = 1, !.engine = @ + 1]
         ELSE [run[e] EXCEPT !.at = "done"]
Goto(e, to) == run' = [run EXCEPT ![e] = to]
Failed(e) ==
    /\ failed' = [failed EXCEPT ![e] = @ \cup {<<run[e].engine, File(e)>>}]
    /\ Goto(e, Step(e))
    /\ UNCHANGED <<inode, data, overlapped>>

Read(e) ==
    /\ run[e].at = "file" /\ IsTemplate(e)
    /\ IF Exists(Src(e))
       THEN /\ Goto(e, [run[e] EXCEPT !.at = "write", !.read = Content(Src(e))])
            /\ UNCHANGED <<inode, data, failed, overlapped>>
       ELSE Failed(e)
    /\ UNCHANGED faults

\* Whatever a template raises, the evaluation goes on.
RenderFail(e) ==
    /\ run[e].at = "write"
    /\ faults < MaxFaults /\ faults' = faults + 1
    /\ Failed(e)

\* write_text: into the file that has the name, if there is one.
Write(e) ==
    LET to == IF Exists(Dest(e)) THEN inode[Dest(e)] ELSE Dest(e) IN
    /\ run[e].at = "write"
    /\ inode' = [inode EXCEPT ![Dest(e)] = to]
    /\ data' = [data EXCEPT ![to] = Append(run[e].read, Engine(e).ext)]
    /\ Goto(e, Step(e))
    /\ UNCHANGED <<failed, faults, overlapped>>

NeedsLinkAlways(e) == Src(e) # Dest(e)                               \* mutant
NeedsLink(e) == Src(e) # Dest(e) /\ ~Exists(Dest(e))

Plain(e) ==
    /\ run[e].at = "file" /\ ~IsTemplate(e)
    /\ Goto(e, IF NeedsLink(e) THEN [run[e] EXCEPT !.at = "link"] ELSE Step(e))
    /\ UNCHANGED <<inode, data, failed, faults, overlapped>>

\* hardlink_to raises if the source is gone by now, or the destination there.
Link(e) ==
    /\ run[e].at = "link"
    /\ IF Exists(Src(e)) /\ ~Exists(Dest(e))
       THEN inode' = [inode EXCEPT ![Dest(e)] = inode[Src(e)]] /\ Goto(e, Step(e))
       ELSE Goto(e, [run[e] EXCEPT !.at = "aborted"]) /\ UNCHANGED inode
    /\ UNCHANGED <<data, failed, faults, overlapped>>

Next == \E e \in Runs :
    \/ CopySources(e) \/ Glob(e) \/ Read(e) \/ RenderFail(e) \/ Write(e) \/ Plain(e) \/ Link(e)

Spec == Init /\ [][Next]_vars

-----------------------------------------------------------------------------
\* What the configuration asks for, in no order at all, without what has failed.
Rendered(e, d, m) ==
    {Append(<<x[1]>>, Engines[x[2]].ext) : x \in
        {x \in Sources \X DOMAIN Engines :
            /\ Suffix(x[1]) = Engines[x[2]].ext /\ Stem(x[1]) = m
            /\ Engines[x[2]].sub = d /\ <<x[2], x[1]>> \notin failed[e]}}
Copied(d, m) ==
    IF m \in Sources /\ (d = Root \/ \E k \in DOMAIN Engines :
                            Engines[k].sub = d /\ Suffix(m) # Engines[k].ext)
    THEN {<<m>>} ELSE {}

\* A file has been through what its name has lost.
TypeOK ==
    /\ \A p \in Paths : Exists(p) => inode[p] \in Paths /\ inode[p][2] = p[2]
    /\ \A p \in Paths : /\ data[p][1] \in Names
                        /\ Len(p[2]) + Len(data[p]) = 1 + Len(data[p][1])
    /\ faults \in 0..MaxFaults
    /\ \A e \in Runs : run[e].at = "file" => run[e].pos \in DOMAIN run[e].files

\* One evaluation after the other, each engine leaves what it was asked for, whatever
\* order the files come in and whichever template fails: the source files as they were,
\* no output of an earlier engine taken for a template (_eval_templates).
Outcome ==
    ~overlapped /\ (\A e \in Runs : run[e].at \in {"new", "done"}) =>
        \/ \A e \in Runs : run[e].at = "new"
        \/ \E e \in Runs : \A p \in Paths :
              (IF Exists(p) THEN {Content(p)} ELSE {}) =
                  Rendered(e, p[1], p[2]) \cup Copied(p[1], p[2])

\* An evaluation is only given up because of another one of the same source (evaluate).
OnlyOverlapAborts == \A e \in Runs : run[e].at = "aborted" => overlapped
=============================================================================
