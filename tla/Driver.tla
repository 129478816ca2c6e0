------------------------------- MODULE Driver -------------------------------
(***************************************************************************)
(* The in-process analysis driver, internal/driver: one goroutine builds   *)
(* the job graph reachable from the root (analyzer, package) pairs, runs   *)
(* every job after its dependencies, inherits facts along import edges and *)
(* frees results and syntax trees as soon as no unfinished job reads them. *)
(*                                                                         *)
(* Both recursive walks are explicit: "stack" holds the jobs whose         *)
(* materialize (phase "build") or execute (phase "exec") call has not      *)
(* returned.  pos[j] is the loop index of materialize(j), which runs once  *)
(* per job; the loop index of an execute call is the first dependency that *)
(* is not completed, since execute returns at once for the completed ones. *)
(***************************************************************************)
EXTENDS Integers, Sequences, FiniteSets

CONSTANTS
    Analyzers,         \* analyzers reachable through Requires
    Packages,          \* packages of the load; a test variant is its own package
    Requires,          \* [Analyzers -> Seq(Analyzers)]
    FactAnalyzers,     \* analyzers with a nonempty FactTypes
    RunDespiteErrors,  \* analyzers that run on an ill-typed package
    Imports,           \* [Packages -> Seq(Packages)], in import path order
    Loaded,            \* packages that carry syntax when Run starts
    IllTyped,          \* packages with type errors
    RootAnalyzers,     \* Run's first argument
    RootPackages,      \* Run's second argument
    Objects,           \* the objects of all packages facts may be attached to
    Home,              \* [Objects -> Packages], obj.Pkg()
    Visibility,        \* [Objects -> VisibilityClasses]
    Findings,          \* what a Run may report, as resolved positions
    Reporters,         \* bound: the jobs whose Run may report
    Fallible,          \* bound: the jobs whose Run may fail
    Leaky,             \* bound: the jobs whose Run leaves its pass where the
                       \* Run of a later job calls it
    AnalyzerRank,      \* numbering that witnesses: Requires is acyclic
    PackageRank        \* numbering that witnesses: Imports is acyclic

Job == Analyzers \X Packages

AnalyzerOf(j) == j[1]
PackageOf(j) == j[2]

(***************************************************************************)
(* isVisibleAcrossImport's classes.  "always": methods, struct fields,     *)
(* type names, constants, and package facts, which inheritFrom never       *)
(* filters.  "direct": exported functions and package-level variables.     *)
(* "never": every other object.                                            *)
(***************************************************************************)
VisibilityClasses == {"always", "direct", "never"}

ASSUME ShapeAssumption ==
    /\ IsFiniteSet(Analyzers) /\ IsFiniteSet(Packages)
    /\ Requires \in [Analyzers -> Seq(Analyzers)]
    /\ Imports \in [Packages -> Seq(Packages)]
    /\ FactAnalyzers \subseteq Analyzers
    /\ RunDespiteErrors \subseteq Analyzers
    /\ Loaded \subseteq Packages
    /\ IllTyped \subseteq Packages
    /\ Fallible \subseteq Job /\ Reporters \subseteq Job /\ Leaky \subseteq Job

ASSUME RootAssumption ==
    /\ RootAnalyzers \in Seq(Analyzers) /\ RootAnalyzers # << >>
    /\ RootPackages \in Seq(Packages)

ASSUME FactAssumption ==
    /\ Home \in [Objects -> Packages]
    /\ Visibility \in [Objects -> VisibilityClasses]

\* analysis.Validate rejects a cycle of Requires, the Go toolchain one of
\* imports.
ASSUME AcyclicAssumption ==
    /\ AnalyzerRank \in [Analyzers -> Nat]
    /\ PackageRank \in [Packages -> Nat]
    /\ \A a \in Analyzers : \A i \in DOMAIN Requires[a] :
          AnalyzerRank[Requires[a][i]] < AnalyzerRank[a]
    /\ \A p \in Packages : \A i \in DOMAIN Imports[p] :
          PackageRank[Imports[p][i]] < PackageRank[p]

Outcomes == {"none", "dep", "illtyped", "run", "badtype"}

-----------------------------------------------------------------------------
(* The dependencies materialize visits: first the Requires of the analyzer *)
(* on the same package, then, for an analyzer with facts, the analyzer     *)
(* itself on each import.  The two loops share one position.               *)

NumRequires(j) == Len(Requires[AnalyzerOf(j)])

NumVisits(j) ==
    IF AnalyzerOf(j) \in FactAnalyzers
    THEN NumRequires(j) + Len(Imports[PackageOf(j)])
    ELSE NumRequires(j)

Visited(j, i) ==
    IF i <= NumRequires(j)
    THEN <<Requires[AnalyzerOf(j)][i], PackageOf(j)>>
    ELSE <<AnalyzerOf(j), Imports[PackageOf(j)][i - NumRequires(j)]>>

\* An import without syntax gets no edge.
HasEdge(j, i) == i <= NumRequires(j) \/ PackageOf(Visited(j, i)) \in Loaded

DepSet(j) == {Visited(j, i) : i \in {k \in 1 .. NumVisits(j) : HasEdge(j, k)}}

-----------------------------------------------------------------------------
VARIABLES
    phase,      \* "build", "exec", "done", or "panic"
    rp, ra,     \* buildGraph's loop positions in RootPackages, RootAnalyzers
    re,         \* executeAll's loop position in roots
    stack,      \* jobs with an unreturned materialize or execute call
    jobs,       \* graph.jobs, the memo of materialize
    roots,      \* graph.roots
    pos,        \* position of materialize(j) in its dependency loops
    deps,       \* Job.deps
    consumers,  \* Job.consumers
    remaining,  \* pkgState.remaining
    completed,  \* the jobs with Job.completed
    order,      \* graph.completionOrder
    err,        \* Job.Err, as the branch that set it
    live,       \* the jobs with a non-nil Job.result
    exportOpen, \* the jobs with Job.exportOpen: their Run is in progress
    syntax,     \* the packages with a non-nil Syntax and TypesInfo
    facts,      \* Job.facts, as the set of objects that carry one
    diags       \* Job.Diagnostics

graphVars == <<jobs, roots, pos, deps, consumers, remaining>>
runVars == <<completed, order, err, live, exportOpen, syntax, facts, diags>>
vars == <<phase, rp, ra, re, stack, graphVars, runVars>>

Init ==
    /\ phase = "build"
    /\ rp = 1 /\ ra = 1 /\ re = 1
    /\ stack = << >>
    /\ jobs = {}
    /\ roots = << >>
    /\ pos = [j \in Job |-> 1]
    /\ deps = [j \in Job |-> << >>]
    /\ consumers = [j \in Job |-> 0]
    /\ remaining = [p \in Packages |-> 0]
    /\ completed = {}
    /\ order = << >>
    /\ err = [j \in Job |-> "none"]
    /\ live = {}
    /\ exportOpen = {}
    /\ syntax = Loaded
    /\ facts = [j \in Job |-> {}]
    /\ diags = [j \in Job |-> {}]

IsRoot(j) == \E i \in DOMAIN roots : roots[i] = j

Top == stack[Len(stack)]
Pop == stack' = SubSeq(stack, 1, Len(stack) - 1)

-----------------------------------------------------------------------------
(* buildGraph and materialize.                                             *)

\* The memo misses: create the job, count it against its package and enter
\* its dependency loops.
Materialize(j) ==
    /\ j \notin jobs
    /\ jobs' = jobs \cup {j}
    /\ remaining' = [remaining EXCEPT ![PackageOf(j)] = @ + 1]
    /\ stack' = Append(stack, j)
    /\ UNCHANGED <<phase, rp, ra, re, roots, pos, deps, consumers, runVars>>

NextRoot == <<RootAnalyzers[ra], RootPackages[rp]>>

\* buildGraph asks for the next root.
VisitRoot ==
    /\ phase = "build" /\ stack = << >>
    /\ rp <= Len(RootPackages)
    /\ Materialize(NextRoot)

\* materialize(root) has returned, from the memo or after its walk.
AddRoot ==
    /\ phase = "build" /\ stack = << >>
    /\ rp <= Len(RootPackages)
    /\ NextRoot \in jobs
    /\ roots' = Append(roots, NextRoot)
    /\ IF ra < Len(RootAnalyzers)
       THEN ra' = ra + 1 /\ rp' = rp
       ELSE ra' = 1 /\ rp' = rp + 1
    /\ UNCHANGED <<phase, re, stack, jobs, pos, deps, consumers, remaining, runVars>>

NextDep(j) == Visited(j, pos[j])

\* materialize asks for the next dependency of the job on top.
VisitDep ==
    /\ phase = "build" /\ stack # << >>
    /\ pos[Top] <= NumVisits(Top)
    /\ HasEdge(Top, pos[Top])
    /\ Materialize(NextDep(Top))

\* Defect: an edge to a job that is already a root is not counted.
AddEdgeUncounted ==
    /\ phase = "build" /\ stack # << >>
    /\ pos[Top] <= NumVisits(Top)
    /\ HasEdge(Top, pos[Top])
    /\ NextDep(Top) \in jobs
    /\ deps' = [deps EXCEPT ![Top] = Append(@, NextDep(Top))]
    /\ consumers' = [consumers EXCEPT ![NextDep(Top)] = IF IsRoot(NextDep(Top)) THEN @ ELSE @ + 1]
    /\ pos' = [pos EXCEPT ![Top] = @ + 1]
    /\ UNCHANGED <<phase, rp, ra, re, stack, jobs, roots, remaining, runVars>>

\* materialize(dep) has returned: record the edge.
AddEdge ==
    /\ phase = "build" /\ stack # << >>
    /\ pos[Top] <= NumVisits(Top)
    /\ HasEdge(Top, pos[Top])
    /\ NextDep(Top) \in jobs
    /\ deps' = [deps EXCEPT ![Top] = Append(@, NextDep(Top))]
    /\ consumers' = [consumers EXCEPT ![NextDep(Top)] = @ + 1]
    /\ pos' = [pos EXCEPT ![Top] = @ + 1]
    /\ UNCHANGED <<phase, rp, ra, re, stack, jobs, roots, remaining, runVars>>

SkipImport ==
    /\ phase = "build" /\ stack # << >>
    /\ pos[Top] <= NumVisits(Top)
    /\ ~HasEdge(Top, pos[Top])
    /\ pos' = [pos EXCEPT ![Top] = @ + 1]
    /\ UNCHANGED <<phase, rp, ra, re, stack, jobs, roots, deps, consumers,
                   remaining, runVars>>

\* Both loops of materialize are done.
ReturnJob ==
    /\ phase = "build" /\ stack # << >>
    /\ pos[Top] > NumVisits(Top)
    /\ Pop
    /\ UNCHANGED <<phase, rp, ra, re, graphVars, runVars>>

FinishBuild ==
    /\ phase = "build" /\ stack = << >>
    /\ rp > Len(RootPackages)
    /\ phase' = "exec"
    /\ UNCHANGED <<rp, ra, re, stack, graphVars, runVars>>

-----------------------------------------------------------------------------
(* executeAll and execute.                                                 *)

\* executeAll calls execute on the next root; a completed one returns at once.
ExecuteRoot ==
    /\ phase = "exec" /\ stack = << >>
    /\ re <= Len(roots)
    /\ re' = re + 1
    /\ stack' = IF roots[re] \in completed THEN << >> ELSE <<roots[re]>>
    /\ UNCHANGED <<phase, rp, ra, graphVars, runVars>>

\* execute's loop reaches dependency i, the first that is not completed.
ExecuteDep ==
    /\ phase = "exec" /\ stack # << >>
    /\ \E i \in DOMAIN deps[Top] :
          /\ deps[Top][i] \notin completed
          /\ \A k \in 1 .. (i - 1) : deps[Top][k] \in completed
          /\ stack' = Append(stack, deps[Top][i])
    /\ UNCHANGED <<phase, rp, ra, re, graphVars, runVars>>

\* Defect: only same-package dependencies are asked for their error.
FailedDepsSamePackage(j) ==
    {i \in DOMAIN deps[j] :
        PackageOf(deps[j][i]) = PackageOf(j) /\ err[deps[j][i]] # "none"}

DepsCompleted(j) == \A i \in DOMAIN deps[j] : deps[j][i] \in completed
FailedDeps(j) == {i \in DOMAIN deps[j] : err[deps[j][i]] # "none"}

\* Defect: the early exit is taken as soon as one dependency has failed, before
\* the others have been executed.
DepFailedAtOnce ==
    /\ phase = "exec" /\ stack # << >>
    /\ FailedDeps(Top) # {}
    /\ err' = [err EXCEPT ![Top] = "dep"]
    /\ completed' = completed \cup {Top}
    /\ order' = Append(order, Top)
    /\ Pop
    /\ UNCHANGED <<phase, rp, ra, re, graphVars, live, exportOpen, syntax, facts, diags>>

\* The early exit: no run, and no per-job release.
DepFailed ==
    /\ phase = "exec" /\ stack # << >>
    /\ DepsCompleted(Top)
    /\ FailedDeps(Top) # {}
    /\ err' = [err EXCEPT ![Top] = "dep"]
    /\ completed' = completed \cup {Top}
    /\ order' = Append(order, Top)
    /\ Pop
    /\ UNCHANGED <<phase, rp, ra, re, graphVars, live, exportOpen, syntax, facts, diags>>

-----------------------------------------------------------------------------
(* The fact table.                                                         *)

\* Defect: every object fact is confined to direct importers.
VisibleDirectOnly(o, p) == Visibility[o] # "never" /\ Home[o] = p

Visible(o, p) ==
    \/ Visibility[o] = "always"
    \/ Visibility[o] = "direct" /\ Home[o] = p

\* inheritFactsFromImports: the same-analyzer dependencies on other packages.
Inherited(j) ==
    UNION {{o \in facts[deps[j][i]] : Visible(o, PackageOf(deps[j][i]))} :
             i \in {k \in DOMAIN deps[j] :
                      /\ PackageOf(deps[j][k]) # PackageOf(j)
                      /\ AnalyzerOf(deps[j][k]) = AnalyzerOf(j)}}

InheritFacts == facts' = [facts EXCEPT ![Top] = @ \cup Inherited(Top)]

\* exportObject panics for an object of another package, and Validate rejects
\* a fact of an analyzer that declares no FactTypes.
Exportable(j) ==
    IF AnalyzerOf(j) \in FactAnalyzers
    THEN {o \in Objects : Home[o] = PackageOf(j)}
    ELSE {}

-----------------------------------------------------------------------------
(* release: the two counters, the dependency list and what they free.      *)

Edges == UNION {{j} \X DOMAIN deps[j] : j \in Job}

\* The edges that end in d, and those of them that start in j.
EdgesTo(d) == {e \in Edges : deps[e[1]][e[2]] = d}
EdgesBetween(j, d) == {e \in EdgesTo(d) : e[1] = j}

ConsumersAfter(j) == [d \in Job |-> consumers[d] - Cardinality(EdgesBetween(j, d))]

\* Defect: the first consumer to finish frees the result.
FreedAtFirstReader(j) == {d \in Job : EdgesBetween(j, d) # {} /\ ~IsRoot(d)}

\* Defect: the counter is compared before it is decremented.
FreedBeforeDecrement(j) ==
    {d \in Job : EdgesBetween(j, d) # {} /\ consumers[d] = 0 /\ ~IsRoot(d)}

\* The results release(j) sets to nil.
Freed(j) ==
    {d \in Job : /\ EdgesBetween(j, d) # {}
                 /\ ConsumersAfter(j)[d] = 0
                 /\ ~IsRoot(d)}

Release(j) ==
    /\ consumers' = ConsumersAfter(j)
    /\ deps' = [deps EXCEPT ![j] = << >>]
    /\ remaining' = [remaining EXCEPT ![PackageOf(j)] = @ - 1]
    /\ syntax' = IF remaining[PackageOf(j)] = 1
                 THEN syntax \ {PackageOf(j)} ELSE syntax
    /\ UNCHANGED <<jobs, roots, pos>>

\* The dependencies are known to be good: execute goes on to the job itself.
Runnable(j) == DepsCompleted(j) /\ FailedDeps(j) = {}

\* The end of execute for a job it did not leave early, with the outcome of the
\* branch that was taken.
Complete(outcome) ==
    /\ err' = [err EXCEPT ![Top] = outcome]
    /\ live' = (live \cup (IF outcome = "none" THEN {Top} ELSE {})) \ Freed(Top)
    /\ completed' = completed \cup {Top}
    /\ order' = Append(order, Top)
    /\ Release(Top)
    /\ Pop
    /\ UNCHANGED <<phase, rp, ra, re, diags>>

Skips(j) == PackageOf(j) \in IllTyped /\ AnalyzerOf(j) \notin RunDespiteErrors

SkipIllTyped ==
    /\ phase = "exec" /\ stack # << >>
    /\ Skips(Top)
    /\ Runnable(Top)
    /\ InheritFacts
    /\ Complete("illtyped")
    /\ UNCHANGED exportOpen

\* Run is entered, with the facts of the imports in the job's table.
StartRun ==
    /\ phase = "exec" /\ stack # << >>
    /\ ~Skips(Top) /\ Top \notin exportOpen
    /\ Runnable(Top)
    /\ InheritFacts
    /\ exportOpen' = exportOpen \cup {Top}
    /\ UNCHANGED <<phase, rp, ra, re, stack, graphVars, completed, order, err,
                   live, syntax, diags>>

\* The Run in progress calls the pass of j: its own, or one that an earlier Run
\* has left behind.
CallsPass(j) ==
    /\ phase = "exec" /\ stack # << >> /\ Top \in exportOpen
    /\ \/ j = Top
       \/ j \in Leaky \cap completed /\ err[j] \notin {"dep", "illtyped"}

\* ExportObjectFact and ExportPackageFact: outside of the job's own Run they panic.
Export(j, o) ==
    /\ CallsPass(j) /\ j \in exportOpen
    /\ o \in Exportable(j) \ facts[j]
    /\ facts' = [facts EXCEPT ![j] = @ \cup {o}]
    /\ UNCHANGED <<phase, rp, ra, re, stack, graphVars, completed, order, err,
                   live, exportOpen, syntax, diags>>

LateExport(j) ==
    /\ CallsPass(j) /\ j \notin exportOpen
    /\ Exportable(j) # {}
    /\ phase' = "panic"
    /\ UNCHANGED <<rp, ra, re, stack, graphVars, runVars>>

\* Report asks no such question: it appends whenever it is called.
Report(j, f) ==
    /\ CallsPass(j)
    /\ f \in (IF j \in Reporters THEN Findings ELSE {}) \ diags[j]
    /\ diags' = [diags EXCEPT ![j] = @ \cup {f}]
    /\ UNCHANGED <<phase, rp, ra, re, stack, graphVars, completed, order, err,
                   live, exportOpen, syntax, facts>>

RunOutcomes(j) == IF j \in Fallible THEN {"none", "run", "badtype"} ELSE {"none"}

\* Defect: the flag is left up when Run has returned.
ReturnRunStillOpen ==
    /\ phase = "exec" /\ stack # << >> /\ Top \in exportOpen
    /\ \E outcome \in RunOutcomes(Top) : Complete(outcome)
    /\ UNCHANGED <<facts, exportOpen>>

\* Run has returned; what it exported and reported before it failed is kept.
ReturnRun ==
    /\ phase = "exec" /\ stack # << >> /\ Top \in exportOpen
    /\ \E outcome \in RunOutcomes(Top) : Complete(outcome)
    /\ exportOpen' = exportOpen \ {Top}
    /\ UNCHANGED facts

\* The loop over the roots is done: the run-wide release.
ReleaseAll ==
    /\ phase = "exec" /\ stack = << >>
    /\ re > Len(roots)
    /\ phase' = "done"
    /\ live' = {j \in live : IsRoot(j)}
    /\ deps' = [j \in Job |-> << >>]
    /\ syntax' = syntax \ {PackageOf(j) : j \in jobs}
    /\ UNCHANGED <<rp, ra, re, stack, jobs, roots, pos, consumers, remaining,
                   completed, order, err, exportOpen, facts, diags>>

\* Run has returned, or the process is down.
Returned == phase \in {"done", "panic"} /\ UNCHANGED vars

Next ==
    \/ VisitRoot \/ AddRoot \/ VisitDep \/ AddEdge \/ SkipImport \/ ReturnJob
    \/ FinishBuild \/ ExecuteRoot \/ ExecuteDep \/ DepFailed \/ SkipIllTyped
    \/ StartRun \/ ReturnRun
    \/ \E j \in jobs : \/ \E o \in Objects : Export(j, o)
                      \/ LateExport(j)
                      \/ \E f \in Findings : Report(j, f)
    \/ ReleaseAll \/ Returned

Spec == Init /\ [][Next]_vars

\* One goroutine that never blocks: it takes steps as long as it has one, and
\* every analyzer's Run returns.
FairSpec == Spec /\ WF_vars(Next)
=============================================================================
