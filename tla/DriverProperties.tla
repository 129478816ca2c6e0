-------------------------- MODULE DriverProperties --------------------------
(***************************************************************************)
(* The correctness properties of internal/driver, stated over module       *)
(* Driver.                                                                 *)
(***************************************************************************)
EXTENDS Driver

TypeOK ==
    /\ phase \in {"build", "exec", "done", "panic"}
    /\ rp \in Nat \ {0} /\ re \in Nat \ {0}
    /\ ra \in 1 .. Len(RootAnalyzers)
    /\ stack \in Seq(Job)
    /\ jobs \subseteq Job
    /\ roots \in Seq(Job)
    /\ pos \in [Job -> Nat \ {0}]
    /\ deps \in [Job -> Seq(Job)]
    /\ consumers \in [Job -> Nat]
    /\ remaining \in [Packages -> Nat]
    /\ completed \subseteq Job
    /\ order \in Seq(Job)
    /\ err \in [Job -> Outcomes]
    /\ live \subseteq Job /\ exportOpen \subseteq Job
    /\ syntax \subseteq Packages
    /\ facts \in [Job -> SUBSET Objects]
    /\ diags \in [Job -> SUBSET Findings]

-----------------------------------------------------------------------------
(* Jobs that release has not accounted for: unfinished ones and those that *)
(* took the early exit of execute.                                         *)

Unreleased == {j \in jobs : j \notin completed \/ err[j] = "dep"}

\* A job waiting to run still has everything execute hands to its Run: the
\* whole dependency list materialize collected, the syntax of its package and
\* the result of every same-package dependency that succeeded.  Release by
\* counting must never free an input that an unfinished job will read.
InputsLive ==
    phase = "exec" =>
        \A j \in jobs \ completed :
            /\ {deps[j][i] : i \in DOMAIN deps[j]} = DepSet(j)
            /\ PackageOf(j) \in Loaded => PackageOf(j) \in syntax
            /\ \A d \in DepSet(j) :
                  /\ d \in jobs
                  /\ (/\ d \in completed /\ err[d] = "none"
                      /\ PackageOf(d) = PackageOf(j)) => d \in live

\* Job.consumers and pkgState.remaining are exact reader counts, through the
\* memo hits of materialize, jobs that are roots and dependencies at once, and
\* the early exit that skips release.
CountersExact ==
    phase # "done" =>
        /\ \A d \in Job : consumers[d] = Cardinality(EdgesTo(d))
        /\ \A p \in Packages :
              remaining[p] = Cardinality({j \in Unreleased : PackageOf(j) = p})

\* The package comment's memory promise: a result or a syntax tree outlives
\* its last reader only when that reader failed on a dependency, and nothing
\* but root results outlives Run.
ReleasedPromptly ==
    /\ \A d \in live :
          \/ IsRoot(d)
          \/ phase # "done" /\ \E j \in Unreleased : d \in DepSet(j)
    /\ \A p \in syntax :
          (\E j \in jobs : PackageOf(j) = p) =>
             phase # "done" /\ \E j \in Unreleased : PackageOf(j) = p

-----------------------------------------------------------------------------
(* The facts a job sees.                                                   *)

ImportsLoaded(p, q) == \E i \in DOMAIN Imports[p] : Imports[p][i] = q /\ q \in Loaded

\* q is below p in the import graph, through packages that carry syntax.
Below(p) ==
    {q \in Packages :
        \A S \in SUBSET Packages :
            (/\ \A r \in Packages : ImportsLoaded(p, r) => r \in S
             /\ \A r \in S, t \in Packages : ImportsLoaded(r, t) => t \in S)
            => q \in S}

\* What the job itself exported.
OwnFacts(j) == {o \in facts[j] : Home[o] = PackageOf(j)}

\* A job that ran knows its own facts, the always-visible facts of every
\* package below it, however many imports away, and the facts on functions and
\* variables of its direct imports: nothing is dropped on the way through a
\* diamond and nothing confined leaks.
FactsExact ==
    \A j \in completed :
        (AnalyzerOf(j) \in FactAnalyzers /\ err[j] # "dep") =>
            facts[j] = OwnFacts(j) \cup
                UNION {{o \in OwnFacts(<<AnalyzerOf(j), q>>) :
                           \/ Visibility[o] = "always"
                           \/ /\ Visibility[o] = "direct"
                              /\ ImportsLoaded(PackageOf(j), q)} :
                         q \in Below(PackageOf(j))}

\* What a job delivered is final (execute.go:51, :152): a pass that outlives its
\* Run cannot add a fact, so a consumer that inherits early and one that inherits
\* late see the same table, and the recorded error never changes.  Report has no
\* such gate: diagnostics are final for the jobs whose pass nobody keeps.
DeliveredStaysFinal ==
    [][\A j \in completed :
          /\ facts'[j] = facts[j] /\ err'[j] = err[j]
          /\ j \notin Leaky => diags'[j] = diags[j]]_vars

-----------------------------------------------------------------------------
(* Run terminates, and implements the abstract schedule.                   *)

RootJobs ==
    {<<RootAnalyzers[a], RootPackages[p]>> :
        a \in DOMAIN RootAnalyzers, p \in DOMAIN RootPackages}

\* The sets of jobs that hold the roots and, with a job, all it depends on.
Closed ==
    {S \in SUBSET Job : RootJobs \subseteq S /\ \A j \in S : DepSet(j) \subseteq S}

\* The jobs Run schedules: the least such set.
Needed == CHOOSE S \in Closed : \A T \in Closed : S \subseteq T

Schedule == INSTANCE JobSchedule WITH
    DepsOf <- [j \in Job |-> DepSet(j)],
    done <- order,
    failed <- {j \in completed : err[j] # "none"},
    skipped <- {j \in completed : err[j] = "dep"}

\* The stack walk completes jobs the way the abstract schedule allows: Result.Jobs
\* lists each needed job once and behind its dependencies, and one failing analyzer
\* fails every job above it, over Requires and over imports, and no other.
ImplementsSchedule == Schedule!Spec

\* The walk reaches every job a root needs, also those beside a failed one, and
\* Run returns, unless an analyzer's misuse of a pass has ended the process.
RunCompletes ==
    <>(phase = "panic" \/ (phase = "done" /\ completed = Needed))
=============================================================================
