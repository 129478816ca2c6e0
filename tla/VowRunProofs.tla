---------------------------- MODULE VowRunProofs ----------------------------
(***************************************************************************)
(* Proofs about cmd/vow for every module, every command line and every     *)
(* history of edits and runs: what the exit code says, what narrowing      *)
(* keeps, and that vet mode reports what the driver reports although it    *)
(* narrows afterwards and answers from a cache.                            *)
(***************************************************************************)
EXTENDS VowRun, TLAPS

-----------------------------------------------------------------------------
(* The course of one run.                                                  *)

Parsed == {"config", "resolve", "load", "analyze", "vetconfig", "vet"}
Scoped == {"load", "analyze", "vetconfig", "vet"}

\* Nothing is reported, and nothing can be incomplete, before the analysis.
FreshInv ==
    /\ pc \in {"parse", "config", "resolve", "load", "analyze", "vetconfig"} =>
          ~incomplete /\ out = NoReport /\ ~vetErr /\ configYAML = NoText
    /\ pc \in Parsed \cup {"parse"} => shown = {} /\ doc = FALSE

\* What the parser and the config loader have let through.
AcceptedInv ==
    /\ args \in Arguments
    /\ override \in Configs \cup {NoConfig}
    /\ pc \in Parsed => WellFormed(args) /\ NoSuchFile \notin args.changed

\* A scope is published before the analysis: the resolver's answer, or the
\* changed files alone.
ScopeInv ==
    /\ pc = "resolve" => WithCallers
    /\ pc \in Scoped =>
          IF WithCallers
          THEN LET scope == ResolveScopePackages(args.changed, ExcludedPaths)
               IN /\ active = [Files |-> args.changed, CallerPackages |-> scope.Callers,
                               ChangedPackages |-> scope.Changed]
                  /\ remaining = scopePositionals(scope)
                  /\ remaining # {}
          ELSE active = [Files |-> args.changed, CallerPackages |-> {}, ChangedPackages |-> {}]

CourseInv ==
    /\ pc \in {"idle", "parse", "exited"} \cup Parsed
    /\ FreshInv /\ AcceptedInv /\ ScopeInv

VetUnit(u) == VetUnitCached(u) \/ RunVettool(u) \/ VetUnitFails(u) \/ VetUnitErrs(u)

\* The steps that end a run.
Ends ==
    \/ ParseHelp \/ ParseRefuses \/ ConfigRefused
    \/ ResolveCannotList \/ ResolveFails \/ ResolveNothing
    \/ LoadFails \/ AnalyzeFails \/ Analyze
    \/ VetConfigRefused \/ VetUnusable \/ VetReport

LEMMA InitCourse == Init => CourseInv
BY InputAssumption DEF Init, CourseInv, FreshInv, AcceptedInv, ScopeInv, Parsed, Scoped

LEMMA EndsCourse ==
    ASSUME CourseInv, Ends
    PROVE  CourseInv'
<1>1. pc' = "exited" /\ UNCHANGED <<args, override>>
  BY DEF Ends, ParseHelp, ParseRefuses, ConfigRefused, ResolveCannotList, ResolveFails,
         ResolveNothing, LoadFails, AnalyzeFails, Analyze, VetConfigRefused, VetUnusable,
         VetReport, Exit, scoping
<1> QED BY <1>1 DEF CourseInv, FreshInv, AcceptedInv, ScopeInv, Parsed, Scoped

\* The steps up to the analysis.
LEMMA EarlyCourse ==
    ASSUME CourseInv, ParseAccepts \/ LoadConfigOverride \/ ResolveScope \/ Load
    PROVE  CourseInv'
<1>1. CASE ParseAccepts
  BY <1>1 DEF ParseAccepts, scoping, vetting, result, CourseInv, FreshInv, AcceptedInv, ScopeInv,
              Parsed, Scoped
<1>2. CASE LoadConfigOverride
  <2>1. /\ pc = "config" /\ override' \in Configs \cup {NoConfig}
        /\ UNCHANGED <<args, configYAML, todo, out, vetErr, incomplete, shown, doc, exit>>
        /\ WithCallers => pc' = "resolve"
        /\ ~WithCallers => /\ active' = [Files |-> args.changed, CallerPackages |-> {},
                                         ChangedPackages |-> {}]
                           /\ pc' \in {"vetconfig", "load"}
    BY <1>2 DEF LoadConfigOverride, vetting, result, Start
  <2>2. WithCallers' = WithCallers /\ (WellFormed(args) <=> WellFormed(args)')
    BY <2>1 DEF WithCallers, WellFormed
  <2>3. FreshInv' /\ AcceptedInv' /\ pc' \in Parsed
    BY <2>1, <2>2 DEF CourseInv, FreshInv, AcceptedInv, Parsed
  <2>4. ScopeInv'
    BY <2>1, <2>2 DEF ScopeInv, Scoped
  <2> QED BY <2>3, <2>4 DEF CourseInv
<1>3. CASE ResolveScope
  <2>1. /\ pc = "resolve" /\ pc' \in {"vetconfig", "load"}
        /\ UNCHANGED <<args, override, configYAML, todo, out, vetErr, incomplete, shown, doc, exit>>
        /\ LET scope == ResolveScopePackages(args.changed, ExcludedPaths)
           IN /\ active' = [Files |-> args.changed, CallerPackages |-> scope.Callers,
                            ChangedPackages |-> scope.Changed]
              /\ remaining' = scopePositionals(scope)
              /\ scopePositionals(scope) # {}
    BY <1>3 DEF ResolveScope, vetting, result, Start
  <2>2. ExcludedPaths' = ExcludedPaths /\ WithCallers' = WithCallers
    BY <2>1 DEF ExcludedPaths, WithCallers
  <2>3. FreshInv' /\ AcceptedInv' /\ pc' \in Parsed
    BY <2>1 DEF CourseInv, FreshInv, AcceptedInv, Parsed, WellFormed
  <2>4. WithCallers
    BY <2>1 DEF CourseInv, ScopeInv
  <2>5. ScopeInv'
    BY <2>1, <2>2, <2>4 DEF ScopeInv
  <2> QED BY <2>3, <2>5 DEF CourseInv
<1>4. CASE Load
  BY <1>4 DEF Load, scoping, vetting, result, CourseInv, FreshInv, AcceptedInv, ScopeInv,
              Parsed, Scoped, WithCallers, ExcludedPaths
<1> QED BY <1>1, <1>2, <1>3, <1>4

\* The steps of go vet, and the world's.
LEMMA VetCourse ==
    ASSUME CourseInv, VetStart \/ \E u \in todo : VetUnit(u)
    PROVE  CourseInv'
<1>1. /\ pc \in {"vetconfig", "vet"} /\ pc' = "vet"
      /\ UNCHANGED <<args, override, active, remaining, shown, doc>>
  BY DEF VetStart, VetUnit, VetUnitCached, RunVettool, VetUnitFails, VetUnitErrs, Finish,
         scoping, result
<1>2. WithCallers' = WithCallers /\ ExcludedPaths' = ExcludedPaths
  BY <1>1 DEF WithCallers, ExcludedPaths
<1> QED BY <1>1, <1>2 DEF CourseInv, FreshInv, AcceptedInv, ScopeInv, Parsed, Scoped, WellFormed

LEMMA WorldCourse ==
    ASSUME CourseInv,
           \/ \E a \in Arguments : Invoke(a)
           \/ \E text \in Configs \cup {Garbled, Missing} : EditConfig(text)
           \/ \E f \in Files : EditSource(f)
           \/ UNCHANGED vars
    PROVE  CourseInv'
<1>1. CASE \E a \in Arguments : Invoke(a)
  BY <1>1 DEF Invoke, CourseInv, FreshInv, AcceptedInv, ScopeInv, Parsed, Scoped
<1>2. CASE \E f \in Files : EditSource(f)
  BY <1>2 DEF EditSource, scoping, CourseInv, FreshInv, AcceptedInv, ScopeInv, Parsed, Scoped
<1>3. ASSUME UNCHANGED <<pc, scoping, vetting, result>> PROVE CourseInv'
  BY <1>3 DEF scoping, vetting, result, CourseInv, FreshInv, AcceptedInv, ScopeInv, Parsed, Scoped,
              WithCallers, ExcludedPaths, WellFormed
<1> QED BY <1>1, <1>2, <1>3 DEF EditConfig, vars

LEMMA NextCourse == CourseInv /\ [Next]_vars => CourseInv'
BY EndsCourse, EarlyCourse, VetCourse, WorldCourse DEF Next, RunStep, Ends, VetUnit

-----------------------------------------------------------------------------
(* The exit codes.                                                         *)

\* After a run, the only step that leaves pc = "exited" is an edit of the
\* config file, which the result does not depend on.
LEMMA StaysExited ==
    ASSUME pc = "exited", pc' = "exited", [Next]_vars
    PROVE  UNCHANGED <<code, scoping, vetting, result>>
<1>1. ~RunStep
  BY DEF RunStep, ParseHelp, ParseRefuses, ParseAccepts, ConfigRefused, LoadConfigOverride,
         ResolveCannotList, ResolveFails, ResolveNothing, ResolveScope, LoadFails, Load,
         AnalyzeFails, Analyze, VetConfigRefused, VetStart, VetUnusable, VetReport,
         VetUnitCached, RunVettool, VetUnitFails, VetUnitErrs
<1> QED BY <1>1 DEF Next, Invoke, EditSource, EditConfig, vars, world

LEMMA ExitedBy ==
    ASSUME CourseInv, [Next]_vars, pc' = "exited"
    PROVE  Ends \/ (pc = "exited" /\ UNCHANGED <<code, scoping, vetting, result>>)
<1>1. CASE pc = "exited"
  BY <1>1, StaysExited
<1>2. CASE pc # "exited"
  BY <1>2 DEF Next, RunStep, Ends, Invoke, EditSource, EditConfig, vars, world,
       ParseAccepts, LoadConfigOverride, ResolveScope, Start, Load, VetStart,
       VetUnitCached, RunVettool, VetUnitFails, VetUnitErrs, CourseInv, Parsed
<1> QED BY <1>1, <1>2

\* What an exit that came before any verdict leaves.
Silent == shown' = {} /\ ~incomplete' /\ out' = NoReport /\ ~doc'

LEMMA EndsTellReport ==
    ASSUME CourseInv, Ends
    PROVE  ExitTellsReport'
<1>0. UNCHANGED args
  BY DEF Ends, ParseHelp, ParseRefuses, ConfigRefused, ResolveCannotList, ResolveFails,
         ResolveNothing, LoadFails, AnalyzeFails, Analyze, VetConfigRefused, VetUnusable,
         VetReport, scoping
<1>1. CASE ParseHelp
  <2>1. Silent /\ args.usage = "help" /\ exit' = 0
    BY <1>1 DEF ParseHelp, Exit, vetting, CourseInv, FreshInv, Parsed, Silent
  <2> QED BY <1>0, <2>1 DEF ExitTellsReport, Silent
<1>2. CASE ParseRefuses \/ ConfigRefused \/ ResolveCannotList \/ LoadFails \/ VetConfigRefused
  <2>1. Silent /\ exit' = 2
    BY <1>2 DEF ParseRefuses, ConfigRefused, ResolveCannotList, LoadFails, VetConfigRefused,
                Exit, vetting, CourseInv, FreshInv, Parsed, Silent
  <2> QED BY <2>1 DEF ExitTellsReport, Silent
<1>3. CASE ResolveFails \/ AnalyzeFails \/ VetUnusable
  <2>1. exit' = 3 /\ ~doc'
    BY <1>3 DEF ResolveFails, AnalyzeFails, VetUnusable, Exit, CourseInv, FreshInv, Parsed
  <2> QED BY <2>1 DEF ExitTellsReport
<1>4. CASE ResolveNothing
  <2>1. exit' = 0 /\ doc' = args.json /\ shown' = {}
    BY <1>4 DEF ResolveNothing, Exit, CourseInv, FreshInv, Parsed
  <2> QED BY <1>0, <2>1 DEF ExitTellsReport
<1>5. CASE Analyze
  <2>1. doc' = args.json
    BY <1>5 DEF Analyze
  <2>2. \E errors \in BOOLEAN : exit' = resolveExitCode(errors, shown')
    BY <1>5 DEF Analyze, Exit
  <2>3. exit' \in {0, 1, 3} /\ (exit' = 1 => shown' # {}) /\ (exit' = 0 => shown' = {})
    BY <2>2 DEF resolveExitCode
  <2> QED BY <1>0, <2>1, <2>3 DEF ExitTellsReport
<1>6. CASE VetReport
  <2> DEFINE selected == selectVetReport(out, active, args.tests)
  <2>1. /\ doc' = args.json
        /\ shown' = {d.site : d \in UNION {selected[id].diags : id \in DOMAIN selected}}
        /\ exit' = vetExitCode(selected, vetErr)
    BY <1>6 DEF VetReport, Exit
  <2> HIDE DEF selected
  <2>2. shown' # {} <=> \E id \in DOMAIN selected : selected[id].diags # {}
    BY <2>1
  <2>3. exit' \in {0, 1, 3} /\ (exit' = 1 => shown' # {}) /\ (exit' = 0 => shown' = {})
    BY <2>1, <2>2 DEF vetExitCode
  <2> QED BY <1>0, <2>1, <2>3 DEF ExitTellsReport
<1> QED BY <1>1, <1>2, <1>3, <1>4, <1>5, <1>6 DEF Ends

\* The exit code and the JSON document tell what was reported, for every
\* command line, module and failure.
THEOREM ExitCodesTellReport == Spec => []ExitTellsReport
<1>1. Init => ExitTellsReport
  BY DEF Init, ExitTellsReport
<1>2. ASSUME CourseInv, ExitTellsReport, [Next]_vars PROVE ExitTellsReport'
  <2>1. CASE pc' # "exited"
    BY <2>1 DEF ExitTellsReport
  <2>2. CASE pc' = "exited" /\ Ends
    BY <1>2, <2>2, EndsTellReport
  <2>3. CASE pc = "exited" /\ UNCHANGED <<code, scoping, vetting, result>>
    BY <1>2, <2>3 DEF ExitTellsReport, scoping, vetting, result
  <2> QED BY <1>2, <2>1, <2>2, <2>3, ExitedBy
<1>3. CourseInv /\ ExitTellsReport /\ [Next]_vars => ExitTellsReport'
  BY <1>2
<1> QED BY <1>1, <1>3, InitCourse, NextCourse, PTL DEF Spec

-----------------------------------------------------------------------------
(* The module and the scope of a run.                                      *)

\* No directory's own import path ends in "_test".  Vet mode takes such a path
\* for an external test package and looks for the scope of another one.
NoTestDirectory == \A p \in Paths : p[2] = 0

LEMMA TestPaths ==
    ASSUME NoTestDirectory
    PROVE  /\ \A p \in Paths : vetPackagePath(p) = p
           /\ \A p \in Paths : vetPackagePath(TestPath(p)) = p /\ TestPath(p) \notin Paths
           /\ \A p, q \in Paths : TestPath(p) = TestPath(q) => p = q
<1>1. \A p \in Paths : p[2] = 0 /\ p = <<p[1], 0>>
  BY ModuleAssumption DEF NoTestDirectory
<1>2. ASSUME NEW p \in Paths PROVE TestPath(p)[1] = p[1] /\ TestPath(p)[2] = 1
  <2>1. p[2] + 1 = 1
    BY <1>1
  <2> QED BY <2>1 DEF TestPath
<1>3. ASSUME NEW p \in Paths PROVE vetPackagePath(TestPath(p)) = p
  <2>1. vetPackagePath(TestPath(p)) = <<TestPath(p)[1], TestPath(p)[2] - 1>>
    BY <1>2 DEF vetPackagePath
  <2>2. TestPath(p)[2] - 1 = 0
    BY <1>2
  <2> QED BY <1>1, <1>2, <2>1, <2>2
<1>4. ASSUME NEW p \in Paths PROVE TestPath(p) \notin Paths
  BY <1>1, <1>2
<1>5. ASSUME NEW p \in Paths PROVE vetPackagePath(p) = p
  BY <1>1 DEF vetPackagePath
<1> QED BY <1>1, <1>2, <1>3, <1>4, <1>5

LEMMA UnitIds ==
    ASSUME NoTestDirectory, NEW R \in SUBSET Paths
    PROVE  /\ \A u, v \in Units(R) : u.id = v.id => u = v
           /\ \A u \in Units(R) : vetPackagePath(u.id) \in R
<1>1. ASSUME NEW u \in Units(R)
      PROVE  \E p \in R : \/ u = [id |-> p, files |-> Src[p] \cup InTest[p]]
                          \/ u = [id |-> TestPath(p), files |-> ExtTest[p]]
  BY DEF Units
<1>2. ASSUME NEW u \in Units(R), NEW v \in Units(R), u.id = v.id
      PROVE  u = v
  <2>1. PICK p \in R : \/ u = [id |-> p, files |-> Src[p] \cup InTest[p]]
                       \/ u = [id |-> TestPath(p), files |-> ExtTest[p]]
    BY <1>1
  <2>2. PICK q \in R : \/ v = [id |-> q, files |-> Src[q] \cup InTest[q]]
                       \/ v = [id |-> TestPath(q), files |-> ExtTest[q]]
    BY <1>1
  <2>3. p \in Paths /\ q \in Paths
    OBVIOUS
  <2> QED BY <1>2, <2>1, <2>2, <2>3, TestPaths
<1>3. ASSUME NEW u \in Units(R) PROVE vetPackagePath(u.id) \in R
  BY <1>1, TestPaths
<1> QED BY <1>2, <1>3

-----------------------------------------------------------------------------
(* A run of go vet.                                                        *)

Failure == [failed |-> TRUE, diags |-> {}]
Verdict(diags) == [failed |-> FALSE, diags |-> diags]

\* What a tool run under a cache key reports.
KeyDiagnostics(key) ==
    {[site |-> d, note |-> d.call] :
        d \in {d \in Sites : /\ d.file \in key.unit.files
                             /\ \/ key.code[Cause(d)] = "leaky"
                                \/ key.flags.config \in Strict /\ d.call = "none"}}

\* The cache answers what the tool would have answered under the same key.
CacheInv == \A e \in cache : e.result \in {Failure, Verdict(KeyDiagnostics(e.key))}

Running == Units(remaining \cap Paths)

\* While go vet runs: the report holds results of the units that are done, each
\* a failure or what the tool finds in the sources as they are; a unit without
\* one has failed go vet, and the run is incomplete only if the report or the
\* exit code of go vet says so.
VetInv ==
    pc = "vet" =>
        /\ configYAML # NoText
        /\ todo \subseteq Running
        /\ \A id \in DOMAIN out :
              \E u \in Running \ todo :
                 id = u.id /\ out[id] \in {Failure, Verdict(ToolDiagnostics(u))}
        /\ \A u \in Running \ todo : u.id \in DOMAIN out \/ vetErr
        /\ incomplete => vetErr \/ \E id \in DOMAIN out : out[id] = Failure

DiskInv == disk \in Configs \cup {Garbled, Missing}

\* A unit's inputs decide its diagnostics: what a diagnostic depends on is a
\* file of the unit or of a package that the unit imports.
LEMMA CauseIsInput ==
    ASSUME NEW u \in Units(Paths), NEW d \in Sites, d.file \in u.files
    PROVE  Cause(d) \in Inputs(u)
<1>1. d \in SiteType
  BY SiteAssumption
<1>2. CASE d.call \notin Files
  BY <1>2 DEF Cause, Inputs
<1>3. CASE d.call \in Files
  <2>1. ASSUME NEW q \in Imports[d.file], d.call \in SeenFrom(u.id, q)
        PROVE  d.call \in Inputs(u)
    BY <2>1 DEF Inputs
  <2>2. ASSUME NEW p \in Paths, u = [id |-> p, files |-> Src[p] \cup InTest[p]]
        PROVE  d.call \in Inputs(u)
    <3>1. CASE d.call \in Src[p] \cup InTest[p]
      BY <2>2, <3>1 DEF Inputs
    <3>2. CASE \E q \in Imports[d.file] : d.call \in Src[q]
      BY <2>1, <3>2 DEF SeenFrom
    <3> QED BY <1>3, <2>2, <3>1, <3>2, SiteAssumption
  <2>3. ASSUME NEW p \in Paths, u = [id |-> TestPath(p), files |-> ExtTest[p]]
        PROVE  d.call \in Inputs(u)
    <3>1. CASE d.call \in ExtTest[p]
      BY <2>3, <3>1 DEF Inputs
    <3>2. CASE \E q \in Imports[d.file] : d.call \in SeenFrom(TestPath(p), q)
      BY <2>1, <2>3, <3>2
    <3> QED BY <1>3, <2>3, <3>1, <3>2, SiteAssumption
  <2> QED BY <1>3, <2>2, <2>3 DEF Units, Cause
<1> QED BY <1>2, <1>3

LEMMA KeyDecides ==
    ASSUME NEW u \in Units(Paths)
    PROVE  KeyDiagnostics(CacheKey(u)) = ToolDiagnostics(u)
<1>1. CacheKey(u).unit = u /\ CacheKey(u).flags.config = configYAML
  BY DEF CacheKey, VetFlags
<1>2. ASSUME NEW d \in Sites, d.file \in u.files
      PROVE  CacheKey(u).code[Cause(d)] = code[Cause(d)]
  BY <1>2, CauseIsInput DEF CacheKey
<1>3. {d \in Sites : /\ d.file \in u.files
                     /\ \/ CacheKey(u).code[Cause(d)] = "leaky"
                        \/ configYAML \in Strict /\ d.call = "none"}
      = Found(u.files, configYAML)
  BY <1>2 DEF Found
<1>4. ToolDiagnostics(u) = {[site |-> d, note |-> d.call] : d \in Found(u.files, configYAML)}
  BY DEF ToolDiagnostics, ToolConfig, VetFlags
<1> QED BY <1>1, <1>3, <1>4 DEF KeyDiagnostics

LEMMA RunningUnits == Running \subseteq Units(Paths)
BY DEF Running, Units

\* One more unit is done: its result joins the report and replaces no other.
LEMMA UnitReported ==
    ASSUME NoTestDirectory, VetInv, pc = "vet", NEW u \in todo,
           NEW r \in {Failure, Verdict(ToolDiagnostics(u))}, Report(u, r),
           todo' = todo \ {u}, incomplete' => incomplete \/ r = Failure,
           UNCHANGED <<pc, code, configYAML, remaining, vetErr>>
    PROVE  VetInv'
<1>1. /\ u \in Running /\ todo \subseteq Running /\ Running' = Running
  BY DEF VetInv, Running
<1>2. \A v : ToolDiagnostics(v)' = ToolDiagnostics(v)
  BY DEF ToolDiagnostics, ToolConfig, VetFlags, Found
<1>3. u.id \notin DOMAIN out
  <2>1. ASSUME u.id \in DOMAIN out PROVE FALSE
    <3>1. PICK v \in Running \ todo : u.id = v.id
      BY <2>1 DEF VetInv
    <3> QED BY <1>1, <3>1, UnitIds DEF Running
  <2> QED BY <2>1
<1>4. /\ DOMAIN out' = DOMAIN out \cup {u.id} /\ out'[u.id] = r
      /\ \A id \in DOMAIN out : out'[id] = out[id]
  BY <1>3 DEF Report
<1>5. ASSUME NEW id \in DOMAIN out'
      PROVE  \E v \in Running \ todo' :
                id = v.id /\ out'[id] \in {Failure, Verdict(ToolDiagnostics(v))}
  <2>1. CASE id = u.id
    BY <1>1, <1>4, <2>1
  <2>2. CASE id \in DOMAIN out
    BY <1>4, <2>2 DEF VetInv
  <2> QED BY <1>4, <1>5, <2>1, <2>2
<1>6. \A v \in Running \ todo' : v.id \in DOMAIN out' \/ vetErr'
  BY <1>4 DEF VetInv
<1>7. incomplete' => vetErr' \/ \E id \in DOMAIN out' : out'[id] = Failure
  BY <1>4 DEF VetInv
<1>8. \A v : Verdict(ToolDiagnostics(v))' = Verdict(ToolDiagnostics(v)) /\ Failure' = Failure
  BY <1>2 DEF Verdict, Failure
<1> QED BY <1>1, <1>5, <1>6, <1>7, <1>8 DEF VetInv

LEMMA VetUnitInv ==
    ASSUME NoTestDirectory, VetInv, CacheInv, NEW u \in todo, VetUnit(u)
    PROVE  VetInv' /\ CacheInv'
<1>1. CASE VetUnitCached(u)
  <2>1. PICK e \in cache : /\ e.key = CacheKey(u) /\ Report(u, e.result)
                           /\ incomplete' = (incomplete \/ e.result.failed)
    BY <1>1 DEF VetUnitCached
  <2>2. /\ pc = "vet" /\ todo' = todo \ {u} /\ cache' = cache
        /\ UNCHANGED <<pc, code, configYAML, remaining, vetErr>>
    BY <1>1 DEF VetUnitCached, world, scoping
  <2>3. u \in Units(Paths)
    BY <2>2, RunningUnits DEF VetInv
  <2>4. e.result \in {Failure, Verdict(ToolDiagnostics(u))}
    BY <2>1, <2>3, KeyDecides DEF CacheInv
  <2>5. incomplete' => incomplete \/ e.result = Failure
    <3>1. e.result = Failure \/ e.result.failed = FALSE
      BY <2>4 DEF Verdict
    <3>2. incomplete' => incomplete \/ e.result.failed
      BY <2>1
    <3> QED BY <3>1, <3>2
  <2> QED BY <2>1, <2>2, <2>4, <2>5, UnitReported DEF CacheInv
<1>2. ASSUME NEW r \in {Failure, Verdict(ToolDiagnostics(u))}, pc = "vet", Finish(u, r),
             incomplete' => incomplete \/ r = Failure, todo' = todo \ {u},
             UNCHANGED <<pc, code, configYAML, remaining, vetErr>>
      PROVE  VetInv' /\ CacheInv'
  <2>1. VetInv'
    BY <1>2, UnitReported DEF Finish
  <2>2. u \in Units(Paths)
    BY <1>2, RunningUnits DEF VetInv
  <2>3. cache' = cache \cup {[key |-> CacheKey(u), result |-> r]}
    BY <1>2 DEF Finish
  <2>4. CacheInv'
    BY <2>2, <2>3, KeyDecides DEF CacheInv
  <2> QED BY <2>1, <2>4
<1>3. CASE RunVettool(u)
  <2>1. /\ pc = "vet" /\ todo' = todo \ {u} /\ incomplete' = incomplete
        /\ UNCHANGED <<pc, code, configYAML, remaining, vetErr>>
        /\ Finish(u, Verdict(ToolDiagnostics(u)))
    BY <1>3 DEF RunVettool, scoping, result, Verdict
  <2> QED BY <1>2, <2>1
<1>4. CASE VetUnitErrs(u)
  <2>1. /\ pc = "vet" /\ todo' = todo \ {u} /\ incomplete' = TRUE
        /\ UNCHANGED <<pc, code, configYAML, remaining, vetErr>>
        /\ Finish(u, Failure)
    BY <1>4 DEF VetUnitErrs, scoping, Failure
  <2> QED BY <1>2, <2>1
<1>5. CASE VetUnitFails(u)
  <2>1. /\ pc = "vet" /\ todo' = todo \ {u} /\ vetErr' = TRUE
        /\ UNCHANGED <<pc, code, configYAML, remaining, out, cache>>
    BY <1>5 DEF VetUnitFails, scoping, world
  <2>2. Running' = Running /\ \A v : ToolDiagnostics(v)' = ToolDiagnostics(v)
    BY <2>1 DEF Running, ToolDiagnostics, ToolConfig, VetFlags, Found
  <2>3. \A v : Verdict(ToolDiagnostics(v))' = Verdict(ToolDiagnostics(v)) /\ Failure' = Failure
    BY <2>2 DEF Verdict, Failure
  <2> QED BY <2>1, <2>2, <2>3 DEF VetInv, CacheInv
<1> QED BY <1>1, <1>3, <1>4, <1>5 DEF VetUnit

LEMMA InitVet == Init => VetInv /\ CacheInv /\ DiskInv
BY DEF Init, VetInv, CacheInv, DiskInv

LEMMA NextVet ==
    ASSUME NoTestDirectory, CourseInv, VetInv, CacheInv, DiskInv, [Next]_vars
    PROVE  VetInv' /\ CacheInv' /\ DiskInv'
<1>1. DiskInv'
  <2>1. CASE \E text \in Configs \cup {Garbled, Missing} : EditConfig(text)
    BY <2>1 DEF EditConfig, DiskInv
  <2>2. CASE UNCHANGED disk
    BY <2>2 DEF DiskInv
  <2> QED
    BY <2>1, <2>2 DEF Next, RunStep, ParseHelp, ParseRefuses, ParseAccepts, ConfigRefused,
       LoadConfigOverride, ResolveCannotList, ResolveFails, ResolveNothing, ResolveScope,
       LoadFails, Load, AnalyzeFails, Analyze, VetConfigRefused, VetStart, VetUnusable,
       VetReport, VetUnitCached, RunVettool, VetUnitFails, VetUnitErrs, Invoke, EditSource,
       vars, world
<1>2. CASE \E u \in todo : VetUnit(u)
  BY <1>1, <1>2, VetUnitInv
<1>3. CASE VetStart
  <2>1. /\ pc = "vetconfig" /\ ConfigText \notin {NoConfig, Missing} /\ configYAML' = ConfigText
        /\ todo' = Running /\ UNCHANGED <<cache, code, remaining, out, incomplete>>
    BY <1>3 DEF VetStart, Running, world, scoping, result
  <2>2. ~incomplete /\ out = NoReport /\ args \in ArgumentType
    BY <2>1, InputAssumption DEF CourseInv, FreshInv, AcceptedInv
  <2>3. configYAML' # NoText
    BY <2>1, <2>2, InputAssumption DEF ConfigText, DiskInv, ArgumentType
  <2>4. Running' = Running /\ DOMAIN out' = {}
    BY <2>1, <2>2 DEF Running, NoReport
  <2> QED BY <1>1, <2>1, <2>2, <2>3, <2>4 DEF VetInv, CacheInv
<1>4. CASE UNCHANGED <<pc, code, cache, scoping, vetting, result>>
  <2>1. /\ Running' = Running /\ \A v : ToolDiagnostics(v)' = ToolDiagnostics(v)
        /\ UNCHANGED <<pc, cache, todo, out, vetErr, configYAML, incomplete>>
    BY <1>4 DEF Running, ToolDiagnostics, ToolConfig, VetFlags, Found, scoping, vetting, result
  <2>2. \A v : Verdict(ToolDiagnostics(v))' = Verdict(ToolDiagnostics(v)) /\ Failure' = Failure
    BY <2>1 DEF Verdict, Failure
  <2> QED BY <1>1, <2>1, <2>2 DEF VetInv, CacheInv
<1>5. CASE pc' # "vet" /\ UNCHANGED cache
  BY <1>1, <1>5 DEF VetInv, CacheInv
<1> QED
  BY <1>2, <1>3, <1>4, <1>5 DEF Next, RunStep, Exit, ParseHelp, ParseRefuses, ParseAccepts,
     ConfigRefused, LoadConfigOverride, Start, ResolveCannotList, ResolveFails, ResolveNothing,
     ResolveScope, LoadFails, Load, AnalyzeFails, Analyze, VetConfigRefused, VetUnusable,
     VetReport, VetUnit, Invoke, EditSource, EditConfig, vars, world

-----------------------------------------------------------------------------
(* The report of go vet after the selection.                               *)

Kept(id) == keptVetDiagnostics(out[id].diags, vetPackagePath(id), active, args.tests)

\* Every result in the report is of a unit in the scope of the run, so the
\* selection leaves out only results with nothing to say.
LEMMA Selection ==
    ASSUME NoTestDirectory, CourseInv, VetInv, pc = "vet"
    PROVE  LET selected == selectVetReport(out, active, args.tests)
           IN  /\ DOMAIN selected = {id \in DOMAIN out : out[id].failed \/ Kept(id) # {}}
               /\ \A id \in DOMAIN selected : /\ selected[id].failed = out[id].failed
                                              /\ selected[id].diags = Kept(id)
<1> DEFINE scope == narrowPackages(active)
           inScope == {id \in DOMAIN out : scope = {} \/ vetPackagePath(id) \in scope}
           kept == [id \in inScope |-> [failed |-> out[id].failed, diags |-> Kept(id)]]
<1>1. scope = {} \/ scope = remaining
  <2>1. CASE WithCallers
    BY <2>1 DEF CourseInv, ScopeInv, Scoped, narrowPackages, scopePositionals, WithCallers
  <2>2. CASE ~WithCallers
    BY <2>2 DEF CourseInv, ScopeInv, Scoped, narrowPackages
  <2> QED BY <2>1, <2>2
<1>2. inScope = DOMAIN out
  <2>1. ASSUME NEW id \in DOMAIN out PROVE vetPackagePath(id) \in remaining
    <3>1. PICK u \in Running : id = u.id
      BY DEF VetInv
    <3> QED BY <3>1, UnitIds DEF Running
  <2> QED BY <1>1, <2>1
<1>3. selectVetReport(out, active, args.tests)
      = [id \in {id \in inScope : kept[id].failed \/ kept[id].diags # {}} |-> kept[id]]
  BY DEF selectVetReport, Kept
<1> HIDE DEF inScope
<1>4. \A id \in DOMAIN out : kept[id].failed = out[id].failed /\ kept[id].diags = Kept(id)
  BY <1>2
<1> HIDE DEF kept
<1> QED BY <1>2, <1>3, <1>4

LEMMA VetReportClean ==
    ASSUME NoTestDirectory, CourseInv, VetInv, VetReport, exit' \in {0, 1}
    PROVE  ~vetErr /\ \A id \in DOMAIN out : out[id] # Failure
<1> DEFINE selected == selectVetReport(out, active, args.tests)
<1>1. pc = "vet" /\ exit' = vetExitCode(selected, vetErr)
  BY DEF VetReport, Exit
<1>2. /\ DOMAIN selected = {id \in DOMAIN out : out[id].failed \/ Kept(id) # {}}
      /\ \A id \in DOMAIN selected : selected[id].failed = out[id].failed
  BY <1>1, Selection
<1> HIDE DEF selected
<1>3. ~vetErr /\ \A id \in DOMAIN selected : ~selected[id].failed
  BY <1>1 DEF vetExitCode
<1>4. ASSUME NEW id \in DOMAIN out, out[id] = Failure PROVE FALSE
  <2>1. out[id].failed
    BY <1>4 DEF Failure
  <2> QED BY <1>2, <1>3, <2>1
<1> QED BY <1>3, <1>4

LEMMA EndsClean ==
    ASSUME NoTestDirectory, CourseInv, VetInv, Ends
    PROVE  CleanExitIsComplete'
<1>1. CASE \/ ParseHelp \/ ParseRefuses \/ ConfigRefused \/ ResolveCannotList \/ ResolveFails
           \/ ResolveNothing \/ LoadFails \/ VetConfigRefused
  <2>1. ~incomplete'
    BY <1>1 DEF ParseHelp, ParseRefuses, ConfigRefused, ResolveCannotList, ResolveFails,
                ResolveNothing, LoadFails, VetConfigRefused, CourseInv, FreshInv
  <2> QED BY <2>1 DEF CleanExitIsComplete
<1>2. CASE AnalyzeFails \/ VetUnusable
  <2>1. exit' = 3
    BY <1>2 DEF AnalyzeFails, VetUnusable, Exit
  <2> QED BY <2>1 DEF CleanExitIsComplete
<1>3. CASE Analyze
  <2>1. \E errors \in BOOLEAN : incomplete' = errors /\ exit' = resolveExitCode(errors, shown')
    BY <1>3 DEF Analyze, Exit
  <2> QED BY <2>1 DEF resolveExitCode, CleanExitIsComplete
<1>4. CASE VetReport
  <2>1. pc = "vet" /\ incomplete' = incomplete
    BY <1>4 DEF VetReport
  <2>2. exit' \in {0, 1} => ~incomplete
    BY <1>4, <2>1, VetReportClean DEF VetInv
  <2> QED BY <2>1, <2>2 DEF CleanExitIsComplete
<1> QED BY <1>1, <1>2, <1>3, <1>4 DEF Ends

\* A run that exits 0 or 1 has analysed everything it was asked about, in every
\* module without a directory whose path ends in "_test".
THEOREM CleanExitsAreComplete ==
    ASSUME NoTestDirectory
    PROVE  Spec => []CleanExitIsComplete
<1>1. Init => CleanExitIsComplete
  BY DEF Init, CleanExitIsComplete
<1>2. ASSUME CourseInv, VetInv, CleanExitIsComplete, [Next]_vars PROVE CleanExitIsComplete'
  <2>1. CASE pc' # "exited"
    BY <2>1 DEF CleanExitIsComplete
  <2>2. CASE Ends
    BY <1>2, <2>2, EndsClean
  <2>3. CASE pc = "exited" /\ UNCHANGED <<code, scoping, vetting, result>>
    BY <1>2, <2>3 DEF CleanExitIsComplete, result
  <2> QED BY <1>2, <2>1, <2>2, <2>3, ExitedBy
<1>3. CourseInv /\ VetInv /\ CleanExitIsComplete /\ [Next]_vars => CleanExitIsComplete'
  BY <1>2
<1>4. CourseInv /\ VetInv /\ CacheInv /\ DiskInv /\ [Next]_vars => VetInv' /\ CacheInv' /\ DiskInv'
  BY NextVet
<1> QED BY <1>1, <1>3, <1>4, InitCourse, NextCourse, InitVet, PTL DEF Spec

-----------------------------------------------------------------------------
(* What the resolver publishes.                                            *)

LEMMA Loadable == loadablePackagePaths(LoadWithTests) = {p \in Paths : Src[p] # {}}
<1>1. ASSUME NEW e \in LoadWithTests, ~e.bracketed, e.files # {}
      PROVE  \E p \in Paths : e.path = p /\ Src[p] = e.files
  <2>1. CASE e \in {Listed(p, FALSE, Src[p]) : p \in Paths}
    BY <2>1 DEF Listed
  <2>2. CASE e \notin {Listed(p, FALSE, Src[p]) : p \in Paths}
    BY <1>1, <2>2 DEF LoadWithTests, Listed
  <2> QED BY <2>1, <2>2
<1>2. ASSUME NEW p \in Paths, Src[p] # {}
      PROVE  p \in loadablePackagePaths(LoadWithTests)
  <2>1. Listed(p, FALSE, Src[p]) \in LoadWithTests
    BY DEF LoadWithTests
  <2>2. /\ Listed(p, FALSE, Src[p]).path = p /\ Listed(p, FALSE, Src[p]).files = Src[p]
        /\ ~Listed(p, FALSE, Src[p]).bracketed
    BY DEF Listed
  <2> QED BY <1>2, <2>1, <2>2 DEF loadablePackagePaths
<1> QED BY <1>1, <1>2 DEF loadablePackagePaths

LEMMA ScopeInPaths ==
    ASSUME NEW changed, NEW excluded
    PROVE  LET scope == ResolveScopePackages(changed, excluded)
           IN  scope.Changed \subseteq Paths /\ scope.Callers \subseteq Paths
BY Loadable DEF ResolveScopePackages, filterPaths

\* The set the narrowing works with.
LEMMA ActiveSet ==
    ASSUME CourseInv, pc \in Scoped
    PROVE  /\ active.Files = args.changed /\ args.changed \subseteq Files
           /\ active.CallerPackages \subseteq Paths /\ active.ChangedPackages \subseteq Paths
           /\ ~WithCallers => active.CallerPackages \cup active.ChangedPackages = {}
<1>1. args.changed \subseteq Files
  BY InputAssumption DEF CourseInv, AcceptedInv, ArgumentType, Parsed, Scoped
<1>2. CASE WithCallers
  BY <1>1, <1>2, ScopeInPaths DEF CourseInv, ScopeInv
<1>3. CASE ~WithCallers
  BY <1>1, <1>3 DEF CourseInv, ScopeInv
<1> QED BY <1>2, <1>3

-----------------------------------------------------------------------------
(* Vet mode against the driver.                                            *)

LEMMA SameRule ==
    ASSUME NEW d, NEW path, NEW set
    PROVE  dropByNarrowScope([site |-> d, note |-> d.call], path, set)
              <=> shouldDropByNarrowScope(d, path, set)
BY DEF dropByNarrowScope, shouldDropByNarrowScope

\* What vet mode reports was found in a unit of the run and passes the rule.
LEMMA VetShows ==
    ASSUME NoTestDirectory, CourseInv, VetInv, VetReport, NEW x \in shown'
    PROVE  \E u \in Running : /\ x \in Found(u.files, configYAML)
                              /\ ~shouldDropByNarrowScope(x, vetPackagePath(u.id), active)
                              /\ args.tests \/ ~isTestFileDiagnostic(x)
<1> DEFINE selected == selectVetReport(out, active, args.tests)
<1>1. /\ pc = "vet"
      /\ shown' = {d.site : d \in UNION {selected[id].diags : id \in DOMAIN selected}}
  BY DEF VetReport
<1>2. /\ DOMAIN selected \subseteq DOMAIN out
      /\ \A id \in DOMAIN selected : selected[id].diags = Kept(id)
  BY <1>1, Selection
<1> HIDE DEF selected
<1>3. PICK id \in DOMAIN out : \E d \in Kept(id) : x = d.site
  BY <1>1, <1>2
<1>4. PICK d \in Kept(id) : x = d.site
  BY <1>3
<1>5. PICK u \in Running : id = u.id /\ out[id] \in {Failure, Verdict(ToolDiagnostics(u))}
  BY <1>1 DEF VetInv
<1>6. d \in out[id].diags
  BY DEF Kept, keptVetDiagnostics
<1>7. d \in ToolDiagnostics(u)
  BY <1>5, <1>6 DEF Failure, Verdict
<1>8. PICK s \in Found(u.files, configYAML) : d = [site |-> s, note |-> s.call]
  BY <1>7 DEF ToolDiagnostics, ToolConfig, VetFlags
<1>9. x = s
  BY <1>4, <1>8
<1> QED BY <1>4, <1>5, <1>8, <1>9, SameRule DEF Kept, keptVetDiagnostics

\* A complete run of vet mode reports all of it.
LEMMA VetShowsAll ==
    ASSUME NoTestDirectory, CourseInv, VetInv, VetReport, exit' \in {0, 1},
           NEW u \in Running, NEW x \in Found(u.files, configYAML),
           ~shouldDropByNarrowScope(x, vetPackagePath(u.id), active),
           args.tests \/ ~isTestFileDiagnostic(x)
    PROVE  x \in shown'
<1> DEFINE selected == selectVetReport(out, active, args.tests)
           d == [site |-> x, note |-> x.call]
<1>1. /\ pc = "vet" /\ todo = {}
      /\ shown' = {e.site : e \in UNION {selected[id].diags : id \in DOMAIN selected}}
  BY DEF VetReport
<1>2. /\ DOMAIN selected = {id \in DOMAIN out : out[id].failed \/ Kept(id) # {}}
      /\ \A id \in DOMAIN selected : selected[id].diags = Kept(id)
  BY <1>1, Selection
<1> HIDE DEF selected
<1>3. u.id \in DOMAIN out /\ out[u.id] # Failure
  BY <1>1, VetReportClean DEF VetInv
<1>4. PICK v \in Running : u.id = v.id /\ out[u.id] = Verdict(ToolDiagnostics(v))
  BY <1>1, <1>3 DEF VetInv
<1>5. u = v
  BY <1>4, UnitIds DEF Running
<1>6. d \in out[u.id].diags
  BY <1>4, <1>5 DEF Verdict, ToolDiagnostics, ToolConfig, VetFlags
<1>7. d \in Kept(u.id)
  BY <1>6, SameRule DEF Kept, keptVetDiagnostics
<1>8. u.id \in DOMAIN selected /\ d \in selected[u.id].diags
  BY <1>2, <1>3, <1>7
<1> QED BY <1>1, <1>8

\* What a --with-callers run with -test is about leaves the external tests
\* alone: their diagnostics are in changed files, or at calls that do not
\* resolve to one.  For the others the driver, which asks for the path of the
\* external test package in the scope, and vet mode, which asks for the path of
\* the package, disagree.
ExternalTestsApart ==
    \A a \in Arguments : a.tests /\ a.callers /\ a.changed # {} =>
        \A p \in Paths : \A d \in Sites :
            d.file \in ExtTest[p] \ a.changed => d.call \in {"unknown"} \cup (Files \ a.changed)

\* The driver's verdict on d, and vet mode's.
InDriver(d, config) ==
    \E j \in Jobs(remaining \cap Paths, args.tests) : d \in DriverDiagnostics(j, config, active)
InVet(d, config) ==
    \E u \in Running : /\ d \in Found(u.files, config)
                       /\ ~shouldDropByNarrowScope(d, vetPackagePath(u.id), active)
                       /\ args.tests \/ ~isTestFileDiagnostic(d)

\* The rule treats an external test alike under both paths.
LEMMA ExternalRule ==
    ASSUME NoTestDirectory, ExternalTestsApart, CourseInv, pc \in Scoped, args.tests,
           NEW p \in Paths, NEW d \in Sites, d.file \in ExtTest[p]
    PROVE  shouldDropByNarrowScope(d, p, active) <=> shouldDropByNarrowScope(d, TestPath(p), active)
<1>1. TestPath(p) \notin active.CallerPackages \cup active.ChangedPackages
  BY ActiveSet, TestPaths
<1>2. CASE ~WithCallers
  BY <1>2, ActiveSet DEF shouldDropByNarrowScope
<1>3. CASE WithCallers
  <2>1. d.file \in args.changed \/ d.call \in {"unknown"} \cup (Files \ args.changed)
    BY <1>3 DEF ExternalTestsApart, WithCallers, CourseInv, AcceptedInv
  <2> QED BY <2>1, ActiveSet DEF shouldDropByNarrowScope
<1> QED BY <1>2, <1>3

LEMMA VetAsDriver ==
    ASSUME NoTestDirectory, ExternalTestsApart, CourseInv, pc \in Scoped,
           NEW config, NEW d \in Sites
    PROVE  InVet(d, config) <=> InDriver(d, config)
<1> DEFINE R == remaining \cap Paths
           Fires == code[Cause(d)] = "leaky" \/ (config \in Strict /\ d.call = "none")
           Passes(path) == ~shouldDropByNarrowScope(d, path, active)
<1>1. \A files : d \in Found(files, config) <=> d.file \in files /\ Fires
  BY DEF Found
<1>2. ASSUME ~args.tests PROVE InVet(d, config) <=> \E p \in R : d.file \in Src[p] /\ Fires /\ Passes(p)
  <2>1. ASSUME NEW p \in R, d.file \in Src[p], Fires, Passes(p) PROVE InVet(d, config)
    <3>1. [id |-> p, files |-> Src[p] \cup InTest[p]] \in Running
      BY DEF Running, Units
    <3>2. ~isTestFileDiagnostic(d)
      BY <2>1, ModuleAssumption DEF isTestFileDiagnostic
    <3>3. vetPackagePath(p) = p
      BY TestPaths
    <3> HIDE DEF Fires
    <3> QED BY <1>1, <2>1, <3>1, <3>2, <3>3 DEF InVet
  <2>2. ASSUME InVet(d, config) PROVE \E p \in R : d.file \in Src[p] /\ Fires /\ Passes(p)
    <3>1. PICK u \in Running : /\ d.file \in u.files /\ Fires /\ Passes(vetPackagePath(u.id))
                               /\ ~isTestFileDiagnostic(d)
      BY <1>1, <1>2, <2>2 DEF InVet
    <3>2. PICK p \in R : \/ u = [id |-> p, files |-> Src[p] \cup InTest[p]]
                         \/ u = [id |-> TestPath(p), files |-> ExtTest[p]]
      BY DEF Running, Units
    <3>3. d.file \notin InTest[p] \cup ExtTest[p]
      BY <3>1 DEF isTestFileDiagnostic
    <3>4. u = [id |-> p, files |-> Src[p] \cup InTest[p]] /\ d.file \in Src[p]
      BY <3>1, <3>2, <3>3
    <3>5. vetPackagePath(u.id) = p
      BY <3>4, TestPaths
    <3> QED BY <3>1, <3>4, <3>5
  <2> QED BY <2>1, <2>2
<1>3. ASSUME args.tests
      PROVE  InVet(d, config) <=>
                \E p \in R : /\ Fires
                             /\ \/ d.file \in Src[p] \cup InTest[p] /\ Passes(p)
                                \/ d.file \in ExtTest[p] /\ Passes(TestPath(p))
  <2>1. ASSUME NEW p \in R, d.file \in Src[p] \cup InTest[p], Fires, Passes(p)
        PROVE  InVet(d, config)
    <3>1. [id |-> p, files |-> Src[p] \cup InTest[p]] \in Running
      BY DEF Running, Units
    <3>2. vetPackagePath(p) = p
      BY TestPaths
    <3> HIDE DEF Fires
    <3> QED BY <1>1, <1>3, <2>1, <3>1, <3>2 DEF InVet
  <2>2. ASSUME NEW p \in R, d.file \in ExtTest[p], Fires, Passes(TestPath(p))
        PROVE  InVet(d, config)
    <3>1. [id |-> TestPath(p), files |-> ExtTest[p]] \in Running
      BY <2>2 DEF Running, Units
    <3>2. vetPackagePath(TestPath(p)) = p /\ Passes(p)
      BY <1>3, <2>2, TestPaths, ExternalRule
    <3> HIDE DEF Fires
    <3> QED BY <1>1, <1>3, <2>2, <3>1, <3>2 DEF InVet
  <2>3. ASSUME InVet(d, config)
        PROVE  \E p \in R : /\ Fires
                            /\ \/ d.file \in Src[p] \cup InTest[p] /\ Passes(p)
                               \/ d.file \in ExtTest[p] /\ Passes(TestPath(p))
    <3>1. PICK u \in Running : d.file \in u.files /\ Fires /\ Passes(vetPackagePath(u.id))
      BY <1>1, <2>3 DEF InVet
    <3>2. PICK p \in R : \/ u = [id |-> p, files |-> Src[p] \cup InTest[p]]
                         \/ u = [id |-> TestPath(p), files |-> ExtTest[p]]
      BY DEF Running, Units
    <3>3. vetPackagePath(u.id) = p
      BY <3>2, TestPaths
    <3>4. CASE u = [id |-> p, files |-> Src[p] \cup InTest[p]]
      BY <3>1, <3>3, <3>4
    <3>5. CASE u = [id |-> TestPath(p), files |-> ExtTest[p]]
      <4>1. d.file \in ExtTest[p] /\ Passes(p)
        BY <3>1, <3>3, <3>5
      <4> QED BY <1>3, <3>1, <4>1, ExternalRule
    <3> QED BY <3>2, <3>4, <3>5
  <2> QED BY <2>1, <2>2, <2>3
<1>4. InDriver(d, config) <=> \E j \in Jobs(R, args.tests) : d.file \in j.files /\ Fires /\ Passes(j.path)
  BY <1>1 DEF InDriver, DriverDiagnostics
<1> HIDE DEF Fires, Passes
<1>5. CASE ~args.tests
  <2>1. Jobs(R, args.tests) = {[path |-> p, files |-> Src[p]] : p \in R}
    BY <1>5 DEF Jobs
  <2> HIDE DEF R
  <2>2. InDriver(d, config) <=> \E p \in R : d.file \in Src[p] /\ Fires /\ Passes(p)
    <3>1. ASSUME NEW p \in R PROVE [path |-> p, files |-> Src[p]] \in Jobs(R, args.tests)
      BY <2>1
    <3>2. ASSUME NEW j \in Jobs(R, args.tests) PROVE \E p \in R : j = [path |-> p, files |-> Src[p]]
      BY <2>1
    <3>3. ASSUME NEW p \in R, d.file \in Src[p], Fires, Passes(p) PROVE InDriver(d, config)
      BY <1>4, <3>1, <3>3
    <3>4. ASSUME InDriver(d, config) PROVE \E p \in R : d.file \in Src[p] /\ Fires /\ Passes(p)
      BY <1>4, <3>2, <3>4
    <3> QED BY <3>3, <3>4
  <2> QED BY <1>2, <1>5, <2>2
<1>6. CASE args.tests
  <2> HIDE DEF R
  <2>1. ASSUME NEW p \in R
        PROVE  /\ [path |-> p, files |-> Src[p]] \in Jobs(R, args.tests)
               /\ InTest[p] # {} => [path |-> p, files |-> Src[p] \cup InTest[p]] \in Jobs(R, args.tests)
               /\ ExtTest[p] # {} => [path |-> TestPath(p), files |-> ExtTest[p]] \in Jobs(R, args.tests)
    BY <1>6 DEF Jobs
  <2>2. ASSUME NEW j \in Jobs(R, args.tests)
        PROVE  \E p \in R : \/ j = [path |-> p, files |-> Src[p]]
                            \/ j = [path |-> p, files |-> Src[p] \cup InTest[p]]
                            \/ j = [path |-> TestPath(p), files |-> ExtTest[p]]
    BY <1>6 DEF Jobs
  <2>3. ASSUME NEW p \in R, Fires, d.file \in Src[p] \cup InTest[p], Passes(p)
        PROVE  InDriver(d, config)
    <3>1. CASE d.file \in Src[p]
      BY <1>4, <2>1, <2>3, <3>1
    <3>2. CASE d.file \in InTest[p]
      BY <1>4, <2>1, <2>3, <3>2
    <3> QED BY <2>3, <3>1, <3>2
  <2>4. ASSUME NEW p \in R, Fires, d.file \in ExtTest[p], Passes(TestPath(p))
        PROVE  InDriver(d, config)
    BY <1>4, <2>1, <2>4
  <2>5. ASSUME InDriver(d, config)
        PROVE  \E p \in R : /\ Fires
                            /\ \/ d.file \in Src[p] \cup InTest[p] /\ Passes(p)
                               \/ d.file \in ExtTest[p] /\ Passes(TestPath(p))
    BY <1>4, <2>2, <2>5
  <2> QED BY <1>3, <1>6, <2>3, <2>4, <2>5
<1> QED BY <1>5, <1>6

\* VetReportsTheSame for one step, with the names of this section.
LEMMA VetReportIsDrivers ==
    ASSUME NoTestDirectory, ExternalTestsApart, CourseInv, VetInv, VetReport, exit' \in {0, 1}
    PROVE  shown' = UNION {DriverDiagnostics(j, configYAML, active) :
                              j \in Jobs(remaining \cap Paths, args.tests)}
<1>1. pc \in Scoped
  BY DEF VetReport, Scoped
<1>2. \A x \in shown' : x \in Sites /\ InVet(x, configYAML)
  <2> TAKE x \in shown'
  <2>1. InVet(x, configYAML)
    BY VetShows DEF InVet
  <2> QED BY <2>1 DEF InVet, Found
<1>3. \A x \in Sites : InVet(x, configYAML) => x \in shown'
  BY VetShowsAll DEF InVet
<1>4. \A x : InDriver(x, configYAML) => x \in Sites
  BY DEF InDriver, DriverDiagnostics, Found
<1>5. \A x \in Sites : InVet(x, configYAML) <=> InDriver(x, configYAML)
  BY <1>1, VetAsDriver
<1>6. \A x : x \in shown' <=> InDriver(x, configYAML)
  BY <1>2, <1>3, <1>4, <1>5
<1> QED BY <1>6 DEF InDriver

\* Vet mode reports what the driver reports, for every history of edits and
\* runs and whatever the cache of go vet holds.
THEOREM VetModeReportsTheSame ==
    ASSUME NoTestDirectory, ExternalTestsApart
    PROVE  Spec => []VetReportsTheSame
<1>1. Init => VetReportsTheSame
  BY DEF Init, VetReportsTheSame, VetRan
<1>2. ASSUME CourseInv, VetInv, VetReportsTheSame, [Next]_vars PROVE VetReportsTheSame'
  <2>1. CASE pc' # "exited"
    BY <2>1 DEF VetReportsTheSame, VetRan
  <2>2. CASE VetReport
    <3>1. UNCHANGED <<code, configYAML, active, remaining, args>>
      BY <2>2 DEF VetReport, world, scoping, vetting
    <3>2. ASSUME exit' \in {0, 1}
          PROVE  shown' = UNION {DriverDiagnostics(j, configYAML, active) :
                                    j \in Jobs(remaining \cap Paths, args.tests)}
      BY <1>2, <2>2, <3>2, VetReportIsDrivers
    <3>3. \A j : DriverDiagnostics(j, configYAML, active)' = DriverDiagnostics(j, configYAML, active)
      BY <3>1 DEF DriverDiagnostics, Found
    <3>4. Jobs(remaining \cap Paths, args.tests)' = Jobs(remaining \cap Paths, args.tests)
      BY <3>1
    <3> QED BY <3>1, <3>2, <3>3, <3>4 DEF VetReportsTheSame, VetRan
  <2>3. CASE Ends /\ ~VetReport
    <3>1. configYAML' = NoText \/ exit' \in {2, 3}
      BY <1>2, <2>3 DEF Ends, Exit, ParseHelp, ParseRefuses, ConfigRefused, ResolveCannotList,
         ResolveFails, ResolveNothing, LoadFails, AnalyzeFails, Analyze, VetConfigRefused,
         VetUnusable, vetting, CourseInv, FreshInv
    <3> QED BY <3>1 DEF VetReportsTheSame, VetRan
  <2>4. CASE pc = "exited" /\ UNCHANGED <<code, scoping, vetting, result>>
    <3>1. UNCHANGED <<code, configYAML, active, remaining, args, exit, shown>>
      BY <2>4 DEF scoping, vetting, result
    <3>2. \A j : DriverDiagnostics(j, configYAML, active)' = DriverDiagnostics(j, configYAML, active)
      BY <3>1 DEF DriverDiagnostics, Found
    <3> QED BY <1>2, <2>4, <3>1, <3>2 DEF VetReportsTheSame, VetRan
  <2> QED BY <1>2, <2>1, <2>2, <2>3, <2>4, ExitedBy
<1>3. CourseInv /\ VetInv /\ VetReportsTheSame /\ [Next]_vars => VetReportsTheSame'
  BY <1>2
<1>4. CourseInv /\ VetInv /\ CacheInv /\ DiskInv /\ [Next]_vars => VetInv' /\ CacheInv' /\ DiskInv'
  BY NextVet
<1> QED BY <1>1, <1>3, <1>4, InitCourse, NextCourse, InitVet, PTL DEF Spec

-----------------------------------------------------------------------------
(* Narrow runs.                                                            *)

\* The packages of the load under the path of a directory are that directory's:
\* its own files and its in-package test files, with what they import.
LEMMA ListedUnder ==
    ASSUME NoTestDirectory, NEW e \in LoadWithTests, e.path \in Paths
    PROVE  /\ e.files \subseteq Src[e.path] \cup InTest[e.path]
           /\ e.imports = UNION {Imports[f] : f \in e.files}
<1>1. CASE e \in {Listed(p, FALSE, Src[p]) : p \in Paths}
  BY <1>1 DEF Listed
<1>2. CASE e \in {Listed(p, TRUE, Src[p] \cup InTest[p]) : p \in {q \in Paths : InTest[q] # {}}}
  BY <1>2 DEF Listed
<1>3. CASE e \in {Listed(TestPath(p), TRUE, ExtTest[p]) : p \in {q \in Paths : ExtTest[q] # {}}}
  BY <1>3, TestPaths DEF Listed
<1>4. CASE e \in {[path |-> <<p[1], p[2], "binary">>, bracketed |-> FALSE, files |-> {},
                   imports |-> {p, TestPath(p)}] : p \in {q \in Paths : Tested(q)}}
  <2>1. PICK p \in Paths : e.path = <<p[1], p[2], "binary">>
    BY <1>4
  <2>2. e.path = <<e.path[1], e.path[2]>>
    BY ModuleAssumption
  <2>3. DOMAIN e.path = 1 .. 3 /\ DOMAIN e.path = 1 .. 2
    BY <2>1, <2>2
  <2>4. 3 \in 1 .. 3 /\ 3 \notin 1 .. 2
    OBVIOUS
  <2> QED BY <2>3, <2>4
<1> QED BY <1>1, <1>2, <1>3, <1>4 DEF LoadWithTests

Owns(p, changed) == (Src[p] \cup InTest[p]) \cap changed # {}

\* What the resolver publishes has to do with the change, and what has to do
\* with the change is published, unless the loader would not take it.
LEMMA ScopeIsTouched ==
    ASSUME NoTestDirectory, NEW changed, NEW excluded
    PROVE  LET scope == ResolveScopePackages(changed, excluded)
           IN  /\ \A p \in scope.Changed : Owns(p, changed)
               /\ \A p \in scope.Callers :
                     \E q \in Paths : /\ AllFiles(q) \cap changed # {}
                                      /\ \E f \in Src[p] \cup InTest[p] : q \in Imports[f]
<1> DEFINE owned == changedPackages(LoadWithTests, changed)
           candidates == reverseImportTraversal(LoadWithTests, owned)
           scope == ResolveScopePackages(changed, excluded)
<1>1. scope.Changed \subseteq owned \cap Paths /\ scope.Callers \subseteq candidates \cap Paths
  BY Loadable DEF ResolveScopePackages, filterPaths, identTextMatch
<1>2. ASSUME NEW p \in owned \cap Paths PROVE Owns(p, changed)
  <2>1. PICK e \in LoadWithTests : e.path = p /\ e.files \cap changed # {}
    BY DEF changedPackages
  <2> QED BY <2>1, ListedUnder DEF Owns
<1>3. ASSUME NEW p \in candidates \cap Paths
      PROVE  \E q \in Paths : /\ AllFiles(q) \cap changed # {}
                              /\ \E f \in Src[p] \cup InTest[p] : q \in Imports[f]
  <2>1. PICK e \in LoadWithTests : e.path = p /\ e.imports \cap owned # {}
    BY DEF reverseImportTraversal
  <2>2. PICK q \in owned : q \in e.imports
    BY <2>1
  <2>3. PICK f \in e.files : q \in Imports[f]
    BY <2>1, <2>2, ListedUnder
  <2>4. f \in Src[p] \cup InTest[p]
    BY <2>1, ListedUnder
  <2>5. f \in Files
    BY <2>4, ModuleAssumption
  <2>6. q \in Paths
    BY <2>3, <2>5, ModuleAssumption
  <2> QED BY <1>2, <2>3, <2>4, <2>6 DEF Owns, AllFiles
<1> QED BY <1>1, <1>2, <1>3

LEMMA PublishedScope ==
    ASSUME CourseInv, pc \in Scoped, WithCallers
    PROVE  LET scope == ResolveScopePackages(args.changed, ExcludedPaths)
           IN  /\ active.CallerPackages = scope.Callers /\ active.ChangedPackages = scope.Changed
               /\ remaining = scope.Changed \cup scope.Callers
BY DEF CourseInv, ScopeInv, scopePositionals

\* d has to do with the change: the second half of StaysNarrow.
Related(d) ==
    \/ d.file \in args.changed
    \/ d.call \in args.changed
    \/ /\ args.callers
       /\ \E p, q \in Paths : /\ d.file \in AllFiles(p)
                              /\ AllFiles(q) \cap args.changed # {}
                              /\ \E f \in AllFiles(p) : q \in Imports[f]

LEMMA KeptIsRelated ==
    ASSUME NoTestDirectory, CourseInv, pc \in Scoped, args.changed # {},
           NEW p \in Paths, NEW path \in {p, TestPath(p)}, NEW d \in Sites,
           d.file \in AllFiles(p), ~shouldDropByNarrowScope(d, path, active)
    PROVE  Related(d)
<1>1. CASE d.file \in args.changed
  BY <1>1 DEF Related
<1>2. CASE d.file \notin args.changed
  <2>1. /\ path \in active.CallerPackages \cup active.ChangedPackages
        /\ d.call = "none" => path \in active.CallerPackages
        /\ d.call # "unknown" /\ d.call \notin Files \ args.changed
    BY <1>2, ActiveSet DEF shouldDropByNarrowScope
  <2>2. path = p /\ WithCallers
    BY <2>1, ActiveSet, TestPaths
  <2>3. CASE d.call \in args.changed
    BY <2>3 DEF Related
  <2>4. CASE d.call = "none"
    <3>1. p \in ResolveScopePackages(args.changed, ExcludedPaths).Callers
      BY <2>1, <2>2, <2>4, PublishedScope
    <3>2. PICK q \in Paths : /\ AllFiles(q) \cap args.changed # {}
                             /\ \E f \in Src[p] \cup InTest[p] : q \in Imports[f]
      BY <3>1, ScopeIsTouched
    <3>3. \E f \in AllFiles(p) : q \in Imports[f]
      BY <3>2 DEF AllFiles
    <3> QED BY <2>2, <3>2, <3>3 DEF Related, WithCallers
  <2>5. d.call \in Files \cup {"none", "unknown"}
    BY SiteAssumption DEF SiteType
  <2> QED BY <2>1, <2>3, <2>4, <2>5
<1> QED BY <1>1, <1>2

LEMMA EndsNarrow ==
    ASSUME NoTestDirectory, CourseInv, VetInv, Ends, args.changed # {}, NEW d \in shown'
    PROVE  Related(d)
<1>1. CASE Analyze
  <2>1. pc \in Scoped
    BY <1>1 DEF Analyze, Scoped
  <2>2. PICK j \in Jobs(remaining \cap Paths, args.tests) : d \in DriverDiagnostics(j, override, active)
    BY <1>1 DEF Analyze
  <2>3. PICK p \in Paths : j.path \in {p, TestPath(p)} /\ j.files \subseteq AllFiles(p)
    <3>1. CASE args.tests
      BY <3>1 DEF Jobs, AllFiles
    <3>2. CASE ~args.tests
      BY <3>2 DEF Jobs, AllFiles
    <3> QED BY <3>1, <3>2
  <2>4. /\ d \in Sites /\ d.file \in AllFiles(p)
        /\ ~shouldDropByNarrowScope(d, j.path, active)
    BY <2>2, <2>3 DEF DriverDiagnostics, Found
  <2> QED BY <2>1, <2>3, <2>4, KeptIsRelated
<1>2. CASE VetReport
  <2>1. pc \in Scoped
    BY <1>2 DEF VetReport, Scoped
  <2>2. PICK u \in Running : /\ d \in Found(u.files, configYAML)
                             /\ ~shouldDropByNarrowScope(d, vetPackagePath(u.id), active)
    BY <1>2, VetShows
  <2>3. PICK p \in Paths : u.id \in {p, TestPath(p)} /\ u.files \subseteq AllFiles(p)
    BY DEF Running, Units, AllFiles
  <2>4. vetPackagePath(u.id) = p
    BY <2>3, TestPaths
  <2>5. d \in Sites /\ d.file \in AllFiles(p)
    BY <2>2, <2>3 DEF Found
  <2> QED BY <2>1, <2>2, <2>4, <2>5, KeptIsRelated
<1>3. CASE ~(Analyze \/ VetReport)
  <2>1. shown' = shown /\ shown = {}
    BY <1>3 DEF Ends, ParseHelp, ParseRefuses, ConfigRefused, ResolveCannotList, ResolveFails,
       ResolveNothing, LoadFails, AnalyzeFails, VetConfigRefused, VetUnusable,
       CourseInv, FreshInv, Parsed
  <2> QED BY <2>1
<1> QED BY <1>1, <1>2, <1>3

LEMMA ScopeStaysNarrow ==
    ASSUME NoTestDirectory, CourseInv, pc \in {"analyze", "vet"}, WithCallers,
           NEW p \in remaining
    PROVE  p \in Paths /\ Touched(p)
<1> DEFINE scope == ResolveScopePackages(args.changed, ExcludedPaths)
<1>1. p \in scope.Changed \cup scope.Callers
  BY PublishedScope DEF Scoped
<1>2. p \in Paths
  BY <1>1, ScopeInPaths
<1>3. CASE p \in scope.Changed
  <2>1. AllFiles(p) \cap args.changed # {}
    BY <1>3, ScopeIsTouched DEF Owns, AllFiles
  <2> QED BY <1>2, <2>1 DEF Touched
<1>4. CASE p \in scope.Callers
  <2>1. PICK q \in Paths : /\ AllFiles(q) \cap args.changed # {}
                           /\ \E f \in Src[p] \cup InTest[p] : q \in Imports[f]
    BY <1>4, ScopeIsTouched
  <2> QED BY <1>2, <2>1 DEF Touched, AllFiles
<1> QED BY <1>1, <1>2, <1>3, <1>4

\* A narrow run analyses and reports nothing that the change has nothing to do
\* with, on either path and whatever fails.
THEOREM NarrowRunsStayNarrow ==
    ASSUME NoTestDirectory
    PROVE  Spec => []StaysNarrow
<1> DEFINE ShownIsRelated ==
              pc = "exited" /\ args.changed # {} => \A d \in shown : Related(d)
<1>1. Init => ShownIsRelated
  BY DEF Init
<1>2. ASSUME CourseInv, VetInv, ShownIsRelated, [Next]_vars PROVE ShownIsRelated'
  <2>1. CASE pc' # "exited"
    BY <2>1
  <2>2. CASE Ends
    <3>1. args' = args
      BY <2>2 DEF Ends, ParseHelp, ParseRefuses, ConfigRefused, ResolveCannotList, ResolveFails,
         ResolveNothing, LoadFails, AnalyzeFails, Analyze, VetConfigRefused, VetUnusable,
         VetReport, scoping
    <3>2. ASSUME args.changed # {}, NEW d \in shown' PROVE Related(d)'
      BY <1>2, <2>2, <3>1, <3>2, EndsNarrow DEF Related
    <3> QED BY <3>1, <3>2
  <2>3. CASE pc = "exited" /\ UNCHANGED <<code, scoping, vetting, result>>
    BY <1>2, <2>3 DEF scoping, result, Related
  <2> QED BY <1>2, <2>1, <2>2, <2>3, ExitedBy
<1>3. CourseInv /\ VetInv /\ ShownIsRelated /\ [Next]_vars => ShownIsRelated'
  BY <1>2
<1>4. CourseInv /\ VetInv /\ CacheInv /\ DiskInv /\ [Next]_vars => VetInv' /\ CacheInv' /\ DiskInv'
  BY NextVet
<1>5. CourseInv /\ ShownIsRelated => StaysNarrow
  BY ScopeStaysNarrow DEF StaysNarrow, Related
<1> HIDE DEF ShownIsRelated
<1> QED BY <1>1, <1>3, <1>4, <1>5, InitCourse, NextCourse, InitVet, PTL DEF Spec

-----------------------------------------------------------------------------
(* What narrowing keeps.                                                   *)

\* The resolver names packages by the path the driver can load, so it drops an
\* external test package that owns a changed file, and the package of test
\* files alone: neither is part of such a run.
ExternalTestsUnchanged ==
    \A a \in Arguments : a.tests /\ a.callers => \A p \in Paths : ExtTest[p] \cap a.changed = {}

TestsHaveSources == \A p \in Paths : InTest[p] # {} => Src[p] # {}

\* A file of a package is in one of the packages of the load under its path.
LEMMA ListedWith ==
    ASSUME NEW p \in Paths, NEW f \in Src[p] \cup InTest[p]
    PROVE  \E e \in LoadWithTests : /\ e.path = p /\ f \in e.files
                                    /\ e.imports = UNION {Imports[g] : g \in e.files}
<1>1. CASE f \in Src[p]
  <2>1. Listed(p, FALSE, Src[p]) \in LoadWithTests
    BY DEF LoadWithTests
  <2> QED BY <1>1, <2>1 DEF Listed
<1>2. CASE f \in InTest[p]
  <2>1. Listed(p, TRUE, Src[p] \cup InTest[p]) \in LoadWithTests
    BY <1>2 DEF LoadWithTests
  <2> QED BY <1>2, <2>1 DEF Listed
<1> QED BY <1>1, <1>2

LEMMA ScopeIsComplete ==
    ASSUME NEW changed, NEW excluded, NEW p \in Paths \ excluded, Src[p] # {}
    PROVE  LET scope == ResolveScopePackages(changed, excluded)
           IN  /\ Owns(p, changed) => p \in scope.Changed
               /\ \A f \in Src[p] \cup InTest[p] : \A q \in Imports[f] : \A g \in Src[q] \cap changed :
                     q \in Paths /\ Mentions[f] \cap Declares[g] # {}
                        => p \in scope.Changed \cup scope.Callers
<1> DEFINE owned == changedPackages(LoadWithTests, changed)
           candidates == reverseImportTraversal(LoadWithTests, owned)
           idents == declaredIdents(changedGoFiles(LoadWithTests, changed))
           scope == ResolveScopePackages(changed, excluded)
<1>1. p \in owned => p \in scope.Changed
  BY Loadable DEF ResolveScopePackages, filterPaths
<1>2. p \in identTextMatch(LoadWithTests, candidates, idents) => p \in scope.Callers
  BY Loadable DEF ResolveScopePackages, filterPaths
<1> HIDE DEF scope
<1>3. ASSUME NEW q \in Paths, NEW g \in (Src[q] \cup InTest[q]) \cap changed
      PROVE  q \in owned /\ g \in changedGoFiles(LoadWithTests, changed)
  <2>1. PICK e \in LoadWithTests : e.path = q /\ g \in e.files
    BY ListedWith
  <2> QED BY <2>1 DEF changedPackages, changedGoFiles
<1>4. Owns(p, changed) => p \in scope.Changed
  BY <1>1, <1>3 DEF Owns
<1>5. ASSUME NEW f \in Src[p] \cup InTest[p], NEW q \in Imports[f], NEW g \in Src[q] \cap changed,
             q \in Paths, Mentions[f] \cap Declares[g] # {}
      PROVE  p \in scope.Changed \cup scope.Callers
  <2>1. q \in owned /\ g \in changedGoFiles(LoadWithTests, changed)
    BY <1>3, <1>5
  <2>2. PICK e \in LoadWithTests : /\ e.path = p /\ f \in e.files
                                   /\ e.imports = UNION {Imports[h] : h \in e.files}
    BY ListedWith
  <2>3. q \in e.imports
    BY <2>2
  <2>4. Mentions[f] \cap idents # {}
    BY <1>5, <2>1 DEF declaredIdents
  <2>5. p \notin owned => p \in candidates
    BY <2>1, <2>2, <2>3 DEF reverseImportTraversal
  <2> HIDE DEF owned, candidates, idents
  <2>6. p \in candidates => p \in identTextMatch(LoadWithTests, candidates, idents)
    BY <2>2, <2>4 DEF identTextMatch
  <2> QED BY <1>1, <1>2, <2>5, <2>6
<1> QED BY <1>4, <1>5 DEF scope

\* d is at a place the change can be seen from.
Concerned(d) == Cause(d) \in args.changed \/ d.file \in args.changed

LEMMA ConcernedInScope ==
    ASSUME ExternalTestsApart, ExternalTestsUnchanged, TestsHaveSources,
           args \in Arguments, WithCallers, args.changed \subseteq Files,
           NEW p \in Paths \ ExcludedPaths, NEW d \in Sites, d.file \in Analysed(p), Concerned(d)
    PROVE  LET scope == ResolveScopePackages(args.changed, ExcludedPaths)
           IN  /\ p \in scope.Changed \cup scope.Callers
               /\ d.file \in Src[p] \/ (args.tests /\ d.file \in InTest[p])
<1> DEFINE scope == ResolveScopePackages(args.changed, ExcludedPaths)
<1>1. d.file \in args.changed \/ (d.call \in Files /\ d.call \in args.changed)
  BY DEF Concerned, Cause
<1>2. ASSUME args.tests PROVE d.file \notin ExtTest[p]
  <2>1. ASSUME d.file \in ExtTest[p] PROVE FALSE
    <3>1. d.file \notin args.changed
      BY <1>2, <2>1 DEF ExternalTestsUnchanged, WithCallers
    <3>2. d.call \in {"unknown"} \cup (Files \ args.changed)
      BY <1>2, <2>1, <3>1 DEF ExternalTestsApart, WithCallers
    <3> QED BY <1>1, <3>1, <3>2, InputAssumption
  <2> QED BY <2>1
<1>3. d.file \in Src[p] \/ (args.tests /\ d.file \in InTest[p])
  BY <1>2 DEF Analysed
<1>4. Src[p] # {}
  BY <1>3 DEF TestsHaveSources
<1>5. CASE Owns(p, args.changed)
  BY <1>3, <1>4, <1>5, ScopeIsComplete
<1>6. CASE ~Owns(p, args.changed)
  <2>1. d.call \in args.changed /\ d.call \in Files /\ d.call \notin Src[p] \cup InTest[p]
    BY <1>1, <1>3, <1>6 DEF Owns
  <2>2. PICK q \in Imports[d.file] : d.call \in Src[q] /\ Spells(d)
    BY <1>3, <2>1, SiteAssumption
  <2>3. q \in Paths
    BY <1>3, <2>2, ModuleAssumption
  <2> QED BY <1>3, <1>4, <2>1, <2>2, <2>3, ScopeIsComplete DEF Spells
<1> QED BY <1>3, <1>5, <1>6

LEMMA ConcernedIsKept ==
    ASSUME ExternalTestsApart, ExternalTestsUnchanged, TestsHaveSources,
           CourseInv, pc \in Scoped, WithCallers, NEW config,
           NEW p \in Paths \ ExcludedPaths, NEW d \in Found(Analysed(p), config), Concerned(d)
    PROVE  InDriver(d, config)
<1>1. d \in Sites /\ d.file \in Analysed(p) /\ args \in Arguments
  BY DEF Found, CourseInv, AcceptedInv
<1>2. /\ p \in active.CallerPackages \cup active.ChangedPackages /\ p \in remaining
      /\ d.file \in Src[p] \/ (args.tests /\ d.file \in InTest[p])
  BY <1>1, ConcernedInScope, PublishedScope, ActiveSet
<1>3. ~shouldDropByNarrowScope(d, p, active)
  <2>1. CASE d.file \in args.changed
    BY <2>1, ActiveSet DEF shouldDropByNarrowScope
  <2>2. CASE d.file \notin args.changed
    <3>1. d.call \in args.changed /\ d.call \in Files
      BY <2>2 DEF Concerned, Cause
    <3>2. d.call # "none" /\ d.call # "unknown"
      BY <3>1, InputAssumption
    <3> QED BY <1>2, <3>1, <3>2, ActiveSet DEF shouldDropByNarrowScope
  <2> QED BY <2>1, <2>2
<1>4. PICK j \in Jobs(remaining \cap Paths, args.tests) : j.path = p /\ d.file \in j.files
  <2>1. CASE d.file \in Src[p]
    <3>1. [path |-> p, files |-> Src[p]] \in Jobs(remaining \cap Paths, args.tests)
      BY <1>2 DEF Jobs
    <3> QED BY <2>1, <3>1
  <2>2. CASE args.tests /\ d.file \in InTest[p]
    <3>1. [path |-> p, files |-> Src[p] \cup InTest[p]] \in Jobs(remaining \cap Paths, args.tests)
      BY <1>2, <2>2 DEF Jobs
    <3> QED BY <2>2, <3>1
  <2> QED BY <1>2, <2>1, <2>2
<1>5. d \in Found(j.files, config)
  BY <1>4 DEF Found
<1> QED BY <1>3, <1>4, <1>5 DEF InDriver, DriverDiagnostics

LEMMA EndsCovered ==
    ASSUME NoTestDirectory, ExternalTestsApart, ExternalTestsUnchanged, TestsHaveSources,
           CourseInv, VetInv, Ends, exit' \in {0, 1}, args.usage = "flags", WithCallers,
           code' = code,
           NEW p \in Paths \ ExcludedPaths, NEW d \in Found(Analysed(p), Policy'), Concerned(d)
    PROVE  d \in shown'
<1>1. CASE ResolveNothing
  <2>1. /\ pc = "resolve"
        /\ LET scope == ResolveScopePackages(args.changed, ExcludedPaths)
           IN  scope.Changed \cup scope.Callers = {}
    BY <1>1 DEF ResolveNothing, scopePositionals
  <2>2. args \in Arguments /\ args.changed \subseteq Files
    BY <2>1, InputAssumption DEF CourseInv, AcceptedInv, ArgumentType, Parsed
  <2>3. d \in Sites /\ d.file \in Analysed(p)
    BY DEF Found
  <2> QED BY <2>1, <2>2, <2>3, ConcernedInScope
<1>2. CASE Analyze
  <2>1. pc \in Scoped /\ Policy' = override
    BY <1>2 DEF Analyze, Scoped, scoping, vetting, Policy, CourseInv, FreshInv
  <2>2. InDriver(d, override)
    BY <2>1, ConcernedIsKept
  <2> DEFINE jobs == Jobs(remaining \cap Paths, args.tests)
  <2>3. PICK failed \in SUBSET jobs, elsewhere \in BOOLEAN :
           /\ shown' = UNION {DriverDiagnostics(j, override, active) : j \in jobs \ failed}
           /\ exit' = resolveExitCode(elsewhere \/ failed # {}, shown')
    BY <1>2 DEF Analyze, Exit
  <2>4. failed = {}
    BY <2>3 DEF resolveExitCode
  <2> QED BY <2>2, <2>3, <2>4 DEF InDriver
<1>3. CASE VetReport
  <2>1. pc \in Scoped /\ Policy' = configYAML
    BY <1>3 DEF VetReport, Scoped, scoping, vetting, Policy, VetInv
  <2>2. InDriver(d, configYAML)
    BY <2>1, ConcernedIsKept
  <2> QED BY <1>3, <2>2, VetReportIsDrivers DEF InDriver
<1>4. CASE Ends /\ ~(ResolveNothing \/ Analyze \/ VetReport)
  <2>1. exit' \in {2, 3} \/ args.usage = "help"
    BY <1>4 DEF Ends, Exit, ParseHelp, ParseRefuses, ConfigRefused, ResolveCannotList,
       ResolveFails, LoadFails, AnalyzeFails, VetConfigRefused, VetUnusable
  <2> QED BY <2>1
<1> QED BY <1>1, <1>2, <1>3, <1>4

\* A --with-callers run that completes reports everything in a changed file and
\* at every call of a function one declares, wherever the call is: whatever the
\* module, the resolver's text match and the narrowing silence none of it.
THEOREM ChangesAreCovered ==
    ASSUME NoTestDirectory, ExternalTestsApart, ExternalTestsUnchanged, TestsHaveSources
    PROVE  Spec => []ChangeIsCovered
<1> DEFINE Completed == pc = "exited" /\ exit \in {0, 1} /\ args.usage = "flags" /\ WithCallers
<1>1. Init => ChangeIsCovered
  BY DEF Init, ChangeIsCovered
<1>2. ASSUME CourseInv, VetInv, ChangeIsCovered, [Next]_vars PROVE ChangeIsCovered'
  <2>1. CASE pc' # "exited"
    BY <2>1 DEF ChangeIsCovered
  <2>2. CASE Ends
    <3>1. UNCHANGED <<code, args, override>>
      BY <2>2 DEF Ends, ParseHelp, ParseRefuses, ConfigRefused, ResolveCannotList, ResolveFails,
         ResolveNothing, LoadFails, AnalyzeFails, Analyze, VetConfigRefused, VetUnusable,
         VetReport, scoping, world
    <3>2. /\ ExcludedPaths' = ExcludedPaths /\ WithCallers' = WithCallers
          /\ \A p : Analysed(p)' = Analysed(p)
          /\ \A d : Concerned(d)' = Concerned(d)
      BY <3>1 DEF ExcludedPaths, WithCallers, Analysed, Concerned
    <3>3. \A p : Found(Analysed(p), Policy)' = Found(Analysed(p), Policy')
      BY <3>1, <3>2 DEF Found
    <3>4. ASSUME Completed', NEW p \in Paths \ ExcludedPaths,
                 NEW d \in Found(Analysed(p), Policy'), Concerned(d)
          PROVE  d \in shown'
      BY <1>2, <2>2, <3>1, <3>2, <3>4, EndsCovered
    <3> QED BY <3>2, <3>3, <3>4 DEF ChangeIsCovered, Concerned
  <2>3. CASE pc = "exited" /\ UNCHANGED <<code, scoping, vetting, result>>
    <3>1. UNCHANGED <<pc, code, args, override, configYAML, exit, shown>> \/ pc' # "exited"
      BY <2>3 DEF scoping, vetting, result
    <3>2. ASSUME UNCHANGED <<pc, code, args, override, configYAML, exit, shown>>
          PROVE  ChangeIsCovered'
      BY <1>2, <3>2 DEF ChangeIsCovered, WithCallers, ExcludedPaths, Found, Analysed, Policy, Cause
    <3> QED BY <2>1, <3>1, <3>2
  <2> QED BY <1>2, <2>1, <2>2, <2>3, ExitedBy
<1>3. CourseInv /\ VetInv /\ ChangeIsCovered /\ [Next]_vars => ChangeIsCovered'
  BY <1>2
<1>4. CourseInv /\ VetInv /\ CacheInv /\ DiskInv /\ [Next]_vars => VetInv' /\ CacheInv' /\ DiskInv'
  BY NextVet
<1> QED BY <1>1, <1>3, <1>4, InitCourse, NextCourse, InitVet, PTL DEF Spec
=============================================================================
