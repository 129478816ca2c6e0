------------------------------- MODULE VowRun -------------------------------
(***************************************************************************)
(* cmd/vow: one invocation of the vow binary after another, on a module    *)
(* whose sources and config file are edited between and during the runs.   *)
(* A run analyses the packages in its own process or, in vet mode, drives  *)
(* `go vet` with itself as the tool and filters the report afterwards.     *)
(* go vet answers from a cache that outlives the runs.                     *)
(***************************************************************************)
EXTENDS CallerResolver

CONSTANTS
    Arguments,   \* the command lines considered, see ArgumentType
    Repeated,    \* bound: those that other runs follow or precede
    NoSuchFile,  \* a --changed-files path that is not a Go file
    NoSuchPath,  \* a pattern that matches no package
    Configs,     \* config texts that parse
    Garbled,     \* a config text that does not
    Missing,     \* no file at the --config-file path
    NoConfig,    \* neither config flag: the per-directory walk decides
    Strict,      \* the configs that turn the declaration rule on
    Excluded,    \* [Configs -> SUBSET Paths], paths the caller knob drops
    Sites,       \* places a diagnostic can be reported at, see SiteType
    InitialCode, \* the sources before the first run
    NoText,      \* go vet has not been started
    MaxRuns,     \* bound: invocations
    MaxEdits     \* bound: edits of sources and of the config file

\* A command line after parsing: what the parser stopped at, and the flags.
ArgumentType ==
    [usage: {"flags", "help", "unknown"}, changed: SUBSET (Files \cup {NoSuchFile}),
     sawChanged: BOOLEAN, callers: BOOLEAN, file: BOOLEAN,
     yaml: Configs \cup {Garbled, NoConfig}, tests: BOOLEAN, vet: BOOLEAN,
     json: BOOLEAN, patterns: SUBSET (Paths \cup {NoSuchPath})]

\* A place in a file, and the call around it: none, one whose callee does not
\* resolve, or one whose callee is declared in a file.
SiteType == [file: Files, call: Files \cup {"none", "unknown"}]

AllFiles(p) == Src[p] \cup InTest[p] \cup ExtTest[p]

Spells(d) == Mentions[d.file] \cap Declares[d.call] # {}

\* The files of an import: the external test of a package gets the variant
\* with its test files.
SeenFrom(id, q) == IF id = TestPath(q) THEN Src[q] \cup InTest[q] ELSE Src[q]

ASSUME InputAssumption ==
    /\ Arguments \subseteq ArgumentType /\ Arguments # {}
    /\ Repeated \subseteq Arguments
    /\ InitialCode \subseteq [Files -> {"clean", "leaky"}]
    /\ {NoSuchFile, "none", "unknown"} \cap Files = {}
    /\ NoSuchPath \notin Paths
    /\ {Garbled, Missing, NoConfig} \cap Configs = {}
    /\ NoText \notin Configs \cup {Garbled, Missing, NoConfig}
    /\ Strict \subseteq Configs
    /\ Excluded \in [Configs -> SUBSET Paths]
    /\ MaxRuns \in Nat
    /\ MaxEdits \in Nat

\* What a call may name.  In another package: a declaration of its own files,
\* imported and spelt where the call is.  An external test also sees the test
\* files of the package it tests.
ASSUME SiteAssumption ==
    /\ Sites \subseteq SiteType
    /\ \A d \in Sites : \A p \in Paths : d.call \in Files =>
          /\ d.file \in Src[p] \cup InTest[p] =>
                \/ d.call \in Src[p] \cup InTest[p]
                \/ \E q \in Imports[d.file] : d.call \in Src[q] /\ Spells(d)
          /\ d.file \in ExtTest[p] =>
                \/ d.call \in ExtTest[p]
                \/ \E q \in Imports[d.file] : d.call \in SeenFrom(TestPath(p), q) /\ Spells(d)

VARIABLES
    disk,       \* the text at the --config-file path, or Missing
    code,       \* [Files -> {"clean", "leaky"}]
    cache,      \* go vet results by unit, sources and tool flags
    edits, runs,
    pc,         \* where main is
    args,       \* the command line
    override,   \* the config loadConfigOverride returned
    active,     \* the ChangedFileSet published by SetActive
    remaining,  \* package patterns
    configYAML, \* the config text runVetPipeline was called with
    todo,       \* units go vet has still to analyse
    out,        \* go vet's report: [unit id -> result], ids met so far
    vetErr,     \* go vet exits with an error
    incomplete, \* some package of the run was not analysed in full
    shown,      \* diagnostics reported
    doc,        \* a JSON document was printed
    exit        \* the exit code, valid once pc = "exited"

world == <<disk, code, cache, edits, runs>>
scoping == <<args, override, active, remaining>>
vetting == <<configYAML, todo, out, vetErr>>
result == <<incomplete, shown, doc, exit>>
vars == <<world, pc, scoping, vetting, result>>

NoChanges == [Files |-> {}, CallerPackages |-> {}, ChangedPackages |-> {}]
NoReport == [id \in {} |-> {}]

Init ==
    /\ disk \in Configs
    /\ code \in InitialCode
    /\ cache = {}
    /\ edits = 0 /\ runs = 0
    /\ pc = "idle"
    /\ args = CHOOSE a \in Arguments : TRUE
    /\ override = NoConfig /\ active = NoChanges /\ remaining = {}
    /\ configYAML = NoText /\ todo = {} /\ out = NoReport /\ vetErr = FALSE
    /\ incomplete = FALSE /\ shown = {} /\ doc = FALSE /\ exit = 0

Exit(status) == pc' = "exited" /\ exit' = status

-----------------------------------------------------------------------------
\* What the analysis reports for a set of files, and the two narrowing rules.

\* A diagnostic at a call depends on the callee's declaration, through a fact.
Cause(d) == IF d.call \in Files THEN d.call ELSE d.file

Found(files, config) ==
    {d \in Sites : /\ d.file \in files
                   /\ code[Cause(d)] = "leaky" \/ (config \in Strict /\ d.call = "none")}

\* The rule inside the analyzer, on the path of the pass.
shouldDropByNarrowScope(d, path, set) ==
    /\ set.Files # {}
    /\ d.file \notin set.Files
    /\ \/ path \notin set.CallerPackages \cup set.ChangedPackages
       \/ d.call = "none" /\ path \notin set.CallerPackages
       \/ d.call = "unknown"
       \/ d.call \in Files \ set.Files

\* What runs in the process: the packages named and, with -test, their
\* variants and external test packages.
Jobs(paths, tests) ==
    {[path |-> p, files |-> Src[p]] : p \in paths}
    \cup IF tests
         THEN {[path |-> p, files |-> Src[p] \cup InTest[p]] : p \in {q \in paths : InTest[q] # {}}}
              \cup {[path |-> TestPath(p), files |-> ExtTest[p]] :
                      p \in {q \in paths : ExtTest[q] # {}}}
         ELSE {}

DriverDiagnostics(job, config, set) ==
    {d \in Found(job.files, config) : ~shouldDropByNarrowScope(d, job.path, set)}

\* What go vet analyses: each package with its test files, and the external
\* test package under the package's path and "_test".
Units(paths) ==
    {[id |-> p, files |-> Src[p] \cup InTest[p]] : p \in paths}
    \cup {[id |-> TestPath(p), files |-> ExtTest[p]] : p \in {q \in paths : ExtTest[q] # {}}}

vetPackagePath(id) == IF id[2] > 0 THEN <<id[1], id[2] - 1>> ELSE id

isTestFileDiagnostic(d) == \E p \in Paths : d.file \in InTest[p] \cup ExtTest[p]

narrowPackages(set) ==
    IF set.Files = {} THEN {} ELSE set.ChangedPackages \cup set.CallerPackages

\* Defect: a diagnostic outside any call is kept wherever it is.
dropOnlyCalls(d, path, set) ==
    /\ set.Files # {}
    /\ d.site.file \notin set.Files
    /\ \/ path \notin set.CallerPackages \cup set.ChangedPackages
       \/ d.note = "unknown"
       \/ d.note \in Files \ set.Files

\* The rule outside the analyzer, on the annotation; no annotation, no drop.
dropByNarrowScope(d, path, set) ==
    /\ set.Files # {}
    /\ d.site.file \notin set.Files
    /\ \/ path \notin set.CallerPackages \cup set.ChangedPackages
       \/ d.note = "none" /\ path \notin set.CallerPackages
       \/ d.note = "unknown"
       \/ d.note \in Files \ set.Files

keptVetDiagnostics(diags, path, set, tests) ==
    {d \in diags : /\ tests \/ ~isTestFileDiagnostic(d.site)
                   /\ ~dropByNarrowScope(d, path, set)}

selectVetReport(report, set, tests) ==
    LET scope == narrowPackages(set)
        inScope == {id \in DOMAIN report : scope = {} \/ vetPackagePath(id) \in scope}
        kept == [id \in inScope |->
                   [failed |-> report[id].failed,
                    diags |-> keptVetDiagnostics(report[id].diags, vetPackagePath(id), set, tests)]]
    IN [id \in {id \in inScope : kept[id].failed \/ kept[id].diags # {}} |-> kept[id]]

-----------------------------------------------------------------------------
\* The world around the runs.

EditConfig(text) ==
    /\ edits < MaxEdits
    /\ text # disk
    /\ disk' = text /\ edits' = edits + 1
    /\ UNCHANGED <<code, cache, runs, pc, scoping, vetting, result>>

\* Between two runs, once the last one's report has been read.
EditSource(f) ==
    /\ pc \in {"idle", "exited"} /\ pc' = "idle"
    /\ edits < MaxEdits
    /\ code' = [code EXCEPT ![f] = IF @ = "clean" THEN "leaky" ELSE "clean"]
    /\ edits' = edits + 1
    /\ UNCHANGED <<disk, cache, runs, scoping, vetting, result>>

Invoke(a) ==
    /\ pc \in {"idle", "exited"}
    /\ runs < MaxRuns
    /\ runs > 0 => {args, a} \subseteq Repeated
    /\ runs' = runs + 1
    /\ pc' = "parse" /\ args' = a
    /\ override' = NoConfig /\ active' = NoChanges /\ remaining' = {}
    /\ configYAML' = NoText /\ todo' = {} /\ out' = NoReport /\ vetErr' = FALSE
    /\ incomplete' = FALSE /\ shown' = {} /\ doc' = FALSE /\ exit' = 0
    /\ UNCHANGED <<disk, code, cache, edits>>

-----------------------------------------------------------------------------
\* main, up to the choice of the path.

WellFormed(a) ==
    /\ a.usage = "flags"
    /\ a.callers => a.sawChanged
    /\ ~(a.file /\ a.yaml # NoConfig)

ParseHelp ==
    /\ pc = "parse"
    /\ args.usage = "help"
    /\ Exit(0)
    /\ UNCHANGED <<world, scoping, vetting, incomplete, shown, doc>>

\* parseDriverArgs or ValidateChangedFiles refuses the command line.
ParseRefuses ==
    /\ pc = "parse"
    /\ args.usage # "help"
    /\ ~WellFormed(args) \/ NoSuchFile \in args.changed
    /\ Exit(2)
    /\ UNCHANGED <<world, scoping, vetting, incomplete, shown, doc>>

ParseAccepts ==
    /\ pc = "parse"
    /\ WellFormed(args) /\ NoSuchFile \notin args.changed
    /\ pc' = "config"
    /\ UNCHANGED <<world, scoping, vetting, result>>

\* The config named by the flags, as it is when it is read.
ConfigText == IF args.file THEN disk ELSE args.yaml

ConfigRefused ==
    /\ pc = "config"
    /\ ConfigText \notin Configs \cup {NoConfig}
    /\ Exit(2)
    /\ UNCHANGED <<world, scoping, vetting, incomplete, shown, doc>>

\* SetActive and the whole-module fallback.
Start(set, patterns) ==
    /\ active' = set
    /\ remaining' = IF patterns = {} THEN Paths ELSE patterns
    /\ pc' = IF args.vet THEN "vetconfig" ELSE "load"

WithCallers == args.callers /\ args.changed # {}

LoadConfigOverride ==
    /\ pc = "config"
    /\ ConfigText \in Configs \cup {NoConfig}
    /\ override' = ConfigText
    /\ IF WithCallers
       THEN pc' = "resolve" /\ UNCHANGED <<active, remaining>>
       ELSE Start([Files |-> args.changed, CallerPackages |-> {}, ChangedPackages |-> {}],
                  args.patterns)
    /\ UNCHANGED <<world, args, vetting, result>>

ExcludedPaths == IF override \in Configs THEN Excluded[override] ELSE {}

\* The go command cannot list the packages.
ResolveCannotList ==
    /\ pc = "resolve"
    /\ Exit(2)
    /\ UNCHANGED <<world, scoping, vetting, incomplete, shown, doc>>

\* Load errors, a changed file that does not parse, an unreadable candidate.
ResolveFails ==
    /\ pc = "resolve"
    /\ Exit(3)
    /\ UNCHANGED <<world, scoping, vetting, incomplete, shown, doc>>

scopePositionals(scope) == scope.Changed \cup scope.Callers

ResolveNothing ==
    /\ pc = "resolve"
    /\ scopePositionals(ResolveScopePackages(args.changed, ExcludedPaths)) = {}
    /\ doc' = args.json
    /\ Exit(0)
    /\ UNCHANGED <<world, scoping, vetting, incomplete, shown>>

\* Defect: the packages that own the changed files are not published.
ResolveScopeCallersOnly ==
    /\ pc = "resolve"
    /\ LET scope == ResolveScopePackages(args.changed, ExcludedPaths)
       IN /\ scopePositionals(scope) # {}
          /\ Start([Files |-> args.changed, CallerPackages |-> scope.Callers,
                    ChangedPackages |-> {}], scopePositionals(scope))
    /\ UNCHANGED <<world, args, override, vetting, result>>

ResolveScope ==
    /\ pc = "resolve"
    /\ LET scope == ResolveScopePackages(args.changed, ExcludedPaths)
       IN /\ scopePositionals(scope) # {}
          /\ Start([Files |-> args.changed, CallerPackages |-> scope.Callers,
                    ChangedPackages |-> scope.Changed], scopePositionals(scope))
    /\ UNCHANGED <<world, args, override, vetting, result>>

-----------------------------------------------------------------------------
\* The path through the driver.

\* packages.Load fails, or matches nothing.
LoadFails ==
    /\ pc = "load"
    /\ Exit(2)
    /\ UNCHANGED <<world, scoping, vetting, incomplete, shown, doc>>

Load ==
    /\ pc = "load"
    /\ remaining \cap Paths # {}
    /\ pc' = "analyze"
    /\ UNCHANGED <<world, scoping, vetting, result>>

resolveExitCode(errors, diags) == IF errors THEN 3 ELSE IF diags # {} THEN 1 ELSE 0

\* driver.Run, or the printing of its result, fails as a whole.
AnalyzeFails ==
    /\ pc = "analyze"
    /\ Exit(3)
    /\ incomplete' = TRUE
    /\ UNCHANGED <<world, scoping, vetting, shown, doc>>

\* Some of the jobs may fail; so may a dependency or a load that left errors.
Analyze ==
    /\ pc = "analyze"
    /\ LET jobs == Jobs(remaining \cap Paths, args.tests)
       IN \E failed \in SUBSET jobs, elsewhere \in BOOLEAN :
             /\ shown' = UNION {DriverDiagnostics(j, override, active) : j \in jobs \ failed}
             /\ incomplete' = (elsewhere \/ failed # {})
             /\ Exit(resolveExitCode(elsewhere \/ failed # {}, shown'))
    /\ doc' = args.json
    /\ UNCHANGED <<world, scoping, vetting>>

-----------------------------------------------------------------------------
\* The path through go vet.

\* Defect: the text stays out of the flags.
VetFlagsAnnotateOnly(text) == [config |-> NoConfig, annotate |-> TRUE]

VetFlags(text) == [config |-> text, annotate |-> TRUE]

\* vetConfigYAML reads the file a second time.
VetConfigRefused ==
    /\ pc = "vetconfig"
    /\ ConfigText \in {NoConfig, Missing}
    /\ Exit(2)
    /\ UNCHANGED <<world, scoping, vetting, incomplete, shown, doc>>

VetStart ==
    /\ pc = "vetconfig"
    /\ ConfigText \notin {NoConfig, Missing}
    /\ configYAML' = ConfigText
    /\ todo' = Units(remaining \cap Paths)
    /\ vetErr' = (remaining \cap Paths = {})
    /\ pc' = "vet"
    /\ UNCHANGED <<world, scoping, out, result>>

\* The sources a unit's result depends on: its own and those it imports.
Inputs(u) ==
    u.files \cup UNION {SeenFrom(u.id, q) : q \in UNION {Imports[f] : f \in u.files}}

CacheKey(u) == [unit |-> u, code |-> [f \in Inputs(u) |-> code[f]], flags |-> VetFlags(configYAML)]

\* parseVetReport: a later result under the same id replaces the earlier one.
Report(u, r) ==
    out' = [id \in DOMAIN out \cup {u.id} |-> IF id = u.id THEN r ELSE out[id]]

VetUnitCached(u) ==
    /\ pc = "vet" /\ u \in todo
    /\ \E entry \in cache :
          /\ entry.key = CacheKey(u)
          /\ Report(u, entry.result)
          /\ incomplete' = (incomplete \/ entry.result.failed)
    /\ todo' = todo \ {u}
    /\ UNCHANGED <<world, pc, scoping, configYAML, vetErr, shown, doc, exit>>

\* The config the tool decodes from its flag.
ToolConfig == VetFlags(configYAML).config

\* vowReport in the tool: the scope is not known there, its inputs are.
ToolDiagnostics(u) ==
    {[site |-> d, note |-> IF VetFlags(configYAML).annotate THEN d.call ELSE "missing"] :
        d \in Found(u.files, ToolConfig)}

\* The go command keeps what a tool that ended normally reported.
Finish(u, r) ==
    /\ Report(u, r)
    /\ cache' = cache \cup {[key |-> CacheKey(u), result |-> r]}

RunVettool(u) ==
    /\ pc = "vet" /\ u \in todo
    /\ \A entry \in cache : entry.key # CacheKey(u)
    /\ ToolConfig \in Configs \cup {NoConfig}
    /\ Finish(u, [failed |-> FALSE, diags |-> ToolDiagnostics(u)])
    /\ todo' = todo \ {u}
    /\ UNCHANGED <<disk, code, edits, runs, pc, scoping, configYAML, vetErr, result>>

\* The tool refuses its flags or dies, or the unit does not compile.
VetUnitFails(u) ==
    /\ pc = "vet" /\ u \in todo
    /\ \A entry \in cache : entry.key # CacheKey(u)
    /\ vetErr' = TRUE /\ incomplete' = TRUE
    /\ todo' = todo \ {u}
    /\ UNCHANGED <<world, pc, scoping, configYAML, out, shown, doc, exit>>

\* The analyzer returns an error, which the tool reports in its output.
VetUnitErrs(u) ==
    /\ pc = "vet" /\ u \in todo
    /\ \A entry \in cache : entry.key # CacheKey(u)
    /\ ToolConfig \in Configs \cup {NoConfig}
    /\ Finish(u, [failed |-> TRUE, diags |-> {}])
    /\ incomplete' = TRUE
    /\ todo' = todo \ {u}
    /\ UNCHANGED <<disk, code, edits, runs, pc, scoping, configYAML, vetErr, shown, doc, exit>>

\* The binary is not found, or the report cannot be decoded.
VetUnusable ==
    /\ pc = "vet"
    /\ todo = {} \/ todo = Units(remaining \cap Paths)
    /\ Exit(3)
    /\ incomplete' = TRUE
    /\ UNCHANGED <<world, scoping, vetting, shown, doc>>

\* Defect: a failed go vet only matters when it reported nothing.
vetExitCodePartial(selected, failedRun) ==
    IF \E id \in DOMAIN selected : selected[id].failed THEN 3
    ELSE IF \E id \in DOMAIN selected : selected[id].diags # {} THEN 1
    ELSE IF failedRun THEN 3 ELSE 0

vetExitCode(selected, failedRun) ==
    IF failedRun \/ \E id \in DOMAIN selected : selected[id].failed THEN 3
    ELSE IF \E id \in DOMAIN selected : selected[id].diags # {} THEN 1 ELSE 0

\* Defect: the exit code is taken from the report before the selection.
VetReportCountsAll ==
    /\ pc = "vet"
    /\ todo = {}
    /\ LET selected == selectVetReport(out, active, args.tests)
       IN shown' = {d.site : d \in UNION {selected[id].diags : id \in DOMAIN selected}}
    /\ Exit(vetExitCode(out, vetErr))
    /\ doc' = args.json
    /\ UNCHANGED <<world, scoping, vetting, incomplete>>

VetReport ==
    /\ pc = "vet"
    /\ todo = {}
    /\ LET selected == selectVetReport(out, active, args.tests)
       IN /\ shown' = {d.site : d \in UNION {selected[id].diags : id \in DOMAIN selected}}
          /\ Exit(vetExitCode(selected, vetErr))
    /\ doc' = args.json
    /\ UNCHANGED <<world, scoping, vetting, incomplete>>

-----------------------------------------------------------------------------
RunStep ==
    \/ ParseHelp \/ ParseRefuses \/ ParseAccepts
    \/ ConfigRefused \/ LoadConfigOverride
    \/ ResolveCannotList \/ ResolveFails \/ ResolveNothing \/ ResolveScope
    \/ LoadFails \/ Load \/ AnalyzeFails \/ Analyze
    \/ VetConfigRefused \/ VetStart \/ VetUnusable \/ VetReport
    \/ \E u \in todo : VetUnitCached(u) \/ RunVettool(u) \/ VetUnitFails(u) \/ VetUnitErrs(u)

Next ==
    \/ RunStep
    \/ \E a \in Arguments : Invoke(a)
    \/ \E text \in Configs \cup {Garbled, Missing} : EditConfig(text)
    \/ \E f \in Files : EditSource(f)

Spec == Init /\ [][Next]_vars

-----------------------------------------------------------------------------
ChangeSetType ==
    [Files: SUBSET Files, CallerPackages: SUBSET Paths, ChangedPackages: SUBSET Paths]

TypeOK ==
    /\ disk \in Configs \cup {Garbled, Missing}
    /\ code \in [Files -> {"clean", "leaky"}]
    /\ edits \in 0 .. MaxEdits /\ runs \in 0 .. MaxRuns
    /\ pc \in {"idle", "parse", "config", "resolve", "load", "analyze",
               "vetconfig", "vet", "exited"}
    /\ args \in Arguments
    /\ override \in Configs \cup {NoConfig}
    /\ active \in ChangeSetType
    /\ remaining \subseteq Paths \cup {NoSuchPath}
    /\ shown \subseteq Sites
    /\ vetErr \in BOOLEAN /\ incomplete \in BOOLEAN /\ doc \in BOOLEAN
    /\ exit \in 0 .. 3

\* A run that exits 0 or 1 after starting an analysis analysed every package it
\* was asked about: a failure outranks diagnostics on both paths, whichever
\* unit fails and whether the result was cached.  (exitFailure)
CleanExitIsComplete == pc = "exited" /\ exit \in {0, 1} => ~incomplete

\* Exit code 1 says that something was reported, 0 and 2 that nothing was, and
\* 2 that no package was analysed.  With -json there is one document whenever the
\* run came to a verdict, and none when it stopped before analysing.  (the exit
\* codes of main.go, docs/cli.md; jsonReport's call sites)
ExitTellsReport ==
    pc = "exited" =>
        /\ exit = 1 => shown # {}
        /\ exit \in {0, 2} => shown = {}
        /\ exit = 2 => ~incomplete /\ out = NoReport /\ ~doc
        /\ doc => args.json
        /\ exit \in {0, 1} /\ args.json /\ args.usage # "help" => doc

VetRan == pc = "exited" /\ configYAML # NoText /\ exit \in {0, 1}

\* Vet mode reports what the driver would report for the sources and the config
\* of this run, although it narrows after the analysis and go vet may answer
\* from runs with other sources, another config or another changed-file set.
VetReportsTheSame ==
    VetRan =>
        shown = UNION {DriverDiagnostics(j, configYAML, active) :
                          j \in Jobs(remaining \cap Paths, args.tests)}

\* The config the analysis ran under.
Policy == IF configYAML # NoText THEN configYAML ELSE override

Analysed(p) == Src[p] \cup IF args.tests THEN InTest[p] \cup ExtTest[p] ELSE {}

\* A --with-callers run that completes reports every diagnostic in a changed
\* file and every one at a call of a function a changed file declares, wherever
\* the call is: neither the resolver nor the narrowing silences one.
ChangeIsCovered ==
    (pc = "exited" /\ exit \in {0, 1} /\ args.usage = "flags" /\ WithCallers) =>
        \A p \in Paths \ ExcludedPaths : \A d \in Found(Analysed(p), Policy) :
            Cause(d) \in args.changed \/ d.file \in args.changed => d \in shown

\* p owns a changed file, or one of its files imports a package that does.
Touched(p) ==
    \E q \in Paths : /\ AllFiles(q) \cap args.changed # {}
                     /\ p = q \/ \E f \in AllFiles(p) : q \in Imports[f]

\* A narrow run stays narrow.  With --with-callers it analyses packages that own a
\* changed file or import one that does, and never falls back to the package
\* arguments or the module; and it reports nothing that the change cannot have to
\* do with: a diagnostic is in a changed file, calls into one, or is in a package
\* that imports the package of one.
StaysNarrow ==
    /\ pc \in {"analyze", "vet"} /\ WithCallers =>
          \A p \in remaining : p \in Paths /\ Touched(p)
    /\ pc = "exited" /\ args.changed # {} =>
          \A d \in shown :
             \/ d.file \in args.changed
             \/ d.call \in args.changed
             \/ /\ args.callers
                /\ \E p, q \in Paths : /\ d.file \in AllFiles(p)
                                       /\ AllFiles(q) \cap args.changed # {}
                                       /\ \E f \in AllFiles(p) : q \in Imports[f]
=============================================================================
