----------------------------- MODULE PassState -----------------------------
(***************************************************************************)
(* One analyzer pass over one package, internal/analysis: runFunc's        *)
(* phases, passState's lazily built sets behind one mutex that is not      *)
(* reentrant, and vowReport's filter chain, which asks for those sets      *)
(* again.  A builder that reports is so called from a report and reports   *)
(* in turn; "stack" holds the calls that have not returned.                *)
(*                                                                         *)
(* A position is a line number: a function covers the lines from FirstLine *)
(* to LastLine, and line FirstLine[f] stands for fn.Pos().                 *)
(***************************************************************************)
EXTENDS Naturals, Sequences

CONSTANTS
    Funcs,         \* the declared functions
    FirstLine,     \* [Funcs -> lines]
    LastLine,      \* [Funcs -> lines]
    StmtLines,     \* the lines a statement starts on
    PackageLines,  \* sequence of lines: the package clause of each file
    Subjects,      \* names of sentinel variables
    NoFunc,        \* a comment that is no function's doc comment
    Packages       \* the packages considered, see PackageType

Lines == Nat \ {0}

\* The call around a position: none, one whose callee is no identifier with
\* an object, or one of a function.
Places == Funcs \cup {"none", "opaque"}

\* A vow comment.  form: accepted; malformed; with a scope that does not
\* resolve; with one that does, which other checks read; or spelled with a
\* colon after the marker.
MarkerType ==
    [kind: {"suppress", "use", "import", "discharged", "emit", "nil", "fieldnil"},
     form: {"ok", "bad", "badscope", "scoped", "colon"},
     fn: Funcs \cup {NoFunc}, line: Lines, call: Places, names: SUBSET Subjects]

\* What a check finds.
FindingType ==
    [category: {"", "must-consume", "nil-safety", "nil-decl"},
     subject: Subjects \cup {""}, line: Lines, call: Places]

\* hidden: the lines shouldDropByNarrowScope drops, none under AnnotateNarrow.
PackageType ==
    [markers: SUBSET MarkerType, findings: SUBSET FindingType,
     hidden: SUBSET Lines, configError: BOOLEAN]

ASSUME PackageAssumption ==
    /\ FirstLine \in [Funcs -> Lines] /\ LastLine \in [Funcs -> Lines]
    /\ \A f \in Funcs : FirstLine[f] <= LastLine[f]
    /\ StmtLines \subseteq Lines
    /\ PackageLines \in Seq(Lines) /\ PackageLines # << >>
    /\ NoFunc \notin Funcs
    /\ "" \notin Subjects
    /\ {"none", "opaque"} \cap Funcs = {}
    /\ \A p \in Packages :
          /\ p.markers \subseteq MarkerType
          /\ p.findings \subseteq FindingType
          /\ p.hidden \subseteq Lines
          /\ p.configError \in BOOLEAN

-----------------------------------------------------------------------------
\* The lazily built sets.  "quiet" stands for the ones whose builder neither
\* reports nor asks: useSet, labelledSubjects, closableTypeSet, annotation,
\* parentMap and nilDeclCompletenessRequired.
Sets == {"scope", "discharged", "emit", "quiet",
         "nilDecl", "fieldNil", "logical", "transducers"}

\* Defect: nilDeclSet is built the way dischargedSet is.
HoldsLockMore == {"scope", "discharged", "emit", "quiet", "nilDecl"}

\* Built with the mutex held; the others are built between two locked sections.
HoldsLock == {"scope", "discharged", "emit", "quiet"}

\* The sets a builder asks for.
Reads(s) == IF s = "logical" THEN {"scope", "quiet"} ELSE {}

VARIABLES
    pkg,       \* the package
    phase,     \* where runFunc is
    work,      \* markers or findings the phase has still to look at
    asked,     \* how many of Exports the "export" phase has asked for
    stack,     \* calls of getters and of vowReport that have not returned
    mu,        \* the mutex is held
    built,     \* the sets with a set "built" flag
    suppressedFuncs, suppressedLines,
    usedFuncs, usedLines,   \* pairs of a function or line and a subject
    reported   \* sequence of diagnostics passed to pass.Report

marks == <<suppressedFuncs, suppressedLines, usedFuncs, usedLines>>
vars == <<pkg, phase, work, asked, stack, mu, built, marks, reported>>

MarkersOf(kind) == {m \in pkg.markers : m.kind = kind}

-----------------------------------------------------------------------------
\* Diagnostics.  "about" tells apart what is reported at one place.

Diagnostic(about, category, subject, line, call) ==
    [about |-> about, category |-> category, subject |-> subject, line |-> line, call |-> call]

Comment(m) == <<"comment", {m}>>

AtFunc(m, category) == Diagnostic(Comment(m), category, "", FirstLine[m.fn], "none")

\* enclosingFuncDeclAt
Enclosing(line) == {f \in Funcs : line \in FirstLine[f] .. LastLine[f]}

\* A malformed suppress or use comment: at the function it documents or is in,
\* an unresolved scope at the comment itself.
MarkerReport(m) ==
    IF m.fn \in Funcs THEN AtFunc(m, "")
    ELSE IF m.form # "badscope" /\ Enclosing(m.line) # {}
         THEN Diagnostic(Comment(m), "", "", FirstLine[CHOOSE f \in Enclosing(m.line) : TRUE], "none")
         ELSE Diagnostic(Comment(m), "", "", m.line, m.call)

FindingReport(d) == Diagnostic(<<"check", {}>>, d.category, d.subject, d.line, d.call)

\* docCarriesMarker and dischargedDocIsBare, on all lines of f's doc comment.
DischargedForms(f) == {m.form : m \in {m \in MarkersOf("discharged") : m.fn = f}}
Carries(f) == DischargedForms(f) \cap {"ok", "bad"} # {}
Bare(f) == DischargedForms(f) \subseteq {"ok"}

dischargedFuncs == {f \in Funcs : Carries(f) /\ Bare(f)}

DischargedReport(f) == Diagnostic(<<"discharged", {f}>>, "", "", FirstLine[f], "none")

\* What building a set reports.  Import comments precede the package clause
\* and so are outside any call; the two nil builders read declarations only.
ScopeReports ==
    {Diagnostic(Comment(m), "", "", m.line, "none") :
        m \in {m \in MarkersOf("import") : m.form = "bad"}}

DischargedReports == {DischargedReport(f) : f \in {f \in Funcs : Carries(f) /\ ~Bare(f)}}

EmitReports ==
    {AtFunc(m, "") : m \in {m \in MarkersOf("emit") : m.form \in {"bad", "badscope"}}}

NilDeclReports ==
    {IF m.fn \in Funcs THEN AtFunc(m, "nil-safety")
     ELSE Diagnostic(Comment(m), "nil-safety", "", m.line, "none") :
        m \in {m \in MarkersOf("nil") : m.form = "bad"}}

FieldNilReports ==
    {Diagnostic(Comment(m), "nil-safety", "", m.line, "none") :
        m \in {m \in MarkersOf("fieldnil") : m.form = "bad"}}

BuildReports(s) ==
    CASE s = "scope" -> ScopeReports
      [] s = "discharged" -> DischargedReports
      [] s = "emit" -> EmitReports
      [] s = "nilDecl" -> NilDeclReports
      [] s = "fieldNil" -> FieldNilReports
      [] OTHER -> {}

-----------------------------------------------------------------------------
\* Calls.

NoDiagnostic == Diagnostic(<<"nothing", {}>>, "", "", 1, "none")

Getting(s) ==
    [op |-> "get", at |-> "lock", set |-> s, reads |-> Reads(s),
     todo |-> BuildReports(s), diag |-> NoDiagnostic]

Reporting(d) ==
    [op |-> "report", at |-> "narrow", set |-> "none", reads |-> {}, todo |-> {}, diag |-> d]

Top == stack[Len(stack)]
Lower == SubSeq(stack, 1, Len(stack) - 1)
Push(call) == stack' = Append(stack, call)
Return == stack' = Lower

\* The innermost call goes on with f and, above it, calls.
Continue(f, calls) == stack' = Append(Lower, f) \o calls

Init ==
    /\ pkg \in Packages
    /\ phase = "config"
    /\ work = {} /\ asked = 0
    /\ stack = << >>
    /\ mu = FALSE /\ built = {}
    /\ suppressedFuncs = {} /\ suppressedLines = {}
    /\ usedFuncs = {} /\ usedLines = {}
    /\ reported = << >>

-----------------------------------------------------------------------------
\* runFunc.

\* Defect: the markers are looked for after the declarations.
PhasesLate == <<"config", "export", "suppress", "use", "checks", "done">>

Phases == <<"config", "suppress", "use", "export", "checks", "done">>

PhaseAfter(p) == Phases[(CHOOSE i \in DOMAIN Phases : Phases[i] = p) + 1]

WorkOf(p) ==
    CASE p \in {"suppress", "use"} -> MarkersOf(p)
      [] p = "checks" -> pkg.findings
      [] OTHER -> {}

GoOn == phase' = PhaseAfter(phase) /\ work' = WorkOf(PhaseAfter(phase))

Visible(line) == line \notin pkg.hidden

\* reportConfigError: at the first package clause the narrow scope keeps.
ConfigLine ==
    IF \E i \in DOMAIN PackageLines : Visible(PackageLines[i])
    THEN PackageLines[CHOOSE i \in DOMAIN PackageLines :
            /\ Visible(PackageLines[i])
            /\ \A k \in 1 .. (i - 1) : ~Visible(PackageLines[k])]
    ELSE PackageLines[1]

ConfigReport == Diagnostic(<<"config", {}>>, "", "", ConfigLine, "none")

ReportConfigError ==
    /\ phase = "config" /\ stack = << >>
    /\ stack' = IF pkg.configError THEN <<Reporting(ConfigReport)>> ELSE << >>
    /\ GoOn
    /\ UNCHANGED <<pkg, asked, mu, built, marks, reported>>

\* The statement line a comment is about, if any.
resolveSuppressLine(line) ==
    IF line \in StmtLines THEN {line} ELSE IF line + 1 \in StmtLines THEN {line + 1} ELSE {}

\* An accepted vow:suppress.
MarkSuppressed(m) ==
    /\ phase = "suppress" /\ stack = << >>
    /\ m \in work /\ m.form = "ok" /\ ~mu
    /\ work' = work \ {m}
    /\ IF m.fn \in Funcs
       THEN suppressedFuncs' = suppressedFuncs \cup {m.fn} /\ UNCHANGED suppressedLines
       ELSE suppressedLines' = suppressedLines \cup resolveSuppressLine(m.line)
            /\ UNCHANGED suppressedFuncs
    /\ UNCHANGED <<pkg, phase, asked, stack, mu, built, usedFuncs, usedLines, reported>>

\* An accepted vow:use without a scope.
MarkUseAsserted(m) ==
    /\ phase = "use" /\ stack = << >>
    /\ m \in work /\ m.form = "ok" /\ ~mu
    /\ work' = work \ {m}
    /\ IF m.fn \in Funcs
       THEN usedFuncs' = usedFuncs \cup ({m.fn} \X m.names) /\ UNCHANGED usedLines
       ELSE usedLines' = usedLines \cup (resolveSuppressLine(m.line) \X m.names)
            /\ UNCHANGED usedFuncs
    /\ UNCHANGED <<pkg, phase, asked, stack, mu, built, suppressedFuncs, suppressedLines, reported>>

\* A malformed one is reported and not registered; a scoped one is left alone.
RejectMarker(m) ==
    /\ phase \in {"suppress", "use"} /\ stack = << >>
    /\ m \in work /\ m.form # "ok"
    /\ work' = work \ {m}
    /\ stack' = IF m.form = "scoped" THEN << >> ELSE <<Reporting(MarkerReport(m))>>
    /\ UNCHANGED <<pkg, phase, asked, mu, built, marks, reported>>

\* What runFunc asks for before the checks, in this order.
Exports == <<"nilDecl", "fieldNil", "logical", "transducers", "nilDecl">>

AskExport ==
    /\ phase = "export" /\ stack = << >>
    /\ asked < Len(Exports)
    /\ asked' = asked + 1
    /\ stack' = <<Getting(Exports[asked + 1])>>
    /\ UNCHANGED <<pkg, phase, work, mu, built, marks, reported>>

\* The checks ask for the sets in an order that depends on the package; for
\* the built ones there is nothing to wait for.
AskInCheck(s) ==
    /\ phase = "checks" /\ stack = << >>
    /\ s \notin built
    /\ stack' = <<Getting(s)>>
    /\ UNCHANGED <<pkg, phase, work, asked, mu, built, marks, reported>>

ReportFinding(d) ==
    /\ phase = "checks" /\ stack = << >>
    /\ d \in work
    /\ work' = work \ {d}
    /\ stack' = <<Reporting(FindingReport(d))>>
    /\ UNCHANGED <<pkg, phase, asked, mu, built, marks, reported>>

\* The sets some check asks for in every package.
AlwaysAsked == {"scope", "emit", "quiet"}

NextPhase ==
    /\ phase \in {"suppress", "use", "export", "checks"} /\ stack = << >>
    /\ work = {}
    /\ phase = "export" => asked = Len(Exports)
    /\ phase = "checks" => AlwaysAsked \subseteq built
    /\ GoOn
    /\ UNCHANGED <<pkg, asked, stack, mu, built, marks, reported>>

-----------------------------------------------------------------------------
\* A getter.

IsGetting(at) == stack # << >> /\ Top.op = "get" /\ Top.at = at

GetCached ==
    /\ IsGetting("lock") /\ ~mu
    /\ Top.set \in built
    /\ Return
    /\ UNCHANGED <<pkg, phase, work, asked, mu, built, marks, reported>>

GetStartsBuild ==
    /\ IsGetting("lock") /\ ~mu
    /\ Top.set \notin built
    /\ mu' = (Top.set \in HoldsLock)
    /\ Continue([Top EXCEPT !.at = "build"], << >>)
    /\ UNCHANGED <<pkg, phase, work, asked, built, marks, reported>>

BuildAsks(s) ==
    /\ IsGetting("build") /\ s \in Top.reads
    /\ Continue([Top EXCEPT !.reads = @ \ {s}], <<Getting(s)>>)
    /\ UNCHANGED <<pkg, phase, work, asked, mu, built, marks, reported>>

BuildReportsOne(d) ==
    /\ IsGetting("build") /\ Top.reads = {} /\ d \in Top.todo
    /\ Continue([Top EXCEPT !.todo = @ \ {d}], <<Reporting(d)>>)
    /\ UNCHANGED <<pkg, phase, work, asked, mu, built, marks, reported>>

\* Defect: the second locked section does not set the flag.
PublishUnflagged ==
    /\ IsGetting("build") /\ Top.reads = {} /\ Top.todo = {}
    /\ mu = (Top.set \in HoldsLock)
    /\ mu' = FALSE
    /\ built' = built \cup ({Top.set} \cap HoldsLock)
    /\ Return
    /\ UNCHANGED <<pkg, phase, work, asked, marks, reported>>

\* The builder is done: publish, under the lock held or a lock taken again.
Publish ==
    /\ IsGetting("build") /\ Top.reads = {} /\ Top.todo = {}
    /\ mu = (Top.set \in HoldsLock)
    /\ mu' = FALSE
    /\ built' = built \cup {Top.set}
    /\ Return
    /\ UNCHANGED <<pkg, phase, work, asked, marks, reported>>

-----------------------------------------------------------------------------
\* vowReport.

IsReporting(at) == stack # << >> /\ Top.op = "report" /\ Top.at = at

Filtered == <<pkg, phase, work, asked, mu, built, marks, reported>>

DropByNarrowScope ==
    /\ IsReporting("narrow") /\ Top.diag.line \in pkg.hidden
    /\ Return
    /\ UNCHANGED Filtered

PassNarrowScope ==
    /\ IsReporting("narrow") /\ Top.diag.line \notin pkg.hidden
    /\ IF Top.diag.call \in Funcs
       THEN Continue([Top EXCEPT !.at = "barrier"], <<Getting("discharged")>>)
       ELSE Continue([Top EXCEPT !.at = "suppress"], << >>)
    /\ UNCHANGED Filtered

\* Defect: the filter starts over when the callee is no barrier.
DischargedFilterAgain ==
    /\ IsReporting("barrier")
    /\ IF Top.diag.call \in dischargedFuncs
       THEN Return
       ELSE Continue([Top EXCEPT !.at = "narrow"], << >>)
    /\ UNCHANGED Filtered

\* shouldDropByDischarged, once dischargedSet has returned.
DischargedFilter ==
    /\ IsReporting("barrier")
    /\ IF Top.diag.call \in dischargedFuncs
       THEN Return
       ELSE Continue([Top EXCEPT !.at = "suppress"], << >>)
    /\ UNCHANGED Filtered

isSuppressibleCategory(d) == d.category \in {"must-consume", "nil-safety", "nil-decl"}

InSuppressed(line) ==
    line \in suppressedLines \/ \E f \in suppressedFuncs : line \in FirstLine[f] .. LastLine[f]

\* shouldSuppressBySuppress: lineIsSuppressed and functionIsSuppressed lock
\* and unlock in turn.
SuppressFilter ==
    /\ IsReporting("suppress")
    /\ isSuppressibleCategory(Top.diag) => ~mu
    /\ IF isSuppressibleCategory(Top.diag) /\ InSuppressed(Top.diag.line)
       THEN Return
       ELSE Continue([Top EXCEPT !.at = "use"], << >>)
    /\ UNCHANGED Filtered

NamesSubject(d) == d.category = "must-consume" /\ d.subject # ""

UseAsserted(line, subject) ==
    \/ <<line, subject>> \in usedLines
    \/ \E f \in Funcs : line \in FirstLine[f] .. LastLine[f] /\ <<f, subject>> \in usedFuncs

\* shouldDropByUseAssertion, which also locks only for an eligible diagnostic.
UseFilter ==
    /\ IsReporting("use")
    /\ NamesSubject(Top.diag) => ~mu
    /\ IF NamesSubject(Top.diag) /\ UseAsserted(Top.diag.line, Top.diag.subject)
       THEN Return
       ELSE Continue([Top EXCEPT !.at = "emit"], << >>)
    /\ UNCHANGED Filtered

PassReport ==
    /\ IsReporting("emit")
    /\ reported' = Append(reported, Top.diag)
    /\ Return
    /\ UNCHANGED <<pkg, phase, work, asked, mu, built, marks>>

-----------------------------------------------------------------------------
Finished == phase = "done" /\ UNCHANGED vars

Next ==
    \/ ReportConfigError \/ AskExport \/ NextPhase
    \/ \E m \in pkg.markers : MarkSuppressed(m) \/ MarkUseAsserted(m) \/ RejectMarker(m)
    \/ \E s \in Sets : AskInCheck(s) \/ BuildAsks(s)
    \/ \E d \in pkg.findings : ReportFinding(d)
    \/ GetCached \/ GetStartsBuild \/ Publish
    \/ stack # << >> /\ \E d \in Top.todo : BuildReportsOne(d)
    \/ DropByNarrowScope \/ PassNarrowScope \/ DischargedFilter
    \/ SuppressFilter \/ UseFilter \/ PassReport
    \/ Finished

Spec == Init /\ [][Next]_vars

\* One goroutine runs the pass.
FairSpec == Spec /\ WF_vars(Next)

-----------------------------------------------------------------------------
Diagnostics ==
    {ConfigReport}
    \cup {MarkerReport(m) : m \in MarkersOf("suppress") \cup MarkersOf("use")}
    \cup (UNION {BuildReports(s) : s \in Sets})
    \cup {FindingReport(d) : d \in pkg.findings}

Frames ==
    [op: {"get"}, at: {"lock", "build"}, set: Sets, reads: SUBSET Sets,
     todo: SUBSET Diagnostics, diag: {NoDiagnostic}]
    \cup [op: {"report"}, at: {"narrow", "barrier", "suppress", "use", "emit"},
          set: {"none"}, reads: {{}}, todo: {{}}, diag: Diagnostics]

TypeOK ==
    /\ pkg \in Packages
    /\ \E i \in DOMAIN Phases : phase = Phases[i]
    /\ work \subseteq pkg.markers \cup pkg.findings
    /\ asked \in 0 .. Len(Exports)
    /\ \A i \in DOMAIN stack : stack[i] \in Frames
    /\ mu \in BOOLEAN
    /\ built \subseteq Sets
    /\ suppressedFuncs \subseteq Funcs /\ suppressedLines \subseteq StmtLines
    /\ usedFuncs \subseteq Funcs \X Subjects /\ usedLines \subseteq StmtLines \X Subjects
    /\ \A i \in DOMAIN reported : reported[i] \in Diagnostics

\* The innermost call takes the mutex in its next step.
TakesLock ==
    \/ IsGetting("lock")
    \/ IsGetting("build") /\ Top.set \notin HoldsLock /\ Top.reads = {} /\ Top.todo = {}
    \/ IsReporting("suppress") /\ isSuppressibleCategory(Top.diag)
    \/ IsReporting("use") /\ NamesSubject(Top.diag)

\* The mutex is not reentrant and one goroutine runs the pass: it never takes
\* it while it holds it, although builders report and reports start builders.
\* (the deadlock the comments on nilDeclSet and logicalRulesSet warn of)
NeverReenters == stack # << >> /\ TakesLock => ~mu

\* However the getters nest, a set is built once, so a malformed marker is
\* reported once.  (ruleScope: "at most once per package")
ReportedOnce == \A i, k \in DOMAIN reported : reported[i] = reported[k] => i = k

-----------------------------------------------------------------------------
\* The report a package deserves, from its text alone.

Covers(m, line) ==
    IF m.fn \in Funcs THEN line \in FirstLine[m.fn] .. LastLine[m.fn]
    ELSE /\ line \in StmtLines
         /\ line = m.line \/ (line = m.line + 1 /\ m.line \notin StmtLines)

Accepted(kind) == {m \in MarkersOf(kind) : m.form = "ok"}

Deserved(d) ==
    /\ Visible(d.line)
    /\ d.call \notin dischargedFuncs
    /\ ~\E m \in Accepted("suppress") : isSuppressibleCategory(d) /\ Covers(m, d.line)
    /\ ~\E m \in Accepted("use") :
          d.category = "must-consume" /\ d.subject \in m.names /\ Covers(m, d.line)

\* Found in every package: everything but what the discharged builder rejects.
Certain ==
    {d \in (IF pkg.configError THEN {ConfigReport} ELSE {})
             \cup {MarkerReport(m) : m \in {m \in MarkersOf("suppress") \cup MarkersOf("use") :
                                             m.form \notin {"ok", "scoped"}}}
             \cup (UNION {BuildReports(s) : s \in Sets \ {"discharged"}})
             \cup {FindingReport(d) : d \in pkg.findings} :
        Deserved(d)}

\* A finished pass has reported what the package's text calls for, whatever
\* order sets were built and markers met in: no marker found too late silences
\* nothing, none silences a parser error, and a config error is shown whenever
\* a file is in scope.  (runFunc's order, vowReport's chain)  A vow:discharged
\* that is rejected is reported as well, all of them or none: the only reader of
\* that set is vowReport, so they are seen once the set has been built, and a
\* report in a call of a function is never let through without it.
\* (shouldDropByDischarged)
ReportIsExact ==
    phase = "done" =>
        /\ {reported[i] : i \in DOMAIN reported} =
              Certain \cup {d \in DischargedReports : "discharged" \in built /\ Deserved(d)}
        /\ (\E d \in Certain : d.call \in Funcs) => "discharged" \in built

\* The pass ends.
PassCompletes == <>(phase = "done")
=============================================================================
