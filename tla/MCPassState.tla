---------------------------- MODULE MCPassState ----------------------------
(***************************************************************************)
(* A package of two files: a package clause on line 1, function f on lines *)
(* 2 to 5 with statements on 3 and 4, g on lines 6 and 7 with a statement  *)
(* on 7; the second file's package clause on line 9.                       *)
(***************************************************************************)
EXTENDS PassState, FiniteSets

CONSTANTS f, g

MCFirstLine == [h \in {f, g} |-> IF h = f THEN 2 ELSE 6]
MCLastLine == [h \in {f, g} |-> IF h = f THEN 5 ELSE 7]
MCPackageLines == <<1, 9>>

Marker(kind, form, fn, line, call, names) ==
    [kind |-> kind, form |-> form, fn |-> fn, line |-> line, call |-> call, names |-> names]

Finding(category, subject, line, call) ==
    [category |-> category, subject |-> subject, line |-> line, call |-> call]

\* Markers of every kind: accepted and not, on functions and on lines, leading,
\* trailing and orphaned, and comments inside a call.
MCMarkers ==
    {Marker("suppress", "ok", f, 2, "none", {}), Marker("suppress", "ok", NoFunc, 3, "none", {}),
     Marker("suppress", "ok", NoFunc, 8, "none", {}), Marker("suppress", "bad", NoFunc, 8, g, {}),
     Marker("suppress", "bad", g, 6, "none", {}),
     Marker("use", "ok", g, 6, "none", {"ErrA"}), Marker("use", "ok", NoFunc, 2, "none", {"ErrA"}),
     Marker("use", "badscope", NoFunc, 7, g, {"ErrA"}), Marker("use", "scoped", f, 2, "none", {"ErrA"}),
     Marker("import", "bad", NoFunc, 1, "none", {}), Marker("emit", "bad", f, 2, "none", {}),
     Marker("discharged", "ok", g, 6, "none", {}), Marker("discharged", "bad", g, 6, "none", {}),
     Marker("nil", "bad", f, 2, "none", {}), Marker("fieldnil", "bad", NoFunc, 9, "none", {})}

MCFindings ==
    {Finding("must-consume", "ErrA", 3, "none"), Finding("must-consume", "ErrB", 3, g),
     Finding("must-consume", "ErrA", 7, f), Finding("nil-safety", "", 4, g),
     Finding("", "", 7, "opaque"), Finding("nil-decl", "", 6, "none")}

AtMost(n, S) == {T \in SUBSET S : Cardinality(T) <= n}

MCPackages ==
    [markers: AtMost(2, MCMarkers), findings: AtMost(2, MCFindings),
     hidden: {{}, {1, 2, 3}}, configError: {FALSE}]
    \cup [markers: AtMost(1, MCMarkers), findings: AtMost(1, MCFindings),
          hidden: {{}, {1, 2, 3}, {1, 9}}, configError: {TRUE}]

----------------------------------------------------------------------------
(* Known gaps: packages whose vow:discharged payload goes unreported. *)

\* One rejected vow:discharged, and no call in the package.
LazyPackages ==
    [markers: {{Marker("discharged", "bad", g, 6, "none", {})}},
     findings: SUBSET {Finding("must-consume", "ErrA", 3, "none"), Finding("nil-decl", "", 6, "none")},
     hidden: {{}}, configError: {FALSE}]

\* One spelled with a colon, and a finding in a call, which asks for the set.
ColonPackages ==
    [markers: {{Marker("discharged", "colon", g, 6, "none", {})}},
     findings: {{Finding("must-consume", "ErrA", 3, g)}}, hidden: {{}}, configError: {FALSE}]

\* A vow:discharged marker with a payload is rejected with a diagnostic.
\* (userDischarged's comment; docs/annotations.md)
PayloadIsRejected ==
    phase = "done" =>
        \A m \in MarkersOf("discharged") :
            m.form # "ok" /\ Visible(FirstLine[m.fn]) =>
                \E i \in DOMAIN reported : reported[i] = DischargedReport(m.fn)
=============================================================================
