------------------------------ MODULE MCDriver ------------------------------
(***************************************************************************)
(* Small job graphs for TLC.  vow requires inspect and ssa, and ssa        *)
(* requires inspect, which is so a dependency of both.                     *)
(***************************************************************************)
EXTENDS DriverProperties

CONSTANTS vow, ssa, inspect, app, left, right, base, bad, ext

MCAnalyzers == {vow, ssa, inspect}
MCRequires == [a \in MCAnalyzers |->
                 CASE a = vow -> <<inspect, ssa>>
                   [] a = ssa -> <<inspect>>
                   [] OTHER -> << >>]
MCAnalyzerRank == [a \in MCAnalyzers |->
                     CASE a = vow -> 2 [] a = ssa -> 1 [] OTHER -> 0]

\* A diamond: app reaches base through left and through right.  ext is loaded
\* without syntax; bad is ill-typed.
MCPackages == {app, left, right, base, bad, ext}
MCImports == [p \in MCPackages |->
                CASE p = app -> <<left, ext, right>>
                  [] p \in {left, right, bad} -> <<base>>
                  [] OTHER -> << >>]
MCPackageRank == [p \in MCPackages |->
                    CASE p = app -> 2 [] p \in {left, right, bad} -> 1 [] OTHER -> 0]
MCRootAnalyzers == <<vow, inspect>>
MCRootPackages == <<left, app, bad>>
MCFallible == ({inspect} \X {base, left}) \cup ({ssa} \X {app, base})
                \cup ({vow} \X {app, left})
MCReporters == {<<vow, left>>, <<vow, base>>}

\* base has consumers that inherit early and late.
MCLeaky == {<<vow, base>>}

\* A fact of each visibility on base, and what the two ways up add.
MCObjects == {<<base, "always">>, <<base, "direct">>, <<base, "never">>,
              <<right, "always">>, <<left, "direct">>}
MCHome == [o \in MCObjects |-> o[1]]
MCVisibility == [o \in MCObjects |-> o[2]]
=============================================================================
