--------------------------- MODULE CallerResolver ---------------------------
(***************************************************************************)
(* A Go module as packages.Load(Tests: true, "./...") lists it, and        *)
(* cli.ResolveScopePackages: from changed files to the packages that own   *)
(* them and the direct importers that spell one of their identifiers.      *)
(*                                                                         *)
(* An import path is <<name, n>>, n the number of "_test" suffixes it ends *)
(* in: <<q, 1>> is both a directory called q_test and the external test    *)
(* package of <<q, 0>>, which is all the resolver can see of the path.     *)
(***************************************************************************)
EXTENDS Naturals

CONSTANTS
    Paths,      \* import paths of the directories of the module
    Files,      \* Go files
    Src,        \* [Paths -> SUBSET Files], the package's own files
    InTest,     \* [Paths -> SUBSET Files], its _test.go files
    ExtTest,    \* [Paths -> SUBSET Files], those of its external test package
    Imports,    \* [Files -> SUBSET Paths]
    Declares,   \* [Files -> sets of identifiers], what a caller could spell
    Mentions    \* [Files -> sets of identifiers], the whole words of the text

ASSUME ModuleAssumption ==
    /\ \A p \in Paths : p = <<p[1], p[2]>> /\ p[2] \in Nat
    /\ Src \in [Paths -> SUBSET Files]
    /\ InTest \in [Paths -> SUBSET Files]
    /\ ExtTest \in [Paths -> SUBSET Files]
    /\ Imports \in [Files -> SUBSET Paths]
    /\ \A p, q \in Paths : Src[p] \cap (InTest[q] \cup ExtTest[q]) = {}

\* The path of p's external test package.
TestPath(p) == <<p[1], p[2] + 1>>

-----------------------------------------------------------------------------
\* One package of a load: bracketed when its ID is not its path.
Listed(path, bracketed, files) ==
    [path |-> path, bracketed |-> bracketed, files |-> files,
     imports |-> UNION {Imports[f] : f \in files}]

Tested(p) == InTest[p] \cup ExtTest[p] # {}

\* The packages, the variants that add their test files, the external test
\* packages, and the test binaries, which show no files in this mode.
LoadWithTests ==
    {Listed(p, FALSE, Src[p]) : p \in Paths}
    \cup {Listed(p, TRUE, Src[p] \cup InTest[p]) : p \in {q \in Paths : InTest[q] # {}}}
    \cup {Listed(TestPath(p), TRUE, ExtTest[p]) : p \in {q \in Paths : ExtTest[q] # {}}}
    \cup {[path |-> <<p[1], p[2], "binary">>, bracketed |-> FALSE, files |-> {},
            imports |-> {p, TestPath(p)}] : p \in {q \in Paths : Tested(q)}}

loadablePackagePaths(pkgs) ==
    {e.path : e \in {e \in pkgs : ~e.bracketed /\ e.files # {}}}

\* Variants of a package share its path, so which of them ends up as a file's
\* owner does not matter.
changedPackages(pkgs, changed) ==
    {e.path : e \in {e \in pkgs : e.files \cap changed # {}}}

changedGoFiles(pkgs, changed) == changed \cap UNION {e.files : e \in pkgs}

reverseImportTraversal(pkgs, owned) ==
    {e.path : e \in {e \in pkgs : e.path \notin owned /\ e.imports \cap owned # {}}}

declaredIdents(files) == UNION {Declares[f] : f \in files}

\* The Phase 2 text match; scanning a file twice gives the same answer.
identTextMatch(pkgs, candidates, idents) ==
    {e.path : e \in {e \in pkgs : /\ e.path \in candidates
                                  /\ \E f \in e.files : Mentions[f] \cap idents # {}}}

\* filterBySuffix(filterLoadable(paths)), where the knob's suffixes are given
\* by the paths that end in one of them.
filterPaths(pkgs, paths, excluded) == (paths \cap loadablePackagePaths(pkgs)) \ excluded

\* A nil scope is the same answer as one whose halves are both empty.
ResolveScopePackages(changed, excluded) ==
    LET pkgs == LoadWithTests
        owned == changedPackages(pkgs, changed)
        candidates == reverseImportTraversal(pkgs, owned)
        idents == declaredIdents(changedGoFiles(pkgs, changed))
    IN [Changed |-> filterPaths(pkgs, owned, excluded),
        Callers |-> filterPaths(pkgs, identTextMatch(pkgs, candidates, idents), excluded)]

=============================================================================
