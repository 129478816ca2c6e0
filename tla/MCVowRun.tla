------------------------------ MODULE MCVowRun ------------------------------
(***************************************************************************)
(* Package a with two files and a test file, b importing it with a file    *)
(* that calls into a1.go, one that does not and an external test package   *)
(* that calls into b1.go, and c importing b only.  The world of a known    *)
(* gap has a directory whose path ends in "_test".                         *)
(***************************************************************************)
EXTENDS VowRun, TLC

CONSTANTS a1, a2, at, b1, b2, bx, c1, t1, lax, strict

A == <<"a", 0>>
B == <<"b", 0>>
C == <<"c", 0>>
T == <<"t", 1>>

MCPaths == {A, B, C}
TestSuffixPaths == {A, B, T}

MCSrc == [p \in Paths |-> CASE p = A -> {a1, a2} [] p = B -> {b1, b2}
                            [] p = C -> {c1} [] p = T -> {t1}]
MCInTest == [p \in Paths |-> IF p = A THEN {at} ELSE {}]
MCExtTest == [p \in Paths |-> IF p = B THEN {bx} \cap Files ELSE {}]
MCImports == [f \in Files |-> CASE f \in {b1, b2, t1} -> {A}
                                [] f \in {bx, c1} -> {B} [] OTHER -> {}]
MCDeclares == [f \in Files |-> CASE f = a1 -> {"Open"} [] f = a2 -> {"Close"}
                                 [] f = b1 -> {"Run"} [] OTHER -> {}]
MCMentions == [f \in Files |-> CASE f \in {a1, a2, at, b1, t1} -> {"Open"}
                                 [] f = b2 -> {"Close"} [] f \in {bx, c1} -> {"Run"}
                                 [] OTHER -> {}]

At(f, call) == [file |-> f, call |-> call]
MCSites ==
    {d \in {At(a1, "none"), At(a2, a1), At(a2, "none"), At(at, a1), At(b1, a1), At(b1, "none"),
            At(b2, a2), At(b2, "unknown"), At(bx, b1), At(c1, b1), At(t1, a1), At(t1, "none")} :
        d.file \in Files}

MCExcluded == [c \in Configs |-> IF c = strict THEN {C} \cap Paths ELSE {}]

AllLeaky == {[f \in Files |-> "leaky"]}
OneLeaky == {[f \in Files |-> IF f = a1 THEN "leaky" ELSE "clean"]}

Flags == [usage |-> "flags", changed |-> {}, sawChanged |-> TRUE, callers |-> FALSE,
          file |-> TRUE, yaml |-> NoConfig, tests |-> FALSE, vet |-> TRUE, json |-> FALSE,
          patterns |-> {}]

\* One run under every combination of flags.
EveryFlag ==
    {[Flags EXCEPT !.usage = "help", !.json = TRUE], [Flags EXCEPT !.usage = "unknown"],
     [Flags EXCEPT !.callers = TRUE, !.sawChanged = FALSE], [Flags EXCEPT !.yaml = lax],
     [Flags EXCEPT !.file = FALSE, !.yaml = Garbled]}
    \cup {[Flags EXCEPT !.changed = changed, !.callers = callers, !.file = file,
                        !.tests = tests, !.vet = vet, !.json = TRUE, !.patterns = patterns] :
             changed \in {{}, {a1}, {at}, {c1}, {NoSuchFile}}, callers \in BOOLEAN,
             file \in BOOLEAN, tests \in BOOLEAN, vet \in BOOLEAN,
             patterns \in {{}, {B}, {NoSuchPath}}}

\* Runs that share the cache of go vet.
VetFlagSets ==
    {[Flags EXCEPT !.tests = TRUE], [Flags EXCEPT !.changed = {a1}, !.callers = TRUE],
     [Flags EXCEPT !.changed = {b1}, !.tests = TRUE]}

MCArguments == EveryFlag \cup VetFlagSets
MCCode == AllLeaky \cup OneLeaky

----------------------------------------------------------------------------
(* Known gaps. *)

\* The change is in an external test package.                   ChangeIsCovered
TestOnlyFlags == {[Flags EXCEPT !.changed = {bx}, !.callers = TRUE, !.tests = TRUE, !.vet = FALSE]}

NarrowFlags(f) ==
    {[Flags EXCEPT !.changed = {f}, !.callers = TRUE, !.tests = TRUE, !.vet = vet] : vet \in BOOLEAN}

\* An external test package calls into the change.            VetReportsTheSame
ExtTestFlags == NarrowFlags(b1)

\* A caller's directory ends in "_test" (with TestSuffixPaths and the file t1 in
\* place of c1 and bx).                                       VetReportsTheSame
SuffixFlags == NarrowFlags(a1)

\* The change is in a package that has test files only.         ChangeIsCovered
BareSrc    == [MCSrc EXCEPT ![C] = {}]
BareInTest == [MCInTest EXCEPT ![C] = {c1}]
BareFlags  == NarrowFlags(c1)
=============================================================================
