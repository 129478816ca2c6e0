---------------------------- MODULE MCCondRules ----------------------------
(* Instances of CondRules: a function with a pointer parameter a (and the     *)
(* path a.f), an integer parameter n, a string parameter k and a pointer      *)
(* result b that is also spelled $1.                                          *)
EXTENDS CondRules

CONSTANTS NilV, ObjV, X, Y, Z, CY, BTrue

MCRefs     == {"a", "a.f", "n", "k", "b", "$1"}
MCSlots    == {"a", "a.f", "n", "k", "b"}
MCSlotOf   == [r \in MCRefs |-> IF r = "$1" THEN "b" ELSE r]
MCSlotKind == [s \in MCSlots |-> CASE s = "b" -> "result" [] s = "a.f" -> "path" [] OTHER -> "param"]
MCTokens   == {X, Y, Z, BTrue}
MCConstValue == [c \in {CY} |-> Y]
MCConstBlock == [c \in {CY} |-> {X, Y, Z}]
MCTyped    == [r \in MCRefs |-> {}]

Assign(fa, ff, fn, fk, fb) ==
  [s \in MCSlots |-> CASE s = "a" -> fa [] s = "a.f" -> ff [] s = "n" -> fn [] s = "k" -> fk [] s = "b" -> fb]

Pointers == {NilV, ObjV}
MCValuations == {Assign(va, vf, vn, vk, vb) : va \in Pointers, vf \in Pointers, vn \in 0..3,
                                              vk \in {X, Y, Z}, vb \in Pointers}

NilOp(ref, op)    == [kind |-> "nil", ref |-> ref, op |-> op, members |-> <<>>]
Cmp(ref, op, ms)  == [kind |-> "cmp", ref |-> ref, op |-> op, members |-> ms]
Rule(l, dir, r)   == [dir |-> dir, left |-> l, right |-> r]

aN == NilOp("a", "!=")
aZ == NilOp("a", "==")
bN == NilOp("b", "!=")
bZ == NilOp("b", "==")
fN == NilOp("a.f", "!=")
fZ == NilOp("a.f", "==")
n2 == Cmp("n", "<", <<2>>)
m2 == Cmp("n", ">=", <<2>>)
n12 == Cmp("n", "==", <<1, 2>>)
kX == Cmp("k", "==", <<X>>)
kY == Cmp("k", "==", <<CY>>)
kNX == Cmp("k", "!=", <<X>>)
kXZ == Cmp("k", "==", <<X, Z>>)

\* Lists of up to three of the rules, each once.
Distinct(menu) ==
  UNION {{l \in [1..k -> menu] : \A i, j \in 1..k : i # j => l[i] # l[j]} : k \in 1..3}

SiteMenu == {Rule(aN, "=>", n2), Rule(n2, "=>", bN), Rule(n12, "=>", bZ), Rule(aN, "=>", n12),
             Rule(m2, "<=>", bZ), Rule(fN, "=>", aZ), Rule(kX, "=>", bN)}

\* A ladder of eight rules: longer than the depth limit.
Ladder == [i \in 1..8 |-> Rule(Cmp("n", "==", <<i - 1>>), "=>", Cmp("n", "==", <<i>>))]

SetMenu == {Rule(aN, "=>", bN), Rule(aN, "<=>", bZ), Rule(bN, "=>", fN), Rule(fN, "=>", aZ),
            Rule(kX, "=>", bZ), Rule(kY, "=>", aZ), Rule(aZ, "=>", kNX),
            Rule(kXZ, "=>", aN), Rule(kNX, "=>", bN),
            Rule(aN, "=>", NilOp("$1", "=="))}

\* One axis by way of a rule and of a chain.
TwoWays == <<Rule(aN, "=>", fN), Rule(fN, "=>", bN), Rule(aN, "=>", bN), Rule(aN, "=>", bZ)>>

\* The pairs in both orders, the triples in one, and a rule written twice.
SetLists ==
  {<<r, s>> : r \in SetMenu, s \in SetMenu}
  \cup {SetToSeq(t) : t \in kSubset(3, SetMenu)}
  \cup {<<r, s, r>> : r \in SetMenu, s \in SetMenu}
  \cup {TwoWays}

MCRuleLists == Distinct(SiteMenu) \cup SetLists \cup {Ladder}

NoRange == [hasLower |-> FALSE, lower |-> 0, hasUpper |-> FALSE, upper |-> 0]
Fact(shape, val, nilness) == [shape |-> shape, val |-> val, nilness |-> nilness, range |-> NoRange]
Interval(lo, hi) == [hasLower |-> lo >= 0, lower |-> lo, hasUpper |-> hi >= 0, upper |-> hi]
Ident == Fact("ident", 0, "unknown")
Known(nilness) == Fact("ident", 0, nilness)
Nilnesses == {"unknown", "nil", "nonnil"}
RangeFacts == {[Ident EXCEPT !.range = Interval(x[1], x[2])] : x \in {<<-1, -1>>, <<-1, 1>>, <<2, -1>>, <<1, 1>>}}

MCReturnSites ==
  {Assign(Known(x), Known(y), r, Ident, b) :
     x \in Nilnesses, y \in {"unknown", "nonnil"}, r \in RangeFacts,
     b \in {Fact("absent", 0, "unknown"), Fact("nil", 0, "unknown"),
            Fact("nonnil", 0, "unknown"), Known("unknown"), Known("nonnil")}}

MCCallSites ==
  {Assign(x, Known(y), r, k, Fact("absent", 0, "unknown")) :
     x \in {Fact("nil", 0, "unknown"), Fact("nonnil", 0, "unknown"), Known("unknown"), Known("nonnil")},
     y \in {"unknown", "nonnil"},
     r \in {Fact("lit", i, "unknown") : i \in {0, 1, 3}} \cup {Ident, Fact("absent", 0, "unknown")},
     k \in {Ident, Fact("lit", X, "unknown")}}

MCDecls == {[s \in MCSlots |-> IF s = "a" THEN x ELSE IF s = "b" THEN y ELSE "none"] :
              x \in {"none", "!", "?"}, y \in {"none", "!", "?"}}

\* Every site describes a state the program can be in.
ASSUME SitesAreReal ==
       \A st \in MCReturnSites \cup MCCallSites :
         \E v \in Valuations : \A s \in Slots : Consistent(st[s], v[s])

----------------------------------------------------------------------------
(* Known gaps: rule lists on which the analyzer falls short of its docs. *)

\* A rule list whose chains meet in one operand the return does not decide.
MCMeetList ==
  {<<Rule(fN, "=>", n2), Rule(aN, "=>", n2), Rule(n2, "=>", fZ), Rule(n2, "=>", bN)>>}

MCMeetSites ==
  {Assign(Known(x), Known(y), Ident, Ident, Fact(b, 0, "unknown")) :
     x \in Nilnesses, y \in Nilnesses, b \in {"nil", "nonnil"}}

\* One result under two spellings.
MCAliasList == {<<Rule(aN, "=>", NilOp("$1", "==")), Rule(fN, "=>", NilOp("$1", "==")),
                  Rule(aZ, "=>", bN)>>}

\* docs/annotations.md:184: "The closure surfaces a violation that no single rule
\* reaches on its own": a chain that is decided and broken at a site leads to a
\* diagnostic there.
ChainViolationSurfaces ==
  check \in {"return", "call"} /\ cursor > Len(rules) =>
    \A i \in 1..Len(rules) : \A c \in groups[i] :
      Verdict(ChainRule(rules, c)) = "fails" => found # {}

\* docs/dsl-reference.md:758: the hint is for a position that the rules narrow to
\* nil "and never to non-nil".
HintMeansNeverNonNil ==
  check = "tags" =>
    \A ref \in found : \A i \in 1..Len(rules) :
      ~ /\ rules[i].dir = "=>" /\ rules[i].right.kind = "nil" /\ rules[i].right.op = "!="
        /\ SlotOf[rules[i].right.ref] = SlotOf[ref]

\* docs/annotations.md:138-139: a sum lets "a single rule" cover "several literal
\* cases at once": no case that a rule constrains is reported as omitted.
SumCoversItsCases ==
  check = "done" =>
    \A f \in found : \A w \in f.missing : ConstrainingAt(SlotOf[f.ref], w) = {}

=============================================================================
