----------------------------- MODULE CondRules -----------------------------
(* The logical vow:cond rules of one function: the rules the analyzer derives *)
(* from the author's (contrapositives and chains), and the checks that use    *)
(* them: at return statements and at call sites, for contradictory pairs, for *)
(* clashes with the vow:nil signature, the nil-only hint and the exhaustive   *)
(* tag check (internal/analysis/cond_*.go).                                   *)
EXTENDS CondExpr, FiniteSets, SequencesExt

CONSTANTS
  RuleLists,   \* the rule lists an author may have written on the function
  ReturnSites, \* what may be known at one of its return statements
  CallSites,   \* what may be known at one of its calls
  Decls,       \* the vow:nil signatures it may carry: slot -> "none" | "!" | "?"
  Typed,       \* reference -> the typed constants of its named string type
  ConstBlock   \* constant -> the values declared in its const block

RuleSet == [dir : {"=>", "<=>"}, left : Exprs, right : Exprs]

ASSUME RuleAssumption ==
  /\ RuleLists \subseteq Seq(RuleSet)
  /\ ReturnSites \subseteq Sites /\ CallSites \subseteq Sites
  /\ Decls \subseteq [Slots -> {"none", "!", "?"}]
  /\ Typed \in [Refs -> SUBSET Tokens] /\ ConstBlock \in [Idents -> SUBSET Tokens]

VARIABLES
  rules,     \* the author's rules, in source order
  groups,    \* for each rule, the chains derived from it and its contrapositive
  entries,   \* all rules and derived rules, in the order the set checks walk them
  check,     \* the check in progress
  site,      \* what the return or call being visited tells
  decl,      \* the vow:nil signature
  cursor,    \* the group, entry or row the check is at
  found      \* the diagnostics of the check in progress

vars == <<rules, groups, entries, check, site, decl, cursor, found>>

----------------------------------------------------------------------------
(* Meaning of a rule. *)

RuleHolds(r, v) ==
  IF r.dir = "=>" THEN Holds(r.left, v) => Holds(r.right, v)
                  ELSE Holds(r.left, v) <=> Holds(r.right, v)

Obeys(v, rs) == \A i \in 1..Len(rs) : RuleHolds(rs[i], v)

----------------------------------------------------------------------------
(* Derived rules. *)

HasContrapositive(r) == r.dir = "=>" /\ Negatable(r.left) /\ Negatable(r.right)

ContrapositiveOf(r) ==
  [dir |-> "=>", left |-> NegateExpression(r.right), right |-> NegateExpression(r.left)]

\* The chain pool: <<i, 0>> is the author's rule i, <<i, 1>> its contrapositive.
\* In the pool a contrapositive stands right behind its rule.
Pool(rs) == {p \in (1..Len(rs)) \X {0, 1} : p[2] = 1 => HasContrapositive(rs[p[1]])}

PoolRule(rs, p) == IF p[2] = 0 THEN rs[p[1]] ELSE ContrapositiveOf(rs[p[1]])

PoolBefore(p, q) == p[1] < q[1] \/ (p[1] = q[1] /\ p[2] < q[2])

\* A chain goes on with an implication whose left side is the right side reached.
Linked(rs, p, q) ==
  PoolRule(rs, q).dir = "=>" /\ PoolRule(rs, p).right = PoolRule(rs, q).left

InChain(c, p) == \E i \in 1..Len(c) : c[i] = p

Extensions(rs, C) ==
  {Append(x[1], x[2]) : x \in
     {y \in C \X Pool(rs) : Linked(rs, y[1][Len(y[1])], y[2]) /\ ~InChain(y[1], y[2])}}

Seeds(rs, i) == {<<p>> : p \in {q \in Pool(rs) : q[1] = i /\ PoolRule(rs, q).dir = "=>"}}

\* Defect: the walk stops one link early.
ChainsTooShort(rs, i) ==
  LET two   == Extensions(rs, Seeds(rs, i))
      three == Extensions(rs, two)
      four  == Extensions(rs, three)
  IN two \cup three \cup four

\* expandTransitives: a walk of at most transitiveDepthLimit (5) rules that never
\* takes the same rule twice.
Chains(rs, i) ==
  LET two   == Extensions(rs, Seeds(rs, i))
      three == Extensions(rs, two)
      four  == Extensions(rs, three)
      five  == Extensions(rs, four)
  IN two \cup three \cup four \cup five

ChainRule(rs, c) ==
  [dir |-> "=>", left |-> PoolRule(rs, c[1]).left, right |-> PoolRule(rs, c[Len(c)]).right]

\* The order in which the depth-first walk emits its chains: chains seeded by
\* the author's rule before those seeded by its contrapositive, a chain before
\* its continuations, and continuations in pool order.
ChainBefore(c, d) ==
  \/ IsStrictPrefix(c, d)
  \/ \E n \in 1..Len(c) : /\ n <= Len(d)
                          /\ \A m \in 1..(n - 1) : c[m] = d[m]
                          /\ PoolBefore(c[n], d[n])

----------------------------------------------------------------------------
(* Evaluation at a return or at a call. *)

Evaluate(e) ==
  IF check = "return" THEN EvaluateOperandAtReturn(e, site)
                      ELSE EvaluateOperandAtCall(e, site)

Combine(lhs, rhs, dir) ==
  IF lhs = "open" \/ rhs = "open" THEN "open"
  ELSE IF dir = "=>" THEN Outcome(lhs = "fails" \/ rhs = "holds")
  ELSE Outcome(lhs = rhs)

Verdict(r) == Combine(Evaluate(r.left), Evaluate(r.right), r.dir)

\* The first chain that commits.
CommittingChain(i) ==
  LET committing == {c \in groups[i] : Verdict(ChainRule(rules, c)) # "open"} IN
  {ChainRule(rules, c) : c \in {d \in committing : \A b \in committing : ~ChainBefore(b, d)}}

\* Defect: a chain that commits speaks before the author's rule.
CommittedChainFirst(i) ==
  IF CommittingChain(i) # {} THEN CommittingChain(i)
  ELSE {r \in {rules[i]} : Verdict(r) # "open"}

\* The rule of group i that commits: the author's, else its contrapositive,
\* else a chain; none when nothing is decided.
Committed(i) ==
  LET r == rules[i] IN
  IF Verdict(r) # "open" THEN {r}
  ELSE IF HasContrapositive(r) /\ Verdict(ContrapositiveOf(r)) # "open"
  THEN {ContrapositiveOf(r)}
  ELSE CommittingChain(i)

----------------------------------------------------------------------------
(* The entries of the rule-set checks, in the order the checks walk them. *)

EntryIds(rs) ==
  {[group |-> i, kind |-> "original", chain |-> <<>>] : i \in 1..Len(rs)}
  \cup {[group |-> i, kind |-> "contrapositive", chain |-> <<>>] :
          i \in {j \in 1..Len(rs) : HasContrapositive(rs[j])}}
  \cup UNION {{[group |-> i, kind |-> "transitive", chain |-> c] : c \in Chains(rs, i)} :
                i \in 1..Len(rs)}

KindRank(k) == CASE k = "original" -> 0 [] k = "contrapositive" -> 1 [] OTHER -> 2

EntryBefore(a, b) ==
  \/ a.group < b.group
  \/ a.group = b.group /\ KindRank(a.kind) < KindRank(b.kind)
  \/ a.group = b.group /\ a.kind = b.kind /\ ChainBefore(a.chain, b.chain)

Entries(rs) ==
  LET es == EntryIds(rs) IN
  [k \in 1..Cardinality(es) |->
     CHOOSE e \in es : Cardinality({f \in es : EntryBefore(f, e)}) = k - 1]

EntryRule(rs, e) ==
  CASE e.kind = "original"       -> rs[e.group]
    [] e.kind = "contrapositive" -> ContrapositiveOf(rs[e.group])
    [] OTHER                     -> ChainRule(rs, e.chain)

\* What the diagnostic shows of an entry: the source rules it comes from.
Desc(rs, e) ==
  IF e.kind = "transitive" THEN [i \in 1..Len(e.chain) |-> <<e.chain[i][2], rs[e.chain[i][1]]>>]
  ELSE <<<<IF e.kind = "original" THEN 0 ELSE 1, rs[e.group]>>>>

\* Defect: right sides that differ are taken for opposite ones.
DifferentRight(a, b) == a.left = b.left /\ a.right # b.right

RulesContradict(a, b) ==
  /\ a.left = b.left
  /\ Negatable(b.right)
  /\ a.right = NegateExpression(b.right)

RootKey(a, b) == <<{a.left, b.left}, {a.right, b.right}>>

\* Defect: only an author's rule may open a pair.
OriginalRow(k) ==
  {l \in (k + 1)..Len(entries) :
     /\ entries[k].kind = "original"
     /\ RulesContradict(EntryRule(rules, entries[k]), EntryRule(rules, entries[l]))}

\* The later entries that contradict entry k; two contrapositives are never paired.
ContradictingRow(k) ==
  {l \in (k + 1)..Len(entries) :
     /\ ~(entries[k].kind = "contrapositive" /\ entries[l].kind = "contrapositive")
     /\ RulesContradict(EntryRule(rules, entries[k]), EntryRule(rules, entries[l]))}

----------------------------------------------------------------------------
(* The nil-only hint and the exhaustive tag check. *)

Narrowing(rs, ref, op) ==
  {i \in 1..Len(rs) : /\ rs[i].dir = "=>"
                      /\ rs[i].right.kind = "nil"
                      /\ SlotKind[SlotOf[ref]] # "path"
                      /\ rs[i].right.ref = ref
                      /\ rs[i].right.op = op}

NilOnlyThreshold == 2

NilOnlyHints(rs, d) ==
  {ref \in Refs : /\ Len(rs) >= NilOnlyThreshold
                  /\ Cardinality(Narrowing(rs, ref, "==")) >= NilOnlyThreshold
                  /\ Narrowing(rs, ref, "!=") = {}
                  /\ d[SlotOf[ref]] = "none"}

\* A rule binds a tag when its left side compares a reference to one string,
\* quoted or named by a constant.
BindsTag(r) ==
  /\ r.left.kind = "cmp" /\ r.left.op = "=="
  /\ Len(r.left.members) = 1 /\ r.left.members[1] \in Tokens \cup Idents

TagEntries(rs, ref) ==
  {e \in Range(entries) : /\ e.kind # "contrapositive"
                        /\ BindsTag(EntryRule(rs, e))
                        /\ EntryRule(rs, e).left.ref = ref}

TagSpelling(rs, e) == EntryRule(rs, e).left.members[1]


CoveredTagValues(rs, es) == {MemberValue(TagSpelling(rs, e)) : e \in es}

\* The constants of the reference's own type, else the siblings of the first
\* constant the entries name; a family has at least two values.
FiniteEnumCandidates(rs, ref, es) ==
  LET named == {e \in es : TagSpelling(rs, e) \in Idents}
      blocks == {ConstBlock[TagSpelling(rs, e)] : e \in
                   {f \in named : \A g \in named : ~EntryBefore(g, f)}}
      family == IF Cardinality(Typed[ref]) >= 2 THEN Typed[ref] ELSE UNION blocks
  IN IF Cardinality(family) >= 2 THEN family ELSE {}

\* The family's values no entry covers, for a reference that at least two
\* entries bind, one of them the author's.
MissingTags(rs, ref) ==
  LET es == TagEntries(rs, ref) IN
  IF \/ Len(rs) < 2
     \/ Cardinality(es) < 2
     \/ ~ \E e \in es : e.kind = "original"
  THEN {}
  ELSE FiniteEnumCandidates(rs, ref, es) \ CoveredTagValues(rs, es)

----------------------------------------------------------------------------
(* The checks, in the order the analyzer runs them.  Each starts with no      *)
(* diagnostics of its own; a function has any number of returns and calls.    *)

NoSite == [s \in Slots |-> [shape |-> "absent", val |-> 0, nilness |-> "unknown",
             range |-> [hasLower |-> FALSE, lower |-> 0, hasUpper |-> FALSE, upper |-> 0]]]

Init ==
  /\ rules \in RuleLists
  /\ groups = [i \in 1..Len(rules) |-> Chains(rules, i)]
  /\ entries = Entries(rules)
  /\ check = "returns"
  /\ site = NoSite
  /\ decl = [s \in Slots |-> "none"]
  /\ cursor = 0
  /\ found = {}

VisitReturn ==
  /\ check = "returns"
  /\ \E s \in ReturnSites : site' = s
  /\ check' = "return" /\ cursor' = 1 /\ found' = {}
  /\ UNCHANGED <<rules, groups, entries, decl>>

VisitCall ==
  /\ check = "calls"
  /\ \E s \in CallSites : site' = s
  /\ check' = "call" /\ cursor' = 1 /\ found' = {}
  /\ UNCHANGED <<rules, groups, entries, decl>>

\* evaluateLogicalRuleAtReturn / AtCall on one group: the rule that commits is
\* reported when it does not hold.
EvaluateGroup ==
  /\ check \in {"return", "call"}
  /\ cursor <= Len(rules)
  /\ found' = found \cup {[group |-> cursor, rule |-> r] :
                            r \in {q \in Committed(cursor) : Verdict(q) = "fails"}}
  /\ cursor' = cursor + 1
  /\ UNCHANGED <<rules, groups, entries, check, site, decl>>

LeaveSite ==
  /\ check \in {"return", "call"}
  /\ cursor > Len(rules)
  /\ check' = IF check = "return" THEN "returns" ELSE "calls"
  /\ site' = NoSite /\ cursor' = 0 /\ found' = {}
  /\ UNCHANGED <<rules, groups, entries, decl>>

\* The last return (or call) has been visited.
NextCheck ==
  /\ \/ check = "returns" /\ check' = "calls" /\ cursor' = 0 /\ UNCHANGED decl
     \/ check = "calls" /\ check' = "pairs" /\ cursor' = 1 /\ UNCHANGED decl
     \/ /\ check = "pairs" /\ (Len(rules) < 2 \/ cursor > Len(entries))
        /\ check' = "signature" /\ cursor' = 1
        /\ \E d \in Decls : decl' = d
     \/ /\ check = "signature" /\ cursor > Len(entries)
        /\ check' = "hints" /\ cursor' = 0 /\ UNCHANGED decl
  /\ found' = {}
  /\ UNCHANGED <<rules, groups, entries, site>>

\* reportRuleSetContradictions, one row: each axis is reported once, with the
\* first entry that contradicts this one on it.  The code drops a pair whose two
\* descriptions were reported before and then one whose axis was: equal
\* descriptions have equal axes, so the second test is the one that decides.
CompareRow ==
  LET row  == ContradictingRow(cursor)
      key(l) == RootKey(EntryRule(rules, entries[cursor]), EntryRule(rules, entries[l]))
      fresh == {l \in row : /\ \A f \in found : f.key # key(l)
                            /\ \A m \in row : m < l => key(m) # key(l)}
  IN /\ check = "pairs" /\ Len(rules) >= 2
     /\ cursor <= Len(entries)
     /\ found' = found \cup {[at |-> <<cursor, l>>, key |-> key(l)] : l \in fresh}
     /\ cursor' = cursor + 1
     /\ UNCHANGED <<rules, groups, entries, check, site, decl>>

SignatureVerdict(r) ==
  Combine(EvaluateOperandFromNilDecl(r.left, decl), EvaluateOperandFromNilDecl(r.right, decl), r.dir)

\* Contrapositives are passed over.
CheckedAgainstSignature(e) == e.kind # "contrapositive"

\* reportNilDeclContradictions, one entry.
CheckSignature ==
  LET e == entries[cursor]
      r == EntryRule(rules, e)
  IN /\ check = "signature"
     /\ cursor <= Len(entries)
     /\ found' = IF CheckedAgainstSignature(e) /\ SignatureVerdict(r) = "fails"
                 THEN found \cup {Desc(rules, e)} ELSE found
     /\ cursor' = cursor + 1
     /\ UNCHANGED <<rules, groups, entries, check, site, decl>>

ReportHints ==
  /\ check = "hints"
  /\ check' = "tags"
  /\ found' = NilOnlyHints(rules, decl)
  /\ UNCHANGED <<rules, groups, entries, site, decl, cursor>>

ReportTags ==
  /\ check = "tags"
  /\ check' = "done"
  /\ found' = {[ref |-> ref, missing |-> MissingTags(rules, ref)] :
                 ref \in {x \in Refs : MissingTags(rules, x) # {}}}
  /\ UNCHANGED <<rules, groups, entries, site, decl, cursor>>

Done == check = "done" /\ UNCHANGED vars

Next == \/ VisitReturn \/ VisitCall \/ EvaluateGroup \/ LeaveSite \/ NextCheck
        \/ CompareRow \/ CheckSignature \/ ReportHints \/ ReportTags \/ Done

Spec == Init /\ [][Next]_vars

----------------------------------------------------------------------------
(* Properties. *)

\* The state has its type; at one site each group of rules has at most one report,
\* whatever chains commit (cond_logical.go:114).
TypeOK ==
  /\ rules \in RuleLists
  /\ check \in {"returns", "return", "calls", "call", "pairs", "signature", "hints", "tags", "done"}
  /\ site \in ReturnSites \cup CallSites \cup {NoSite}
  /\ decl \in Decls \cup {[s \in Slots |-> "none"]}
  /\ cursor \in Nat
  /\ check \in {"return", "call"} => \A d, e \in found : d.group = e.group => d = e

\* Everything the analyzer derives from the author's rules (cond_contrapositive.go,
\* cond_transitive.go) follows from them: a valuation that obeys the rules obeys
\* every contrapositive and every chain.
DerivedRulesFollow ==
  check = "returns" => \A v \in Valuations : Obeys(v, rules) =>
    \A i \in 1..Len(rules) :
      /\ HasContrapositive(rules[i]) => RuleHolds(ContrapositiveOf(rules[i]), v)
      /\ \A c \in groups[i] : RuleHolds(ChainRule(rules, c), v)

\* A diagnostic at a return or a call (cond_logical.go, cond_caller.go) is true:
\* whatever the slots hold there, some rule the author wrote is broken.
SiteReportsAreTrue ==
  check \in {"return", "call"} /\ found # {} =>
    \A v \in Valuations :
      (\A s \in Slots : Consistent(site[s], v[s])) => ~Obeys(v, rules)

\* The rules the evaluation of group i may commit to.
Derivations(i) ==
  {rules[i]} \cup {r \in {ContrapositiveOf(rules[i])} : HasContrapositive(rules[i])}
             \cup {ChainRule(rules, c) : c \in groups[i]}

\* The walk over the derivations of a rule (cond_logical.go:114) loses no breach it
\* could see: an author's rule that is decided and broken at a site is reported
\* itself, not as something derived from it; and a group with a broken derivation
\* and none that the site shows kept is reported, however many others stay open.
BrokenRuleIsReported ==
  check \in {"return", "call"} =>
    \A i \in 1..(cursor - 1) :
      /\ Verdict(rules[i]) = "fails" => \E d \in found : d.group = i /\ d.rule = rules[i]
      /\ /\ \E r \in Derivations(i) : Verdict(r) = "fails"
         /\ \A r \in Derivations(i) : Verdict(r) # "holds"
         => \E d \in found : d.group = i

\* The operands that a chain of at most five rules reaches from the right side of
\* rule i, by breadth-first search over the pool's links.
ReachedFrom(rs, i) ==
  LET step(E) == E \cup {PoolRule(rs, p).right : p \in
                    {q \in Pool(rs) : PoolRule(rs, q).dir = "=>" /\ PoolRule(rs, q).left \in E}}
  IN IF rs[i].dir # "=>" THEN {rs[i].right} ELSE step(step(step(step({rs[i].right}))))

\* The depth-first walk with its cycle break misses no consequence within the
\* depth limit (transitiveDepthLimit, cond_transitive.go:16).
ChainsReachEverything ==
  check = "returns" => \A i \in 1..Len(rules) :
    ReachedFrom(rules, i) \subseteq
      {rules[i].right} \cup {ChainRule(rules, c).right :
                               c \in {d \in groups[i] : d[1] = <<i, 0>>}}

\* What the checks of the rule set report is true of the author's rules: a pair
\* reported as contradictory (cond_inconsistency.go:83) leaves its shared left side
\* impossible, and a rule reported against the vow:nil signature (:381) shows that
\* no call that honours the signature can satisfy the rules.
SetReportsAreTrue ==
  check \in {"pairs", "signature"} /\ found # {} =>
    \A v \in Valuations : Obeys(v, rules) =>
      IF check = "pairs" THEN \A f \in found : ~Holds(EntryRule(rules, entries[f.at[1]]).left, v)
      ELSE \E s \in Slots : decl[s] = "!" /\ v[s] = Nil

\* The axis dedupe (cond_inconsistency.go:102) hides no axis and repeats none: when
\* the walk is over, exactly one pair of entries is reported for every axis on which
\* two entries, other than two contrapositives, contradict each other.
EveryAxisOnce ==
  check = "pairs" /\ Len(rules) >= 2 /\ cursor > Len(entries) =>
    LET es == Range(entries) IN
    \A a \in es, b \in es :
      /\ a # b
      /\ ~(a.kind = "contrapositive" /\ b.kind = "contrapositive")
      /\ RulesContradict(EntryRule(rules, a), EntryRule(rules, b))
      => Cardinality({f \in found : f.key = RootKey(EntryRule(rules, a), EntryRule(rules, b))}) = 1

\* The author's rules that constrain what may go with slot s holding w, on whatever
\* side and under whatever spelling they name it: some valuation with that value
\* breaks them.
ConstrainingAt(s, w) ==
  {i \in 1..Len(rules) : /\ s \in {SlotOf[rules[i].left.ref], SlotOf[rules[i].right.ref]}
                         /\ \E v \in Valuations : v[s] = w /\ ~RuleHolds(rules[i], v)}


=============================================================================
