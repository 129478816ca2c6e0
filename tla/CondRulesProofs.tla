-------------------------- MODULE CondRulesProofs --------------------------
(* Proofs about the derived rules and the site checks of CondRules, for every *)
(* signature, every rule list and every site.                                 *)
EXTENDS CondRules, FiniteSetTheorems, TLAPS

\* A valuation gives an integer to the slot of an ordered comparison.
LEMMA OrderedIsInt ==
  ASSUME NEW e \in Exprs, NEW v \in Valuations, e.op \in OrderedOps
  PROVE  /\ v[SlotOf[e.ref]] \in Int
         /\ e.members[1] \in Int
         /\ e.kind = "cmp"
BY DEF Exprs, NilChecks, Comparisons, EqOps, OrderedOps, IntSlots

LEMMA ExprShape ==
  ASSUME NEW e \in Exprs
  PROVE  /\ e.kind \in {"nil", "cmp"}
         /\ e.op \in EqOps \cup OrderedOps
         /\ e.ref \in Refs
         /\ e.kind = "nil" => e.op \in EqOps
         /\ e.members \in Seq(Literals \cup Idents \cup {Nil})
<1>1. CASE e \in NilChecks
  <2>1. <<>> \in Seq(Literals \cup Idents \cup {Nil})
    OBVIOUS
  <2> QED BY <1>1, <2>1 DEF NilChecks, EqOps, OrderedOps
<1>2. CASE e \in Comparisons
  BY <1>2 DEF Comparisons, EqOps, OrderedOps
<1> QED BY <1>1, <1>2 DEF Exprs

\* Negating an operand gives an operand again.
LEMMA NegationIsExpr ==
  ASSUME NEW e \in Exprs, Negatable(e)
  PROVE  /\ NegateExpression(e) \in Exprs
         /\ Negatable(NegateExpression(e))
<1>1. FlipComparisonOp(e.op) \in EqOps <=> e.op \in EqOps
  BY ExprShape DEF FlipComparisonOp, EqOps, OrderedOps
<1>2. FlipComparisonOp(e.op) \in OrderedOps <=> e.op \in OrderedOps
  BY ExprShape DEF FlipComparisonOp, EqOps, OrderedOps
<1>3. CASE e \in NilChecks
  BY <1>1, <1>3, ExprShape DEF NegateExpression, NilChecks, Exprs, Negatable
<1>4. CASE e \in Comparisons
  BY <1>1, <1>2, <1>4, ExprShape DEF NegateExpression, Comparisons, Exprs, Negatable
<1> QED BY <1>3, <1>4 DEF Exprs

\* The negated operand holds exactly where the operand does not.
LEMMA NegationIsComplement ==
  ASSUME NEW e \in Exprs, Negatable(e), NEW v \in Valuations
  PROVE  Holds(NegateExpression(e), v) <=> ~Holds(e, v)
<1> DEFINE x == v[SlotOf[e.ref]]
           n == NegateExpression(e)
<1>1. /\ n.kind = e.kind /\ n.ref = e.ref /\ n.members = e.members
      /\ n.op = FlipComparisonOp(e.op)
  BY DEF NegateExpression, Exprs, NilChecks, Comparisons
<1>2. CASE e.op \in EqOps
  <2>1. e.op = "==" => n.op = "!="
    BY <1>1 DEF FlipComparisonOp
  <2>2. e.op = "!=" => n.op = "=="
    BY <1>1 DEF FlipComparisonOp
  <2>3. Matches(n, x) <=> Matches(e, x)
    BY <1>1 DEF Matches
  <2>4. e.op = "==" \/ e.op = "!="
    BY <1>2 DEF EqOps
  <2>5. CASE e.kind = "nil"
    <3>1. Holds(e, v) <=> ((x = Nil) <=> (e.op = "=="))
      BY <2>5 DEF Holds
    <3>2. Holds(n, v) <=> ((x = Nil) <=> (n.op = "=="))
      BY <1>1, <2>5 DEF Holds
    <3> QED BY <2>1, <2>2, <2>4, <3>1, <3>2
  <2>6. CASE e.kind # "nil" /\ e.op = "=="
    <3>1. Holds(e, v) <=> Matches(e, x)
      BY <2>6 DEF Holds
    <3>2. Holds(n, v) <=> ~Matches(n, x)
      BY <1>1, <2>1, <2>6 DEF Holds
    <3> QED BY <2>3, <3>1, <3>2
  <2>7. CASE e.kind # "nil" /\ e.op = "!="
    <3>1. Holds(e, v) <=> ~Matches(e, x)
      BY <2>7 DEF Holds
    <3>2. Holds(n, v) <=> Matches(n, x)
      BY <1>1, <2>2, <2>7 DEF Holds
    <3> QED BY <2>3, <3>1, <3>2
  <2> QED BY <2>4, <2>5, <2>6, <2>7
<1>3. CASE e.op \in OrderedOps
  <2>1. x \in Int /\ e.members[1] \in Int /\ e.kind = "cmp"
    BY <1>3, OrderedIsInt
  <2>2. Holds(e, v) <=> Ordered(x, e.op, e.members[1])
    BY <1>3, <2>1 DEF Holds, OrderedOps
  <2>3. n.op \in OrderedOps
    BY <1>1, <1>3 DEF FlipComparisonOp, OrderedOps
  <2>4. Holds(n, v) <=> Ordered(x, n.op, e.members[1])
    BY <1>1, <2>1, <2>3 DEF Holds, OrderedOps
  <2>5. Ordered(x, n.op, e.members[1]) <=> ~Ordered(x, e.op, e.members[1])
    <3> HIDE DEF x, n
    <3>1. CASE e.op = "<"
      BY <1>1, <2>1, <3>1 DEF FlipComparisonOp, Ordered
    <3>2. CASE e.op = "<="
      BY <1>1, <2>1, <3>2 DEF FlipComparisonOp, Ordered
    <3>3. CASE e.op = ">"
      BY <1>1, <2>1, <3>3 DEF FlipComparisonOp, Ordered
    <3>4. CASE e.op = ">="
      BY <1>1, <2>1, <3>4 DEF FlipComparisonOp, Ordered
    <3> QED BY <1>3, <3>1, <3>2, <3>3, <3>4 DEF OrderedOps
  <2> QED BY <2>2, <2>4, <2>5
<1> QED BY <1>2, <1>3, ExprShape

\* The contrapositive is a rule and says what its rule says.
LEMMA ContrapositiveEquivalent ==
  ASSUME NEW r \in RuleSet, HasContrapositive(r), NEW v \in Valuations
  PROVE  /\ ContrapositiveOf(r) \in RuleSet
         /\ ContrapositiveOf(r).dir = "=>"
         /\ RuleHolds(ContrapositiveOf(r), v) <=> RuleHolds(r, v)
<1>1. r.left \in Exprs /\ r.right \in Exprs
  BY DEF RuleSet
<1>2. /\ NegateExpression(r.left) \in Exprs
      /\ NegateExpression(r.right) \in Exprs
  BY <1>1, NegationIsExpr DEF HasContrapositive
<1>3. /\ Holds(NegateExpression(r.left), v) <=> ~Holds(r.left, v)
      /\ Holds(NegateExpression(r.right), v) <=> ~Holds(r.right, v)
  BY <1>1, NegationIsComplement DEF HasContrapositive
<1>4. ContrapositiveOf(r) \in RuleSet /\ ContrapositiveOf(r).dir = "=>"
  BY <1>2 DEF ContrapositiveOf, RuleSet
<1>5. RuleHolds(ContrapositiveOf(r), v) <=> RuleHolds(r, v)
  BY <1>3 DEF ContrapositiveOf, RuleHolds, HasContrapositive
<1> QED BY <1>4, <1>5

\* Every rule of the chain pool follows from the author's rules.
LEMMA PoolRulesFollow ==
  ASSUME NEW rs \in Seq(RuleSet), NEW v \in Valuations, Obeys(v, rs), NEW p \in Pool(rs)
  PROVE  PoolRule(rs, p) \in RuleSet /\ RuleHolds(PoolRule(rs, p), v)
<1>1. p[1] \in 1..Len(rs) /\ p[2] \in {0, 1} /\ (p[2] = 1 => HasContrapositive(rs[p[1]]))
  BY DEF Pool
<1>2. rs[p[1]] \in RuleSet /\ RuleHolds(rs[p[1]], v)
  BY <1>1 DEF Obeys
<1>3. CASE p[2] = 0
  BY <1>2, <1>3 DEF PoolRule
<1>4. CASE p[2] = 1
  BY <1>1, <1>2, <1>4, ContrapositiveEquivalent DEF PoolRule
<1> QED BY <1>1, <1>3, <1>4

\* What the walk keeps true of a chain: it is a chain over the pool and its two
\* ends are an implication that follows from the rules.
GoodChain(rs, v, c) ==
  /\ c \in Seq(Pool(rs))
  /\ Len(c) >= 1
  /\ Holds(PoolRule(rs, c[1]).left, v) => Holds(PoolRule(rs, c[Len(c)]).right, v)

LEMMA SeedsGood ==
  ASSUME NEW rs \in Seq(RuleSet), NEW v \in Valuations, Obeys(v, rs), NEW i \in 1..Len(rs)
  PROVE  \A c \in Seeds(rs, i) : GoodChain(rs, v, c)
<1> SUFFICES ASSUME NEW p \in Pool(rs), PoolRule(rs, p).dir = "=>"
             PROVE  GoodChain(rs, v, <<p>>)
  BY DEF Seeds
<1>1. RuleHolds(PoolRule(rs, p), v)
  BY PoolRulesFollow
<1>2. Holds(PoolRule(rs, p).left, v) => Holds(PoolRule(rs, p).right, v)
  BY <1>1 DEF RuleHolds
<1> QED BY <1>2 DEF GoodChain

LEMMA ExtensionsGood ==
  ASSUME NEW rs \in Seq(RuleSet), NEW v \in Valuations, Obeys(v, rs),
         NEW C, \A c \in C : GoodChain(rs, v, c)
  PROVE  \A c \in Extensions(rs, C) : GoodChain(rs, v, c)
<1> SUFFICES ASSUME NEW c \in C, NEW p \in Pool(rs), Linked(rs, c[Len(c)], p)
             PROVE  GoodChain(rs, v, Append(c, p))
  BY DEF Extensions
<1> DEFINE d == Append(c, p)
<1>1. c \in Seq(Pool(rs)) /\ Len(c) >= 1
  BY DEF GoodChain
<1>2. d \in Seq(Pool(rs)) /\ Len(d) = Len(c) + 1 /\ d[1] = c[1] /\ d[Len(d)] = p
  BY <1>1
<1>3. Holds(PoolRule(rs, c[1]).left, v) => Holds(PoolRule(rs, c[Len(c)]).right, v)
  BY DEF GoodChain
<1>4. Holds(PoolRule(rs, p).left, v) => Holds(PoolRule(rs, p).right, v)
  BY PoolRulesFollow DEF RuleHolds, Linked
<1>5. PoolRule(rs, c[Len(c)]).right = PoolRule(rs, p).left
  BY DEF Linked
<1> HIDE DEF d
<1> QED BY <1>1, <1>2, <1>3, <1>4, <1>5 DEF GoodChain

LEMMA ChainsGood ==
  ASSUME NEW rs \in Seq(RuleSet), NEW v \in Valuations, Obeys(v, rs), NEW i \in 1..Len(rs)
  PROVE  \A c \in Chains(rs, i) : GoodChain(rs, v, c)
<1> DEFINE two   == Extensions(rs, Seeds(rs, i))
           three == Extensions(rs, two)
           four  == Extensions(rs, three)
           five  == Extensions(rs, four)
<1>2. \A c \in two : GoodChain(rs, v, c)
  BY SeedsGood, ExtensionsGood
<1>3. \A c \in three : GoodChain(rs, v, c)
  <2> HIDE DEF two
  <2> QED BY <1>2, ExtensionsGood
<1>4. \A c \in four : GoodChain(rs, v, c)
  <2> HIDE DEF three
  <2> QED BY <1>3, ExtensionsGood
<1>5. \A c \in five : GoodChain(rs, v, c)
  <2> HIDE DEF four
  <2> QED BY <1>4, ExtensionsGood
<1> QED BY <1>2, <1>3, <1>4, <1>5 DEF Chains

\* Every chain follows from the author's rules.
LEMMA ChainsFollow ==
  ASSUME NEW rs \in Seq(RuleSet), NEW v \in Valuations, Obeys(v, rs), NEW i \in 1..Len(rs)
  PROVE  \A c \in Chains(rs, i) : RuleHolds(ChainRule(rs, c), v)
BY ChainsGood DEF GoodChain, ChainRule, RuleHolds

\* A chain is a rule between operands of the author's rules.
LEMMA ChainIsRule ==
  ASSUME NEW rs \in Seq(RuleSet), NEW v \in Valuations, Obeys(v, rs),
         NEW i \in 1..Len(rs), NEW c \in Chains(rs, i)
  PROVE  ChainRule(rs, c) \in RuleSet
<1>1. GoodChain(rs, v, c)
  BY ChainsGood
<1>2. c[1] \in Pool(rs) /\ c[Len(c)] \in Pool(rs)
  BY <1>1 DEF GoodChain
<1>3. PoolRule(rs, c[1]) \in RuleSet /\ PoolRule(rs, c[Len(c)]) \in RuleSet
  BY <1>2, PoolRulesFollow
<1> QED BY <1>3 DEF ChainRule, RuleSet

----------------------------------------------------------------------------
(* What the evaluators decide is true of every value the fact allows. *)

LEMMA OutcomeCases ==
  ASSUME NEW b \in BOOLEAN
  PROVE  /\ Outcome(b) = "holds" <=> b
         /\ Outcome(b) = "fails" <=> ~b
         /\ Outcome(b) # "open"
BY DEF Outcome

LEMMA NilCheckTrue ==
  ASSUME NEW f \in Facts, NEW x, Consistent(f, x), NEW op \in EqOps
  PROVE  /\ EvaluateNilCheck(f, op) = "holds" => ((x = Nil) <=> (op = "=="))
         /\ EvaluateNilCheck(f, op) = "fails" => ~((x = Nil) <=> (op = "=="))
         /\ SSANarrowedNilCheck(f, op) = "holds" => ((x = Nil) <=> (op = "=="))
         /\ SSANarrowedNilCheck(f, op) = "fails" => ~((x = Nil) <=> (op = "=="))
BY DEF EvaluateNilCheck, SSANarrowedNilCheck, Consistent, Outcome, EqOps

LEMMA LiteralEqTrue ==
  ASSUME NEW f \in Facts, NEW x, Consistent(f, x), NEW m
  PROVE  /\ EvaluateComparison(f, "==", m) = "holds" => x = m /\ m \notin Idents
         /\ EvaluateComparison(f, "==", m) = "fails" => x # m /\ m \notin Idents
BY DEF EvaluateComparison, CompareLiterals, LiteralKind, Consistent, Outcome

LEMMA LiteralOrderTrue ==
  ASSUME NEW f \in Facts, NEW x \in Int, Consistent(f, x), NEW m \in Int, NEW op \in OrderedOps
  PROVE  /\ EvaluateComparison(f, op, m) = "holds" => Ordered(x, op, m)
         /\ EvaluateComparison(f, op, m) = "fails" => ~Ordered(x, op, m)
<1>1. op # "==" /\ op # "!="
  BY DEF OrderedOps
<1>2. LiteralKind(m) = "int" /\ (LiteralKind(f.val) = "int" => f.val \in Int)
  BY DEF LiteralKind
<1> QED BY <1>1, <1>2 DEF EvaluateComparison, CompareLiterals, Consistent, Outcome

LEMMA RangeTrue ==
  ASSUME NEW f \in Facts, NEW x, Consistent(f, x), NEW k \in Int
  PROVE  /\ Implies(f.range, "==", k) = "holds" => x = k
         /\ Implies(f.range, "==", k) = "fails" => x # k
         /\ \A op \in OrderedOps : x \in Int =>
              /\ Implies(f.range, op, k) = "holds" => Ordered(x, op, k)
              /\ Implies(f.range, op, k) = "fails" => ~Ordered(x, op, k)
<1>1. f.range \in Bounds
  BY DEF Facts
<1>2. /\ f.range.lower \in Int /\ f.range.upper \in Int
      /\ f.range.hasLower \in BOOLEAN /\ f.range.hasUpper \in BOOLEAN
  BY <1>1 DEF Bounds
<1>3. /\ f.range.hasLower => x \in Int /\ x >= f.range.lower
      /\ f.range.hasUpper => x \in Int /\ x <= f.range.upper
  BY DEF Consistent
<1>4. Implies(f.range, "==", k) = "holds" => x = k
  BY <1>2, <1>3 DEF Implies
<1>5. Implies(f.range, "==", k) = "fails" => x # k
  BY <1>2, <1>3 DEF Implies
<1>6. ASSUME NEW op \in OrderedOps, x \in Int
      PROVE  /\ Implies(f.range, op, k) = "holds" => Ordered(x, op, k)
             /\ Implies(f.range, op, k) = "fails" => ~Ordered(x, op, k)
  <2>1. CASE op = "<"
    BY <1>2, <1>3, <1>6, <2>1 DEF Implies, Ordered
  <2>2. CASE op = "<="
    BY <1>2, <1>3, <1>6, <2>2 DEF Implies, Ordered
  <2>3. CASE op = ">"
    BY <1>2, <1>3, <1>6, <2>3 DEF Implies, Ordered
  <2>4. CASE op = ">="
    BY <1>2, <1>3, <1>6, <2>4 DEF Implies, Ordered
  <2> QED BY <1>6, <2>1, <2>2, <2>3, <2>4 DEF OrderedOps
<1> QED BY <1>4, <1>5, <1>6

LEMMA MembersTrue ==
  ASSUME NEW f \in Facts, NEW x, Consistent(f, x), NEW m \in Literals \cup Idents \cup {Nil}
  PROVE  /\ MemberByLiteral(f, m) = "holds" => x = MemberValue(m)
         /\ MemberByLiteral(f, m) = "fails" => x # MemberValue(m)
         /\ MemberBySSA(f, m) = "holds" => x = MemberValue(m)
         /\ MemberBySSA(f, m) = "fails" => x # MemberValue(m)
<1>1. CASE m = Nil
  <2>1. m \notin Idents
    BY <1>1, ValueAssumption
  <2> QED BY <1>1, <2>1, NilCheckTrue DEF MemberByLiteral, MemberBySSA, MemberValue, EqOps
<1>2. CASE m # Nil
  <2>1. /\ MemberByLiteral(f, m) = "holds" => x = MemberValue(m)
        /\ MemberByLiteral(f, m) = "fails" => x # MemberValue(m)
    BY <1>2, LiteralEqTrue DEF MemberByLiteral, MemberValue
  <2>2. CASE m \in Int
    <3>1. m \notin Idents
      BY <2>2, ValueAssumption
    <3> QED BY <1>2, <2>1, <2>2, <3>1, RangeTrue DEF MemberBySSA, SSANarrowedComparison, MemberValue
  <2>3. CASE m \notin Int
    BY <1>2, <2>1, <2>3 DEF MemberBySSA, SSANarrowedComparison
  <2> QED BY <2>2, <2>3
<1> QED BY <1>1, <1>2

LEMMA SumTrue ==
  ASSUME NEW e \in Exprs, e.kind = "cmp", e.op \in EqOps, NEW x,
         NEW o, DOMAIN o = 1..Len(e.members),
         \A i \in 1..Len(e.members) : o[i] = "holds" => x = MemberValue(e.members[i]),
         \A i \in 1..Len(e.members) : o[i] = "fails" => x # MemberValue(e.members[i])
  PROVE  /\ SumOutcome(e.op, o) = "holds" => (Matches(e, x) <=> e.op = "==")
         /\ SumOutcome(e.op, o) = "fails" => ~(Matches(e, x) <=> e.op = "==")
<1>1. CASE \E i \in DOMAIN o : o[i] = "holds"
  BY <1>1 DEF SumOutcome, Outcome, Matches, EqOps
<1>2. CASE ~(\E i \in DOMAIN o : o[i] = "holds") /\ \A i \in DOMAIN o : o[i] = "fails"
  <2>1. ~Matches(e, x)
    BY <1>2 DEF Matches
  <2> QED BY <1>2, <2>1 DEF SumOutcome, Outcome, EqOps
<1>3. CASE ~(\E i \in DOMAIN o : o[i] = "holds") /\ ~(\A i \in DOMAIN o : o[i] = "fails")
  BY <1>3 DEF SumOutcome
<1> QED BY <1>1, <1>2, <1>3

\* Decided comparisons are true, by their literals and by their intervals.
LEMMA ComparisonTrue ==
  ASSUME NEW e \in Exprs, e.kind = "cmp", NEW v \in Valuations, NEW f \in Facts,
         Consistent(f, v[SlotOf[e.ref]])
  PROVE  /\ EvaluateComparisonMembers(f, e) = "holds" => Holds(e, v)
         /\ EvaluateComparisonMembers(f, e) = "fails" => ~Holds(e, v)
         /\ SSANarrowedComparisonMembers(f, e) = "holds" => Holds(e, v)
         /\ SSANarrowedComparisonMembers(f, e) = "fails" => ~Holds(e, v)
<1> DEFINE x == v[SlotOf[e.ref]]
<1>1. CASE e.op \in EqOps
  <2> DEFINE byLit == [i \in 1..Len(e.members) |-> MemberByLiteral(f, e.members[i])]
             bySSA == [i \in 1..Len(e.members) |-> MemberBySSA(f, e.members[i])]
  <2>1. Holds(e, v) <=> (Matches(e, x) <=> e.op = "==")
    BY <1>1 DEF Holds, EqOps
  <2>2. \A i \in 1..Len(e.members) : e.members[i] \in Literals \cup Idents \cup {Nil}
    BY ExprShape
  <2>3. /\ SumOutcome(e.op, byLit) = "holds" => (Matches(e, x) <=> e.op = "==")
        /\ SumOutcome(e.op, byLit) = "fails" => ~(Matches(e, x) <=> e.op = "==")
    <3>1. DOMAIN byLit = 1..Len(e.members)
      OBVIOUS
    <3>3. \A i \in 1..Len(e.members) : byLit[i] = "holds" => x = MemberValue(e.members[i])
      BY <2>2, MembersTrue
    <3>4. \A i \in 1..Len(e.members) : byLit[i] = "fails" => x # MemberValue(e.members[i])
      BY <2>2, MembersTrue
    <3> HIDE DEF byLit, x
    <3> QED BY ONLY e \in Exprs, e.kind = "cmp", <1>1, <3>1, <3>3, <3>4, SumTrue
  <2>4. /\ SumOutcome(e.op, bySSA) = "holds" => (Matches(e, x) <=> e.op = "==")
        /\ SumOutcome(e.op, bySSA) = "fails" => ~(Matches(e, x) <=> e.op = "==")
    <3>1. DOMAIN bySSA = 1..Len(e.members)
      OBVIOUS
    <3>3. \A i \in 1..Len(e.members) : bySSA[i] = "holds" => x = MemberValue(e.members[i])
      BY <2>2, MembersTrue
    <3>4. \A i \in 1..Len(e.members) : bySSA[i] = "fails" => x # MemberValue(e.members[i])
      BY <2>2, MembersTrue
    <3> HIDE DEF bySSA, x
    <3> QED BY ONLY e \in Exprs, e.kind = "cmp", <1>1, <3>1, <3>3, <3>4, SumTrue
  <2>5. EvaluateComparisonMembers(f, e) = SumOutcome(e.op, byLit)
    BY <1>1 DEF EvaluateComparisonMembers
  <2>6. SSANarrowedComparisonMembers(f, e) = SumOutcome(e.op, bySSA)
    BY <1>1 DEF SSANarrowedComparisonMembers
  <2> HIDE DEF byLit, bySSA, x
  <2> QED BY <2>1, <2>3, <2>4, <2>5, <2>6
<1>2. CASE e.op \in OrderedOps
  <2>1. x \in Int /\ e.members[1] \in Int
    BY <1>2, OrderedIsInt
  <2>2. e.op \notin EqOps
    BY <1>2 DEF EqOps, OrderedOps
  <2>3. Holds(e, v) <=> Ordered(x, e.op, e.members[1])
    BY <1>2 DEF Holds, OrderedOps
  <2>4. /\ EvaluateComparisonMembers(f, e) = EvaluateComparison(f, e.op, e.members[1])
        /\ SSANarrowedComparisonMembers(f, e) = Implies(f.range, e.op, e.members[1])
    BY <2>1, <2>2 DEF EvaluateComparisonMembers, SSANarrowedComparisonMembers, SSANarrowedComparison
  <2> HIDE DEF x
  <2>5. Consistent(f, x)
    BY DEF x
  <2> QED BY <1>2, <2>1, <2>3, <2>4, <2>5, LiteralOrderTrue, RangeTrue
<1> QED BY <1>1, <1>2, ExprShape

\* A decided operand is true (or false) of every state the site allows.
LEMMA OperandTrue ==
  ASSUME NEW e \in Exprs, NEW v \in Valuations, NEW st \in Sites,
         \A s \in Slots : Consistent(st[s], v[s])
  PROVE  /\ EvaluateOperandAtReturn(e, st) = "holds" => Holds(e, v)
         /\ EvaluateOperandAtReturn(e, st) = "fails" => ~Holds(e, v)
         /\ EvaluateOperandAtCall(e, st) = "holds" => Holds(e, v)
         /\ EvaluateOperandAtCall(e, st) = "fails" => ~Holds(e, v)
<1> DEFINE s == SlotOf[e.ref]
           f == st[s]
<1>1. s \in Slots /\ SlotKind[s] \in {"recv", "param", "result", "path"}
  BY ExprShape, SlotAssumption
<1>2. f \in Facts /\ Consistent(f, v[s])
  BY <1>1 DEF Sites
<1>3. CASE e.kind = "nil"
  <2>1. Holds(e, v) <=> ((v[s] = Nil) <=> (e.op = "=="))
    BY <1>3 DEF Holds
  <2>2. e.op \in EqOps
    BY <1>3, ExprShape
  <2>3. /\ EvaluateNilCheck(f, e.op) = "holds" => Holds(e, v)
        /\ EvaluateNilCheck(f, e.op) = "fails" => ~Holds(e, v)
        /\ SSANarrowedNilCheck(f, e.op) = "holds" => Holds(e, v)
        /\ SSANarrowedNilCheck(f, e.op) = "fails" => ~Holds(e, v)
    BY <1>2, <2>1, <2>2, NilCheckTrue
  <2> HIDE DEF f
  <2>4. EvaluateOperandAtReturn(e, st) \in {"open", EvaluateNilCheck(f, e.op), SSANarrowedNilCheck(f, e.op)}
    BY <1>1, <1>3 DEF EvaluateOperandAtReturn, OrElse, ResolvedAtReturn, SignatureIdent, f, s
  <2>5. EvaluateOperandAtCall(e, st) \in {"open", EvaluateNilCheck(f, e.op), SSANarrowedNilCheck(f, e.op)}
    BY <1>1, <1>3 DEF EvaluateOperandAtCall, OrElse, SignatureIdent, BoundAtCall, f, s
  <2> QED BY <2>3, <2>4, <2>5
<1>4. CASE e.kind = "cmp"
  <2>3. /\ EvaluateComparisonMembers(f, e) = "holds" => Holds(e, v)
        /\ EvaluateComparisonMembers(f, e) = "fails" => ~Holds(e, v)
        /\ SSANarrowedComparisonMembers(f, e) = "holds" => Holds(e, v)
        /\ SSANarrowedComparisonMembers(f, e) = "fails" => ~Holds(e, v)
    BY <1>2, <1>4, ComparisonTrue
  <2> HIDE DEF f
  <2>4. EvaluateOperandAtReturn(e, st) \in {"open", EvaluateComparisonMembers(f, e), SSANarrowedComparisonMembers(f, e)}
    BY <1>1, <1>4 DEF EvaluateOperandAtReturn, OrElse, ResolvedAtReturn, SignatureIdent, f, s
  <2>5. EvaluateOperandAtCall(e, st) \in {"open", EvaluateComparisonMembers(f, e), SSANarrowedComparisonMembers(f, e)}
    BY <1>1, <1>4 DEF EvaluateOperandAtCall, OrElse, SignatureIdent, BoundAtCall, f, s
  <2> QED BY <2>3, <2>4, <2>5
<1> QED BY <1>3, <1>4, ExprShape

----------------------------------------------------------------------------
(* The invariants. *)

\* What the site checks keep: the chains are those of the rules, and inside a
\* site every diagnostic rests on a state the rules forbid.
SiteInv ==
  /\ rules \in Seq(RuleSet)
  /\ groups = [i \in 1..Len(rules) |-> Chains(rules, i)]
  /\ check \in {"return", "call"} => site \in Sites /\ cursor \in Nat /\ cursor >= 1
  /\ SiteReportsAreTrue

LEMMA VerdictTrue ==
  ASSUME NEW r \in RuleSet, NEW v \in Valuations, site \in Sites,
         \A s \in Slots : Consistent(site[s], v[s]), Verdict(r) = "fails"
  PROVE  ~RuleHolds(r, v)
<1>1. r.left \in Exprs /\ r.right \in Exprs /\ r.dir \in {"=>", "<=>"}
  BY DEF RuleSet
<1>2. /\ Evaluate(r.left) = "holds" => Holds(r.left, v)
      /\ Evaluate(r.left) = "fails" => ~Holds(r.left, v)
      /\ Evaluate(r.right) = "holds" => Holds(r.right, v)
      /\ Evaluate(r.right) = "fails" => ~Holds(r.right, v)
  BY <1>1, OperandTrue DEF Evaluate
<1>3. \A e \in Exprs : Evaluate(e) \in {"holds", "fails", "open"}
  <2> SUFFICES ASSUME NEW e \in Exprs PROVE Evaluate(e) \in {"holds", "fails", "open"}
    OBVIOUS
  <2>1. \A f, op : /\ EvaluateNilCheck(f, op) \in {"holds", "fails", "open"}
                   /\ SSANarrowedNilCheck(f, op) \in {"holds", "fails", "open"}
    BY DEF EvaluateNilCheck, SSANarrowedNilCheck, Outcome
  <2>2. \A f, op, m : EvaluateComparison(f, op, m) \in {"holds", "fails", "open"}
    BY DEF EvaluateComparison, CompareLiterals, Outcome
  <2>3. \A f, op, m : SSANarrowedComparison(f, op, m) \in {"holds", "fails", "open"}
    BY DEF SSANarrowedComparison, Implies
  <2>4. \A op, o : SumOutcome(op, o) \in {"holds", "fails", "open"}
    BY DEF SumOutcome, Outcome
  <2>5. \A f : /\ EvaluateComparisonMembers(f, e) \in {"holds", "fails", "open"}
               /\ SSANarrowedComparisonMembers(f, e) \in {"holds", "fails", "open"}
    BY <2>2, <2>3, <2>4 DEF EvaluateComparisonMembers, SSANarrowedComparisonMembers
  <2>6. SlotKind[SlotOf[e.ref]] \in {"recv", "param", "result", "path"}
    BY ExprShape, SlotAssumption
  <2> QED BY <2>1, <2>5, <2>6 DEF Evaluate, EvaluateOperandAtReturn, EvaluateOperandAtCall, OrElse
<1>4. CASE r.dir = "=>"
  BY <1>1, <1>2, <1>3, <1>4 DEF Verdict, Combine, Outcome, RuleHolds
<1>5. CASE r.dir = "<=>"
  BY <1>1, <1>2, <1>3, <1>5 DEF Verdict, Combine, Outcome, RuleHolds
<1> QED BY <1>1, <1>4, <1>5

\* The rule a group commits to follows from the author's rules.
LEMMA CommittedFollows ==
  ASSUME SiteInv, NEW i \in 1..Len(rules), NEW r \in Committed(i),
         NEW v \in Valuations, Obeys(v, rules)
  PROVE  r \in RuleSet /\ RuleHolds(r, v)
<1>1. rules \in Seq(RuleSet) /\ groups[i] = Chains(rules, i) /\ rules[i] \in RuleSet
  BY DEF SiteInv
<1>2. CASE r = rules[i]
  BY <1>1, <1>2 DEF Obeys
<1>3. CASE HasContrapositive(rules[i]) /\ r = ContrapositiveOf(rules[i])
  BY <1>1, <1>3, ContrapositiveEquivalent DEF Obeys
<1>4. CASE r \in CommittingChain(i)
  <2>1. PICK c \in Chains(rules, i) : r = ChainRule(rules, c)
    BY <1>1, <1>4 DEF CommittingChain
  <2>2. RuleHolds(r, v)
    BY <1>1, <2>1, ChainsFollow
  <2>3. r \in RuleSet
    BY <1>1, <2>1, ChainIsRule
  <2> QED BY <2>2, <2>3
<1> QED BY <1>2, <1>3, <1>4 DEF Committed

LEMMA InitSiteInv == Init => SiteInv
BY RuleAssumption DEF Init, SiteInv, SiteReportsAreTrue

LEMMA NextSiteInv == SiteInv /\ [Next]_vars => SiteInv'
<1> SUFFICES ASSUME SiteInv, [Next]_vars PROVE SiteInv'
  OBVIOUS
<1> USE DEF SiteInv
<1>1. CASE VisitReturn
  BY <1>1, RuleAssumption DEF VisitReturn, SiteReportsAreTrue
<1>2. CASE VisitCall
  BY <1>2, RuleAssumption DEF VisitCall, SiteReportsAreTrue
<1>3. CASE EvaluateGroup
  <2>1. /\ rules' = rules /\ groups' = groups /\ check' = check /\ site' = site
        /\ cursor' = cursor + 1 /\ cursor \in 1..Len(rules) /\ check \in {"return", "call"}
        /\ site \in Sites
    BY <1>3 DEF EvaluateGroup
  <2>2. ASSUME found' # {}, NEW v \in Valuations,
               \A s \in Slots : Consistent(site[s], v[s]), Obeys(v, rules)
        PROVE  FALSE
    <3>1. CASE found # {}
      BY <2>1, <2>2, <3>1 DEF SiteReportsAreTrue
    <3>2. CASE found = {}
      <4>1. PICK r \in Committed(cursor) : Verdict(r) = "fails"
        BY <1>3, <2>2, <3>2 DEF EvaluateGroup
      <4>2. r \in RuleSet /\ RuleHolds(r, v)
        BY <2>1, <2>2, CommittedFollows
      <4> QED BY <2>1, <2>2, <4>1, <4>2, VerdictTrue
    <3> QED BY <3>1, <3>2
  <2>3. SiteReportsAreTrue'
    BY <2>1, <2>2 DEF SiteReportsAreTrue, Obeys
  <2> QED BY <2>1, <2>3
<1>4. CASE LeaveSite
  BY <1>4 DEF LeaveSite, SiteReportsAreTrue
<1>5. CASE NextCheck
  BY <1>5 DEF NextCheck, SiteReportsAreTrue
<1>6. CASE CompareRow
  BY <1>6 DEF CompareRow, SiteReportsAreTrue
<1>7. CASE CheckSignature
  BY <1>7 DEF CheckSignature, SiteReportsAreTrue
<1>8. CASE ReportHints
  BY <1>8 DEF ReportHints, SiteReportsAreTrue
<1>9. CASE ReportTags
  BY <1>9 DEF ReportTags, SiteReportsAreTrue
<1>10. CASE UNCHANGED vars
  BY <1>10 DEF vars, SiteReportsAreTrue, Obeys
<1> QED BY <1>1, <1>2, <1>3, <1>4, <1>5, <1>6, <1>7, <1>8, <1>9, <1>10 DEF Next, Done

\* Whatever the author writes and wherever the rules are checked, a diagnostic at a
\* return or at a call means that no value the site allows obeys the rules.
THEOREM SiteReportsTrue == Spec => []SiteReportsAreTrue
<1>1. SiteInv => SiteReportsAreTrue
  BY DEF SiteInv
<1> QED BY <1>1, InitSiteInv, NextSiteInv, PTL DEF Spec

\* Whatever the author writes, the analyzer derives only consequences of it.
THEOREM DerivedFollow == Spec => []DerivedRulesFollow
<1>1. SiteInv => DerivedRulesFollow
  <2> SUFFICES ASSUME SiteInv, NEW v \in Valuations, Obeys(v, rules), NEW i \in 1..Len(rules)
               PROVE  /\ HasContrapositive(rules[i]) => RuleHolds(ContrapositiveOf(rules[i]), v)
                      /\ \A c \in groups[i] : RuleHolds(ChainRule(rules, c), v)
    BY DEF DerivedRulesFollow
  <2>1. rules \in Seq(RuleSet) /\ rules[i] \in RuleSet /\ groups[i] = Chains(rules, i)
    BY DEF SiteInv
  <2>2. RuleHolds(rules[i], v)
    BY DEF Obeys
  <2> QED BY <2>1, <2>2, ContrapositiveEquivalent, ChainsFollow
<1> QED BY <1>1, InitSiteInv, NextSiteInv, PTL DEF Spec

----------------------------------------------------------------------------
(* The depth-first walk reaches what a breadth-first search reaches. *)


\* Among the chains C, one ends wherever a chain of D passes.
Passes(C, D) == \A c \in D : \A j \in 1..Len(c) : \E d \in C : d[1] = c[1] /\ d[Len(d)] = c[j]

IsWalk(rs, C) == \A c \in C : c \in Seq(Pool(rs)) /\ Len(c) >= 1

LEMMA SeedsWalk ==
  ASSUME NEW rs, NEW i
  PROVE  IsWalk(rs, Seeds(rs, i)) /\ Passes(Seeds(rs, i), Seeds(rs, i))
<1>1. ASSUME NEW c \in Seeds(rs, i)
      PROVE  c \in Seq(Pool(rs)) /\ Len(c) = 1
  <2>1. PICK p \in Pool(rs) : c = <<p>>
    BY Zenon DEF Seeds
  <2> QED BY <2>1
<1>2. IsWalk(rs, Seeds(rs, i))
  BY <1>1 DEF IsWalk
<1>3. ASSUME NEW c \in Seeds(rs, i), NEW j \in 1..Len(c)
      PROVE  \E d \in Seeds(rs, i) : d[1] = c[1] /\ d[Len(d)] = c[j]
  <2>1. Len(c) = 1
    BY <1>1
  <2>2. j = Len(c)
    BY <2>1
  <2>3. c[j] = c[Len(c)]
    BY <2>2
  <2> QED BY <2>3
<1> QED BY <1>2, <1>3 DEF Passes

\* A longer walk passes where the shorter ones end.
LEMMA ExtensionsWalk ==
  ASSUME NEW rs, NEW C, NEW D, IsWalk(rs, C), Passes(D, C)
  PROVE  /\ IsWalk(rs, Extensions(rs, C))
         /\ Passes(D \cup Extensions(rs, C), Extensions(rs, C))
<1>1. ASSUME NEW e \in Extensions(rs, C)
      PROVE  \E c \in C, p \in Pool(rs) : e = Append(c, p)
  <2>1. PICK x \in {y \in C \X Pool(rs) : Linked(rs, y[1][Len(y[1])], y[2]) /\ ~InChain(y[1], y[2])} :
           e = Append(x[1], x[2])
    BY Zenon DEF Extensions
  <2> QED BY <2>1
<1>2. ASSUME NEW e \in Extensions(rs, C)
      PROVE  /\ e \in Seq(Pool(rs)) /\ Len(e) >= 1
             /\ \A j \in 1..Len(e) : \E d \in D \cup Extensions(rs, C) : d[1] = e[1] /\ d[Len(d)] = e[j]
  <2>1. PICK c \in C, p \in Pool(rs) : e = Append(c, p)
    BY <1>1
  <2>2. c \in Seq(Pool(rs)) /\ Len(c) >= 1
    BY DEF IsWalk
  <2>3. /\ e \in Seq(Pool(rs)) /\ Len(e) = Len(c) + 1 /\ e[1] = c[1] /\ e[Len(e)] = p
        /\ \A j \in 1..Len(c) : e[j] = c[j]
    BY <2>1, <2>2
  <2>4. ASSUME NEW j \in 1..Len(e)
        PROVE  \E d \in D \cup Extensions(rs, C) : d[1] = e[1] /\ d[Len(d)] = e[j]
    <3>1. CASE j = Len(e)
      BY <3>1
    <3>2. CASE j # Len(e)
      <4>1. j \in 1..Len(c)
        BY <2>2, <2>3, <3>2
      <4>2. PICK d \in D : d[1] = c[1] /\ d[Len(d)] = c[j]
        BY <4>1 DEF Passes
      <4> QED BY <2>3, <4>1, <4>2
    <3> QED BY <3>1, <3>2
  <2> QED BY <2>2, <2>3, <2>4
<1> QED BY <1>2 DEF IsWalk, Passes

\* Whatever rule links on to a chain of D, a chain of F with the same start ends with it.
Grows(rs, D, F) ==
  \A d \in D : \A q \in Pool(rs) :
    Linked(rs, d[Len(d)], q) => \E e \in F : e[1] = d[1] /\ e[Len(e)] = q

\* The cycle break loses nothing: a rule already in the chain was reached before.
LEMMA WalkGrows ==
  ASSUME NEW rs, NEW C, NEW D, IsWalk(rs, C), Passes(D \cup C, C), Grows(rs, D, D \cup C)
  PROVE  Grows(rs, D \cup C, (D \cup C) \cup Extensions(rs, C))
<1> SUFFICES ASSUME NEW d \in D \cup C, NEW q \in Pool(rs), Linked(rs, d[Len(d)], q)
             PROVE  \E e \in (D \cup C) \cup Extensions(rs, C) : e[1] = d[1] /\ e[Len(e)] = q
  BY DEF Grows
<1>1. CASE d \in D
  BY <1>1 DEF Grows
<1>2. CASE d \in C /\ InChain(d, q)
  <2>1. PICK j \in 1..Len(d) : d[j] = q
    BY <1>2 DEF InChain
  <2> QED BY <1>2, <2>1 DEF Passes
<1>3. CASE d \in C /\ ~InChain(d, q)
  <2>1. d \in Seq(Pool(rs)) /\ Len(d) >= 1
    BY <1>3 DEF IsWalk
  <2>2. Append(d, q) \in Extensions(rs, C)
    <3>1. <<d, q>> \in {y \in C \X Pool(rs) : Linked(rs, y[1][Len(y[1])], y[2]) /\ ~InChain(y[1], y[2])}
      BY <1>3
    <3>2. Append(d, q) = Append(<<d, q>>[1], <<d, q>>[2])
      OBVIOUS
    <3> QED BY Zenon, <3>1, <3>2 DEF Extensions
  <2>3. Append(d, q)[1] = d[1] /\ Append(d, q)[Len(Append(d, q))] = q
    BY <2>1
  <2> QED BY <2>2, <2>3
<1> QED BY <1>1, <1>2, <1>3

\* The operands where the chains of D from the author's rule i end.
Ends(rs, i, D) == {PoolRule(rs, d[Len(d)]).right : d \in {e \in D : e[1] = <<i, 0>>}}

\* One step of the breadth-first search.
Spread(rs, E) == E \cup {PoolRule(rs, p).right : p \in
                    {q \in Pool(rs) : PoolRule(rs, q).dir = "=>" /\ PoolRule(rs, q).left \in E}}

LEMMA SpreadEnds ==
  ASSUME NEW rs, NEW i, NEW D, NEW F, NEW E, D \subseteq F, Grows(rs, D, F), E \subseteq Ends(rs, i, D)
  PROVE  Spread(rs, E) \subseteq Ends(rs, i, F)
<1>1. Ends(rs, i, D) \subseteq Ends(rs, i, F)
  BY Zenon DEF Ends
<1>2. ASSUME NEW q \in Pool(rs), PoolRule(rs, q).dir = "=>", PoolRule(rs, q).left \in E
      PROVE  PoolRule(rs, q).right \in Ends(rs, i, F)
  <2>1. PICK d \in D : d[1] = <<i, 0>> /\ PoolRule(rs, q).left = PoolRule(rs, d[Len(d)]).right
    <3>1. PoolRule(rs, q).left \in Ends(rs, i, D)
      BY <1>2
    <3> QED BY Zenon, <3>1 DEF Ends
  <2>2. Linked(rs, d[Len(d)], q)
    BY <1>2, <2>1 DEF Linked
  <2>3. PICK e \in F : e[1] = d[1] /\ e[Len(e)] = q
    BY <2>2 DEF Grows
  <2>4. PoolRule(rs, e[Len(e)]).right \in Ends(rs, i, F)
    BY Zenon, <2>1, <2>3 DEF Ends
  <2> QED BY <2>3, <2>4
<1>3. ASSUME NEW x \in Spread(rs, E) PROVE x \in Ends(rs, i, F)
  <2>1. CASE x \in E
    BY <1>1, <2>1
  <2>2. CASE x \notin E
    <3>1. PICK q \in Pool(rs) : /\ PoolRule(rs, q).dir = "=>" /\ PoolRule(rs, q).left \in E
                                /\ x = PoolRule(rs, q).right
      BY Zenon, <1>3, <2>2 DEF Spread
    <3> QED BY <1>2, <3>1
  <2> QED BY <2>1, <2>2
<1> QED BY <1>3

\* Five levels of the walk cover four steps of the search.
LEMMA WalkReaches ==
  ASSUME NEW rs \in Seq(RuleSet), NEW i \in 1..Len(rs), rs[i].dir = "=>"
  PROVE  ReachedFrom(rs, i) \subseteq
           {rs[i].right} \cup {ChainRule(rs, c).right : c \in {d \in Chains(rs, i) : d[1] = <<i, 0>>}}
<1> DEFINE C1 == Seeds(rs, i)
           C2 == Extensions(rs, C1)
           C3 == Extensions(rs, C2)
           C4 == Extensions(rs, C3)
           C5 == Extensions(rs, C4)
           E1 == {rs[i].right}
           E2 == Spread(rs, E1)
           E3 == Spread(rs, E2)
           E4 == Spread(rs, E3)
           E5 == Spread(rs, E4)
           U2 == C1 \cup C2
           U3 == U2 \cup C3
           U4 == U3 \cup C4
           U5 == U4 \cup C5
<1>1. ReachedFrom(rs, i) = E5
  BY Zenon DEF ReachedFrom, Spread
<1>2. Chains(rs, i) = C2 \cup C3 \cup C4 \cup C5
  BY Zenon DEF Chains
<1>3. <<i, 0>> \in Pool(rs) /\ PoolRule(rs, <<i, 0>>) = rs[i]
  BY DEF Pool, PoolRule
<1>4. E1 \subseteq Ends(rs, i, C1)
  <2>1. <<i, 0>> \in {q \in Pool(rs) : q[1] = i /\ PoolRule(rs, q).dir = "=>"}
    BY <1>3
  <2>2. <<<<i, 0>>>> \in C1
    BY Zenon, <2>1 DEF Seeds
  <2> DEFINE c == <<<<i, 0>>>>
  <2>3. c[1] = <<i, 0>> /\ c[Len(c)] = <<i, 0>>
    OBVIOUS
  <2> HIDE DEF c
  <2>4. PoolRule(rs, c[Len(c)]).right \in Ends(rs, i, C1)
    BY Zenon, <2>2, <2>3 DEF Ends, c
  <2> QED BY <1>3, <2>3, <2>4
<1>5. \A c \in C1 : c[1] = <<i, 0>> => PoolRule(rs, c[Len(c)]).right = rs[i].right
  <2> SUFFICES ASSUME NEW c \in C1, c[1] = <<i, 0>> PROVE PoolRule(rs, c[Len(c)]).right = rs[i].right
    OBVIOUS
  <2>1. PICK p : c = <<p>>
    BY Zenon DEF Seeds
  <2>2. c[Len(c)] = <<i, 0>>
    BY <2>1
  <2> QED BY <1>3, <2>2
<1>6. IsWalk(rs, C1) /\ Passes(C1, C1) /\ Grows(rs, {}, {} \cup C1)
  BY SeedsWalk DEF Grows
<1> HIDE DEF C1, E1
<1>7. IsWalk(rs, C2) /\ Passes(U2, C2)
  BY <1>6, ExtensionsWalk
<1>8. Grows(rs, C1, U2)
  <2>1. {} \cup C1 = C1
    OBVIOUS
  <2> QED BY <1>6, <2>1, WalkGrows
<1> HIDE DEF C2
<1>9. IsWalk(rs, C3) /\ Passes(U3, C3)
  BY <1>7, ExtensionsWalk
<1>10. Grows(rs, U2, U3)
  BY <1>7, <1>8, WalkGrows
<1> HIDE DEF C3, U2
<1>11. IsWalk(rs, C4) /\ Passes(U4, C4)
  BY <1>9, ExtensionsWalk
<1>12. Grows(rs, U3, U4)
  BY <1>9, <1>10, WalkGrows DEF U3
<1> HIDE DEF C4, U3
<1>13. Grows(rs, U4, U5)
  BY <1>11, <1>12, WalkGrows DEF U4
<1> HIDE DEF C5, U4
<1>14. E2 \subseteq Ends(rs, i, U2)
  BY <1>4, <1>8, SpreadEnds DEF U2
<1> HIDE DEF E2
<1>15. E3 \subseteq Ends(rs, i, U3)
  BY <1>10, <1>14, SpreadEnds DEF U3
<1> HIDE DEF E3
<1>16. E4 \subseteq Ends(rs, i, U4)
  BY <1>12, <1>15, SpreadEnds DEF U4
<1> HIDE DEF E4
<1>17. E5 \subseteq Ends(rs, i, U5)
  BY <1>13, <1>16, SpreadEnds DEF U5
<1> HIDE DEF E5, U5
<1> SUFFICES ASSUME NEW x \in Ends(rs, i, U5), x # rs[i].right
             PROVE  x \in {ChainRule(rs, c).right : c \in {d \in Chains(rs, i) : d[1] = <<i, 0>>}}
  BY <1>1, <1>17
<1>18. PICK c \in U5 : c[1] = <<i, 0>> /\ x = PoolRule(rs, c[Len(c)]).right
  BY Zenon DEF Ends
<1>19. c \in Chains(rs, i)
  BY <1>2, <1>5, <1>18 DEF U5, U4, U3, U2
<1>20. ChainRule(rs, c).right = x
  BY <1>18 DEF ChainRule
<1> QED BY Zenon, <1>18, <1>19, <1>20

\* Whatever rules the author writes, the cycle break of the walk hides no
\* consequence that five rules reach.
THEOREM WalkMissesNothing == Spec => []ChainsReachEverything
<1>1. SiteInv => ChainsReachEverything
  <2> SUFFICES ASSUME SiteInv, NEW i \in 1..Len(rules)
               PROVE  ReachedFrom(rules, i) \subseteq
                        {rules[i].right} \cup {ChainRule(rules, c).right :
                                                 c \in {d \in groups[i] : d[1] = <<i, 0>>}}
    BY DEF ChainsReachEverything
  <2>1. rules \in Seq(RuleSet) /\ groups[i] = Chains(rules, i)
    BY DEF SiteInv
  <2>2. CASE rules[i].dir = "=>"
    BY <2>1, <2>2, WalkReaches
  <2>3. CASE rules[i].dir # "=>"
    <3>1. ReachedFrom(rules, i) = {rules[i].right}
      BY <2>3 DEF ReachedFrom
    <3> QED BY <3>1
  <2> QED BY <2>2, <2>3
<1> QED BY <1>1, InitSiteInv, NextSiteInv, PTL DEF Spec

----------------------------------------------------------------------------
(* The entries of the rule-set checks are the rules and derived rules, each   *)
(* once: the order that ranks them is total.                                  *)

\* A set of natural numbers has a least element.
LEMMA LeastExists ==
  ASSUME NEW T \in SUBSET Nat, T # {}
  PROVE  \E n \in T : \A m \in T : n <= m
<1>1. PICK n \in T : \A m \in T : ~(<<m, n>> \in OpToRel(<, Nat))
  BY NatLessThanWellFounded, WFMin
<1>2. \A m \in T : ~(m < n)
  BY <1>1 DEF OpToRel
<1> QED BY <1>2

\* R orders S strictly and totally.
StrictTotal(S, R) ==
  /\ \A x \in S : <<x, x>> \notin R
  /\ \A x, y, z \in S : <<x, y>> \in R /\ <<y, z>> \in R => <<x, z>> \in R
  /\ \A x, y \in S : x # y => <<x, y>> \in R \/ <<y, x>> \in R

\* In a finite set under a strict total order every rank is taken.
LEMMA RankTaken ==
  ASSUME NEW S, IsFiniteSet(S), NEW R, StrictTotal(S, R), NEW k \in 1..Cardinality(S)
  PROVE  \E e \in S : Cardinality({f \in S : <<f, e>> \in R}) = k - 1
<1> DEFINE Below(e) == {f \in S : <<f, e>> \in R}
           rank == [e \in S |-> Cardinality(Below(e))]
           n == Cardinality(S)
<1>1. n \in Nat
  BY FS_CardinalityType
<1>2. ASSUME NEW e \in S
      PROVE  IsFiniteSet(Below(e)) /\ Cardinality(Below(e)) \in 0..(n - 1)
  <2>1. Below(e) \in SUBSET S /\ e \notin Below(e)
    BY DEF StrictTotal
  <2>2. IsFiniteSet(Below(e)) /\ Cardinality(Below(e)) <= n
    BY <2>1, FS_Subset
  <2>3. Cardinality(Below(e)) # n
    BY <2>1, FS_Subset
  <2>4. Cardinality(Below(e)) \in Nat
    BY <2>2, FS_CardinalityType
  <2> HIDE DEF Below, n
  <2> QED BY <1>1, <2>2, <2>3, <2>4
<1>3. ASSUME NEW x \in S, NEW y \in S, <<x, y>> \in R
      PROVE  Cardinality(Below(x)) # Cardinality(Below(y))
  <2>1. Below(x) \in SUBSET Below(y) /\ x \in Below(y) /\ x \notin Below(x)
    BY <1>3 DEF StrictTotal
  <2>2. IsFiniteSet(Below(y))
    BY <1>2
  <2> HIDE DEF Below
  <2> QED BY <2>1, <2>2, FS_Subset
<1>4. rank \in Injection(S, 0..(n - 1))
  <2>1. rank \in [S -> 0..(n - 1)]
    BY <1>2
  <2>2. ASSUME NEW x \in S, NEW y \in S, rank[x] = rank[y] PROVE x = y
    BY <1>3, <2>2 DEF StrictTotal
  <2> QED BY <2>1, <2>2 DEF Injection, IsInjective
<1>5. IsFiniteSet(0..(n - 1)) /\ Cardinality(0..(n - 1)) = n
  <2> HIDE DEF n
  <2> DEFINE m == n - 1
  <2>1. m \in Int /\ (IF 0 > m THEN 0 ELSE m - 0 + 1) = n
    BY <1>1
  <2> HIDE DEF m
  <2>2. IsFiniteSet(0..m) /\ Cardinality(0..m) = n
    BY <2>1, FS_Interval
  <2> QED BY <2>2 DEF m
<1> HIDE DEF rank, n
<1>6. rank \in Surjection(S, 0..(n - 1))
  BY <1>4, <1>5, FS_Injection DEF n
<1>7. k - 1 \in 0..(n - 1)
  BY <1>1 DEF n
<1>8. PICK e \in S : rank[e] = k - 1
  BY <1>6, <1>7 DEF Surjection
<1> QED BY <1>8 DEF rank

\* The order of the pool.
LEMMA PoolOrder ==
  ASSUME NEW rs
  PROVE  /\ \A p \in Pool(rs) : ~PoolBefore(p, p)
         /\ \A p, q, r \in Pool(rs) : PoolBefore(p, q) /\ PoolBefore(q, r) => PoolBefore(p, r)
         /\ \A p, q \in Pool(rs) : p # q => PoolBefore(p, q) \/ PoolBefore(q, p)
<1>1. \A p \in Pool(rs) : p[1] \in Nat /\ p[2] \in Nat /\ p = <<p[1], p[2]>>
  BY DEF Pool
<1> QED BY <1>1 DEF PoolBefore

LEMMA StrictPrefix ==
  ASSUME NEW P, NEW c \in Seq(P), NEW d \in Seq(P)
  PROVE  IsStrictPrefix(c, d) <=> Len(c) < Len(d) /\ \A n \in 1..Len(c) : c[n] = d[n]
<1>1. SubSeq(c, 1, Len(c)) = c
  OBVIOUS
<1>2. ASSUME Len(c) <= Len(d)
      PROVE  (SubSeq(d, 1, Len(c)) = c) <=> \A n \in 1..Len(c) : c[n] = d[n]
  <2>1. /\ SubSeq(d, 1, Len(c)) \in Seq(P) /\ Len(SubSeq(d, 1, Len(c))) = Len(c)
        /\ \A n \in 1..Len(c) : SubSeq(d, 1, Len(c))[n] = d[n]
    BY <1>2
  <2> QED BY <2>1
<1>3. (Len(c) = Len(d) /\ \A n \in 1..Len(c) : c[n] = d[n]) => c = d
  OBVIOUS
<1>4. Len(c) \in Nat /\ Len(d) \in Nat
  OBVIOUS
<1> QED BY <1>1, <1>2, <1>3, <1>4 DEF IsStrictPrefix, IsPrefix

\* The walk's order on chains, spelled out.
ChainPrefix(c, d) == Len(c) < Len(d) /\ \A n \in 1..Len(c) : c[n] = d[n]
ForksAt(c, d, n) == /\ n \in 1..Len(c) /\ n \in 1..Len(d) /\ \A m \in 1..(n - 1) : c[m] = d[m]
                    /\ PoolBefore(c[n], d[n])

LEMMA ChainBeforeMeans ==
  ASSUME NEW P, NEW c \in Seq(P), NEW d \in Seq(P)
  PROVE  ChainBefore(c, d) <=> ChainPrefix(c, d) \/ \E n \in Nat : ForksAt(c, d, n)
<1>1. (\E n \in 1..Len(c) : n <= Len(d) /\ (\A m \in 1..(n - 1) : c[m] = d[m]) /\ PoolBefore(c[n], d[n]))
        <=> \E n \in Nat : ForksAt(c, d, n)
  <2>1. Len(c) \in Nat /\ Len(d) \in Nat
    OBVIOUS
  <2>2. ASSUME NEW n \in 1..Len(c), n <= Len(d), \A m \in 1..(n - 1) : c[m] = d[m], PoolBefore(c[n], d[n])
        PROVE  \E q \in Nat : ForksAt(c, d, q)
    BY <2>1, <2>2 DEF ForksAt
  <2>3. ASSUME NEW n \in Nat, ForksAt(c, d, n)
        PROVE  n \in 1..Len(c) /\ n <= Len(d) /\ (\A m \in 1..(n - 1) : c[m] = d[m]) /\ PoolBefore(c[n], d[n])
    BY <2>1, <2>3 DEF ForksAt
  <2> QED BY <2>2, <2>3
<1> QED BY <1>1, StrictPrefix DEF ChainBefore, ChainPrefix

LEMMA ChainOrder ==
  ASSUME NEW rs
  PROVE  /\ \A c \in Seq(Pool(rs)) : ~ChainBefore(c, c)
         /\ \A c, d, e \in Seq(Pool(rs)) : ChainBefore(c, d) /\ ChainBefore(d, e) => ChainBefore(c, e)
         /\ \A c, d \in Seq(Pool(rs)) : c # d => ChainBefore(c, d) \/ ChainBefore(d, c)
<1>1. ASSUME NEW c \in Seq(Pool(rs)) PROVE ~ChainBefore(c, c)
  <2>1. ~ChainPrefix(c, c)
    BY DEF ChainPrefix
  <2>2. ASSUME NEW n \in Nat, ForksAt(c, c, n) PROVE FALSE
    BY <2>2, PoolOrder DEF ForksAt
  <2> QED BY <2>1, <2>2, ChainBeforeMeans
<1>2. ASSUME NEW c \in Seq(Pool(rs)), NEW d \in Seq(Pool(rs)), NEW e \in Seq(Pool(rs)),
             ChainBefore(c, d), ChainBefore(d, e)
      PROVE  ChainBefore(c, e)
  <2>0. Len(c) \in Nat /\ Len(d) \in Nat /\ Len(e) \in Nat
    OBVIOUS
  <2>1. CASE ChainPrefix(c, d) /\ ChainPrefix(d, e)
    <3>1. ChainPrefix(c, e)
      BY <2>0, <2>1 DEF ChainPrefix
    <3> QED BY <3>1, ChainBeforeMeans
  <2>2. ASSUME ChainPrefix(c, d), NEW n \in Nat, ForksAt(d, e, n) PROVE ChainBefore(c, e)
    <3>1. CASE n <= Len(c)
      <4>1. ForksAt(c, e, n)
        BY <2>0, <2>2, <3>1 DEF ChainPrefix, ForksAt
      <4> QED BY <4>1, ChainBeforeMeans
    <3>2. CASE n > Len(c)
      <4>1. ChainPrefix(c, e)
        BY <2>0, <2>2, <3>2 DEF ChainPrefix, ForksAt
      <4> QED BY <4>1, ChainBeforeMeans
    <3> QED BY <2>0, <3>1, <3>2
  <2>3. ASSUME NEW n \in Nat, ForksAt(c, d, n), ChainPrefix(d, e) PROVE ChainBefore(c, e)
    <3>1. ForksAt(c, e, n)
      BY <2>0, <2>3 DEF ChainPrefix, ForksAt
    <3> QED BY <3>1, ChainBeforeMeans
  <2>4. ASSUME NEW n \in Nat, ForksAt(c, d, n), NEW m \in Nat, ForksAt(d, e, m) PROVE ChainBefore(c, e)
    <3>1. CASE n < m
      <4>1. ForksAt(c, e, n)
        BY <2>0, <2>4, <3>1 DEF ForksAt
      <4> QED BY <4>1, ChainBeforeMeans
    <3>2. CASE m < n
      <4>1. ForksAt(c, e, m)
        BY <2>0, <2>4, <3>2 DEF ForksAt
      <4> QED BY <4>1, ChainBeforeMeans
    <3>3. CASE n = m
      <4>1. c[n] \in Pool(rs) /\ d[n] \in Pool(rs) /\ e[n] \in Pool(rs)
        BY <2>4, <3>3 DEF ForksAt
      <4>2. PoolBefore(c[n], e[n])
        BY <2>4, <3>3, <4>1, PoolOrder DEF ForksAt
      <4>3. ForksAt(c, e, n)
        BY <2>0, <2>4, <3>3, <4>2 DEF ForksAt
      <4> QED BY <4>3, ChainBeforeMeans
    <3> QED BY <3>1, <3>2, <3>3
  <2> QED BY <1>2, <2>1, <2>2, <2>3, <2>4, ChainBeforeMeans
<1>3. ASSUME NEW c \in Seq(Pool(rs)), NEW d \in Seq(Pool(rs)), c # d
      PROVE  ChainBefore(c, d) \/ ChainBefore(d, c)
  <2> DEFINE T == {n \in Nat : n \in 1..Len(c) /\ n \in 1..Len(d) /\ c[n] # d[n]}
  <2>0. Len(c) \in Nat /\ Len(d) \in Nat
    OBVIOUS
  <2>1. CASE T = {}
    <3>1. \A n \in 1..Len(c) : n \in 1..Len(d) => c[n] = d[n]
      BY <2>0, <2>1
    <3>2. Len(c) # Len(d)
      BY <1>3, <3>1
    <3>3. ChainPrefix(c, d) \/ ChainPrefix(d, c)
      BY <2>0, <3>1, <3>2 DEF ChainPrefix
    <3> QED BY <3>3, ChainBeforeMeans
  <2>2. CASE T # {}
    <3>1. PICK n \in T : \A m \in T : n <= m
      BY <2>2, LeastExists
    <3>2. \A m \in 1..(n - 1) : c[m] = d[m]
      BY <2>0, <3>1
    <3>3. c[n] \in Pool(rs) /\ d[n] \in Pool(rs) /\ c[n] # d[n]
      BY <3>1
    <3>4. PoolBefore(c[n], d[n]) \/ PoolBefore(d[n], c[n])
      BY <3>3, PoolOrder
    <3>5. ForksAt(c, d, n) \/ ForksAt(d, c, n)
      BY <3>1, <3>2, <3>4 DEF ForksAt
    <3> QED BY <3>1, <3>5, ChainBeforeMeans
  <2> QED BY <2>1, <2>2
<1> QED BY <1>1, <1>2, <1>3

\* The extensions of finitely many chains are finitely many.
LEMMA ExtensionsFinite ==
  ASSUME NEW rs, NEW C, IsFiniteSet(C), IsFiniteSet(Pool(rs))
  PROVE  IsFiniteSet(Extensions(rs, C))
<1> DEFINE D == {y \in C \X Pool(rs) : Linked(rs, y[1][Len(y[1])], y[2]) /\ ~InChain(y[1], y[2])}
           f == [x \in D |-> Append(x[1], x[2])]
<1>1. IsFiniteSet(C \X Pool(rs))
  BY FS_Product
<1>2. IsFiniteSet(D)
  BY <1>1, FS_Subset
<1>3. Extensions(rs, C) = {f[x] : x \in D}
  BY Zenon DEF Extensions
<1> HIDE DEF D
<1>4. f \in Surjection(D, Extensions(rs, C))
  BY <1>3 DEF Surjection
<1> QED BY <1>2, <1>4, FS_Surjection

LEMMA PoolFinite ==
  ASSUME NEW rs \in Seq(RuleSet)
  PROVE  IsFiniteSet(Pool(rs))
<1>1. Len(rs) \in Nat
  OBVIOUS
<1>2. IsFiniteSet(1..Len(rs))
  BY <1>1, FS_Interval
<1>3. IsFiniteSet({0, 1})
  <2>1. {0, 1} = {0} \cup {1}
    OBVIOUS
  <2>2. IsFiniteSet({0})
    BY FS_Singleton
  <2> QED BY <2>1, <2>2, FS_AddElement
<1>4. IsFiniteSet((1..Len(rs)) \X {0, 1})
  BY <1>2, <1>3, FS_Product
<1>5. Pool(rs) \in SUBSET ((1..Len(rs)) \X {0, 1})
  BY DEF Pool
<1> QED BY <1>4, <1>5, FS_Subset

LEMMA ChainsFinite ==
  ASSUME NEW rs \in Seq(RuleSet), NEW i
  PROVE  IsFiniteSet(Chains(rs, i))
<1>1. IsFiniteSet(Pool(rs))
  BY PoolFinite
<1>2. IsFiniteSet(Seeds(rs, i))
  <2> DEFINE D == {q \in Pool(rs) : q[1] = i /\ PoolRule(rs, q).dir = "=>"}
             f == [p \in D |-> <<p>>]
  <2>1. IsFiniteSet(D)
    BY <1>1, FS_Subset
  <2>2. Seeds(rs, i) = {f[p] : p \in D}
    BY Zenon DEF Seeds
  <2> HIDE DEF D
  <2>3. f \in Surjection(D, Seeds(rs, i))
    BY <2>2 DEF Surjection
  <2> QED BY <2>1, <2>3, FS_Surjection
<1> DEFINE C2 == Extensions(rs, Seeds(rs, i))
           C3 == Extensions(rs, C2)
           C4 == Extensions(rs, C3)
           C5 == Extensions(rs, C4)
<1>3. IsFiniteSet(C2)
  BY <1>1, <1>2, ExtensionsFinite
<1>4. IsFiniteSet(C3)
  <2> HIDE DEF C2
  <2> QED BY <1>1, <1>3, ExtensionsFinite
<1>5. IsFiniteSet(C4)
  <2> HIDE DEF C3
  <2> QED BY <1>1, <1>4, ExtensionsFinite
<1>6. IsFiniteSet(C5)
  <2> HIDE DEF C4
  <2> QED BY <1>1, <1>5, ExtensionsFinite
<1>7. Chains(rs, i) = C2 \cup C3 \cup C4 \cup C5
  BY Zenon DEF Chains
<1> HIDE DEF C2, C3, C4, C5
<1> QED BY <1>3, <1>4, <1>5, <1>6, <1>7, FS_Union

LEMMA ChainsWalk ==
  ASSUME NEW rs, NEW i
  PROVE  IsWalk(rs, Chains(rs, i))
<1> DEFINE C1 == Seeds(rs, i)
           C2 == Extensions(rs, C1)
           C3 == Extensions(rs, C2)
           C4 == Extensions(rs, C3)
           C5 == Extensions(rs, C4)
<1>1. IsWalk(rs, C1) /\ Passes(C1, C1)
  BY SeedsWalk
<1>2. IsWalk(rs, C2) /\ Passes(C1 \cup C2, C2)
  <2> HIDE DEF C1
  <2> QED BY <1>1, ExtensionsWalk
<1>3. IsWalk(rs, C3) /\ Passes((C1 \cup C2) \cup C3, C3)
  <2> HIDE DEF C1, C2
  <2> QED BY <1>2, ExtensionsWalk
<1>4. IsWalk(rs, C4) /\ Passes(((C1 \cup C2) \cup C3) \cup C4, C4)
  <2> HIDE DEF C1, C2, C3
  <2> QED BY <1>3, ExtensionsWalk
<1>5. IsWalk(rs, C5)
  <2> HIDE DEF C1, C2, C3, C4
  <2> QED BY <1>4, ExtensionsWalk
<1>6. Chains(rs, i) = C2 \cup C3 \cup C4 \cup C5
  BY Zenon DEF Chains
<1> HIDE DEF C2, C3, C4, C5
<1> QED BY <1>2, <1>3, <1>4, <1>5, <1>6 DEF IsWalk

----------------------------------------------------------------------------
(* A broken rule speaks for itself, and a broken derivation for its group. *)

LEMMA VerdictCases == \A r : Verdict(r) \in {"holds", "fails", "open"}
BY DEF Verdict, Combine, Outcome

\* When some chain of a group commits, one of them is the first to.
LEMMA FirstChainCommits ==
  ASSUME SiteInv, NEW i \in 1..Len(rules),
         NEW c0 \in groups[i], Verdict(ChainRule(rules, c0)) # "open"
  PROVE  \E c \in groups[i] : /\ Verdict(ChainRule(rules, c)) # "open"
                             /\ ChainRule(rules, c) \in CommittingChain(i)
<1> DEFINE S == {c \in groups[i] : Verdict(ChainRule(rules, c)) # "open"}
           R == {x \in S \X S : ChainBefore(x[1], x[2])}
<1>1. rules \in Seq(RuleSet) /\ groups[i] = Chains(rules, i)
  BY DEF SiteInv
<1>2. IsFiniteSet(S)
  <2>1. IsFiniteSet(groups[i])
    BY <1>1, ChainsFinite
  <2>2. S \in SUBSET groups[i]
    OBVIOUS
  <2> QED BY <2>1, <2>2, FS_Subset
<1>3. S \subseteq Seq(Pool(rules))
  BY <1>1, ChainsWalk DEF IsWalk
<1>4. c0 \in S
  OBVIOUS
<1>5. \A x, y \in S : <<x, y>> \in R <=> ChainBefore(x, y)
  OBVIOUS
<1>6. CommittingChain(i) = {ChainRule(rules, c) : c \in {d \in S : \A b \in S : ~ChainBefore(b, d)}}
  BY Zenon DEF CommittingChain
<1>7. \A c \in S : c \in groups[i] /\ Verdict(ChainRule(rules, c)) # "open"
  OBVIOUS
<1> HIDE DEF S, R
<1>8. StrictTotal(S, R)
  BY <1>3, <1>5, ChainOrder DEF StrictTotal
<1>9. Cardinality(S) \in Nat /\ Cardinality(S) # 0
  BY <1>2, <1>4, FS_CardinalityType, FS_EmptySet
<1>10. 1 \in 1..Cardinality(S)
  BY <1>9
<1>11. PICK c \in S : Cardinality({f \in S : <<f, c>> \in R}) = 1 - 1
  BY <1>2, <1>8, <1>10, RankTaken
<1>12. {f \in S : <<f, c>> \in R} = {}
  <2>1. IsFiniteSet({f \in S : <<f, c>> \in R})
    BY <1>2, FS_Subset
  <2> QED BY <1>11, <2>1, FS_EmptySet
<1>13. \A b \in S : ~ChainBefore(b, c)
  BY <1>5, <1>12
<1> QED BY Zenon, <1>6, <1>7, <1>11, <1>13

\* A group with a broken derivation and no kept one commits to a broken rule.
LEMMA BrokenGroupCommits ==
  ASSUME SiteInv, NEW i \in 1..Len(rules),
         \E r \in Derivations(i) : Verdict(r) = "fails",
         \A r \in Derivations(i) : Verdict(r) # "holds"
  PROVE  \E r \in Committed(i) : Verdict(r) = "fails"
<1>1. CASE Verdict(rules[i]) # "open"
  BY <1>1, VerdictCases DEF Committed, Derivations
<1>2. CASE /\ Verdict(rules[i]) = "open"
           /\ HasContrapositive(rules[i]) /\ Verdict(ContrapositiveOf(rules[i])) # "open"
  <2>1. Committed(i) = {ContrapositiveOf(rules[i])}
    BY Zenon, <1>2 DEF Committed
  <2>2. ContrapositiveOf(rules[i]) \in Derivations(i)
    BY <1>2 DEF Derivations
  <2> QED BY <1>2, <2>1, <2>2, VerdictCases
<1>3. CASE /\ Verdict(rules[i]) = "open"
           /\ ~(HasContrapositive(rules[i]) /\ Verdict(ContrapositiveOf(rules[i])) # "open")
  <2>1. Committed(i) = CommittingChain(i)
    BY Zenon, <1>3 DEF Committed
  <2>2. PICK c0 \in groups[i] : Verdict(ChainRule(rules, c0)) = "fails"
    BY <1>3 DEF Derivations
  <2>3. PICK c \in groups[i] : /\ Verdict(ChainRule(rules, c)) # "open"
                               /\ ChainRule(rules, c) \in CommittingChain(i)
    BY <2>2, FirstChainCommits
  <2>4. ChainRule(rules, c) \in Derivations(i)
    BY DEF Derivations
  <2> QED BY <2>1, <2>3, <2>4, VerdictCases
<1> QED BY <1>1, <1>2, <1>3

LEMMA InitBroken == Init => BrokenRuleIsReported
BY DEF Init, BrokenRuleIsReported

LEMMA NextBroken == SiteInv /\ BrokenRuleIsReported /\ [Next]_vars => BrokenRuleIsReported'
<1> SUFFICES ASSUME SiteInv, BrokenRuleIsReported, [Next]_vars PROVE BrokenRuleIsReported'
  OBVIOUS
<1> USE DEF BrokenRuleIsReported
<1>1. CASE VisitReturn
  BY <1>1 DEF VisitReturn
<1>2. CASE VisitCall
  BY <1>2 DEF VisitCall
<1>3. CASE EvaluateGroup
  <2>1. /\ rules' = rules /\ groups' = groups /\ check' = check /\ site' = site
        /\ cursor' = cursor + 1 /\ check \in {"return", "call"}
        /\ cursor \in Nat /\ cursor >= 1 /\ cursor <= Len(rules)
    BY <1>3 DEF EvaluateGroup, SiteInv
  <2>2. (\A r : Verdict(r)' = Verdict(r)) /\ \A i : Derivations(i)' = Derivations(i)
    BY <2>1 DEF Verdict, Evaluate, Derivations
  <2>3. found' = found \cup {[group |-> cursor, rule |-> r] :
                               r \in {q \in Committed(cursor) : Verdict(q) = "fails"}}
    BY <1>3 DEF EvaluateGroup
  <2>4. ASSUME NEW i \in 1..(cursor' - 1), Verdict(rules[i]) = "fails"
        PROVE  \E d \in found' : d.group = i /\ d.rule = rules[i]
    <3>1. CASE i = cursor
      <4>1. rules[i] \in Committed(cursor)
        BY <2>4, <3>1 DEF Committed
      <4>2. [group |-> i, rule |-> rules[i]] \in found'
        BY <2>3, <2>4, <3>1, <4>1
      <4> QED BY <4>2
    <3>2. CASE i # cursor
      <4>1. i \in 1..(cursor - 1)
        BY <2>1, <3>2
      <4>2. PICK d \in found : d.group = i /\ d.rule = rules[i]
        BY <2>1, <2>4, <4>1
      <4> QED BY <2>3, <4>2
    <3> QED BY <3>1, <3>2
  <2>5. ASSUME NEW i \in 1..(cursor' - 1), \E r \in Derivations(i) : Verdict(r) = "fails",
               \A r \in Derivations(i) : Verdict(r) # "holds"
        PROVE  \E d \in found' : d.group = i
    <3>1. CASE i = cursor
      <4>1. i \in 1..Len(rules)
        BY <2>1, <3>1
      <4>2. PICK r \in Committed(i) : Verdict(r) = "fails"
        BY <2>5, <4>1, BrokenGroupCommits
      <4>3. [group |-> i, rule |-> r] \in found'
        BY <2>3, <3>1, <4>2
      <4> QED BY <4>3
    <3>2. CASE i # cursor
      <4>1. i \in 1..(cursor - 1)
        BY <2>1, <3>2
      <4>2. PICK d \in found : d.group = i
        BY <2>1, <2>5, <4>1
      <4> QED BY <2>3, <4>2
    <3> QED BY <3>1, <3>2
  <2> HIDE DEF BrokenRuleIsReported
  <2>6. \A i \in 1..(cursor' - 1) :
          /\ Verdict(rules[i])' = "fails" => \E d \in found' : d.group = i /\ d.rule = rules'[i]
          /\ /\ \E r \in Derivations(i)' : Verdict(r)' = "fails"
             /\ \A r \in Derivations(i)' : Verdict(r)' # "holds"
             => \E d \in found' : d.group = i
    BY <2>1, <2>2, <2>4, <2>5
  <2> QED BY <2>6 DEF BrokenRuleIsReported
<1>4. CASE LeaveSite
  BY <1>4 DEF LeaveSite
<1>5. CASE NextCheck
  BY <1>5 DEF NextCheck
<1>6. CASE CompareRow
  BY <1>6 DEF CompareRow
<1>7. CASE CheckSignature
  BY <1>7 DEF CheckSignature
<1>8. CASE ReportHints
  BY <1>8 DEF ReportHints
<1>9. CASE ReportTags
  BY <1>9 DEF ReportTags
<1>10. CASE UNCHANGED vars
  <2>1. /\ rules' = rules /\ groups' = groups /\ check' = check /\ site' = site
        /\ cursor' = cursor /\ found' = found
    BY <1>10 DEF vars
  <2>2. (\A r : Verdict(r)' = Verdict(r)) /\ \A i : Derivations(i)' = Derivations(i)
    BY <2>1 DEF Verdict, Evaluate, Derivations
  <2> QED BY <2>1, <2>2
<1> QED BY <1>1, <1>2, <1>3, <1>4, <1>5, <1>6, <1>7, <1>8, <1>9, <1>10 DEF Next, Done

\* However many derivations commit at a site, a rule of the author's that is
\* decided and broken there is reported as that rule, and a group of which some
\* derivation is broken and none kept is reported.
THEOREM BrokenRulesAreReported == Spec => []BrokenRuleIsReported
BY InitSiteInv, NextSiteInv, InitBroken, NextBroken, PTL DEF Spec

----------------------------------------------------------------------------
(* The entries. *)

\* What an entry is.
Originals(rs) == {[group |-> i, kind |-> "original", chain |-> <<>>] : i \in 1..Len(rs)}
Contrapositives(rs) ==
  {[group |-> i, kind |-> "contrapositive", chain |-> <<>>] :
     i \in {j \in 1..Len(rs) : HasContrapositive(rs[j])}}
Transitives(rs, i) == {[group |-> i, kind |-> "transitive", chain |-> c] : c \in Chains(rs, i)}

LEMMA EntryParts ==
  ASSUME NEW rs
  PROVE  EntryIds(rs) = Originals(rs) \cup Contrapositives(rs)
                          \cup UNION {Transitives(rs, i) : i \in 1..Len(rs)}
BY Zenon DEF EntryIds, Originals, Contrapositives, Transitives

LEMMA EntryShape ==
  ASSUME NEW rs, NEW e \in EntryIds(rs)
  PROVE  /\ e.group \in 1..Len(rs)
         /\ e.kind \in {"original", "contrapositive", "transitive"}
         /\ e = [group |-> e.group, kind |-> e.kind, chain |-> e.chain]
         /\ e.kind \in {"original", "contrapositive"} => e.chain = <<>>
         /\ e.kind = "contrapositive" => HasContrapositive(rs[e.group])
         /\ e.kind = "transitive" => e.chain \in Chains(rs, e.group)
         /\ e.chain \in Seq(Pool(rs))
<1>1. CASE e \in Originals(rs)
  <2>1. PICK i \in 1..Len(rs) : e = [group |-> i, kind |-> "original", chain |-> <<>>]
    BY <1>1 DEF Originals
  <2> QED BY <2>1
<1>2. CASE e \in Contrapositives(rs)
  <2>1. PICK i \in 1..Len(rs) : /\ HasContrapositive(rs[i])
                                /\ e = [group |-> i, kind |-> "contrapositive", chain |-> <<>>]
    BY <1>2 DEF Contrapositives
  <2> QED BY <2>1
<1>3. CASE \E i \in 1..Len(rs) : e \in Transitives(rs, i)
  <2>1. PICK i \in 1..Len(rs) : e \in Transitives(rs, i)
    BY <1>3
  <2>2. PICK c \in Chains(rs, i) : e = [group |-> i, kind |-> "transitive", chain |-> c]
    BY <2>1 DEF Transitives
  <2>3. c \in Seq(Pool(rs))
    BY ChainsWalk DEF IsWalk
  <2> QED BY <2>2, <2>3
<1> QED BY Zenon, <1>1, <1>2, <1>3, EntryParts

LEMMA EntriesFinite ==
  ASSUME NEW rs \in Seq(RuleSet)
  PROVE  IsFiniteSet(EntryIds(rs))
<1> DEFINE I == 1..Len(rs)
           J == {j \in I : HasContrapositive(rs[j])}
<1>1. IsFiniteSet(I)
  <2>1. Len(rs) \in Nat
    OBVIOUS
  <2> QED BY <2>1, FS_Interval
<1>2. IsFiniteSet(J)
  BY <1>1, FS_Subset
<1> HIDE DEF J
<1>3. IsFiniteSet(Originals(rs))
  <2> DEFINE f == [i \in I |-> [group |-> i, kind |-> "original", chain |-> <<>>]]
  <2>1. Originals(rs) = {f[i] : i \in I}
    BY Zenon DEF Originals
  <2>2. f \in Surjection(I, Originals(rs))
    <3> HIDE DEF I
    <3> QED BY <2>1 DEF Surjection
  <2> QED BY <1>1, <2>2, FS_Surjection
<1>4. IsFiniteSet(Contrapositives(rs))
  <2> DEFINE f == [i \in J |-> [group |-> i, kind |-> "contrapositive", chain |-> <<>>]]
  <2>1. Contrapositives(rs) = {f[i] : i \in J}
    BY Zenon DEF Contrapositives, J
  <2>2. f \in Surjection(J, Contrapositives(rs))
    BY <2>1 DEF Surjection
  <2> QED BY <1>2, <2>2, FS_Surjection
<1>5. ASSUME NEW i \in I PROVE IsFiniteSet(Transitives(rs, i))
  <2> DEFINE C == Chains(rs, i)
             f == [c \in C |-> [group |-> i, kind |-> "transitive", chain |-> c]]
  <2>1. Transitives(rs, i) = {f[c] : c \in C}
    BY Zenon DEF Transitives
  <2>2. IsFiniteSet(C)
    BY ChainsFinite
  <2> HIDE DEF C
  <2>3. f \in Surjection(C, Transitives(rs, i))
    BY <2>1 DEF Surjection
  <2> QED BY <2>2, <2>3, FS_Surjection
<1> DEFINE TT == {Transitives(rs, i) : i \in I}
<1>6. IsFiniteSet(TT)
  <2> DEFINE f == [i \in I |-> Transitives(rs, i)]
  <2>1. TT = {f[i] : i \in I}
    BY Zenon
  <2>2. f \in Surjection(I, TT)
    <3> HIDE DEF I
    <3> QED BY <2>1 DEF Surjection
  <2> QED BY <1>1, <2>2, FS_Surjection
<1>7. IsFiniteSet(UNION TT)
  <2>1. \A T \in TT : IsFiniteSet(T)
    BY <1>5
  <2> HIDE DEF TT
  <2> QED BY <1>6, <2>1, FS_UNION
<1>8. EntryIds(rs) = (Originals(rs) \cup Contrapositives(rs)) \cup UNION TT
  BY Zenon, EntryParts
<1> HIDE DEF TT
<1>9. IsFiniteSet(Originals(rs) \cup Contrapositives(rs))
  BY <1>3, <1>4, FS_Union
<1> QED BY <1>7, <1>8, <1>9, FS_Union

\* The walk's order on entries is a strict total order.
LEMMA EntryOrder ==
  ASSUME NEW rs
  PROVE  /\ \A a \in EntryIds(rs) : ~EntryBefore(a, a)
         /\ \A a, b, c \in EntryIds(rs) : EntryBefore(a, b) /\ EntryBefore(b, c) => EntryBefore(a, c)
         /\ \A a, b \in EntryIds(rs) : a # b => EntryBefore(a, b) \/ EntryBefore(b, a)
<1>1. ASSUME NEW k \in {"original", "contrapositive", "transitive"},
             NEW l \in {"original", "contrapositive", "transitive"}
      PROVE  KindRank(k) \in Int /\ (KindRank(k) = KindRank(l) => k = l)
  BY DEF KindRank
<1>2. \A a \in EntryIds(rs) : /\ a.group \in Int /\ a.chain \in Seq(Pool(rs))
                              /\ a.kind \in {"original", "contrapositive", "transitive"}
                              /\ a = [group |-> a.group, kind |-> a.kind, chain |-> a.chain]
  BY EntryShape
<1>3. ASSUME NEW a \in EntryIds(rs) PROVE ~EntryBefore(a, a)
  BY <1>1, <1>2, ChainOrder DEF EntryBefore
<1>4. ASSUME NEW a \in EntryIds(rs), NEW b \in EntryIds(rs), NEW c \in EntryIds(rs),
             EntryBefore(a, b), EntryBefore(b, c)
      PROVE  EntryBefore(a, c)
  <2>1. /\ a.group \in Int /\ b.group \in Int /\ c.group \in Int
        /\ KindRank(a.kind) \in Int /\ KindRank(b.kind) \in Int /\ KindRank(c.kind) \in Int
    BY <1>1, <1>2
  <2>2. ChainBefore(a.chain, b.chain) /\ ChainBefore(b.chain, c.chain) => ChainBefore(a.chain, c.chain)
    BY <1>2, ChainOrder
  <2> QED BY <1>4, <2>1, <2>2 DEF EntryBefore
<1>5. ASSUME NEW a \in EntryIds(rs), NEW b \in EntryIds(rs), a # b
      PROVE  EntryBefore(a, b) \/ EntryBefore(b, a)
  <2>1. /\ a.group \in Int /\ b.group \in Int
        /\ KindRank(a.kind) \in Int /\ KindRank(b.kind) \in Int
        /\ KindRank(a.kind) = KindRank(b.kind) => a.kind = b.kind
    BY <1>1, <1>2
  <2>2. a.chain # b.chain => ChainBefore(a.chain, b.chain) \/ ChainBefore(b.chain, a.chain)
    BY <1>2, ChainOrder
  <2>3. a.group = b.group /\ a.kind = b.kind => a.chain # b.chain
    BY <1>2, <1>5
  <2> QED BY <2>1, <2>2, <2>3 DEF EntryBefore
<1> QED BY <1>3, <1>4, <1>5

\* Every entry the checks walk is a rule or a derived rule.
LEMMA EntriesAreIds ==
  ASSUME NEW rs \in Seq(RuleSet)
  PROVE  Entries(rs) \in Seq(EntryIds(rs))
<1> DEFINE es == EntryIds(rs)
           R == {x \in es \X es : EntryBefore(x[1], x[2])}
           n == Cardinality(es)
<1>1. IsFiniteSet(es) /\ n \in Nat
  BY EntriesFinite, FS_CardinalityType
<1> HIDE DEF es
<1>2. \A a, b \in es : <<a, b>> \in R <=> EntryBefore(a, b)
  OBVIOUS
<1>3. StrictTotal(es, R)
  <2>1. /\ \A a \in es : ~EntryBefore(a, a)
        /\ \A a, b, c \in es : EntryBefore(a, b) /\ EntryBefore(b, c) => EntryBefore(a, c)
        /\ \A a, b \in es : a # b => EntryBefore(a, b) \/ EntryBefore(b, a)
    BY EntryOrder DEF es
  <2> HIDE DEF R
  <2> QED BY <1>2, <2>1 DEF StrictTotal
<1>4. ASSUME NEW k \in 1..n
      PROVE  (CHOOSE e \in es : Cardinality({f \in es : EntryBefore(f, e)}) = k - 1) \in es
  <2>1. PICK e \in es : Cardinality({f \in es : <<f, e>> \in R}) = k - 1
    <3> HIDE DEF R
    <3>1. k \in 1..Cardinality(es)
      OBVIOUS
    <3> HIDE DEF n
    <3> QED BY <1>1, <1>3, <3>1, RankTaken
  <2>2. {f \in es : <<f, e>> \in R} = {f \in es : EntryBefore(f, e)}
    BY <1>2
  <2>3. \E x \in es : Cardinality({f \in es : EntryBefore(f, x)}) = k - 1
    BY <2>1, <2>2
  <2> QED BY Zenon, <2>3
<1>5. Entries(rs) = [k \in 1..n |-> CHOOSE e \in es : Cardinality({f \in es : EntryBefore(f, e)}) = k - 1]
  BY Zenon DEF Entries, es
<1>6. Entries(rs) \in [1..n -> es]
  BY <1>4, <1>5
<1> HIDE DEF n
<1> QED BY <1>1, <1>6 DEF es

\* The rule of an entry is a rule, and follows from the author's.
LEMMA EntryIsRule ==
  ASSUME NEW rs \in Seq(RuleSet), NEW e \in EntryIds(rs)
  PROVE  /\ EntryRule(rs, e) \in RuleSet
         /\ \A v \in Valuations : Obeys(v, rs) => RuleHolds(EntryRule(rs, e), v)
<1>0. /\ e.group \in 1..Len(rs)
      /\ e.kind \in {"original", "contrapositive", "transitive"}
      /\ e.kind = "contrapositive" => HasContrapositive(rs[e.group])
      /\ e.kind = "transitive" => e.chain \in Chains(rs, e.group)
  BY EntryShape
<1>1. rs[e.group] \in RuleSet
  BY <1>0
<1>2. CASE e.kind = "original"
  BY <1>0, <1>1, <1>2 DEF EntryRule, Obeys
<1>3. CASE e.kind = "contrapositive"
  <2>1. EntryRule(rs, e) = ContrapositiveOf(rs[e.group]) /\ HasContrapositive(rs[e.group])
    BY <1>0, <1>3 DEF EntryRule
  <2>2. ContrapositiveOf(rs[e.group]) \in RuleSet
    <3>1. rs[e.group].left \in Exprs /\ rs[e.group].right \in Exprs
      BY <1>1 DEF RuleSet
    <3>2. NegateExpression(rs[e.group].left) \in Exprs /\ NegateExpression(rs[e.group].right) \in Exprs
      BY <2>1, <3>1, NegationIsExpr DEF HasContrapositive
    <3> QED BY <3>2 DEF ContrapositiveOf, RuleSet
  <2>3. ASSUME NEW v \in Valuations, Obeys(v, rs) PROVE RuleHolds(ContrapositiveOf(rs[e.group]), v)
    BY <1>0, <1>1, <2>1, <2>3, ContrapositiveEquivalent DEF Obeys
  <2> QED BY <2>1, <2>2, <2>3
<1>4. CASE e.kind = "transitive"
  <2>1. EntryRule(rs, e) = ChainRule(rs, e.chain) /\ e.chain \in Chains(rs, e.group)
    BY <1>0, <1>4 DEF EntryRule
  <2>2. ChainRule(rs, e.chain) \in RuleSet
    <3>1. e.chain \in Seq(Pool(rs)) /\ Len(e.chain) >= 1
      BY <2>1, ChainsWalk DEF IsWalk
    <3>2. e.chain[1] \in Pool(rs) /\ e.chain[Len(e.chain)] \in Pool(rs)
      BY <3>1
    <3>3. \A p \in Pool(rs) : PoolRule(rs, p).left \in Exprs /\ PoolRule(rs, p).right \in Exprs
      <4> SUFFICES ASSUME NEW p \in Pool(rs)
                   PROVE  PoolRule(rs, p).left \in Exprs /\ PoolRule(rs, p).right \in Exprs
        OBVIOUS
      <4>1. p[1] \in 1..Len(rs) /\ p[2] \in {0, 1} /\ (p[2] = 1 => HasContrapositive(rs[p[1]]))
        BY DEF Pool
      <4>2. rs[p[1]].left \in Exprs /\ rs[p[1]].right \in Exprs
        <5>1. rs[p[1]] \in RuleSet
          BY <4>1
        <5> QED BY <5>1 DEF RuleSet
      <4>3. CASE p[2] = 0
        BY <4>2, <4>3 DEF PoolRule
      <4>4. CASE p[2] = 1
        BY <4>1, <4>2, <4>4, NegationIsExpr DEF PoolRule, ContrapositiveOf, HasContrapositive
      <4> QED BY <4>1, <4>3, <4>4
    <3> QED BY <3>2, <3>3 DEF ChainRule, RuleSet
  <2>3. ASSUME NEW v \in Valuations, Obeys(v, rs) PROVE RuleHolds(ChainRule(rs, e.chain), v)
    BY <1>0, <2>1, <2>3, ChainsFollow
  <2> QED BY <2>1, <2>2, <2>3
<1> QED BY <1>0, <1>2, <1>3, <1>4

----------------------------------------------------------------------------
(* The checks of the rule set. *)

\* Negating twice gives the operand back.
LEMMA NegationIsInvolution ==
  ASSUME NEW e \in Exprs
  PROVE  NegateExpression(NegateExpression(e)) = e
<1>1. FlipComparisonOp(FlipComparisonOp(e.op)) = e.op
  BY ExprShape DEF FlipComparisonOp, EqOps, OrderedOps
<1>2. e = [kind |-> e.kind, ref |-> e.ref, op |-> e.op, members |-> e.members]
  BY DEF Exprs, NilChecks, Comparisons
<1> QED BY <1>1, <1>2 DEF NegateExpression

\* Contradiction has no direction.
LEMMA ContradictSymmetric ==
  ASSUME NEW a \in RuleSet, NEW b \in RuleSet, RulesContradict(a, b)
  PROVE  RulesContradict(b, a) /\ RootKey(a, b) = RootKey(b, a)
<1>1. a.left = b.left /\ Negatable(b.right) /\ a.right = NegateExpression(b.right) /\ b.right \in Exprs
  BY DEF RulesContradict, RuleSet
<1>2. Negatable(a.right) /\ b.right = NegateExpression(a.right)
  BY <1>1, NegationIsExpr, NegationIsInvolution
<1>3. RulesContradict(b, a)
  BY <1>1, <1>2 DEF RulesContradict
<1>4. RootKey(a, b) = RootKey(b, a)
  <2>1. {a.left, b.left} = {b.left, a.left} /\ {a.right, b.right} = {b.right, a.right}
    OBVIOUS
  <2> QED BY <2>1 DEF RootKey
<1> QED BY <1>3, <1>4

\* Two rules that contradict each other leave their left side impossible.
LEMMA ContradictionTrue ==
  ASSUME NEW a \in RuleSet, NEW b \in RuleSet, RulesContradict(a, b),
         NEW v \in Valuations, RuleHolds(a, v), RuleHolds(b, v)
  PROVE  ~Holds(a.left, v)
<1>1. b.right \in Exprs /\ Negatable(b.right) /\ a.left = b.left /\ a.right = NegateExpression(b.right)
  BY DEF RulesContradict, RuleSet
<1>2. Holds(a.right, v) <=> ~Holds(b.right, v)
  BY <1>1, NegationIsComplement
<1>3. Holds(a.left, v) => Holds(a.right, v)
  BY DEF RuleHolds
<1>4. Holds(b.left, v) => Holds(b.right, v)
  BY DEF RuleHolds
<1> QED BY <1>1, <1>2, <1>3, <1>4

\* What the signature decides is true of every call that honours it.
LEMMA SignatureTrue ==
  ASSUME NEW e \in Exprs, NEW v \in Valuations,
         \A s \in Slots : decl[s] = "!" => v[s] # Nil,
         EvaluateOperandFromNilDecl(e, decl) # "open"
  PROVE  /\ EvaluateOperandFromNilDecl(e, decl) \in {"holds", "fails"}
         /\ EvaluateOperandFromNilDecl(e, decl) = "holds" <=> Holds(e, v)
<1>1. /\ e.kind = "nil" /\ decl[SlotOf[e.ref]] = "!"
      /\ EvaluateOperandFromNilDecl(e, decl) = Outcome(e.op = "!=")
  BY DEF EvaluateOperandFromNilDecl
<1>2. SlotOf[e.ref] \in Slots /\ e.op \in EqOps
  BY <1>1, ExprShape, SlotAssumption
<1>3. v[SlotOf[e.ref]] # Nil
  BY <1>1, <1>2
<1>4. Holds(e, v) <=> e.op = "!="
  BY <1>1, <1>2, <1>3 DEF Holds, EqOps
<1> QED BY <1>1, <1>4 DEF Outcome

LEMMA SignatureVerdictTrue ==
  ASSUME NEW r \in RuleSet, NEW v \in Valuations, RuleHolds(r, v),
         \A s \in Slots : decl[s] = "!" => v[s] # Nil
  PROVE  SignatureVerdict(r) # "fails"
<1> DEFINE l == EvaluateOperandFromNilDecl(r.left, decl)
           t == EvaluateOperandFromNilDecl(r.right, decl)
<1>1. r.left \in Exprs /\ r.right \in Exprs /\ r.dir \in {"=>", "<=>"}
  BY DEF RuleSet
<1>2. l # "open" => l \in {"holds", "fails"} /\ (l = "holds" <=> Holds(r.left, v))
  BY <1>1, SignatureTrue
<1>3. t # "open" => t \in {"holds", "fails"} /\ (t = "holds" <=> Holds(r.right, v))
  BY <1>1, SignatureTrue
<1> HIDE DEF l, t
<1>4. r.dir = "=>" => (Holds(r.left, v) => Holds(r.right, v))
  BY DEF RuleHolds
<1>5. r.dir = "<=>" => (Holds(r.left, v) <=> Holds(r.right, v))
  BY DEF RuleHolds
<1>6. Combine(l, t, r.dir) # "fails"
  BY <1>1, <1>2, <1>3, <1>4, <1>5 DEF Combine, Outcome
<1> QED BY <1>6 DEF SignatureVerdict, l, t

\* The axis of two entries.
PairKey(k, l) == RootKey(EntryRule(rules, entries[k]), EntryRule(rules, entries[l]))

\* A reported pair is a pair of entries that contradict each other.
Justified(f) ==
  \E a, b \in EntryIds(rules) :
    /\ EntryRule(rules, entries[f.at[1]]) = EntryRule(rules, a)
    /\ RulesContradict(EntryRule(rules, a), EntryRule(rules, b))

\* What the walk over the pairs and the walk over the signature keep true: every
\* report rests on entries that justify it, every axis of the rows behind the
\* cursor is reported, and none twice.
SetInv ==
  /\ rules \in Seq(RuleSet)
  /\ entries \in Seq(EntryIds(rules))
  /\ check \in {"pairs", "signature"} => cursor \in Nat /\ cursor >= 1
  /\ check = "pairs" =>
       /\ \A f \in found : Justified(f)
       /\ \A f, g \in found : f.key = g.key => f = g
       /\ \A k \in 1..(cursor - 1) : \A l \in ContradictingRow(k) : \E f \in found : f.key = PairKey(k, l)
  /\ check = "signature" /\ found # {} =>
       \E a \in EntryIds(rules) : SignatureVerdict(EntryRule(rules, a)) = "fails"

LEMMA InitSet == Init => SetInv
<1> SUFFICES ASSUME Init PROVE SetInv
  OBVIOUS
<1>1. rules \in Seq(RuleSet) /\ entries = Entries(rules) /\ check = "returns"
  BY RuleAssumption DEF Init
<1>2. entries \in Seq(EntryIds(rules))
  BY <1>1, EntriesAreIds
<1> QED BY <1>1, <1>2 DEF SetInv

\* The axes of one row: each is reported once, with the first entry on it.
LEMMA RowReported ==
  ASSUME SetInv, CompareRow
  PROVE  /\ \A f \in found' : Justified(f)
         /\ \A f, g \in found' : f.key = g.key => f = g
         /\ \A k \in 1..cursor : \A l \in ContradictingRow(k) : \E f \in found' : f.key = PairKey(k, l)
<1> DEFINE row == ContradictingRow(cursor)
           key(l) == PairKey(cursor, l)
           fresh == {l \in row : /\ \A f \in found : f.key # key(l)
                                 /\ \A m \in row : m < l => key(m) # key(l)}
           rep(l) == [at |-> <<cursor, l>>, key |-> key(l)]
<1>1. /\ check = "pairs" /\ cursor \in 1..Len(entries)
      /\ found' = found \cup {rep(l) : l \in fresh}
  BY DEF CompareRow, SetInv, PairKey
<1>2. Len(entries) \in Nat /\ row \subseteq (cursor + 1)..Len(entries) /\ row \subseteq Nat
  BY <1>1 DEF SetInv, ContradictingRow
<1>3. \A l \in row : /\ entries[cursor] \in EntryIds(rules) /\ entries[l] \in EntryIds(rules)
                     /\ RulesContradict(EntryRule(rules, entries[cursor]), EntryRule(rules, entries[l]))
  <2> SUFFICES ASSUME NEW l \in row
               PROVE  /\ entries[cursor] \in EntryIds(rules) /\ entries[l] \in EntryIds(rules)
                      /\ RulesContradict(EntryRule(rules, entries[cursor]), EntryRule(rules, entries[l]))
    OBVIOUS
  <2>1. RulesContradict(EntryRule(rules, entries[cursor]), EntryRule(rules, entries[l]))
    BY DEF ContradictingRow
  <2>2. l \in 1..Len(entries)
    BY <1>1, <1>2
  <2>3. entries \in Seq(EntryIds(rules))
    BY DEF SetInv
  <2> QED BY <1>1, <2>1, <2>2, <2>3
<1> HIDE DEF row, key
<1>4. \A l : rep(l).key = key(l) /\ rep(l).at[1] = cursor
  OBVIOUS
<1>5. ASSUME NEW f \in found' PROVE Justified(f)
  <2>1. CASE f \in found
    BY <1>1, <2>1 DEF SetInv
  <2>2. CASE f \notin found
    <3>1. PICK l \in fresh : f = rep(l)
      BY <1>1, <2>2
    <3> QED BY <1>3, <1>4, <3>1 DEF Justified
  <2> QED BY <2>1, <2>2
<1>6. ASSUME NEW f \in found', NEW g \in found', f.key = g.key PROVE f = g
  <2>1. CASE f \in found /\ g \in found
    BY <1>1, <1>6, <2>1 DEF SetInv
  <2>2. CASE f \in found /\ g \notin found
    <3>1. PICK l \in fresh : g = rep(l)
      BY <1>1, <2>2
    <3> QED BY <1>4, <1>6, <2>2, <3>1
  <2>3. CASE f \notin found /\ g \in found
    <3>1. PICK l \in fresh : f = rep(l)
      BY <1>1, <2>3
    <3> QED BY <1>4, <1>6, <2>3, <3>1
  <2>4. CASE f \notin found /\ g \notin found
    <3>1. PICK l \in fresh : f = rep(l)
      BY <1>1, <2>4
    <3>2. PICK m \in fresh : g = rep(m)
      BY <1>1, <2>4
    <3>3. key(l) = key(m)
      BY <1>4, <1>6, <3>1, <3>2
    <3>4. l \in Nat /\ m \in Nat /\ ~(l < m) /\ ~(m < l)
      BY <1>2, <3>3
    <3>5. l = m
      BY <3>4
    <3> QED BY <3>1, <3>2, <3>5
  <2> QED BY <2>1, <2>2, <2>3, <2>4
<1>7. ASSUME NEW k \in 1..cursor, NEW l \in ContradictingRow(k)
      PROVE  \E f \in found' : f.key = PairKey(k, l)
  <2>1. CASE k # cursor
    <3>1. k \in 1..(cursor - 1)
      BY <1>1, <2>1
    <3>2. PICK f \in found : f.key = PairKey(k, l)
      BY <1>1, <3>1 DEF SetInv
    <3> QED BY <1>1, <3>2
  <2>2. CASE k = cursor /\ \E f \in found : f.key = key(l)
    BY <1>1, <2>2 DEF key
  <2>3. CASE k = cursor /\ \A f \in found : f.key # key(l)
    <3> DEFINE T == {m \in row : key(m) = key(l)}
    <3>1. l \in T /\ T \in SUBSET Nat
      BY <1>2, <2>3 DEF row
    <3>2. PICK m \in T : \A n \in T : m <= n
      BY <3>1, LeastExists
    <3>3. m \in fresh
      <4>1. m \in row /\ key(m) = key(l) /\ m \in Nat
        BY <3>1
      <4>2. ASSUME NEW n \in row, n < m PROVE key(n) # key(m)
        <5>1. n \in Nat /\ ~(m <= n)
          BY <1>2, <4>1, <4>2
        <5> QED BY <3>2, <4>1, <5>1
      <4> QED BY <2>3, <4>1, <4>2
    <3>4. rep(m) \in found'
      BY <1>1, <3>3
    <3> QED BY <1>4, <2>3, <3>1, <3>4 DEF key
  <2> QED BY <2>1, <2>2, <2>3
<1> QED BY <1>5, <1>6, <1>7

LEMMA NextSet == SetInv /\ [Next]_vars => SetInv'
<1> SUFFICES ASSUME SetInv, [Next]_vars PROVE SetInv'
  OBVIOUS
<1>0. rules' = rules /\ entries' = entries
  BY DEF Next, vars, VisitReturn, VisitCall, EvaluateGroup, LeaveSite, NextCheck, CompareRow,
         CheckSignature, ReportHints, ReportTags, Done
<1>1. rules' \in Seq(RuleSet) /\ entries' \in Seq(EntryIds(rules'))
  BY <1>0 DEF SetInv
<1>2. CASE check' \notin {"pairs", "signature"}
  BY <1>1, <1>2 DEF SetInv
<1>3. CASE CompareRow
  <2>1. check' = "pairs" /\ cursor' = cursor + 1 /\ check = "pairs" /\ cursor \in Nat /\ cursor >= 1
    BY <1>3 DEF CompareRow, SetInv
  <2>2. \A k : ContradictingRow(k)' = ContradictingRow(k) /\ \A l : PairKey(k, l)' = PairKey(k, l)
    BY <1>0 DEF ContradictingRow, PairKey
  <2>3. /\ \A f \in found' : Justified(f)
        /\ \A f, g \in found' : f.key = g.key => f = g
        /\ \A k \in 1..cursor : \A l \in ContradictingRow(k) : \E f \in found' : f.key = PairKey(k, l)
    BY <1>3, RowReported
  <2>4. \A f : Justified(f) => Justified(f)'
    BY <1>0 DEF Justified
  <2>5. \A k \in 1..(cursor' - 1) : \A l \in ContradictingRow(k)' : \E f \in found' : f.key = PairKey(k, l)'
    BY <2>1, <2>2, <2>3
  <2> QED BY <1>0, <1>1, <2>1, <2>3, <2>4, <2>5 DEF SetInv
<1>4. CASE CheckSignature
  <2>1. /\ check' = "signature" /\ cursor' = cursor + 1 /\ check = "signature"
        /\ cursor \in Nat /\ cursor >= 1 /\ cursor <= Len(entries) /\ decl' = decl
    BY <1>4 DEF CheckSignature, SetInv
  <2>2. \A r : SignatureVerdict(r)' = SignatureVerdict(r)
    BY <2>1 DEF SignatureVerdict
  <2>3. entries[cursor] \in EntryIds(rules)
    BY <2>1 DEF SetInv
  <2>4. ASSUME found' # {}
        PROVE  \E a \in EntryIds(rules) : SignatureVerdict(EntryRule(rules, a)) = "fails"
    <3>1. CASE found # {}
      BY <2>1, <3>1 DEF SetInv
    <3>2. CASE found = {}
      <4>1. SignatureVerdict(EntryRule(rules, entries[cursor])) = "fails"
        BY <1>4, <2>4, <3>2 DEF CheckSignature
      <4> QED BY <2>3, <4>1
    <3> QED BY <3>1, <3>2
  <2> QED BY <1>0, <1>1, <2>1, <2>2, <2>4 DEF SetInv
<1>5. CASE NextCheck
  <2>1. found' = {} /\ (check' \in {"pairs", "signature"} => cursor' = 1)
    BY <1>5 DEF NextCheck
  <2> QED BY <1>1, <2>1 DEF SetInv
<1>6. CASE UNCHANGED vars
  <2>1. /\ check' = check /\ cursor' = cursor /\ found' = found /\ decl' = decl
    BY <1>6 DEF vars
  <2>2. \A k : ContradictingRow(k)' = ContradictingRow(k) /\ \A l : PairKey(k, l)' = PairKey(k, l)
    BY <1>0 DEF ContradictingRow, PairKey
  <2>3. \A r : SignatureVerdict(r)' = SignatureVerdict(r)
    BY <2>1 DEF SignatureVerdict
  <2>4. \A f : Justified(f)' <=> Justified(f)
    BY <1>0 DEF Justified
  <2> QED BY <1>0, <2>1, <2>2, <2>3, <2>4 DEF SetInv
<1>7. CASE VisitReturn \/ VisitCall \/ EvaluateGroup \/ LeaveSite \/ ReportHints \/ ReportTags
  <2>1. check' \notin {"pairs", "signature"}
    BY <1>7 DEF VisitReturn, VisitCall, EvaluateGroup, LeaveSite, ReportHints, ReportTags
  <2> QED BY <1>2, <2>1
<1> QED BY <1>3, <1>4, <1>5, <1>6, <1>7 DEF Next, Done

\* Whatever the author writes and the signature says, a report about the rule set
\* is true: a contradictory pair leaves its left side impossible, and a rule that
\* clashes with the signature cannot be met by a call that honours both.
THEOREM SetReportsTrue == Spec => []SetReportsAreTrue
<1>1. SetInv => SetReportsAreTrue
  <2> SUFFICES ASSUME SetInv, found # {}, NEW v \in Valuations, Obeys(v, rules)
               PROVE  /\ check = "pairs" => \A f \in found : ~Holds(EntryRule(rules, entries[f.at[1]]).left, v)
                      /\ check = "signature" => \E s \in Slots : decl[s] = "!" /\ v[s] = Nil
    BY DEF SetReportsAreTrue
  <2>1. rules \in Seq(RuleSet)
    BY DEF SetInv
  <2>2. ASSUME check = "pairs", NEW f \in found
        PROVE  ~Holds(EntryRule(rules, entries[f.at[1]]).left, v)
    <3>1. PICK a \in EntryIds(rules), b \in EntryIds(rules) :
             /\ EntryRule(rules, entries[f.at[1]]) = EntryRule(rules, a)
             /\ RulesContradict(EntryRule(rules, a), EntryRule(rules, b))
      BY <2>2 DEF SetInv, Justified
    <3>2. /\ EntryRule(rules, a) \in RuleSet /\ RuleHolds(EntryRule(rules, a), v)
          /\ EntryRule(rules, b) \in RuleSet /\ RuleHolds(EntryRule(rules, b), v)
      BY <2>1, EntryIsRule
    <3> QED BY <3>1, <3>2, ContradictionTrue
  <2>3. ASSUME check = "signature" PROVE \E s \in Slots : decl[s] = "!" /\ v[s] = Nil
    <3>1. PICK a \in EntryIds(rules) : SignatureVerdict(EntryRule(rules, a)) = "fails"
      BY <2>3 DEF SetInv
    <3>2. EntryRule(rules, a) \in RuleSet /\ RuleHolds(EntryRule(rules, a), v)
      BY <2>1, EntryIsRule
    <3> QED BY <3>1, <3>2, SignatureVerdictTrue
  <2> QED BY <2>2, <2>3
<1> QED BY <1>1, InitSet, NextSet, PTL DEF Spec

\* Whatever the author writes, each contradicting axis is reported exactly once.
THEOREM AxesReportedOnce == Spec => []EveryAxisOnce
<1>1. SetInv => EveryAxisOnce
  <2> SUFFICES ASSUME SetInv, check = "pairs", cursor > Len(entries),
                      NEW a \in Range(entries), NEW b \in Range(entries), a # b,
                      ~(a.kind = "contrapositive" /\ b.kind = "contrapositive"),
                      RulesContradict(EntryRule(rules, a), EntryRule(rules, b))
               PROVE  Cardinality({f \in found : f.key = RootKey(EntryRule(rules, a), EntryRule(rules, b))}) = 1
    BY Zenon DEF EveryAxisOnce
  <2> DEFINE key == RootKey(EntryRule(rules, a), EntryRule(rules, b))
  <2>1. /\ rules \in Seq(RuleSet) /\ entries \in Seq(EntryIds(rules)) /\ Len(entries) \in Nat
        /\ DOMAIN entries = 1..Len(entries) /\ cursor \in Nat
    BY DEF SetInv
  <2>2. PICK k \in 1..Len(entries) : entries[k] = a
    BY <2>1 DEF Range
  <2>3. PICK l \in 1..Len(entries) : entries[l] = b
    BY <2>1 DEF Range
  <2>4. k # l /\ k \in 1..(cursor - 1) /\ l \in 1..(cursor - 1)
    BY <2>1, <2>2, <2>3
  <2>5. EntryRule(rules, a) \in RuleSet /\ EntryRule(rules, b) \in RuleSet
    BY <2>1, <2>2, <2>3, EntryIsRule
  <2>6. /\ RulesContradict(EntryRule(rules, b), EntryRule(rules, a))
        /\ key = RootKey(EntryRule(rules, b), EntryRule(rules, a))
    BY <2>5, ContradictSymmetric
  <2>7. \E f \in found : f.key = key
    <3>1. CASE k < l
      <4>1. l \in ContradictingRow(k)
        BY <2>2, <2>3, <3>1 DEF ContradictingRow
      <4>2. PairKey(k, l) = key
        BY <2>2, <2>3 DEF PairKey
      <4> HIDE DEF key
      <4> QED BY <2>4, <4>1, <4>2 DEF SetInv
    <3>2. CASE l < k
      <4>1. k \in ContradictingRow(l)
        BY <2>2, <2>3, <2>6, <3>2 DEF ContradictingRow
      <4>2. PairKey(l, k) = key
        BY <2>2, <2>3, <2>6 DEF PairKey
      <4> HIDE DEF key
      <4> QED BY <2>4, <4>1, <4>2 DEF SetInv
    <3> QED BY <2>4, <3>1, <3>2
  <2>8. \A f, g \in found : f.key = g.key => f = g
    BY DEF SetInv
  <2> HIDE DEF key
  <2>9. PICK f \in found : f.key = key
    BY <2>7
  <2>10. {g \in found : g.key = key} = {f}
    BY <2>8, <2>9
  <2>11. Cardinality({f}) = 1
    BY FS_Singleton
  <2> QED BY <2>10, <2>11 DEF key
<1> QED BY <1>1, InitSet, NextSet, PTL DEF Spec
=============================================================================
