------------------------------ MODULE CondExpr ------------------------------
(* The operands of vow:cond rules (`p == nil`, `n < 3`, `kind == "a"|"b"`):   *)
(* what they mean, how they are negated, and how the analyzer decides them    *)
(* from what it knows at one site (internal/analysis/cond_contrapositive.go,  *)
(* cond_logical.go, cond_caller.go, cond_range_ssa.go).                        *)
(*                                                                            *)
(* A reference names a slot of the signature: a receiver, a parameter, a      *)
(* result, or a path below one of these.  Two references may name one slot    *)
(* (`$1` and the result's name).  A value is Nil, the non-nil Obj, an         *)
(* integer, or a token (a string or boolean literal).                         *)
EXTENDS Integers, Sequences

CONSTANTS
  Refs,       \* the spellings of references
  Slots,      \* the positions they name
  SlotOf,     \* reference -> slot
  SlotKind,   \* slot -> "recv" | "param" | "result" | "path"
  Valuations, \* the well-typed values the slots can hold together
  Tokens,     \* string and boolean literals
  Bools,      \* the boolean ones
  Idents,     \* names of string constants a rule may use as a literal
  ConstValue, \* constant -> its token
  Nil, Obj

ASSUME SlotAssumption ==
  /\ SlotOf \in [Refs -> Slots]
  /\ SlotKind \in [Slots -> {"recv", "param", "result", "path"}]

ASSUME ValueAssumption ==
  /\ Nil \notin Int \cup Tokens \cup {Obj}
  /\ Obj \notin Int \cup Tokens
  /\ Tokens \cap Int = {}
  /\ Bools \subseteq Tokens
  /\ Idents \cap (Int \cup Tokens \cup {Nil, Obj}) = {}
  /\ ConstValue \in [Idents -> Tokens]
  /\ Valuations \subseteq [Slots -> Int \cup Tokens \cup {Nil, Obj}]

Literals == Int \cup Tokens
Values   == Literals \cup {Nil, Obj}
IntSlots == {s \in Slots : \A v \in Valuations : v[s] \in Int}

EqOps      == {"==", "!="}
OrderedOps == {"<", "<=", ">", ">="}

NilChecks == [kind : {"nil"}, ref : Refs, op : EqOps, members : {<<>>}]

\* A comparison carries a sum of members; an ordered one a single integer.
Comparisons ==
  {e \in [kind : {"cmp"}, ref : Refs, op : EqOps \cup OrderedOps,
          members : Seq(Literals \cup Idents \cup {Nil})] :
     /\ e.members # <<>>
     /\ e.op \in OrderedOps => /\ Len(e.members) = 1
                               /\ e.members[1] \in Int
                               /\ SlotOf[e.ref] \in IntSlots}

Exprs == NilChecks \cup Comparisons

----------------------------------------------------------------------------
(* Meaning. *)

Ordered(x, op, m) ==
  CASE op = "<"  -> x < m
    [] op = "<=" -> x <= m
    [] op = ">"  -> x > m
    [] OTHER     -> x >= m

MemberValue(m) == IF m \in Idents THEN ConstValue[m] ELSE m

Matches(e, x) == \E i \in 1..Len(e.members) : x = MemberValue(e.members[i])

Holds(e, v) ==
  LET x == v[SlotOf[e.ref]] IN
  IF e.kind = "nil" THEN (x = Nil) <=> (e.op = "==")
  ELSE IF e.op = "==" THEN Matches(e, x)
  ELSE IF e.op = "!=" THEN ~Matches(e, x)
  ELSE Ordered(x, e.op, e.members[1])

----------------------------------------------------------------------------
(* Negation. *)

\* Defect: the strict operators are flipped into one another.
FlipStrict(op) ==
  CASE op = "==" -> "!="
    [] op = "!=" -> "=="
    [] op = "<"  -> ">"
    [] op = "<=" -> ">="
    [] op = ">"  -> "<"
    [] OTHER     -> "<="

FlipComparisonOp(op) ==
  CASE op = "==" -> "!="
    [] op = "!=" -> "=="
    [] op = "<"  -> ">="
    [] op = "<=" -> ">"
    [] op = ">"  -> "<="
    [] OTHER     -> "<"

\* A sum of several members has no negation in one expression.
Negatable(e) == e.kind = "cmp" => Len(e.members) = 1

NegateExpression(e) == [e EXCEPT !.op = FlipComparisonOp(e.op)]

----------------------------------------------------------------------------
(* What a site tells the analyzer about one slot: the syntactic shape of the  *)
(* bound expression, and the nilness and the interval that the flow layers    *)
(* prove for it.                                                              *)

Bounds == [hasLower : BOOLEAN, lower : Int, hasUpper : BOOLEAN, upper : Int]

Facts == [shape   : {"absent", "nil", "nonnil", "lit", "ident"},
          val     : Literals,
          nilness : {"unknown", "nil", "nonnil"},
          range   : Bounds]

Sites == [Slots -> Facts]

\* The values a slot can really hold where the fact was established.
Consistent(f, x) ==
  /\ f.shape = "nil" => x = Nil
  /\ f.shape = "nonnil" => x # Nil
  /\ f.shape = "lit" => x = f.val
  /\ f.nilness = "nil" => x = Nil
  /\ f.nilness = "nonnil" => x # Nil
  /\ f.range.hasLower => x \in Int /\ x >= f.range.lower
  /\ f.range.hasUpper => x \in Int /\ x <= f.range.upper

Outcome(b) == IF b THEN "holds" ELSE "fails"

OrElse(first, second) == IF first = "open" THEN second ELSE first

\* evaluateNilCheck: nil literals and syntactically non-nil shapes decide.
EvaluateNilCheck(f, op) ==
  IF f.shape = "nil" THEN Outcome(op = "==")
  ELSE IF f.shape = "nonnil" THEN Outcome(op = "!=")
  ELSE "open"

LiteralKind(x) == IF x \in Int THEN "int" ELSE IF x \in Bools THEN "bool" ELSE "string"

\* compareLiterals: kinds must agree, only integers are ordered.
CompareLiterals(l, r, op) ==
  IF LiteralKind(l) # LiteralKind(r) THEN "open"
  ELSE IF op = "==" THEN Outcome(l = r)
  ELSE IF op = "!=" THEN Outcome(l # r)
  ELSE IF l \in Int THEN Outcome(Ordered(l, op, r))
  ELSE "open"

\* classifyComparisonLiteral does not resolve the name of a constant.
EvaluateComparison(f, op, m) ==
  IF f.shape = "lit" /\ m \notin Idents THEN CompareLiterals(f.val, m, op) ELSE "open"

\* ssaNarrowedNilCheck, ssaNarrowedPathNilCheck: the proved nilness.
SSANarrowedNilCheck(f, op) ==
  IF f.nilness = "nil" THEN Outcome(op = "==")
  ELSE IF f.nilness = "nonnil" THEN Outcome(op = "!=")
  ELSE "open"

\* intRangeBound.implies
Implies(r, op, k) ==
  LET below(c) == r.hasUpper /\ r.upper <= c    \* every value is <= c
      above(c) == r.hasLower /\ r.lower >= c    \* every value is >= c
      pinned   == r.hasLower /\ r.hasUpper /\ r.lower = r.upper /\ r.lower = k
      off      == above(k + 1) \/ below(k - 1)
      Decide(yes, no) == IF yes THEN "holds" ELSE IF no THEN "fails" ELSE "open"
  IN CASE op = "<"  -> Decide(below(k - 1), above(k))
       [] op = "<=" -> Decide(below(k), above(k + 1))
       [] op = ">"  -> Decide(above(k + 1), below(k))
       [] op = ">=" -> Decide(above(k), below(k - 1))
       [] op = "==" -> Decide(pinned, off)
       [] OTHER     -> Decide(off, pinned)

SSANarrowedComparison(f, op, m) ==
  IF m \in Int THEN Implies(f.range, op, m) ELSE "open"

\* One member of a sum, tested for equality by its literal or by its flow facts.
MemberByLiteral(f, m) ==
  IF m = Nil THEN EvaluateNilCheck(f, "==") ELSE EvaluateComparison(f, "==", m)

MemberBySSA(f, m) ==
  IF m = Nil THEN SSANarrowedNilCheck(f, "==") ELSE SSANarrowedComparison(f, "==", m)

\* Defect: a member nobody decided counts as a mismatch.
SumTreatsOpenAsMiss(op, outcomes) ==
  Outcome((\E i \in DOMAIN outcomes : outcomes[i] = "holds") <=> op = "==")

\* Equality needs one match, inequality needs every member to differ.
SumOutcome(op, outcomes) ==
  IF \E i \in DOMAIN outcomes : outcomes[i] = "holds" THEN Outcome(op = "==")
  ELSE IF \A i \in DOMAIN outcomes : outcomes[i] = "fails" THEN Outcome(op = "!=")
  ELSE "open"

EvaluateComparisonMembers(f, e) ==
  IF e.op \in EqOps
  THEN SumOutcome(e.op, [i \in 1..Len(e.members) |-> MemberByLiteral(f, e.members[i])])
  ELSE EvaluateComparison(f, e.op, e.members[1])

SSANarrowedComparisonMembers(f, e) ==
  IF e.op \in EqOps
  THEN SumOutcome(e.op, [i \in 1..Len(e.members) |-> MemberBySSA(f, e.members[i])])
  ELSE SSANarrowedComparison(f, e.op, e.members[1])

\* At a return a result slot is bound to the returned expression, to none at a
\* naked return.
ResolvedAtReturn(s, f) == SlotKind[s] = "result" /\ f.shape # "absent"

SignatureIdent(s) == SlotKind[s] \in {"recv", "param"}

\* Parameters, receivers and paths only have their flow facts at a return.
EvaluateOperandAtReturn(e, site) ==
  LET s == SlotOf[e.ref]
      f == site[s]
  IN CASE e.kind = "nil" /\ ResolvedAtReturn(s, f) ->
            OrElse(EvaluateNilCheck(f, e.op), SSANarrowedNilCheck(f, e.op))
       [] e.kind = "cmp" /\ ResolvedAtReturn(s, f) ->
            OrElse(EvaluateComparisonMembers(f, e), SSANarrowedComparisonMembers(f, e))
       [] e.kind = "nil" /\ (SignatureIdent(s) \/ SlotKind[s] = "path") ->
            SSANarrowedNilCheck(f, e.op)
       [] e.kind = "cmp" /\ SignatureIdent(s) -> SSANarrowedComparisonMembers(f, e)
       [] OTHER -> "open"

\* At a call the receiver and the parameters are bound to the arguments, of which
\* some may be missing; results do not exist yet.
BoundAtCall(s, f) == SignatureIdent(s) /\ f.shape # "absent"

EvaluateOperandAtCall(e, site) ==
  LET s == SlotOf[e.ref]
      f == site[s]
  IN CASE e.kind = "nil" /\ BoundAtCall(s, f) ->
            OrElse(EvaluateNilCheck(f, e.op), SSANarrowedNilCheck(f, e.op))
       [] e.kind = "cmp" /\ BoundAtCall(s, f) -> EvaluateComparisonMembers(f, e)
       [] e.kind = "nil" /\ SlotKind[s] = "path" -> SSANarrowedNilCheck(f, e.op)
       [] OTHER -> "open"

\* The vow:nil declaration of a slot decides a nil check only when it is `!`.
EvaluateOperandFromNilDecl(e, decl) ==
  LET s == SlotOf[e.ref] IN
  IF e.kind = "nil" /\ SlotKind[s] # "path" /\ decl[s] = "!"
  THEN Outcome(e.op = "!=")
  ELSE "open"

=============================================================================
