-------------------------- MODULE CallerGuardProofs --------------------------
(***************************************************************************)
(* For every set of contracts and every function: the walk examines no     *)
(* statement twice and holds one binding per local; and in a function      *)
(* without the two shapes of the known gaps, every guard it reports as     *)
(* dead is dead.                                                           *)
(***************************************************************************)
EXTENDS CallerGuard, SequenceTheorems, TLAPS

States == [op : Comparisons, val : Values]

Bindings ==
    [bound : Names, source : {"nil", "cond"}, narrow : States,
     guardName : Names \cup {Blank}, guardNarrow : States]

Maps == [pending : SUBSET Bindings, narrowed : SUBSET Bindings]

Envs(ast) == [Blocks(ast) -> [Names -> Values]]

Scans(ast) ==
    [block : Blocks(ast), at : Nat \ {0}, scope : [Names -> Blocks(ast)], b : Maps,
     envs : SUBSET Envs(ast), els : {<< >>}]

Frames(ast) ==
    [block : Blocks(ast), at : Nat \ {0}, scope : [Names -> Blocks(ast)], b : Maps,
     envs : SUBSET Envs(ast), els : Seq(Scans(ast))]

Types ==
    /\ program \in Programs
    /\ stack \in Seq(Frames(program))
    /\ scanned \subseteq Blocks(program)
    /\ visited \in Seq(Nodes(program))

-----------------------------------------------------------------------------
(* The syntax.                                                             *)

LEMMA Syntax ==
  ASSUME NEW ast \in Programs
  PROVE  /\ ast \in Seq(Range(ast)) /\ Len(ast) \in Nat
         /\ \A p \in Nodes(ast) :
              /\ NodeOK(ast, ast[p])
              /\ ast[p].end \in p .. Len(ast)
              /\ \A c \in Children(ast[p]) :
                   /\ c \in Nodes(ast) /\ p < c /\ c \in Span(ast, p)
                   /\ ast[c].up = p /\ ast[c].end <= ast[p].end
<1>1. ast \in Seq(Range(ast)) /\ IsProgram(ast)
  BY CallerGuardAssumption
<1>2. Len(ast) \in Nat
  BY <1>1, LenProperties
<1>3. ASSUME NEW p \in Nodes(ast), NEW c \in Children(ast[p])
      PROVE  /\ c \in Nodes(ast) /\ p < c /\ c \in Span(ast, p)
             /\ ast[c].up = p /\ ast[c].end <= ast[p].end
  <2>1. c \in (p + 1) .. ast[p].end /\ ast[c].up = p /\ ast[c].end <= ast[p].end
    BY <1>1 DEF IsProgram
  <2>2. ast[p].end \in p .. Len(ast)
    BY <1>1 DEF IsProgram
  <2> QED BY <2>1, <2>2, <1>2 DEF Nodes, Span
<1> QED BY <1>1, <1>2, <1>3 DEF IsProgram

\* A node inside a node spans no more than it.
LEMMA SpanInside ==
  ASSUME NEW ast \in Programs, NEW p \in Nodes(ast), NEW c \in Children(ast[p])
  PROVE  Span(ast, c) \subseteq Span(ast, p) /\ Span(ast, c) \subseteq Nodes(ast)
<1>1. /\ c \in Nodes(ast) /\ p < c /\ ast[c].end <= ast[p].end
      /\ ast[p].end \in p .. Len(ast) /\ ast[c].end \in c .. Len(ast) /\ Len(ast) \in Nat
  BY Syntax
<1> QED BY <1>1 DEF Span, Nodes

\* A block's list has its statements, each once.
LEMMA ListFacts ==
  ASSUME NEW ast \in Programs, NEW q \in Blocks(ast)
  PROVE  /\ q \in Nodes(ast)
         /\ ast[q].list \in Seq(Nat) /\ Len(ast[q].list) \in Nat
         /\ \A i \in 1 .. Len(ast[q].list) :
              /\ ast[q].list[i] \in Children(ast[q])
              /\ ast[q].list[i] \in Nodes(ast)
              /\ ast[ast[q].list[i]].up = q
              /\ \A j \in 1 .. Len(ast[q].list) : ast[q].list[i] = ast[q].list[j] => i = j
<1>1. q \in Nodes(ast) /\ ast[q].kind = "block"
  BY DEF Blocks
<1>2. NodeOK(ast, ast[q])
  BY <1>1, Syntax
<1>3. ast[q].list \in Seq(Nat) /\ IsInjective(ast[q].list)
  BY <1>1, <1>2 DEF NodeOK
<1>4. DOMAIN ast[q].list = 1 .. Len(ast[q].list) /\ Len(ast[q].list) \in Nat
  BY <1>3, LenProperties
<1>5. Children(ast[q]) = Range(ast[q].list)
  BY <1>1, Zenon DEF Children
<1>6. ASSUME NEW i \in 1 .. Len(ast[q].list)
      PROVE  /\ ast[q].list[i] \in Children(ast[q])
             /\ ast[q].list[i] \in Nodes(ast)
             /\ ast[ast[q].list[i]].up = q
             /\ \A j \in 1 .. Len(ast[q].list) : ast[q].list[i] = ast[q].list[j] => i = j
  <2>1. ast[q].list[i] \in Children(ast[q])
    BY <1>4, <1>5 DEF Range
  <2>2. \A j \in 1 .. Len(ast[q].list) : ast[q].list[i] = ast[q].list[j] => i = j
    BY <1>3, <1>4 DEF IsInjective
  <2> QED BY <1>1, <2>1, <2>2, Syntax
<1> QED BY <1>1, <1>3, <1>4, <1>6

\* An if that is descended has its blocks below it, each with its own end.
LEMMA IfFacts ==
  ASSUME NEW ast \in Programs, NEW p \in Nodes(ast), Descends(ast[p])
  PROVE  /\ ast[p].body \in Blocks(ast) /\ ast[p].body \in Children(ast[p])
         /\ ast[p].n \in Names /\ ast[p].val \in Values /\ ast[p].op \in Comparisons \cup {"?"}
         /\ ast[p].els # 0 => /\ ast[p].els \in Children(ast[p]) /\ ast[p].els # ast[p].body
                              /\ ast[p].els \in Nodes(ast)
         /\ PlainElse(ast, ast[p]) => ast[p].els \in Blocks(ast)
<1>1. ast[p].kind = "if"
  BY DEF Descends
<1>2. NodeOK(ast, ast[p])
  BY Syntax
<1>3. Children(ast[p]) = {ast[p].body, ast[p].els} \ {0}
  BY <1>1, Zenon DEF Children
<1>4. ast[p].body \in Blocks(ast) /\ ast[p].body \in 1 .. Len(ast)
  BY <1>1, <1>2 DEF NodeOK, Blocks, Nodes
<1>5. /\ ast[p].n \in Names /\ ast[p].val \in Values /\ ast[p].op \in Comparisons \cup {"?"}
      /\ ast[p].els # 0 => ast[p].els \in Nodes(ast) /\ ast[p].els # ast[p].body
  BY <1>1, <1>2 DEF NodeOK
<1>6. Len(ast) \in Nat
  BY Syntax
<1> QED BY <1>3, <1>4, <1>5, <1>6 DEF PlainElse, Blocks

-----------------------------------------------------------------------------
(* Bindings that an environment meets.                                     *)

Val(scope, e, n) == e[scope[n]][n]

\* What is taken for proved holds, and a binding that waits holds once its
\* guard does.
Meets(scope, b, e) ==
    /\ \A x \in b.narrowed : Satisfies(Val(scope, e, x.bound), x.narrow)
    /\ \A x \in b.pending :
         x.guardName # Blank /\ Satisfies(Val(scope, e, x.guardName), x.guardNarrow) =>
            Satisfies(Val(scope, e, x.bound), x.narrow)

\* The locals these claims are about.
NamesOf(b) ==
    ({x.bound : x \in b.pending \cup b.narrowed} \cup {x.guardName : x \in b.pending}) \ {Blank}

LEMMA NamesAreLocals ==
  ASSUME NEW b \in Maps
  PROVE  /\ NamesOf(b) \subseteq Names
         /\ b.pending \subseteq Bindings /\ b.narrowed \subseteq Bindings
         /\ \A x \in b.pending \cup b.narrowed : x.bound \in NamesOf(b)
         /\ \A x \in b.pending : x.guardName # Blank => x.guardName \in NamesOf(b)
<1>1. b.pending \subseteq Bindings /\ b.narrowed \subseteq Bindings
  BY DEF Maps
<1>2. \A x \in Bindings : x.bound \in Names /\ x.guardName \in Names \cup {Blank}
  BY DEF Bindings
<1>3. Blank \notin Names
  BY CallerGuardAssumption
<1> QED BY <1>1, <1>2, <1>3 DEF NamesOf

\* Fewer bindings over locals of the same values are met.
LEMMA MeetsKept ==
  ASSUME NEW b \in Maps, NEW c \in Maps,
         c.pending \subseteq b.pending, c.narrowed \subseteq b.narrowed,
         NEW scope, NEW scope2, NEW e, NEW e2, Meets(scope, b, e),
         \A m \in NamesOf(c) : Val(scope2, e2, m) = Val(scope, e, m)
  PROVE  Meets(scope2, c, e2)
<1>1. \A x \in c.narrowed : Satisfies(Val(scope2, e2, x.bound), x.narrow)
  BY NamesAreLocals DEF Meets
<1>2. \A x \in c.pending :
        x.guardName # Blank /\ Satisfies(Val(scope2, e2, x.guardName), x.guardNarrow) =>
           Satisfies(Val(scope2, e2, x.bound), x.narrow)
  BY NamesAreLocals DEF Meets
<1> QED BY <1>1, <1>2 DEF Meets

LEMMA NoBindingsFacts ==
  /\ NoBindings \in Maps /\ NamesOf(NoBindings) = {}
  /\ \A scope, e : Meets(scope, NoBindings, e)
  BY DEF NoBindings, Maps, NamesOf, Meets

LEMMA InvalidateFacts ==
  ASSUME NEW ast, NEW p, NEW b \in Maps
  PROVE  /\ Invalidate(ast, p, b) \in Maps
         /\ Invalidate(ast, p, b).pending \subseteq b.pending
         /\ Invalidate(ast, p, b).narrowed \subseteq b.narrowed
         /\ \A m \in NamesOf(Invalidate(ast, p, b)) :
              m \notin Writes(ast, p) /\ m \notin NamesDeclaredBy(ast[p])
<1> DEFINE D == NamesDeclaredBy(ast[p])
           W == Writes(ast, p)
           F == [pending  |-> {x \in b.pending : x.bound \notin D /\ x.guardName \notin D},
                 narrowed |-> {x \in b.narrowed : x.bound \notin D}]
           G == [pending  |-> {x \in F.pending : x.bound \notin W /\ x.guardName \notin W},
                 narrowed |-> {x \in F.narrowed : x.bound \notin W}]
           N == {x \in G.narrowed : x.source = "cond" => x.guardName \notin W}
           I == [G EXCEPT !.narrowed = {x \in @ : x.source = "cond" => x.guardName \notin W}]
<1>1. Invalidate(ast, p, b) = I
  BY Zenon DEF Invalidate, Drop, Forget
<1>2. /\ I.pending = G.pending
      /\ I.narrowed = {x \in G.narrowed : x.source = "cond" => x.guardName \notin W}
      /\ I = [pending |-> I.pending, narrowed |-> I.narrowed]
  <2>1. \A A, B, C : [[pending |-> A, narrowed |-> B] EXCEPT !.narrowed = C]
                     = [pending |-> A, narrowed |-> C]
    OBVIOUS
  <2>2. I = [G EXCEPT !.narrowed = N]
    OBVIOUS
  <2>3. G = [pending |-> G.pending, narrowed |-> G.narrowed]
    OBVIOUS
  <2> HIDE DEF I, G, N
  <2>4. I = [pending |-> G.pending, narrowed |-> N]
    BY <2>1, <2>2, <2>3, Zenon
  <2>5. I.pending = G.pending /\ I.narrowed = N
    BY <2>4
  <2> QED BY <2>4, <2>5 DEF N
<1>3. I.pending \subseteq b.pending /\ I.narrowed \subseteq b.narrowed
  BY <1>2
<1>4. I \in Maps
  <2>1. b.pending \subseteq Bindings /\ b.narrowed \subseteq Bindings
    BY DEF Maps
  <2> HIDE DEF I
  <2> QED BY <1>2, <1>3, <2>1 DEF Maps
<1>5. ASSUME NEW m \in NamesOf(I) PROVE m \notin W /\ m \notin D
  <2>1. \A x \in I.pending : /\ x.bound \notin D /\ x.guardName \notin D
                             /\ x.bound \notin W /\ x.guardName \notin W
    BY <1>2
  <2>2. \A x \in I.narrowed : x.bound \notin D /\ x.bound \notin W
    BY <1>2
  <2> HIDE DEF I, D, W
  <2> QED BY <2>1, <2>2 DEF NamesOf
<1> QED BY <1>1, <1>3, <1>4, <1>5

LEMMA PromotedFacts ==
  ASSUME NEW b \in Maps, NEW ps \in SUBSET b.pending
  PROVE  /\ Promoted(b, ps) \in Maps
         /\ Promoted(b, ps).pending \subseteq b.pending
         /\ Promoted(b, ps).narrowed \subseteq b.narrowed \cup ps
         /\ NamesOf(Promoted(b, ps)) \subseteq NamesOf(b)
         /\ \A scope, e :
              /\ Meets(scope, b, e)
              /\ \A x \in ps : Satisfies(Val(scope, e, x.bound), x.narrow)
              => Meets(scope, Promoted(b, ps), e)
<1> DEFINE P == Promoted(b, ps)
<1>1. P.pending = b.pending \ ps
      /\ P.narrowed = {x \in b.narrowed : \A p \in ps : p.bound # x.bound} \cup ps
  BY DEF Promoted
<1>2. P \in Maps
  <2>1. b.pending \subseteq Bindings /\ b.narrowed \subseteq Bindings
    BY DEF Maps
  <2> QED BY <2>1 DEF Promoted, Maps
<1> HIDE DEF P
<1>3. NamesOf(P) \subseteq NamesOf(b)
  BY <1>1 DEF NamesOf
<1>4. ASSUME NEW scope, NEW e, Meets(scope, b, e),
             \A x \in ps : Satisfies(Val(scope, e, x.bound), x.narrow)
      PROVE  Meets(scope, P, e)
  BY <1>1, <1>4 DEF Meets
<1> QED BY <1>1, <1>2, <1>3, <1>4 DEF P

LEMMA Opposite ==
  ASSUME NEW s \in States
  PROVE  /\ OppositeGuardState(s) \in States
         /\ \A v : Satisfies(v, OppositeGuardState(s)) <=> ~Satisfies(v, s)
<1>1. CASE s.op = "=="
  <2>1. OppositeGuardState(s) = [op |-> "!=", val |-> s.val]
    BY <1>1 DEF OppositeGuardState, States
  <2> QED BY <1>1, <2>1 DEF States, Comparisons, Satisfies
<1>2. CASE s.op # "=="
  <2>1. OppositeGuardState(s) = [op |-> "==", val |-> s.val]
    BY <1>2 DEF OppositeGuardState, States
  <2> QED BY <1>2, <2>1 DEF States, Comparisons, Satisfies
<1> QED BY <1>1, <1>2

\* A local known to satisfy proof settles the bindings that wait for that.
LEMMA ApplyFacts ==
  ASSUME NEW b \in Maps, NEW name \in Names, NEW proof
  PROVE  /\ ApplyBodyNarrow(name, proof, b) \in Maps
         /\ ApplyBodyNarrow(name, proof, b).pending \subseteq b.pending
         /\ NamesOf(ApplyBodyNarrow(name, proof, b)) \subseteq NamesOf(b)
         /\ \A scope, e : Meets(scope, b, e) /\ Satisfies(Val(scope, e, name), proof)
                          => Meets(scope, ApplyBodyNarrow(name, proof, b), e)
<1> DEFINE ps == {x \in b.pending : x.guardName = name /\ x.guardNarrow = proof}
<1>1. ApplyBodyNarrow(name, proof, b) = Promoted(b, ps)
  BY DEF ApplyBodyNarrow
<1>2. name # Blank
  BY CallerGuardAssumption
<1>3. ASSUME NEW scope, NEW e, Meets(scope, b, e), Satisfies(Val(scope, e, name), proof)
      PROVE  \A x \in ps : Satisfies(Val(scope, e, x.bound), x.narrow)
  BY <1>2, <1>3 DEF Meets
<1>4. ps \in SUBSET b.pending
  OBVIOUS
<1> HIDE DEF ps
<1> QED BY <1>1, <1>3, <1>4, PromotedFacts

\* A guard that leaves settles what its opposite proves, and no other if does.
LEMMA PromoteFacts ==
  ASSUME NEW ast \in Programs, NEW p \in Nodes(ast), NEW b \in Maps
  PROVE  /\ PromoteOnGuard(ast, ast[p], b) \in Maps
         /\ NamesOf(PromoteOnGuard(ast, ast[p], b)) \subseteq NamesOf(b)
         /\ ~LeavingGuard(ast, ast[p]) => PromoteOnGuard(ast, ast[p], b) = b
         /\ LeavingGuard(ast, ast[p]) =>
              \A scope, e :
                /\ Meets(scope, b, e)
                /\ ~Satisfies(Val(scope, e, ast[p].n), State(ast[p].op, ast[p].val))
                => Meets(scope, PromoteOnGuard(ast, ast[p], b), e)
<1>1. CASE ~LeavingGuard(ast, ast[p])
  BY <1>1 DEF PromoteOnGuard
<1>2. CASE LeavingGuard(ast, ast[p])
  <2> DEFINE x == ast[p]
             through == OppositeGuardState(State(x.op, x.val))
             B == ApplyBodyNarrow(x.n, through, b)
             ps == {y \in B.pending : y.bound = x.n /\ y.narrow = through}
  <2>1. PromoteOnGuard(ast, x, b) = Promoted(B, ps)
    BY <1>2, Zenon DEF PromoteOnGuard
  <2>2. x.n \in Names /\ State(x.op, x.val) \in States
    <3>1. x.n \in Names /\ x.val \in Values /\ x.op \in Comparisons \cup {"?"} /\ x.op # "?"
      BY <1>2, IfFacts DEF LeavingGuard, RecognisedGuardShape
    <3> QED BY <3>1 DEF State, States
  <2>3. \A v : Satisfies(v, through) <=> ~Satisfies(v, State(x.op, x.val))
    BY <2>2, Opposite
  <2>4. ps \in SUBSET B.pending /\ \A y \in ps : y.bound = x.n /\ y.narrow = through
    OBVIOUS
  <2> HIDE DEF ps, through, x
  <2>5. /\ B \in Maps /\ NamesOf(B) \subseteq NamesOf(b)
        /\ \A scope, e : Meets(scope, b, e) /\ Satisfies(Val(scope, e, x.n), through)
                         => Meets(scope, B, e)
    BY <2>2, ApplyFacts
  <2> HIDE DEF B
  <2>6. ASSUME NEW scope, NEW e, Meets(scope, b, e),
               ~Satisfies(Val(scope, e, x.n), State(x.op, x.val))
        PROVE  Meets(scope, Promoted(B, ps), e)
    <3>1. Satisfies(Val(scope, e, x.n), through)
      BY <2>3, <2>6
    <3>2. \A y \in ps : Satisfies(Val(scope, e, y.bound), y.narrow)
      BY <2>4, <3>1
    <3> QED BY <2>4, <2>5, <2>6, <3>1, <3>2, PromotedFacts
  <2>7. Promoted(B, ps) \in Maps /\ NamesOf(Promoted(B, ps)) \subseteq NamesOf(b)
    BY <2>4, <2>5, PromotedFacts
  <2> QED BY <1>2, <2>1, <2>6, <2>7 DEF x
<1> QED BY <1>1, <1>2

-----------------------------------------------------------------------------
(* The bindings of a call.                                                 *)

LEMMA CallFacts ==
  ASSUME NEW ast \in Programs, NEW p \in Nodes(ast), ast[p].kind = "call"
  PROVE  /\ IsContract(Contracts[ast[p].callee])
         /\ ast[p].lhs \in Seq(Names \cup {Blank}) /\ Len(ast[p].lhs) \in Nat
         /\ Len(ast[p].lhs) = Contracts[ast[p].callee].results
         /\ \A i \in 1 .. Len(ast[p].lhs) : ast[p].lhs[i] \in Names \cup {Blank}
         /\ \A i, j \in 1 .. Len(ast[p].lhs) :
              ast[p].lhs[i] = ast[p].lhs[j] /\ ast[p].lhs[i] # Blank => i = j
         /\ Range(ast[p].lhs) = {ast[p].lhs[i] : i \in 1 .. Len(ast[p].lhs)}
<1>1. NodeOK(ast, ast[p])
  BY Syntax
<1>2. /\ ast[p].callee \in DOMAIN Contracts
      /\ ast[p].lhs \in Seq(Names \cup {Blank})
      /\ Len(ast[p].lhs) = Contracts[ast[p].callee].results
      /\ \A i, j \in 1 .. Len(ast[p].lhs) :
           ast[p].lhs[i] = ast[p].lhs[j] /\ i # j => ast[p].lhs[i] = Blank
  BY <1>1 DEF NodeOK
<1>3. IsContract(Contracts[ast[p].callee])
  BY <1>2, CallerGuardAssumption
<1>4. /\ Len(ast[p].lhs) \in Nat /\ DOMAIN ast[p].lhs = 1 .. Len(ast[p].lhs)
      /\ \A i \in 1 .. Len(ast[p].lhs) : ast[p].lhs[i] \in Names \cup {Blank}
  BY <1>2, LenProperties, ElementOfSeq
<1> QED BY <1>2, <1>3, <1>4 DEF Range

\* A result declared `!` gives a binding that is proved at once.
LEMMA NilBindingFacts ==
  ASSUME NEW ast \in Programs, NEW p \in Nodes(ast), ast[p].kind = "call",
         NEW y \in NilBindings(ast[p])
  PROVE  /\ y \in Bindings /\ y.narrow = State("!=", Nil)
         /\ \E i \in 1 .. Len(ast[p].lhs) :
              /\ i \in Contracts[ast[p].callee].nonnil
              /\ y.bound = ast[p].lhs[i] /\ ast[p].lhs[i] # Blank
<1> DEFINE x == ast[p]
<1>1. PICK i \in {j \in Contracts[x.callee].nonnil : j <= Len(x.lhs) /\ x.lhs[j] # Blank} :
        y = [bound |-> x.lhs[i], source |-> "nil", narrow |-> State("!=", Nil),
             guardName |-> Blank, guardNarrow |-> State("!=", Nil)]
  BY DEF NilBindings
<1>2. i \in 1 .. Len(x.lhs) /\ x.lhs[i] \in Names
  BY CallFacts DEF IsContract
<1>3. State("!=", Nil) \in States
  BY CallerGuardAssumption DEF State, States, Comparisons
<1> QED BY <1>1, <1>2, <1>3 DEF Bindings

\* The guard and the target of a rule are two of its operands, and the rule says
\* that the first implies the second.
LEMMA ShapeFacts ==
  ASSUME NEW c, IsContract(c), NEW r \in Range(c.rules), NEW s \in RuleShape(r)
  PROVE  /\ OperandOK(s.guard, c) /\ OperandOK(s.target, c)
         /\ s.guard.pos # 0 /\ s.target.pos # 0
         /\ \A ret : RuleHolds(r, ret) /\ Satisfies(ret[s.guard.pos], s.guard)
                     => Satisfies(ret[s.target.pos], s.target)
<1> DEFINE L == [guard |-> r.left, target |-> r.right]
           R == [guard |-> r.right, target |-> r.left]
<1>1. OperandOK(r.left, c) /\ OperandOK(r.right, c) /\ r.dir \in {"=>", "<=>"}
  BY DEF IsContract
<1>2. r.left.pos # 0 /\ r.right.pos # 0 /\ (s = L \/ (s = R /\ r.dir # "=>"))
  BY DEF RuleShape
<1>3. ASSUME NEW ret, RuleHolds(r, ret)
      PROVE  IF r.dir = "=>"
             THEN Satisfies(ret[r.left.pos], r.left) => Satisfies(ret[r.right.pos], r.right)
             ELSE Satisfies(ret[r.left.pos], r.left) <=> Satisfies(ret[r.right.pos], r.right)
  BY <1>2, <1>3, Zenon DEF RuleHolds
<1>4. L.guard = r.left /\ L.target = r.right /\ R.guard = r.right /\ R.target = r.left
  OBVIOUS
<1> HIDE DEF L, R
<1>5. CASE s = L
  BY <1>1, <1>2, <1>3, <1>4, <1>5
<1>6. CASE s = R /\ r.dir # "=>"
  BY <1>1, <1>2, <1>3, <1>4, <1>6
<1> QED BY <1>2, <1>5, <1>6

LEMMA CondBindingFacts ==
  ASSUME NEW ast \in Programs, NEW p \in Nodes(ast), ast[p].kind = "call",
         NEW k \in 1 .. Len(Contracts[ast[p].callee].rules), NEW y \in CondBinding(ast[p], k)
  PROVE  /\ y \in Bindings
         /\ \E g, t \in 1 .. Len(ast[p].lhs) :
              /\ y.guardName = ast[p].lhs[g] /\ y.bound = ast[p].lhs[t]
              /\ ast[p].lhs[t] # Blank
              /\ \A ret \in ReturnsOf(Contracts[ast[p].callee]) :
                   Satisfies(ret[g], y.guardNarrow) => Satisfies(ret[t], y.narrow)
<1> DEFINE x == ast[p]
           c == Contracts[x.callee]
<1>1. IsContract(c) /\ c.rules[k] \in Range(c.rules)
  <2>1. IsContract(c)
    BY CallFacts
  <2>2. DOMAIN c.rules = 1 .. Len(c.rules)
    BY <2>1, LenProperties DEF IsContract
  <2> QED BY <2>1, <2>2 DEF Range
<1>2. PICK s \in {t \in RuleShape(c.rules[k]) :
                    /\ t.guard.pos <= Len(x.lhs) /\ t.target.pos <= Len(x.lhs)
                    /\ x.lhs[t.target.pos] # Blank} :
        y = [bound |-> x.lhs[s.target.pos], source |-> "cond",
             narrow |-> State(s.target.op, s.target.val),
             guardName |-> x.lhs[s.guard.pos], guardNarrow |-> State(s.guard.op, s.guard.val)]
  BY Zenon DEF CondBinding
<1>3. /\ OperandOK(s.guard, c) /\ OperandOK(s.target, c)
      /\ s.guard.pos # 0 /\ s.target.pos # 0
      /\ \A ret : RuleHolds(c.rules[k], ret) /\ Satisfies(ret[s.guard.pos], s.guard)
                  => Satisfies(ret[s.target.pos], s.target)
  BY <1>1, ShapeFacts
<1>4. /\ Len(x.lhs) \in Nat /\ c.results \in Nat /\ Len(x.lhs) = c.results
      /\ \A i \in 1 .. Len(x.lhs) : x.lhs[i] \in Names \cup {Blank}
  BY CallFacts DEF IsContract
<1>5. s.guard.pos \in 1 .. Len(x.lhs) /\ s.target.pos \in 1 .. Len(x.lhs)
  BY <1>3, <1>4 DEF OperandOK
<1>6. State(s.guard.op, s.guard.val) \in States /\ State(s.target.op, s.target.val) \in States
  BY <1>3 DEF OperandOK, State, States
<1>7. /\ y.bound = x.lhs[s.target.pos] /\ y.guardName = x.lhs[s.guard.pos]
      /\ y.narrow = State(s.target.op, s.target.val)
      /\ y.guardNarrow = State(s.guard.op, s.guard.val)
      /\ x.lhs[s.target.pos] # Blank
  BY <1>2
<1>8. y \in Bindings
  <2>1. x.lhs[s.target.pos] \in Names /\ x.lhs[s.guard.pos] \in Names \cup {Blank}
    BY <1>4, <1>5, <1>7
  <2> QED BY <1>2, <1>6, <2>1 DEF Bindings
<1>9. \A v : /\ Satisfies(v, y.narrow) <=> Satisfies(v, s.target)
             /\ Satisfies(v, y.guardNarrow) <=> Satisfies(v, s.guard)
  BY <1>7 DEF Satisfies, State
<1>10. \A ret \in ReturnsOf(c) :
         Satisfies(ret[s.guard.pos], y.guardNarrow) => Satisfies(ret[s.target.pos], y.narrow)
  BY <1>3, <1>9 DEF ReturnsOf
<1> HIDE DEF c, x
<1> QED BY <1>5, <1>7, <1>8, <1>10 DEF c, x

\* What a call records is met by what it returns.
LEMMA RecordFacts ==
  ASSUME NEW ast \in Programs, NEW p \in Nodes(ast), NEW b \in Maps
  PROVE  /\ RecordBindings(ast[p], b) \in Maps
         /\ ast[p].kind # "call" => RecordBindings(ast[p], b) = b
         /\ ast[p].kind = "call" =>
              \A scope, e :
                /\ Meets(scope, b, e)
                /\ \E ret \in ReturnsOf(Contracts[ast[p].callee]) :
                     \A i \in 1 .. Len(ast[p].lhs) :
                       ast[p].lhs[i] # Blank => Val(scope, e, ast[p].lhs[i]) = ret[i]
                => Meets(scope, RecordBindings(ast[p], b), e)
<1>1. CASE ast[p].kind # "call"
  BY <1>1 DEF RecordBindings
<1>2. CASE ast[p].kind = "call"
  <2> DEFINE x == ast[p]
             nils == NilBindings(x)
             narrowed == {y \in b.narrowed : \A z \in nils : z.bound # y.bound} \cup nils
             free(y) == \A z \in b.pending \cup narrowed : z.bound # y.bound
             rules == 1 .. Len(Contracts[x.callee].rules)
             first(y, k) == \A j \in 1 .. (k - 1) : \A z \in CondBinding(x, j) : z.bound # y.bound
             new == UNION {{y \in CondBinding(x, k) : free(y) /\ first(y, k)} : k \in rules}
             R == RecordBindings(x, b)
  <2>1. R = [pending |-> b.pending \cup new, narrowed |-> narrowed]
    BY <1>2, Zenon DEF RecordBindings
  <2>2. \A y \in new : \E k \in rules : y \in CondBinding(x, k)
    OBVIOUS
  <2>3. narrowed \subseteq b.narrowed \cup nils
    OBVIOUS
  <2> HIDE DEF new, narrowed
  <2>4. R.pending = b.pending \cup new /\ R.narrowed = narrowed
    BY <2>1
  <2>5. b.pending \subseteq Bindings /\ b.narrowed \subseteq Bindings
    BY DEF Maps
  <2>6. nils \subseteq Bindings /\ new \subseteq Bindings
    BY <1>2, <2>2, NilBindingFacts, CondBindingFacts
  <2>7. R \in Maps
    <3>1. b.pending \cup new \in SUBSET Bindings /\ narrowed \in SUBSET Bindings
      BY <2>3, <2>5, <2>6
    <3> HIDE DEF R
    <3> QED BY <2>1, <3>1 DEF Maps
  <2> HIDE DEF R, nils
  <2>8. ASSUME NEW scope, NEW e, Meets(scope, b, e),
               NEW ret \in ReturnsOf(Contracts[x.callee]),
               \A i \in 1 .. Len(x.lhs) : x.lhs[i] # Blank => Val(scope, e, x.lhs[i]) = ret[i]
        PROVE  Meets(scope, R, e)
    <3>1. ASSUME NEW y \in R.narrowed PROVE Satisfies(Val(scope, e, y.bound), y.narrow)
      <4>1. CASE y \in b.narrowed
        BY <2>8, <4>1 DEF Meets
      <4>2. CASE y \in nils
        <5>1. PICK i \in 1 .. Len(x.lhs) : /\ i \in Contracts[x.callee].nonnil
                                           /\ y.bound = x.lhs[i] /\ x.lhs[i] # Blank
          BY <1>2, <4>2, NilBindingFacts DEF nils
        <5>2. y.narrow = State("!=", Nil)
          BY <1>2, <4>2, NilBindingFacts DEF nils
        <5>3. Val(scope, e, y.bound) = ret[i] /\ ret[i] # Nil
          BY <2>8, <5>1 DEF ReturnsOf
        <5> QED BY <5>2, <5>3 DEF Satisfies, State
      <4> QED BY <2>3, <2>4, <4>1, <4>2
    <3>2. ASSUME NEW y \in R.pending, y.guardName # Blank,
                 Satisfies(Val(scope, e, y.guardName), y.guardNarrow)
          PROVE  Satisfies(Val(scope, e, y.bound), y.narrow)
      <4>1. CASE y \in b.pending
        BY <2>8, <3>2, <4>1 DEF Meets
      <4>2. CASE y \in new
        <5>1. PICK k \in rules : y \in CondBinding(x, k)
          BY <2>2, <4>2
        <5>2. PICK g, t \in 1 .. Len(x.lhs) :
                /\ y.guardName = x.lhs[g] /\ y.bound = x.lhs[t] /\ x.lhs[t] # Blank
                /\ \A r \in ReturnsOf(Contracts[x.callee]) :
                     Satisfies(r[g], y.guardNarrow) => Satisfies(r[t], y.narrow)
          BY <1>2, <5>1, CondBindingFacts
        <5>3. Val(scope, e, y.guardName) = ret[g] /\ Val(scope, e, y.bound) = ret[t]
          BY <2>8, <3>2, <5>2
        <5> QED BY <2>8, <3>2, <5>2, <5>3
      <4> QED BY <2>4, <4>1, <4>2
    <3> QED BY <3>1, <3>2 DEF Meets
  <2> QED BY <1>2, <2>7, <2>8 DEF R
<1> QED BY <1>1, <1>2

-----------------------------------------------------------------------------
(* Executions.                                                             *)

\* The results of the call p are in the locals it assigns.
Receives(ast, p, scope, e) ==
    \E ret \in ReturnsOf(Contracts[ast[p].callee]) :
      \A i \in 1 .. Len(ast[p].lhs) :
        ast[p].lhs[i] # Blank => Val(scope, e, ast[p].lhs[i]) = ret[i]

\* e and f agree, except on the visible variables of the names in ns.
Agree(ast, scope, ns, e, f) ==
    \A d \in Blocks(ast), m \in Names : f[d][m] = e[d][m] \/ (m \in ns /\ scope[m] = d)

LEMMA HavocFacts ==
  ASSUME NEW ast, NEW es \in SUBSET Envs(ast), NEW scope, NEW ns
  PROVE  /\ MayHavoc(es, scope, ns) \subseteq Envs(ast) /\ Havoc(es, scope, ns) \subseteq Envs(ast)
         /\ \A f \in MayHavoc(es, scope, ns) : \E e \in es : Agree(ast, scope, ns, e, f)
<1>1. ASSUME NEW f \in Havoc(es, scope, ns)
      PROVE  f \in Envs(ast) /\ \E e \in es : Agree(ast, scope, ns, e, f)
  <2>1. PICK e \in es, w \in [Names -> Values] :
          f = [d \in DOMAIN e |-> [n \in Names |->
                 IF n \in ns /\ scope[n] = d THEN w[n] ELSE e[d][n]]]
    BY DEF Havoc
  <2>2. e \in Envs(ast) /\ DOMAIN e = Blocks(ast)
    BY DEF Envs
  <2>3. \A d \in Blocks(ast) : e[d] \in [Names -> Values]
    BY <2>2 DEF Envs
  <2>4. f \in Envs(ast)
    BY <2>1, <2>2, <2>3 DEF Envs
  <2>5. Agree(ast, scope, ns, e, f)
    BY <2>1, <2>2 DEF Agree
  <2> QED BY <2>4, <2>5
<1>2. \A e \in es : Agree(ast, scope, ns, e, e)
  BY DEF Agree
<1> QED BY <1>1, <1>2 DEF MayHavoc

LEMMA StoreFacts ==
  ASSUME NEW ast \in Programs, NEW p \in Nodes(ast), ast[p].kind = "call",
         NEW es \in SUBSET Envs(ast), NEW scope \in [Names -> Blocks(ast)],
         NEW f \in Store(es, scope, ast[p].lhs, ReturnsOf(Contracts[ast[p].callee]))
  PROVE  /\ f \in Envs(ast)
         /\ \E e \in es : Agree(ast, scope, Range(ast[p].lhs), e, f)
         /\ Receives(ast, p, scope, f)
<1> DEFINE lhs == ast[p].lhs
           c == Contracts[ast[p].callee]
           slot(n) == CHOOSE i \in 1 .. Len(lhs) : lhs[i] = n
           named(n) == \E i \in 1 .. Len(lhs) : lhs[i] = n
<1>1. PICK e \in es, r \in ReturnsOf(c) :
        f = [d \in DOMAIN e |-> [n \in Names |->
              IF scope[n] = d /\ named(n) THEN r[slot(n)] ELSE e[d][n]]]
  BY DEF Store
<1>2. \A n : named(n) => slot(n) \in 1 .. Len(lhs) /\ lhs[slot(n)] = n
  OBVIOUS
<1>3. r \in [1 .. c.results -> Values] /\ Len(lhs) = c.results
  BY CallFacts DEF ReturnsOf
<1>4. \A i \in 1 .. Len(lhs) : lhs[i] # Blank => named(lhs[i]) /\ slot(lhs[i]) = i /\ lhs[i] \in Names
  BY <1>2, CallFacts
<1>5. ASSUME NEW n, named(n) PROVE n \in Range(lhs)
  <2>1. Range(lhs) = {lhs[i] : i \in 1 .. Len(lhs)}
    BY CallFacts
  <2> HIDE DEF lhs
  <2> QED BY <1>5, <2>1
<1>6. \A n : named(n) => r[slot(n)] \in Values
  BY <1>2, <1>3
<1>7. e \in Envs(ast) /\ DOMAIN e = Blocks(ast) /\ \A d \in Blocks(ast) : e[d] \in [Names -> Values]
  BY DEF Envs
<1> HIDE DEF slot, named, lhs, c
<1>8. f \in Envs(ast)
  BY <1>1, <1>6, <1>7 DEF Envs
<1>9. Agree(ast, scope, Range(lhs), e, f)
  BY <1>1, <1>5, <1>7 DEF Agree
<1>10. \A i \in 1 .. Len(lhs) : lhs[i] # Blank => Val(scope, f, lhs[i]) = r[i]
  BY <1>1, <1>4, <1>7 DEF Val
<1> QED BY <1>8, <1>9, <1>10 DEF lhs, c, Receives

\* What is assigned by a part is among what is written.
LEMMA WritesFacts ==
  ASSUME NEW ast \in Programs, NEW p \in Nodes(ast)
  PROVE  /\ Writes(ast, p) \subseteq Names
         /\ AssignedBy(ast[p]) \ {Blank} \subseteq Writes(ast, p)
         /\ \A c \in Children(ast[p]) : Writes(ast, c) \subseteq Writes(ast, p)
         /\ \A c \in Children(ast[p]) : ContainsFuncLit(ast, c) => ContainsFuncLit(ast, p)
         /\ ast[p].kind = "func" => ContainsFuncLit(ast, p)
<1>1. ASSUME NEW q \in Nodes(ast) PROVE AssignedBy(ast[q]) \subseteq Names \cup {Blank}
  <2>1. NodeOK(ast, ast[q])
    BY Syntax
  <2>2. CASE ast[q].kind = "call"
    BY <2>2, CallFacts DEF AssignedBy
  <2>3. CASE ast[q].kind = "rewrite"
    BY <2>1, <2>3 DEF AssignedBy, NodeOK
  <2>4. CASE ast[q].kind = "if"
    BY <2>1, <2>4 DEF AssignedBy, NodeOK
  <2>5. CASE ast[q].kind \notin {"call", "rewrite", "if"}
    BY <2>5 DEF AssignedBy
  <2> QED BY <2>2, <2>3, <2>4, <2>5
<1>2. ast[p].end \in p .. Len(ast) /\ Len(ast) \in Nat
  BY Syntax
<1>3. p \in Span(ast, p) /\ Span(ast, p) \subseteq Nodes(ast)
  BY <1>2 DEF Span, Nodes
<1>4. \A c \in Children(ast[p]) : Span(ast, c) \subseteq Span(ast, p)
  BY SpanInside
<1>5. \A c \in Children(ast[p]) : Writes(ast, c) \subseteq Writes(ast, p)
  BY <1>4 DEF Writes
<1> QED BY <1>1, <1>3, <1>4, <1>5 DEF Writes, ContainsFuncLit

\* What a statement that is not descended does to the variables.
Touched(ast, p) == Writes(ast, p) \cup NamesDeclaredBy(ast[p])

LEMMA ScopeFacts ==
  ASSUME NEW ast \in Programs, NEW p \in Nodes(ast), NEW f \in Frames(ast)
  PROVE  /\ ScopeBehind(f, ast[p]) \in [Names -> Blocks(ast)]
         /\ \A m \in Names :
              \/ ScopeBehind(f, ast[p])[m] = f.scope[m] /\ m \notin NamesDeclaredBy(ast[p])
              \/ ScopeBehind(f, ast[p])[m] = f.block /\ m \in Touched(ast, p)
<1>1. f.scope \in [Names -> Blocks(ast)] /\ f.block \in Blocks(ast)
  BY DEF Frames
<1>2. \A ns : Declared(f, ns) \in [Names -> Blocks(ast)]
  BY <1>1 DEF Declared
<1>3. CASE ast[p].kind = "call"
  <2>1. Range(ast[p].lhs) \ {Blank} \subseteq Writes(ast, p)
    BY <1>3, WritesFacts DEF AssignedBy
  <2>2. NamesDeclaredBy(ast[p]) = {}
    BY <1>3 DEF NamesDeclaredBy
  <2>3. ScopeBehind(f, ast[p]) = IF ast[p].new THEN Declared(f, Range(ast[p].lhs)) ELSE f.scope
    BY <1>3 DEF ScopeBehind
  <2>4. Blank \notin Names
    BY CallerGuardAssumption
  <2> QED BY <1>1, <1>2, <2>1, <2>2, <2>3, <2>4 DEF Declared, Touched
<1>4. CASE ast[p].kind = "var"
  BY <1>1, <1>2, <1>4 DEF ScopeBehind, Declared, NamesDeclaredBy, Touched
<1>5. CASE ast[p].kind \notin {"call", "var"}
  BY <1>1, <1>5 DEF ScopeBehind, NamesDeclaredBy
<1> QED BY <1>3, <1>4, <1>5

LEMMA EnvsFacts ==
  ASSUME NEW ast \in Programs, NEW p \in Nodes(ast), NEW f \in Frames(ast)
  PROVE  /\ EnvsBehind(ast, f, p) \subseteq Envs(ast)
         /\ ast[p].kind \notin {"range", "func"} =>
              \A e2 \in EnvsBehind(ast, f, p) : \E e \in f.envs :
                Agree(ast, ScopeBehind(f, ast[p]), Touched(ast, p), e, e2)
<1> DEFINE x == ast[p]
           scope == ScopeBehind(f, x)
<1>1. f.envs \in SUBSET Envs(ast)
  BY DEF Frames
<1>2. scope \in [Names -> Blocks(ast)]
  BY ScopeFacts
<1>3. \A ns, e, e2 : Agree(ast, scope, ns, e, e2) /\ ns \cap Names \subseteq Touched(ast, p)
                     => Agree(ast, scope, Touched(ast, p), e, e2)
  BY DEF Agree
<1> HIDE DEF scope
<1>4. CASE x.kind = "call"
  <2>1. EnvsBehind(ast, f, p) = Store(f.envs, scope, x.lhs, ReturnsOf(Contracts[x.callee]))
    BY <1>4, Zenon DEF EnvsBehind, scope
  <2>2. Range(x.lhs) \cap Names \subseteq Touched(ast, p)
    BY <1>4, WritesFacts, CallerGuardAssumption DEF AssignedBy, Touched
  <2>3. ASSUME NEW e2 \in EnvsBehind(ast, f, p)
        PROVE  e2 \in Envs(ast) /\ \E e \in f.envs : Agree(ast, scope, Touched(ast, p), e, e2)
    <3>1. e2 \in Envs(ast) /\ \E e \in f.envs : Agree(ast, scope, Range(x.lhs), e, e2)
      BY <1>1, <1>2, <1>4, <2>1, StoreFacts
    <3> QED BY <1>3, <2>2, <3>1
  <2> QED BY <2>3 DEF scope
<1>5. CASE x.kind \in {"var", "rewrite", "range", "func"}
  <2>1. EnvsBehind(ast, f, p) = Havoc(f.envs, scope, {x.n})
    <3>1. x.kind # "call"
      BY <1>5
    <3> QED BY <1>5, <3>1, Zenon DEF EnvsBehind, scope
  <2>2. x.kind \notin {"range", "func"} => x.n \in Touched(ast, p) \/ x.n = Blank
    <3>1. CASE x.kind = "var"
      BY <3>1 DEF NamesDeclaredBy, Touched
    <3>2. CASE x.kind = "rewrite"
      BY <3>2, WritesFacts DEF AssignedBy, Touched
    <3> QED BY <1>5, <3>1, <3>2
  <2>3. Blank \notin Names
    BY CallerGuardAssumption
  <2>4. x.kind \notin {"range", "func"} => {x.n} \cap Names \subseteq Touched(ast, p)
    BY <2>2, <2>3
  <2>5. \A e2 \in Havoc(f.envs, scope, {x.n}) : \E e \in f.envs : Agree(ast, scope, {x.n}, e, e2)
    BY <1>1, HavocFacts DEF MayHavoc
  <2>6. EnvsBehind(ast, f, p) \subseteq Envs(ast)
    BY <1>1, <2>1, HavocFacts
  <2>7. ASSUME NEW e2 \in EnvsBehind(ast, f, p), x.kind \notin {"range", "func"}
        PROVE  \E e \in f.envs : Agree(ast, scope, Touched(ast, p), e, e2)
    <3>1. \E e \in f.envs : Agree(ast, scope, {x.n}, e, e2)
      BY <2>1, <2>5
    <3> QED BY <1>3, <2>4, <2>7, <3>1
  <2> QED BY <2>6, <2>7 DEF scope
<1>6. CASE x.kind = "return"
  <2>1. EnvsBehind(ast, f, p) = {}
    <3>1. x.kind # "call" /\ x.kind \notin {"var", "rewrite", "range", "func"}
      BY <1>6
    <3> QED BY <1>6, <3>1, Zenon DEF EnvsBehind
  <2> QED BY <2>1
<1>7. CASE x.kind \notin {"call", "var", "rewrite", "range", "func", "return"}
  <2>1. EnvsBehind(ast, f, p) = MayHavoc(f.envs, scope, Writes(ast, p))
    <3>1. x.kind # "call" /\ x.kind \notin {"var", "rewrite", "range", "func"} /\ x.kind # "return"
      BY <1>7
    <3> QED BY <3>1, Zenon DEF EnvsBehind, scope
  <2>2. Writes(ast, p) \cap Names \subseteq Touched(ast, p)
    BY DEF Touched
  <2>3. EnvsBehind(ast, f, p) \subseteq Envs(ast)
    BY <1>1, <2>1, HavocFacts
  <2>4. ASSUME NEW e2 \in EnvsBehind(ast, f, p)
        PROVE  \E e \in f.envs : Agree(ast, scope, Touched(ast, p), e, e2)
    <3>1. \E e \in f.envs : Agree(ast, scope, Writes(ast, p), e, e2)
      BY <1>1, <2>1, HavocFacts
    <3> QED BY <1>3, <2>2, <3>1
  <2> QED BY <2>3, <2>4 DEF scope
<1> QED BY <1>4, <1>5, <1>6, <1>7

-----------------------------------------------------------------------------
(* A statement keeps what the bindings say.                                *)

\* The values of the visible variables that a statement does not touch.
LEMMA ValuesKept ==
  ASSUME NEW ast \in Programs, NEW p \in Nodes(ast), NEW f \in Frames(ast),
         NEW e, NEW e2, Agree(ast, ScopeBehind(f, ast[p]), Touched(ast, p), e, e2)
  PROVE  /\ \A m \in Names \ Touched(ast, p) :
              Val(ScopeBehind(f, ast[p]), e2, m) = Val(f.scope, e, m)
         /\ \A d \in Blocks(ast), m \in Names \ Writes(ast, p) :
              d # f.block => e2[d][m] = e[d][m]
<1>1. ScopeBehind(f, ast[p]) \in [Names -> Blocks(ast)] /\ f.scope \in [Names -> Blocks(ast)]
  BY ScopeFacts DEF Frames
<1>2. \A m \in Names :
        \/ ScopeBehind(f, ast[p])[m] = f.scope[m] /\ m \notin NamesDeclaredBy(ast[p])
        \/ ScopeBehind(f, ast[p])[m] = f.block /\ m \in Touched(ast, p)
  BY ScopeFacts
<1>3. \A m \in Names \ Touched(ast, p) :
        Val(ScopeBehind(f, ast[p]), e2, m) = Val(f.scope, e, m)
  BY <1>1, <1>2 DEF Agree, Val
<1>4. \A d \in Blocks(ast), m \in Names \ Writes(ast, p) :
        d # f.block => e2[d][m] = e[d][m]
  BY <1>1, <1>2 DEF Agree, Touched
<1> QED BY <1>3, <1>4

\* The block's own bindings, after a statement that is not descended.
LEMMA OwnKept ==
  ASSUME NEW ast \in Programs, NEW p \in Nodes(ast), NEW f \in Frames(ast),
         ast[p].kind \notin {"range", "func"}, ~Descends(ast[p]),
         \A e \in f.envs : Meets(f.scope, f.b, e),
         NEW e2 \in EnvsBehind(ast, f, p)
  PROVE  Meets(ScopeBehind(f, ast[p]), Rebound(ast, p, f.b), e2)
<1> DEFINE scope == ScopeBehind(f, ast[p])
           inv == Invalidate(ast, p, f.b)
<1>1. f.b \in Maps /\ f.envs \in SUBSET Envs(ast)
  BY DEF Frames
<1>2. PICK e \in f.envs : Agree(ast, scope, Touched(ast, p), e, e2)
  BY EnvsFacts
<1>3. /\ inv \in Maps /\ inv.pending \subseteq f.b.pending /\ inv.narrowed \subseteq f.b.narrowed
      /\ NamesOf(inv) \subseteq Names
      /\ \A m \in NamesOf(inv) : m \notin Touched(ast, p)
  BY <1>1, InvalidateFacts, NamesAreLocals DEF Touched
<1>4. \A m \in NamesOf(inv) : Val(scope, e2, m) = Val(f.scope, e, m)
  <2>1. \A m \in Names \ Touched(ast, p) : Val(scope, e2, m) = Val(f.scope, e, m)
    BY <1>2, ValuesKept
  <2> HIDE DEF inv, scope
  <2> QED BY <1>3, <2>1
<1> HIDE DEF inv, scope
<1>5. Meets(scope, inv, e2)
  BY <1>1, <1>3, <1>4, MeetsKept
<1>6. Rebound(ast, p, f.b) = RecordBindings(ast[p], inv)
  <2>1. ~LeavingGuard(ast, ast[p])
    BY DEF LeavingGuard
  <2> QED BY <1>3, <2>1, PromoteFacts DEF Rebound, inv
<1>7. CASE ast[p].kind # "call"
  BY <1>3, <1>5, <1>6, <1>7, RecordFacts DEF scope
<1>8. CASE ast[p].kind = "call"
  <2>1. EnvsBehind(ast, f, p) = Store(f.envs, scope, ast[p].lhs, ReturnsOf(Contracts[ast[p].callee]))
    BY <1>8, Zenon DEF EnvsBehind, scope
  <2>2. scope \in [Names -> Blocks(ast)]
    BY ScopeFacts DEF scope
  <2>3. Receives(ast, p, scope, e2)
    <3>1. e2 \in Store(f.envs, scope, ast[p].lhs, ReturnsOf(Contracts[ast[p].callee]))
      BY <2>1
    <3> QED BY <1>1, <1>8, <2>2, <3>1, StoreFacts
  <2> QED BY <1>3, <1>5, <1>6, <1>8, <2>3, RecordFacts DEF scope, Receives
<1> QED BY <1>7, <1>8

\* The bindings of a block around it.
LEMMA OuterKept ==
  ASSUME NEW ast \in Programs, NEW p \in Nodes(ast), NEW f \in Frames(ast),
         ast[p].kind \notin {"range", "func"},
         NEW b \in Maps, NEW scope \in [Names -> Blocks(ast)],
         \A m \in Names : scope[m] # f.block,
         \A m \in NamesOf(b) : m \notin Writes(ast, p),
         \A e \in f.envs : Meets(scope, b, e),
         NEW e2 \in EnvsBehind(ast, f, p)
  PROVE  Meets(scope, b, e2)
<1>1. PICK e \in f.envs : Agree(ast, ScopeBehind(f, ast[p]), Touched(ast, p), e, e2)
  BY EnvsFacts
<1>2. NamesOf(b) \subseteq Names
  BY NamesAreLocals
<1>3. \A m \in NamesOf(b) : Val(scope, e2, m) = Val(scope, e, m)
  BY <1>1, <1>2, ValuesKept DEF Val
<1>4. Meets(scope, b, e)
  OBVIOUS
<1> QED BY <1>3, <1>4, MeetsKept

\* The state in a branch is met by the executions that enter it.
LEMMA BranchFacts ==
  ASSUME NEW ast \in Programs, NEW p \in Nodes(ast), Descends(ast[p]),
         NEW b \in Maps, NEW proof
  PROVE  /\ Branch(ast[p], proof, b) \in Maps
         /\ NamesOf(Branch(ast[p], proof, b)) \subseteq NamesOf(b)
         /\ \A scope, e :
              /\ Meets(scope, b, e)
              /\ RecognisedGuardShape(ast[p]) => Satisfies(Val(scope, e, ast[p].n), proof)
              => Meets(scope, Branch(ast[p], proof, b), e)
<1>1. ast[p].n \in Names
  BY IfFacts
<1>2. CASE RecognisedGuardShape(ast[p])
  BY <1>1, <1>2, ApplyFacts DEF Branch
<1>3. CASE ~RecognisedGuardShape(ast[p])
  BY <1>3 DEF Branch
<1> QED BY <1>2, <1>3

\* An if rewrites the bindings by its guard alone.
LEMMA ReboundAtIf ==
  ASSUME NEW ast \in Programs, NEW p \in Nodes(ast), Descends(ast[p]), NEW b \in Maps
  PROVE  /\ Rebound(ast, p, b) = PromoteOnGuard(ast, ast[p], Invalidate(ast, p, b))
         /\ Rebound(ast, p, b) \in Maps
         /\ NamesOf(Rebound(ast, p, b)) \subseteq NamesOf(Invalidate(ast, p, b))
         /\ \A m \in NamesOf(Rebound(ast, p, b)) : m \notin Writes(ast, p)
         /\ \A scope, e :
              /\ Meets(scope, b, e)
              /\ LeavingGuard(ast, ast[p]) =>
                   ~Satisfies(Val(scope, e, ast[p].n), State(ast[p].op, ast[p].val))
              => Meets(scope, Rebound(ast, p, b), e)
<1> DEFINE inv == Invalidate(ast, p, b)
<1>1. inv \in Maps /\ \A m \in NamesOf(inv) : m \notin Writes(ast, p)
  BY InvalidateFacts
<1>2. PromoteOnGuard(ast, ast[p], inv) \in Maps
      /\ NamesOf(PromoteOnGuard(ast, ast[p], inv)) \subseteq NamesOf(inv)
  BY <1>1, PromoteFacts
<1>3. ast[p].kind # "call"
  BY DEF Descends
<1>4. Rebound(ast, p, b) = PromoteOnGuard(ast, ast[p], inv)
  BY <1>2, <1>3, RecordFacts DEF Rebound
<1>5. ASSUME NEW scope, NEW e, Meets(scope, b, e) PROVE Meets(scope, inv, e)
  BY <1>1, <1>5, InvalidateFacts, MeetsKept
<1> HIDE DEF inv
<1>6. ASSUME NEW scope, NEW e, Meets(scope, b, e),
             LeavingGuard(ast, ast[p]) =>
               ~Satisfies(Val(scope, e, ast[p].n), State(ast[p].op, ast[p].val))
      PROVE  Meets(scope, Rebound(ast, p, b), e)
  BY <1>1, <1>4, <1>5, <1>6, PromoteFacts
<1> QED BY <1>1, <1>2, <1>4, <1>6 DEF inv

-----------------------------------------------------------------------------
(* Types, and what a step does to the stack.                               *)

LEMMA FrameFacts ==
  ASSUME NEW ast, NEW f \in Frames(ast)
  PROVE  /\ f.block \in Blocks(ast) /\ f.at \in Nat \ {0} /\ f.scope \in [Names -> Blocks(ast)]
         /\ f.b \in Maps /\ f.envs \in SUBSET Envs(ast) /\ f.els \in Seq(Scans(ast))
  BY DEF Frames

LEMMA ScanIsFrame ==
  ASSUME NEW ast, NEW f \in Scans(ast)
  PROVE  f \in Frames(ast) /\ f.els = << >>
<1>1. << >> \in Seq(Scans(ast))
  OBVIOUS
<1> QED BY <1>1 DEF Scans, Frames

\* The frame at work, and the statement it has come to.
LEMMA TopFacts ==
  ASSUME Types, stack # << >>
  PROVE  /\ Len(stack) \in Nat /\ Len(stack) >= 1 /\ Top = stack[Len(stack)]
         /\ \A i \in 1 .. Len(stack) : stack[i] \in Frames(program)
         /\ Top \in Frames(program)
         /\ Top.at \in Nat /\ Top.at >= 1
         /\ TopList = program[Top.block].list /\ Len(TopList) \in Nat
         /\ Scanning => /\ Top.at \in 1 .. Len(TopList) /\ Here \in Nodes(program)
                        /\ Here \in Children(program[Top.block])
                        /\ program[Here].up = Top.block
<1>1. /\ Len(stack) \in Nat /\ Len(stack) >= 1
      /\ \A i \in 1 .. Len(stack) : stack[i] \in Frames(program)
  BY LenProperties, EmptySeq, ElementOfSeq DEF Types
<1>2. Top = stack[Len(stack)] /\ Top \in Frames(program)
  BY <1>1 DEF Top
<1>3. Top.block \in Blocks(program) /\ Top.at \in Nat /\ Top.at >= 1
  BY <1>2, FrameFacts
<1>4. TopList = program[Top.block].list
  BY DEF TopList
<1>5. program \in Programs
  BY DEF Types
<1> QED BY <1>1, <1>2, <1>3, <1>4, <1>5, ListFacts DEF Scanning, Here

LEMMA Updated ==
  ASSUME NEW S, NEW s \in Seq(S), s # << >>, NEW g \in S
  PROVE  LET t == [s EXCEPT ![Len(s)] = g]
         IN  /\ t \in Seq(S) /\ Len(t) = Len(s) /\ t # << >>
             /\ t[Len(s)] = g /\ \A i \in 1 .. (Len(s) - 1) : t[i] = s[i]
  OBVIOUS

LEMMA Pushed ==
  ASSUME NEW S, NEW s \in Seq(S), s # << >>, NEW g \in S, NEW h \in S
  PROVE  LET t == Append([s EXCEPT ![Len(s)] = g], h)
         IN  /\ t \in Seq(S) /\ Len(t) = Len(s) + 1
             /\ t[Len(s)] = g /\ t[Len(s) + 1] = h /\ \A i \in 1 .. (Len(s) - 1) : t[i] = s[i]
<1> DEFINE u == [s EXCEPT ![Len(s)] = g]
<1>1. /\ u \in Seq(S) /\ Len(u) = Len(s) /\ Len(s) \in Nat /\ Len(s) >= 1
      /\ u[Len(s)] = g /\ \A i \in 1 .. (Len(s) - 1) : u[i] = s[i]
  BY Updated, LenProperties, EmptySeq
<1> HIDE DEF u
<1>2. /\ Append(u, h) \in Seq(S) /\ Len(Append(u, h)) = Len(u) + 1
      /\ Append(u, h)[Len(u) + 1] = h /\ \A i \in 1 .. Len(u) : Append(u, h)[i] = u[i]
  BY <1>1, AppendProperties
<1> DEFINE t == Append(u, h)
<1>3. /\ t \in Seq(S) /\ Len(t) = Len(s) + 1
      /\ t[Len(s)] = g /\ t[Len(s) + 1] = h /\ \A i \in 1 .. (Len(s) - 1) : t[i] = s[i]
  BY <1>1, <1>2
<1> HIDE DEF t
<1> QED BY <1>3, Zenon DEF t, u

LEMMA StatementStep ==
  ASSUME Types, ScanStatement
  PROVE  /\ stack # << >> /\ stack' \in Seq(Frames(program)) /\ Len(stack') = Len(stack)
         /\ \A i \in 1 .. (Len(stack) - 1) : stack'[i] = stack[i]
         /\ stack'[Len(stack)].block = Top.block /\ stack'[Len(stack)].at = Top.at + 1
         /\ stack'[Len(stack)].b = Rebound(program, Here, Top.b)
         /\ stack'[Len(stack)].scope = ScopeBehind(Top, program[Here])
         /\ stack'[Len(stack)].envs = EnvsBehind(program, Top, Here)
         /\ stack'[Len(stack)].els = << >>
<1> DEFINE g == [block |-> Top.block, at |-> Top.at + 1, scope |-> ScopeBehind(Top, program[Here]),
                 b |-> Rebound(program, Here, Top.b), envs |-> EnvsBehind(program, Top, Here),
                 els |-> Top.els]
<1>1. Scanning /\ stack # << >> /\ Top.els = << >> /\ program \in Programs
  BY DEF ScanStatement, Scanning, Types
<1>2. Top \in Frames(program) /\ Top = stack[Len(stack)] /\ Here \in Nodes(program)
  BY <1>1, TopFacts
<1>4. stack' = [stack EXCEPT ![Len(stack)] = g]
  BY <1>1 DEF ScanStatement, Frame
<1>5. g \in Frames(program)
  <2>1. /\ Top.block \in Blocks(program) /\ Top.at + 1 \in Nat \ {0} /\ Top.b \in Maps
        /\ Top.els \in Seq(Scans(program))
    BY <1>2, FrameFacts
  <2>2. ScopeBehind(Top, program[Here]) \in [Names -> Blocks(program)]
    BY <1>1, <1>2, ScopeFacts
  <2>3. EnvsBehind(program, Top, Here) \in SUBSET Envs(program)
    BY <1>1, <1>2, EnvsFacts
  <2>4. Rebound(program, Here, Top.b) \in Maps
    BY <1>1, <1>2, <2>1, InvalidateFacts, PromoteFacts, RecordFacts DEF Rebound
  <2> QED BY <2>1, <2>2, <2>3, <2>4 DEF Frames
<1>6. /\ g.block = Top.block /\ g.at = Top.at + 1 /\ g.b = Rebound(program, Here, Top.b)
      /\ g.scope = ScopeBehind(Top, program[Here]) /\ g.envs = EnvsBehind(program, Top, Here)
      /\ g.els = << >>
  BY <1>1
<1> HIDE DEF g
<1>7. stack \in Seq(Frames(program))
  BY DEF Types
<1> QED BY <1>1, <1>4, <1>5, <1>6, <1>7, Updated

LEMMA FuncLitStep ==
  ASSUME Types, ScanFuncLit
  PROVE  /\ stack # << >> /\ stack' \in Seq(Frames(program)) /\ Len(stack') = Len(stack)
         /\ \A i \in 1 .. (Len(stack) - 1) : stack'[i] = stack[i]
         /\ stack'[Len(stack)].block = Top.block /\ stack'[Len(stack)].at = Top.at + 1
         /\ stack'[Len(stack)].b = NoBindings
         /\ stack'[Len(stack)].scope = Top.scope
         /\ stack'[Len(stack)].els = << >>
<1> DEFINE es == MayHavoc(Top.envs, Top.scope, Names)
           g == [block |-> Top.block, at |-> Top.at + 1, scope |-> Top.scope,
                 b |-> NoBindings, envs |-> es, els |-> Top.els]
<1>1. Scanning /\ stack # << >> /\ Top.els = << >> /\ program \in Programs
  BY DEF ScanFuncLit, Scanning, Types
<1>2. Top \in Frames(program) /\ Top = stack[Len(stack)] /\ Here \in Nodes(program)
  BY <1>1, TopFacts
<1>4. stack' = [stack EXCEPT ![Len(stack)] = g]
  BY <1>1 DEF ScanFuncLit, Frame
<1>5. g \in Frames(program)
  <2>1. /\ Top.block \in Blocks(program) /\ Top.at + 1 \in Nat \ {0}
        /\ Top.scope \in [Names -> Blocks(program)]
        /\ Top.els \in Seq(Scans(program)) /\ Top.envs \in SUBSET Envs(program)
    BY <1>2, FrameFacts
  <2>2. es \in SUBSET Envs(program)
    BY <2>1, HavocFacts
  <2> HIDE DEF es
  <2> QED BY <2>1, <2>2, NoBindingsFacts DEF Frames
<1>6. /\ g.block = Top.block /\ g.at = Top.at + 1 /\ g.b = NoBindings
      /\ g.scope = Top.scope /\ g.els = << >>
  BY <1>1
<1> HIDE DEF g
<1>7. stack \in Seq(Frames(program))
  BY DEF Types
<1> QED BY <1>1, <1>4, <1>5, <1>6, <1>7, Updated

LEMMA ScanConstructed ==
  ASSUME NEW ast, NEW blk \in Blocks(ast), NEW scope \in [Names -> Blocks(ast)], NEW b \in Maps,
         NEW es \in SUBSET Envs(ast)
  PROVE  Frame(blk, 1, scope, b, es, << >>) \in Scans(ast)
  BY DEF Frame, Scans

LEMMA BranchFrames ==
  ASSUME Types, Scanning, Descends(program[Here]), NEW b \in Maps
  PROVE  /\ BodyFrame(Top, program[Here], b) \in Scans(program)
         /\ PlainElse(program, program[Here]) => ElseFrame(Top, program[Here], b) \in Scans(program)
         /\ PassesBy(program, Top, program[Here]) \in SUBSET Envs(program)
         /\ \A t : When(Top, program[Here], t) \subseteq Top.envs
<1> DEFINE x == program[Here]
<1>1. /\ program \in Programs /\ stack # << >> /\ Top \in Frames(program)
      /\ Here \in Nodes(program)
  BY TopFacts DEF Types, Scanning
<1>2. /\ Top.scope \in [Names -> Blocks(program)] /\ Top.envs \in SUBSET Envs(program)
  BY <1>1, FrameFacts
<1>3. \A t : When(Top, x, t) \subseteq Top.envs
  BY DEF When
<1>4. \A proof : Branch(x, proof, b) \in Maps
  BY <1>1, BranchFacts
<1>5. x.body \in Blocks(program) /\ (PlainElse(program, x) => x.els \in Blocks(program))
  BY <1>1, IfFacts
<1>6. PassesBy(program, Top, x) \in SUBSET Envs(program)
  <2>1. When(Top, x, FALSE) \in SUBSET Envs(program)
    BY <1>2, <1>3
  <2>2. \A ns : MayHavoc(When(Top, x, FALSE), Top.scope, ns) \subseteq Envs(program)
    BY <2>1, HavocFacts
  <2> QED BY <2>1, <2>2 DEF PassesBy
<1> HIDE DEF x
<1>7. BodyFrame(Top, x, b) \in Scans(program)
  <2>1. When(Top, x, TRUE) \in SUBSET Envs(program)
    BY <1>2, <1>3
  <2>2. Branch(x, State(x.op, x.val), b) \in Maps
    BY <1>4
  <2> QED BY <1>2, <1>5, <2>1, <2>2, ScanConstructed DEF BodyFrame
<1>8. ASSUME PlainElse(program, x) PROVE ElseFrame(Top, x, b) \in Scans(program)
  <2>1. When(Top, x, FALSE) \in SUBSET Envs(program)
    BY <1>2, <1>3
  <2>2. Branch(x, OppositeGuardState(State(x.op, x.val)), b) \in Maps
    BY <1>4
  <2> QED BY <1>2, <1>5, <1>8, <2>1, <2>2, ScanConstructed DEF ElseFrame
<1> QED BY <1>3, <1>6, <1>7, <1>8 DEF x

LEMMA IfStep ==
  ASSUME Types, ScanIf
  PROVE  /\ stack # << >> /\ stack' \in Seq(Frames(program)) /\ Len(stack') = Len(stack) + 1
         /\ Rebound(program, Here, Top.b) \in Maps
         /\ \A i \in 1 .. (Len(stack) - 1) : stack'[i] = stack[i]
         /\ stack'[Len(stack)].block = Top.block /\ stack'[Len(stack)].at = Top.at + 1
         /\ stack'[Len(stack)].b = Rebound(program, Here, Top.b)
         /\ stack'[Len(stack)].scope = Top.scope
         /\ stack'[Len(stack)].envs = PassesBy(program, Top, program[Here])
         /\ stack'[Len(stack)].els =
              IF PlainElse(program, program[Here])
              THEN << ElseFrame(Top, program[Here], Rebound(program, Here, Top.b)) >> ELSE << >>
         /\ stack'[Len(stack) + 1] = BodyFrame(Top, program[Here], Rebound(program, Here, Top.b))
         /\ scanned' = scanned \cup {program[Here].body}
<1> DEFINE x == program[Here]
           b == Rebound(program, Here, Top.b)
           els == IF PlainElse(program, x) THEN << ElseFrame(Top, x, b) >> ELSE << >>
           g == [block |-> Top.block, at |-> Top.at + 1, scope |-> Top.scope,
                 b |-> b, envs |-> PassesBy(program, Top, x), els |-> els]
<1>1. /\ Scanning /\ stack # << >> /\ Descends(x) /\ program \in Programs
      /\ stack \in Seq(Frames(program))
  BY DEF ScanIf, Scanning, Types
<1>2. /\ Top \in Frames(program) /\ Here \in Nodes(program)
  BY <1>1, TopFacts
<1>3. /\ Top.block \in Blocks(program) /\ Top.at + 1 \in Nat \ {0}
      /\ Top.scope \in [Names -> Blocks(program)] /\ Top.b \in Maps
  BY <1>2, FrameFacts
<1>4. b \in Maps
  BY <1>1, <1>2, <1>3, ReboundAtIf
<1>5. /\ stack' = Append([stack EXCEPT ![Len(stack)] = g], BodyFrame(Top, x, b))
      /\ scanned' = scanned \cup {x.body}
  BY Zenon DEF ScanIf, Frame, Descend
<1> HIDE DEF b, x
<1>6. /\ BodyFrame(Top, x, b) \in Scans(program) /\ BodyFrame(Top, x, b) \in Frames(program)
      /\ PlainElse(program, x) => ElseFrame(Top, x, b) \in Scans(program)
      /\ PassesBy(program, Top, x) \in SUBSET Envs(program)
  BY <1>1, <1>4, BranchFrames, ScanIsFrame DEF x
<1>7. els \in Seq(Scans(program))
  BY <1>6
<1> HIDE DEF els
<1>8. g \in Frames(program)
  BY <1>3, <1>4, <1>6, <1>7 DEF Frames
<1>9. /\ g.block = Top.block /\ g.at = Top.at + 1 /\ g.b = b /\ g.scope = Top.scope
      /\ g.envs = PassesBy(program, Top, x) /\ g.els = els
  OBVIOUS
<1> HIDE DEF g
<1>10. /\ stack' \in Seq(Frames(program)) /\ Len(stack') = Len(stack) + 1
       /\ stack'[Len(stack)] = g /\ stack'[Len(stack) + 1] = BodyFrame(Top, x, b)
       /\ \A i \in 1 .. (Len(stack) - 1) : stack'[i] = stack[i]
  BY <1>1, <1>5, <1>6, <1>8, Pushed
<1> QED BY <1>1, <1>4, <1>5, <1>9, <1>10 DEF x, b, els

LEMMA ElseStep ==
  ASSUME Types, ScanElse
  PROVE  /\ stack # << >> /\ stack' \in Seq(Frames(program)) /\ Len(stack') = Len(stack) + 1
         /\ Top.els[1] \in Scans(program)
         /\ \A i \in 1 .. (Len(stack) - 1) : stack'[i] = stack[i]
         /\ stack'[Len(stack)].block = Top.block /\ stack'[Len(stack)].at = Top.at
         /\ stack'[Len(stack)].b = Top.b /\ stack'[Len(stack)].scope = Top.scope
         /\ stack'[Len(stack)].envs = Top.envs /\ stack'[Len(stack)].els = << >>
         /\ stack'[Len(stack) + 1] = Top.els[1]
         /\ scanned' = scanned \cup {Top.els[1].block}
<1> DEFINE g == [block |-> Top.block, at |-> Top.at, scope |-> Top.scope, b |-> Top.b,
                 envs |-> Top.envs, els |-> << >>]
<1>1. stack # << >> /\ Top.els # << >> /\ stack \in Seq(Frames(program))
  BY DEF ScanElse, Types
<1>2. Top \in Frames(program)
  BY <1>1, TopFacts
<1>3. Top.els[1] \in Scans(program)
  BY <1>1, <1>2, FrameFacts, LenProperties, EmptySeq, ElementOfSeq
<1>4. g \in Frames(program)
  <2>1. << >> \in Seq(Scans(program))
    OBVIOUS
  <2> QED BY <1>2, <2>1, FrameFacts DEF Frames
<1>5. /\ g.block = Top.block /\ g.at = Top.at /\ g.b = Top.b /\ g.scope = Top.scope
      /\ g.envs = Top.envs /\ g.els = << >>
  OBVIOUS
<1>6. /\ stack' = Append([stack EXCEPT ![Len(stack)] = g], Top.els[1])
      /\ scanned' = scanned \cup {Top.els[1].block}
  BY Zenon DEF ScanElse, Frame, Descend
<1> HIDE DEF g
<1>7. Top.els[1] \in Frames(program)
  BY <1>3, ScanIsFrame
<1>8. /\ stack' \in Seq(Frames(program)) /\ Len(stack') = Len(stack) + 1
      /\ stack'[Len(stack)] = g /\ stack'[Len(stack) + 1] = Top.els[1]
      /\ \A i \in 1 .. (Len(stack) - 1) : stack'[i] = stack[i]
  BY <1>1, <1>4, <1>6, <1>7, Pushed
<1> QED BY <1>1, <1>3, <1>5, <1>6, <1>8

\* The executions that leave a block.
Left == {[e EXCEPT ![Top.block] = Unset] : e \in Top.envs}

LEMMA FinishStep ==
  ASSUME Types, FinishBlock
  PROVE  /\ stack # << >> /\ stack' \in Seq(Frames(program)) /\ Len(stack') = Len(stack) - 1
         /\ Left \subseteq Envs(program)
         /\ \A i \in 1 .. (Len(stack) - 2) : stack'[i] = stack[i]
         /\ Len(stack) > 1 =>
              LET n == Len(stack) - 1 IN
              /\ stack'[n].block = stack[n].block /\ stack'[n].at = stack[n].at
              /\ stack'[n].b = stack[n].b /\ stack'[n].scope = stack[n].scope
              /\ stack'[n].envs = stack[n].envs \cup Left /\ stack'[n].els = stack[n].els
<1> DEFINE n == Len(stack) - 1
           back(f) == [block |-> f.block, at |-> f.at, scope |-> f.scope, b |-> f.b,
                       envs |-> f.envs \cup Left, els |-> f.els]
<1>1. stack # << >> /\ stack \in Seq(Frames(program))
  BY DEF FinishBlock, Types
<1>2. stack' = [i \in 1 .. n |-> IF i = n THEN back(stack[i]) ELSE stack[i]]
  BY Zenon DEF FinishBlock, Frame, Left
<1>3. /\ Top \in Frames(program) /\ n \in Nat
      /\ \A i \in 1 .. n : stack[i] \in Frames(program)
  BY <1>1, TopFacts
<1>4. Left \subseteq Envs(program)
  <2>1. Top.envs \in SUBSET Envs(program) /\ Top.block \in Blocks(program)
    BY <1>3, FrameFacts
  <2>2. Unset \in [Names -> Values]
    BY CallerGuardAssumption DEF Unset
  <2>3. \A e \in Envs(program) : [e EXCEPT ![Top.block] = Unset] \in Envs(program)
    BY <2>1, <2>2 DEF Envs
  <2> QED BY <2>1, <2>3 DEF Left
<1>5. \A f \in Frames(program) : back(f) \in Frames(program)
  <2>1. ASSUME NEW f \in Frames(program) PROVE back(f) \in Frames(program)
    <3>1. f.envs \cup Left \in SUBSET Envs(program)
      BY <1>4, FrameFacts
    <3> HIDE DEF Left
    <3> QED BY <3>1, FrameFacts DEF Frames
  <2> QED BY <2>1
<1>6. \A f : /\ back(f).block = f.block /\ back(f).at = f.at /\ back(f).scope = f.scope
             /\ back(f).b = f.b /\ back(f).envs = f.envs \cup Left /\ back(f).els = f.els
  OBVIOUS
<1> HIDE DEF back
<1>7. stack' \in Seq(Frames(program)) /\ Len(stack') = n
  BY <1>2, <1>3, <1>5
<1>8. ASSUME Len(stack) > 1 PROVE stack'[n] = back(stack[n])
  BY <1>2, <1>3, <1>8
<1>9. \A i \in 1 .. (Len(stack) - 2) : stack'[i] = stack[i]
  BY <1>2, <1>3
<1>10. n = Len(stack) - 1
  OBVIOUS
<1> HIDE DEF n
<1>11. ASSUME Len(stack) > 1
       PROVE  /\ stack'[n].block = stack[n].block /\ stack'[n].at = stack[n].at
              /\ stack'[n].b = stack[n].b /\ stack'[n].scope = stack[n].scope
              /\ stack'[n].envs = stack[n].envs \cup Left /\ stack'[n].els = stack[n].els
  BY <1>6, <1>8, <1>11
<1> QED BY <1>1, <1>4, <1>7, <1>9, <1>10, <1>11

LEMMA OpenStep ==
  ASSUME Types, ScanNextBlock
  PROVE  \E blk \in Blocks(program) \ scanned :
           /\ \A other \in Blocks(program) \ scanned : blk <= other
           /\ stack = << >> /\ stack' \in Seq(Frames(program)) /\ Len(stack') = 1
           /\ stack'[1].block = blk /\ stack'[1].at = 1 /\ stack'[1].b = NoBindings
           /\ stack'[1].scope = [n \in Names |-> blk] /\ stack'[1].els = << >>
           /\ scanned' = scanned \cup {blk}
<1>1. PICK blk \in Blocks(program) \ scanned :
        /\ \A other \in Blocks(program) \ scanned : blk <= other
        /\ stack' = << Frame(blk, 1, [n \in Names |-> blk], NoBindings, Fresh(program, blk), << >>) >>
        /\ scanned' = scanned \cup {blk}
  BY DEF ScanNextBlock
<1> DEFINE g == Frame(blk, 1, [n \in Names |-> blk], NoBindings, Fresh(program, blk), << >>)
<1>2. Fresh(program, blk) \in SUBSET Envs(program)
  BY CallerGuardAssumption DEF Fresh, Unset, Envs
<1>3. g \in Frames(program)
  <2>1. << >> \in Seq(Scans(program))
    OBVIOUS
  <2> QED BY <1>2, <2>1, NoBindingsFacts DEF Frames, Frame
<1>4. /\ g.block = blk /\ g.at = 1 /\ g.b = NoBindings /\ g.scope = [n \in Names |-> blk]
      /\ g.els = << >>
  BY DEF Frame
<1>5. stack' = << g >>
  BY <1>1
<1> HIDE DEF g
<1>6. stack' \in Seq(Frames(program)) /\ Len(stack') = 1 /\ stack'[1] = g
  BY <1>3, <1>5
<1>7. stack = << >>
  BY DEF ScanNextBlock
<1> QED BY <1>1, <1>4, <1>6, <1>7

LEMMA TypesInductive ==
  /\ Init => Types
  /\ Types /\ [Next]_vars => Types' /\ program' = program
<1>1. Init => Types
  BY DEF Init, Types
<1>2. ASSUME Types, UNCHANGED vars PROVE Types' /\ program' = program
  BY <1>2 DEF Types, vars
<1>3. ASSUME Types, Report, stack # << >>, Here \in Nodes(program)
      PROVE  program' = program /\ visited' \in Seq(Nodes(program))
  BY <1>3, AppendProperties DEF Types, Report
<1>4. ASSUME Types, ScanFuncLit PROVE Types' /\ program' = program
  <2>1. Report /\ Scanning /\ stack # << >> /\ scanned' = scanned
    BY <1>4 DEF ScanFuncLit, Scanning
  <2> QED BY <1>3, <1>4, <2>1, TopFacts, FuncLitStep DEF Types
<1>5. ASSUME Types, ScanStatement PROVE Types' /\ program' = program
  <2>1. Report /\ Scanning /\ stack # << >> /\ scanned' = scanned
    BY <1>5 DEF ScanStatement, Scanning
  <2> QED BY <1>3, <1>5, <2>1, TopFacts, StatementStep DEF Types
<1>6. ASSUME Types, ScanIf PROVE Types' /\ program' = program
  <2>1. Report /\ Scanning /\ stack # << >> /\ Descends(program[Here])
    BY <1>6 DEF ScanIf, Scanning
  <2>2. program[Here].body \in Blocks(program)
    BY <1>6, <2>1, TopFacts, IfFacts DEF Types
  <2> QED BY <1>3, <1>6, <2>1, <2>2, TopFacts, IfStep DEF Types
<1>7. ASSUME Types, ScanElse PROVE Types' /\ program' = program
  <2>1. program' = program /\ visited' = visited
    BY <1>7 DEF ScanElse
  <2>2. Top.els[1].block \in Blocks(program)
    BY <1>7, ElseStep, ScanIsFrame, FrameFacts
  <2> QED BY <1>7, <2>1, <2>2, ElseStep DEF Types
<1>8. ASSUME Types, FinishBlock PROVE Types' /\ program' = program
  <2>1. program' = program /\ visited' = visited /\ scanned' = scanned
    BY <1>8 DEF FinishBlock
  <2> QED BY <1>8, <2>1, FinishStep DEF Types
<1>9. ASSUME Types, ScanNextBlock PROVE Types' /\ program' = program
  <2>1. program' = program /\ visited' = visited
    BY <1>9 DEF ScanNextBlock
  <2> QED BY <1>9, <2>1, OpenStep DEF Types
<1> QED BY <1>1, <1>2, <1>4, <1>5, <1>6, <1>7, <1>8, <1>9 DEF Next, Done

-----------------------------------------------------------------------------
(* The walk.  A statement of an entered block was scanned or waits in the  *)
(* frame of that block, never both; a block below a statement that a block *)
(* lists is entered only after that statement was scanned.  So the block   *)
(* the descent comes to is new: the walk of the file, which goes in source *)
(* order, cannot have been there first.                                    *)

Seen == {visited[i] : i \in 1 .. Len(visited)}

Walked(ast, stk, n, scn, seen) ==
    /\ \A q \in scn : \A k \in 1 .. Len(ast[q].list) :
         \/ ast[q].list[k] \in seen
         \/ \E i \in 1 .. n : stk[i].block = q /\ stk[i].at <= k
    /\ \A p \in seen : ast[p].up \in scn
    /\ \A q \in Blocks(ast) : \A k \in 1 .. Len(ast[q].list) :
         \A c \in Children(ast[ast[q].list[k]]) : c \in scn => ast[q].list[k] \in seen

\* The frames, and the else blocks that wait in them.
OnStack(ast, stk, n, scn, seen) ==
    /\ \A i \in 1 .. n : stk[i].block \in scn
    /\ \A i, j \in 1 .. n : stk[i].block = stk[j].block => i = j
    /\ \A i \in 1 .. n : \A k \in 1 .. Len(ast[stk[i].block].list) :
         stk[i].at <= k => ast[stk[i].block].list[k] \notin seen
    /\ \A i \in 1 .. n : stk[i].els # << >> =>
         /\ stk[i].els[1].block \notin scn /\ stk[i].els[1].at = 1 /\ stk[i].els[1].els = << >>
         /\ \E p \in seen : ast[p].up = stk[i].block /\ stk[i].els[1].block \in Children(ast[p])

Walk ==
    /\ NoStatementTwice
    /\ Walked(program, stack, Len(stack), scanned, Seen)
    /\ OnStack(program, stack, Len(stack), scanned, Seen)

LEMMA SeenFacts ==
  ASSUME Types
  PROVE  Seen \subseteq Nodes(program)
         /\ \A p \in Nodes(program) : visited' = Append(visited, p) => Seen' = Seen \cup {p}
         /\ (visited' = visited => Seen' = Seen)
<1>1. visited \in Seq(Nodes(program)) /\ Len(visited) \in Nat
  BY LenProperties DEF Types
<1>2. Seen \subseteq Nodes(program)
  BY <1>1, ElementOfSeq DEF Seen
<1>3. ASSUME NEW p \in Nodes(program), visited' = Append(visited, p)
      PROVE  Seen' = Seen \cup {p}
  <2>1. /\ Len(visited') = Len(visited) + 1 /\ visited'[Len(visited) + 1] = p
        /\ \A i \in 1 .. Len(visited) : visited'[i] = visited[i]
    BY <1>1, <1>3, AppendProperties
  <2>2. 1 .. (Len(visited) + 1) = 1 .. Len(visited) \cup {Len(visited) + 1}
    BY <1>1
  <2> QED BY <1>1, <2>1, <2>2 DEF Seen
<1> QED BY <1>2, <1>3 DEF Seen

\* The frame on top scans the statement it has come to.
Advances(ast, stk, stk2, n, here) ==
    /\ stk[n].at <= Len(ast[stk[n].block].list) /\ here = ast[stk[n].block].list[stk[n].at]
    /\ \A i \in 1 .. (n - 1) : stk2[i] = stk[i]
    /\ stk2[n].block = stk[n].block /\ stk2[n].at = stk[n].at + 1
    /\ stk2[n].els # << >> => /\ stk2[n].els[1].block \in Children(ast[here])
                              /\ stk2[n].els[1].at = 1 /\ stk2[n].els[1].els = << >>

LEMMA Advance ==
  ASSUME NEW ast \in Programs, NEW stk, NEW stk2, NEW n \in Nat \ {0}, NEW scn, NEW seen, NEW here,
         Walked(ast, stk, n, scn, seen), OnStack(ast, stk, n, scn, seen),
         \A i \in 1 .. n : stk[i].block \in Blocks(ast) /\ stk[i].at \in Nat \ {0},
         Advances(ast, stk, stk2, n, here)
  PROVE  /\ here \notin seen /\ ast[here].up = stk[n].block
         /\ \A c \in Children(ast[here]) : c \notin scn
         /\ Walked(ast, stk2, n, scn, seen \cup {here})
         /\ OnStack(ast, stk2, n, scn, seen \cup {here})
<1> DEFINE B == stk[n].block
           L == ast[B].list
<1>0. /\ B \in Blocks(ast) /\ stk[n].at \in Nat \ {0} /\ n \in 1 .. n
      /\ stk[n].at <= Len(L) /\ here = L[stk[n].at]
      /\ \A i \in 1 .. n : stk2[i].block = stk[i].block
      /\ \A i \in 1 .. n : i # n => stk2[i] = stk[i]
      /\ stk2[n].at = stk[n].at + 1
  BY DEF Advances
<1>1. stk[n].at \in 1 .. Len(L) /\ Len(L) \in Nat
  <2> HIDE DEF B
  <2> QED BY <1>0, ListFacts
<1>2. /\ here \in Nodes(ast) /\ ast[here].up = B
      /\ \A k \in 1 .. Len(L) : L[k] = here => k = stk[n].at
  <2> HIDE DEF B
  <2> QED BY <1>0, <1>1, ListFacts
<1>3. here \notin seen
  BY <1>0, <1>1, <1>2 DEF OnStack
<1>4. \A c \in Children(ast[here]) : c \notin scn
  BY <1>0, <1>1, <1>2, <1>3 DEF Walked
<1>5. Walked(ast, stk2, n, scn, seen \cup {here})
  <2>1. ASSUME NEW q \in scn, NEW k \in 1 .. Len(ast[q].list)
        PROVE  \/ ast[q].list[k] \in seen \cup {here}
               \/ \E i \in 1 .. n : stk2[i].block = q /\ stk2[i].at <= k
    <3>1. CASE ast[q].list[k] \in seen
      BY <3>1
    <3>2. CASE \E i \in 1 .. n : stk[i].block = q /\ stk[i].at <= k
      <4>1. PICK i \in 1 .. n : stk[i].block = q /\ stk[i].at <= k
        BY <3>2
      <4>2. CASE i # n
        BY <1>0, <1>1, <4>1, <4>2
      <4>3. CASE i = n /\ k = stk[n].at
        BY <1>0, <4>1, <4>3
      <4>4. CASE i = n /\ k # stk[n].at
        BY <1>0, <1>1, <4>1, <4>4
      <4> QED BY <4>2, <4>3, <4>4
    <3> QED BY <3>1, <3>2 DEF Walked
  <2>2. \A p \in seen \cup {here} : ast[p].up \in scn
    BY <1>0, <1>1, <1>2 DEF Walked, OnStack
  <2>3. \A q \in Blocks(ast) : \A k \in 1 .. Len(ast[q].list) :
          \A c \in Children(ast[ast[q].list[k]]) :
             c \in scn => ast[q].list[k] \in seen \cup {here}
    BY DEF Walked
  <2> QED BY <2>1, <2>2, <2>3 DEF Walked
<1>6. OnStack(ast, stk2, n, scn, seen \cup {here})
  <2>1. \A i \in 1 .. n : stk2[i].block \in scn
    BY <1>0, <1>1 DEF OnStack
  <2>2. \A i, j \in 1 .. n : stk2[i].block = stk2[j].block => i = j
    BY <1>0, <1>1 DEF OnStack
  <2>3. ASSUME NEW i \in 1 .. n, NEW k \in 1 .. Len(ast[stk2[i].block].list), stk2[i].at <= k
        PROVE  ast[stk2[i].block].list[k] \notin seen \cup {here}
    <3> DEFINE Q == stk[i].block
    <3>1. Q \in Blocks(ast) /\ stk2[i].block = Q /\ k \in 1 .. Len(ast[Q].list)
      BY <1>0, <1>1, <2>3
    <3>2. stk[i].at <= k /\ (i = n => k # stk[n].at)
      BY <1>0, <1>1, <2>3
    <3>3. ast[Q].list[k] \notin seen
      BY <3>1, <3>2 DEF OnStack
    <3>4. i # n => Q # B
      BY <1>0, <1>1 DEF OnStack
    <3>5. i = n => Q = B
      OBVIOUS
    <3> HIDE DEF Q, B
    <3>6. ast[ast[Q].list[k]].up = Q
      BY <3>1, ListFacts
    <3>7. ast[Q].list[k] # here
      BY <1>2, <3>1, <3>2, <3>4, <3>5, <3>6
    <3> QED BY <3>1, <3>3, <3>7
  <2>4. ASSUME NEW i \in 1 .. n, stk2[i].els # << >>
        PROVE  /\ stk2[i].els[1].block \notin scn /\ stk2[i].els[1].at = 1
               /\ stk2[i].els[1].els = << >>
               /\ \E p \in seen \cup {here} : /\ ast[p].up = stk2[i].block
                                              /\ stk2[i].els[1].block \in Children(ast[p])
    <3>1. CASE i = n
      BY <1>0, <1>2, <1>4, <2>4, <3>1 DEF Advances
    <3>2. CASE i # n
      <4>1. stk2[i] = stk[i]
        BY <1>0, <1>1, <3>2
      <4> QED BY <2>4, <4>1 DEF OnStack
    <3> QED BY <3>1, <3>2
  <2> QED BY <2>1, <2>2, <2>3, <2>4 DEF OnStack
<1> QED BY <1>2, <1>3, <1>4, <1>5, <1>6

\* Frames that differ in what they carry, or no longer keep an else block waiting.
LEMMA SameFrames ==
  ASSUME NEW ast, NEW stk, NEW stk2, NEW n \in Nat, NEW scn, NEW seen,
         Walked(ast, stk, n, scn, seen), OnStack(ast, stk, n, scn, seen),
         \A i \in 1 .. n : /\ stk2[i].block = stk[i].block /\ stk2[i].at = stk[i].at
                           /\ stk2[i].els = stk[i].els \/ stk2[i].els = << >>
  PROVE  Walked(ast, stk2, n, scn, seen) /\ OnStack(ast, stk2, n, scn, seen)
<1>1. Walked(ast, stk2, n, scn, seen)
  BY DEF Walked
<1>2. \A i \in 1 .. n : stk2[i].els # << >> => stk2[i].els = stk[i].els
  OBVIOUS
<1>3. OnStack(ast, stk2, n, scn, seen)
  BY <1>2 DEF OnStack
<1> QED BY <1>1, <1>3

\* A frame for a block below a statement that was scanned.
LEMMA Push ==
  ASSUME NEW ast \in Programs, NEW stk, NEW n \in Nat, NEW m, m = n + 1, NEW scn, NEW seen,
         Walked(ast, stk, n, scn, seen), OnStack(ast, stk, n, scn, seen),
         stk[m].block \in Blocks(ast) \ scn, stk[m].at = 1, stk[m].els = << >>,
         \A i \in 1 .. n : stk[i].els # << >> => stk[i].els[1].block # stk[m].block,
         \A q \in Blocks(ast) : \A k \in 1 .. Len(ast[q].list) :
           stk[m].block \in Children(ast[ast[q].list[k]]) => ast[q].list[k] \in seen
  PROVE  /\ Walked(ast, stk, m, scn \cup {stk[m].block}, seen)
         /\ OnStack(ast, stk, m, scn \cup {stk[m].block}, seen)
<1> DEFINE c == stk[m].block
<1>1. /\ c \in Blocks(ast) /\ c \notin scn /\ m \in 1 .. m
      /\ 1 .. m = 1 .. n \cup {m}
  OBVIOUS
<1>2. \A k \in 1 .. Len(ast[c].list) : ast[ast[c].list[k]].up = c
  BY <1>1, ListFacts
<1>3. \A k \in 1 .. Len(ast[c].list) : ast[c].list[k] \notin seen
  BY <1>1, <1>2 DEF Walked
<1>4. Walked(ast, stk, m, scn \cup {c}, seen)
  <2>1. ASSUME NEW q \in scn \cup {c}, NEW k \in 1 .. Len(ast[q].list)
        PROVE  \/ ast[q].list[k] \in seen
               \/ \E i \in 1 .. m : stk[i].block = q /\ stk[i].at <= k
    <3>1. CASE q \in scn
      <4>1. \/ ast[q].list[k] \in seen
            \/ \E i \in 1 .. n : stk[i].block = q /\ stk[i].at <= k
        BY <3>1 DEF Walked
      <4> QED BY <1>1, <4>1
    <3>2. CASE q = c
      BY <1>1, <3>2
    <3> QED BY <3>1, <3>2
  <2>2. \A p \in seen : ast[p].up \in scn \cup {c}
    BY DEF Walked
  <2>3. \A q \in Blocks(ast) : \A k \in 1 .. Len(ast[q].list) :
          \A d \in Children(ast[ast[q].list[k]]) : d \in scn \cup {c} => ast[q].list[k] \in seen
    BY DEF Walked
  <2> HIDE DEF c
  <2> QED BY <2>1, <2>2, <2>3 DEF Walked
<1>5. OnStack(ast, stk, m, scn \cup {c}, seen)
  <2>1. \A i \in 1 .. m : stk[i].block \in scn \cup {c}
    BY <1>1 DEF OnStack
  <2>2. \A i, j \in 1 .. m : stk[i].block = stk[j].block => i = j
    BY <1>1 DEF OnStack
  <2>3. \A i \in 1 .. m : \A k \in 1 .. Len(ast[stk[i].block].list) :
          stk[i].at <= k => ast[stk[i].block].list[k] \notin seen
    BY <1>1, <1>3 DEF OnStack
  <2>4. ASSUME NEW i \in 1 .. m, stk[i].els # << >>
        PROVE  /\ stk[i].els[1].block \notin scn \cup {c} /\ stk[i].els[1].at = 1
               /\ stk[i].els[1].els = << >>
               /\ \E p \in seen : /\ ast[p].up = stk[i].block
                                  /\ stk[i].els[1].block \in Children(ast[p])
    <3>1. i \in 1 .. n
      BY <1>1, <2>4
    <3> QED BY <2>4, <3>1 DEF OnStack
  <2> HIDE DEF c
  <2> QED BY <2>1, <2>2, <2>3, <2>4 DEF OnStack
<1> QED BY <1>4, <1>5

\* A block whose statements were all scanned.
LEMMA Pop ==
  ASSUME NEW ast \in Programs, NEW stk, NEW n \in Nat \ {0}, NEW scn, NEW seen,
         Walked(ast, stk, n, scn, seen), OnStack(ast, stk, n, scn, seen),
         stk[n].block \in Blocks(ast), stk[n].at \in Nat,
         stk[n].at > Len(ast[stk[n].block].list)
  PROVE  Walked(ast, stk, n - 1, scn, seen) /\ OnStack(ast, stk, n - 1, scn, seen)
<1>1. Len(ast[stk[n].block].list) \in Nat
  BY ListFacts
<1>2. ASSUME NEW q \in scn, NEW k \in 1 .. Len(ast[q].list), ast[q].list[k] \notin seen
      PROVE  \E i \in 1 .. (n - 1) : stk[i].block = q /\ stk[i].at <= k
  <2>1. PICK i \in 1 .. n : stk[i].block = q /\ stk[i].at <= k
    BY <1>2 DEF Walked
  <2>2. i # n
    BY <1>1, <2>1
  <2> QED BY <2>1, <2>2
<1>3. Walked(ast, stk, n - 1, scn, seen)
  BY <1>2 DEF Walked
<1>4. 1 .. (n - 1) \subseteq 1 .. n
  OBVIOUS
<1>5. OnStack(ast, stk, n - 1, scn, seen)
  BY <1>4 DEF OnStack
<1> QED BY <1>3, <1>5


\* The frame on top after it scanned a statement, whatever is put on it.
LEMMA TopAdvances ==
  ASSUME Types, Walk, Scanning, visited' = Append(visited, Here), program' = program,
         \A i \in 1 .. (Len(stack) - 1) : stack'[i] = stack[i],
         stack'[Len(stack)].block = Top.block, stack'[Len(stack)].at = Top.at + 1,
         stack'[Len(stack)].els # << >> =>
            /\ stack'[Len(stack)].els[1].block \in Children(program[Here])
            /\ stack'[Len(stack)].els[1].at = 1 /\ stack'[Len(stack)].els[1].els = << >>
  PROVE  /\ Here \notin Seen /\ Seen' = Seen \cup {Here} /\ NoStatementTwice'
         /\ \A c \in Children(program[Here]) : c \notin scanned
         /\ Walked(program, stack', Len(stack), scanned, Seen')
         /\ OnStack(program, stack', Len(stack), scanned, Seen')
<1>1. /\ stack # << >> /\ Len(stack) \in Nat \ {0} /\ Top = stack[Len(stack)]
      /\ program \in Programs /\ Here \in Nodes(program)
      /\ \A i \in 1 .. Len(stack) : stack[i] \in Frames(program)
      /\ Top.at \in 1 .. Len(program[Top.block].list)
      /\ Here = program[Top.block].list[Top.at]
  BY TopFacts DEF Scanning, Types, Here
<1>2. \A i \in 1 .. Len(stack) : stack[i].block \in Blocks(program) /\ stack[i].at \in Nat \ {0}
  BY <1>1, FrameFacts
<1>3. /\ Walked(program, stack, Len(stack), scanned, Seen)
      /\ OnStack(program, stack, Len(stack), scanned, Seen)
      /\ NoStatementTwice
  BY DEF Walk
<1>4. Seen' = Seen \cup {Here}
  BY <1>1, SeenFacts
<1>5. /\ Here \notin Seen
      /\ \A c \in Children(program[Here]) : c \notin scanned
      /\ Walked(program, stack', Len(stack), scanned, Seen \cup {Here})
      /\ OnStack(program, stack', Len(stack), scanned, Seen \cup {Here})
  <2> DEFINE n == Len(stack)
             here == Here
  <2>1. Advances(program, stack, stack', n, here)
    BY <1>1 DEF Advances
  <2>2. n \in Nat \ {0} /\ \A i \in 1 .. n : stack[i].block \in Blocks(program) /\ stack[i].at \in Nat \ {0}
    BY <1>1, <1>2
  <2>4. Walked(program, stack, n, scanned, Seen) /\ OnStack(program, stack, n, scanned, Seen)
    BY <1>3
  <2> HIDE DEF n, here
  <2>3. /\ here \notin Seen
        /\ \A c \in Children(program[here]) : c \notin scanned
        /\ Walked(program, stack', n, scanned, Seen \cup {here})
        /\ OnStack(program, stack', n, scanned, Seen \cup {here})
    <3>1. here \notin Seen /\ \A c \in Children(program[here]) : c \notin scanned
      BY <1>1, <2>1, <2>2, <2>4, Advance
    <3>2. /\ Walked(program, stack', n, scanned, Seen \cup {here})
          /\ OnStack(program, stack', n, scanned, Seen \cup {here})
      BY <1>1, <2>1, <2>2, <2>4, Advance
    <3> QED BY <3>1, <3>2
  <2> QED BY <2>3 DEF n, here
<1>6. NoStatementTwice'
  <2>1. visited \in Seq(Nodes(program)) /\ Len(visited) \in Nat
    BY LenProperties DEF Types
  <2>2. /\ Len(visited') = Len(visited) + 1 /\ visited'[Len(visited) + 1] = Here
        /\ \A i \in 1 .. Len(visited) : visited'[i] = visited[i]
    BY <1>1, <2>1, AppendProperties
  <2>3. \A i \in 1 .. Len(visited) : visited[i] # Here
    BY <1>5 DEF Seen
  <2> QED BY <1>3, <2>1, <2>2, <2>3 DEF NoStatementTwice
<1> QED BY <1>4, <1>5, <1>6

\* A statement that is scanned without descending.
LEMMA WalkStays ==
  ASSUME Types, Walk, Scanning, visited' = Append(visited, Here), program' = program,
         scanned' = scanned, Len(stack') = Len(stack),
         \A i \in 1 .. (Len(stack) - 1) : stack'[i] = stack[i],
         stack'[Len(stack)].block = Top.block, stack'[Len(stack)].at = Top.at + 1,
         stack'[Len(stack)].els = << >>
  PROVE  Walk'
<1>1. /\ NoStatementTwice'
      /\ Walked(program, stack', Len(stack), scanned, Seen')
      /\ OnStack(program, stack', Len(stack), scanned, Seen')
  BY TopAdvances
<1> QED BY <1>1 DEF Walk

LEMMA WalkDescends ==
  ASSUME Types, Walk, ScanIf, program' = program
  PROVE  Walk'
<1> DEFINE n == Len(stack)
           x == program[Here]
           c == x.body
           g == ElseFrame(Top, x, Rebound(program, Here, Top.b))
<1>1. /\ Scanning /\ visited' = Append(visited, Here) /\ Descends(x) /\ stack # << >>
      /\ program \in Programs
  BY DEF ScanIf, Report, Scanning, Types
<1>2. /\ n \in Nat /\ n >= 1 /\ Here \in Nodes(program) /\ program[Here].up = Top.block
      /\ Top = stack[n]
  BY <1>1, TopFacts
<1>3. /\ c \in Blocks(program) /\ c \in Children(x)
      /\ PlainElse(program, x) => /\ x.els \in Children(x) /\ x.els # c
  BY <1>1, <1>2, IfFacts DEF PlainElse
<1>4. g.block = x.els /\ g.at = 1 /\ g.els = << >>
  BY DEF ElseFrame, Frame
<1>5. /\ stack'[n].els = IF PlainElse(program, x) THEN << g >> ELSE << >>
      /\ stack'[n].block = Top.block /\ stack'[n].at = Top.at + 1
      /\ Len(stack') = n + 1 /\ \A i \in 1 .. (n - 1) : stack'[i] = stack[i]
      /\ scanned' = scanned \cup {c}
  BY IfStep
<1>6. stack'[n + 1].block = c /\ stack'[n + 1].at = 1 /\ stack'[n + 1].els = << >>
  <2>1. stack'[n + 1] = BodyFrame(Top, x, Rebound(program, Here, Top.b))
    BY IfStep
  <2> QED BY <2>1 DEF BodyFrame, Frame
<1> HIDE DEF g, x
<1>7. stack'[n].els # << >> => /\ stack'[n].els[1] = g /\ PlainElse(program, x)
  BY <1>5
<1>8. /\ Here \notin Seen /\ Seen' = Seen \cup {Here} /\ NoStatementTwice'
      /\ \A d \in Children(x) : d \notin scanned
      /\ Walked(program, stack', n, scanned, Seen')
      /\ OnStack(program, stack', n, scanned, Seen')
  <2>1. stack'[n].els # << >> =>
            /\ stack'[n].els[1].block \in Children(program[Here])
            /\ stack'[n].els[1].at = 1 /\ stack'[n].els[1].els = << >>
    BY <1>3, <1>4, <1>7 DEF x
  <2>2. x = program[Here]
    BY DEF x
  <2> HIDE DEF c
  <2> QED BY <1>1, <1>5, <2>1, <2>2, TopAdvances
<1>9. ASSUME NEW i \in 1 .. n, stack'[i].els # << >>
      PROVE  stack'[i].els[1].block # c
  <2>1. CASE i = n
    BY <1>3, <1>4, <1>7, <1>9, <2>1
  <2>2. CASE i # n
    <3>1. stack'[i] = stack[i] /\ n \in 1 .. n
      BY <1>2, <1>5, <2>2
    <3>2. PICK p \in Seen : program[p].up = stack[i].block /\ stack[i].els[1].block \in Children(program[p])
      BY <1>9, <3>1 DEF Walk, OnStack
    <3>3. stack[i].block # stack[n].block
      BY <2>2, <3>1 DEF Walk, OnStack
    <3>4. p # Here /\ p \in Nodes(program)
      BY <1>2, <3>2, <3>3, SeenFacts
    <3>5. program[c].up = Here /\ program[stack[i].els[1].block].up = p
      BY <1>1, <1>2, <1>3, <3>2, <3>4, Syntax DEF x
    <3> QED BY <3>1, <3>4, <3>5
  <2> QED BY <2>1, <2>2
<1>10. ASSUME NEW q \in Blocks(program), NEW k \in 1 .. Len(program[q].list),
              c \in Children(program[program[q].list[k]])
       PROVE  program[q].list[k] \in Seen'
  <2>1. program[q].list[k] \in Nodes(program)
    BY <1>1, ListFacts
  <2>2. program[q].list[k] = Here
    BY <1>1, <1>2, <1>3, <1>10, <2>1, Syntax DEF x
  <2> QED BY <1>8, <2>2
<1>11. c \notin scanned
  BY <1>3, <1>8
<1>12. /\ Walked(program, stack', n + 1, scanned \cup {c}, Seen')
       /\ OnStack(program, stack', n + 1, scanned \cup {c}, Seen')
  <2> HIDE DEF c, n
  <2>1. stack'[n + 1].block \in Blocks(program) \ scanned
    BY <1>3, <1>6, <1>11
  <2>2. \A i \in 1 .. n : stack'[i].els # << >> => stack'[i].els[1].block # stack'[n + 1].block
    BY <1>6, <1>9
  <2>3. \A q \in Blocks(program) : \A k \in 1 .. Len(program[q].list) :
          stack'[n + 1].block \in Children(program[program[q].list[k]]) => program[q].list[k] \in Seen'
    BY <1>6, <1>10
  <2>4. /\ Walked(program, stack', n + 1, scanned \cup {stack'[n + 1].block}, Seen')
        /\ OnStack(program, stack', n + 1, scanned \cup {stack'[n + 1].block}, Seen')
    BY <1>1, <1>2, <1>6, <1>8, <2>1, <2>2, <2>3, Push
  <2> QED BY <1>6, <2>4
<1> QED BY <1>5, <1>8, <1>12 DEF Walk

LEMMA WalkEntersElse ==
  ASSUME Types, Walk, ScanElse, program' = program
  PROVE  Walk'
<1> DEFINE n == Len(stack)
           c == Top.els[1].block
<1>1. /\ stack # << >> /\ program \in Programs /\ visited' = visited /\ Top.els # << >>
  BY DEF ScanElse, Types
<1>2. n \in Nat /\ n >= 1 /\ n \in 1 .. n /\ Top = stack[n]
  BY <1>1, TopFacts
<1>3. Seen' = Seen /\ NoStatementTwice'
  BY <1>1 DEF Seen, NoStatementTwice, Walk
<1>4. /\ Len(stack') = n + 1 /\ stack'[n + 1] = Top.els[1] /\ scanned' = scanned \cup {c}
      /\ stack'[n].block = Top.block /\ stack'[n].at = Top.at /\ stack'[n].els = << >>
      /\ \A i \in 1 .. (n - 1) : stack'[i] = stack[i]
  BY ElseStep
<1>5. /\ c \notin scanned /\ Top.els[1].at = 1 /\ Top.els[1].els = << >>
      /\ \E p \in Seen : program[p].up = Top.block /\ c \in Children(program[p])
  BY <1>1, <1>2 DEF Walk, OnStack
<1>6. c \in Blocks(program)
  BY ElseStep, ScanIsFrame, FrameFacts
<1>7. PICK p \in Seen : program[p].up = Top.block /\ c \in Children(program[p])
  BY <1>5
<1>8. \A i \in 1 .. n : i # n => stack'[i] = stack[i]
  BY <1>2, <1>4
<1> HIDE DEF c, n
<1>9. Walked(program, stack', n, scanned, Seen) /\ OnStack(program, stack', n, scanned, Seen)
  <2>1. \A i \in 1 .. n : /\ stack'[i].block = stack[i].block /\ stack'[i].at = stack[i].at
                          /\ stack'[i].els = stack[i].els \/ stack'[i].els = << >>
    BY <1>2, <1>4, <1>8
  <2>2. Walked(program, stack, n, scanned, Seen) /\ OnStack(program, stack, n, scanned, Seen)
    BY DEF Walk, n
  <2> QED BY <1>2, <2>1, <2>2, SameFrames
<1>10. ASSUME NEW i \in 1 .. n, stack'[i].els # << >>
       PROVE  stack'[i].els[1].block # c
  <2>1. i # n /\ stack'[i] = stack[i]
    BY <1>4, <1>8, <1>10
  <2>2. PICK r \in Seen : program[r].up = stack[i].block /\ stack[i].els[1].block \in Children(program[r])
    BY <1>10, <2>1 DEF Walk, OnStack, n
  <2>3. stack[i].block # stack[n].block
    BY <1>2, <2>1 DEF Walk, OnStack, n
  <2>4. r # p /\ r \in Nodes(program) /\ p \in Nodes(program)
    BY <1>2, <1>7, <2>2, <2>3, SeenFacts
  <2>5. program[c].up = p /\ program[stack[i].els[1].block].up = r
    BY <1>1, <1>7, <2>2, <2>4, Syntax
  <2> QED BY <2>1, <2>4, <2>5
<1>11. ASSUME NEW q \in Blocks(program), NEW k \in 1 .. Len(program[q].list),
              c \in Children(program[program[q].list[k]])
       PROVE  program[q].list[k] \in Seen
  <2>1. program[q].list[k] \in Nodes(program) /\ p \in Nodes(program)
    BY <1>1, ListFacts, SeenFacts
  <2>2. program[q].list[k] = p
    <3> DEFINE r == program[q].list[k]
    <3>1. r \in Nodes(program) /\ c \in Children(program[r])
      BY <1>11, <2>1
    <3> HIDE DEF r
    <3>2. program[c].up = r /\ program[c].up = p
      BY <1>1, <1>7, <2>1, <3>1, Syntax
    <3> QED BY <3>2 DEF r
  <2> QED BY <2>2
<1>12. stack'[n + 1].block = c /\ stack'[n + 1].at = 1 /\ stack'[n + 1].els = << >>
  BY <1>4, <1>5 DEF c
<1>13. /\ Walked(program, stack', n + 1, scanned \cup {c}, Seen)
       /\ OnStack(program, stack', n + 1, scanned \cup {c}, Seen)
  <2>1. stack'[n + 1].block \in Blocks(program) \ scanned
    BY <1>5, <1>6, <1>12
  <2>2. \A i \in 1 .. n : stack'[i].els # << >> => stack'[i].els[1].block # stack'[n + 1].block
    BY <1>10, <1>12
  <2>3. \A q \in Blocks(program) : \A k \in 1 .. Len(program[q].list) :
          stack'[n + 1].block \in Children(program[program[q].list[k]]) => program[q].list[k] \in Seen
    BY <1>11, <1>12
  <2>4. /\ Walked(program, stack', n + 1, scanned \cup {stack'[n + 1].block}, Seen)
        /\ OnStack(program, stack', n + 1, scanned \cup {stack'[n + 1].block}, Seen)
    BY <1>1, <1>2, <1>9, <1>12, <2>1, <2>2, <2>3, Push
  <2> QED BY <1>12, <2>4
<1> QED BY <1>3, <1>4, <1>13 DEF Walk, n

LEMMA WalkLeaves ==
  ASSUME Types, Walk, FinishBlock, program' = program
  PROVE  Walk'
<1> DEFINE n == Len(stack)
<1>1. /\ stack # << >> /\ program \in Programs /\ visited' = visited /\ scanned' = scanned
      /\ Top.at > Len(TopList)
  BY DEF FinishBlock, Types
<1>2. /\ n \in Nat /\ n >= 1 /\ Top = stack[n] /\ TopList = program[Top.block].list
      /\ Top.block \in Blocks(program) /\ Top.at \in Nat
  BY <1>1, TopFacts, FrameFacts
<1>3. Seen' = Seen /\ NoStatementTwice'
  BY <1>1 DEF Seen, NoStatementTwice, Walk
<1>4. Len(stack') = n - 1
  BY FinishStep
<1>5. \A i \in 1 .. (n - 1) : /\ stack'[i].block = stack[i].block /\ stack'[i].at = stack[i].at
                              /\ stack'[i].els = stack[i].els
  <2>1. /\ \A i \in 1 .. (n - 2) : stack'[i] = stack[i]
        /\ n > 1 => /\ stack'[n - 1].block = stack[n - 1].block
                    /\ stack'[n - 1].at = stack[n - 1].at
                    /\ stack'[n - 1].els = stack[n - 1].els
    BY FinishStep
  <2>2. \A i \in 1 .. (n - 1) : i \in 1 .. (n - 2) \/ (i = n - 1 /\ n > 1)
    BY <1>2
  <2> QED BY <2>1, <2>2
<1> HIDE DEF n
<1>6. Walked(program, stack, n - 1, scanned, Seen) /\ OnStack(program, stack, n - 1, scanned, Seen)
  <2>1. Walked(program, stack, n, scanned, Seen) /\ OnStack(program, stack, n, scanned, Seen)
    BY DEF Walk, n
  <2> QED BY <1>1, <1>2, <2>1, Pop
<1>7. Walked(program, stack', n - 1, scanned, Seen) /\ OnStack(program, stack', n - 1, scanned, Seen)
  <2>1. n - 1 \in Nat
    BY <1>2
  <2> HIDE DEF n
  <2> QED BY <1>5, <1>6, <2>1, SameFrames
<1> QED BY <1>1, <1>3, <1>4, <1>7 DEF Walk

LEMMA WalkOpens ==
  ASSUME Types, Walk, ScanNextBlock, program' = program
  PROVE  Walk'
<1>1. PICK blk \in Blocks(program) \ scanned :
           /\ \A other \in Blocks(program) \ scanned : blk <= other
           /\ stack = << >> /\ Len(stack') = 1
           /\ stack'[1].block = blk /\ stack'[1].at = 1 /\ stack'[1].els = << >>
           /\ scanned' = scanned \cup {blk}
  BY OpenStep
<1>2. visited' = visited /\ program \in Programs /\ Len(stack) = 0
  BY <1>1 DEF ScanNextBlock, Types
<1>3. Seen' = Seen /\ NoStatementTwice'
  BY <1>2 DEF Seen, NoStatementTwice, Walk
<1>4. Walked(program, stack', 0, scanned, Seen) /\ OnStack(program, stack', 0, scanned, Seen)
  <2>1. Walked(program, stack, 0, scanned, Seen) /\ OnStack(program, stack, 0, scanned, Seen)
    BY <1>2 DEF Walk
  <2> QED BY <2>1, SameFrames
<1>5. ASSUME NEW q \in Blocks(program), NEW k \in 1 .. Len(program[q].list),
             blk \in Children(program[program[q].list[k]])
      PROVE  program[q].list[k] \in Seen
  <2>1. /\ program[q].list[k] \in Nodes(program) /\ program[q].list[k] \in Children(program[q])
        /\ q \in Nodes(program)
    BY <1>2, ListFacts
  <2>2. q < program[q].list[k] /\ program[q].list[k] < blk
    BY <1>2, <1>5, <2>1, Syntax
  <2>3. Len(program) \in Nat
    BY <1>2, Syntax
  <2>4. ~(blk <= q)
    BY <2>1, <2>2, <2>3 DEF Nodes, Blocks
  <2>5. q \in scanned
    BY <1>1, <2>4
  <2> QED BY <1>2, <2>5 DEF Walk, Walked
<1>6. /\ Walked(program, stack', 1, scanned \cup {stack'[1].block}, Seen)
      /\ OnStack(program, stack', 1, scanned \cup {stack'[1].block}, Seen)
  <2>1. stack'[1].block = blk /\ stack'[1].at = 1 /\ stack'[1].els = << >>
    BY <1>1
  <2>2. \A q \in Blocks(program) : \A k \in 1 .. Len(program[q].list) :
          stack'[1].block \in Children(program[program[q].list[k]]) => program[q].list[k] \in Seen
    BY <1>5, <2>1
  <2>3. \A i \in 1 .. 0 : stack'[i].els # << >> => stack'[i].els[1].block # stack'[1].block
    OBVIOUS
  <2> QED BY <1>2, <1>4, <2>1, <2>2, <2>3, Push
<1> QED BY <1>1, <1>3, <1>6 DEF Walk

LEMMA WalkInductive ==
  /\ Init => Walk
  /\ Types /\ Walk /\ [Next]_vars => Walk'
<1>1. ASSUME Init PROVE Walk
  <2>1. Seen = {} /\ scanned = {} /\ Len(stack) = 0 /\ NoStatementTwice
    BY <1>1 DEF Init, Seen, NoStatementTwice
  <2> QED BY <2>1 DEF Walk, Walked, OnStack
<1>2. ASSUME Types, Walk, [Next]_vars, program' = program PROVE Walk'
  <2>1. CASE ScanFuncLit
    <3>1. Scanning /\ visited' = Append(visited, Here) /\ scanned' = scanned
      BY <2>1 DEF ScanFuncLit, Report
    <3> QED BY <1>2, <2>1, <3>1, FuncLitStep, WalkStays
  <2>2. CASE ScanStatement
    <3>1. Scanning /\ visited' = Append(visited, Here) /\ scanned' = scanned
      BY <2>2 DEF ScanStatement, Report
    <3> QED BY <1>2, <2>2, <3>1, StatementStep, WalkStays
  <2>3. CASE ScanIf
    BY <1>2, <2>3, WalkDescends
  <2>4. CASE ScanElse
    BY <1>2, <2>4, WalkEntersElse
  <2>5. CASE FinishBlock
    BY <1>2, <2>5, WalkLeaves
  <2>6. CASE ScanNextBlock
    BY <1>2, <2>6, WalkOpens
  <2>7. CASE UNCHANGED vars
    <3>1. Seen' = Seen
      BY <2>7 DEF Seen, vars
    <3> QED BY <1>2, <2>7, <3>1 DEF Walk, vars, NoStatementTwice
  <2> QED BY <1>2, <2>1, <2>2, <2>3, <2>4, <2>5, <2>6, <2>7 DEF Next, Done
<1> QED BY <1>1, <1>2, TypesInductive

\* No statement is examined twice (caller_dead_guard.go:160), for every program
\* and every set of contracts.
THEOREM NothingIsScannedTwice == Spec => []NoStatementTwice
<1>1. Init => Types /\ Walk
  BY TypesInductive, WalkInductive
<1>2. Types /\ Walk /\ [Next]_vars => (Types /\ Walk)'
  BY TypesInductive, WalkInductive
<1>3. Walk => NoStatementTwice
  BY DEF Walk
<1> QED BY <1>1, <1>2, <1>3, PTL DEF Spec

-----------------------------------------------------------------------------
(* Dead guards.  The executions that reach a statement meet the bindings   *)
(* of its block and of every block around it: a frame keeps no binding of  *)
(* a local that the statement it stands at writes, so nothing below that   *)
(* statement can falsify the bindings that wait for it to end.  Only in    *)
(* the branch with which a guard leaves this may fail, because the walk    *)
(* already promoted the bindings of the block around it; no guard stands   *)
(* there, and no execution comes back from it.                             *)

InScope == NoRangeClause(program) /\ NoGuardInBranch(program)

\* The branch with which a guard leaves.
Closed(ast, blk) == \E p \in Nodes(ast) : LeavingGuard(ast, ast[p]) /\ ast[p].body = blk

\* No block from the outermost frame to the one at j is such a branch.
Open(ast, stk, j) == \A k \in 1 .. j : ~Closed(ast, stk[k].block)

Known(f, es) == \A e \in es : Meets(f.scope, f.b, e)

\* g is the scan of a block below the statement at which f stands.
Inside(ast, f, g) ==
    /\ f.block < g.block /\ Span(ast, g.block) \subseteq Span(ast, f.block)
    /\ \A m \in NamesOf(f.b) : m \notin Writes(ast, g.block)

Below(ast, stk, n, g) ==
    /\ \A k \in 1 .. n : Inside(ast, stk[k], g)
    /\ ~ContainsFuncLit(ast, g.block)
    /\ \A m \in Names : g.scope[m] <= g.block

Nested(ast, stk, n) ==
    /\ \A m \in Names : stk[1].scope[m] <= stk[1].block
    /\ \A j \in 2 .. n : Below(ast, stk, j - 1, stk[j])
    /\ \A j \in 1 .. n : stk[j].els # << >> =>
         Below(ast, stk, j, stk[j].els[1]) /\ ~Closed(ast, stk[j].els[1].block)

Holds(stk, j, es) == \A i \in 1 .. j : Known(stk[i], es)

Held(ast, stk, n) ==
    \A j \in 1 .. n : Open(ast, stk, j) =>
      /\ Holds(stk, j, stk[j].envs)
      /\ stk[j].els # << >> => /\ Known(stk[j].els[1], stk[j].els[1].envs)
                               /\ Holds(stk, j, stk[j].els[1].envs)

\* No execution falls out of the branch with which a guard leaves.
Spent(ast, f) == Closed(ast, f.block) /\ f.at > Len(ast[f.block].list)

Leaves(ast, stk, n) ==
    \A j \in 2 .. n : Spent(ast, stk[j]) => j = n /\ stk[j].envs = {} /\ stk[j].els = << >>

Framed ==
    /\ Nested(program, stack, Len(stack))
    /\ Held(program, stack, Len(stack))
    /\ Leaves(program, stack, Len(stack))

Judged == InScope => DeadGuardIsDead /\ (stack # << >> => Framed)

\* What a step does to the frame on top, and what it puts on it.
LEMMA NestedTop ==
  ASSUME NEW ast, NEW stk, NEW stk2, NEW n \in Nat \ {0}, Nested(ast, stk, n),
         \A i \in 1 .. n : i # n => stk2[i] = stk[i],
         stk2[n].block = stk[n].block,
         \A m \in Names : stk2[n].scope[m] <= stk2[n].block,
         stk2[n].els # << >> =>
           Below(ast, stk2, n, stk2[n].els[1]) /\ ~Closed(ast, stk2[n].els[1].block)
  PROVE  Nested(ast, stk2, n)
<1>1. \A m \in Names : stk2[1].scope[m] <= stk2[1].block
  <2>1. 1 \in 1 .. n
    OBVIOUS
  <2> QED BY <2>1 DEF Nested
<1>2. ASSUME NEW j \in 2 .. n PROVE Below(ast, stk2, j - 1, stk2[j])
  <2>1. Below(ast, stk, j - 1, stk[j])
    BY DEF Nested
  <2>2. \A k \in 1 .. (j - 1) : stk2[k] = stk[k]
    OBVIOUS
  <2>3. stk2[j].block = stk[j].block /\ \A m \in Names : stk2[j].scope[m] <= stk2[j].block
    BY <2>1 DEF Below
  <2> QED BY <2>1, <2>2, <2>3 DEF Below, Inside
<1>3. ASSUME NEW j \in 1 .. n, stk2[j].els # << >>
      PROVE  Below(ast, stk2, j, stk2[j].els[1]) /\ ~Closed(ast, stk2[j].els[1].block)
  <2>1. CASE j = n
    BY <1>3, <2>1
  <2>2. CASE j # n
    <3>1. stk2[j] = stk[j] /\ \A k \in 1 .. j : stk2[k] = stk[k]
      BY <2>2
    <3>2. Below(ast, stk, j, stk[j].els[1]) /\ ~Closed(ast, stk[j].els[1].block)
      BY <1>3, <3>1 DEF Nested
    <3> QED BY <3>1, <3>2 DEF Below
  <2> QED BY <2>1, <2>2
<1> QED BY <1>1, <1>2, <1>3 DEF Nested

LEMMA NestedPush ==
  ASSUME NEW ast, NEW stk, NEW n \in Nat \ {0}, NEW m, m = n + 1, Nested(ast, stk, n),
         Below(ast, stk, n, stk[m]), stk[m].els = << >>
  PROVE  Nested(ast, stk, m)
<1>1. 2 .. m = 2 .. n \cup {m} /\ 1 .. m = 1 .. n \cup {m} /\ m - 1 = n
  OBVIOUS
<1> QED BY <1>1 DEF Nested

LEMMA HeldTop ==
  ASSUME NEW ast, NEW stk, NEW stk2, NEW n \in Nat \ {0}, Held(ast, stk, n),
         \A i \in 1 .. n : i # n => stk2[i] = stk[i],
         Open(ast, stk2, n) =>
           /\ Holds(stk2, n, stk2[n].envs)
           /\ stk2[n].els # << >> => /\ Known(stk2[n].els[1], stk2[n].els[1].envs)
                                     /\ Holds(stk2, n, stk2[n].els[1].envs)
  PROVE  Held(ast, stk2, n)
<1>1. ASSUME NEW j \in 1 .. n, Open(ast, stk2, j)
      PROVE  /\ Holds(stk2, j, stk2[j].envs)
             /\ stk2[j].els # << >> => /\ Known(stk2[j].els[1], stk2[j].els[1].envs)
                                       /\ Holds(stk2, j, stk2[j].els[1].envs)
  <2>1. CASE j = n
    BY <1>1, <2>1
  <2>2. CASE j # n
    <3>1. stk2[j] = stk[j] /\ \A k \in 1 .. j : stk2[k] = stk[k]
      BY <2>2
    <3>2. Open(ast, stk, j)
      BY <1>1, <3>1 DEF Open
    <3>3. /\ Holds(stk, j, stk[j].envs)
          /\ stk[j].els # << >> => /\ Known(stk[j].els[1], stk[j].els[1].envs)
                                   /\ Holds(stk, j, stk[j].els[1].envs)
      BY <3>2 DEF Held
    <3>4. \A es : Holds(stk, j, es) => Holds(stk2, j, es)
      BY <3>1 DEF Holds
    <3> QED BY <3>1, <3>3, <3>4
  <2> QED BY <2>1, <2>2
<1> QED BY <1>1 DEF Held

LEMMA HeldPush ==
  ASSUME NEW ast, NEW stk, NEW n \in Nat \ {0}, NEW m, m = n + 1, Held(ast, stk, n),
         Open(ast, stk, m) => Holds(stk, m, stk[m].envs), stk[m].els = << >>
  PROVE  Held(ast, stk, m)
<1>1. 1 .. m = 1 .. n \cup {m}
  OBVIOUS
<1> QED BY <1>1 DEF Held

LEMMA LeavesTop ==
  ASSUME NEW ast, NEW stk, NEW stk2, NEW n \in Nat \ {0}, Leaves(ast, stk, n),
         \A i \in 1 .. n : i # n => stk2[i] = stk[i],
         n # 1 /\ Spent(ast, stk2[n]) => stk2[n].envs = {} /\ stk2[n].els = << >>
  PROVE  Leaves(ast, stk2, n)
<1>1. \A i \in 2 .. n : i # n => stk2[i] = stk[i]
  OBVIOUS
<1> QED BY <1>1 DEF Leaves

LEMMA LeavesPush ==
  ASSUME NEW ast, NEW stk, NEW n \in Nat \ {0}, NEW m, m = n + 1, Leaves(ast, stk, n),
         n # 1 => ~Spent(ast, stk[n]), ~Spent(ast, stk[m])
  PROVE  Leaves(ast, stk, m)
<1>1. 2 .. m = 2 .. n \cup {m}
  OBVIOUS
<1>2. \A i \in 2 .. n : ~Spent(ast, stk[i])
  BY DEF Leaves
<1> QED BY <1>1, <1>2 DEF Leaves

-----------------------------------------------------------------------------
(* The branches of a guard.                                                *)

\* The body of an if is such a branch when the if is such a guard; an else block
\* never is.
LEMMA ClosedFacts ==
  ASSUME NEW ast \in Programs, NEW p \in Nodes(ast), Descends(ast[p])
  PROVE  /\ Closed(ast, ast[p].body) <=> LeavingGuard(ast, ast[p])
         /\ PlainElse(ast, ast[p]) => ~Closed(ast, ast[p].els)
<1>1. ASSUME NEW c \in Children(ast[p]), Closed(ast, c)
      PROVE  LeavingGuard(ast, ast[p]) /\ ast[p].body = c
  <2>1. PICK r \in Nodes(ast) : LeavingGuard(ast, ast[r]) /\ ast[r].body = c
    BY <1>1 DEF Closed
  <2>2. c \in Children(ast[r])
    BY <2>1, IfFacts DEF LeavingGuard
  <2>3. r = p
    BY <1>1, <2>1, <2>2, Syntax
  <2> QED BY <2>1, <2>3
<1>2. /\ ast[p].body \in Children(ast[p])
      /\ PlainElse(ast, ast[p]) => ast[p].els \in Children(ast[p]) /\ ast[p].els # ast[p].body
  BY IfFacts DEF PlainElse
<1>3. LeavingGuard(ast, ast[p]) => Closed(ast, ast[p].body)
  BY DEF Closed
<1> QED BY <1>1, <1>2, <1>3

\* It ends with a return.
LEMMA ClosedEnds ==
  ASSUME NEW ast \in Programs, NEW q \in Blocks(ast), Closed(ast, q)
  PROVE  /\ Len(ast[q].list) \in Nat /\ Len(ast[q].list) >= 1
         /\ ast[ast[q].list[Len(ast[q].list)]].kind = "return"
<1>1. ast[q].list # << >> /\ ast[Last(ast[q].list)].kind = "return"
  BY DEF Closed, LeavingGuard, BranchShortCircuits
<1>2. ast[q].list \in Seq(Nat) /\ Len(ast[q].list) \in Nat
  BY ListFacts
<1>3. Len(ast[q].list) # 0
  BY <1>1, <1>2, EmptySeq
<1> QED BY <1>1, <1>2, <1>3 DEF Last

\* What the report of a guard says of a value that meets the contract.
LEMMA OutcomeFacts ==
  ASSUME NEW s \in States, NEW g \in States, NEW v, Satisfies(v, s)
  PROVE  /\ DeadGuardOutcome(s, g) = "impossible" => ~Satisfies(v, g)
         /\ DeadGuardOutcome(s, g) = "redundant" => Satisfies(v, g)
         /\ DeadGuardOutcome(s, g) \in {"impossible", "redundant", "undecided"}
<1>1. s.op \in {"==", "!="} /\ g.op \in {"==", "!="}
  BY DEF States, Comparisons
<1>2. CASE s.op = "=="
  BY <1>1, <1>2 DEF DeadGuardOutcome, Satisfies
<1>3. CASE s.op = "!="
  BY <1>1, <1>3 DEF DeadGuardOutcome, Satisfies
<1> QED BY <1>1, <1>2, <1>3

\* Executions that differ on names the bindings are not about.
LEMMA AgreeKeeps ==
  ASSUME NEW ast, NEW b \in Maps, NEW scope \in [Names -> Blocks(ast)], NEW scope2, NEW ns,
         NEW e, NEW e2, Agree(ast, scope2, ns, e, e2), \A m \in NamesOf(b) : m \notin ns,
         Meets(scope, b, e)
  PROVE  Meets(scope, b, e2)
<1>1. NamesOf(b) \subseteq Names
  BY NamesAreLocals
<1>2. \A m \in NamesOf(b) : Val(scope, e2, m) = Val(scope, e, m)
  BY <1>1 DEF Agree, Val
<1> QED BY <1>2, MeetsKept

LEMMA PassesByKeeps ==
  ASSUME NEW ast \in Programs, NEW p \in Nodes(ast), Descends(ast[p]), NEW f \in Frames(ast),
         NEW b \in Maps, NEW scope \in [Names -> Blocks(ast)],
         \A m \in NamesOf(b) : m \notin Writes(ast, p),
         \A e \in When(f, ast[p], FALSE) : Meets(scope, b, e),
         NEW e2 \in PassesBy(ast, f, ast[p])
  PROVE  Meets(scope, b, e2)
<1> DEFINE x == ast[p]
<1>1. CASE x.els = 0
  BY <1>1 DEF PassesBy
<1>2. CASE x.els # 0 /\ ~PlainElse(ast, x)
  <2>1. e2 \in MayHavoc(When(f, x, FALSE), f.scope, Writes(ast, x.els))
    BY <1>2 DEF PassesBy
  <2>2. When(f, x, FALSE) \in SUBSET Envs(ast)
    BY FrameFacts DEF When
  <2>3. \E e \in When(f, x, FALSE) : Agree(ast, f.scope, Writes(ast, x.els), e, e2)
    BY <2>1, <2>2, HavocFacts
  <2>4. Writes(ast, x.els) \subseteq Writes(ast, p)
    BY <1>2, IfFacts, WritesFacts
  <2>5. \A m \in NamesOf(b) : m \notin Writes(ast, x.els)
    BY <2>4
  <2> QED BY <2>3, <2>5, AgreeKeeps
<1>3. CASE PlainElse(ast, x)
  BY <1>3 DEF PassesBy, PlainElse
<1> QED BY <1>1, <1>2, <1>3

-----------------------------------------------------------------------------
(* The steps.                                                              *)

LEMMA SceneFacts ==
  ASSUME Types, stack # << >>, Nested(program, stack, Len(stack))
  PROVE  /\ Len(stack) \in Nat \ {0} /\ Len(stack) \in 1 .. Len(stack) /\ program \in Programs
         /\ Top = stack[Len(stack)]
         /\ \A i \in 1 .. Len(stack) : stack[i] \in Frames(program)
         /\ \A i \in 1 .. Len(stack) : \A m \in Names : stack[i].scope[m] <= stack[i].block
         /\ \A i, j \in 1 .. Len(stack) : i < j => Inside(program, stack[i], stack[j])
<1>1. /\ Len(stack) \in Nat \ {0} /\ program \in Programs /\ Top = stack[Len(stack)]
      /\ \A i \in 1 .. Len(stack) : stack[i] \in Frames(program)
  BY TopFacts DEF Types
<1>2. \A j \in 2 .. Len(stack) : Below(program, stack, j - 1, stack[j])
  BY DEF Nested
<1>3. ASSUME NEW i \in 1 .. Len(stack), NEW m \in Names PROVE stack[i].scope[m] <= stack[i].block
  <2>1. CASE i = 1
    BY <2>1 DEF Nested
  <2>2. CASE i \in 2 .. Len(stack)
    BY <1>2, <2>2 DEF Below
  <2> QED BY <2>1, <2>2
<1>4. ASSUME NEW i \in 1 .. Len(stack), NEW j \in 1 .. Len(stack), i < j
      PROVE  Inside(program, stack[i], stack[j])
  <2>1. j \in 2 .. Len(stack) /\ i \in 1 .. (j - 1)
    BY <1>1, <1>4
  <2> QED BY <1>2, <2>1 DEF Below
<1> QED BY <1>1, <1>3, <1>4

\* The statement at hand and the blocks around the one it stands in.
LEMMA HereFacts ==
  ASSUME Types, Scanning, Nested(program, stack, Len(stack))
  PROVE  /\ Here \in Nodes(program) /\ Here \in Children(program[Top.block])
         /\ Top.block \in Blocks(program) /\ Top.block \in Nodes(program) /\ Top.block < Here
         /\ Writes(program, Here) \subseteq Writes(program, Top.block)
         /\ Span(program, Here) \subseteq Span(program, Top.block)
         /\ \A i \in 1 .. Len(stack) : i # Len(stack) =>
              /\ \A m \in NamesOf(stack[i].b) : m \notin Writes(program, Here)
              /\ \A m \in Names : stack[i].scope[m] # Top.block
         /\ Len(stack) # 1 => ~ContainsFuncLit(program, Here)
<1> DEFINE n == Len(stack)
<1>1. stack # << >>
  BY DEF Scanning
<1>2. /\ n \in Nat \ {0} /\ n \in 1 .. n /\ program \in Programs /\ Top = stack[n]
      /\ \A i \in 1 .. n : stack[i] \in Frames(program)
      /\ \A i \in 1 .. n : \A m \in Names : stack[i].scope[m] <= stack[i].block
      /\ \A i \in 1 .. n : i # n => Inside(program, stack[i], stack[n])
  BY <1>1, SceneFacts
<1>3. Here \in Nodes(program) /\ Here \in Children(program[Top.block]) /\ Top.block \in Blocks(program)
  BY <1>1, <1>2, TopFacts, FrameFacts
<1>4. /\ Top.block \in Nodes(program) /\ Top.block < Here
      /\ Writes(program, Here) \subseteq Writes(program, Top.block)
      /\ Span(program, Here) \subseteq Span(program, Top.block)
      /\ ContainsFuncLit(program, Here) => ContainsFuncLit(program, Top.block)
  BY <1>2, <1>3, Syntax, WritesFacts, SpanInside DEF Blocks
<1>5. ASSUME NEW i \in 1 .. n, i # n
      PROVE  /\ \A m \in NamesOf(stack[i].b) : m \notin Writes(program, Here)
             /\ \A m \in Names : stack[i].scope[m] # Top.block
  <2>1. Inside(program, stack[i], Top)
    BY <1>2, <1>5
  <2>2. stack[i].block < Top.block /\ \A m \in NamesOf(stack[i].b) : m \notin Writes(program, Top.block)
    BY <2>1 DEF Inside
  <2>3. stack[i].block \in Nat /\ Top.block \in Nat /\ \A m \in Names : stack[i].scope[m] \in Nat
    <3>1. \A q \in Blocks(program) : q \in Nat
      BY DEF Blocks, Nodes
    <3> QED BY <1>2, <1>3, <3>1, FrameFacts
  <2> HIDE DEF n
  <2> QED BY <1>2, <1>4, <1>5, <2>2, <2>3
<1>6. n # 1 => ~ContainsFuncLit(program, Here)
  <2>1. n # 1 => n \in 2 .. n
    <3> HIDE DEF n
    <3> QED BY <1>2
  <2>2. n # 1 => ~ContainsFuncLit(program, Top.block)
    BY <1>2, <2>1 DEF Nested, Below
  <2> QED BY <1>4, <2>2
<1> QED BY <1>3, <1>4, <1>5, <1>6

\* A block of the statement at hand, scanned above a frame that keeps nothing
\* about what the statement writes.
LEMMA BelowHere ==
  ASSUME Types, Scanning, Nested(program, stack, Len(stack)),
         ~ContainsFuncLit(program, Here), NEW stk,
         \A i \in 1 .. Len(stack) : i # Len(stack) => stk[i] = stack[i],
         stk[Len(stack)].block = Top.block,
         \A m \in NamesOf(stk[Len(stack)].b) : m \notin Writes(program, Here),
         NEW g, g.block \in Children(program[Here]), g.scope = Top.scope
  PROVE  Below(program, stk, Len(stack), g)
<1> DEFINE n == Len(stack)
<1>1. /\ Here \in Nodes(program) /\ Top.block \in Nodes(program) /\ Top.block < Here
      /\ program \in Programs /\ n \in 1 .. n /\ Top = stack[n]
      /\ Span(program, Here) \subseteq Span(program, Top.block)
  BY HereFacts, SceneFacts DEF Scanning
<1>2. /\ g.block \in Nodes(program) /\ Here < g.block
      /\ Span(program, g.block) \subseteq Span(program, Here)
      /\ Writes(program, g.block) \subseteq Writes(program, Here)
      /\ ~ContainsFuncLit(program, g.block)
  BY <1>1, Syntax, SpanInside, WritesFacts
<1>3. Top.block < g.block /\ Top.block \in Nat /\ g.block \in Nat
  BY <1>1, <1>2 DEF Nodes
<1>4. ASSUME NEW k \in 1 .. n PROVE Inside(program, stk[k], g)
  <2>1. CASE k = n
    BY <1>1, <1>2, <1>3, <2>1 DEF Inside
  <2>2. CASE k # n
    <3>1. /\ stk[k] = stack[k] /\ Inside(program, stack[k], Top)
          /\ \A m \in NamesOf(stack[k].b) : m \notin Writes(program, Here)
      <4>1. k < n
        BY <2>2
      <4> QED BY <1>1, <2>2, <4>1, SceneFacts, HereFacts DEF Scanning
    <3>2. stack[k].block < Top.block /\ stack[k].block \in Nat
          /\ Span(program, Top.block) \subseteq Span(program, stack[k].block)
      <4>1. stack[k].block \in Blocks(program)
        BY SceneFacts, FrameFacts DEF Scanning
      <4> QED BY <3>1, <4>1 DEF Inside, Blocks, Nodes
    <3> HIDE DEF n
    <3> QED BY <1>1, <1>2, <1>3, <3>1, <3>2 DEF Inside
  <2> QED BY <2>1, <2>2
<1>5. \A m \in Names : g.scope[m] <= g.block
  <2>1. \A m \in Names : Top.scope[m] <= Top.block /\ Top.scope[m] \in Nat
    <3>1. Top \in Frames(program)
      BY SceneFacts DEF Scanning
    <3> QED BY <1>1, <3>1, SceneFacts, FrameFacts DEF Scanning, Blocks, Nodes
  <2> QED BY <1>3, <2>1
<1> QED BY <1>2, <1>4, <1>5 DEF Below

\* No report of a dead guard comes from a statement that is none, or from one that
\* stands in the branch with which another guard leaves.
LEMMA ReportsJudged ==
  ASSUME Types, Scanning, InScope, Nested(program, stack, Len(stack)),
         Held(program, stack, Len(stack)), DeadGuardIsDead, Report
  PROVE  DeadGuardIsDead'
<1> DEFINE n == Len(stack)
           x == program[Here]
<1>1. /\ stack # << >> /\ program \in Programs /\ n \in 1 .. n /\ Top = stack[n]
      /\ Here \in Nodes(program) /\ Top \in Frames(program)
      /\ Span(program, Here) \subseteq Span(program, Top.block)
  BY SceneFacts, HereFacts DEF Scanning
<1>2. ASSUME NEW r \in DeadGuards(program, Top, Here)
      PROVE  IF r.outcome = "impossible" THEN TRUE \notin r.truths ELSE FALSE \notin r.truths
  <2>1. PICK y \in Top.b.narrowed :
          /\ LeavingGuard(program, x) /\ y.bound = x.n
          /\ DeadGuardOutcome(y.narrow, State(x.op, x.val)) # "undecided"
          /\ r = [kind |-> "dead", at |-> Here, name |-> y.bound,
                  outcome |-> DeadGuardOutcome(y.narrow, State(x.op, x.val)),
                  truths |-> {Truth(Top, x, e) : e \in Top.envs}]
    BY DEF DeadGuards
  <2>2. Open(program, stack, n)
    <3>1. SUFFICES ASSUME NEW k \in 1 .. n, Closed(program, stack[k].block) PROVE FALSE
      BY DEF Open
    <3>2. PICK p \in Nodes(program) : LeavingGuard(program, program[p]) /\ program[p].body = stack[k].block
      BY <3>1 DEF Closed
    <3>3. Span(program, Top.block) \subseteq Span(program, stack[k].block)
      <4>1. CASE k = n
        BY <1>1, <4>1
      <4>2. CASE k # n
        <5>1. k < n
          BY <4>2
        <5>2. Inside(program, stack[k], stack[n])
          BY <1>1, <5>1, SceneFacts
        <5> QED BY <1>1, <5>2 DEF Inside
      <4> QED BY <4>1, <4>2
    <3>4. Here \in Span(program, Here)
      <4>1. program[Here].end \in Here .. Len(program) /\ Len(program) \in Nat
        BY <1>1, Syntax
      <4> QED BY <1>1, <4>1 DEF Span, Nodes
    <3>5. NoGuardInBranch(program)
      BY DEF InScope
    <3> HIDE DEF n
    <3> QED BY <1>1, <2>1, <3>2, <3>3, <3>4, <3>5 DEF NoGuardInBranch
  <2>3. \A e \in Top.envs : Satisfies(Val(Top.scope, e, x.n), y.narrow)
    BY <1>1, <2>1, <2>2 DEF Held, Holds, Known, Meets
  <2>4. y.narrow \in States /\ State(x.op, x.val) \in States
    <3>1. Top.b.narrowed \subseteq Bindings
      BY <1>1, FrameFacts DEF Maps
    <3>2. x.val \in Values /\ x.op \in Comparisons
      BY <1>1, <2>1, IfFacts DEF LeavingGuard, RecognisedGuardShape
    <3> QED BY <3>1, <3>2 DEF Bindings, State, States
  <2>5. \A e \in Top.envs : Truth(Top, x, e) = Satisfies(Val(Top.scope, e, x.n), State(x.op, x.val))
    BY DEF Truth, Val
  <2>6. /\ r.outcome = DeadGuardOutcome(y.narrow, State(x.op, x.val))
        /\ r.truths = {Truth(Top, x, e) : e \in Top.envs} /\ r.outcome # "undecided"
    BY <2>1
  <2> DEFINE g == State(x.op, x.val)
  <2> HIDE DEF x, g
  <2>7. CASE r.outcome = "impossible"
    <3>1. \A e \in Top.envs : ~Satisfies(Val(Top.scope, e, x.n), g)
      BY <2>3, <2>4, <2>6, <2>7, OutcomeFacts DEF g
    <3> QED BY <2>5, <2>6, <2>7, <3>1 DEF g
  <2>8. CASE r.outcome # "impossible"
    <3>1. \A e \in Top.envs : Satisfies(Val(Top.scope, e, x.n), g)
      BY <2>3, <2>4, <2>6, <2>8, OutcomeFacts DEF g
    <3>2. \A e \in Top.envs : Truth(Top, x, e) = TRUE
      BY <2>5, <3>1 DEF g, Satisfies
    <3> QED BY <2>6, <2>8, <3>2
  <2> QED BY <2>7, <2>8
<1>3. \A r \in UnsafeUses(program, Top, Here) : r.kind = "unsafe"
  BY DEF UnsafeUses
<1>4. reports' = reports \cup DeadGuards(program, Top, Here) \cup UnsafeUses(program, Top, Here)
  BY DEF Report
<1> QED BY <1>2, <1>3, <1>4 DEF DeadGuardIsDead


\* The last statement of the branch with which a guard leaves is its return.
LEMMA LastOfBranch ==
  ASSUME Types, Scanning, NEW f, f.block = Top.block, f.at = Top.at + 1, Spent(program, f)
  PROVE  program[Here].kind = "return"
<1>1. /\ stack # << >> /\ program \in Programs /\ Top.at \in 1 .. Len(TopList)
      /\ TopList = program[Top.block].list /\ Here = TopList[Top.at] /\ Top.block \in Blocks(program)
  BY TopFacts, FrameFacts DEF Scanning, Types, Here
<1>2. Closed(program, Top.block) /\ Top.at + 1 > Len(TopList)
  BY <1>1 DEF Spent
<1>3. Len(TopList) \in Nat /\ program[TopList[Len(TopList)]].kind = "return"
  BY <1>1, <1>2, ClosedEnds
<1> QED BY <1>1, <1>2, <1>3

LEMMA StatementFramed ==
  ASSUME Types, Framed, InScope, ScanStatement, program' = program
  PROVE  Framed'
<1> DEFINE n == Len(stack)
           x == program[Here]
<1>1. Scanning /\ stack # << >> /\ ~ContainsFuncLit(program, Here) /\ ~Descends(x)
  BY DEF ScanStatement, Scanning
<1>2. /\ n \in Nat \ {0} /\ n \in 1 .. n /\ program \in Programs /\ Top = stack[n]
      /\ \A i \in 1 .. n : stack[i] \in Frames(program)
      /\ Here \in Nodes(program) /\ Top \in Frames(program)
      /\ Nested(program, stack, n) /\ Held(program, stack, n) /\ Leaves(program, stack, n)
  BY <1>1, SceneFacts, HereFacts DEF Framed
<1>3. /\ Len(stack') = n /\ \A i \in 1 .. n : i # n => stack'[i] = stack[i]
      /\ stack'[n].block = stack[n].block /\ stack'[n].at = Top.at + 1
      /\ stack'[n].b = Rebound(program, Here, Top.b)
      /\ stack'[n].scope = ScopeBehind(Top, x)
      /\ stack'[n].envs = EnvsBehind(program, Top, Here) /\ stack'[n].els = << >>
  BY <1>2, StatementStep
<1>4. x.kind \notin {"range", "func"}
  BY <1>1, <1>2, WritesFacts DEF InScope, NoRangeClause
<1>5. Nested(program, stack', n)
  <2>1. ASSUME NEW m \in Names PROVE stack'[n].scope[m] <= stack'[n].block
    <3>1. stack'[n].scope[m] = Top.scope[m] \/ stack'[n].scope[m] = Top.block
      BY <1>2, <1>3, ScopeFacts
    <3>2. Top.scope[m] <= Top.block /\ Top.block \in Nat
      <4>1. Top.block \in Blocks(program)
        BY <1>2, FrameFacts
      <4> QED BY <1>1, <1>2, <4>1, SceneFacts DEF Blocks, Nodes
    <3> QED BY <1>2, <1>3, <3>1, <3>2
  <2> HIDE DEF n
  <2> QED BY <1>2, <1>3, <2>1, NestedTop
<1>6. ASSUME Open(program, stack', n) PROVE Holds(stack', n, stack'[n].envs)
  <2>1. Open(program, stack, n)
    BY <1>3, <1>6 DEF Open
  <2>2. \A i \in 1 .. n : Known(stack[i], Top.envs)
    BY <1>2, <2>1 DEF Held, Holds
  <2>3. ASSUME NEW i \in 1 .. n, i # n PROVE Known(stack'[i], stack'[n].envs)
    <3>1. /\ \A m \in NamesOf(stack[i].b) : m \notin Writes(program, Here)
          /\ \A m \in Names : stack[i].scope[m] # Top.block
      BY <1>1, <1>2, <2>3, HereFacts
    <3>2. stack[i].b \in Maps /\ stack[i].scope \in [Names -> Blocks(program)]
      BY <1>2, FrameFacts
    <3>3. \A e \in Top.envs : Meets(stack[i].scope, stack[i].b, e)
      BY <2>2 DEF Known
    <3>4. \A e2 \in EnvsBehind(program, Top, Here) : Meets(stack[i].scope, stack[i].b, e2)
      BY <1>2, <1>4, <3>1, <3>2, <3>3, OuterKept
    <3> QED BY <1>3, <2>3, <3>4 DEF Known
  <2>4. Known(stack'[n], stack'[n].envs)
    <3>1. \A e \in Top.envs : Meets(Top.scope, Top.b, e)
      BY <1>2, <2>2 DEF Known
    <3>2. \A e2 \in EnvsBehind(program, Top, Here) :
            Meets(ScopeBehind(Top, x), Rebound(program, Here, Top.b), e2)
      BY <1>1, <1>2, <1>4, <3>1, OwnKept
    <3> QED BY <1>3, <3>2 DEF Known
  <2> QED BY <2>3, <2>4 DEF Holds
<1>7. Held(program, stack', n)
  <2> HIDE DEF n
  <2> QED BY <1>2, <1>3, <1>6, HeldTop
<1>8. Leaves(program, stack', n)
  <2>1. ASSUME Spent(program, stack'[n]) PROVE stack'[n].envs = {}
    <3>1. x.kind = "return"
      BY <1>1, <1>2, <1>3, <2>1, LastOfBranch
    <3>2. EnvsBehind(program, Top, Here) = {}
      <4>1. x.kind # "call" /\ x.kind \notin {"var", "rewrite", "range", "func"}
        BY <3>1
      <4> QED BY <3>1, <4>1, Zenon DEF EnvsBehind
    <3> QED BY <1>3, <3>2
  <2> HIDE DEF n
  <2> QED BY <1>2, <1>3, <2>1, LeavesTop
<1> QED BY <1>3, <1>5, <1>7, <1>8 DEF Framed

LEMMA FuncLitFramed ==
  ASSUME Types, Framed, ScanFuncLit, program' = program
  PROVE  Framed'
<1> DEFINE n == Len(stack)
<1>1. Scanning /\ stack # << >> /\ ContainsFuncLit(program, Here)
  BY DEF ScanFuncLit, Scanning
<1>2. n = 1 /\ Nested(program, stack, n) /\ Held(program, stack, n) /\ Leaves(program, stack, n)
  BY <1>1, HereFacts DEF Framed
<1>3. Top = stack[1] /\ Len(stack') = 1
  BY <1>1, <1>2, SceneFacts, FuncLitStep
<1>4. /\ stack'[1].block = stack[1].block /\ stack'[1].b = NoBindings
      /\ stack'[1].scope = stack[1].scope /\ stack'[1].els = << >>
  BY <1>2, <1>3, FuncLitStep
<1>5. Nested(program, stack', 1)
  BY <1>2, <1>4 DEF Nested
<1>6. Held(program, stack', 1)
  BY <1>4, NoBindingsFacts DEF Held, Holds, Known
<1>7. Leaves(program, stack', 1)
  BY DEF Leaves
<1> QED BY <1>3, <1>5, <1>6, <1>7 DEF Framed

LEMMA OpenFramed ==
  ASSUME Types, ScanNextBlock, program' = program
  PROVE  Framed'
<1>1. PICK blk \in Blocks(program) :
           /\ Len(stack') = 1 /\ stack'[1].block = blk /\ stack'[1].b = NoBindings
           /\ stack'[1].scope = [n \in Names |-> blk] /\ stack'[1].els = << >>
  BY OpenStep
<1>2. Nested(program, stack', 1)
  BY <1>1 DEF Nested, Blocks, Nodes
<1>3. Held(program, stack', 1)
  BY <1>1, NoBindingsFacts DEF Held, Holds, Known
<1>4. Leaves(program, stack', 1)
  BY DEF Leaves
<1> QED BY <1>1, <1>2, <1>3, <1>4 DEF Framed

LEMMA ElseFramed ==
  ASSUME Types, Framed, ScanElse, program' = program,
         Top.els # << >> => Top.els[1].at = 1 /\ Top.els[1].els = << >>
  PROVE  Framed'
<1> DEFINE n == Len(stack)
           m == n + 1
           g == Top.els[1]
<1>1. stack # << >> /\ Top.els # << >>
  BY DEF ScanElse
<1>2. /\ n \in Nat \ {0} /\ n \in 1 .. n /\ program \in Programs /\ Top = stack[n]
      /\ \A i \in 1 .. n : stack[i] \in Frames(program)
      /\ Nested(program, stack, n) /\ Held(program, stack, n) /\ Leaves(program, stack, n)
      /\ \A i \in 1 .. n : \A k \in Names : stack[i].scope[k] <= stack[i].block
  BY <1>1, SceneFacts DEF Framed
<1>3. /\ Len(stack') = m /\ \A i \in 1 .. n : i # n => stack'[i] = stack[i]
      /\ stack'[n].block = stack[n].block /\ stack'[n].at = stack[n].at
      /\ stack'[n].b = stack[n].b /\ stack'[n].scope = stack[n].scope
      /\ stack'[n].envs = stack[n].envs /\ stack'[n].els = << >>
      /\ stack'[m] = g
  BY <1>2, ElseStep
<1>4. Below(program, stack, n, g) /\ ~Closed(program, g.block)
  BY <1>1, <1>2 DEF Nested
<1>5. g.at = 1 /\ g.els = << >>
  BY <1>1
<1>6. Nested(program, stack', m)
  <2>1. Nested(program, stack', n)
    <3> HIDE DEF n
    <3> QED BY <1>2, <1>3, NestedTop
  <2>2. Below(program, stack', n, stack'[m])
    BY <1>3, <1>4 DEF Below, Inside
  <2> HIDE DEF g, n
  <2> QED BY <1>2, <1>3, <1>5, <2>1, <2>2, NestedPush
<1>7. ASSUME NEW es, Holds(stack, n, es) PROVE Holds(stack', n, es)
  BY <1>3, <1>7 DEF Holds, Known
<1>8. Held(program, stack', m)
  <2>1. Open(program, stack', n) => Open(program, stack, n)
    BY <1>3 DEF Open
  <2>2. Held(program, stack', n)
    <3>1. Open(program, stack', n) => Holds(stack', n, stack'[n].envs)
      BY <1>2, <1>3, <1>7, <2>1 DEF Held
    <3> HIDE DEF n
    <3> QED BY <1>2, <1>3, <3>1, HeldTop
  <2>3. ASSUME Open(program, stack', m) PROVE Holds(stack', m, stack'[m].envs)
    <3>1. Open(program, stack', n)
      BY <1>2, <2>3 DEF Open
    <3>2. Known(g, g.envs) /\ Holds(stack, n, g.envs)
      BY <1>1, <1>2, <2>1, <3>1 DEF Held
    <3>3. 1 .. m = 1 .. n \cup {m}
      BY <1>2
    <3> HIDE DEF m, n
    <3> QED BY <1>3, <1>7, <3>2, <3>3 DEF Holds
  <2> HIDE DEF g, n
  <2> QED BY <1>2, <1>3, <1>5, <2>2, <2>3, HeldPush
<1>9. Leaves(program, stack', m)
  <2>1. n # 1 => ~Spent(program, stack'[n])
    <3>1. n # 1 => n \in 2 .. n
      <4> HIDE DEF n
      <4> QED BY <1>2
    <3>2. n # 1 => ~Spent(program, stack[n])
      BY <1>1, <1>2, <3>1 DEF Leaves
    <3> QED BY <1>3, <3>2 DEF Spent
  <2>2. ~Spent(program, stack'[m])
    BY <1>3, <1>4 DEF Spent
  <2>3. Leaves(program, stack', n)
    <3> HIDE DEF n
    <3> QED BY <1>2, <1>3, <2>1, LeavesTop
  <2> HIDE DEF n
  <2> QED BY <1>2, <2>1, <2>2, <2>3, LeavesPush
<1> QED BY <1>3, <1>6, <1>8, <1>9 DEF Framed


LEMMA FinishFramed ==
  ASSUME Types, Framed, FinishBlock, Len(stack) # 1, program' = program
  PROVE  Framed'
<1> DEFINE n == Len(stack) - 1
           t == Len(stack)
<1>1. stack # << >> /\ Top.els = << >> /\ Top.at > Len(TopList)
  BY DEF FinishBlock
<1>2. /\ t \in Nat \ {0} /\ program \in Programs /\ Top = stack[t]
      /\ \A i \in 1 .. t : stack[i] \in Frames(program)
      /\ Nested(program, stack, t) /\ Held(program, stack, t) /\ Leaves(program, stack, t)
      /\ \A i \in 1 .. t : \A k \in Names : stack[i].scope[k] <= stack[i].block
      /\ \A i, j \in 1 .. t : i < j => Inside(program, stack[i], stack[j])
  BY <1>1, SceneFacts DEF Framed
<1>3. /\ n \in Nat \ {0} /\ n \in 1 .. n /\ t = n + 1 /\ t \in 2 .. t
      /\ 1 .. n \subseteq 1 .. t /\ 2 .. n \subseteq 2 .. t /\ t \notin 1 .. n /\ t \in 1 .. t
  <2>1. t # 1
    OBVIOUS
  <2>2. n = t - 1
    OBVIOUS
  <2> HIDE DEF t, n
  <2> QED BY <1>2, <2>1, <2>2
<1>4. /\ Len(stack') = n /\ \A i \in 1 .. n : i # n => stack'[i] = stack[i]
      /\ stack'[n].block = stack[n].block /\ stack'[n].at = stack[n].at
      /\ stack'[n].b = stack[n].b /\ stack'[n].scope = stack[n].scope
      /\ stack'[n].envs = stack[n].envs \cup Left /\ stack'[n].els = stack[n].els
  <2>1. /\ Len(stack') = Len(stack) - 1
        /\ \A i \in 1 .. (Len(stack) - 2) : stack'[i] = stack[i]
    BY FinishStep
  <2>2. \A i \in 1 .. n : i # n => i \in 1 .. (Len(stack) - 2)
    BY <1>2
  <2>3. Len(stack) > 1
    BY <1>3
  <2> QED BY <2>1, <2>2, <2>3, FinishStep
<1>5. Nested(program, stack, n) /\ Held(program, stack, n)
  <2> HIDE DEF n, t
  <2> QED BY <1>2, <1>3 DEF Nested, Held
<1>6. Leaves(program, stack, n) /\ (n # 1 => ~Spent(program, stack[n]))
  <2>1. n # 1 => n \in 2 .. n
    BY <1>3
  <2> HIDE DEF n, t
  <2> QED BY <1>2, <1>3, <2>1 DEF Leaves
<1>7. Nested(program, stack', n)
  <2>1. stack'[n].els # << >> =>
          Below(program, stack', n, stack'[n].els[1]) /\ ~Closed(program, stack'[n].els[1].block)
    <3>1. stack[n].els # << >> =>
            Below(program, stack, n, stack[n].els[1]) /\ ~Closed(program, stack[n].els[1].block)
      BY <1>3, <1>5 DEF Nested
    <3> HIDE DEF n
    <3> QED BY <1>3, <1>4, <3>1 DEF Below, Inside
  <2>2. \A k \in Names : stack'[n].scope[k] <= stack'[n].block
    BY <1>2, <1>3, <1>4
  <2> HIDE DEF n, t
  <2> QED BY <1>3, <1>4, <1>5, <2>1, <2>2, NestedTop
<1>8. ASSUME Open(program, stack, n) PROVE Holds(stack, n, Left)
  <2>1. CASE Closed(program, Top.block)
    <3>1. Top.envs = {}
      BY <1>1, <1>2, <1>3, <2>1 DEF Leaves, Spent, TopList
    <3>2. Left = {}
      BY <3>1 DEF Left
    <3> QED BY <3>2 DEF Holds, Known
  <2>2. CASE ~Closed(program, Top.block)
    <3>1. Open(program, stack, t)
      <4>1. 1 .. t = 1 .. n \cup {t}
        BY <1>3
      <4> HIDE DEF n, t
      <4> QED BY <1>2, <1>8, <2>2, <4>1 DEF Open
    <3>2. Holds(stack, t, Top.envs)
      <4> HIDE DEF n, t
      <4> QED BY <1>2, <1>3, <3>1 DEF Held
    <3>3. ASSUME NEW i \in 1 .. n, NEW e2 \in Left PROVE Meets(stack[i].scope, stack[i].b, e2)
      <4>1. PICK e \in Top.envs : e2 = [e EXCEPT ![Top.block] = Unset]
        BY DEF Left
      <4>2. Meets(stack[i].scope, stack[i].b, e)
        BY <1>3, <3>2 DEF Holds, Known
      <4>3. /\ stack[i] \in Frames(program) /\ Top \in Frames(program)
            /\ \A k \in Names : stack[i].scope[k] <= stack[i].block
            /\ Inside(program, stack[i], Top)
        <5>1. i \in 1 .. t /\ i < t
          BY <1>2, <1>3
        <5> HIDE DEF n, t
        <5> QED BY <1>2, <1>3, <5>1
      <4>4. stack[i].b \in Maps /\ stack[i].scope \in [Names -> Blocks(program)]
            /\ Top.block \in Blocks(program) /\ stack[i].block \in Blocks(program)
            /\ e \in Envs(program)
        BY <4>1, <4>3, FrameFacts
      <4>5. \A k \in Names : stack[i].scope[k] # Top.block
        <5>1. \A q \in Blocks(program) : q \in Nat
          BY DEF Blocks, Nodes
        <5> QED BY <4>3, <4>4, <5>1 DEF Inside
      <4>6. \A k \in NamesOf(stack[i].b) :
              Val(stack[i].scope, e2, k) = Val(stack[i].scope, e, k)
        <5>1. NamesOf(stack[i].b) \subseteq Names
          BY <4>4, NamesAreLocals
        <5> QED BY <4>1, <4>4, <4>5, <5>1 DEF Val, Envs
      <4> QED BY <4>2, <4>4, <4>6, MeetsKept
    <3> QED BY <3>3 DEF Holds, Known
  <2> QED BY <2>1, <2>2
<1>9. ASSUME NEW es, Holds(stack, n, es) PROVE Holds(stack', n, es)
  BY <1>4, <1>9 DEF Holds, Known
<1>10. Held(program, stack', n)
  <2>1. ASSUME Open(program, stack', n)
        PROVE  /\ Holds(stack', n, stack'[n].envs)
               /\ stack'[n].els # << >> => /\ Known(stack'[n].els[1], stack'[n].els[1].envs)
                                           /\ Holds(stack', n, stack'[n].els[1].envs)
    <3>1. Open(program, stack, n)
      BY <1>4, <2>1 DEF Open
    <3>2. /\ Holds(stack, n, stack[n].envs) /\ Holds(stack, n, Left)
          /\ stack[n].els # << >> => /\ Known(stack[n].els[1], stack[n].els[1].envs)
                                     /\ Holds(stack, n, stack[n].els[1].envs)
      BY <1>3, <1>5, <1>8, <3>1 DEF Held
    <3>3. Holds(stack, n, stack[n].envs \cup Left)
      BY <3>2 DEF Holds, Known
    <3> HIDE DEF n
    <3> QED BY <1>4, <1>9, <3>2, <3>3
  <2> HIDE DEF n
  <2> QED BY <1>3, <1>4, <1>5, <2>1, HeldTop
<1>11. Leaves(program, stack', n)
  <2>1. n # 1 => ~Spent(program, stack'[n])
    BY <1>4, <1>6 DEF Spent
  <2> HIDE DEF n
  <2> QED BY <1>3, <1>4, <1>6, <2>1, LeavesTop
<1> HIDE DEF n
<1> QED BY <1>4, <1>7, <1>10, <1>11 DEF Framed

LEMMA IfFramed ==
  ASSUME Types, Framed, ScanIf, program' = program
  PROVE  Framed'
<1> DEFINE n == Len(stack)
           m == n + 1
           x == program[Here]
           B == Rebound(program, Here, Top.b)
           body == BodyFrame(Top, x, B)
           els == ElseFrame(Top, x, B)
           yes == When(Top, x, TRUE)
           no == When(Top, x, FALSE)
           cond == State(x.op, x.val)
<1>1. Scanning /\ stack # << >> /\ ~ContainsFuncLit(program, Here) /\ Descends(x)
  BY DEF ScanIf, Scanning
<1>2. /\ n \in Nat \ {0} /\ n \in 1 .. n /\ program \in Programs /\ Top = stack[n]
      /\ \A i \in 1 .. n : stack[i] \in Frames(program)
      /\ Here \in Nodes(program) /\ Top \in Frames(program)
      /\ Nested(program, stack, n) /\ Held(program, stack, n) /\ Leaves(program, stack, n)
      /\ \A i \in 1 .. n : \A k \in Names : stack[i].scope[k] <= stack[i].block
  BY <1>1, SceneFacts, HereFacts DEF Framed
<1>3. /\ Len(stack') = m /\ \A i \in 1 .. n : i # n => stack'[i] = stack[i]
      /\ stack'[n].block = stack[n].block /\ stack'[n].at = Top.at + 1
      /\ stack'[n].b = B /\ stack'[n].scope = stack[n].scope
      /\ stack'[n].envs = PassesBy(program, Top, x)
      /\ stack'[n].els = IF PlainElse(program, x) THEN << els >> ELSE << >>
      /\ stack'[m] = body
  BY <1>2, IfStep
<1>4. /\ body.block = x.body /\ body.at = 1 /\ body.scope = Top.scope /\ body.els = << >>
      /\ body.envs = yes /\ body.b = Branch(x, cond, B)
      /\ els.block = x.els /\ els.at = 1 /\ els.scope = Top.scope /\ els.els = << >>
      /\ els.envs = no /\ els.b = Branch(x, OppositeGuardState(cond), B)
  BY DEF BodyFrame, ElseFrame, Frame
<1>5. /\ x.body \in Blocks(program) /\ x.body \in Children(x)
      /\ PlainElse(program, x) => x.els \in Children(x)
      /\ PlainElse(program, x) => ~Closed(program, x.els)
      /\ Closed(program, x.body) => LeavingGuard(program, x)
  BY <1>1, <1>2, IfFacts, ClosedFacts DEF PlainElse
<1>6. /\ B \in Maps /\ Top.b \in Maps /\ Top.scope \in [Names -> Blocks(program)]
      /\ Top.envs \in SUBSET Envs(program)
      /\ \A k \in NamesOf(B) : k \notin Writes(program, Here)
      /\ \A scope, e :
           /\ Meets(scope, Top.b, e)
           /\ LeavingGuard(program, x) => ~Satisfies(Val(scope, e, x.n), cond)
           => Meets(scope, B, e)
  BY <1>1, <1>2, FrameFacts, ReboundAtIf
<1>7. stack'[n].els # << >> => PlainElse(program, x) /\ stack'[n].els[1] = els
  BY <1>3
<1>8. /\ \A e \in yes : e \in Top.envs
                        /\ (RecognisedGuardShape(x) => Satisfies(Val(Top.scope, e, x.n), cond))
      /\ \A e \in no : e \in Top.envs
                       /\ (RecognisedGuardShape(x) => ~Satisfies(Val(Top.scope, e, x.n), cond))
  BY DEF When, Truth, Val, Satisfies
<1>9. RecognisedGuardShape(x) =>
        \A v : Satisfies(v, OppositeGuardState(cond)) <=> ~Satisfies(v, cond)
  <2>1. RecognisedGuardShape(x) => cond \in States
    BY <1>1, <1>2, IfFacts DEF RecognisedGuardShape, State, States
  <2> HIDE DEF cond
  <2> QED BY <2>1, Opposite
<1>10. LeavingGuard(program, x) => RecognisedGuardShape(x)
  BY DEF LeavingGuard
<1> HIDE DEF x, B, body, els, yes, no, cond
<1>11. /\ Below(program, stack', n, body)
       /\ PlainElse(program, x) => Below(program, stack', n, els)
  <2>1. \A g : g.block \in Children(x) /\ g.scope = Top.scope => Below(program, stack', n, g)
    <3>1. \A k \in NamesOf(stack'[n].b) : k \notin Writes(program, Here)
      BY <1>3, <1>6
    <3> QED BY <1>1, <1>2, <1>3, <3>1, BelowHere DEF x
  <2> QED BY <1>4, <1>5, <2>1
<1>12. Nested(program, stack', m)
  <2>1. Nested(program, stack', n)
    <3>1. \A k \in Names : stack'[n].scope[k] <= stack'[n].block
      BY <1>2, <1>3
    <3> HIDE DEF n
    <3> QED BY <1>2, <1>3, <1>4, <1>5, <1>7, <1>11, <3>1, NestedTop
  <2> HIDE DEF n
  <2> QED BY <1>2, <1>3, <1>4, <1>11, <2>1, NestedPush
<1>13. ASSUME Open(program, stack, n)
       PROVE  /\ \A i \in 1 .. n : \A e \in Top.envs : Meets(stack[i].scope, stack[i].b, e)
              /\ \A e \in no : Meets(Top.scope, B, e)
              /\ ~LeavingGuard(program, x) => \A e \in yes : Meets(Top.scope, B, e)
  <2>1. \A i \in 1 .. n : \A e \in Top.envs : Meets(stack[i].scope, stack[i].b, e)
    BY <1>2, <1>13 DEF Held, Holds, Known
  <2>2. \A e \in Top.envs : Meets(Top.scope, Top.b, e)
    BY <1>2, <2>1
  <2> QED BY <1>6, <1>8, <1>10, <2>1, <2>2
<1>14. ASSUME Open(program, stack, n), NEW es, es \subseteq Top.envs,
              \A e \in es : Meets(Top.scope, B, e)
       PROVE  Holds(stack', n, es)
  BY <1>2, <1>3, <1>13, <1>14 DEF Holds, Known
<1>15. ASSUME Open(program, stack, n) PROVE Holds(stack', n, stack'[n].envs)
  <2>1. ASSUME NEW i \in 1 .. n, NEW e2 \in PassesBy(program, Top, x)
        PROVE  Meets(stack'[i].scope, stack'[i].b, e2)
    <3>1. /\ stack'[i].b \in Maps /\ stack'[i].scope \in [Names -> Blocks(program)]
          /\ \A k \in NamesOf(stack'[i].b) : k \notin Writes(program, Here)
          /\ \A e \in no : Meets(stack'[i].scope, stack'[i].b, e)
      <4>1. CASE i = n
        BY <1>2, <1>3, <1>6, <1>13, <1>15, <4>1
      <4>2. CASE i # n
        <5>1. \A k \in NamesOf(stack[i].b) : k \notin Writes(program, Here)
          BY <1>1, <1>2, <4>2, HereFacts
        <5>2. stack[i].b \in Maps /\ stack[i].scope \in [Names -> Blocks(program)]
          BY <1>2, FrameFacts
        <5> QED BY <1>3, <1>8, <1>13, <1>15, <4>2, <5>1, <5>2
      <4> QED BY <4>1, <4>2
    <3> QED BY <1>1, <1>2, <2>1, <3>1, PassesByKeeps DEF x, no
  <2> QED BY <1>3, <2>1 DEF Holds, Known
<1>16. ASSUME Open(program, stack, n) PROVE Known(els, els.envs)
  <2>1. \A scope, e :
          /\ Meets(scope, B, e)
          /\ RecognisedGuardShape(x) => Satisfies(Val(scope, e, x.n), OppositeGuardState(cond))
          => Meets(scope, Branch(x, OppositeGuardState(cond), B), e)
    BY <1>1, <1>2, <1>6, BranchFacts DEF x
  <2> QED BY <1>4, <1>8, <1>9, <1>13, <1>16, <2>1 DEF Known
<1>17. ASSUME Open(program, stack, n), ~LeavingGuard(program, x) PROVE Known(body, body.envs)
  <2>1. \A scope, e :
          /\ Meets(scope, B, e)
          /\ RecognisedGuardShape(x) => Satisfies(Val(scope, e, x.n), cond)
          => Meets(scope, Branch(x, cond, B), e)
    BY <1>1, <1>2, <1>6, BranchFacts DEF x
  <2> QED BY <1>4, <1>8, <1>13, <1>17, <2>1 DEF Known
<1>18. Held(program, stack', m)
  <2>1. Open(program, stack', n) => Open(program, stack, n)
    BY <1>3 DEF Open
  <2>2. Held(program, stack', n)
    <3>1. ASSUME Open(program, stack', n)
          PROVE  /\ Holds(stack', n, stack'[n].envs)
                 /\ stack'[n].els # << >> => /\ Known(stack'[n].els[1], stack'[n].els[1].envs)
                                             /\ Holds(stack', n, stack'[n].els[1].envs)
      <4>1. Holds(stack', n, no)
        BY <1>8, <1>13, <1>14, <2>1, <3>1
      <4> QED BY <1>4, <1>7, <1>15, <1>16, <2>1, <3>1, <4>1
    <3> HIDE DEF n
    <3> QED BY <1>2, <1>3, <3>1, HeldTop
  <2>3. ASSUME Open(program, stack', m) PROVE Holds(stack', m, stack'[m].envs)
    <3>1. Open(program, stack', n) /\ 1 .. m = 1 .. n \cup {m} /\ m \in 1 .. m
      BY <1>2, <2>3 DEF Open
    <3>2. ~LeavingGuard(program, x)
      <4>1. ~Closed(program, body.block)
        BY <1>3, <2>3, <3>1 DEF Open
      <4> QED BY <1>1, <1>2, <1>4, <4>1, ClosedFacts DEF x
    <3>3. Holds(stack', n, yes)
      BY <1>8, <1>13, <1>14, <2>1, <3>1, <3>2
    <3>4. Known(body, yes)
      BY <1>4, <1>17, <2>1, <3>1, <3>2
    <3> HIDE DEF m, n
    <3> QED BY <1>3, <1>4, <3>1, <3>3, <3>4 DEF Holds
  <2> HIDE DEF n
  <2> QED BY <1>2, <1>3, <1>4, <2>2, <2>3, HeldPush
<1>19. Leaves(program, stack', m)
  <2>1. ~Spent(program, stack'[n])
    <3>1. Spent(program, stack'[n]) => x.kind = "return"
      BY <1>1, <1>2, <1>3, LastOfBranch DEF x
    <3> QED BY <1>1, <3>1 DEF Descends
  <2>2. ~Spent(program, stack'[m])
    <3>1. Closed(program, x.body) => Len(program[x.body].list) \in Nat /\ Len(program[x.body].list) >= 1
      BY <1>2, <1>5, ClosedEnds
    <3> QED BY <1>3, <1>4, <3>1 DEF Spent
  <2>3. Leaves(program, stack', n)
    <3> HIDE DEF n
    <3> QED BY <1>2, <1>3, <2>1, LeavesTop
  <2> HIDE DEF n
  <2> QED BY <1>2, <2>1, <2>2, <2>3, LeavesPush
<1> QED BY <1>3, <1>12, <1>18, <1>19 DEF Framed

LEMMA JudgedInductive ==
  /\ Init => Judged
  /\ Types /\ Walk /\ Judged /\ [Next]_vars => Judged'
<1>1. Init => Judged
  BY DEF Init, Judged, DeadGuardIsDead
<1>2. ASSUME Types, Walk, InScope, DeadGuardIsDead, stack # << >> => Framed,
             [Next]_vars, program' = program
      PROVE  DeadGuardIsDead' /\ (stack' # << >> => Framed')
  <2>1. ASSUME Scanning, Report PROVE DeadGuardIsDead' /\ Framed
    <3>1. Framed
      BY <1>2, <2>1 DEF Scanning
    <3> QED BY <1>2, <2>1, <3>1, ReportsJudged DEF Framed
  <2>2. CASE ScanFuncLit
    BY <1>2, <2>1, <2>2, FuncLitFramed DEF ScanFuncLit
  <2>3. CASE ScanStatement
    BY <1>2, <2>1, <2>3, StatementFramed DEF ScanStatement
  <2>4. CASE ScanIf
    BY <1>2, <2>1, <2>4, IfFramed DEF ScanIf
  <2>5. CASE ScanElse
    <3>1. stack # << >> /\ reports' = reports
      BY <2>5 DEF ScanElse
    <3>2. Top.els # << >> => Top.els[1].at = 1 /\ Top.els[1].els = << >>
      BY <1>2, <3>1, TopFacts DEF Walk, OnStack
    <3> QED BY <1>2, <2>5, <3>1, <3>2, ElseFramed DEF DeadGuardIsDead
  <2>6. CASE FinishBlock
    <3>1. stack # << >> /\ reports' = reports
      BY <2>6 DEF FinishBlock
    <3>2. stack' # << >> => Len(stack) # 1
      BY <1>2, <2>6, FinishStep, EmptySeq
    <3> QED BY <1>2, <2>6, <3>1, <3>2, FinishFramed DEF DeadGuardIsDead
  <2>7. CASE ScanNextBlock
    <3>1. reports' = reports
      BY <2>7 DEF ScanNextBlock
    <3> QED BY <1>2, <2>7, <3>1, OpenFramed DEF DeadGuardIsDead
  <2>8. CASE UNCHANGED vars
    BY <1>2, <2>8 DEF DeadGuardIsDead, Framed, vars
  <2> QED BY <1>2, <2>2, <2>3, <2>4, <2>5, <2>6, <2>7, <2>8 DEF Next, Done
<1> QED BY <1>1, <1>2, TypesInductive DEF Judged, InScope

\* A guard reported as dead is dead (caller_dead_guard.go:420), in every function
\* in which no range clause assigns a local and no guard stands in the branch with
\* which another one leaves: whatever calls, assignments, shadowing declarations,
\* guards, nested blocks and function literals it has, and whatever the contracts say.
THEOREM DeadGuardsAreDead == Spec => [](InScope => DeadGuardIsDead)
<1>1. Init => Types /\ Walk /\ Judged
  BY TypesInductive, WalkInductive, JudgedInductive
<1>2. Types /\ Walk /\ Judged /\ [Next]_vars => (Types /\ Walk /\ Judged)'
  BY TypesInductive, WalkInductive, JudgedInductive
<1>3. Judged => (InScope => DeadGuardIsDead)
  BY DEF Judged
<1> QED BY <1>1, <1>2, <1>3, PTL DEF Spec

-----------------------------------------------------------------------------
(* One binding per local.                                                  *)

Clear(b) ==
    /\ \A x, y \in b.pending \cup b.narrowed : x.bound = y.bound => x = y
    /\ b.pending \cap b.narrowed = {}

LEMMA NarrowingClear ==
  ASSUME NEW b \in Maps, Clear(b)
  PROVE  /\ \A ast, p : Clear(Invalidate(ast, p, b))
         /\ \A ps \in SUBSET b.pending : Clear(Promoted(b, ps))
         /\ \A name, proof : Clear(ApplyBodyNarrow(name, proof, b))
         /\ \A x, proof : Clear(Branch(x, proof, b))
<1>1. ASSUME NEW ast, NEW p PROVE Clear(Invalidate(ast, p, b))
  BY InvalidateFacts DEF Clear
<1>2. ASSUME NEW ps \in SUBSET b.pending PROVE Clear(Promoted(b, ps))
  <2>1. /\ Promoted(b, ps).pending = b.pending \ ps
        /\ Promoted(b, ps).narrowed = {x \in b.narrowed : \A p \in ps : p.bound # x.bound} \cup ps
    BY DEF Promoted
  <2> QED BY <2>1 DEF Clear
<1>3. ASSUME NEW name, NEW proof PROVE Clear(ApplyBodyNarrow(name, proof, b))
  BY <1>2 DEF ApplyBodyNarrow
<1>4. ASSUME NEW x, NEW proof PROVE Clear(Branch(x, proof, b))
  BY <1>3 DEF Branch
<1> QED BY <1>1, <1>2, <1>3, <1>4

\* A rule offers one binding at most.
LEMMA OneBinding ==
  ASSUME NEW st, NEW k, NEW y \in CondBinding(st, k), NEW z \in CondBinding(st, k)
  PROVE  y = z
<1>1. \A r : \A s, t \in RuleShape(r) : s = t
  BY DEF RuleShape
<1> QED BY <1>1 DEF CondBinding

\* A call adds bindings for locals it assigns, and the state has none for those.
LEMMA RecordClear ==
  ASSUME NEW ast \in Programs, NEW p \in Nodes(ast), NEW b \in Maps, Clear(b),
         \A y \in b.pending \cup b.narrowed : y.bound \notin Writes(ast, p)
  PROVE  Clear(RecordBindings(ast[p], b))
<1>1. CASE ast[p].kind # "call"
  BY <1>1 DEF RecordBindings
<1>2. CASE ast[p].kind = "call"
  <2> DEFINE x == ast[p]
             nils == NilBindings(x)
             narrowed == {y \in b.narrowed : \A z \in nils : z.bound # y.bound} \cup nils
             free(y) == \A z \in b.pending \cup narrowed : z.bound # y.bound
             rules == 1 .. Len(Contracts[x.callee].rules)
             first(y, k) == \A j \in 1 .. (k - 1) : \A z \in CondBinding(x, j) : z.bound # y.bound
             new == UNION {{y \in CondBinding(x, k) : free(y) /\ first(y, k)} : k \in rules}
             R == RecordBindings(x, b)
  <2>1. R.pending = b.pending \cup new /\ R.narrowed = narrowed
    <3>1. R = [pending |-> b.pending \cup new, narrowed |-> narrowed]
      BY <1>2, Zenon DEF RecordBindings
    <3> HIDE DEF new, narrowed
    <3> QED BY <3>1
  <2>2. \A y, z \in nils : y.bound = z.bound => y = z
    <3>1. \A y \in nils : \E i \in 1 .. Len(x.lhs) :
            /\ x.lhs[i] # Blank
            /\ y = [bound |-> x.lhs[i], source |-> "nil", narrow |-> State("!=", Nil),
                    guardName |-> Blank, guardNarrow |-> State("!=", Nil)]
      <4>1. ASSUME NEW y \in nils
            PROVE  \E i \in 1 .. Len(x.lhs) :
                     /\ x.lhs[i] # Blank
                     /\ y = [bound |-> x.lhs[i], source |-> "nil", narrow |-> State("!=", Nil),
                             guardName |-> Blank, guardNarrow |-> State("!=", Nil)]
        <5>1. PICK i \in {j \in Contracts[x.callee].nonnil : j <= Len(x.lhs) /\ x.lhs[j] # Blank} :
                y = [bound |-> x.lhs[i], source |-> "nil", narrow |-> State("!=", Nil),
                     guardName |-> Blank, guardNarrow |-> State("!=", Nil)]
          BY <4>1 DEF NilBindings
        <5>2. i \in 1 .. Len(x.lhs)
          BY <1>2, CallFacts DEF IsContract
        <5> QED BY <5>1, <5>2
      <4> QED BY <4>1
    <3> QED BY <3>1
  <2>3. \A y \in nils : y.bound \in Writes(ast, p)
    <3>1. ASSUME NEW y \in nils PROVE y.bound \in Writes(ast, p)
      <4>1. PICK i \in 1 .. Len(x.lhs) : y.bound = x.lhs[i] /\ x.lhs[i] # Blank
        BY <1>2, NilBindingFacts
      <4>2. x.lhs[i] \in AssignedBy(x)
        <5>1. AssignedBy(x) = Range(x.lhs)
          BY <1>2, Zenon DEF AssignedBy
        <5>2. Range(x.lhs) = {x.lhs[j] : j \in 1 .. Len(x.lhs)}
          BY <1>2, CallFacts
        <5> HIDE DEF x
        <5> QED BY <4>1, <5>1, <5>2
      <4> QED BY <4>1, <4>2, WritesFacts
    <3> QED BY <3>1
  <2>4. ASSUME NEW y \in new, NEW z \in new, y.bound = z.bound PROVE y = z
    <3>1. PICK j \in rules : y \in CondBinding(x, j) /\ first(y, j)
      OBVIOUS
    <3>2. PICK k \in rules : z \in CondBinding(x, k) /\ first(z, k)
      OBVIOUS
    <3>3. j \in Nat /\ k \in Nat /\ j >= 1 /\ k >= 1
      BY <3>1, <3>2
    <3>4. ~(j < k)
      <4>1. j < k => j \in 1 .. (k - 1)
        BY <3>3
      <4> QED BY <2>4, <3>1, <3>2, <4>1
    <3>5. ~(k < j)
      <4>1. k < j => k \in 1 .. (j - 1)
        BY <3>3
      <4> QED BY <2>4, <3>1, <3>2, <4>1
    <3>6. j = k
      BY <3>3, <3>4, <3>5
    <3> HIDE DEF rules, first, x
    <3> QED BY <3>1, <3>2, <3>6, OneBinding
  <2>5. \A y \in new : \A z \in b.pending \cup narrowed : z.bound # y.bound
    OBVIOUS
  <2>6. narrowed \subseteq b.narrowed \cup nils
    OBVIOUS
  <2>7. \A y \in b.pending \cup b.narrowed : \A z \in nils : y.bound # z.bound
    BY <2>3
  <2> HIDE DEF new, narrowed, nils, R
  <2>8. \A y, z \in b.pending \cup b.narrowed : y.bound = z.bound => y = z
    BY DEF Clear
  <2>9. \A y, z \in R.pending \cup R.narrowed : y.bound = z.bound => y = z
    BY <2>1, <2>2, <2>4, <2>5, <2>6, <2>7, <2>8
  <2>10. R.pending \cap R.narrowed = {}
    BY <2>1, <2>5, <2>6, <2>7 DEF Clear
  <2> QED BY <2>9, <2>10 DEF Clear, R
<1> QED BY <1>1, <1>2

LEMMA ReboundClear ==
  ASSUME NEW ast \in Programs, NEW p \in Nodes(ast), NEW b \in Maps, Clear(b)
  PROVE  Clear(Rebound(ast, p, b))
<1> DEFINE inv == Invalidate(ast, p, b)
           B == PromoteOnGuard(ast, ast[p], inv)
<1>1. inv \in Maps /\ Clear(inv) /\ \A m \in NamesOf(inv) : m \notin Writes(ast, p)
  BY InvalidateFacts, NarrowingClear
<1> HIDE DEF inv
<1>2. B \in Maps /\ NamesOf(B) \subseteq NamesOf(inv)
  BY <1>1, PromoteFacts
<1>3. Clear(B)
  <2>1. CASE ~LeavingGuard(ast, ast[p])
    BY <1>1, <2>1 DEF PromoteOnGuard
  <2>2. CASE LeavingGuard(ast, ast[p])
    <3> DEFINE x == ast[p]
               through == OppositeGuardState(State(x.op, x.val))
               C == ApplyBodyNarrow(x.n, through, inv)
               ps == {y \in C.pending : y.bound = x.n /\ y.narrow = through}
    <3>1. B = Promoted(C, ps)
      BY <2>2, Zenon DEF PromoteOnGuard
    <3>2. x.n \in Names
      BY <2>2, IfFacts DEF LeavingGuard
    <3>3. ps \in SUBSET C.pending
      OBVIOUS
    <3> HIDE DEF ps, through, x
    <3>4. C \in Maps /\ Clear(C)
      BY <1>1, <3>2, ApplyFacts, NarrowingClear
    <3> HIDE DEF C
    <3> QED BY <3>1, <3>3, <3>4, NarrowingClear
  <2> QED BY <2>1, <2>2
<1>4. \A y \in B.pending \cup B.narrowed : y.bound \notin Writes(ast, p)
  BY <1>1, <1>2, NamesAreLocals
<1> HIDE DEF B
<1>5. Clear(RecordBindings(ast[p], B))
  BY <1>2, <1>3, <1>4, RecordClear
<1> QED BY <1>5 DEF Rebound, B, inv

Distinct ==
    \A i \in 1 .. Len(stack) :
      /\ Clear(stack[i].b)
      /\ stack[i].at <= Len(program[stack[i].block].list) + 1
      /\ stack[i].els # << >> => Clear(stack[i].els[1].b)

LEMMA DistinctInductive ==
  /\ Init => Distinct
  /\ Types /\ Walk /\ Distinct /\ [Next]_vars => Distinct'
<1>1. Init => Distinct
  BY DEF Init, Distinct
<1>2. ASSUME NEW q \in Blocks(program), Types PROVE Len(program[q].list) \in Nat
  BY <1>2, ListFacts DEF Types
<1>3. ASSUME Types, Walk, Distinct, [Next]_vars, program' = program PROVE Distinct'
  <2> DEFINE n == Len(stack)
             t == Len(stack')
             OK(f) == /\ Clear(f.b) /\ f.at <= Len(program[f.block].list) + 1
                      /\ f.els # << >> => Clear(f.els[1].b)
  <2>1. ASSUME stack # << >>
        PROVE  /\ n \in Nat /\ n >= 1 /\ Top = stack[n] /\ program \in Programs
               /\ \A i \in 1 .. n : OK(stack[i])
               /\ Top.block \in Blocks(program) /\ Top.b \in Maps /\ Clear(Top.b)
               /\ Scanning => /\ Top.at + 1 <= Len(program[Top.block].list) + 1
                              /\ Here \in Nodes(program)
    <3>1. \A i \in 1 .. n : OK(stack[i])
      BY <1>3 DEF Distinct
    <3>2. /\ n \in Nat /\ n >= 1 /\ Top = stack[n] /\ program \in Programs
          /\ Top.block \in Blocks(program) /\ Top.b \in Maps
      BY <1>3, <2>1, TopFacts, FrameFacts DEF Types
    <3>3. Scanning => Top.at + 1 <= Len(program[Top.block].list) + 1 /\ Here \in Nodes(program)
      BY <1>3, <2>1, TopFacts
    <3> QED BY <3>1, <3>2, <3>3
  <2>2. ASSUME Scanning, t = n, \A i \in 1 .. (n - 1) : stack'[i] = stack[i],
               stack'[n].block = Top.block, stack'[n].at = Top.at + 1,
               stack'[n].els = << >>, Clear(stack'[n].b)
        PROVE  Distinct'
    <3>1. stack # << >>
      BY <2>2 DEF Scanning
    <3>2. OK(stack'[n])
      BY <2>1, <2>2, <3>1
    <3>3. \A i \in 1 .. n : i = n \/ i \in 1 .. (n - 1)
      BY <2>1, <3>1
    <3>4. \A i \in 1 .. t : OK(stack'[i])
      BY <2>1, <2>2, <3>1, <3>2, <3>3
    <3> QED BY <1>3, <3>4 DEF Distinct
  <2>3. CASE ScanFuncLit
    <3>1. Clear(NoBindings)
      BY DEF Clear, NoBindings
    <3>2. Scanning
      BY <2>3 DEF ScanFuncLit
    <3> QED BY <1>3, <2>2, <2>3, <3>1, <3>2, FuncLitStep
  <2>4. CASE ScanStatement
    <3>1. Scanning /\ stack # << >>
      BY <2>4 DEF ScanStatement, Scanning
    <3>2. Clear(Rebound(program, Here, Top.b))
      BY <2>1, <3>1, ReboundClear
    <3> QED BY <1>3, <2>2, <2>4, <3>1, <3>2, StatementStep
  <2>5. CASE ScanIf
    <3> DEFINE x == program[Here]
               B == Rebound(program, Here, Top.b)
    <3>1. Scanning /\ stack # << >> /\ Descends(x)
      BY <2>5 DEF ScanIf, Scanning
    <3>2. /\ t = n + 1 /\ \A i \in 1 .. (n - 1) : stack'[i] = stack[i]
          /\ stack'[n].block = Top.block /\ stack'[n].at = Top.at + 1 /\ stack'[n].b = B
          /\ stack'[n].els = IF PlainElse(program, x) THEN << ElseFrame(Top, x, B) >> ELSE << >>
          /\ stack'[n + 1] = BodyFrame(Top, x, B) /\ B \in Maps
      BY <1>3, <2>5, IfStep
    <3>3. Clear(B)
      BY <2>1, <3>1, ReboundClear
    <3>4. /\ BodyFrame(Top, x, B).block = x.body /\ BodyFrame(Top, x, B).at = 1
          /\ BodyFrame(Top, x, B).els = << >>
          /\ BodyFrame(Top, x, B).b = Branch(x, State(x.op, x.val), B)
          /\ ElseFrame(Top, x, B).b = Branch(x, OppositeGuardState(State(x.op, x.val)), B)
      BY DEF BodyFrame, ElseFrame, Frame
    <3>5. x.body \in Blocks(program)
      BY <2>1, <3>1, IfFacts
    <3>6. Len(program[x.body].list) \in Nat
      BY <1>2, <1>3, <3>5
    <3> HIDE DEF B, x
    <3>7. OK(stack'[n + 1])
      BY <3>2, <3>3, <3>4, <3>6, NarrowingClear
    <3>8. OK(stack'[n])
      <4>1. Clear(ElseFrame(Top, x, B).b)
        BY <3>2, <3>3, <3>4, NarrowingClear
      <4>2. stack'[n].els # << >> => stack'[n].els[1] = ElseFrame(Top, x, B)
        BY <3>2
      <4> QED BY <2>1, <3>1, <3>2, <3>3, <4>1, <4>2
    <3>9. \A i \in 1 .. (n + 1) : i = n + 1 \/ i = n \/ i \in 1 .. (n - 1)
      BY <2>1, <3>1
    <3>10. \A i \in 1 .. (n - 1) : OK(stack'[i])
      <4>1. \A i \in 1 .. (n - 1) : i \in 1 .. n /\ stack'[i] = stack[i]
        BY <2>1, <3>1, <3>2
      <4>2. \A i \in 1 .. n : OK(stack[i])
        BY <2>1
      <4> HIDE DEF OK, n
      <4> QED BY <4>1, <4>2
    <3>11. \A i \in 1 .. t : OK(stack'[i])
      <4> HIDE DEF n, t, OK
      <4> QED BY <3>2, <3>7, <3>8, <3>9, <3>10
    <3> QED BY <1>3, <3>11 DEF Distinct
  <2>6. CASE ScanElse
    <3>1. stack # << >> /\ Top.els # << >>
      BY <2>6 DEF ScanElse
    <3>2. /\ t = n + 1 /\ \A i \in 1 .. (n - 1) : stack'[i] = stack[i]
          /\ stack'[n].block = Top.block /\ stack'[n].at = Top.at /\ stack'[n].b = Top.b
          /\ stack'[n].els = << >> /\ stack'[n + 1] = Top.els[1]
          /\ Top.els[1] \in Scans(program)
      BY <1>3, <2>6, ElseStep
    <3>3. n \in 1 .. n
      BY <2>1, <3>1
    <3>4. OK(stack'[n + 1])
      <4> DEFINE g == Top.els[1]
      <4>1. g.at = 1 /\ Clear(g.b)
        BY <1>3, <2>1, <3>1, <3>3 DEF Walk, OnStack
      <4>2. g.block \in Blocks(program) /\ g.els = << >>
        BY <3>2, ScanIsFrame, FrameFacts
      <4>3. Len(program[g.block].list) \in Nat
        BY <1>2, <1>3, <4>2
      <4>4. stack'[n + 1] = g
        BY <3>2
      <4> HIDE DEF g
      <4>5. g.at <= Len(program[g.block].list) + 1
        BY <4>1, <4>3
      <4>6. OK(g)
        BY <4>1, <4>2, <4>5
      <4> HIDE DEF OK
      <4> QED BY <4>4, <4>6
    <3>5. OK(stack'[n])
      BY <2>1, <3>1, <3>2, <3>3
    <3>6. \A i \in 1 .. (n + 1) : i = n + 1 \/ i = n \/ i \in 1 .. (n - 1)
      BY <2>1, <3>1
    <3>7. \A i \in 1 .. (n - 1) : OK(stack'[i])
      <4>1. \A i \in 1 .. (n - 1) : i \in 1 .. n /\ stack'[i] = stack[i]
        BY <2>1, <3>1, <3>2
      <4>2. \A i \in 1 .. n : OK(stack[i])
        BY <2>1
      <4> HIDE DEF OK, n
      <4> QED BY <4>1, <4>2
    <3>8. \A i \in 1 .. t : OK(stack'[i])
      <4> HIDE DEF n, t, OK
      <4> QED BY <3>2, <3>4, <3>5, <3>6, <3>7
    <3> QED BY <1>3, <3>8 DEF Distinct
  <2>7. CASE FinishBlock
    <3>1. /\ stack # << >> /\ t = n - 1
          /\ \A i \in 1 .. (n - 2) : stack'[i] = stack[i]
          /\ n > 1 => /\ stack'[n - 1].block = stack[n - 1].block
                      /\ stack'[n - 1].at = stack[n - 1].at
                      /\ stack'[n - 1].b = stack[n - 1].b
                      /\ stack'[n - 1].els = stack[n - 1].els
      BY <1>3, <2>7, FinishStep
    <3>2. \A i \in 1 .. (n - 1) : i \in 1 .. n /\ (i \in 1 .. (n - 2) \/ (n > 1 /\ i = n - 1))
      BY <2>1, <3>1
    <3>3. \A i \in 1 .. t : OK(stack'[i])
      BY <2>1, <3>1, <3>2
    <3> QED BY <1>3, <3>3 DEF Distinct
  <2>8. CASE ScanNextBlock
    <3>1. PICK blk \in Blocks(program) :
            /\ Len(stack') = 1 /\ stack'[1].block = blk /\ stack'[1].at = 1
            /\ stack'[1].b = NoBindings /\ stack'[1].els = << >>
      BY <1>3, <2>8, OpenStep
    <3>2. Clear(NoBindings)
      BY DEF Clear, NoBindings
    <3>3. Len(program[blk].list) \in Nat
      BY <1>2, <1>3
    <3> QED BY <1>3, <3>1, <3>2, <3>3 DEF Distinct
  <2>9. CASE UNCHANGED vars
    BY <1>3, <2>9 DEF Distinct, vars
  <2> QED BY <1>3, <2>3, <2>4, <2>5, <2>6, <2>7, <2>8, <2>9 DEF Next, Done
<1> QED BY <1>1, <1>3, TypesInductive

\* The walk holds one binding per local, in one of its two maps, for every function:
\* a report can name the contract it rests on (caller_dead_guard.go:438).
THEOREM BindingsAreUnique == Spec => []TypeOK
<1>1. Init => Types /\ Walk /\ Distinct
  BY TypesInductive, WalkInductive, DistinctInductive
<1>2. Types /\ Walk /\ Distinct /\ [Next]_vars => (Types /\ Walk /\ Distinct)'
  BY TypesInductive, WalkInductive, DistinctInductive
<1>3. ASSUME Types, Walk, Distinct PROVE TypeOK
  <2>1. ASSUME NEW i \in 1 .. Len(stack)
        PROVE  LET f == stack[i] IN
               /\ f.block \in scanned /\ f.at \in 1 .. (Len(program[f.block].list) + 1)
               /\ f.scope \in [Names -> Blocks(program)]
               /\ f.envs \subseteq [Blocks(program) -> [Names -> Values]]
               /\ \A x, y \in f.b.pending \cup f.b.narrowed : x.bound = y.bound => x = y
               /\ f.b.pending \cap f.b.narrowed = {}
    <3> DEFINE f == stack[i]
    <3>1. f \in Frames(program) /\ program \in Programs
      BY <1>3, ElementOfSeq DEF Types
    <3>2. f.block \in scanned
      BY <1>3 DEF Walk, OnStack
    <3>3. Clear(f.b) /\ f.at <= Len(program[f.block].list) + 1
      BY <1>3 DEF Distinct
    <3> HIDE DEF f
    <3>4. f.block \in Blocks(program) /\ f.at \in Nat \ {0}
          /\ f.scope \in [Names -> Blocks(program)] /\ f.envs \in SUBSET Envs(program)
      BY <3>1, FrameFacts
    <3>5. Len(program[f.block].list) \in Nat
      BY <1>2, <1>3, <3>1, <3>4, ListFacts
    <3>6. f.at \in 1 .. (Len(program[f.block].list) + 1)
      BY <3>3, <3>4, <3>5
    <3> QED BY <3>2, <3>3, <3>4, <3>6 DEF Clear, Envs, f
  <2> QED BY <2>1, Zenon DEF TypeOK
<1> QED BY <1>1, <1>2, <1>3, PTL DEF Spec

=============================================================================
